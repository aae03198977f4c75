------------------------------ MODULE FileLock ------------------------------
(***************************************************************************)
(* The locks of the filelock library as the code uses them                 *)
(* (code_index.py:383, workspace.py:141): acquired in one thread of the    *)
(* pool of asyncio.to_thread and released in one.  The library keeps the   *)
(* lock of a FileLock object per thread, so a release in another thread    *)
(* than that of the acquisition does nothing and the lock stays with the   *)
(* process until the process ends.                                         *)
(***************************************************************************)
CONSTANTS
  Locks,      \* the lock files
  None        \* nobody

VARIABLE
  holder      \* holder[l]: the job and the process that have lock l

Free == [job |-> None, process |-> None]
HeldBy(j, p) == [job |-> j, process |-> p]

\* Deviation: the fields swapped.
LostInSwapped(p) == [job |-> p, process |-> None]

\* Nobody will release a lock that process p has lost track of.
LostIn(p) == [job |-> None, process |-> p]

LockInit == holder = [l \in Locks |-> Free]

\* Deviation: an acquisition that does not look.
ObtainAlways(l, owner) == holder' = [holder EXCEPT ![l] = owner]

Obtain(l, owner) ==
  /\ holder[l] = Free
  /\ holder' = [holder EXCEPT ![l] = owner]

\* A release in the thread of the acquisition, or in another one.
LetGo(l) ==
  \E after \in {Free, LostIn(holder[l].process)} :
    holder' = [holder EXCEPT ![l] = after]

\* The locks once process p has ended.
WithoutProcess(p) ==
  [l \in Locks |-> IF holder[l].process = p THEN Free ELSE holder[l]]
=============================================================================
