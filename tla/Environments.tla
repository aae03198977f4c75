---------------------------- MODULE Environments ----------------------------
(***************************************************************************)
(* The sandboxes of one worker host: the warm pool and the workspaces of   *)
(* DockerEnvironmentProvider (runtime/workspace.py), the environment       *)
(* leases (repositories.py) and what _execute (orchestrator.py) does with  *)
(* them.                                                                   *)
(*                                                                         *)
(* A workspace is a directory, either in a slot, where the container of    *)
(* the slot sees it, or saved under workspace_root.  An execution claims a *)
(* slot, moves the saved workspace of its task there or populates a new    *)
(* one, and in its finally block destroys or saves the workspace and gives *)
(* the slot back.                                                          *)
(*                                                                         *)
(* Slots and containers are created by prepare, at start-up; a slot keeps  *)
(* its name here over a restart, when nothing that remembers the old one   *)
(* is left.  cache_root and workspace_root are on one file system, where   *)
(* a move happens entirely or not at all.  queue has the tasks with an     *)
(* entry nobody has been given; Orchestrator has the whole protocol.  A    *)
(* graceful stop leaves what a crash and the start after it leave: every   *)
(* workspace saved and no status changed.                                  *)
(***************************************************************************)
EXTENDS TaskStates, Naturals, Sequences, FiniteSets, Functions

CONSTANTS
  Workers,    \* worker loops of the process
  Slots,      \* warm containers, each with its directory on the host
  Spaces,     \* workspaces, by environment_id
  None,       \* no task, slot or workspace
  MaxTrouble  \* bound: retries, cancels, restarts, incomplete and failing clean-ups

ASSUME PoolAssumption == IsFiniteSet(Slots) /\ Slots # {}

ASSUME NoneAssumption == None \notin Tasks \cup Slots \cup Spaces

ASSUME PlacesAssumption == {"saved", "gone"} \cap Slots = {}

ASSUME TroubleAssumption == MaxTrouble \in Nat

VARIABLES
  status,     \* tasks.status
  home,       \* tasks.environment_id
  queue,      \* tasks with an entry nobody has been given
  signals,    \* tasks whose cancel has committed and not yet looked for them
  exec,       \* exec[w]: the local variables of the execution of worker w
  pool,       \* the free slots, in the order they will be claimed
  place,      \* place[e]: the slot workspace e is in, "saved" or "gone"
  litter,     \* workspaces that were removed, but not to the last file
  made,       \* made[e]: the task whose branch workspace e has checked out
  lease,      \* lease[e]: status of the lease row of e
  dropped,    \* slots whose holder was hit in its clean-up or could not move
  trouble     \* how much of that there has been

table == <<status, home, queue, signals>>
host == <<pool, place, litter, made, dropped>>
vars == <<table, exec, host, lease, trouble>>

\* Inside the try of _execute; "await" waits for a slot.
Body == {"load", "await", "attaching", "populating", "adopt", "lease", "run",
         "stop"}

Handlers == {"failed", "mark", "cancelled"}

Places == Body \cup Handlers \cup {"idle", "closing", "releasing"}

\* The place, the task, the status the execution knows of, its workspace, the
\* slot it has claimed, and whether release will destroy the workspace.
Executions == [at : Places, on : Tasks \cup {None}, view : Status,
               space : Spaces \cup {None}, slot : Slots \cup {None},
               doomed : BOOLEAN]

NoExecution == [at |-> "idle", on |-> None, view |-> "queued", space |-> None,
                slot |-> None, doomed |-> FALSE]

\* The orders in which prepare can put the slots into the pool.
Fillings == Injection(1..Cardinality(Slots), Slots)

EnvTypeOK ==
  /\ status \in [Tasks -> Status]
  /\ home \in [Tasks -> Spaces \cup {None}]
  /\ queue \subseteq Tasks
  /\ signals \subseteq Tasks
  /\ exec \in [Workers -> Executions]
  /\ pool \in Seq(Slots)
  /\ place \in [Spaces -> Slots \cup {"saved", "gone"}]
  /\ litter \subseteq Spaces
  /\ made \in [Spaces -> Tasks \cup {None}]
  /\ lease \in [Spaces -> {"none", "busy", "ready", "stopped"}]
  /\ dropped \subseteq Slots
  /\ trouble \in Nat
  /\ \A w \in Workers : (exec[w].at = "idle") <=> (exec[w].on = None)

\* Tasks are submitted and queued, the process has started.
Init ==
  /\ status = [t \in Tasks |-> "queued"]
  /\ home = [t \in Tasks |-> None]
  /\ queue = Tasks
  /\ signals = {}
  /\ exec = [w \in Workers |-> NoExecution]
  /\ pool \in Fillings
  /\ place = [e \in Spaces |-> "gone"]
  /\ litter = {}
  /\ made = [e \in Spaces |-> None]
  /\ lease = [e \in Spaces |-> "none"]
  /\ dropped = {}
  /\ trouble = 0

Trouble == trouble < MaxTrouble /\ trouble' = trouble + 1

At(w, p) == exec[w].at = p
On(w) == exec[w].on

Becomes(w, x) == exec' = [exec EXCEPT ![w] = x]
Goto(w, p) == exec' = [exec EXCEPT ![w].at = p]

\* self._running.
Running(t) == \E w \in Workers : On(w) = t

\* A new environment_id: nothing on disk, in a row or in a coroutine has it.
Fresh(e) ==
  /\ place[e] = "gone"
  /\ \A t \in Tasks : home[t] # e
  /\ \A w \in Workers : exec[w].space # e

SetStatus(t, s) == status' = [status EXCEPT ![t] = s]

\* Deviation: self._running keeps the task.
LeaveRunning(w) == Becomes(w, [NoExecution EXCEPT !.on = On(w)])

\* The execution is over: its local variables are gone.
Leave(w) == Becomes(w, NoExecution)
-----------------------------------------------------------------------------
(***************************************************************************)
(* _execute, up to the agent.                                              *)
(***************************************************************************)
\* An entry of a task that is in self._running is acked as a duplicate.
Take(w) ==
  /\ At(w, "idle")
  /\ \E t \in queue :
       /\ queue' = queue \ {t}
       /\ IF Running(t) THEN UNCHANGED exec
          ELSE Becomes(w, [NoExecution EXCEPT !.at = "load", !.on = t])
  /\ UNCHANGED <<status, home, signals, host, lease, trouble>>

\* A finished task is left alone; a queued one becomes PROVISIONING.
Load(w) ==
  /\ At(w, "load")
  /\ LET t == On(w)
         s == IF status[t] = "queued" THEN "provisioning" ELSE status[t]
     IN  IF status[t] \in Finished
         THEN Leave(w) /\ UNCHANGED status
         ELSE /\ SetStatus(t, s)
              /\ Becomes(w, [exec[w] EXCEPT !.at = "await", !.view = s])
  /\ UNCHANGED <<home, queue, signals, host, lease, trouble>>

HasSaved(t) == home[t] # None /\ place[home[t]] = "saved"

\* The oldest free slot; nobody gets one while there is none.
Claim(w, p) ==
  /\ At(w, "await")
  /\ pool # <<>>
  /\ Becomes(w, [exec[w] EXCEPT !.at = p, !.slot = Head(pool)])
  /\ pool' = Tail(pool)

\* attach: the saved workspace is moved into the slot.
Attach(w) ==
  /\ Claim(w, "attaching")
  /\ HasSaved(On(w))
  /\ place' = [place EXCEPT ![home[On(w)]] = Head(pool)]
  /\ UNCHANGED <<table, litter, made, lease, dropped, trouble>>

\* allocate: a new directory in the slot.
Allocate(w) ==
  /\ Claim(w, "populating")
  /\ ~HasSaved(On(w))
  /\ \E e \in Spaces : Fresh(e)
  /\ LET e == CHOOSE e \in Spaces : Fresh(e) IN
       /\ place' = [place EXCEPT ![e] = Head(pool)]
       /\ made' = [made EXCEPT ![e] = On(w)]
       /\ lease' = [lease EXCEPT ![e] = "none"]
  /\ UNCHANGED <<table, litter, dropped, trouble>>

\* mkdir raises, outside the try of allocate.
MkdirFails(w) ==
  /\ At(w, "await")
  /\ ~HasSaved(On(w))
  /\ Trouble
  /\ pool # <<>>
  /\ pool' = Tail(pool)
  /\ dropped' = dropped \cup {Head(pool)}
  /\ Goto(w, "failed")
  /\ UNCHANGED <<table, place, litter, made, lease>>

\* The tree w attaches or populates, beside the litter of its slot.
InSlot(w) == CHOOSE e \in Spaces \ litter : place[e] = exec[w].slot

(***************************************************************************)
(* rmtree with ignore_errors: the directory is gone, or something in it    *)
(* cannot be removed, such as a file the container has written as root,    *)
(* and it stays where it is.                                               *)
(***************************************************************************)
Removed(e) ==
  \/ place' = [place EXCEPT ![e] = "gone"] /\ UNCHANGED <<litter, trouble>>
  \/ Trouble /\ litter' = litter \cup {e} /\ UNCHANGED place

\* The container is healthy and every repository is there; or is cloned.
Furnished(w) ==
  /\ At(w, "attaching") \/ At(w, "populating")
  /\ Becomes(w, [exec[w] EXCEPT !.at = "adopt", !.space = InSlot(w)])
  /\ UNCHANGED <<table, host, lease, trouble>>

\* What becomes of the tree: moved back, or removed.
Withdrawn(w) ==
  IF At(w, "attaching")
  THEN place' = [place EXCEPT ![InSlot(w)] = "saved"] /\ UNCHANGED <<litter, trouble>>
  ELSE Removed(InSlot(w))

Unclaimed(w, p) == Becomes(w, [exec[w] EXCEPT !.at = p, !.slot = None])

\* Deviation: the slot is not put back.
UndoKeepsSlot(w, p) ==
  Withdrawn(w) /\ Unclaimed(w, p) /\ UNCHANGED <<pool, dropped>>

(***************************************************************************)
(* The except blocks of attach, which moves the workspace back, and of     *)
(* allocate, which removes the directory.  Both free the slot.             *)
(***************************************************************************)
Undo(w, p) ==
  /\ Withdrawn(w)
  /\ Unclaimed(w, p)
  /\ pool' = Append(pool, exec[w].slot)
  /\ UNCHANGED dropped

(***************************************************************************)
(* The move back raises.  Its exception, also in the place of a            *)
(* CancelledError, goes to except Exception, and the slot stays claimed.   *)
(***************************************************************************)
UndoFails(w) ==
  /\ At(w, "attaching")
  /\ Trouble
  /\ Unclaimed(w, "failed")
  /\ dropped' = dropped \cup {exec[w].slot}
  /\ UNCHANGED <<pool, place, litter>>

\* The container or the workspace is not healthy, or a clone fails.
FurnishFails(w) ==
  /\ At(w, "attaching") \/ At(w, "populating")
  /\ Undo(w, "failed") \/ UndoFails(w)
  /\ UNCHANGED <<table, made, lease>>

(***************************************************************************)
(* PROVISIONING becomes RUNNING, with the environment; a task found        *)
(* RUNNING gets its environment replaced, without a look at its version.   *)
(***************************************************************************)
AdoptAs(w, e) ==
  /\ At(w, "adopt")
  /\ LET t == On(w)
         view == exec[w].view
     IN  /\ view = "provisioning" => Legal(status[t], "running")
         /\ SetStatus(t, IF view = "provisioning" THEN "running" ELSE status[t])
         /\ home' = [home EXCEPT ![t] =
                       IF view \in {"provisioning", "running"} THEN e ELSE @]
  /\ Goto(w, "lease")
  /\ UNCHANGED <<queue, signals, host, lease, trouble>>

\* Deviation: environment_id is not written with RUNNING.
AdoptNamelessly(w) == AdoptAs(w, home[On(w)])

Adopt(w) == AdoptAs(w, exec[w].space)

\* upsert and mark of the lease, on the way from place p to q.
Lease(w, p, l, q) ==
  /\ At(w, p)
  /\ lease' = [lease EXCEPT ![exec[w].space] = l]
  /\ Goto(w, q)
  /\ UNCHANGED <<table, host, trouble>>

MarkBusy(w) == Lease(w, "lease", "busy", "run")
MarkStopped(w) == Lease(w, "stop", "stopped", "closing")
MarkReady(w) == Lease(w, "mark", "ready", "closing")

\* The agent is done and COMPLETED is committed.
Complete(w) ==
  /\ At(w, "run")
  /\ Legal(status[On(w)], "completed")
  /\ SetStatus(On(w), "completed")
  /\ Goto(w, "stop")
  /\ UNCHANGED <<home, queue, signals, host, lease, trouble>>
-----------------------------------------------------------------------------
(***************************************************************************)
(* Handlers and clean-up.                                                  *)
(***************************************************************************)
\* A call raises: to the database, the agent, the publisher, a transition
\* that is not allowed any more or lost a race.
Fail(w) ==
  /\ exec[w].at \in {"load", "adopt", "lease", "run", "stop"}
  /\ Goto(w, "failed")
  /\ UNCHANGED <<table, host, lease, trouble>>

\* except Exception: FAILED, unless the task is finished; the lease next.
HandleFailure(w) ==
  /\ At(w, "failed")
  /\ IF status[On(w)] \in Finished
     THEN Goto(w, "closing") /\ UNCHANGED status
     ELSE /\ SetStatus(On(w), "failed")
          /\ Goto(w, IF exec[w].space = None THEN "closing" ELSE "mark")
  /\ UNCHANGED <<home, queue, signals, host, lease, trouble>>

Cancelled(t) == IF status[t] = "cancelling" THEN "cancelled" ELSE status[t]

\* except CancelledError: the lease stays as it is.
HandleCancel(w) ==
  /\ At(w, "cancelled")
  /\ SetStatus(On(w), Cancelled(On(w)))
  /\ Goto(w, "closing")
  /\ UNCHANGED <<home, queue, signals, host, lease, trouble>>

\* A database call in a handler raises.
HandlerFails(w) ==
  /\ exec[w].at \in Handlers
  /\ Trouble
  /\ Goto(w, "closing")
  /\ UNCHANGED <<table, host, lease>>

\* Deviation: the workspace of a failed task is destroyed as well.
DoomedWhenFinished(t) == status[t] \in Finished

Doomed(t) == status[t] \in {"completed", "cancelled"}

\* finally: the heartbeat is gone, the task is read again.
Close(w) ==
  /\ At(w, "closing")
  /\ IF exec[w].space = None
     THEN Leave(w)
     ELSE Becomes(w, [exec[w] EXCEPT !.at = "releasing", !.doomed = Doomed(On(w))])
  /\ UNCHANGED <<table, host, lease, trouble>>

\* release: the workspace is removed or kept, the slot is put back.
ReleaseTo(w, kept) ==
  /\ At(w, "releasing")
  /\ IF exec[w].doomed THEN Removed(exec[w].space)
     ELSE /\ place' = [place EXCEPT ![exec[w].space] = kept]
          /\ UNCHANGED <<litter, trouble>>
  /\ pool' = Append(pool, exec[w].slot)
  /\ Leave(w)
  /\ UNCHANGED <<table, made, lease, dropped>>

\* Deviation: a workspace that is kept stays in its slot.
ReleaseInPlace(w) == ReleaseTo(w, place[exec[w].space])

Release(w) == ReleaseTo(w, "saved")

\* The finally block ends before the slot is put back: nothing frees it again.
AbandonSlot(w) ==
  /\ exec[w].space # None
  /\ dropped' = dropped \cup {exec[w].slot}
  /\ Leave(w)
  /\ UNCHANGED <<pool, place, litter>>

\* The move to workspace_root raises; _execute suppresses it.
ReleaseFails(w) ==
  /\ At(w, "releasing")
  /\ ~exec[w].doomed
  /\ Trouble
  /\ AbandonSlot(w)
  /\ UNCHANGED <<table, made, lease>>

\* The heartbeat has died of an error, or reading the task raises.
CleanupFails(w) ==
  /\ At(w, "closing")
  /\ Trouble
  /\ AbandonSlot(w)
  /\ UNCHANGED <<table, made, lease>>
-----------------------------------------------------------------------------
(***************************************************************************)
(* Requests, crashes and restarts.                                         *)
(***************************************************************************)
Retry(t) ==
  /\ status[t] = "failed"
  /\ Trouble
  /\ SetStatus(t, "queued")
  /\ queue' = queue \cup {t}
  /\ UNCHANGED <<home, signals, exec, host, lease>>

\* cancel commits CANCELLING.
Cancel(t) ==
  /\ Legal(status[t], "cancelling")
  /\ t \notin signals
  /\ Trouble
  /\ SetStatus(t, "cancelling")
  /\ signals' = signals \cup {t}
  /\ UNCHANGED <<home, queue, exec, host, lease>>

\* cancel finds the task not running.
SignalNobody(t) ==
  /\ t \in signals
  /\ ~Running(t)
  /\ signals' = signals \ {t}
  /\ SetStatus(t, Cancelled(t))
  /\ UNCHANGED <<home, queue, exec, host, lease, trouble>>

Untouched == UNCHANGED <<pool, place, litter, dropped>>

\* cancel interrupts an await of the try block.
Interrupt(w) ==
  \/ /\ At(w, "attaching") \/ At(w, "populating")
     /\ Undo(w, "cancelled") \/ UndoFails(w)
  \/ /\ exec[w].at \in Body \ {"attaching", "populating"}
     /\ Goto(w, "cancelled")
     /\ Untouched
     /\ UNCHANGED trouble

\* It comes before the first step, and _execute never begins.
InterruptUnborn(w) == At(w, "load") /\ Leave(w) /\ Untouched

InterruptHandler(w) ==
  exec[w].at \in Handlers /\ Goto(w, "closing") /\ Untouched

\* It is swallowed by the suppress around the await of the heartbeat, or hits
\* the last database call of the finally block.
InterruptCleanup(w) ==
  \/ At(w, "closing") /\ exec[w].space # None /\ UNCHANGED exec /\ Untouched
  \/ exec[w].at \in {"closing", "releasing"} /\ AbandonSlot(w)

SignalRunning(w) ==
  /\ On(w) \in signals
  /\ signals' = signals \ {On(w)}
  /\ \/ Interrupt(w)
     \/ /\ InterruptUnborn(w) \/ InterruptHandler(w) \/ InterruptCleanup(w)
        /\ UNCHANGED trouble
  /\ UNCHANGED <<status, home, queue, made, lease>>

(***************************************************************************)
(* The process ends wherever its coroutines are, and starts: prepare       *)
(* removes the old containers and fills the pool, reconcile queues the     *)
(* active tasks and brings cancellations to their end.                     *)
(***************************************************************************)
Reboot ==
  /\ Trouble
  /\ exec' = [w \in Workers |-> NoExecution]
  /\ signals' = {}
  /\ pool' \in Fillings
  /\ dropped' = {}
  /\ queue' = {t \in Tasks : status[t] \in Active \ {"cancelling"}}
  /\ status' = [t \in Tasks |-> Cancelled(t)]
  /\ UNCHANGED <<home, made, lease>>

\* _archive_stale_slot_workspaces saves what is in the old slots, litter too.
Restart ==
  /\ Reboot
  /\ UNCHANGED litter
  /\ place' = [e \in Spaces |-> IF place[e] \in Slots THEN "saved" ELSE place[e]]

\* The process comes up on a host without the old one's directories.
Relocate == Reboot /\ litter' = {} /\ place' = [e \in Spaces |-> "gone"]
-----------------------------------------------------------------------------
\* Steps that need a free slot.
Enter(w) == Attach(w) \/ Allocate(w)

Step(w) ==
  \/ Load(w) \/ Furnished(w) \/ FurnishFails(w) \/ Adopt(w) \/ MarkBusy(w)
  \/ Complete(w) \/ MarkStopped(w) \/ Fail(w) \/ HandleFailure(w)
  \/ MarkReady(w) \/ HandleCancel(w) \/ Close(w) \/ Release(w)

Next ==
  \/ \E w \in Workers :
       \/ Take(w) \/ Enter(w) \/ Step(w)
       \/ MkdirFails(w) \/ HandlerFails(w) \/ CleanupFails(w)
       \/ ReleaseFails(w)
       \/ SignalRunning(w)
  \/ \E t \in Tasks : Retry(t) \/ Cancel(t) \/ SignalNobody(t)
  \/ Restart
  \/ Relocate

Spec == Init /\ [][Next]_vars

(***************************************************************************)
(* Calls return or raise, and a slot goes to whoever has waited longest.   *)
(***************************************************************************)
FairSpec ==
  Spec /\ \A w \in Workers : WF_vars(Step(w)) /\ SF_vars(Enter(w))
-----------------------------------------------------------------------------
Held == {exec[w].slot : w \in Workers} \ {None}

(***************************************************************************)
(* Every slot is free once, or held by one execution, or recorded as lost  *)
(* at one of five points: a mkdir, a move back or a move to workspace_root *)
(* that raises, and a fault or a cancel that hits a clean-up before it has *)
(* put the slot back (workspace.py:355-424, orchestrator.py:413-431).  No  *)
(* other way out of an execution, and no order of failures, cancels and    *)
(* restarts, loses a slot or frees it twice.                               *)
(***************************************************************************)
SlotsAccounted ==
  /\ IsInjective(pool)
  /\ \A v, w \in Workers : exec[v].slot = exec[w].slot /\ exec[v].slot # None => v = w
  /\ Range(pool) \cup Held \cup dropped = Slots
  /\ Range(pool) \cap (Held \cup dropped) = {}
  /\ Held \cap dropped = {}

(***************************************************************************)
(* README.md:241: "Each warm container sees only its own task source       *)
(* slot."  Of the trees that tasks can still come back to, a free slot has *)
(* none, and a slot in use only the one of its user.  What else a          *)
(* container may see are the files of directories that were removed and    *)
(* left something behind: of tasks that have come to their end, or of an   *)
(* allocate that failed, never of a task that could be taken up again      *)
(* (workspace.py:366-370, 404-408, 410-424).                               *)
(***************************************************************************)
OneTreePerSlot ==
  /\ \A e \in Spaces \ litter : place[e] \notin Range(pool)
  /\ \A e, f \in Spaces \ litter : place[e] = place[f] /\ place[e] \in Slots => e = f
  /\ \A e \in litter : \A t \in Tasks :
       home[t] = e => status[t] \in {"completed", "cancelled"}

(***************************************************************************)
(* While an agent works, its workspace is in its slot and was made for its *)
(* task, the lease says so, and the row of the task leads to it, unless    *)
(* the execution has found the task CANCELLING (orchestrator.py:292-314).  *)
(***************************************************************************)
AgentIsAtHome ==
  \A w \in Workers : At(w, "run") =>
    LET e == exec[w].space IN
    /\ place[e] = exec[w].slot /\ exec[w].slot \in Slots /\ e \notin litter
    /\ made[e] = On(w)
    /\ lease[e] = "busy"
    /\ home[On(w)] = e \/ exec[w].view = "cancelling"

(***************************************************************************)
(* LLD.md:637-638: the worktree of a failed task is kept "so               *)
(* retry/recovery can reattach it".  Only a task that has come to its end  *)
(* loses its workspace, unless the host is lost.                           *)
(***************************************************************************)
WorkIsKept ==
  [][\A t \in Tasks :
       home[t] # None =>
         LET e == home[t] IN
         place[e] # "gone" /\ place'[e] = "gone" =>
           status[t] \in {"completed", "cancelled"} \/ Relocate]_vars

(***************************************************************************)
(* An execution that waits for a slot gets one, unless slots have been     *)
(* dropped.                                                                *)
(***************************************************************************)
WaitersAreServed ==
  \A w \in Workers : At(w, "await") ~> (~At(w, "await") \/ dropped # {})
=============================================================================
