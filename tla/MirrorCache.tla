---------------------------- MODULE MirrorCache ----------------------------
(***************************************************************************)
(* The mirrors under cache_root/repos from which workspaces are cloned     *)
(* (_populate in minion/runtime/workspace.py): one per repository, cloned  *)
(* by the first task that needs it and updated by every later one.         *)
(*                                                                         *)
(* Histories are numbers: version v of a repository contains the versions  *)
(* below it.                                                               *)
(***************************************************************************)
EXTENDS Naturals

CONSTANTS
  Repos,
  MaxVersion  \* bound: versions pushed to the remote repositories

VARIABLES
  upstream,   \* upstream[r]: the version of the remote repository
  mirror      \* mirror[r]: what is in the directory of its mirror

Versions == 0 .. MaxVersion

Newer(v, w) == IF v > w THEN v ELSE w

MirrorInit ==
  /\ upstream = [r \in Repos |-> 0]
  /\ mirror = [r \in Repos |-> [state |-> "absent", version |-> 0]]

Push(r) ==
  /\ upstream[r] < MaxVersion
  /\ upstream' = [upstream EXCEPT ![r] = @ + 1]

\* A git process at work on mirror r: `clone --mirror` when there is no such
\* directory, else `remote update --prune`.  It fetches what the remote has now.
GitProcess(r) ==
  [repo |-> r, version |-> upstream[r], clone |-> mirror[r].state = "absent"]

\* git clone makes the directory before it has anything to put there.
BeginFetch(r) ==
  mirror' = [mirror EXCEPT ![r].state = IF @ = "absent" THEN "partial" ELSE @]

\* git never moves a ref that has moved since it was read, so an older fetch
\* that ends later takes nothing back.
EndFetch(g) ==
  /\ mirror[g.repo].state # "absent"
  /\ mirror' = [mirror EXCEPT
                  ![g.repo] = [state |-> "whole", version |-> Newer(@.version, g.version)]]

\* A clone that fails removes its directory; one that is killed, by the timeout
\* of run_exec, leaves it as it is.
BreakFetch(g) ==
  \/ UNCHANGED mirror
  \/ /\ g.clone
     /\ mirror' = [mirror EXCEPT ![g.repo] = [state |-> "absent", version |-> 0]]
=============================================================================
