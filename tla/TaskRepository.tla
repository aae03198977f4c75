--------------------------- MODULE TaskRepository ---------------------------
(***************************************************************************)
(* The tasks table and TaskRepository.create/transition of                 *)
(* minion/repositories.py, for any number of concurrent callers.           *)
(*                                                                         *)
(* A transition is two statements with an await between them: a SELECT     *)
(* whose status is validated and whose version is remembered, and an       *)
(* UPDATE ... WHERE version = <the remembered one>.  seen[c] is what caller *)
(* c remembers from its SELECT; another caller may commit in between.      *)
(*                                                                         *)
(* The row loaded by db.get is not kept by anyone once transition returns, *)
(* and the session's identity map is weak, so every transition selects     *)
(* afresh.                                                                 *)
(***************************************************************************)
EXTENDS TaskStates, Naturals

CONSTANT Callers   \* the coroutines that hold a database session

VARIABLES
  row,       \* row[t]: the status and version columns of task t
  seen       \* seen[c]: the transition caller c has read and not yet written

repoVars == <<row, seen>>

\* A caller between two transitions.
Unread == [task |-> "none"]

Row == [status : Status \cup {Absent}, version : Nat]

Snapshot == [task : Tasks, target : Status, status : Status, version : Nat]

RepoTypeOK ==
  /\ row \in [Tasks -> Row]
  /\ seen \in [Callers -> Snapshot \cup {Unread}]

RepoInit ==
  /\ row = [t \in Tasks |-> [status |-> Absent, version |-> 0]]
  /\ seen = [c \in Callers |-> Unread]
-----------------------------------------------------------------------------
\* Deviation: create writes a status the state machine does not know.
CreateRowMisnamed(t) ==
  /\ row[t].status = Absent
  /\ row' = [row EXCEPT ![t].status = "pending"]
  /\ UNCHANGED seen

\* create: the task and session rows, one commit.
CreateRow(t) ==
  /\ row[t].status = Absent
  /\ row' = [row EXCEPT ![t].status = "created"]
  /\ UNCHANGED seen

CanRead(t, target) == row[t].status \in Status /\ Legal(row[t].status, target)

\* transition, first statement: db.get, validate_transition, expected_version.
ReadRow(c, t, target) ==
  /\ seen[c] = Unread
  /\ CanRead(t, target)
  /\ seen' = [seen EXCEPT ![c] = [task    |-> t,
                                  target  |-> target,
                                  status  |-> row[t].status,
                                  version |-> row[t].version]]
  /\ UNCHANGED row

\* Deviation: WHERE id = ... only.
CurrentUnchecked(c) == row[seen[c].task].status \in Status

\* The WHERE clause of the UPDATE.
Current(c) == row[seen[c].task].version = seen[c].version

\* Deviation: the UPDATE leaves the version alone.
WriteRowSameVersion(c) ==
  /\ seen[c] # Unread
  /\ Current(c)
  /\ row' = [row EXCEPT ![seen[c].task].status = seen[c].target]
  /\ seen' = [seen EXCEPT ![c] = Unread]

\* transition, second statement, rowcount = 1.
WriteRow(c) ==
  /\ seen[c] # Unread
  /\ Current(c)
  /\ row' = [row EXCEPT ![seen[c].task] = [status  |-> seen[c].target,
                                           version |-> seen[c].version + 1]]
  /\ seen' = [seen EXCEPT ![c] = Unread]

\* What the callers in S have read is dropped: a rollback (rowcount # 1), an
\* exception, a cancellation, or the end of their process.
Forget(S) ==
  /\ seen' = [c \in Callers |-> IF c \in S THEN Unread ELSE seen[c]]
  /\ UNCHANGED row

RepoNext ==
  \/ \E t \in Tasks : CreateRow(t)
  \/ \E c \in Callers, t \in Tasks, target \in Status : ReadRow(c, t, target)
  \/ \E c \in Callers : WriteRow(c)
  \/ \E S \in SUBSET Callers : Forget(S)

RepoSpec == RepoInit /\ [][RepoNext]_repoVars
-----------------------------------------------------------------------------
(***************************************************************************)
(* Optimistic concurrency: whoever still holds the current version of a    *)
(* row (repositories.py:121-127) also holds its current status, so the     *)
(* target it validated against that status is still legal when its UPDATE  *)
(* matches.                                                                *)
(***************************************************************************)
SnapshotsAgree ==
  \A c \in Callers : seen[c] # Unread =>
    /\ row[seen[c].task].status \in Status
    /\ seen[c].version <= row[seen[c].task].version
    /\ Current(c) => seen[c].status = row[seen[c].task].status
    /\ Legal(seen[c].status, seen[c].target)

\* The abstract life of the tasks, read off the table.
Lifecycle ==
  INSTANCE TaskLifecycle WITH status <- [t \in Tasks |-> row[t].status]

(***************************************************************************)
(* The table implements the abstract life cycle: however the SELECTs and   *)
(* UPDATEs of concurrent transitions interleave, the status of a task      *)
(* changes only along an edge of the state machine.                        *)
(***************************************************************************)
FollowsStateMachine == Lifecycle!Spec
=============================================================================
