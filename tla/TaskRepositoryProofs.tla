------------------------ MODULE TaskRepositoryProofs ------------------------
(***************************************************************************)
(* The tasks table, for any tasks and any number of concurrent callers:    *)
(* its types, the optimistic-concurrency invariant, and that it implements *)
(* the abstract life cycle.                                                *)
(***************************************************************************)
EXTENDS TaskRepository, TLAPS

(***************************************************************************)
(* The rows and the remembered SELECTs of repositories.py:52-136 keep      *)
(* their types.                                                            *)
(***************************************************************************)
THEOREM RepoTypeCorrect == RepoSpec => []RepoTypeOK
<1>1. RepoInit => RepoTypeOK
  BY DEF RepoInit, RepoTypeOK, Row
<1>2. RepoTypeOK /\ [RepoNext]_repoVars => RepoTypeOK'
  <2> SUFFICES ASSUME RepoTypeOK, [RepoNext]_repoVars
               PROVE  RepoTypeOK'
    OBVIOUS
  <2> USE DEF RepoTypeOK
  <2>1. ASSUME NEW t \in Tasks, CreateRow(t)
        PROVE  RepoTypeOK'
    BY <2>1 DEF CreateRow, Row, Status
  <2>2. ASSUME NEW c \in Callers, NEW t \in Tasks, NEW target \in Status,
               ReadRow(c, t, target)
        PROVE  RepoTypeOK'
    BY <2>2 DEF ReadRow, CanRead, Row, Snapshot
  <2>3. ASSUME NEW c \in Callers, WriteRow(c)
        PROVE  RepoTypeOK'
    <3>1. seen[c] \in Snapshot
      BY <2>3 DEF WriteRow
    <3>2. [status |-> seen[c].target, version |-> seen[c].version + 1] \in Row
      BY <3>1 DEF Snapshot, Row
    <3>3. QED
      BY <2>3, <3>2 DEF WriteRow
  <2>4. ASSUME NEW S \in SUBSET Callers, Forget(S)
        PROVE  RepoTypeOK'
    BY <2>4 DEF Forget
  <2>5. CASE UNCHANGED repoVars
    BY <2>5 DEF repoVars
  <2>6. QED
    BY <2>1, <2>2, <2>3, <2>4, <2>5 DEF RepoNext
<1>3. QED
  BY <1>1, <1>2, PTL DEF RepoSpec

(***************************************************************************)
(* One step of any caller preserves SnapshotsAgree: a version is never     *)
(* used for two different statuses of a row.                               *)
(***************************************************************************)
LEMMA SnapshotsStep ==
  ASSUME RepoTypeOK, SnapshotsAgree, [RepoNext]_repoVars
  PROVE  SnapshotsAgree'
<1> USE DEF RepoTypeOK
<1>1. ASSUME NEW t \in Tasks, CreateRow(t)
      PROVE  SnapshotsAgree'
  <2> SUFFICES ASSUME NEW c \in Callers, seen[c] # Unread
               PROVE  /\ row'[seen[c].task].status \in Status
                      /\ seen[c].version <= row'[seen[c].task].version
                      /\ row'[seen[c].task].version = seen[c].version
                           => seen[c].status = row'[seen[c].task].status
                      /\ Legal(seen[c].status, seen[c].target)
    BY <1>1 DEF SnapshotsAgree, CreateRow, Current
  <2>1. seen[c] \in Snapshot
    OBVIOUS
  <2>2. row[seen[c].task].status \in Status
    BY DEF SnapshotsAgree
  <2>3. Absent \notin Status
    BY DEF Absent, Status
  <2>4. row'[seen[c].task] = row[seen[c].task]
    BY <1>1, <2>1, <2>2, <2>3 DEF CreateRow, Snapshot
  <2>5. QED
    BY <2>4 DEF SnapshotsAgree, Current
<1>2. ASSUME NEW c \in Callers, NEW t \in Tasks, NEW target \in Status,
             ReadRow(c, t, target)
      PROVE  SnapshotsAgree'
  <2> SUFFICES ASSUME NEW d \in Callers, seen'[d] # Unread
               PROVE  /\ row[seen'[d].task].status \in Status
                      /\ seen'[d].version <= row[seen'[d].task].version
                      /\ row[seen'[d].task].version = seen'[d].version
                           => seen'[d].status = row[seen'[d].task].status
                      /\ Legal(seen'[d].status, seen'[d].target)
    BY <1>2 DEF SnapshotsAgree, ReadRow, Current
  <2>1. CASE d = c
    <3>1. seen'[d] = [task    |-> t,
                      target  |-> target,
                      status  |-> row[t].status,
                      version |-> row[t].version]
      BY <1>2, <2>1 DEF ReadRow
    <3>2. row[t] \in Row
      OBVIOUS
    <3>3. QED
      BY <1>2, <3>1, <3>2 DEF ReadRow, CanRead, Row
  <2>2. CASE d # c
    BY <1>2, <2>2 DEF ReadRow, SnapshotsAgree, Current
  <2>3. QED
    BY <2>1, <2>2
<1>3. ASSUME NEW c \in Callers, WriteRow(c)
      PROVE  SnapshotsAgree'
  <2> DEFINE new == [status  |-> seen[c].target,
                     version |-> seen[c].version + 1]
  <2>1. seen[c] \in Snapshot
    BY <1>3 DEF WriteRow
  <2> SUFFICES ASSUME NEW d \in Callers, seen'[d] # Unread
               PROVE  /\ row'[seen'[d].task].status \in Status
                      /\ seen'[d].version <= row'[seen'[d].task].version
                      /\ row'[seen'[d].task].version = seen'[d].version
                           => seen'[d].status = row'[seen'[d].task].status
                      /\ Legal(seen'[d].status, seen'[d].target)
    BY DEF SnapshotsAgree, Current
  <2>2. d # c /\ seen'[d] = seen[d]
    BY <1>3 DEF WriteRow
  <2>3. seen[d] \in Snapshot
    BY <2>2
  <2>4. /\ row[seen[d].task].status \in Status
        /\ seen[d].version <= row[seen[d].task].version
        /\ row[seen[d].task].version = seen[d].version
             => seen[d].status = row[seen[d].task].status
        /\ Legal(seen[d].status, seen[d].target)
    BY <2>2 DEF SnapshotsAgree, Current
  <2>5. CASE seen[d].task = seen[c].task
    <3>1. row'[seen[d].task] = new
      BY <1>3, <2>1, <2>5 DEF WriteRow, Snapshot
    <3>2. row[seen[d].task].version = seen[c].version
      BY <1>3, <2>5 DEF WriteRow, Current
    <3>3. new.status \in Status /\ new.version = seen[c].version + 1
      BY <2>1 DEF Snapshot
    <3>4. seen[d].version \in Nat /\ seen[c].version \in Nat
      BY <2>1, <2>3 DEF Snapshot
    <3> HIDE DEF new
    <3>5. QED
      BY <2>2, <2>4, <3>1, <3>2, <3>3, <3>4
  <2>6. CASE seen[d].task # seen[c].task
    <3>1. row'[seen[d].task] = row[seen[d].task]
      BY <1>3, <2>1, <2>3, <2>6 DEF WriteRow, Snapshot
    <3>2. QED
      BY <2>2, <2>4, <3>1
  <2>7. QED
    BY <2>5, <2>6
<1>4. ASSUME NEW S \in SUBSET Callers, Forget(S)
      PROVE  SnapshotsAgree'
  BY <1>4 DEF Forget, SnapshotsAgree, Current
<1>5. CASE UNCHANGED repoVars
  BY <1>5 DEF repoVars, SnapshotsAgree, Current
<1>6. QED
  BY <1>1, <1>2, <1>3, <1>4, <1>5 DEF RepoNext

(***************************************************************************)
(* The version check of repositories.py:121-127 is sound for every number  *)
(* of concurrent callers: a caller whose version still matches has         *)
(* validated its target against the status the row still has.              *)
(***************************************************************************)
THEOREM OptimisticLocking == RepoSpec => []SnapshotsAgree
<1>1. RepoInit => SnapshotsAgree
  BY DEF RepoInit, SnapshotsAgree
<1>2. RepoTypeOK /\ SnapshotsAgree /\ [RepoNext]_repoVars => SnapshotsAgree'
  BY SnapshotsStep
<1>3. QED
  BY <1>1, <1>2, RepoTypeCorrect, PTL DEF RepoSpec

\* The abstract specification speaks of the same states and edges.
LEMMA SameStateMachine ==
  /\ Lifecycle!Absent = Absent
  /\ Lifecycle!Status = Status
  /\ Lifecycle!Allowed = Allowed
BY DEF Lifecycle!Absent, Absent, Lifecycle!Status, Status,
       Lifecycle!Allowed, Allowed

(***************************************************************************)
(* Every UPDATE that matches follows one edge of the state machine, or     *)
(* leaves the status as it was; every other step leaves it alone or        *)
(* creates a task.                                                         *)
(***************************************************************************)
LEMMA StepFollowsStateMachine ==
  ASSUME RepoTypeOK, SnapshotsAgree, [RepoNext]_repoVars
  PROVE  [Lifecycle!Next]_([t \in Tasks |-> row[t].status])
<1> USE DEF RepoTypeOK
<1> DEFINE status == [t \in Tasks |-> row[t].status]
<1>1. ASSUME NEW t \in Tasks, CreateRow(t)
      PROVE  Lifecycle!Next
  <2>1. status' = [status EXCEPT ![t] = "created"]
    BY <1>1 DEF CreateRow, Row
  <2>2. QED
    BY <1>1, <2>1, SameStateMachine
    DEF CreateRow, Lifecycle!Next, Lifecycle!Create
<1>2. ASSUME NEW c \in Callers, WriteRow(c)
      PROVE  Lifecycle!Next \/ UNCHANGED status
  <2>1. seen[c] \in Snapshot
    BY <1>2 DEF WriteRow
  <2>2. PICK t \in Tasks, target \in Status :
          t = seen[c].task /\ target = seen[c].target
    BY <2>1 DEF Snapshot
  <2>3. seen[c].status = row[t].status /\ row[t].status \in Status
    BY <1>2, <2>2 DEF WriteRow, SnapshotsAgree
  <2>4. Legal(row[t].status, target)
    BY <1>2, <2>2, <2>3 DEF WriteRow, SnapshotsAgree
  <2>5. status' = [status EXCEPT ![t] = target]
    BY <1>2, <2>2 DEF WriteRow
  <2>6. CASE target = row[t].status
    <3>1. [status EXCEPT ![t] = target] = status
      BY <2>6
    <3>2. QED
      BY <2>5, <3>1
  <2>7. CASE target \in Allowed[row[t].status]
    <3>1. status[t] = row[t].status
      OBVIOUS
    <3>2. Lifecycle!Move(t, target)
      BY <2>3, <2>5, <2>7, <3>1, SameStateMachine DEF Lifecycle!Move
    <3>3. QED
      BY <3>2, SameStateMachine DEF Lifecycle!Next
  <2>8. QED
    BY <2>4, <2>6, <2>7 DEF Legal
<1>3. ASSUME NEW c \in Callers, NEW t \in Tasks, NEW target \in Status,
             ReadRow(c, t, target)
      PROVE  UNCHANGED status
  BY <1>3 DEF ReadRow
<1>4. ASSUME NEW S \in SUBSET Callers, Forget(S)
      PROVE  UNCHANGED status
  BY <1>4 DEF Forget
<1>5. CASE UNCHANGED repoVars
  BY <1>5 DEF repoVars
<1>6. QED
  BY <1>1, <1>2, <1>3, <1>4, <1>5 DEF RepoNext

(***************************************************************************)
(* The table with its two-statement transitions implements the abstract    *)
(* life cycle, in which a status moves along an edge in one step           *)
(* (state_machine.py, repositories.py:87-136).                             *)
(***************************************************************************)
THEOREM TableRefinesLifecycle == RepoSpec => FollowsStateMachine
<1>1. RepoInit => Lifecycle!Init
  BY SameStateMachine DEF RepoInit, Lifecycle!Init
<1>2. RepoTypeOK /\ SnapshotsAgree /\ [RepoNext]_repoVars
        => [Lifecycle!Next]_([t \in Tasks |-> row[t].status])
  BY StepFollowsStateMachine
<1>3. QED
  BY <1>1, <1>2, RepoTypeCorrect, OptimisticLocking, PTL
  DEF RepoSpec, FollowsStateMachine, Lifecycle!Spec
=============================================================================
