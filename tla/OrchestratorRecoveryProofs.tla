---------------------- MODULE OrchestratorRecoveryProofs ----------------------
(***************************************************************************)
(* That no task is abandoned, what costs a worker its loop and that a      *)
(* restart recovers, for any number of workers, clients and tasks, in the  *)
(* deployments and under the surroundings each theorem names.              *)
(***************************************************************************)
EXTENDS OrchestratorProofs

\* What the other theorems have shown of every reachable state.
Base == RepoTypeOK /\ SnapshotsAgree /\ Control /\ Supplies /\ Reads

LEMMA Based == Spec => []Base
<1>1. RepoTypeOK /\ SnapshotsAgree /\ Control /\ Supplies /\ Reads => Base
  BY DEF Base
<1>2. QED
  BY <1>1, Controlled, Remembered, UsesTheRepository, RepoTypeCorrect,
     OrchestratorLocksRows, PTL
-----------------------------------------------------------------------------
\* What one step of the system means to one coroutine: c notices nothing,
Still(c) ==
  /\ at'[c] = at[c] /\ on'[c] = on[c] /\ seen'[c] = seen[c]
  /\ c \in Workers => receipt'[c] = receipt[c] /\ outcome'[c] = outcome[c]

\* or its process has come to an end,
Gone(c) ==
  /\ proc'[Home[c]] = "down"
  /\ at'[c] = Rest(c) /\ on'[c] = None /\ seen'[c] = Unread
  /\ c \in Workers => receipt'[c] = 0 /\ outcome'[c] = "none"

\* or it is a worker whose loop is started,
Opened(c) ==
  /\ c \in Workers
  /\ at[c] = "off" /\ at'[c] = "get"
  /\ UNCHANGED <<row, stream, puts, on, seen, receipt, outcome>>

\* or a worker whose execution is cancelled by request d.
Struck(d, c) ==
  /\ c \in Workers /\ d \in Clients
  /\ at[d] = "signal" /\ on[d] = on[c] /\ at[c] \notin Resting
  /\ <<at'[c], outcome'[c]>> \in Interrupted(c)
  /\ on'[c] = on[c] /\ receipt'[c] = receipt[c] /\ seen'[c] = Unread
  /\ UNCHANGED <<row, stream, puts>>

\* A step of coroutine d that touches no other coroutine.
Alone(d) ==
  \A c \in Callers \ {d} : Still(c)

LEMMA OnlyOwnPlace ==
  ASSUME Base, NEW d \in Callers,
         at' = at \/ \E place : at' = [at EXCEPT ![d] = place],
         on' = on \/ \E t : on' = [on EXCEPT ![d] = t],
         receipt' = receipt \/ \E r : receipt' = [receipt EXCEPT ![d] = r],
         outcome' = outcome \/ \E o : outcome' = [outcome EXCEPT ![d] = o],
         \A c \in Callers \ {d} : seen'[c] = seen[c]
  PROVE  Alone(d)
BY DEF Base, Control, Supplies, Alone, Still

LEMMA CollapsedOrStill ==
  ASSUME Base, NEW p \in Procs, Collapse(p), NEW c \in Callers
  PROVE  Gone(c) \/ Still(c)
<1>1. CASE Home[c] = p
  BY <1>1 DEF Collapse, Gone, Forget, Base, Control
<1>2. CASE Home[c] # p
  BY <1>2 DEF Collapse, Still, Forget
<1>3. QED
  BY <1>1, <1>2

LEMMA RaisedAlone ==
  ASSUME Base, NEW d \in Callers, Raise(d), NEW c \in Callers, c # d
  PROVE  Gone(c) \/ Still(c)
<1>1. CASE d \in Workers /\ ExceptionInExecution(d)
  <2>1. Alone(d)
    BY <1>1, OnlyOwnPlace
    DEF ExceptionInExecution, GoOn, Goto, Finish, Forget
  <2>2. QED
    BY <2>1 DEF Alone
<1>2. CASE Return(d) /\ Forget({d})
  <2>1. Alone(d)
    BY <1>2, OnlyOwnPlace DEF Return, Goto, Forget
  <2>2. QED
    BY <2>1 DEF Alone
<1>3. CASE d \in Procs /\ Collapse(d)
  BY <1>3, CollapsedOrStill
<1>4. QED
  BY <1>1, <1>2, <1>3 DEF Raise

LEMMA StruckOrStill ==
  ASSUME Base, NEW d \in Callers, SignalRunning(d), NEW c \in Callers, c # d
  PROVE  Still(c) \/ Struck(d, c)
<1>1. at[d] = "signal" /\ d \notin Workers /\ UNCHANGED <<stream, puts, receipt>>
  BY Kinds
  DEF SignalRunning, Base, Control, WorkerPlaces, Body, Handlers, FailHandler,
      CancelHandler
<1>2. PICK w \in Runs(Home[d], on[d]) : \E i \in Interrupted(w) :
        /\ at' = [at EXCEPT ![w] = i[1], ![d] = "idle"]
        /\ outcome' = [outcome EXCEPT ![w] = i[2]]
        /\ on' = [on EXCEPT ![d] = None]
        /\ Forget({w})
  BY DEF SignalRunning
<1>3. PICK i \in Interrupted(w) :
        /\ at' = [at EXCEPT ![w] = i[1], ![d] = "idle"]
        /\ outcome' = [outcome EXCEPT ![w] = i[2]]
  BY <1>2
<1>4. /\ w \in Workers /\ w # d /\ w \in Callers
      /\ on[w] = on[d] /\ Home[w] = Home[d]
  BY <1>1, <1>2, Kinds DEF Runs
<1>5. on[d] # None /\ at[w] \notin Resting
  BY <1>1, <1>4 DEF Base, Control, Resting
<1>6. d \in Clients
  <2>1. Up(w)
    BY <1>4, <1>5, Kinds DEF Base, Control, Resting, Rest
  <2>2. d \notin Procs
    BY <1>1, <1>4, <2>1, HomeAssumption DEF Base, Control, Up
  <2>3. QED
    BY <1>1, <2>2, Kinds
<1>7. CASE c = w
  <2>1. i = <<i[1], i[2]>>
    <3>1. at[w] \in {"scheduled", "finally", "ended"} \cup Body \cup Handlers
      BY <1>4, <1>5, Kinds DEF Base, Control, WorkerPlaces, Resting
    <3>2. \E x, y : i = <<x, y>>
      <4>1. CASE at[w] \in Body
        BY <1>3, <4>1
        DEF Interrupted, Body, Handlers, FailHandler, CancelHandler
      <4>2. CASE at[w] \in Handlers
        BY <1>3, <4>2
        DEF Interrupted, Body, Handlers, FailHandler, CancelHandler
      <4>3. CASE at[w] \in {"scheduled", "finally", "ended"}
        BY <1>3, <4>3
        DEF Interrupted, Body, Handlers, FailHandler, CancelHandler
      <4>4. QED
        BY <3>1, <4>1, <4>2, <4>3
    <3>3. QED
      BY <3>2
  <2>2. at'[w] = i[1] /\ outcome'[w] = i[2] /\ on'[w] = on[w]
    BY <1>2, <1>3, <1>4 DEF Base, Control, Supplies
  <2>3. <<at'[w], outcome'[w]>> \in Interrupted(w)
    BY <1>3, <2>1, <2>2
  <2>4. UNCHANGED row /\ seen'[w] = Unread
    BY <1>2, <1>4 DEF Forget
  <2>5. QED
    BY <1>1, <1>4, <1>5, <1>6, <1>7, <2>2, <2>3, <2>4 DEF Struck
<1>8. CASE c # w
  BY <1>1, <1>2, <1>3, <1>8 DEF Still, Forget, Base, Control, Supplies
<1>9. QED
  BY <1>7, <1>8

LEMMA StepOfAnother ==
  ASSUME Base, NEW d \in Callers, Step(d), NEW c \in Callers, c # d
  PROVE  Still(c) \/ Gone(c) \/ Opened(c) \/ Struck(d, c)
<1>1. CASE \/ Read(d) \/ Commit(d) \/ Announce(d) \/ SignalNobody(d)
           \/ Enqueue(d)
           \/ TakeDuplicate(d) \/ Take(d) \/ Settle(d) \/ Die(d)
           \/ Begin(d) \/ Load(d) \/ Furnish(d) \/ RunAgent(d)
           \/ LoadFailed(d) \/ LoadCancelled(d) \/ Release(d)
           \/ Boot(d) \/ Requeue(d) \/ Recancel(d)
  <2>1. \A b \in Callers \ {d} : seen'[b] = seen[b]
    BY <1>1
    DEF Read, ReadRow, Commit, WriteRow, Announce, SignalNobody, Enqueue,
        TakeDuplicate, Take, Settle, Die, Begin, Load, Furnish, RunAgent,
        LoadFailed, LoadCancelled, Release, ExecStep, Boot, Requeue, Recancel,
        repoVars, Base, RepoTypeOK
  <2>2. /\ at' = at \/ \E place : at' = [at EXCEPT ![d] = place]
        /\ on' = on \/ \E t : on' = [on EXCEPT ![d] = t]
    BY <1>1
    DEF Read, Commit, Announce, SignalNobody, Enqueue, TakeDuplicate, Take,
        Settle, Die, Begin, Load, Furnish, RunAgent, LoadFailed,
        LoadCancelled, Release, Boot, Requeue, Recancel, coVars, GoOn, Goto,
        Finish, Return, LetGo
  <2>3. /\ receipt' = receipt \/ \E r : receipt' = [receipt EXCEPT ![d] = r]
        /\ outcome' = outcome \/ \E o : outcome' = [outcome EXCEPT ![d] = o]
    BY <1>1
    DEF Read, Commit, Announce, SignalNobody, Enqueue, TakeDuplicate, Take,
        Settle, Die, Begin, Load, Furnish, RunAgent, LoadFailed,
        LoadCancelled, Release, Boot, Requeue, Recancel, coVars, GoOn, Goto,
        Finish, Return, LetGo
  <2>4. Alone(d)
    BY <2>1, <2>2, <2>3, OnlyOwnPlace
  <2>5. QED
    BY <2>4 DEF Alone
<1>2. CASE Reject(d) \/ Conflict(d)
  BY <1>2, RaisedAlone DEF Reject, Conflict
<1>3. CASE SignalRunning(d)
  BY <1>3, StruckOrStill
<1>4. CASE d \in Workers /\ AgentRaises(d)
  BY <1>4, RaisedAlone DEF AgentRaises, Raise
<1>5. CASE d \in Procs /\ Serve(d)
  <2>1. UNCHANGED <<row, seen, stream, puts, on, receipt, outcome>>
    BY <1>5 DEF Serve, repoVars
  <2>2. CASE c \in Workers /\ Home[c] = d
    <3>1. at[c] = "off"
      BY <1>5, <2>2, Kinds DEF Serve, Base, Control, Up
    <3>2. QED
      BY <1>5, <2>1, <2>2, <3>1 DEF Serve, Opened
  <2>3. CASE ~(c \in Workers /\ Home[c] = d)
    BY <1>5, <2>1, <2>3 DEF Serve, Still
  <2>4. QED
    BY <2>2, <2>3
<1>6. QED
  BY <1>1, <1>2, <1>3, <1>4, <1>5 DEF Step

\* A coroutine moves by itself, or one of the four things above befalls it.
LEMMA Moves ==
  ASSUME Base, [Next]_vars, NEW c \in Callers
  PROVE  \/ Still(c) \/ Gone(c) \/ Opened(c)
         \/ \E d \in Clients : Struck(d, c)
         \/ Step(c) \/ Fault(c) \/ (c \in Clients /\ Request(c))
<1>1. ASSUME NEW d \in Callers, Step(d), d # c
      PROVE  \/ Still(c) \/ Gone(c) \/ Opened(c)
             \/ \E b \in Clients : Struck(b, c)
  BY <1>1, StepOfAnother DEF Struck
<1>2. ASSUME NEW d \in Callers, Fault(d), d # c
      PROVE  Still(c) \/ Gone(c)
  <2>1. CASE Raise(d)
    BY <1>2, <2>1, RaisedAlone
  <2>2. CASE d \in Workers /\ ExceptionInExecution(d)
    BY <1>2, <2>2, RaisedAlone DEF Raise
  <2>3. CASE LetGo(d, "dead") /\ UNCHANGED repoVars
    <3>1. Alone(d)
      BY <2>3, OnlyOwnPlace DEF LetGo, Goto, repoVars
    <3>2. QED
      BY <1>2, <3>1 DEF Alone
  <2>4. QED
    BY <1>2, <2>1, <2>2, <2>3 DEF Fault
<1>3. ASSUME NEW d \in Clients, Request(d), d # c
      PROVE  Still(c)
  <2>1. PICK t \in Tasks : Submit(d, t) \/ Retry(d, t) \/ Cancel(d, t)
    BY <1>3 DEF Request
  <2>2. PICK place : Arrive(d, t, place) /\ UNCHANGED seen
    BY <2>1 DEF Submit, Retry, Cancel, CreateRow, repoVars
  <2>3. d \in Callers /\ Alone(d)
    BY <2>2, Kinds, OnlyOwnPlace DEF Arrive, Goto
  <2>4. QED
    BY <1>3, <2>3 DEF Alone
<1>4. ASSUME NEW p \in Procs, Crash(p)
      PROVE  Still(c) \/ Gone(c)
  BY <1>4, CollapsedOrStill DEF Crash
<1>5. CASE UNCHANGED vars
  BY <1>5 DEF vars, Still
<1>6. QED
  BY <1>1, <1>2, <1>3, <1>4, <1>5 DEF Next

\* Coroutine d writes the row of task t.
Committing(d, t) ==
  /\ Commit(d) /\ on[d] = t /\ at[d] \in DOMAIN Target
  /\ row[t].status \in Status /\ Legal(row[t].status, Target[at[d]])
  /\ row'[t].status = Target[at[d]]

LEMMA CommitWrites ==
  ASSUME Base, NEW d \in Callers, Commit(d)
  PROVE  /\ on[d] \in Tasks /\ Committing(d, on[d])
         /\ \A t \in Tasks \ {on[d]} : row'[t] = row[t]
<1>1. /\ seen[d] # Unread /\ Current(d) /\ at[d] \in DOMAIN Target
      /\ row' = [row EXCEPT ![seen[d].task] =
                   [status |-> seen[d].target, version |-> seen[d].version + 1]]
  BY DEF Commit, WriteRow, Transitioning
<1>2. seen[d].task = on[d] /\ seen[d].target = Target[at[d]]
  BY <1>1 DEF Base, Reads
<1>3. on[d] \in Tasks
  BY <1>1, AfterCommitPlace, Busy DEF Base, Control
<1>4. /\ row[on[d]].status \in Status
      /\ Legal(row[on[d]].status, Target[at[d]])
  BY <1>1, <1>2 DEF Base, SnapshotsAgree
<1>5. row'[on[d]].status = Target[at[d]]
  BY <1>1, <1>2, <1>3 DEF Base, RepoTypeOK
<1>6. \A t \in Tasks \ {on[d]} : row'[t] = row[t]
  BY <1>1, <1>2 DEF Base, RepoTypeOK
<1>7. QED
  BY <1>1, <1>3, <1>4, <1>5, <1>6 DEF Committing

\* A row changes when its task is submitted and when a transition commits.
LEMMA RowChanges ==
  ASSUME Base, [Next]_vars, NEW t \in Tasks
  PROVE  \/ row'[t] = row[t]
         \/ \E c \in Clients :
              Submit(c, t) /\ row[t].status = Absent
              /\ row'[t].status = "created"
         \/ \E d \in Callers : Committing(d, t)
<1>1. ASSUME NEW d \in Callers, Step(d), ~Commit(d)
      PROVE  row' = row
  BY <1>1
  DEF Step, Read, ReadRow, Reject, Conflict, Announce, SignalRunning,
      SignalNobody, Enqueue, TakeDuplicate, Take, Settle, Die, Begin, Load,
      Furnish, RunAgent, AgentRaises, LoadFailed, LoadCancelled, Release,
      ExecStep, Boot, Requeue, Recancel, Serve, Raise, ExceptionInExecution,
      Collapse, Forget, repoVars
<1>2. ASSUME NEW d \in Callers, Commit(d)
      PROVE  row'[t] = row[t] \/ Committing(d, t)
  BY <1>2, CommitWrites
<1>3. ASSUME NEW d \in Callers, Fault(d)
      PROVE  row' = row
  BY <1>3
  DEF Fault, Raise, ExceptionInExecution, Collapse, Forget, repoVars
<1>4. ASSUME NEW c \in Clients, Request(c)
      PROVE  \/ row'[t] = row[t]
             \/ /\ Submit(c, t) /\ row[t].status = Absent
                /\ row'[t].status = "created"
  <2>1. PICK u \in Tasks : Submit(c, u) \/ Retry(c, u) \/ Cancel(c, u)
    BY <1>4 DEF Request
  <2>2. CASE Submit(c, u)
    BY <2>2 DEF Submit, CreateRow, Base, RepoTypeOK, Row
  <2>3. CASE Retry(c, u) \/ Cancel(c, u)
    BY <2>3 DEF Retry, Cancel, repoVars
  <2>4. QED
    BY <2>1, <2>2, <2>3
<1>5. ASSUME NEW p \in Procs, Crash(p)
      PROVE  row' = row
  BY <1>5 DEF Crash, Collapse, Forget
<1>6. CASE UNCHANGED vars
  BY <1>6 DEF vars
<1>7. QED
  BY <1>1, <1>2, <1>3, <1>4, <1>5, <1>6 DEF Next
-----------------------------------------------------------------------------
(***************************************************************************)
(* A single process, as main.py:11 and README.md:173 start it.             *)
(***************************************************************************)
OneProcess == \A p, q \in Procs : p = q

\* While the process starts, nothing else of it is at work.
LEMMA OnlyStarter ==
  ASSUME Base, OneProcess, [Next]_vars, NEW p \in Procs,
         proc[p] = "starting"
  PROVE  Step(p) \/ Fault(p) \/ Crash(p) \/ UNCHANGED vars
<1>1. \A c \in Callers \ {p} : /\ c \notin Procs /\ at[c] = Rest(c)
                               /\ ~Up(c)
  BY Kinds DEF Base, Control, OneProcess, Up
<1>2. ASSUME NEW c \in Callers \ {p}, Step(c)
      PROVE  FALSE
  <2>1. at[c] \in {"off", "idle"} /\ c \notin Procs
    BY <1>1 DEF Rest
  <2>2. ~Transitioning(c)
    BY <2>1 DEF Transitioning, Target
  <2>3. at[c] \notin DOMAIN EventOf
    BY <2>1 DEF EventOf
  <2>4. QED
    BY <1>2, <2>1, <2>2, <2>3
    DEF Step, Read, Reject, Commit, Conflict, Announce, SignalRunning,
        SignalNobody, Enqueue, TakeDuplicate, Take, Settle, Die, Begin, Load,
        Furnish, RunAgent, AgentRaises, LoadFailed, LoadCancelled, Release,
        ExecStep
<1>3. ASSUME NEW c \in Callers \ {p}, Fault(c)
      PROVE  FALSE
  <2>1. c \in Workers => at[c] = "off"
    BY <1>1 DEF Rest
  <2>2. c \notin Workers => at[c] = "idle"
    BY <1>1 DEF Rest
  <2>3. QED
    BY <1>3, <2>1, <2>2
    DEF Fault, ExceptionInExecution, Body, Handlers, FailHandler,
        CancelHandler
<1>4. ASSUME NEW c \in Clients, Request(c)
      PROVE  FALSE
  BY <1>1, <1>4, Kinds DEF Request, Submit, Retry, Cancel
<1>5. QED
  BY <1>2, <1>3, <1>4 DEF Next, OneProcess

\* What the start-up code has read is still in the table when it acts on it.
Restarting(p) ==
  /\ \A b \in backlog[p] :
       /\ b.cancelling => row[b.task].status = "cancelling"
       /\ b.task # on[p]
       /\ \A d \in backlog[p] : b.task = d.task => b = d
  /\ at[p] \in {"cancelling", "signal", "cancelNow"}
       => row[on[p]].status = "cancelling"
  /\ seen[p] # Unread => Current(p)

RestartInv == \A p \in Procs : proc[p] = "starting" => Restarting(p)

LEMMA BootsRestarting ==
  ASSUME Base, NEW p \in Procs, Boot(p)
  PROVE  Restarting(p)'
<1>1. at[p] = "idle"
  BY DEF Boot, Base, Control
<1>2. on[p] = None /\ ~Transitioning(p) /\ seen[p] = Unread /\ p \in Callers
  BY <1>1, Kinds
  DEF Base, Control, Resting, Transitioning, Target, Reads
<1>3. UNCHANGED <<row, seen, at, on>>
  BY DEF Boot, repoVars, coVars
<1>4. backlog'[p] =
        {[task |-> t, cancelling |-> row[t].status = "cancelling"] :
           t \in {u \in Tasks : row[u].status \in Active}}
  BY DEF Boot, Base, Supplies
<1>5. \A b \in backlog'[p] :
        /\ b.task \in Tasks
        /\ b = [task |-> b.task,
                cancelling |-> row[b.task].status = "cancelling"]
  BY <1>4
<1>6. \A b \in backlog'[p] :
        /\ b.cancelling => row[b.task].status = "cancelling"
        /\ b.task # on[p]
        /\ \A d \in backlog'[p] : b.task = d.task => b = d
  <2> SUFFICES ASSUME NEW b \in backlog'[p]
               PROVE  /\ b.cancelling => row[b.task].status = "cancelling"
                      /\ b.task # on[p]
                      /\ \A d \in backlog'[p] : b.task = d.task => b = d
    OBVIOUS
  <2>1. b.cancelling = (row[b.task].status = "cancelling")
    BY <1>4
  <2>2. b.task # on[p]
    BY <1>2, <1>5, Kinds
  <2>3. \A d \in backlog'[p] : b.task = d.task => b = d
    BY <1>5
  <2>4. QED
    BY <2>1, <2>2, <2>3
<1>7. QED
  BY <1>1, <1>2, <1>3, <1>6 DEF Restarting

\* Neither refused nor overtaken.
LEMMA StarterSucceeds ==
  ASSUME Base, NEW p \in Procs, Restarting(p)
  PROVE  ~Reject(p) /\ ~Conflict(p)
<1>1. ~Conflict(p)
  BY DEF Conflict, Restarting
<1>2. ASSUME Reject(p)
      PROVE  FALSE
  <2>1. at[p] \in DOMAIN Target /\ at[p] \in StarterPlaces
    BY <1>2, Kinds DEF Reject, Transitioning, Base, Control
  <2>2. at[p] \in {"cancelling", "cancelNow"}
    BY <2>1 DEF Target, StarterPlaces, CancelPlaces
  <2>3. row[on[p]].status = "cancelling"
    BY <2>2 DEF Restarting
  <2>4. Target[at[p]] \in {"cancelling", "cancelled"}
    BY <2>2 DEF Target
  <2>5. CanRead(on[p], Target[at[p]])
    BY <2>3, <2>4 DEF CanRead, Legal, Allowed, Status
  <2>6. QED
    BY <1>2, <2>5 DEF Reject
<1>3. QED
  BY <1>1, <1>2

LEMMA StarterStep ==
  ASSUME Base, NEW p \in Procs, Restarting(p), proc[p] = "starting", Step(p),
         proc'[p] = "starting"
  PROVE  Restarting(p)'
<1>1. p \in Callers /\ p \notin Clients /\ p \notin Workers
  BY Kinds
<1>2. at[p] \in {"cancelling", "signal", "cancelNow", "tellCancelled", "idle"}
  BY Kinds DEF Base, Control, StarterPlaces, CancelPlaces
<1>3. CASE Read(p)
  <2>1. UNCHANGED <<row, at, on, backlog>> /\ seen'[p].version = row[on[p]].version
        /\ seen'[p].task = on[p]
    BY <1>1, <1>3 DEF Read, ReadRow, procVars, coVars, Base, RepoTypeOK
  <2>2. Current(p)'
    BY <2>1 DEF Current
  <2>3. QED
    BY <2>1, <2>2 DEF Restarting
<1>4. CASE Commit(p)
  <2>1. /\ on[p] \in Tasks /\ row'[on[p]].status = Target[at[p]]
        /\ \A t \in Tasks \ {on[p]} : row'[t] = row[t]
        /\ at[p] \in DOMAIN Target
    BY <1>1, <1>4, CommitWrites DEF Committing
  <2>2. /\ seen'[p] = Unread /\ at'[p] = AfterCommit[at[p]]
        /\ UNCHANGED <<on, backlog>>
    BY <1>1, <1>4
    DEF Commit, WriteRow, GoOn, Goto, procVars, Base, Control, RepoTypeOK
  <2>3. at[p] \in {"cancelling", "cancelNow"}
    BY <1>2, <2>1 DEF Target
  <2>4. \/ at'[p] = "signal" /\ row'[on[p]].status = "cancelling"
        \/ at'[p] = "tellCancelled"
    BY <2>1, <2>2, <2>3 DEF Target, AfterCommit
  <2>5. \A b \in backlog[p] : row'[b.task] = row[b.task]
    BY <2>1 DEF Restarting, Base, Supplies
  <2>6. QED
    BY <2>2, <2>4, <2>5 DEF Restarting
<1>5. CASE Announce(p)
  <2>1. at[p] = "tellCancelled"
    BY <1>2, <1>5 DEF Announce, EventOf
  <2>2. Return(p) /\ UNCHANGED <<row, seen, backlog>>
    BY <1>1, <1>5, <2>1 DEF Announce, procVars
  <2>3. at'[p] = "idle" /\ on'[p] = None
    BY <1>1, <2>2 DEF Return, Goto, Base, Control
  <2>4. \A b \in backlog[p] : b.task \in Tasks
    BY DEF Base, Supplies
  <2>5. seen[p] = Unread
    BY <1>1, <2>1 DEF Base, Reads, Transitioning, Target
  <2>6. QED
    BY <2>2, <2>3, <2>4, <2>5, Kinds DEF Restarting
<1>6. CASE SignalRunning(p)
  <2>1. PICK w \in Workers : Home[w] = p /\ on[w] = on[p]
    BY <1>1, <1>6, HomeAssumption DEF SignalRunning, Runs
  <2>2. at[w] = "off"
    BY <2>1, Kinds DEF Base, Control, Up
  <2>3. on[w] = None /\ on[p] # None
    BY <1>1, <1>6, <2>2, Kinds DEF SignalRunning, Base, Control, Resting
  <2>4. QED
    BY <2>1, <2>3
<1>7. CASE SignalNobody(p)
  <2>1. at[p] = "signal" /\ at'[p] = "cancelNow"
        /\ UNCHANGED <<row, seen, on, backlog>>
    BY <1>1, <1>7
    DEF SignalNobody, GoOn, Goto, repoVars, procVars, Base, Control
  <2>2. QED
    BY <2>1 DEF Restarting, Current
<1>8. CASE Requeue(p)
  <2>1. backlog'[p] \subseteq backlog[p] /\ UNCHANGED <<row, seen, at, on>>
    BY <1>8 DEF Requeue, Visit, repoVars, coVars, Base, Supplies
  <2>2. QED
    BY <2>1 DEF Restarting, Current
<1>9. CASE Recancel(p)
  <2>1. PICK b \in backlog[p] :
          /\ Visit(p, b)
          /\ b.cancelling
          /\ IF row[b.task].status \in Finished
             THEN UNCHANGED <<at, on>>
             ELSE Goto(p, "cancelling") /\ on' = [on EXCEPT ![p] = b.task]
    BY <1>9 DEF Recancel
  <2>2. row[b.task].status = "cancelling"
    BY <2>1 DEF Restarting
  <2>3. at'[p] = "cancelling" /\ on'[p] = b.task
    BY <1>1, <2>1, <2>2 DEF Goto, Finished, Base, Control
  <2>4. at[p] = "idle" /\ backlog'[p] = backlog[p] \ {b}
    BY <2>1 DEF Visit, Base, Supplies
  <2>5. seen[p] = Unread /\ UNCHANGED <<row, seen>>
    BY <1>1, <1>9, <2>4
    DEF Base, Reads, Transitioning, Target, Recancel, repoVars
  <2>6. QED
    BY <2>2, <2>3, <2>4, <2>5 DEF Restarting
<1>10. CASE Reject(p) \/ Conflict(p)
  BY <1>10, StarterSucceeds
<1>11. CASE Boot(p) \/ Serve(p)
  BY <1>11 DEF Boot, Serve, Base, Control
<1>12. QED
  BY <1>1, <1>3, <1>4, <1>5, <1>6, <1>7, <1>8, <1>9, <1>10, <1>11 DEF Step

\* A process starts with Boot.
LEMMA StartsWithBoot ==
  ASSUME Base, [Next]_vars, NEW p \in Procs,
         proc[p] # "starting", proc'[p] = "starting"
  PROVE  \E c \in Procs : Boot(c)
<1>1. ASSUME NEW c \in Callers, Step(c)
      PROVE  \E d \in Procs : Boot(d)
  BY <1>1
  DEF Step, Read, Commit, Reject, Conflict, Announce, SignalRunning,
      SignalNobody, Enqueue, TakeDuplicate, Take, Settle, Die, Begin, Load,
      Furnish, RunAgent, AgentRaises, LoadFailed, LoadCancelled, Release,
      ExecStep, Requeue, Recancel, Serve, Raise, ExceptionInExecution,
      Collapse, procVars, Base, Control
<1>2. ASSUME NEW c \in Callers, Fault(c)
      PROVE  FALSE
  BY <1>2
  DEF Fault, Raise, ExceptionInExecution, Collapse, procVars, Base, Control
<1>3. ASSUME NEW c \in Clients, Request(c)
      PROVE  FALSE
  BY <1>3 DEF Request, Submit, Retry, Cancel, Arrive, procVars
<1>4. ASSUME NEW q \in Procs, Crash(q)
      PROVE  FALSE
  BY <1>4 DEF Crash, Collapse, Base, Control
<1>5. CASE UNCHANGED vars
  BY <1>5 DEF vars
<1>6. QED
  BY <1>1, <1>2, <1>3, <1>4, <1>5 DEF Next

LEMMA RestartStep ==
  ASSUME Base, OneProcess, RestartInv, [Next]_vars
  PROVE  RestartInv'
<1> SUFFICES ASSUME NEW p \in Procs, proc'[p] = "starting"
             PROVE  Restarting(p)'
  BY DEF RestartInv
<1>1. CASE proc[p] = "starting"
  <2>1. Restarting(p)
    BY <1>1 DEF RestartInv
  <2>2. CASE UNCHANGED vars
    BY <2>1, <2>2 DEF vars, Restarting, Current
  <2>3. CASE Fault(p) \/ Crash(p)
    BY <2>3, Kinds DEF Fault, Raise, Crash, Collapse, Base, Control
  <2>4. QED
    BY <1>1, <2>1, <2>2, <2>3, OnlyStarter, StarterStep
<1>2. CASE proc[p] # "starting"
  <2>1. \A c \in Procs : Boot(c) => c = p
    BY DEF OneProcess
  <2>2. Boot(p)
    BY <1>2, <2>1, StartsWithBoot
  <2>3. QED
    BY <2>2, BootsRestarting
<1>3. QED
  BY <1>1, <1>2

LEMMA SpentGrows ==
  ASSUME Base, NEW p \in Procs, Fault(p) \/ Crash(p)
  PROVE  spent' # spent
<1>1. PICK k \in Nuisances : Spend(k)
  BY DEF Fault, Crash, Nuisances
<1>2. spent'[k] = spent[k] + 1 /\ spent[k] \in Nat
  BY <1>1 DEF Spend, Base, Supplies
<1>3. QED
  BY <1>2

(***************************************************************************)
(* With one process a restart recovers: what reconcile has selected is     *)
(* still in the table when it acts on it, so neither the validation nor    *)
(* the UPDATE of its cancels can fail, and only a crash or a failing       *)
(* database or Redis call ends the start-up (orchestrator.py:163-170).     *)
(***************************************************************************)
THEOREM RestartsRecover == OneProcess => (Spec => RestartRecovers)
<1> SUFFICES ASSUME OneProcess
             PROVE  Spec => RestartRecovers
  OBVIOUS
<1>1. Init => RestartInv
  BY DEF Init, RestartInv
<1>2. Base /\ RestartInv /\ [Next]_vars => RestartInv'
  BY RestartStep
<1>3. Base /\ RestartInv /\ [Next]_vars =>
        [\A p \in Procs :
           proc[p] = "starting" /\ proc'[p] = "down" => spent' # spent]_vars
  <2> SUFFICES ASSUME Base, RestartInv, Next, NEW p \in Procs,
                      proc[p] = "starting", proc'[p] = "down"
               PROVE  spent' # spent
    BY DEF vars
  <2>1. Step(p) \/ Fault(p) \/ Crash(p) \/ UNCHANGED vars
    BY OnlyStarter
  <2>2. CASE Fault(p) \/ Crash(p)
    BY <2>2, SpentGrows
  <2>3. CASE Step(p)
    <3>1. ~Reject(p) /\ ~Conflict(p)
      BY StarterSucceeds DEF RestartInv
    <3>2. QED
      BY <2>3, <3>1, Kinds
      DEF Step, Read, Commit, Announce, SignalRunning, SignalNobody, Boot,
          Requeue, Recancel, Serve, procVars, Base, Control
  <2>4. QED
    BY <2>1, <2>2, <2>3 DEF vars
<1>4. QED
  BY <1>1, <1>2, <1>3, Based, PTL DEF Spec, RestartRecovers
-----------------------------------------------------------------------------
\* A step that makes a client return without an answer.
Dropped(c) == Return(c) /\ Forget({c}) /\ UNCHANGED <<stream, puts>>

LEMMA ClientMoves ==
  ASSUME Base, [Next]_vars, NEW c \in Clients
  PROVE  \/ Still(c) \/ Gone(c) \/ Read(c) \/ Commit(c) \/ Announce(c)
         \/ SignalRunning(c) \/ SignalNobody(c) \/ Enqueue(c)
         \/ Dropped(c) \/ Request(c)
<1>1. /\ c \in Callers /\ c \notin Workers /\ c \notin Procs
      /\ PlacesOf(c) = ClientPlaces /\ at[c] \in ClientPlaces
  BY Kinds DEF Base, Control
<1>2. ~Opened(c) /\ \A d : ~Struck(d, c)
  BY <1>1 DEF Opened, Struck
<1>3. Raise(c) => Return(c) /\ Forget({c})
  BY <1>1 DEF Raise
<1>4. Step(c) => \/ Read(c) \/ Commit(c) \/ Announce(c)
                 \/ SignalRunning(c) \/ SignalNobody(c) \/ Enqueue(c)
                 \/ Dropped(c)
  BY <1>1, <1>3 DEF Step, Reject, Conflict, Dropped
<1>5. Fault(c) => Dropped(c)
  BY <1>1, <1>3 DEF Fault, Dropped
<1>6. QED
  BY <1>1, <1>2, <1>4, <1>5, Moves

\* An exception in the execution of w, wherever it comes from.
Excepted(w) == ExceptionInExecution(w) /\ UNCHANGED <<stream, puts>>

\* A worker loop that ends in a failing call to Redis.
Lost(w) ==
  /\ at[w] \in {"get", "ended"} /\ LetGo(w, "dead")
  /\ UNCHANGED <<repoVars, stream, puts>>

\* A step inside one execution that leaves table and stream alone.
Carries(w) ==
  \/ Begin(w) \/ Load(w) \/ Furnish(w) \/ RunAgent(w)
  \/ LoadFailed(w) \/ LoadCancelled(w) \/ Release(w)

LEMMA WorkerMoves ==
  ASSUME Base, [Next]_vars, NEW w \in Workers
  PROVE  \/ Still(w) \/ Gone(w) \/ Opened(w)
         \/ \E d \in Clients : Struck(d, w)
         \/ Read(w) \/ Commit(w) \/ Announce(w) \/ Carries(w)
         \/ TakeDuplicate(w) \/ Take(w) \/ Settle(w) \/ Die(w)
         \/ Excepted(w) \/ Lost(w)
<1>1. /\ w \in Callers /\ w \notin Clients /\ w \notin Procs
      /\ PlacesOf(w) = WorkerPlaces /\ at[w] \in WorkerPlaces
  BY Kinds DEF Base, Control
<1>2. at[w] # "signal"
  BY <1>1 DEF WorkerPlaces, Body, Handlers, FailHandler, CancelHandler
<1>3. Raise(w) => ExceptionInExecution(w)
  BY <1>1 DEF Raise
<1>4. Step(w) => \/ Read(w) \/ Commit(w) \/ Announce(w) \/ Carries(w)
                 \/ TakeDuplicate(w) \/ Take(w) \/ Settle(w) \/ Die(w)
                 \/ Excepted(w)
  BY <1>1, <1>2, <1>3
  DEF Step, Carries, Excepted, Reject, Conflict, AgentRaises, SignalRunning,
      SignalNobody
<1>5. Fault(w) => Excepted(w) \/ Lost(w)
  BY <1>1, <1>3 DEF Fault, Excepted, Lost
<1>6. QED
  BY <1>1, <1>4, <1>5, Moves

\* Who changes the stream.
LEMMA StreamChanges ==
  ASSUME [Next]_vars
  PROVE  \/ UNCHANGED <<stream, puts>>
         \/ \E c \in Clients : Enqueue(c)
         \/ \E p \in Procs : Requeue(p)
         \/ \E w \in Workers : TakeDuplicate(w) \/ Take(w) \/ Settle(w)
<1>1. ASSUME NEW d \in Callers, Step(d), ~(UNCHANGED <<stream, puts>>)
      PROVE  \/ d \in Clients /\ Enqueue(d)
             \/ d \in Procs /\ Requeue(d)
             \/ d \in Workers /\ (TakeDuplicate(d) \/ Take(d) \/ Settle(d))
  BY <1>1
  DEF Step, Read, Reject, Commit, Conflict, Announce, SignalRunning,
      SignalNobody, Die, Begin, Load, Furnish, RunAgent, AgentRaises,
      LoadFailed, LoadCancelled, Release, ExecStep, Boot, Recancel, Serve
<1>2. QED
  BY <1>1
  DEF Next, Fault, Crash, Request, Submit, Retry, Cancel, Arrive, vars

\* The entry worker w is given.
Given(w, e) ==
  /\ e \in Deliverable(InHand) /\ e \in stream /\ e \in Entry
  /\ Runs(Home[w], e.task) = {}
  /\ Deliver(e) /\ at[w] = "get" /\ at'[w] = "scheduled"
  /\ on'[w] = e.task /\ receipt'[w] = e.id /\ outcome' = outcome
  /\ UNCHANGED repoVars
  /\ \A c \in Callers \ {w} : at'[c] = at[c] /\ on'[c] = on[c]
  /\ \A v \in Workers \ {w} : receipt'[v] = receipt[v]

LEMMA TakenIsGiven ==
  ASSUME Base, NEW w \in Workers, Take(w)
  PROVE  \E e \in stream : Given(w, e)
<1>1. PICK e \in Deliverable(InHand) :
        /\ Runs(Home[w], e.task) = {}
        /\ Deliver(e)
        /\ Goto(w, "scheduled")
        /\ on' = [on EXCEPT ![w] = e.task]
        /\ receipt' = [receipt EXCEPT ![w] = e.id]
  BY DEF Take
<1>2. e \in stream /\ e \in Entry
  BY DEF Deliverable, Base, Supplies, QueueTypeOK
<1>3. w \in Callers /\ UNCHANGED <<repoVars, outcome>> /\ at[w] = "get"
  BY Kinds DEF Take
<1>4. Given(w, e)
  BY <1>1, <1>2, <1>3 DEF Given, Goto, Base, Control, Supplies
<1>5. QED
  BY <1>2, <1>4

\* A worker begins with a task when it is given an entry.
LEMMA WorkerKeeps ==
  ASSUME Base, [Next]_vars, NEW w \in Workers, on'[w] # None
  PROVE  \/ Take(w)
         \/ /\ on'[w] = on[w] /\ receipt'[w] = receipt[w]
            /\ ~Settle(w) /\ ~Die(w) /\ ~Gone(w)
<1>1. w \in Callers
  BY Kinds
<1>2. ~Settle(w) /\ ~Die(w) /\ ~Gone(w) /\ ~Lost(w)
  BY <1>1 DEF Settle, Die, LetGo, Gone, Lost, Base, Control
<1>3. CASE \/ Read(w) \/ Commit(w) \/ Announce(w) \/ Carries(w)
           \/ TakeDuplicate(w) \/ Excepted(w)
  <2>1. Announce(w) => UNCHANGED <<on, receipt>>
    BY Kinds, <1>1 DEF Announce, GoOn, Finish
  <2>2. QED
    BY <1>2, <1>3, <2>1
    DEF Read, Commit, Carries, TakeDuplicate, Begin, Load, Furnish, RunAgent,
        LoadFailed, LoadCancelled, Release, coVars, GoOn, Finish, Excepted,
        ExceptionInExecution
<1>4. CASE Still(w) \/ Opened(w) \/ \E d \in Clients : Struck(d, w)
  BY <1>2, <1>4 DEF Still, Opened, Struck
<1>5. QED
  BY <1>2, <1>3, <1>4, WorkerMoves
-----------------------------------------------------------------------------
\* Entries have numbers of their own, and receipts are among them.
Entries ==
  /\ \A e, f \in stream : e.id = f.id => e = f
  /\ \A e \in stream : e.id <= puts
  /\ \A w \in Workers : receipt[w] <= puts

LEMMA PutEntry ==
  ASSUME Base, Entries, NEW t \in Tasks, Put(t), UNCHANGED receipt
  PROVE  Entries'
<1>1. /\ puts \in Nat /\ puts' = puts + 1
      /\ \A e \in stream : e.id \in Nat
      /\ \A w \in Workers : receipt[w] \in Nat
  BY DEF Base, Supplies, QueueTypeOK, Entry, Put
<1>2. PICK new : /\ new = [id |-> puts + 1, task |-> t, delivered |-> FALSE]
                 /\ new.id = puts + 1
                 /\ stream' = stream \cup {new}
  BY DEF Put
<1>3. \A e \in stream : e.id <= puts' /\ e.id # new.id
  <2> SUFFICES ASSUME NEW e \in stream
               PROVE  e.id <= puts' /\ e.id # new.id
    OBVIOUS
  <2>1. e.id \in Nat /\ e.id <= puts
    BY <1>1 DEF Entries
  <2>2. QED
    BY <1>1, <1>2, <2>1
<1>4. \A e \in stream' : e.id <= puts'
  BY <1>1, <1>2, <1>3
<1>5. \A e, f \in stream' : e.id = f.id => e = f
  <2> SUFFICES ASSUME NEW e \in stream', NEW f \in stream', e.id = f.id
               PROVE  e = f
    OBVIOUS
  <2>1. (e \in stream \/ e = new) /\ (f \in stream \/ f = new)
    BY <1>2
  <2>2. QED
    BY <1>3, <2>1 DEF Entries
<1>6. \A w \in Workers : receipt[w] <= puts'
  BY <1>1 DEF Entries
<1>7. QED
  BY <1>4, <1>5, <1>6 DEF Entries

LEMMA EntriesStep ==
  ASSUME Base, Entries, [Next]_vars
  PROVE  Entries'
<1>1. CASE \E c \in Clients : Enqueue(c)
  <2>1. PICK c \in Clients : Enqueue(c)
    BY <1>1
  <2>2. on[c] \in Tasks /\ Put(on[c]) /\ UNCHANGED receipt
    BY <2>1, Kinds, Busy DEF Enqueue, Return, Base, Resting
  <2>3. PICK t \in Tasks : Put(t)
    BY <2>2
  <2>4. QED
    BY <2>2, <2>3, PutEntry
<1>2. CASE \E p \in Procs : Requeue(p)
  <2>1. PICK p \in Procs :
          \E b \in backlog[p] : Put(b.task) /\ UNCHANGED receipt
    BY <1>2 DEF Requeue, coVars
  <2>2. PICK t \in Tasks : Put(t)
    BY <2>1 DEF Base, Supplies
  <2>3. QED
    BY <2>1, <2>2, PutEntry
<1>3. CASE \E w \in Workers : Take(w)
  <2>1. PICK w \in Workers, e \in stream : Given(w, e)
    BY <1>3, TakenIsGiven
  <2>2. /\ stream' = (stream \ {e}) \cup {[e EXCEPT !.delivered = TRUE]}
        /\ puts' = puts /\ receipt'[w] = e.id
        /\ \A v \in Workers \ {w} : receipt'[v] = receipt[v]
    BY <2>1 DEF Given, Deliver
  <2>3. PICK new : /\ new.id = e.id
                   /\ stream' = (stream \ {e}) \cup {new}
    BY <2>1, <2>2 DEF Given, Entry
  <2>4. \A f, g \in stream' : f.id = g.id => f = g
    <3> SUFFICES ASSUME NEW f \in stream', NEW g \in stream', f.id = g.id
                 PROVE  f = g
      OBVIOUS
    <3>1. (f \in stream \ {e} \/ f = new) /\ (g \in stream \ {e} \/ g = new)
      BY <2>3
    <3>2. QED
      BY <2>3, <3>1 DEF Entries
  <2>5. QED
    BY <2>2, <2>3, <2>4 DEF Entries
<1>4. CASE /\ stream' \subseteq stream /\ puts' = puts
           /\ ~\E w \in Workers : Take(w)
  <2>1. ASSUME NEW w \in Workers
        PROVE  receipt'[w] <= puts
    <3>1. receipt'[w] \in {receipt[w], 0}
      <4>1. CASE on'[w] # None
        BY <1>4, <4>1, WorkerKeeps
      <4>2. CASE \/ Still(w) \/ Gone(w) \/ Opened(w)
                 \/ \E d \in Clients : Struck(d, w)
        BY <4>2 DEF Still, Gone, Opened, Struck
      <4>3. CASE \/ Read(w) \/ Commit(w) \/ Announce(w) \/ Carries(w)
                 \/ TakeDuplicate(w) \/ Excepted(w)
        BY <4>3
        DEF Read, Commit, Announce, Carries, TakeDuplicate, Begin, Load,
            Furnish, RunAgent, LoadFailed, LoadCancelled, Release, coVars,
            GoOn, Finish, Return, Excepted, ExceptionInExecution
      <4>4. CASE Settle(w) \/ Die(w) \/ Lost(w)
        BY <4>4 DEF Settle, Die, Lost, LetGo, Base, Supplies
      <4>5. QED
        BY <1>4, <4>2, <4>3, <4>4, WorkerMoves
    <3>2. QED
      BY <3>1 DEF Entries, Base, Supplies, QueueTypeOK
  <2>2. QED
    BY <1>4, <2>1 DEF Entries
<1>5. CASE \E w \in Workers : TakeDuplicate(w) \/ Settle(w)
  <2>1. stream' \subseteq stream /\ puts' = puts
    BY <1>5 DEF TakeDuplicate, Settle, Ack
  <2>2. QED
    BY <1>3, <1>4, <2>1
<1>6. CASE UNCHANGED <<stream, puts>>
  BY <1>3, <1>4, <1>6
<1>7. QED
  BY <1>1, <1>2, <1>3, <1>5, <1>6, StreamChanges

LEMMA Numbered == Spec => []Entries
<1>1. Init => Entries
  BY DEF Init, QueueInit, Entries
<1>2. Base /\ Entries /\ [Next]_vars => Entries'
  BY EntriesStep
<1>3. QED
  BY <1>1, <1>2, Based, PTL DEF Spec
-----------------------------------------------------------------------------
\* The worker loops of a process do not take up a task that one of them has.
OneRun == \A v, w \in Workers : on[v] = on[w] /\ on[v] # None => v = w

LEMMA OneRunStep ==
  ASSUME Base, OneProcess, OneRun, [Next]_vars
  PROVE  OneRun'
<1> SUFFICES ASSUME NEW v \in Workers, NEW w \in Workers,
                    on'[v] = on'[w], on'[v] # None, v # w
             PROVE  FALSE
  BY DEF OneRun
<1>1. ASSUME NEW x \in Workers, NEW y \in Workers, x # y,
             on'[x] = on'[y], Take(x)
      PROVE  FALSE
  <2>1. PICK e \in stream : Given(x, e)
    BY <1>1, TakenIsGiven
  <2>2. y \in Callers \ {x}
    BY <1>1, Kinds
  <2>3. on[y] = e.task
    BY <1>1, <2>1, <2>2 DEF Given
  <2>4. Home[x] = Home[y]
    BY Kinds DEF OneProcess
  <2>5. y \in Runs(Home[x], e.task)
    BY <2>3, <2>4 DEF Runs
  <2>6. QED
    BY <2>1, <2>5 DEF Given
<1>2. ~Take(v) /\ ~Take(w)
  BY <1>1
<1>3. on'[v] = on[v] /\ on'[w] = on[w]
  BY <1>2, WorkerKeeps
<1>4. QED
  BY <1>3 DEF OneRun

LEMMA OneRunEach == OneProcess => (Spec => []OneRun)
<1> SUFFICES ASSUME OneProcess
             PROVE  Spec => []OneRun
  OBVIOUS
<1>1. Init => OneRun
  BY Kinds DEF Init, OneRun
<1>2. Base /\ OneRun /\ [Next]_vars => OneRun'
  BY OneRunStep
<1>3. QED
  BY <1>1, <1>2, Based, PTL DEF Spec

(***************************************************************************)
(* No two requests deal with one task at the same time.  The API does not  *)
(* see to it; the theorems below say what holds as long as its callers do. *)
(***************************************************************************)
RequestsApart ==
  \A c, d \in Clients : on[c] = on[d] /\ on[c] # None => c = d

\* Under a cancel that is about to look for the execution, the task does not
\* come back to life.
CancelsStick ==
  \A c \in Clients :
    at[c] = "signal" => row[on[c]].status \in Finished \cup {"cancelling"}

LEMMA EndsStay ==
  ASSUME Base, [Next]_vars, NEW t \in Tasks,
         row[t].status \in Finished \cup {"cancelling"},
         \A d \in Clients : ~(Commit(d) /\ at[d] = "queue" /\ on[d] = t)
  PROVE  row'[t].status \in Finished \cup {"cancelling"}
<1>1. ASSUME NEW d \in Callers, Committing(d, t)
      PROVE  row'[t].status \in Finished \cup {"cancelling"}
  <2>1. at[d] # "queue"
    <3>1. at[d] = "queue" => d \in Clients
      BY Kinds
      DEF Base, Control, WorkerPlaces, Body, Handlers, FailHandler,
          CancelHandler, StarterPlaces, CancelPlaces
    <3>2. QED
      BY <1>1, <3>1 DEF Committing
  <2>2. Target[at[d]] # "queued"
    BY <1>1, <2>1 DEF Committing, Target
  <2>3. Legal(row[t].status, Target[at[d]])
    BY <1>1 DEF Committing
  <2>4. QED
    BY <1>1, <2>2, <2>3 DEF Committing, Legal, Allowed, Finished
<1>2. QED
  BY <1>1, RowChanges DEF Finished, Absent

LEMMA SignalEntered ==
  ASSUME Base, [Next]_vars, NEW c \in Clients, at'[c] = "signal"
  PROVE  \/ at[c] = "signal" /\ on'[c] = on[c] /\ on[c] \in Tasks
         \/ /\ Commit(c) /\ on'[c] = on[c] /\ on[c] \in Tasks
            /\ row'[on[c]].status = "cancelling"
<1>1. c \in Callers /\ c \notin Workers /\ Rest(c) = "idle"
  BY Kinds
<1>2. CASE Still(c)
  BY <1>1, <1>2, Busy DEF Still, Resting, Base
<1>3. CASE Read(c)
  BY <1>1, <1>3, Busy DEF Read, coVars, Resting, Base
<1>4. CASE Commit(c)
  <2>1. at[c] \in DOMAIN Target /\ at'[c] = AfterCommit[at[c]] /\ on' = on
    BY <1>1, <1>4 DEF Commit, Transitioning, GoOn, Goto, Base, Control
  <2>2. at[c] = "cancelling"
    BY <2>1 DEF Target, AfterCommit
  <2>3. QED
    BY <1>1, <1>4, <2>1, <2>2, CommitWrites DEF Committing, Target
<1>5. CASE \/ Gone(c) \/ Announce(c) \/ SignalRunning(c) \/ SignalNobody(c)
           \/ Enqueue(c) \/ Dropped(c)
  <2>1. CASE SignalRunning(c)
    <3>1. PICK w \in Workers, place \in {"ended", "cancelLoad", "finally"} :
            Interrupts(c, w, place)
      BY <1>1, <2>1, Signalled DEF Base
    <3>2. at'[c] = "idle"
      BY <1>1, <3>1 DEF Interrupts, Base, Control
    <3>3. QED
      BY <3>2
  <2>2. CASE Gone(c)
    BY <1>1, <2>2 DEF Gone
  <2>3. CASE Announce(c) \/ SignalNobody(c) \/ Enqueue(c) \/ Dropped(c)
    BY <1>1, <2>3
    DEF Announce, SignalNobody, Enqueue, Dropped, GoOn, Goto, Finish, Return,
        Base, Control
  <2>4. QED
    BY <1>5, <2>1, <2>2, <2>3
<1>6. CASE Request(c)
  <2>1. PICK place \in {"tellCreated", "queue", "cancelling"} :
          at' = [at EXCEPT ![c] = place]
    BY <1>6 DEF Request, Submit, Retry, Cancel, Arrive, Goto
  <2>2. QED
    BY <1>1, <2>1 DEF Base, Control
<1>7. QED
  BY <1>2, <1>3, <1>4, <1>5, <1>6, ClientMoves

LEMMA CancelsStickStep ==
  ASSUME Base, RequestsApart, CancelsStick, [Next]_vars
  PROVE  CancelsStick'
<1> SUFFICES ASSUME NEW c \in Clients, at'[c] = "signal"
             PROVE  row'[on'[c]].status \in Finished \cup {"cancelling"}
  BY DEF CancelsStick
<1>1. CASE at[c] = "signal" /\ on'[c] = on[c] /\ on[c] \in Tasks
  <2>1. PICK t \in Tasks : t = on[c]
    BY <1>1
  <2>2. row[t].status \in Finished \cup {"cancelling"}
    BY <1>1, <2>1 DEF CancelsStick
  <2>3. \A d \in Clients : ~(Commit(d) /\ at[d] = "queue" /\ on[d] = t)
    BY <1>1, <2>1, Kinds DEF RequestsApart
  <2>4. QED
    BY <1>1, <2>1, <2>2, <2>3, EndsStay
<1>2. QED
  BY <1>1, SignalEntered
-----------------------------------------------------------------------------
Started == {"provisioning", "running"}

\* The entry worker w was given is pending, and is of its task.
HeldBy(w) == [id |-> receipt[w], task |-> on[w], delivered |-> TRUE]

Held == \A w \in Workers : on[w] # None => HeldBy(w) \in stream

\* An execution whose item will be acked when it ends.
Done(w) ==
  \/ at[w] \in CancelHandler \cup {"tellCompleted", "tellFailed"}
  \/ at[w] \in {"finally", "ended"} /\ outcome[w] # "raised"

\* It leaves nothing half-way.
Parked == \A w \in Workers : Done(w) => row[on[w]].status \notin Started

LEMMA NotDeliverable ==
  ASSUME ~SlowExecutions, Entries, Held, NEW w \in Workers, on[w] # None,
         NEW e \in Deliverable(InHand)
  PROVE  e.id # receipt[w]
<1>1. e \in stream /\ HeldBy(w) \in stream
  BY DEF Deliverable, Held
<1>2. HeldBy(w).id = receipt[w] /\ HeldBy(w).delivered
  BY DEF HeldBy
<1>3. ASSUME e.id = receipt[w]
      PROVE  FALSE
  <2>1. e = HeldBy(w)
    BY <1>1, <1>2, <1>3 DEF Entries
  <2>2. e.delivered /\ e.id \in InHand
    BY <1>2, <1>3, <2>1 DEF InHand
  <2>3. QED
    BY <2>2 DEF Deliverable, Stale, Fresh
<1>4. QED
  BY <1>3

LEMMA OwnReceipts ==
  ASSUME Entries, OneRun, Held, NEW v \in Workers, NEW w \in Workers,
         on[v] # None, on[w] # None, receipt[v] = receipt[w]
  PROVE  v = w
<1>1. HeldBy(v) \in stream /\ HeldBy(w) \in stream
  BY DEF Held
<1>2. HeldBy(v).id = HeldBy(w).id
  BY DEF HeldBy
<1>3. HeldBy(v) = HeldBy(w)
  BY <1>1, <1>2 DEF Entries
<1>4. on[v] = on[w]
  BY <1>3 DEF HeldBy
<1>5. QED
  BY <1>4 DEF OneRun

LEMMA HeldStep ==
  ASSUME Base, ~SlowExecutions, Entries, OneRun, Held, [Next]_vars
  PROVE  Held'
<1> SUFFICES ASSUME NEW w \in Workers, on'[w] # None
             PROVE  [id |-> receipt'[w], task |-> on'[w], delivered |-> TRUE]
                      \in stream'
  BY DEF Held, HeldBy
<1>1. CASE Take(w)
  <2>1. PICK e \in stream : Given(w, e)
    BY <1>1, TakenIsGiven
  <2>2. /\ [e EXCEPT !.delivered = TRUE] \in stream'
        /\ receipt'[w] = e.id /\ on'[w] = e.task /\ e \in Entry
    BY <2>1 DEF Given, Deliver
  <2>3. [e EXCEPT !.delivered = TRUE] =
          [id |-> e.id, task |-> e.task, delivered |-> TRUE]
    <3>1. [e EXCEPT !.delivered = TRUE] \in Entry
      BY <2>2 DEF Entry
    <3>2. /\ [e EXCEPT !.delivered = TRUE].id = e.id
          /\ [e EXCEPT !.delivered = TRUE].task = e.task
      BY <2>2 DEF Entry
    <3>3. [e EXCEPT !.delivered = TRUE].delivered
      BY <2>2 DEF Entry
    <3>4. PICK new \in Entry : /\ new = [e EXCEPT !.delivered = TRUE]
                               /\ new.id = e.id /\ new.task = e.task
                               /\ new.delivered
      BY <3>1, <3>2, <3>3
    <3>5. new = [id |-> new.id, task |-> new.task,
                 delivered |-> new.delivered]
      BY DEF Entry
    <3>6. new.delivered = TRUE
      BY <3>4 DEF Entry
    <3>7. QED
      BY <3>4, <3>5, <3>6
  <2>4. QED
    BY <2>2, <2>3
<1>2. CASE on'[w] = on[w] /\ receipt'[w] = receipt[w] /\ ~Settle(w)
  <2>1. PICK h \in stream : /\ h = HeldBy(w) /\ h.delivered
                            /\ h.id = receipt[w]
    BY <1>2 DEF Held, HeldBy
  <2>2. CASE \E v \in Workers : TakeDuplicate(v)
    <3>1. PICK v \in Workers : \E e \in Deliverable(InHand) : Ack(e.id)
      BY <2>2 DEF TakeDuplicate
    <3>2. PICK e \in Deliverable(InHand) : Ack(e.id)
      BY <3>1
    <3>3. e.id # receipt[w]
      BY <1>2, NotDeliverable
    <3>4. h \in stream'
      BY <2>1, <3>2, <3>3 DEF Ack
    <3>5. QED
      BY <1>2, <2>1, <3>4 DEF HeldBy
  <2>3. CASE \E v \in Workers : Take(v)
    <3>1. PICK v \in Workers, e \in stream : Given(v, e)
      BY <2>3, TakenIsGiven
    <3>2. stream' = (stream \ {e}) \cup {[e EXCEPT !.delivered = TRUE]}
      BY <3>1 DEF Given, Deliver
    <3>3. CASE e # h
      BY <1>2, <2>1, <3>2, <3>3 DEF HeldBy
    <3>4. CASE e = h
      <4>1. [e EXCEPT !.delivered = TRUE] = h
        BY <2>1, <3>4 DEF HeldBy
      <4>2. QED
        BY <1>2, <2>1, <3>2, <4>1 DEF HeldBy
    <3>5. QED
      BY <3>3, <3>4
  <2>4. CASE \E v \in Workers : Settle(v)
    <3>1. PICK v \in Workers : Settle(v)
      BY <2>4
    <3>2. v # w /\ on[v] # None /\ Ack(receipt[v])
      BY <1>2, <3>1, Kinds DEF Settle, Base, Control, Resting
    <3>3. receipt[v] # receipt[w]
      BY <1>2, <3>2, OwnReceipts
    <3>4. h \in stream'
      BY <2>1, <3>2, <3>3 DEF Ack
    <3>5. QED
      BY <1>2, <2>1, <3>4 DEF HeldBy
  <2>5. CASE (\E c \in Clients : Enqueue(c)) \/ (\E p \in Procs : Requeue(p))
    BY <1>2, <2>1, <2>5 DEF Enqueue, Requeue, Put, HeldBy
  <2>6. CASE UNCHANGED <<stream, puts>>
    BY <1>2, <2>1, <2>6 DEF HeldBy
  <2>7. QED
    BY <2>2, <2>3, <2>4, <2>5, <2>6, StreamChanges
<1>3. QED
  BY <1>1, <1>2, WorkerKeeps

\* Only an execution on its way through provisioning starts a task.
LEMMA OnlyWorkersStart ==
  ASSUME Base, [Next]_vars, NEW t \in Tasks, row[t].status \notin Started,
         row'[t].status \in Started
  PROVE  \E w \in Workers : /\ Commit(w) /\ on[w] = t
                            /\ at[w] \in {"provision", "run"}
<1>1. PICK d \in Callers : Committing(d, t)
  BY RowChanges DEF Started
<1>2. at[d] \in {"provision", "run"}
  BY <1>1 DEF Committing, Target, Started
<1>3. d \in Workers
  BY <1>2, Kinds
  DEF Base, Control, ClientPlaces, EnqueuePlaces, StarterPlaces, CancelPlaces
<1>4. QED
  BY <1>1, <1>2, <1>3 DEF Committing

LEMMA ParkedStays ==
  ASSUME Base, OneRun, Parked, [Next]_vars, NEW w \in Workers, Done(w),
         ~Commit(w), on'[w] = on[w]
  PROVE  row'[on'[w]].status \notin Started
<1>1. at[w] \notin Resting /\ w \in Callers
  BY Kinds DEF Done, CancelHandler, Resting
<1>2. PICK t \in Tasks : t = on[w]
  BY <1>1, Busy DEF Base
<1>3. row[t].status \notin Started
  BY <1>2 DEF Parked
<1>4. ASSUME NEW v \in Workers, Commit(v), on[v] = t
      PROVE  FALSE
  BY <1>2, <1>4, NoneAssumption DEF OneRun
<1>5. QED
  BY <1>2, <1>3, <1>4, OnlyWorkersStart

LEMMA CarriedOn ==
  ASSUME Base, Parked, NEW w \in Workers, Carries(w), Done(w)'
  PROVE  row'[on'[w]].status \notin Started
<1>1. w \in Callers /\ row' = row /\ on' = on
  BY Kinds
  DEF Carries, Begin, Load, Furnish, RunAgent, LoadFailed, LoadCancelled,
      Release, ExecStep, GoOn, Finish, repoVars
<1>2. CASE Begin(w) \/ Furnish(w) \/ RunAgent(w)
  <2>1. at'[w] \in {"load", "run", "tellStarted", "complete"}
    BY <1>1, <1>2 DEF Begin, Furnish, RunAgent, GoOn, Goto, Base, Control
  <2>2. QED
    BY <2>1 DEF Done, CancelHandler
<1>3. CASE Load(w) \/ LoadFailed(w)
  <2>1. \/ at'[w] \in {"provision", "environment", "reattach", "fail"}
        \/ StatusOn(w) \in Finished
    BY <1>1, <1>3 DEF Load, LoadFailed, GoOn, Goto, Base, Control
  <2>2. QED
    BY <1>1, <2>1 DEF Done, CancelHandler, StatusOn, Finished, Started
<1>4. CASE LoadCancelled(w)
  <2>1. at[w] = "cancelLoad"
    BY <1>4 DEF LoadCancelled, ExecStep
  <2>2. QED
    BY <1>1, <2>1 DEF Parked, Done, CancelHandler
<1>5. CASE Release(w)
  <2>1. at[w] = "finally" /\ at'[w] = "ended" /\ outcome' = outcome
    BY <1>1, <1>5 DEF Release, ExecStep, GoOn, Goto, Base, Control
  <2>2. QED
    BY <1>1, <2>1 DEF Parked, Done, CancelHandler
<1>6. QED
  BY <1>2, <1>3, <1>4, <1>5 DEF Carries

LEMMA ParkedStep ==
  ASSUME Base, OneRun, CancelsStick, Parked, [Next]_vars
  PROVE  Parked'
<1> SUFFICES ASSUME NEW w \in Workers, Done(w)'
             PROVE  row'[on'[w]].status \notin Started
  BY DEF Parked
<1>1. w \in Callers /\ Rest(w) = "off"
  BY Kinds
<1>2. CASE Still(w)
  <2>1. Done(w) /\ on'[w] = on[w] /\ at'[w] = at[w]
    BY <1>2 DEF Still, Done
  <2>2. ~Commit(w)
    <3>1. ASSUME Commit(w)
          PROVE  FALSE
      <4>1. at'[w] = AfterCommit[at[w]] /\ at[w] \in DOMAIN Target
        BY <1>1, <3>1 DEF Commit, Transitioning, GoOn, Goto, Base, Control
      <4>2. QED
        BY <2>1, <4>1 DEF AfterCommit, Target
    <3>2. QED
      BY <3>1
  <2>3. QED
    BY <2>1, <2>2, ParkedStays
<1>3. CASE \E d \in Clients : Struck(d, w)
  BY <1>3 DEF Struck, CancelsStick, Finished, Started
<1>4. CASE Read(w)
  BY <1>4 DEF Read, ReadRow, coVars, Done, Parked
<1>5. CASE Commit(w)
  <2>1. at'[w] = AfterCommit[at[w]] /\ at[w] \in DOMAIN Target /\ on' = on
    BY <1>1, <1>5 DEF Commit, Transitioning, GoOn, Goto, Base, Control
  <2>2. row'[on[w]].status = Target[at[w]]
    BY <1>1, <1>5, CommitWrites DEF Committing
  <2>3. at[w] \notin {"provision", "run"}
    BY <2>1 DEF AfterCommit, Done, CancelHandler
  <2>4. QED
    BY <2>1, <2>2, <2>3 DEF Target, Started
<1>6. CASE Announce(w)
  <2>1. row' = row /\ at[w] \in DOMAIN EventOf
    BY <1>6 DEF Announce
  <2>2. CASE at[w] \in {"tellCompleted", "tellFailed", "tellCancelled"}
    <3>1. on' = on
      BY <1>1, <1>6, <2>2, Kinds DEF Announce, GoOn, Finish
    <3>2. QED
      BY <2>1, <2>2, <3>1 DEF Parked, Done, CancelHandler
  <2>3. CASE at[w] \in {"tellCreated", "tellQueued", "tellStarted"}
    <3>1. at'[w] \in {"queue", "put", "agent"}
      BY <1>1, <1>6, <2>3 DEF Announce, GoOn, Goto, Base, Control
    <3>2. QED
      BY <3>1 DEF Done, CancelHandler
  <2>4. QED
    BY <2>1, <2>2, <2>3 DEF EventOf
<1>7. CASE Carries(w)
  BY <1>7, CarriedOn
<1>8. CASE Excepted(w)
  <2>1. \/ at'[w] = "failLoad"
        \/ at'[w] \in {"finally", "ended"} /\ outcome'[w] = "raised"
    BY <1>1, <1>8
    DEF Excepted, ExceptionInExecution, GoOn, Goto, Finish, Base, Control,
        Supplies
  <2>2. QED
    BY <2>1 DEF Done, CancelHandler
<1>9. CASE \/ Gone(w) \/ Opened(w) \/ TakeDuplicate(w) \/ Take(w)
           \/ Settle(w) \/ Die(w) \/ Lost(w)
  <2>1. at'[w] \in {"off", "get", "scheduled", "dead"}
    BY <1>1, <1>9
    DEF Gone, Opened, TakeDuplicate, Take, Settle, Die, Lost, LetGo, Goto,
        coVars, Base, Control
  <2>2. QED
    BY <2>1 DEF Done, CancelHandler
<1>10. QED
  BY <1>2, <1>3, <1>4, <1>5, <1>6, <1>7, <1>8, <1>9, WorkerMoves

\* A process brings task t back to the stream when it starts.
ToRequeue(t) ==
  \E p \in Procs :
    proc[p] = "down" \/ [task |-> t, cancelling |-> FALSE] \in backlog[p]

\* An entry of task t is pending or waits to be delivered.
Pending(t) == \E e \in stream : e.task = t

Kept ==
  \A t \in Tasks : row[t].status \in Started => ToRequeue(t) \/ Pending(t)

\* How a process comes and goes, and what becomes of its backlog.
LEMMA ProcessMoves ==
  ASSUME Base, [Next]_vars, NEW p \in Procs
  PROVE  \/ proc'[p] = "down" /\ backlog'[p] = {}
         \/ Boot(p)
         \/ Requeue(p)
         \/ Recancel(p)
         \/ backlog'[p] = backlog[p] /\ (proc[p] = "down" => proc'[p] = "down")
<1>1. ASSUME NEW c \in Callers, Step(c)
      PROVE  \/ proc'[p] = "down" /\ backlog'[p] = {}
             \/ Boot(p) \/ Requeue(p) \/ Recancel(p)
             \/ backlog'[p] = backlog[p] /\ proc'[p] = proc[p]
             \/ backlog'[p] = backlog[p] /\ proc[p] # "down"
  <2>1. CASE Boot(c) \/ Requeue(c) \/ Recancel(c)
    BY <2>1 DEF Boot, Requeue, Recancel, Visit, Base, Control, Supplies
  <2>2. CASE c \in Procs /\ Serve(c)
    BY <2>2 DEF Serve, Base, Control
  <2>3. CASE Reject(c) \/ Conflict(c) \/ AgentRaises(c)
    BY <2>3
    DEF Reject, Conflict, AgentRaises, Raise, ExceptionInExecution, Collapse,
        procVars, Base, Control, Supplies
  <2>4. QED
    BY <1>1, <2>1, <2>2, <2>3
    DEF Step, Read, Commit, Announce, SignalRunning, SignalNobody, Enqueue,
        TakeDuplicate, Take, Settle, Die, Begin, Load, Furnish, RunAgent,
        LoadFailed, LoadCancelled, Release, ExecStep, procVars
<1>2. ASSUME NEW c \in Callers, Fault(c)
      PROVE  \/ proc'[p] = "down" /\ backlog'[p] = {}
             \/ backlog'[p] = backlog[p] /\ proc'[p] = proc[p]
  BY <1>2
  DEF Fault, Raise, ExceptionInExecution, Collapse, procVars, Base, Control,
      Supplies
<1>3. ASSUME NEW c \in Clients, Request(c)
      PROVE  backlog'[p] = backlog[p] /\ proc'[p] = proc[p]
  BY <1>3 DEF Request, Submit, Retry, Cancel, Arrive, procVars
<1>4. ASSUME NEW q \in Procs, Crash(q)
      PROVE  \/ proc'[p] = "down" /\ backlog'[p] = {}
             \/ backlog'[p] = backlog[p] /\ proc'[p] = proc[p]
  BY <1>4 DEF Crash, Collapse, Base, Control, Supplies
<1>5. CASE UNCHANGED vars
  BY <1>5 DEF vars
<1>6. QED
  BY <1>1, <1>2, <1>3, <1>4, <1>5 DEF Next

\* Of what a process has yet to requeue nothing gets lost.
LEMMA RequeueKept ==
  ASSUME Base, [Next]_vars, NEW t \in Tasks, ToRequeue(t),
         row[t].status \in Active \ {"cancelling"}
  PROVE  \/ ToRequeue(t)'
         \/ Put(t) /\ UNCHANGED <<at, on, receipt>>
<1>1. PICK p \in Procs :
        proc[p] = "down" \/ [task |-> t, cancelling |-> FALSE] \in backlog[p]
  BY DEF ToRequeue
<1>2. PICK b : b = [task |-> t, cancelling |-> FALSE]
  OBVIOUS
<1>3. b.task = t /\ ~b.cancelling
  BY <1>2
<1>4. CASE Boot(p)
  <2>1. b \in backlog'[p]
    BY <1>2, <1>4 DEF Boot, Base, Supplies
  <2>2. QED
    BY <1>2, <2>1 DEF ToRequeue
<1>5. CASE Requeue(p)
  <2>1. PICK d \in backlog[p] : Visit(p, d) /\ Put(d.task) /\ ~d.cancelling
    BY <1>5 DEF Requeue
  <2> UNCHANGED <<at, on, receipt>>
    BY <1>5 DEF Requeue, coVars
  <2>2. proc[p] = "starting" /\ backlog'[p] = backlog[p] \ {d}
    BY <2>1 DEF Visit, Base, Supplies
  <2>3. CASE d = b
    BY <1>3, <2>1, <2>3
  <2>4. CASE d # b
    BY <1>1, <1>2, <2>2, <2>4 DEF ToRequeue
  <2>5. QED
    BY <2>3, <2>4
<1>6. CASE Recancel(p)
  <2>1. PICK d \in backlog[p] : Visit(p, d) /\ d.cancelling
    BY <1>6 DEF Recancel
  <2>2. proc[p] = "starting" /\ backlog'[p] = backlog[p] \ {d} /\ d # b
    BY <1>3, <2>1 DEF Visit, Base, Supplies
  <2>3. QED
    BY <1>1, <1>2, <2>2 DEF ToRequeue
<1>7. CASE \/ proc'[p] = "down"
           \/ /\ backlog'[p] = backlog[p]
              /\ proc[p] = "down" => proc'[p] = "down"
  BY <1>1, <1>7 DEF ToRequeue
<1>8. QED
  BY <1>4, <1>5, <1>6, <1>7, ProcessMoves

\* Entries of task t go only when its execution is done.
LEMMA PendingKept ==
  ASSUME Base, ~SlowExecutions, Entries, OneRun, Held, Parked, [Next]_vars,
         NEW t \in Tasks, Pending(t), row[t].status \in Started
  PROVE  Pending(t)'
<1>1. PICK e \in stream : e.task = t
  BY DEF Pending
<1>2. CASE \E v \in Workers : TakeDuplicate(v)
  <2>1. PICK v \in Workers : \E d \in Deliverable(InHand) :
          Runs(Home[v], d.task) # {} /\ Ack(d.id)
    BY <1>2 DEF TakeDuplicate
  <2>2. PICK d \in Deliverable(InHand) :
          Runs(Home[v], d.task) # {} /\ Ack(d.id)
    BY <2>1
  <2>3. CASE e.id # d.id
    BY <1>1, <2>2, <2>3 DEF Ack, Pending
  <2>4. CASE e.id = d.id
    <3>1. d = e
      BY <2>4 DEF Entries, Deliverable
    <3>2. PICK w \in Workers : on[w] = t
      BY <1>1, <2>2, <3>1 DEF Runs
    <3>3. on[w] # None
      BY <3>2, NoneAssumption
    <3>4. d.id # receipt[w]
      BY <3>3, NotDeliverable
    <3>5. HeldBy(w) \in stream
      BY <3>3 DEF Held
    <3>6. HeldBy(w).task = t /\ HeldBy(w).id = receipt[w]
      BY <3>2 DEF HeldBy
    <3>7. QED
      BY <2>2, <3>4, <3>5, <3>6 DEF Ack, Pending
  <2>5. QED
    BY <2>3, <2>4
<1>3. CASE \E v \in Workers : Take(v)
  <2>1. PICK v \in Workers, d \in stream : Given(v, d)
    BY <1>3, TakenIsGiven
  <2>2. PICK new : /\ new.task = d.task
                   /\ stream' = (stream \ {d}) \cup {new}
    BY <2>1 DEF Given, Deliver, Entry
  <2>3. QED
    BY <1>1, <2>2 DEF Pending
<1>4. CASE \E v \in Workers : Settle(v)
  <2>1. PICK v \in Workers : Settle(v)
    BY <1>4
  <2>2. /\ Ack(receipt[v]) /\ at[v] = "ended"
        /\ outcome[v] \in {"returned", "cancelled"}
    BY <2>1 DEF Settle
  <2>3. Done(v) /\ on[v] # None
    BY <2>2, Kinds DEF Done, Base, Control, Resting
  <2>4. CASE e.id # receipt[v]
    BY <1>1, <2>2, <2>4 DEF Ack, Pending
  <2>5. CASE e.id = receipt[v]
    <3>1. HeldBy(v) \in stream /\ HeldBy(v).id = receipt[v]
      BY <2>3 DEF Held, HeldBy
    <3>2. e = HeldBy(v)
      BY <2>5, <3>1 DEF Entries
    <3>3. on[v] = t
      BY <1>1, <3>2 DEF HeldBy
    <3>4. QED
      BY <2>3, <3>3 DEF Parked
  <2>6. QED
    BY <2>4, <2>5
<1>5. CASE (\E c \in Clients : Enqueue(c)) \/ (\E p \in Procs : Requeue(p))
  BY <1>1, <1>5 DEF Enqueue, Requeue, Put, Pending
<1>6. CASE UNCHANGED <<stream, puts>>
  BY <1>1, <1>6 DEF Pending
<1>7. QED
  BY <1>2, <1>3, <1>4, <1>5, <1>6, StreamChanges

LEMMA KeptStep ==
  ASSUME Base, ~SlowExecutions, Entries, OneRun, Held, Parked, Kept,
         [Next]_vars
  PROVE  Kept'
<1> SUFFICES ASSUME NEW t \in Tasks, row'[t].status \in Started
             PROVE  ToRequeue(t)' \/ Pending(t)'
  BY DEF Kept
<1>1. CASE row[t].status \in Started
  <2>1. CASE Pending(t)
    BY <1>1, <2>1, PendingKept
  <2>2. CASE ToRequeue(t)
    <3>1. CASE Put(t)
      <4>1. PICK new : new.task = t /\ new \in stream'
        BY <3>1 DEF Put
      <4>2. QED
        BY <4>1 DEF Pending
    <3>2. QED
      BY <1>1, <2>2, <3>1, RequeueKept DEF Started, Active
  <2>3. QED
    BY <1>1, <2>1, <2>2 DEF Kept
<1>2. CASE row[t].status \notin Started
  <2>1. PICK w \in Workers : Commit(w) /\ on[w] = t
    BY <1>2, OnlyWorkersStart
  <2>2. HeldBy(w) \in stream /\ HeldBy(w).task = t
    BY <2>1, NoneAssumption DEF Held, HeldBy
  <2>3. stream' = stream
    BY <2>1 DEF Commit
  <2>4. QED
    BY <2>2, <2>3 DEF Pending
<1>3. QED
  BY <1>1, <1>2

(***************************************************************************)
(* No task is abandoned half-way, whatever crashes, faults, cancels and    *)
(* retries come in between (orchestrator.py:163-194, 382-411): with one    *)
(* process whose executions end before the visibility timeout, as long as  *)
(* no two requests deal with one task at the same time.                    *)
(***************************************************************************)
THEOREM NothingIsAbandoned ==
  OneProcess /\ ~SlowExecutions
    => (Spec /\ []RequestsApart => []StartedIsCarried)
<1> SUFFICES ASSUME OneProcess, ~SlowExecutions
             PROVE  Spec /\ []RequestsApart => []StartedIsCarried
  OBVIOUS
<1>1. Init => CancelsStick /\ Held /\ Parked /\ Kept
  BY Kinds
  DEF Init, RepoInit, CancelsStick, Held, Parked, Done, CancelHandler, Kept,
      Started, Absent, Rest
<1>2. /\ Base /\ Entries /\ OneRun /\ RequestsApart
      /\ CancelsStick /\ Held /\ Parked /\ Kept
      /\ [Next]_vars
      => CancelsStick' /\ Held' /\ Parked' /\ Kept'
  BY CancelsStickStep, HeldStep, ParkedStep, KeptStep
<1>3. Kept => StartedIsCarried
  <2> SUFFICES ASSUME Kept, NEW t \in Tasks, row[t].status \in Started
               PROVE  Carried(t)
    BY DEF StartedIsCarried, Started
  <2>1. ToRequeue(t) \/ Pending(t)
    BY DEF Kept
  <2>2. QED
    BY <2>1 DEF ToRequeue, Pending, Carried
<1>4. Spec => []OneRun
  BY OneRunEach
<1>5. QED
  BY <1>1, <1>2, <1>3, <1>4, Based, Numbered, PTL DEF Spec
-----------------------------------------------------------------------------
(***************************************************************************)
(* Processes with a single worker loop each (worker_count = 1).            *)
(***************************************************************************)
OneWorkerEach == \A v, w \in Workers : Home[v] = Home[w] => v = w

\* PostgreSQL and Redis answer every call.
NoFaults == Limit["fault"] = 0

LEMMA NothingFails ==
  ASSUME Base, NoFaults, NEW c \in Callers
  PROVE  ~Fault(c)
<1>1. spent["fault"] \in Nat
  BY DEF Base, Supplies, Nuisances
<1>2. QED
  BY <1>1 DEF Fault, Spend, NoFaults

\* The execution of w is on its way to take task t out of QUEUED.
Obliged(w, t) ==
  /\ on[w] = t
  /\ \/ at[w] \in {"scheduled", "load"}
     \/ at[w] = "provision" /\ (seen[w] = Unread \/ Current(w))

\* A request will put the entry of task t.
Promised(t) ==
  \E c \in Clients : on[c] = t /\ at[c] \in {"tellQueued", "put"}

\* An entry of task t no execution has in hand.
Waiting(t) == \E e \in stream : e.task = t /\ e.id \notin InHand

Served(t) ==
  \/ Promised(t) \/ ToRequeue(t) \/ Waiting(t)
  \/ \E w \in Workers : Obliged(w, t)

Placed == \A t \in Tasks : row[t].status = "queued" => Served(t)

LEMMA QueuedIsPromised ==
  ASSUME Base, [Next]_vars, NEW t \in Tasks, row'[t].status = "queued",
         row'[t] # row[t]
  PROVE  Promised(t)'
<1>1. PICK d \in Callers : Committing(d, t)
  BY RowChanges
<1>2. at[d] = "queue"
  BY <1>1 DEF Committing, Target
<1>3. d \in Clients
  BY <1>2, Kinds
  DEF Base, Control, WorkerPlaces, Body, Handlers, FailHandler, CancelHandler,
      StarterPlaces, CancelPlaces
<1>4. at'[d] = "tellQueued" /\ on'[d] = t
  BY <1>1, <1>2 DEF Committing, Commit, GoOn, Goto, AfterCommit, Base, Control
<1>5. QED
  BY <1>3, <1>4 DEF Promised

\* Nobody has the number of a new entry in hand.
LEMMA NewIsWaiting ==
  ASSUME Base, Entries, NEW t \in Tasks, Put(t),
         \A w \in Workers : on'[w] = on[w] /\ receipt'[w] = receipt[w]
  PROVE  Waiting(t)'
<1>1. PICK new : /\ new \in stream' /\ new.task = t /\ new.id = puts + 1
                 /\ new = [id |-> puts + 1, task |-> t, delivered |-> FALSE]
  BY DEF Put
<1>2. \A w \in Workers : receipt'[w] # puts + 1
  <2> SUFFICES ASSUME NEW w \in Workers
               PROVE  receipt'[w] # puts + 1
    OBVIOUS
  <2>1. receipt'[w] \in Nat /\ receipt'[w] <= puts /\ puts \in Nat
    BY DEF Entries, Base, Supplies, QueueTypeOK
  <2>2. QED
    BY <2>1
<1>3. QED
  BY <1>1, <1>2 DEF Waiting, InHand

LEMMA PromiseKept ==
  ASSUME Base, Entries, NoFaults, [Next]_vars, NEW t \in Tasks, Promised(t)
  PROVE  Served(t)'
<1>1. PICK c \in Clients : on[c] = t /\ at[c] \in {"tellQueued", "put"}
  BY DEF Promised
<1>2. c \in Callers /\ c \notin Workers /\ c \notin Procs /\ Home[c] \in Procs
  BY Kinds
<1>3. CASE Still(c)
  BY <1>1, <1>3 DEF Still, Promised, Served
<1>4. CASE Gone(c)
  BY <1>2, <1>4 DEF Gone, ToRequeue, Served
<1>5. CASE Step(c)
  <2>1. ~Transitioning(c) /\ at[c] # "signal"
    BY <1>1 DEF Transitioning, Target
  <2>2. CASE Announce(c)
    <3>1. at'[c] = "put" /\ on'[c] = t
      BY <1>1, <1>2, <2>2
      DEF Announce, EventOf, GoOn, Goto, Base, Control
    <3>2. QED
      BY <1>1, <3>1 DEF Promised, Served
  <2>3. CASE Enqueue(c)
    <3>1. Put(t) /\ \A w \in Workers :
                      on'[w] = on[w] /\ receipt'[w] = receipt[w]
      BY <1>1, <1>2, <2>3, Kinds DEF Enqueue, Return, Base, Control
    <3>2. QED
      BY <3>1, NewIsWaiting DEF Served
  <2>4. QED
    BY <1>2, <1>5, <2>1, <2>2, <2>3
    DEF Step, Read, Reject, Commit, Conflict, SignalRunning, SignalNobody
<1>6. CASE Fault(c) \/ Request(c) \/ Opened(c) \/ \E d \in Clients : Struck(d, c)
  BY <1>1, <1>2, <1>6, NothingFails
  DEF Request, Submit, Retry, Cancel, Arrive, Opened, Struck
<1>7. QED
  BY <1>2, <1>3, <1>4, <1>5, <1>6, Moves

LEMMA ObligationKept ==
  ASSUME Base, NoFaults, CancelsStick, [Next]_vars, NEW t \in Tasks,
         NEW w \in Workers, Obliged(w, t),
         row[t].status = "queued", row'[t] = row[t]
  PROVE  Served(t)'
<1>1. w \in Callers /\ w \notin Clients /\ w \notin Procs /\ Home[w] \in Procs
  BY Kinds
<1>2. at[w] \in {"scheduled", "load", "provision"} /\ on[w] = t
  BY DEF Obliged
<1>3. CASE Still(w)
  <2>1. Current(w) => seen[w] = Unread \/ Current(w)'
    BY <1>1, <1>2, <1>3 DEF Still, Current, Base, Reads
  <2>2. Obliged(w, t)'
    BY <1>3, <2>1 DEF Still, Obliged
  <2>3. QED
    BY <2>2 DEF Served
<1>4. CASE Gone(w)
  BY <1>1, <1>4 DEF Gone, ToRequeue, Served
<1>5. CASE Opened(w) \/ (\E d \in Clients : Struck(d, w)) \/ Fault(w)
  BY <1>1, <1>2, <1>5, NothingFails
  DEF Opened, Struck, CancelsStick, Finished
<1>6. CASE Step(w)
  <2>1. CASE Read(w)
    <3>1. /\ UNCHANGED <<row, at, on>>
          /\ seen'[w].version = row[t].version /\ seen'[w].task = t
      BY <1>1, <1>2, <2>1 DEF Read, ReadRow, coVars, Base, RepoTypeOK
    <3>2. Current(w)' /\ at[w] = "provision"
      BY <1>2, <2>1, <3>1 DEF Current, Read, Transitioning, Target
    <3>3. QED
      BY <1>2, <3>1, <3>2 DEF Obliged, Served
  <2>2. ~Reject(w)
    <3>1. ASSUME Reject(w)
          PROVE  FALSE
      <4>1. Target[at[w]] = "provisioning"
        BY <1>2, <3>1 DEF Reject, Transitioning, Target
      <4>2. CanRead(on[w], Target[at[w]])
        BY <1>2, <4>1 DEF CanRead, Legal, Allowed, Status
      <4>3. QED
        BY <3>1, <4>2 DEF Reject
    <3>2. QED
      BY <3>1
  <2>3. ~Conflict(w)
    <3>1. ASSUME Conflict(w)
          PROVE  FALSE
      <4>1. at[w] = "provision"
        BY <1>2, <3>1 DEF Conflict, Transitioning, Target
      <4>2. QED
        BY <3>1, <4>1 DEF Conflict, Obliged
    <3>2. QED
      BY <3>1
  <2>4. ~Commit(w)
    <3>1. ASSUME Commit(w)
          PROVE  FALSE
      <4>1. row'[t].status = Target[at[w]] /\ at[w] \in DOMAIN Target
        BY <1>1, <1>2, <3>1, CommitWrites DEF Committing
      <4>2. Target[at[w]] = "provisioning"
        BY <1>2, <4>1 DEF Target
      <4>3. QED
        BY <4>1, <4>2
    <3>2. QED
      BY <3>1
  <2>5. CASE Begin(w)
    <3>1. at'[w] = "load" /\ on' = on
      BY <1>1, <2>5 DEF Begin, GoOn, Goto, Base, Control
    <3>2. QED
      BY <1>2, <3>1 DEF Obliged, Served
  <2>6. CASE Load(w)
    <3>1. at'[w] = "provision" /\ on' = on /\ seen' = seen /\ at[w] = "load"
      BY <1>1, <1>2, <2>6
      DEF Load, StatusOn, ExecStep, GoOn, Goto, Finished, repoVars, Base,
          Control
    <3>2. seen[w] = Unread
      BY <1>1, <3>1 DEF Base, Reads, Transitioning, Target
    <3>3. QED
      BY <1>2, <3>1, <3>2 DEF Obliged, Served
  <2>7. QED
    BY <1>1, <1>2, <1>6, <2>1, <2>2, <2>3, <2>4, <2>5, <2>6
    DEF Step, Announce, EventOf, SignalRunning, SignalNobody, TakeDuplicate,
        Take, Settle, Die, Furnish, RunAgent, AgentRaises, LoadFailed,
        LoadCancelled, Release, ExecStep
<1>7. QED
  BY <1>1, <1>3, <1>4, <1>5, <1>6, Moves

LEMMA WaitingKept ==
  ASSUME Base, Entries, OneWorkerEach, [Next]_vars, NEW t \in Tasks,
         Waiting(t)
  PROVE  Served(t)'
<1>1. PICK e \in stream : e.task = t /\ e.id \notin InHand
  BY DEF Waiting
<1>2. CASE \E v \in Workers : Given(v, e)
  <2>1. PICK v \in Workers : Given(v, e)
    BY <1>2
  <2>2. Obliged(v, t)'
    BY <1>1, <2>1 DEF Given, Obliged
  <2>3. QED
    BY <2>2 DEF Served
<1>3. CASE ~\E v \in Workers : Given(v, e)
  <2>1. e.id \notin InHand'
    <3> SUFFICES ASSUME NEW w \in Workers, on'[w] # None, receipt'[w] = e.id
                 PROVE  FALSE
      BY DEF InHand
    <3>1. Take(w)
      BY <1>1, WorkerKeeps DEF InHand
    <3>2. PICK d \in stream : Given(w, d)
      BY <3>1, TakenIsGiven
    <3>3. d.id = e.id
      BY <3>2 DEF Given
    <3>4. d = e
      BY <3>3 DEF Entries
    <3>5. QED
      BY <1>3, <3>2, <3>4
  <2>2. e \in stream'
    <3>1. CASE \E v \in Workers : TakeDuplicate(v)
      <4>1. PICK v \in Workers :
              /\ at[v] = "get"
              /\ \E d \in Deliverable(InHand) : Runs(Home[v], d.task) # {}
        BY <3>1 DEF TakeDuplicate
      <4>2. PICK d \in stream : Runs(Home[v], d.task) # {}
        BY <4>1 DEF Deliverable
      <4>3. on[v] = d.task
        BY <4>2 DEF Runs, OneWorkerEach
      <4>4. d.task \in Tasks
        BY DEF Base, Supplies, QueueTypeOK, Entry
      <4>5. QED
        BY <4>1, <4>3, <4>4, Kinds DEF Base, Control, Resting
    <3>2. CASE \E v \in Workers : Take(v)
      <4>1. PICK v \in Workers, d \in stream : Given(v, d)
        BY <3>2, TakenIsGiven
      <4>2. d # e
        BY <1>3, <4>1
      <4>3. QED
        BY <4>1, <4>2 DEF Given, Deliver
    <3>3. CASE \E v \in Workers : Settle(v)
      <4>1. PICK v \in Workers : at[v] = "ended" /\ Ack(receipt[v])
        BY <3>3 DEF Settle
      <4>2. on[v] # None
        BY <4>1, Kinds DEF Base, Control, Resting
      <4>3. receipt[v] \in InHand
        BY <4>2 DEF InHand
      <4>4. QED
        BY <1>1, <4>1, <4>3 DEF Ack
    <3>4. CASE (\E c \in Clients : Enqueue(c)) \/ (\E p \in Procs : Requeue(p))
      BY <3>4 DEF Enqueue, Requeue, Put
    <3>5. CASE UNCHANGED <<stream, puts>>
      BY <3>5
    <3>6. QED
      BY <3>1, <3>2, <3>3, <3>4, <3>5, StreamChanges
  <2>3. QED
    BY <1>1, <2>1, <2>2 DEF Waiting, Served
<1>4. QED
  BY <1>2, <1>3

LEMMA PlacedStep ==
  ASSUME Base, Entries, OneWorkerEach, NoFaults, CancelsStick, Placed,
         [Next]_vars
  PROVE  Placed'
<1> SUFFICES ASSUME NEW t \in Tasks, row'[t].status = "queued"
             PROVE  Served(t)'
  BY DEF Placed
<1>1. CASE row'[t] # row[t]
  BY <1>1, QueuedIsPromised DEF Served
<1>2. CASE row'[t] = row[t]
  <2>1. Served(t) /\ row[t].status = "queued"
    BY <1>2 DEF Placed
  <2>2. CASE ToRequeue(t)
    <3>1. CASE Put(t) /\ UNCHANGED <<at, on, receipt>>
      BY <3>1, NewIsWaiting DEF Served
    <3>2. QED
      BY <2>1, <2>2, <3>1, RequeueKept DEF Active, Served
  <2>3. QED
    BY <1>2, <2>1, <2>2, PromiseKept, ObligationKept, WaitingKept DEF Served
<1>3. QED
  BY <1>1, <1>2

(***************************************************************************)
(* At-least-once delivery (queue.py:1-6, orchestrator.py:3-6): a task the  *)
(* table calls QUEUED is served, over crashes, cancels, retries and        *)
(* deliveries claimed a second time, in any number of processes with one   *)
(* worker each, while database and Redis answer and no two requests deal   *)
(* with one task at the same time.                                         *)
(***************************************************************************)
THEOREM QueuedAreServed ==
  OneWorkerEach /\ NoFaults
    => (Spec /\ []RequestsApart => []QueuedIsCarried)
<1> SUFFICES ASSUME OneWorkerEach, NoFaults
             PROVE  Spec /\ []RequestsApart => []QueuedIsCarried
  OBVIOUS
<1>1. Init => CancelsStick /\ Placed
  BY Kinds DEF Init, RepoInit, CancelsStick, Placed, Absent
<1>2. /\ Base /\ Entries /\ RequestsApart /\ CancelsStick /\ Placed
      /\ [Next]_vars
      => CancelsStick' /\ Placed'
  BY CancelsStickStep, PlacedStep
<1>3. Placed => QueuedIsCarried
  <2> SUFFICES ASSUME Placed, NEW t \in Tasks, row[t].status = "queued"
               PROVE  Carried(t)
    BY DEF QueuedIsCarried
  <2>1. Served(t)
    BY DEF Placed
  <2>2. QED
    BY <2>1, Kinds
    DEF Served, Promised, ToRequeue, Waiting, Obliged, Carried
<1>4. QED
  BY <1>1, <1>2, <1>3, Based, Numbered, PTL DEF Spec
-----------------------------------------------------------------------------
\* Task t has got beyond its submission.
Known(t) == row[t].status \notin {Absent, "created"}

LEMMA KnownStays ==
  ASSUME Base, [Next]_vars, NEW t \in Tasks, Known(t)
  PROVE  Known(t)'
<1>1. ASSUME NEW d \in Callers, Committing(d, t)
      PROVE  Known(t)'
  BY <1>1 DEF Committing, Target, Known, Absent
<1>2. QED
  BY <1>1, RowChanges DEF Known

\* So have the tasks of the entries, of reconcile and of the executions, and
\* that of a request that has queued it.
Familiar ==
  /\ \A e \in stream : Known(e.task)
  /\ \A p \in Procs : \A b \in backlog[p] : Known(b.task)
  /\ \A c \in Clients : at[c] \in {"tellQueued", "put"} => Known(on[c])
  /\ \A w \in Workers : on[w] # None => Known(on[w])

LEMMA FamiliarEntries ==
  ASSUME Base, Familiar, [Next]_vars, NEW e \in stream'
  PROVE  Known(e.task)'
<1>1. \A t \in Tasks : Known(t) => Known(t)'
  BY KnownStays
<1>2. /\ \A d \in stream : d.task \in Tasks /\ Known(d.task)
      /\ \A p \in Procs : \A b \in backlog[p] : b.task \in Tasks /\ Known(b.task)
  BY DEF Familiar, Base, Supplies, QueueTypeOK, Entry
<1>3. ASSUME NEW t \in Tasks, Put(t), Known(t)
      PROVE  Known(e.task)'
  <2>1. e \in stream \/ e.task = t
    BY <1>3 DEF Put
  <2>2. QED
    BY <1>1, <1>2, <1>3, <2>1
<1>4. CASE \E c \in Clients : Enqueue(c)
  <2>1. PICK c \in Clients : at[c] = "put" /\ Put(on[c])
    BY <1>4 DEF Enqueue
  <2>2. PICK t \in Tasks : t = on[c]
    BY <2>1, Kinds, Busy DEF Base, Resting
  <2>3. Known(t)
    BY <2>1, <2>2 DEF Familiar
  <2>4. QED
    BY <1>3, <2>1, <2>2, <2>3
<1>5. CASE \E p \in Procs : Requeue(p)
  <2>1. PICK p \in Procs : \E b \in backlog[p] : Put(b.task)
    BY <1>5 DEF Requeue
  <2>2. PICK t \in Tasks : Put(t) /\ Known(t)
    BY <1>2, <2>1
  <2>3. QED
    BY <1>3, <2>2
<1>6. CASE \E w \in Workers : Take(w)
  <2>1. PICK w \in Workers, d \in stream : Given(w, d)
    BY <1>6, TakenIsGiven
  <2>2. PICK new : new.task = d.task /\ stream' = (stream \ {d}) \cup {new}
    BY <2>1 DEF Given, Deliver, Entry
  <2>3. e \in stream \/ e.task = d.task
    BY <2>2
  <2>4. QED
    BY <1>1, <1>2, <2>3
<1>7. CASE \/ UNCHANGED <<stream, puts>>
           \/ \E w \in Workers : TakeDuplicate(w) \/ Settle(w)
  <2>1. e \in stream
    BY <1>7 DEF TakeDuplicate, Settle, Ack
  <2>2. QED
    BY <1>1, <1>2, <2>1
<1>8. QED
  BY <1>4, <1>5, <1>6, <1>7, StreamChanges

LEMMA FamiliarBacklog ==
  ASSUME Base, Familiar, [Next]_vars, NEW p \in Procs, NEW b \in backlog'[p]
  PROVE  Known(b.task)'
<1>1. \A c \in backlog[p] : c.task \in Tasks /\ Known(c.task)
  BY DEF Familiar, Base, Supplies
<1>2. CASE Boot(p)
  <2>1. backlog'[p] =
          {[task |-> t, cancelling |-> row[t].status = "cancelling"] :
             t \in {u \in Tasks : row[u].status \in Active}}
    BY <1>2 DEF Boot, Base, Supplies
  <2>2. PICK t \in Tasks : row[t].status \in Active /\ b.task = t
    BY <2>1
  <2>3. Known(t)
    BY <2>2 DEF Known, Active, Absent
  <2>4. QED
    BY <2>2, <2>3, KnownStays
<1>3. CASE b \in backlog[p]
  BY <1>1, <1>3, KnownStays
<1>4. Requeue(p) \/ Recancel(p) => backlog'[p] \subseteq backlog[p]
  BY DEF Requeue, Recancel, Visit, Base, Supplies
<1>5. QED
  BY <1>2, <1>3, <1>4, ProcessMoves

LEMMA FamiliarRequests ==
  ASSUME Base, Familiar, [Next]_vars, NEW c \in Clients,
         at'[c] \in {"tellQueued", "put"}
  PROVE  Known(on[c])'
<1>1. c \in Callers /\ c \notin Workers /\ Rest(c) = "idle"
  BY Kinds
<1>2. ASSUME at[c] \in {"tellQueued", "put"}, on'[c] = on[c]
      PROVE  Known(on[c])'
  <2>1. PICK t \in Tasks : t = on[c] /\ Known(t)
    BY <1>1, <1>2, Busy DEF Familiar, Base, Resting
  <2>2. Known(t)'
    BY <2>1, KnownStays
  <2>3. QED
    BY <1>2, <2>1, <2>2 DEF Known
<1>3. CASE Commit(c)
  <2>1. at'[c] = AfterCommit[at[c]] /\ at[c] \in DOMAIN Target /\ on'[c] = on[c]
    BY <1>1, <1>3 DEF Commit, Transitioning, GoOn, Goto, Base, Control
  <2>2. row'[on[c]].status = Target[at[c]]
    BY <1>1, <1>3, CommitWrites DEF Committing
  <2>3. at[c] = "queue"
    BY <2>1 DEF AfterCommit, Target
  <2>4. QED
    BY <2>1, <2>2, <2>3 DEF Known, Target, Absent
<1>4. CASE Announce(c)
  <2>1. at[c] = "tellQueued" /\ on'[c] = on[c]
    BY <1>1, <1>4 DEF Announce, GoOn, Goto, Return, Finish, Base, Control
  <2>2. QED
    BY <1>2, <2>1
<1>5. CASE Still(c) \/ Read(c)
  BY <1>2, <1>5 DEF Still, Read, coVars
<1>6. ~(Gone(c) \/ Enqueue(c) \/ Dropped(c) \/ SignalRunning(c) \/ SignalNobody(c))
  <2>1. ~(Gone(c) \/ Enqueue(c) \/ Dropped(c) \/ SignalNobody(c))
    BY <1>1
    DEF Gone, Enqueue, Dropped, SignalNobody, Return, GoOn, Goto, Base, Control
  <2>2. SignalRunning(c) => at'[c] = "idle"
    BY <1>1 DEF SignalRunning, Base, Control
  <2>3. QED
    BY <2>1, <2>2
<1>7. ~Request(c)
  BY <1>1
  DEF Request, Submit, Retry, Cancel, Arrive, Goto, Base, Control
<1>8. QED
  BY <1>3, <1>4, <1>5, <1>6, <1>7, ClientMoves

LEMMA FamiliarExecutions ==
  ASSUME Base, Familiar, [Next]_vars, NEW w \in Workers, on'[w] # None
  PROVE  Known(on[w])'
<1>1. CASE Take(w)
  <2>1. PICK e \in stream : Given(w, e)
    BY <1>1, TakenIsGiven
  <2>2. e.task \in Tasks /\ Known(e.task)
    BY <2>1 DEF Given, Entry, Familiar
  <2>3. Known(e.task)'
    BY <2>2, KnownStays
  <2>4. QED
    BY <2>1, <2>3 DEF Given, Known
<1>2. CASE on'[w] = on[w]
  <2>1. PICK t \in Tasks : t = on[w]
    BY <1>2, Kinds DEF Base, Control
  <2>2. Known(t)
    BY <1>2, <2>1 DEF Familiar
  <2>3. Known(t)'
    BY <2>2, KnownStays
  <2>4. QED
    BY <1>2, <2>1, <2>3 DEF Known
<1>3. QED
  BY <1>1, <1>2, WorkerKeeps

LEMMA AlwaysFamiliar == Spec => []Familiar
<1>1. Init => Familiar
  <2> SUFFICES ASSUME Init
               PROVE  Familiar
    OBVIOUS
  <2>1. stream = {} /\ \A p \in Procs : backlog[p] = {}
    BY DEF Init, QueueInit
  <2>2. \A c \in Callers : at[c] \in {"off", "idle"} /\ on[c] = None
    BY DEF Init, Rest
  <2>3. QED
    BY <2>1, <2>2, Kinds DEF Familiar
<1>2. Base /\ Familiar /\ [Next]_vars => Familiar'
  <2> SUFFICES ASSUME Base, Familiar, [Next]_vars
               PROVE  Familiar'
    OBVIOUS
  <2>1. \A e \in stream' : Known(e.task)'
    BY FamiliarEntries
  <2>2. \A p \in Procs : \A b \in backlog'[p] : Known(b.task)'
    BY FamiliarBacklog
  <2>3. \A c \in Clients : at'[c] \in {"tellQueued", "put"} => Known(on[c])'
    BY FamiliarRequests
  <2>4. \A w \in Workers : on'[w] # None => Known(on[w])'
    BY FamiliarExecutions
  <2>5. QED
    BY <2>1, <2>2, <2>3, <2>4 DEF Familiar
<1>3. QED
  BY <1>1, <1>2, Based, PTL DEF Spec

\* What makes a handler raise.
Thwarted(w) ==
  \/ at[w] \in {"fail", "cancel"} /\ Outrun(w)
  \/ at[w] = "fail" /\ row[on[w]].status \in {"completed", "cancelled"}
  \/ at[w] = "cancel" /\ row[on[w]].status # "cancelling"

LEMMA RejectedIsThwarted ==
  ASSUME Base, Familiar, NEW w \in Workers, at[w] \in Handlers, Reject(w)
  PROVE  Thwarted(w)
<1>1. w \in Callers /\ at[w] \in {"fail", "cancel"}
  BY Kinds
  DEF Reject, Transitioning, Target, Handlers, FailHandler, CancelHandler
<1>2. PICK t \in Tasks : t = on[w]
  BY <1>1, Busy DEF Base, Resting
<1>3. /\ row[t].status \in Status \ {"created"}
      /\ ~CanRead(t, Target[at[w]])
  BY <1>1, <1>2, NoneAssumption
  DEF Familiar, Known, Reject, Base, RepoTypeOK, Row, Absent
<1>4. CASE at[w] = "fail"
  <2>1. row[t].status \in {"completed", "cancelled"}
    BY <1>3, <1>4 DEF CanRead, Legal, Allowed, Status, Target
  <2>2. QED
    BY <1>2, <1>4, <2>1 DEF Thwarted
<1>5. CASE at[w] = "cancel"
  <2>1. row[t].status # "cancelling"
    BY <1>3, <1>5 DEF CanRead, Legal, Allowed, Status, Target
  <2>2. QED
    BY <1>2, <1>5, <2>1 DEF Thwarted
<1>6. QED
  BY <1>1, <1>4, <1>5

\* An exception of an execution that ends its loop comes from a handler, or
\* from its clean-up, which only a failing call makes raise.
LEMMA RaisedIsThwarted ==
  ASSUME Base, Familiar, [Next]_vars, NEW w \in Workers,
         outcome[w] # "raised", outcome'[w] = "raised", spent' = spent
  PROVE  Thwarted(w)
<1>1. /\ w \in Callers /\ w \notin Clients /\ w \notin Procs
      /\ outcome \in [Workers -> Outcomes] /\ at \in [Callers -> WorkerPlaces \cup ClientPlaces]
  BY Kinds DEF Base, Control, Supplies
<1>2. ~(Still(w) \/ Gone(w) \/ Opened(w))
  BY DEF Still, Gone, Opened
<1>3. ~(\E d \in Clients : Struck(d, w))
  <2> SUFFICES ASSUME NEW d \in Clients, Struck(d, w)
               PROVE  FALSE
    OBVIOUS
  <2>1. at[w] \in {"scheduled", "finally", "ended"} \cup Body \cup Handlers
    BY <1>1, Kinds DEF Struck, Base, Control, WorkerPlaces, Resting
  <2>2. <<at'[w], "raised">> \in Interrupted(w)
    BY DEF Struck
  <2>3. CASE at[w] \in Body
    BY <2>2, <2>3
    DEF Interrupted, Body, Handlers, FailHandler, CancelHandler
  <2>4. CASE at[w] \in Handlers
    BY <2>2, <2>4
    DEF Interrupted, Body, Handlers, FailHandler, CancelHandler
  <2>5. CASE at[w] \in {"scheduled", "finally", "ended"}
    BY <2>2, <2>5
    DEF Interrupted, Body, Handlers, FailHandler, CancelHandler
  <2>6. QED
    BY <2>1, <2>3, <2>4, <2>5
<1>4. ~(Read(w) \/ TakeDuplicate(w) \/ Take(w) \/ Commit(w))
  BY DEF Read, TakeDuplicate, Take, Commit, GoOn, coVars
<1>5. ~(Announce(w) \/ Carries(w) \/ Settle(w) \/ Die(w))
  BY <1>1
  DEF Announce, Carries, Begin, Load, Furnish, RunAgent, LoadFailed,
      LoadCancelled, Release, Settle, Die, GoOn, Finish, Return, LetGo
<1>6. ~Fault(w)
  <2>1. spent["fault"] \in Nat /\ spent \in [Nuisances -> Nat]
    BY DEF Base, Supplies, Nuisances
  <2>2. QED
    BY <2>1 DEF Fault, Spend, Nuisances
<1>7. ~AgentRaises(w)
  BY DEF AgentRaises, ExceptionInExecution, Body, Handlers, FailHandler,
         CancelHandler, GoOn
<1>8. CASE Reject(w) \/ Conflict(w)
  <2>1. ExceptionInExecution(w) /\ Transitioning(w)
    BY <1>1, <1>8 DEF Reject, Conflict, Raise
  <2>2. at[w] \in Handlers
    BY <2>1 DEF ExceptionInExecution, GoOn, Transitioning, Target
  <2>3. at[w] \in {"fail", "cancel"}
    BY <2>1, <2>2 DEF Transitioning, Target, Handlers, FailHandler, CancelHandler
  <2>4. QED
    BY <1>8, <2>2, <2>3, RejectedIsThwarted DEF Conflict, Thwarted, Outrun
<1>9. ~SignalRunning(w) /\ ~SignalNobody(w)
  BY <1>1, Kinds
  DEF SignalRunning, SignalNobody, Base, Control, WorkerPlaces, Body,
      Handlers, FailHandler, CancelHandler
<1>10. QED
  BY <1>1, <1>2, <1>3, <1>4, <1>5, <1>6, <1>7, <1>8, <1>9, Moves
  DEF Step, Carries

(***************************************************************************)
(* Over any number of processes, workers and requests, with late           *)
(* redeliveries, cancels, retries and crashes: a race costs a worker its   *)
(* loop only where it is lost by the UPDATE or the check of a handler of   *)
(* orchestrator.py:370-411.  The statuses a handler's transition is        *)
(* refused from are those of ended tasks, because no entry, no visit of    *)
(* reconcile and no execution is about a task that is not yet queued.      *)
(***************************************************************************)
THEOREM LoopsEndOnlyInHandlers == Spec => LoopsEndInHandlers
<1>1. ASSUME Base, Familiar, [Next]_vars
      PROVE  [\A w \in Workers :
                outcome[w] # "raised" /\ outcome'[w] = "raised" /\ spent' = spent =>
                  \/ at[w] \in {"fail", "cancel"} /\ Outrun(w)
                  \/ at[w] = "fail" /\ row[on[w]].status \in {"completed", "cancelled"}
                  \/ at[w] = "cancel" /\ row[on[w]].status # "cancelling"]_vars
  BY <1>1, RaisedIsThwarted DEF Thwarted
<1>2. QED
  BY <1>1, Based, AlwaysFamiliar, PTL DEF Spec, LoopsEndInHandlers
=============================================================================
