---------------------------- MODULE Orchestrator ----------------------------
(***************************************************************************)
(* The task lifecycle of minion/orchestrator.py: API requests, worker      *)
(* loops, executions and start-up reconciliation of several processes that *)
(* share one tasks table (TaskRepository) and one stream (WorkQueue).      *)
(*                                                                         *)
(* A coroutine is at a place: the await it is suspended in.  One action is  *)
(* one await: the effect of the awaited call and the code after it, up to  *)
(* the next await.  The exception is the look at self._running in cancel,  *)
(* which reads what other coroutines of the process do: it is an action of *)
(* its own, after the commit it follows.                                   *)
(*                                                                         *)
(* A worker and the execution it awaits are one coroutine here: the worker *)
(* only waits while the execution lives.  self._running is then what the   *)
(* workers of a process are busy with (Runs).                              *)
(*                                                                         *)
(* The sandbox, the index, the agent loop and the publisher appear as      *)
(* steps that succeed or raise.  Of the event log, log[t] keeps the latest *)
(* lifecycle event.  A graceful stop cancels every coroutine of the        *)
(* process and persists nothing, so for the table and the stream it is a   *)
(* crash.                                                                  *)
(***************************************************************************)
EXTENDS TaskRepository, WorkQueue

CONSTANTS
  Procs,      \* orchestrator processes; p \in Callers is p's start-up code
  Workers,    \* worker loops
  Clients,    \* API requests in progress
  Home,       \* Home[c]: the process coroutine c runs in
  None,       \* no task
  Limit       \* Limit[k]: how often the environment does k at most

Nuisances == {"retry", "cancel", "crash", "fault"}

ASSUME CallersAssumption ==
  /\ Callers = Procs \cup Workers \cup Clients
  /\ Procs \cap Workers = {} /\ Procs \cap Clients = {}
  /\ Workers \cap Clients = {}

ASSUME HomeAssumption ==
  Home \in [Callers -> Procs] /\ \A p \in Procs : Home[p] = p

ASSUME NoneAssumption == None \notin Tasks

ASSUME LimitAssumption == Limit \in [Nuisances -> Nat]

VARIABLES
  proc,       \* proc[p]: is the process down, starting or up
  backlog,    \* backlog[p]: active tasks reconcile has yet to visit
  at,         \* at[c]: the place of coroutine c
  on,         \* on[c]: the task coroutine c deals with
  receipt,    \* receipt[w]: id of the entry worker w was given
  outcome,    \* outcome[w]: how the execution of w ends
  log,        \* log[t]: the latest lifecycle event of task t
  spent       \* spent[k]: how often the environment has done k

coVars == <<at, on, receipt, outcome>>
procVars == <<proc, backlog>>
vars == <<row, seen, stream, puts, proc, backlog, at, on, receipt, outcome,
          log, spent>>
-----------------------------------------------------------------------------
\* Places where an execution is inside the try of _execute.
Body == {"load", "provision", "environment", "reattach", "run", "tellStarted",
         "agent", "complete", "tellCompleted"}

\* Places inside "except Exception" and "except CancelledError".
FailHandler == {"failLoad", "fail", "tellFailed"}
CancelHandler == {"cancelLoad", "cancel", "tellCancelled"}

Handlers == FailHandler \cup CancelHandler

WorkerPlaces == Body \cup Handlers \cup
  {"off", "get", "scheduled", "finally", "ended", "dead"}

\* A client in submit or retry, and a client or reconcile in cancel.
EnqueuePlaces == {"tellCreated", "queue", "tellQueued", "put"}
CancelPlaces == {"cancelling", "signal", "cancelNow", "tellCancelled"}

ClientPlaces == EnqueuePlaces \cup CancelPlaces \cup {"idle"}

StarterPlaces == CancelPlaces \cup {"idle"}

PlacesOf(c) ==
  IF c \in Workers THEN WorkerPlaces
  ELSE IF c \in Clients THEN ClientPlaces ELSE StarterPlaces

Target ==
  [provision |-> "provisioning", run |-> "running", complete |-> "completed",
   fail |-> "failed", cancel |-> "cancelled", queue |-> "queued",
   cancelling |-> "cancelling", cancelNow |-> "cancelled"]

\* Deviation: cancel announces the end with CANCELLING.
AfterCommitEarly ==
  [provision |-> "environment", run |-> "tellStarted",
   complete |-> "tellCompleted", fail |-> "tellFailed",
   cancel |-> "tellCancelled", queue |-> "tellQueued",
   cancelling |-> "tellCancelled", cancelNow |-> "tellCancelled"]

\* Where a coroutine continues after the transition at a place has committed.
AfterCommit ==
  [provision |-> "environment", run |-> "tellStarted",
   complete |-> "tellCompleted", fail |-> "tellFailed",
   cancel |-> "tellCancelled", queue |-> "tellQueued",
   cancelling |-> "signal", cancelNow |-> "tellCancelled"]

EventOf ==
  [tellCreated |-> "task.created", tellQueued |-> "task.queued",
   tellStarted |-> "task.started", tellCompleted |-> "task.completed",
   tellFailed |-> "task.failed", tellCancelled |-> "task.cancelled"]

Outcomes == {"none", "returned", "cancelled", "raised"}

OrchTypeOK ==
  /\ RepoTypeOK
  /\ QueueTypeOK
  /\ proc \in [Procs -> {"down", "starting", "up"}]
  /\ backlog \in [Procs -> SUBSET [task : Tasks, cancelling : BOOLEAN]]
  /\ at \in [Callers -> WorkerPlaces \cup ClientPlaces]
  /\ \A c \in Callers : at[c] \in PlacesOf(c)
  /\ on \in [Callers -> Tasks \cup {None}]
  /\ receipt \in [Workers -> Nat]
  /\ outcome \in [Workers -> Outcomes]
  /\ log \in [Tasks -> {EventOf[e] : e \in DOMAIN EventOf} \cup {"none"}]
  /\ spent \in [Nuisances -> Nat]

Rest(c) == IF c \in Workers THEN "off" ELSE "idle"

Init ==
  /\ RepoInit
  /\ QueueInit
  /\ proc = [p \in Procs |-> "down"]
  /\ backlog = [p \in Procs |-> {}]
  /\ at = [c \in Callers |-> Rest(c)]
  /\ on = [c \in Callers |-> None]
  /\ receipt = [w \in Workers |-> 0]
  /\ outcome = [w \in Workers |-> "none"]
  /\ log = [t \in Tasks |-> "none"]
  /\ spent = [k \in Nuisances |-> 0]

Up(c) == proc[Home[c]] = "up"

\* self._running of process p: the workers busy with task t.
Runs(p, t) == {w \in Workers : Home[w] = p /\ on[w] = t}

\* The receipts live workers hold.
InHand == {receipt[w] : w \in {v \in Workers : on[v] # None}}

Spend(k) ==
  /\ spent[k] < Limit[k]
  /\ spent' = [spent EXCEPT ![k] = @ + 1]

Goto(c, place) == at' = [at EXCEPT ![c] = place]

\* Coroutine c stays with its task.
GoOn(c, place) == Goto(c, place) /\ UNCHANGED <<on, receipt, outcome>>

\* The execution of w reaches its finally block, about to end with result o.
Finish(w, o) ==
  /\ Goto(w, "finally")
  /\ outcome' = [outcome EXCEPT ![w] = o]
  /\ UNCHANGED <<on, receipt>>

\* A request, or one visit of reconcile, is over.
Return(c) ==
  /\ Goto(c, "idle")
  /\ on' = [on EXCEPT ![c] = None]
  /\ UNCHANGED <<receipt, outcome>>

\* Deviation: no "finally: self._running.pop".
LetGoStillRunning(w, place) ==
  /\ Goto(w, place)
  /\ receipt' = [receipt EXCEPT ![w] = 0]
  /\ outcome' = [outcome EXCEPT ![w] = "none"]
  /\ UNCHANGED on

\* Worker w lets go of its item and of its place in self._running.
LetGo(w, place) ==
  /\ Goto(w, place)
  /\ on' = [on EXCEPT ![w] = None]
  /\ receipt' = [receipt EXCEPT ![w] = 0]
  /\ outcome' = [outcome EXCEPT ![w] = "none"]
-----------------------------------------------------------------------------
\* Every coroutine of process p is gone; the process can be started again.
Collapse(p) ==
  LET Mine == {c \in Callers : Home[c] = p}
  IN  /\ proc' = [proc EXCEPT ![p] = "down"]
      /\ backlog' = [backlog EXCEPT ![p] = {}]
      /\ at' = [c \in Callers |-> IF c \in Mine THEN Rest(c) ELSE at[c]]
      /\ on' = [c \in Callers |-> IF c \in Mine THEN None ELSE on[c]]
      /\ receipt' = [w \in Workers |-> IF w \in Mine THEN 0 ELSE receipt[w]]
      /\ outcome' =
           [w \in Workers |-> IF w \in Mine THEN "none" ELSE outcome[w]]
      /\ Forget(Mine)

\* Deviation: _execute without "except Exception".
ExceptionUnhandled(w) ==
  /\ \/ at[w] \in Body \cup Handlers /\ Finish(w, "raised")
     \/ /\ at[w] = "finally"
        /\ Goto(w, "ended")
        /\ outcome' = [outcome EXCEPT ![w] = "raised"]
        /\ UNCHANGED <<on, receipt>>
  /\ Forget({w})
  /\ UNCHANGED procVars

\* An exception leaves the await coroutine c is in.
ExceptionInExecution(w) ==
  /\ \/ at[w] \in Body /\ GoOn(w, "failLoad")
     \/ at[w] \in Handlers /\ Finish(w, "raised")
     \/ /\ at[w] = "finally"
        /\ Goto(w, "ended")
        /\ outcome' = [outcome EXCEPT ![w] = "raised"]
        /\ UNCHANGED <<on, receipt>>
  /\ Forget({w})
  /\ UNCHANGED procVars

\* The client gets an error response; a process whose start-up raises exits.
Raise(c) ==
  \/ c \in Workers /\ ExceptionInExecution(c)
  \/ c \in Clients /\ Return(c) /\ Forget({c}) /\ UNCHANGED procVars
  \/ c \in Procs /\ Collapse(c)
-----------------------------------------------------------------------------
(***************************************************************************)
(* tasks.transition, wherever it is called.                                *)
(***************************************************************************)
Transitioning(c) == at[c] \in DOMAIN Target

Read(c) ==
  /\ Transitioning(c)
  /\ ReadRow(c, on[c], Target[at[c]])
  /\ UNCHANGED <<stream, puts, procVars, coVars, log, spent>>

\* validate_transition raises InvalidStateTransition.
Reject(c) ==
  /\ Transitioning(c)
  /\ seen[c] = Unread
  /\ ~CanRead(on[c], Target[at[c]])
  /\ Raise(c)
  /\ UNCHANGED <<stream, puts, log, spent>>

Commit(c) ==
  /\ Transitioning(c)
  /\ WriteRow(c)
  /\ GoOn(c, AfterCommit[at[c]])
  /\ UNCHANGED <<stream, puts, procVars, log, spent>>

\* rowcount # 1: rollback, InvalidStateTransition.
Conflict(c) ==
  /\ Transitioning(c)
  /\ seen[c] # Unread
  /\ ~Current(c)
  /\ Raise(c)
  /\ UNCHANGED <<stream, puts, log, spent>>

\* EventStore.append of a lifecycle event, and what its caller does next.
Announce(c) ==
  /\ at[c] \in DOMAIN EventOf
  /\ log' = [log EXCEPT ![on[c]] = EventOf[at[c]]]
  /\ \/ at[c] = "tellCreated" /\ GoOn(c, "queue")
     \/ at[c] = "tellQueued" /\ GoOn(c, "put")
     \/ at[c] = "tellStarted" /\ GoOn(c, "agent")
     \/ at[c] \in {"tellCompleted", "tellFailed"} /\ Finish(c, "returned")
     \/ at[c] = "tellCancelled" /\ c \in Workers /\ Finish(c, "cancelled")
     \/ at[c] = "tellCancelled" /\ c \notin Workers /\ Return(c)
  /\ UNCHANGED <<row, seen, stream, puts, procVars, spent>>
-----------------------------------------------------------------------------
(***************************************************************************)
(* API requests.  The first database call of a request comes with its      *)
(* arrival: before it a request has no effect.                             *)
(***************************************************************************)
Arrive(c, t, place) ==
  /\ at[c] = "idle"
  /\ Goto(c, place)
  /\ on' = [on EXCEPT ![c] = t]
  /\ UNCHANGED <<stream, puts, procVars, receipt, outcome, log>>

\* submit, as far as tasks.create.
Submit(c, t) ==
  /\ Up(c)
  /\ CreateRow(t)
  /\ Arrive(c, t, "tellCreated")
  /\ UNCHANGED spent

\* retry: a task that has not failed is returned as it is.
Retry(c, t) ==
  /\ Up(c)
  /\ row[t].status = "failed"
  /\ Arrive(c, t, "queue")
  /\ Spend("retry")
  /\ UNCHANGED repoVars

\* cancel: a finished task is returned as it is.
Cancel(c, t) ==
  /\ Up(c)
  /\ row[t].status \in Status \ Finished
  /\ Arrive(c, t, "cancelling")
  /\ Spend("cancel")
  /\ UNCHANGED repoVars

\* queue.put at the end of submit and retry.
Enqueue(c) ==
  /\ at[c] = "put"
  /\ Put(on[c])
  /\ Return(c)
  /\ UNCHANGED <<repoVars, procVars, log, spent>>

\* running.cancel(): the places, with the outcomes, a cancelled execution can
\* go on to.  A finally block may swallow the cancellation (suppress around
\* "await heartbeat"); an execution that has not taken its first step never
\* enters _execute; one that has ended ignores the request.
Interrupted(w) ==
  CASE at[w] = "scheduled" -> {<<"ended", "cancelled">>}
    [] at[w] \in Body -> {<<"cancelLoad", outcome[w]>>}
    [] at[w] \in Handlers -> {<<"finally", "cancelled">>}
    [] at[w] = "finally" ->
         {<<"ended", "cancelled">>, <<"finally", outcome[w]>>}
    [] at[w] = "ended" -> {<<"ended", outcome[w]>>}

\* cancel, after CANCELLING is committed: is the task running here?
SignalRunning(c) ==
  /\ at[c] = "signal"
  /\ \E w \in Runs(Home[c], on[c]) : \E i \in Interrupted(w) :
       /\ at' = [at EXCEPT ![w] = i[1], ![c] = "idle"]
       /\ outcome' = [outcome EXCEPT ![w] = i[2]]
       /\ on' = [on EXCEPT ![c] = None]
       /\ Forget({w})
  /\ UNCHANGED <<stream, puts, procVars, receipt, log, spent>>

SignalNobody(c) ==
  /\ at[c] = "signal"
  /\ Runs(Home[c], on[c]) = {}
  /\ GoOn(c, "cancelNow")
  /\ UNCHANGED <<repoVars, stream, puts, procVars, log, spent>>
-----------------------------------------------------------------------------
(***************************************************************************)
(* The worker loop.                                                        *)
(***************************************************************************)
\* An item whose task runs in this process is acked at once.
TakeDuplicate(w) ==
  /\ at[w] = "get"
  /\ \E e \in Deliverable(InHand) :
       /\ Runs(Home[w], e.task) # {}
       /\ Ack(e.id)
  /\ UNCHANGED <<repoVars, procVars, coVars, log, spent>>

\* create_task(_execute) and self._running[task_id] = execution.
Take(w) ==
  /\ at[w] = "get"
  /\ \E e \in Deliverable(InHand) :
       /\ Runs(Home[w], e.task) = {}
       /\ Deliver(e)
       /\ Goto(w, "scheduled")
       /\ on' = [on EXCEPT ![w] = e.task]
       /\ receipt' = [receipt EXCEPT ![w] = e.id]
  /\ UNCHANGED <<repoVars, procVars, outcome, log, spent>>

\* The execution has returned or was cancelled: ack, then leave self._running.
Settle(w) ==
  /\ at[w] = "ended"
  /\ outcome[w] \in {"returned", "cancelled"}
  /\ Ack(receipt[w])
  /\ LetGo(w, "get")
  /\ UNCHANGED <<repoVars, procVars, log, spent>>

\* Any other exception of the execution ends the worker loop, without an ack.
Die(w) ==
  /\ at[w] = "ended"
  /\ outcome[w] = "raised"
  /\ LetGo(w, "dead")
  /\ UNCHANGED <<repoVars, stream, puts, procVars, log, spent>>
-----------------------------------------------------------------------------
(***************************************************************************)
(* One execution: _execute.                                                *)
(***************************************************************************)
ExecStep(w, from) ==
  /\ at[w] = from
  /\ UNCHANGED <<repoVars, stream, puts, procVars, log, spent>>

StatusOn(w) == row[on[w]].status

\* The execution task takes its first step.
Begin(w) == ExecStep(w, "scheduled") /\ GoOn(w, "load")

\* Deviation: a RUNNING task is taken for somebody else's.
LoadSkipsRunning(w) ==
  /\ ExecStep(w, "load")
  /\ \/ StatusOn(w) \in Finished \cup {"running"} /\ Finish(w, "returned")
     \/ StatusOn(w) = "queued" /\ GoOn(w, "provision")
     \/ StatusOn(w) = "provisioning" /\ GoOn(w, "environment")
     \/ /\ StatusOn(w) \notin Finished \cup {"running", "queued", "provisioning"}
        /\ GoOn(w, "reattach")

\* tasks.require: a finished task is left alone, a queued one is taken over,
\* and any other status is carried on with as it is.
Load(w) ==
  /\ ExecStep(w, "load")
  /\ \/ StatusOn(w) \in Finished /\ Finish(w, "returned")
     \/ StatusOn(w) = "queued" /\ GoOn(w, "provision")
     \/ StatusOn(w) = "provisioning" /\ GoOn(w, "environment")
     \/ /\ StatusOn(w) \notin Finished \cup {"queued", "provisioning"}
        /\ GoOn(w, "reattach")

\* attach or allocate, lease and environment events.  Only an execution that
\* saw PROVISIONING goes on to transition to RUNNING.
Furnish(w) ==
  \/ ExecStep(w, "environment") /\ GoOn(w, "run")
  \/ ExecStep(w, "reattach") /\ GoOn(w, "tellStarted")

\* Pre-indexing, agent.run and publication return.
RunAgent(w) == ExecStep(w, "agent") /\ GoOn(w, "complete")

\* They raise, or the environment cannot be had.
AgentRaises(w) ==
  /\ at[w] \in {"environment", "reattach", "agent"}
  /\ ExceptionInExecution(w)
  /\ UNCHANGED <<stream, puts, log, spent>>

\* except Exception: a finished task is not failed.
LoadFailed(w) ==
  /\ ExecStep(w, "failLoad")
  /\ \/ StatusOn(w) \in Finished /\ Finish(w, "returned")
     \/ StatusOn(w) \notin Finished /\ GoOn(w, "fail")

\* except CancelledError: only a task found CANCELLING becomes CANCELLED.
LoadCancelled(w) ==
  /\ ExecStep(w, "cancelLoad")
  /\ \/ StatusOn(w) # "cancelling" /\ Finish(w, "cancelled")
     \/ StatusOn(w) = "cancelling" /\ GoOn(w, "cancel")

\* finally: heartbeat stopped, workspace released.
Release(w) == ExecStep(w, "finally") /\ GoOn(w, "ended")
-----------------------------------------------------------------------------
(***************************************************************************)
(* Processes.                                                              *)
(***************************************************************************)
\* start, as far as reconcile's list_active.
Boot(p) ==
  /\ proc[p] = "down"
  /\ proc' = [proc EXCEPT ![p] = "starting"]
  /\ backlog' = [backlog EXCEPT ![p] =
       {[task |-> t, cancelling |-> row[t].status = "cancelling"] :
          t \in {u \in Tasks : row[u].status \in Active}}]
  /\ UNCHANGED <<repoVars, stream, puts, coVars, log, spent>>

\* reconcile goes on to b: the rows come in no particular order.
Visit(p, b) ==
  /\ proc[p] = "starting"
  /\ at[p] = "idle"
  /\ b \in backlog[p]
  /\ backlog' = [backlog EXCEPT ![p] = @ \ {b}]

Requeue(p) ==
  /\ \E b \in backlog[p] : Visit(p, b) /\ ~b.cancelling /\ Put(b.task)
  /\ UNCHANGED <<repoVars, proc, coVars, log, spent>>

Recancel(p) ==
  /\ \E b \in backlog[p] :
       /\ Visit(p, b)
       /\ b.cancelling
       /\ IF row[b.task].status \in Finished
          THEN UNCHANGED <<at, on>>
          ELSE Goto(p, "cancelling") /\ on' = [on EXCEPT ![p] = b.task]
  /\ UNCHANGED <<repoVars, stream, puts, proc, receipt, outcome, log, spent>>

\* reconcile is done: the worker loops start, the API opens.
Serve(p) ==
  /\ proc[p] = "starting"
  /\ at[p] = "idle"
  /\ backlog[p] = {}
  /\ proc' = [proc EXCEPT ![p] = "up"]
  /\ at' = [c \in Callers |->
              IF c \in Workers /\ Home[c] = p THEN "get" ELSE at[c]]
  /\ UNCHANGED <<repoVars, stream, puts, backlog, on, receipt, outcome, log,
                 spent>>

\* A crash, or stop.
Crash(p) ==
  /\ proc[p] # "down"
  /\ Collapse(p)
  /\ Spend("crash")
  /\ UNCHANGED <<stream, puts, log>>

\* PostgreSQL or Redis fails a call.  Outside an execution the worker loop has
\* no handler for it.
Fault(c) ==
  /\ Spend("fault")
  /\ \/ c \in Workers /\ ExceptionInExecution(c)
     \/ /\ c \in Workers /\ at[c] \in {"get", "ended"}
        /\ LetGo(c, "dead")
        /\ UNCHANGED <<repoVars, procVars>>
     \/ c \notin Workers /\ at[c] # "idle" /\ Raise(c)
  /\ UNCHANGED <<stream, puts, log>>
-----------------------------------------------------------------------------
\* What a coroutine does by itself, once it has begun.
Step(c) ==
  \/ Read(c) \/ Reject(c) \/ Commit(c) \/ Conflict(c) \/ Announce(c)
  \/ SignalRunning(c) \/ SignalNobody(c)
  \/ c \in Clients /\ Enqueue(c)
  \/ /\ c \in Workers
     /\ \/ TakeDuplicate(c) \/ Take(c) \/ Settle(c) \/ Die(c)
        \/ Begin(c) \/ Load(c) \/ Furnish(c) \/ RunAgent(c) \/ AgentRaises(c)
        \/ LoadFailed(c) \/ LoadCancelled(c) \/ Release(c)
  \/ c \in Procs /\ (Boot(c) \/ Requeue(c) \/ Recancel(c) \/ Serve(c))

Request(c) ==
  \E t \in Tasks : Submit(c, t) \/ Retry(c, t) \/ Cancel(c, t)

Next ==
  \/ \E c \in Callers : Step(c) \/ Fault(c)
  \/ \E c \in Clients : Request(c)
  \/ \E p \in Procs : Crash(p)

Spec == Init /\ [][Next]_vars

\* Coroutines are scheduled, calls return, and a process that is down is
\* started again; nobody has to send a request.
FairSpec == Spec /\ \A c \in Callers : WF_vars(Step(c))
=============================================================================
