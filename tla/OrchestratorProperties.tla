----------------------- MODULE OrchestratorProperties -----------------------
(***************************************************************************)
(* What the task lifecycle of Orchestrator promises, beside the properties *)
(* of the table it inherits from TaskRepository.                           *)
(***************************************************************************)
EXTENDS Orchestrator

Resting == {"idle", "off", "get", "dead"}

(***************************************************************************)
(* Nothing is left behind when a request or an execution ends by any of    *)
(* its exits (orchestrator.py:180-194): a coroutine deals with a task, and *)
(* so occupies self._running, exactly when it is not at rest; what it      *)
(* remembers of the table belongs to the transition it is in; and only a   *)
(* process that is up has workers and requests at work.                    *)
(***************************************************************************)
Bookkeeping ==
  /\ \A c \in Callers :
       /\ on[c] = None <=> at[c] \in Resting
       /\ seen[c] # Unread =>
            /\ Transitioning(c)
            /\ seen[c].task = on[c]
            /\ seen[c].target = Target[at[c]]
  /\ \A c \in Workers \cup Clients : at[c] # Rest(c) => Up(c)
  /\ \A p \in Procs : at[p] # "idle" => proc[p] = "starting"

(***************************************************************************)
(* A reader of the event log is never told of an end that is not in the    *)
(* table: "task.completed" and "task.cancelled" are appended only after    *)
(* the commit (orchestrator.py:355-366, 376-379, 157-160), whichever of    *)
(* several executions and requests wins.                                   *)
(***************************************************************************)
TruthfulEvents ==
  \A t \in Tasks :
    /\ log[t] = "task.completed" => row[t].status = "completed"
    /\ log[t] = "task.cancelled" => row[t].status = "cancelled"

\* Somebody brings task t on: an entry that will be delivered, a coroutine
\* that deals with it, or a process whose start-up has yet to requeue it.
Carried(t) ==
  \/ \E e \in stream : e.task = t
  \/ \E c \in Callers : on[c] = t
  \/ \E p \in Procs :
       proc[p] = "down" \/ \E b \in backlog[p] : b.task = t

(***************************************************************************)
(* No task is abandoned half-way: while the table says PROVISIONING or     *)
(* RUNNING, a worker has it, an entry will bring it to one, or a process   *)
(* is about to reconcile it, whatever failed or crashed in between         *)
(* (orchestrator.py:163-194, 382-411).                                     *)
(***************************************************************************)
StartedIsCarried ==
  \A t \in Tasks :
    row[t].status \in {"provisioning", "running"} => Carried(t)

(***************************************************************************)
(* At-least-once delivery (queue.py:1-6, orchestrator.py:3-6): a task the  *)
(* table calls QUEUED has an entry, or somebody who is about to add one or *)
(* already deals with it.                                                  *)
(***************************************************************************)
QueuedIsCarried ==
  \A t \in Tasks : row[t].status = "queued" => Carried(t)

\* Somebody has written the row of the task since w read it.
Outrun(w) == seen[w] # Unread /\ ~Current(w)

(***************************************************************************)
(* A lost race costs a worker its loop only inside the handlers, which let *)
(* InvalidStateTransition pass (orchestrator.py:370-411).  While database  *)
(* and stream answer, an execution raises only if the row is written       *)
(* between the SELECT and the UPDATE of its handler, or if the task, which *)
(* the handler has found unfinished, has COMPLETED or is CANCELLED, or is  *)
(* no longer CANCELLING as it was found.  Every other race, whoever runs   *)
(* the task in whatever process, ends in the failure handler.              *)
(***************************************************************************)
LoopsEndInHandlers ==
  [][\A w \in Workers :
       outcome[w] # "raised" /\ outcome'[w] = "raised" /\ spent' = spent =>
         \/ at[w] \in {"fail", "cancel"} /\ Outrun(w)
         \/ at[w] = "fail" /\ row[on[w]].status \in {"completed", "cancelled"}
         \/ at[w] = "cancel" /\ row[on[w]].status # "cancelling"]_vars

(***************************************************************************)
(* orchestrator.py:189: when a cancelled execution's item is acked, the    *)
(* execution has handled the task's transition, so nothing is left to do   *)
(* for the task.                                                           *)
(***************************************************************************)
CancellationHandled ==
  [][\A w \in Workers :
       at[w] = "ended" /\ outcome[w] = "cancelled" /\ at'[w] = "get"
       => row[on[w]].status \in Finished]_vars

(***************************************************************************)
(* LLD.md:245 and :601-602: state checks and optimistic updates decide     *)
(* whether work may proceed, so duplicate deliveries do not become two     *)
(* agents that work on one task.                                           *)
(***************************************************************************)
OneAgentPerTask ==
  \A v, w \in Workers :
    at[v] = "agent" /\ at[w] = "agent" /\ on[v] = on[w] => v = w

(***************************************************************************)
(* CODE_WALKTHROUGH.md:312: a restart recovers work.  With one process,    *)
(* reconciliation (orchestrator.py:163-170) brings it up, unless it is cut *)
(* off again or PostgreSQL or Redis fails it: no row that a crash, a       *)
(* cancel or a failed call has left behind makes the start-up raise.       *)
(***************************************************************************)
RestartRecovers ==
  [][\A p \in Procs :
       proc[p] = "starting" /\ proc'[p] = "down"
       => spent' # spent]_vars

(***************************************************************************)
(* Every accepted task comes to an end: QUEUED leads to COMPLETED, FAILED  *)
(* or CANCELLED through crashes and restarts of the processes.             *)
(***************************************************************************)
QueuedIsFinished ==
  \A t \in Tasks : row[t].status = "queued" ~> row[t].status \in Finished
=============================================================================
