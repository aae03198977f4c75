----------------------------- MODULE WorkQueue -----------------------------
(***************************************************************************)
(* The Redis stream behind minion/queue.py: one stream, one consumer       *)
(* group, entries that stay pending from delivery to XACK + XDEL.          *)
(*                                                                         *)
(* Idle times are not measured.  A pending entry nobody works on any more  *)
(* reaches the visibility timeout at some moment; one that is being worked *)
(* on reaches it only if executions may outlast the timeout                *)
(* (SlowExecutions): nothing refreshes the idle time of an entry.          *)
(***************************************************************************)
EXTENDS TaskStates, Naturals

CONSTANT SlowExecutions   \* may an execution outlast the visibility timeout?

ASSUME SlowExecutionsAssumption == SlowExecutions \in BOOLEAN

VARIABLES
  stream,    \* the entries of the stream, delivered or not
  puts       \* XADDs so far: the source of entry ids

queueVars == <<stream, puts>>

Entry == [id : Nat, task : Tasks, delivered : BOOLEAN]

QueueTypeOK == stream \subseteq Entry /\ puts \in Nat

QueueInit == stream = {} /\ puts = 0

\* put: XADD.
Put(t) ==
  /\ puts' = puts + 1
  /\ stream' = stream \cup
       {[id |-> puts + 1, task |-> t, delivered |-> FALSE]}

\* _claim_stale: XAUTOCLAIM of an entry idle for the visibility timeout.
Stale(e, inHand) == e.delivered /\ (SlowExecutions \/ e.id \notin inHand)

\* XREADGROUP ">": the oldest entry no consumer has been given.
Fresh(e) ==
  /\ ~e.delivered
  /\ \A f \in stream : f.delivered \/ e.id <= f.id

\* get: the entries it may return while the receipts inHand are worked on.
Deliverable(inHand) == {e \in stream : Stale(e, inHand) \/ Fresh(e)}

\* Deviation: NOACK, at most once.
DeliverForget(e) ==
  /\ stream' = stream \ {e}
  /\ UNCHANGED puts

Deliver(e) ==
  /\ stream' = (stream \ {e}) \cup {[e EXCEPT !.delivered = TRUE]}
  /\ UNCHANGED puts

\* ack: XACK and XDEL; no effect on an entry somebody else has acked.
Ack(receipt) ==
  /\ stream' = {e \in stream : e.id # receipt}
  /\ UNCHANGED puts
=============================================================================
