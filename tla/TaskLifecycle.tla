---------------------------- MODULE TaskLifecycle ----------------------------
(***************************************************************************)
(* What the control plane promises about a task, whoever drives it: a task *)
(* is created once and its status then moves only along the edges of the   *)
(* state machine, one edge at a time.                                      *)
(***************************************************************************)
EXTENDS TaskStates

VARIABLE status

Init == status = [t \in Tasks |-> Absent]

Create(t) ==
  /\ status[t] = Absent
  /\ status' = [status EXCEPT ![t] = "created"]

Move(t, target) ==
  /\ status[t] \in Status
  /\ target \in Allowed[status[t]]
  /\ status' = [status EXCEPT ![t] = target]

Next == \E t \in Tasks : Create(t) \/ \E target \in Status : Move(t, target)

Spec == Init /\ [][Next]_status
=============================================================================
