----------------------------- MODULE TaskStates -----------------------------
(***************************************************************************)
(* The task-state transition rules: minion/state_machine.py over the       *)
(* TaskStatus vocabulary of minion/domain.py.                              *)
(***************************************************************************)

CONSTANT Tasks   \* task identifiers, each created at most once (new_id)

Status ==
  {"created", "queued", "provisioning", "running", "waiting_for_user",
   "cancelling", "cancelled", "failed", "completed"}

\* A task that no row of the tasks table describes yet.
Absent == "absent"

Allowed ==
  [created          |-> {"queued", "cancelled"},
   queued           |-> {"provisioning", "cancelling", "failed"},
   provisioning     |-> {"running", "cancelling", "failed"},
   running          |-> {"waiting_for_user", "cancelling", "completed", "failed"},
   waiting_for_user |-> {"running", "cancelling", "failed"},
   cancelling       |-> {"cancelled", "failed"},
   cancelled        |-> {},
   failed           |-> {"queued"},
   completed        |-> {}]

\* Deviation: a transition to the same status is refused like any other.
LegalStrictly(current, target) == target \in Allowed[current]

\* validate_transition(current, target): it raises when this is false.  A
\* transition to the status the task already has always passes.
Legal(current, target) == target = current \/ target \in Allowed[current]

\* What _execute, cancel and the failure handler take for "nothing left to do".
Finished == {"completed", "cancelled", "failed"}

\* Deviation: list_active without QUEUED.
ActiveButQueued ==
  {"provisioning", "running", "waiting_for_user", "cancelling"}

\* TaskRepository.list_active: what a starting process looks for.
Active ==
  {"queued", "provisioning", "running", "waiting_for_user", "cancelling"}
=============================================================================
