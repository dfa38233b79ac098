------------------------- MODULE WorkflowLifecycle -------------------------
(***************************************************************************)
(* What the engine promises about the state of a workflow instance: the    *)
(* steps of WORKFLOW_TRANSITIONS in services/engine_service.py, each for   *)
(* its own reason.  "absent" is the instance nobody has started yet.       *)
(***************************************************************************)
VARIABLE state

Init == state = "absent"

(* A workflow without work in it is over as soon as it starts.             *)
Start   == state = "absent" /\ state' \in {"running", "finished"}
Halt    == state = "running" /\ state' = "halted"
Resume  == state \in {"dormant", "halted"} /\ state' = "running"
Fail    == state \in {"running", "halted"} /\ state' = "failed"
Finish  == state = "running" /\ state' = "finished"
Restart == state = "failed" /\ state' = "dormant"

Next == Start \/ Halt \/ Resume \/ Fail \/ Finish \/ Restart

Spec == Init /\ [][Next]_state
=============================================================================
