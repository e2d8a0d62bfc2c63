---------------------------- MODULE MCTaskEngineRC ----------------------------
(* Two handlers, one agent id, run plans of two steps.                     *)
EXTENDS TaskEngineRC, TLC

Row(ph, rc, rb) ==
    [phase |-> ph, retry_count |-> rc, reboot_behavior |-> rb]

PlanOf(rows) ==
    [phase             |-> [s \in Steps |-> rows[s].phase],
     kind              |-> [s \in Steps |-> "apply"],
     enabled           |-> [s \in Steps |-> TRUE],
     retry_count       |-> [s \in Steps |-> rows[s].retry_count],
     reboot_behavior   |-> [s \in Steps |-> rows[s].reboot_behavior],
     continue_on_error |-> [s \in Steps |-> FALSE]]

(* A plain step, then one that needs a reboot.                             *)
MCPlans == {PlanOf(<<Row("full_os", 0, "none"), Row("full_os", 0, "required")>>)}

CONSTANTS a1
MCSupported == a1 :> {}

HandlerSymmetry == Permutations(Handlers)
=============================================================================
