----------------------------- MODULE MCTaskEngine -----------------------------
(* Small instances of TaskEngine: run plans of three steps, two agents.    *)
EXTENDS TaskEngine, TLC

MCPhases == {"winpe", "full_os"}
MCKinds == {"apply", "verify"}

Row(ph, k, en, rc, rb, ce) ==
    [phase |-> ph, kind |-> k, enabled |-> en, retry_count |-> rc,
     reboot_behavior |-> rb, continue_on_error |-> ce]

(* A run plan from its rows, in ordinal order.                             *)
PlanOf(rows) ==
    [phase             |-> [s \in Steps |-> rows[s].phase],
     kind              |-> [s \in Steps |-> rows[s].kind],
     enabled           |-> [s \in Steps |-> rows[s].enabled],
     retry_count       |-> [s \in Steps |-> rows[s].retry_count],
     reboot_behavior   |-> [s \in Steps |-> rows[s].reboot_behavior],
     continue_on_error |-> [s \in Steps |-> rows[s].continue_on_error]]

(* One phase with a retry and a reboot; two phases with a reboot between   *)
(* them; a step that any phase may run and that may fail without failing   *)
(* the run, next to a disabled one.                                        *)
MCPlans ==
    { PlanOf(<<Row("full_os", "apply", TRUE, 1, "none", FALSE),
               Row("full_os", "apply", TRUE, 0, "required", FALSE),
               Row("full_os", "verify", TRUE, 0, "none", FALSE)>>),
      PlanOf(<<Row("winpe", "apply", TRUE, 0, "required", FALSE),
               Row("full_os", "apply", TRUE, 1, "none", FALSE),
               Row("full_os", "verify", TRUE, 0, "none", TRUE)>>),
      PlanOf(<<Row("any", "apply", TRUE, 0, "none", TRUE),
               Row("full_os", "verify", FALSE, 0, "none", FALSE),
               Row("full_os", "verify", TRUE, 1, "optional", FALSE)>>) }

CONSTANTS a1, a2

(* a1 sends no capability list; a2 only runs kind "verify".                *)
MCSupported == (a1 :> {}) @@ (a2 :> {"verify"})
=============================================================================
