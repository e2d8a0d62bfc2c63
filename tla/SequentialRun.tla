----------------------------- MODULE SequentialRun -----------------------------
(***************************************************************************)
(* What a provisioning run promises its operator: the steps of the plan    *)
(* are closed one at a time, in order, each once; the run ends as done     *)
(* when the last one is closed, or as failed at the first step that fails  *)
(* and may not; and an ended run stays as it is.                           *)
(***************************************************************************)
EXTENDS Integers

CONSTANT Steps

VARIABLES todo,     \* the steps not closed yet
          outcome   \* "active", "done" or "failed"

Start ==
    /\ todo \in (SUBSET Steps) \ {{}}
    /\ outcome = "active"

Current(s) == s \in todo /\ \A t \in todo : s <= t

Close(s) ==
    /\ outcome = "active"
    /\ Current(s)
    /\ todo' = todo \ {s}
    /\ outcome' = IF todo' = {} THEN "done" ELSE "active"

Abort(s) ==
    /\ outcome = "active"
    /\ Current(s)
    /\ todo' = todo \ {s}
    /\ outcome' = "failed"

Advance == \E s \in Steps : Close(s) \/ Abort(s)

Promise == Start /\ [][Advance]_<<todo, outcome>>
=============================================================================
