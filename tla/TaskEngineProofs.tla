--------------------------- MODULE TaskEngineProofs ---------------------------
(* Proofs about TaskEngine, and about TaskEngineRC, where the handlers     *)
(* interleave, for every plan, set of agents and pool of handlers.         *)
EXTENDS TaskEngineRC, FiniteSetTheorems, TLAPS

(* complete_step writes one of the states of the schema.                   *)
LEMMA StepOutcomeType ==
    ASSUME NEW s \in Steps, NEW status \in Statuses, NEW att
    PROVE  StepOutcome(s, status, att) \in StepStates
BY DEF StepOutcome, Statuses, StepStates

(* ... and never "running", which only a claim writes.                     *)
LEMMA RunOutcomeType ==
    ASSUME NEW s \in Steps, NEW outcome
    PROVE  RunOutcome(s, outcome) \in RunStates
BY DEF RunOutcome, NextRunState, RunStates

(* The type invariant holds initially and is preserved by every handler.   *)
LEMMA TypeInit == Init => TypeOK
<1> SUFFICES ASSUME Init PROVE TypeOK
  OBVIOUS
<1> QED
  BY DEF Init, TypeOK, StepStates, RunStates

(* complete_step, claim_next_step and the bulk updates write only known    *)
(* states.                                                                 *)
LEMMA TypeNext == TypeOK /\ [Next]_vars => TypeOK'
<1> SUFFICES ASSUME TypeOK, [Next]_vars PROVE TypeOK'
  OBVIOUS
<1> USE DEF TypeOK
<1>1. ASSUME NEW a \in Agents, NEW p, NEW allow, ClaimNextStep(a, p, allow)
      PROVE  /\ state' \in [Steps -> StepStates]
             /\ attempt' \in [Steps -> Nat]
             /\ claimed_by' \in [Steps -> Agents \cup {Controller, None}]
             /\ run_state' \in RunStates
             /\ cursor' \in Steps \cup {None}
             /\ handed' \in [Agents -> SUBSET Steps]
             /\ plan' \in Plans
  BY <1>1 DEF ClaimNextStep, StepStates, RunStates
<1>2. ASSUME NEW s \in Steps, NEW status \in Statuses, CompleteStep(s, status)
      PROVE  TypeOK'
  BY <1>2, StepOutcomeType, RunOutcomeType DEF CompleteStep
<1>3. CASE \E a \in Agents, p \in Phases : NextAction(a, p)
  BY <1>1, <1>3 DEF NextAction
<1>4. CASE \E a \in Agents : ClaimMore(a)
  BY <1>1, <1>4 DEF ClaimMore
<1>5. CASE \E a \in Agents : EndBatch(a)
  BY <1>5 DEF EndBatch
<1>6. CASE \E a \in Agents : RegisterAgent(a)
  BY <1>6 DEF RegisterAgent, MarkRebootComplete, NextRunState, StepStates, RunStates
<1>7. CASE \E a \in Agents, p \in Phases, s \in Steps, status \in Statuses :
              PostStepResult(a, p, s, status)
  BY <1>2, <1>7 DEF PostStepResult
<1>8. CASE \E a \in Agents, s \in Steps : PostRebooting(a, s)
  BY <1>2, <1>8 DEF PostRebooting, Statuses
<1>9. CASE \E kinds \in SUBSET Kinds : MarkStepsDoneByKind(kinds)
  BY <1>9, StepsAssumption DEF MarkStepsDoneByKind, StepStates, RunStates, Steps
<1>10. CASE \E kinds \in SUBSET Kinds, phases \in PhaseFilters :
              CompleteUbuntuSteps(kinds, phases)
  BY <1>10, StepOutcomeType DEF CompleteUbuntuSteps, RunStates, Statuses
<1>11. CASE \E s \in Steps : RequeueStep(s)
  BY <1>11 DEF RequeueStep, StepStates, RunStates
<1>12. CASE UNCHANGED vars
  BY <1>12 DEF vars
<1> QED
  BY <1>3, <1>4, <1>5, <1>6, <1>7, <1>8, <1>9, <1>10, <1>11, <1>12 DEF Next

(* Every reachable state of the engine is well typed.                      *)
THEOREM TypeCorrect == Spec => []TypeOK
BY TypeInit, TypeNext, PTL DEF Spec

-----------------------------------------------------------------------------
(* The inductive invariant: the properties, and what makes them inductive. *)

(* A pending step still has an attempt to spend: claim_next_step only adds *)
(* one, and complete_step writes pending only after comparing.             *)
PendingHasBudget ==
    \A s \in Steps : state[s] = "pending" => attempt[s] <= plan.retry_count[s]

(* Only a claim makes a step running, and a claim hands it to an agent.    *)
RunningWasHanded ==
    \A s \in Steps : state[s] = "running" => \E b \in Agents : s \in handed[b]

(* What holds of the rows of the plan whatever the row of the run says:    *)
(* CloudOSD and OSDeploy write run_state over the engine's head.           *)
RowsTypeOK ==
    /\ plan \in Plans
    /\ state \in [Steps -> StepStates]
    /\ attempt \in [Steps -> Nat]
    /\ handed \in [Agents -> SUBSET Steps]

RowsInv ==
    /\ RowsTypeOK
    /\ RetryBudget /\ PendingHasBudget
    /\ RunningWasHanded /\ PlanOrder

EngineInv ==
    /\ TypeOK
    /\ RowsInv
    /\ DoneRunIsClosed
    /\ LiveRunHasWork

(* The type invariant has the rows' in it.                                 *)
LEMMA RowsAreTyped == TypeOK => RowsTypeOK
BY DEF TypeOK, RowsTypeOK

(* What the proofs use of the plan's type.                                 *)
LEMMA PlanFacts ==
    ASSUME plan \in Plans
    PROVE  /\ plan.phase \in [Steps -> Phases \cup {"any"}]
           /\ plan.retry_count \in [Steps -> Nat]
           /\ \E s \in Steps : plan.enabled[s]
BY PlansAssumption DEF PlanType

(* complete_step, outcome by outcome.                                      *)
LEMMA OutcomeCases ==
    ASSUME NEW s \in Steps, NEW status \in Statuses, NEW att
    PROVE  /\ StepOutcome(s, status, att) # "running"
           /\ StepOutcome(s, status, att) = "pending" => att <= plan.retry_count[s]
           /\ StepOutcome(s, "success", att) \in {"awaiting_reboot", "done"}
BY DEF StepOutcome, Statuses

(* _next_run_state calls a run done only if no step is open, and live only *)
(* if one is.                                                              *)
LEMMA RunOutcomeCases ==
    ASSUME NEW s \in Steps, NEW outcome \in StepStates \ {"running"}
    PROVE  /\ RunOutcome(s, outcome) = "done" =>
                 /\ outcome \notin OpenStates
                 /\ \A t \in Steps \ {s} : state[t] \notin OpenStates
           /\ RunOutcome(s, outcome) \notin TerminalRunStates =>
                 \/ outcome \in OpenStates
                 \/ \E t \in Steps \ {s} : state[t] \in OpenStates
BY DEF RunOutcome, NextRunState, OpenStates, TerminalRunStates, StepStates

-----------------------------------------------------------------------------
(* The writers of the rows                                                 *)

(* A claim follows the ordinals: whatever is before the step it takes, for *)
(* its phase, was handed out or is closed.                                 *)
LEMMA ClaimKeepsOrder ==
    ASSUME RowsTypeOK, RunningWasHanded, PlanOrder,
           NEW a \in Agents, NEW p, NEW allow \in BOOLEAN, ClaimNextStep(a, p, allow)
    PROVE  RunningWasHanded' /\ PlanOrder'
<1> PICK s \in Steps :
        /\ Claimable(a, p, allow, s)
        /\ state' = [state EXCEPT ![s] = "running"]
        /\ handed' = [handed EXCEPT ![a] = @ \cup {s}]
        /\ plan' = plan
  BY DEF ClaimNextStep
<1>1. RunningWasHanded'
  BY DEF RunningWasHanded, RowsTypeOK
<1>2. PlanOrder'
  <2> SUFFICES ASSUME NEW b \in Agents, NEW u \in Steps, u \in handed'[b],
                      NEW t \in Steps, t < u, plan.phase[t] \in {plan.phase[u], "any"}
               PROVE  \/ \E c \in Agents : t \in handed'[c]
                      \/ state'[t] \in {"done", "skipped"}
    BY DEF PlanOrder
  <2>1. CASE u \in handed[b]
    BY <2>1 DEF PlanOrder, RowsTypeOK, Claimable
  <2>2. CASE u \notin handed[b]
    <3>1. u = s
      BY <2>2 DEF RowsTypeOK
    <3>2. VisibleTo(p, t)
      BY <3>1 DEF Claimable, VisibleTo
    <3>3. ~Blocks(t, a, allow)
      BY <3>1, <3>2 DEF Claimable
    <3>4. state[t] \in {"running", "done", "skipped"}
      BY <3>3 DEF Blocks, RowsTypeOK, StepStates
    <3> QED
      BY <3>1, <3>4 DEF RunningWasHanded, RowsTypeOK
  <2> QED
    BY <2>1, <2>2
<1> QED
  BY <1>1, <1>2

(* A claim spends an attempt a pending step still has.                     *)
LEMMA RowsAfterClaim ==
    ASSUME RowsInv, NEW a \in Agents, NEW p, NEW allow \in BOOLEAN, ClaimNextStep(a, p, allow)
    PROVE  RowsInv'
<1> USE DEF RowsInv
<1> PICK s \in Steps :
        /\ Claimable(a, p, allow, s)
        /\ state' = [state EXCEPT ![s] = "running"]
        /\ attempt' = [attempt EXCEPT ![s] = @ + 1]
        /\ handed' = [handed EXCEPT ![a] = @ \cup {s}]
        /\ plan' = plan
  BY DEF ClaimNextStep
<1>1. RowsTypeOK'
  BY DEF RowsTypeOK, StepStates
<1>2. RetryBudget' /\ PendingHasBudget'
  BY PlanFacts DEF RetryBudget, PendingHasBudget, Claimable, RowsTypeOK
<1>3. RunningWasHanded' /\ PlanOrder'
  BY ClaimKeepsOrder
<1> QED
  BY <1>1, <1>2, <1>3

(* A result, on time or late, for a step some agent was handed.            *)
LEMMA RowsAfterResult ==
    ASSUME RowsInv, NEW s \in Steps, NEW status \in Statuses,
           NEW a \in Agents, s \in handed[a], CompleteStep(s, status)
    PROVE  RowsInv'
<1> USE DEF RowsInv
<1> DEFINE outcome == StepOutcome(s, status, attempt[s])
<1>1. /\ outcome \in StepStates \ {"running"}
      /\ outcome = "pending" => attempt[s] <= plan.retry_count[s]
  BY StepOutcomeType, OutcomeCases
<1>2. /\ state' = [state EXCEPT ![s] = outcome]
      /\ UNCHANGED <<plan, attempt, handed>>
  BY DEF CompleteStep
<1> HIDE DEF outcome
<1>3. RowsTypeOK'
  BY <1>1, <1>2 DEF RowsTypeOK
<1>4. RetryBudget' /\ PendingHasBudget'
  BY <1>1, <1>2 DEF RetryBudget, PendingHasBudget, RowsTypeOK
<1>5. RunningWasHanded' /\ PlanOrder'
  BY <1>1, <1>2 DEF RunningWasHanded, PlanOrder, RowsTypeOK
<1> QED
  BY <1>3, <1>4, <1>5

(* What closes steps, whether an agent was handed them or not: a bulk      *)
(* update, a registration after a reboot.                                  *)
LEMMA RowsAfterClosing ==
    ASSUME RowsInv, UNCHANGED <<plan, attempt, handed>>,
           state' \in [Steps -> StepStates],
           \A s \in Steps : \/ state'[s] \in {state[s], "done"}
                            \/ state[s] \in {"pending", "running"} /\ state'[s] = "awaiting_reboot"
    PROVE  RowsInv'
<1> USE DEF RowsInv
<1>1. RowsTypeOK'
  BY DEF RowsTypeOK
<1>2. RetryBudget' /\ PendingHasBudget'
  BY DEF RetryBudget, PendingHasBudget
<1>3. RunningWasHanded' /\ PlanOrder'
  BY DEF RunningWasHanded, PlanOrder
<1> QED
  BY <1>1, <1>2, <1>3

(* What leaves the rows alone, whatever it does to the run.                *)
LEMMA RowsKept ==
    ASSUME RowsInv, UNCHANGED <<plan, state, attempt, handed>>
    PROVE  RowsInv'
<1>1. state' \in [Steps -> StepStates] /\ \A s \in Steps : state'[s] \in {state[s], "done"}
  BY DEF RowsInv, RowsTypeOK
<1> QED
  BY <1>1, RowsAfterClosing

(* The controller's evidence closes steps, claimed or not.                 *)
LEMMA RowsAfterMark ==
    ASSUME RowsInv, NEW kinds, MarkStepsDoneByKind(kinds)
    PROVE  RowsInv'
<1>1. UNCHANGED <<plan, attempt, handed>>
  BY DEF MarkStepsDoneByKind
<1>2. state \in [Steps -> StepStates]
  BY DEF RowsInv, RowsTypeOK
<1>3. state' \in [Steps -> StepStates] /\ \A s \in Steps : state'[s] \in {state[s], "done"}
  BY <1>2 DEF MarkStepsDoneByKind, StepStates
<1> QED
  BY <1>1, <1>3, RowsAfterClosing

(* A registration that resumes after a reboot.                             *)
LEMMA RowsAfterReboot ==
    ASSUME RowsInv, NEW s, MarkRebootComplete(s)
    PROVE  RowsInv'
<1>1. UNCHANGED <<plan, attempt, handed>> /\ state' = [state EXCEPT ![s] = "done"]
  BY DEF MarkRebootComplete
<1>2. state \in [Steps -> StepStates]
  BY DEF RowsInv, RowsTypeOK
<1>3. state' \in [Steps -> StepStates] /\ \A t \in Steps : state'[t] \in {state[t], "done"}
  BY <1>1, <1>2 DEF StepStates
<1> QED
  BY <1>1, <1>3, RowsAfterClosing

(* An operator requeue starts the step's attempts again.                   *)
LEMMA RowsAfterRequeue ==
    ASSUME RowsInv, NEW s \in Steps, RequeueStep(s)
    PROVE  RowsInv'
<1> USE DEF RowsInv
<1>1. /\ state[s] = "failed"
      /\ state' = [state EXCEPT ![s] = "pending"]
      /\ attempt' = [attempt EXCEPT ![s] = 0]
      /\ UNCHANGED <<plan, handed>>
  BY DEF RequeueStep
<1>2. RowsTypeOK'
  BY <1>1 DEF RowsTypeOK, StepStates
<1>3. RetryBudget' /\ PendingHasBudget'
  BY <1>1, PlanFacts DEF RetryBudget, PendingHasBudget, RowsTypeOK
<1>4. RunningWasHanded' /\ PlanOrder'
  BY <1>1 DEF RunningWasHanded, PlanOrder, RowsTypeOK
<1> QED
  BY <1>2, <1>3, <1>4

(* A new plan: nothing is attempted, running or handed out.                *)
LEMMA NewRows ==
    ASSUME plan \in Plans, state \in [Steps -> {"pending", "skipped"}],
           attempt = [s \in Steps |-> 0], handed = [a \in Agents |-> {}]
    PROVE  RowsInv
<1>1. RowsTypeOK
  BY DEF RowsTypeOK, StepStates
<1>2. RetryBudget /\ PendingHasBudget
  BY PlanFacts DEF RetryBudget, PendingHasBudget
<1>3. RunningWasHanded /\ PlanOrder
  BY DEF RunningWasHanded, PlanOrder
<1> QED
  BY <1>1, <1>2, <1>3 DEF RowsInv

-----------------------------------------------------------------------------
(* The engine on its own                                                   *)

(* create_run_from_version: nothing is attempted or handed out, and a plan *)
(* has a step to do.                                                       *)
LEMMA EngineInvInit == Init => EngineInv
<1> SUFFICES ASSUME Init PROVE EngineInv
  OBVIOUS
<1>1. TypeOK
  BY TypeInit
<1>2. RowsInv
  BY NewRows DEF Init
<1>3. DoneRunIsClosed
  BY DEF Init, DoneRunIsClosed
<1>4. LiveRunHasWork
  BY PlanFacts DEF Init, LiveRunHasWork, OpenStates
<1> QED
  BY <1>1, <1>2, <1>3, <1>4 DEF EngineInv

(* A claim: spends one attempt, opens work, and follows the ordinals.      *)
LEMMA ClaimPreserves ==
    ASSUME EngineInv, TypeOK', NEW a \in Agents, NEW p, NEW allow \in BOOLEAN,
           ClaimNextStep(a, p, allow)
    PROVE  EngineInv'
<1> USE DEF EngineInv
<1> PICK s \in Steps :
        /\ state' = [state EXCEPT ![s] = "running"]
        /\ run_state' = "running"
  BY DEF ClaimNextStep
<1>1. DoneRunIsClosed' /\ LiveRunHasWork'
  BY DEF DoneRunIsClosed, LiveRunHasWork, TypeOK, OpenStates
<1> QED
  BY <1>1, RowsAfterClaim

(* A result, on time or late, for a step some agent was handed.            *)
LEMMA CompletePreserves ==
    ASSUME EngineInv, TypeOK', NEW s \in Steps, NEW status \in Statuses,
           NEW a \in Agents, s \in handed[a], CompleteStep(s, status)
    PROVE  EngineInv'
<1> USE DEF EngineInv
<1> DEFINE outcome == StepOutcome(s, status, attempt[s])
<1>1. outcome \in StepStates \ {"running"}
  BY StepOutcomeType, OutcomeCases
<1>2. state' = [state EXCEPT ![s] = outcome] /\ run_state' = RunOutcome(s, outcome)
  BY DEF CompleteStep
<1> HIDE DEF outcome
<1>3. DoneRunIsClosed' /\ LiveRunHasWork'
  BY <1>1, <1>2, RunOutcomeCases DEF DoneRunIsClosed, LiveRunHasWork, TypeOK
<1> QED
  BY <1>3, RowsAfterResult

(* A registration that resumes after a reboot.                             *)
LEMMA RebootPreserves ==
    ASSUME EngineInv, TypeOK', NEW s \in Steps, MarkRebootComplete(s)
    PROVE  EngineInv'
<1> USE DEF EngineInv
<1>1. /\ state' = [state EXCEPT ![s] = "done"]
      /\ run_state' = NextRunState(Steps \ {s})
  BY DEF MarkRebootComplete
<1>2. DoneRunIsClosed' /\ LiveRunHasWork'
  BY <1>1 DEF DoneRunIsClosed, LiveRunHasWork, NextRunState, TypeOK, OpenStates,
              TerminalRunStates
<1> QED
  BY <1>2, RowsAfterReboot

(* The controller's evidence closes steps, and the run with the last one.  *)
LEMMA MarkPreserves ==
    ASSUME EngineInv, TypeOK', NEW kinds \in SUBSET Kinds, MarkStepsDoneByKind(kinds)
    PROVE  EngineInv'
<1> USE DEF EngineInv
<1> DEFINE marked == {s \in Steps : plan.kind[s] \in kinds /\ state[s] # "done"}
           left == {s \in Steps \ marked : state[s] \in OpenStates \cup {"failed"}}
           closes == left = {} /\ run_state # "failed"
<1>1. /\ state' = [s \in Steps |-> IF s \in marked THEN "done" ELSE state[s]]
      /\ run_state' = IF closes THEN "done" ELSE run_state
  BY DEF MarkStepsDoneByKind
<1>2. marked \subseteq Steps
  OBVIOUS
<1>3. \A s \in Steps \ left : s \in marked \/ state[s] \notin OpenStates
  OBVIOUS
<1>4. \A s \in left : s \in Steps /\ s \notin marked /\ state[s] \in OpenStates \cup {"failed"}
  OBVIOUS
<1> HIDE DEF marked, left
<1>5. DoneRunIsClosed'
  BY <1>1, <1>2, <1>3 DEF DoneRunIsClosed, TypeOK, OpenStates
<1>6. LiveRunHasWork'
  <2> SUFFICES ASSUME run_state' \notin TerminalRunStates
               PROVE  \E s \in Steps : state'[s] \in OpenStates \cup {"failed"}
    BY DEF LiveRunHasWork
  <2>1. left # {}
    BY <1>1 DEF TerminalRunStates
  <2>2. PICK s \in left : TRUE
    BY <2>1
  <2> QED
    BY <1>1, <1>4, <2>2
<1> QED
  BY <1>5, <1>6, RowsAfterMark

(* The Ubuntu callbacks complete pending and running steps in bulk.        *)
LEMMA UbuntuPreserves ==
    ASSUME EngineInv, TypeOK', NEW kinds \in SUBSET Kinds,
           NEW phases \in PhaseFilters, CompleteUbuntuSteps(kinds, phases)
    PROVE  EngineInv'
<1> USE DEF EngineInv
<1> DEFINE matched == {s \in Steps : /\ state[s] \in {"pending", "running"}
                                     /\ plan.kind[s] \in kinds
                                     /\ plan.phase[s] \in phases}
           outcome == [s \in Steps |->
                         IF s \in matched THEN StepOutcome(s, "success", attempt[s])
                                          ELSE state[s]]
<1>1. PICK last \in matched :
        /\ state' = outcome
        /\ run_state' =
              IF outcome[last] = "awaiting_reboot" THEN "awaiting_reboot"
              ELSE IF \E s \in Steps \ {last} : outcome[s] \in OpenStates
                   THEN "queued" ELSE "done"
        /\ UNCHANGED <<plan, attempt, claimed_by, batch, handed>>
  BY DEF CompleteUbuntuSteps
<1>2. last \in Steps
  OBVIOUS
<1>3. \A s \in matched : outcome[s] \in {"awaiting_reboot", "done"}
  BY OutcomeCases, "success" \in Statuses DEF Statuses
<1>4. \A s \in Steps : s \notin matched => outcome[s] = state[s]
  OBVIOUS
<1>5. \A s \in Steps : s \in matched => state[s] \in {"pending", "running"}
  OBVIOUS
<1> HIDE DEF matched, outcome
<1>6. RowsInv'
  <2>1. \A s \in Steps :
           \/ state'[s] \in {state[s], "done"}
           \/ state[s] \in {"pending", "running"} /\ state'[s] = "awaiting_reboot"
    BY <1>1, <1>3, <1>4, <1>5
  <2> QED
    BY <1>1, <2>1, RowsAfterClosing DEF TypeOK
<1>7. DoneRunIsClosed' /\ LiveRunHasWork'
  BY <1>1, <1>2, <1>3 DEF DoneRunIsClosed, LiveRunHasWork, OpenStates, TerminalRunStates
<1> QED
  BY <1>6, <1>7

(* An operator requeue opens the run again with its step.                  *)
LEMMA RequeuePreserves ==
    ASSUME EngineInv, TypeOK', NEW s \in Steps, RequeueStep(s)
    PROVE  EngineInv'
<1> USE DEF EngineInv
<1>1. state' = [state EXCEPT ![s] = "pending"] /\ run_state' = "running"
  BY DEF RequeueStep
<1>2. DoneRunIsClosed' /\ LiveRunHasWork'
  BY <1>1 DEF DoneRunIsClosed, LiveRunHasWork, OpenStates, TypeOK
<1> QED
  BY <1>2, RowsAfterRequeue

(* Every handler of the engine preserves the invariant.                    *)
LEMMA EngineInvNext == EngineInv /\ [Next]_vars => EngineInv'
<1> SUFFICES ASSUME EngineInv, [Next]_vars PROVE EngineInv'
  OBVIOUS
<1>0. TypeOK'
  BY TypeNext DEF EngineInv
<1>1. CASE \E a \in Agents, p \in Phases : NextAction(a, p)
  BY <1>0, <1>1, ClaimPreserves DEF NextAction
<1>2. CASE \E a \in Agents : ClaimMore(a)
  BY <1>0, <1>2, ClaimPreserves DEF ClaimMore
<1>3. CASE \E a \in Agents : EndBatch(a)
  <2>1. UNCHANGED <<plan, state, attempt, handed, run_state>>
    BY <1>3 DEF EndBatch
  <2> QED
    BY <1>0, <2>1, RowsKept DEF EngineInv, DoneRunIsClosed, LiveRunHasWork
<1>4. CASE \E a \in Agents : RegisterAgent(a)
  BY <1>0, <1>4, RebootPreserves DEF RegisterAgent, EngineInv, TypeOK
<1>5. CASE \E a \in Agents, p \in Phases, s \in Steps, status \in Statuses :
              PostStepResult(a, p, s, status)
  BY <1>0, <1>5, CompletePreserves DEF PostStepResult
<1>6. CASE \E a \in Agents, s \in Steps : PostRebooting(a, s)
  BY <1>0, <1>6, CompletePreserves DEF PostRebooting, Statuses
<1>7. CASE \E kinds \in SUBSET Kinds : MarkStepsDoneByKind(kinds)
  BY <1>0, <1>7, MarkPreserves
<1>8. CASE \E kinds \in SUBSET Kinds, phases \in PhaseFilters :
              CompleteUbuntuSteps(kinds, phases)
  BY <1>0, <1>8, UbuntuPreserves
<1>9. CASE \E s \in Steps : RequeueStep(s)
  BY <1>0, <1>9, RequeuePreserves
<1>10. CASE UNCHANGED vars
  <2>1. UNCHANGED <<plan, state, attempt, handed, run_state>>
    BY <1>10 DEF vars
  <2> QED
    BY <1>0, <2>1, RowsKept DEF EngineInv, DoneRunIsClosed, LiveRunHasWork
<1> QED
  BY <1>1, <1>2, <1>3, <1>4, <1>5, <1>6, <1>7, <1>8, <1>9, <1>10 DEF Next

(* The invariant in every reachable state.                                 *)
LEMMA EngineInvHolds == Spec => []EngineInv
BY EngineInvInit, EngineInvNext, PTL DEF Spec

(* complete_step/claim_next_step: late, duplicated and reordered results   *)
(* never buy a step more than retry_count + 1 attempts.                    *)
THEOREM RetryBudgetHolds == Spec => []RetryBudget
<1>1. EngineInv => RetryBudget
  BY DEF EngineInv, RowsInv
<1> QED
  BY <1>1, EngineInvHolds, PTL

(* claim_next_step hands the plan out in ordinal order within a phase.     *)
THEOREM PlanOrderHolds == Spec => []PlanOrder
<1>1. EngineInv => PlanOrder
  BY DEF EngineInv, RowsInv
<1> QED
  BY <1>1, EngineInvHolds, PTL
-----------------------------------------------------------------------------
(* READ COMMITTED: the handlers of TaskEngineRC                            *)

(* What a handler holds between its statements.                            *)
Txn ==
    [pc : {"read"}, op : {"complete", "reboot"}, step : Steps, status : Statuses, attempt : Nat]
    \cup [pc : {"decided"}, op : {"complete", "reboot"}, step : Steps,
          outcome : StepStates, run_outcome : RunStates]

InTxn(h) == txn[h] # None

(* A result is about a step some agent was handed, a registration only     *)
(* ever closes its step, and neither starts one.                           *)
TxnFacts ==
    \A h \in Handlers : InTxn(h) =>
        /\ txn[h].op = "complete" => \E b \in Agents : txn[h].step \in handed[b]
        /\ txn[h].pc = "decided" =>
              /\ txn[h].outcome # "running"
              /\ txn[h].op = "reboot" => txn[h].outcome = "done"

(* The handlers that will reopen step s: they have read an attempt that is *)
(* within the budget, or have compared it already.                         *)
Reopening(s) ==
    {h \in Handlers :
        /\ InTxn(h)
        /\ txn[h].step = s
        /\ \/ /\ txn[h].pc = "read" /\ txn[h].op = "complete"
              /\ txn[h].status = "failed" /\ txn[h].attempt <= plan.retry_count[s]
           \/ txn[h].pc = "decided" /\ txn[h].outcome = "pending"}

Claims(s) == IF state[s] = "pending" THEN 1 ELSE 0

(* Every attempt that is still to come is paid for: by the step being      *)
(* pending, or by a handler that will make it so.                          *)
OverrunBudget ==
    \A s \in Steps : attempt[s] + Claims(s) + Cardinality(Reopening(s))
                         <= plan.retry_count[s] + 1 + Cardinality(Handlers)

RCInv ==
    /\ TypeOK
    /\ txn \in [Handlers -> Txn \cup {None}]
    /\ RunningWasHanded /\ PlanOrder
    /\ TxnFacts
    /\ OverrunBudget

(* Sets of handlers are counted by numbers, and smaller sets by smaller    *)
(* ones.                                                                   *)
LEMMA HandlerCount ==
    ASSUME NEW S \in SUBSET Handlers, NEW T \in SUBSET S
    PROVE  /\ Cardinality(T) \in Nat
           /\ Cardinality(S) \in Nat
           /\ Cardinality(T) <= Cardinality(S)
           /\ T # S => Cardinality(T) < Cardinality(S)
<1>1. IsFiniteSet(S) /\ IsFiniteSet(T)
  BY HandlersAssumption, FS_Subset
<1> QED
  BY <1>1, FS_Subset, FS_CardinalityType

(* The budget of a step, when no handler more will reopen it and no        *)
(* attempt more is to come than before, or when it is far from spent.      *)
LEMMA BudgetKept ==
    ASSUME TypeOK, TypeOK', plan' = plan, NEW s \in Steps, OverrunBudget,
           \/ attempt'[s] <= plan.retry_count[s]
           \/ /\ Reopening(s)' \subseteq Reopening(s)
              /\ attempt'[s] + Claims(s)' <= attempt[s] + Claims(s)
           \/ /\ Reopening(s)' \subseteq Reopening(s) /\ Reopening(s)' # Reopening(s)
              /\ attempt'[s] = attempt[s]
    PROVE  attempt'[s] + Claims(s)' + Cardinality(Reopening(s)')
               <= plan'.retry_count[s] + 1 + Cardinality(Handlers)
<1> DEFINE R == Reopening(s)
           n == plan.retry_count[s]
           H == Cardinality(Handlers)
<1>1. R \in SUBSET Handlers /\ R' \in SUBSET Handlers
  BY DEF Reopening
<1>2. /\ attempt[s] \in Nat /\ attempt'[s] \in Nat
      /\ n \in Nat /\ plan'.retry_count[s] = n
      /\ Claims(s) \in {0, 1} /\ Claims(s)' \in {0, 1}
      /\ attempt[s] + Claims(s) + Cardinality(R) <= n + 1 + H
  BY PlanFacts DEF TypeOK, Claims, OverrunBudget
<1>3. /\ Cardinality(R) \in Nat /\ Cardinality(R') \in Nat /\ H \in Nat
      /\ Cardinality(R') <= H
      /\ R' \subseteq R => Cardinality(R') <= Cardinality(R)
      /\ R' \subseteq R /\ R' # R => Cardinality(R') < Cardinality(R)
  BY <1>1, HandlerCount
<1>4. \/ attempt'[s] <= n
      \/ R' \subseteq R /\ attempt'[s] + Claims(s)' <= attempt[s] + Claims(s)
      \/ R' \subseteq R /\ R' # R /\ attempt'[s] = attempt[s]
  OBVIOUS
<1> HIDE DEF R, n, H
<1>5. attempt'[s] + Claims(s)' + Cardinality(R') <= n + 1 + H
  BY <1>2, <1>3, <1>4
<1> QED
  BY <1>2, <1>5 DEF R, H, n

(* At READ COMMITTED too nothing is attempted at first, and no handler has *)
(* read anything.                                                          *)
LEMMA RCInvInit == RCInit => RCInv
<1> SUFFICES ASSUME RCInit PROVE RCInv
  OBVIOUS
<1>1. TypeOK /\ RunningWasHanded /\ PlanOrder
  BY EngineInvInit DEF RCInit, EngineInv, RowsInv
<1>2. txn \in [Handlers -> Txn \cup {None}] /\ TxnFacts
  BY DEF RCInit, TxnFacts, InTxn
<1>3. OverrunBudget
  <2> SUFFICES ASSUME NEW s \in Steps
               PROVE  attempt[s] + Claims(s) + Cardinality(Reopening(s))
                          <= plan.retry_count[s] + 1 + Cardinality(Handlers)
    BY DEF OverrunBudget
  <2>1. Reopening(s) = {}
    BY DEF RCInit, Reopening, InTxn
  <2>2. Cardinality(Reopening(s)) = 0 /\ Cardinality(Handlers) \in Nat
    BY <2>1, FS_EmptySet, HandlerCount
  <2>3. attempt[s] = 0 /\ Claims(s) \in {0, 1} /\ plan.retry_count[s] \in Nat
    BY PlanFacts DEF RCInit, Init, Claims
  <2> QED
    BY <2>2, <2>3
<1> QED
  BY <1>1, <1>2, <1>3 DEF RCInv

(* The first statement of a handler.  It joins the handlers that will      *)
(* reopen the step only if the attempt it reads is within the budget.      *)
LEMMA BeginPreserves ==
    ASSUME RCInv, NEW h \in Handlers, NEW op \in {"complete", "reboot"}, NEW s \in Steps,
           NEW status \in Statuses, BeginTxn(h, op, s, status),
           op = "complete" => \E b \in Agents : s \in handed[b]
    PROVE  RCInv'
<1> DEFINE t == [pc |-> "read", op |-> op, step |-> s, status |-> status,
                 attempt |-> attempt[s]]
<1>1. /\ txn[h] = None
      /\ txn' = [txn EXCEPT ![h] = t]
      /\ UNCHANGED <<plan, state, attempt, handed>>
  BY DEF BeginTxn, vars
<1>2. TypeOK' /\ RunningWasHanded' /\ PlanOrder'
  BY DEF RCInv, BeginTxn, vars, TypeOK, RunningWasHanded, PlanOrder
<1>3. t \in Txn
  BY DEF Txn, RCInv, TypeOK
<1>4. t.pc = "read" /\ t.op = op /\ t.step = s /\ t.attempt = attempt[s]
  OBVIOUS
<1> HIDE DEF t
<1>5. txn' \in [Handlers -> Txn \cup {None}]
  BY <1>1, <1>3 DEF RCInv
<1>6. TxnFacts'
  <2> SUFFICES ASSUME NEW k \in Handlers, InTxn(k)'
               PROVE  /\ txn'[k].op = "complete" =>
                            \E b \in Agents : txn'[k].step \in handed[b]
                      /\ txn'[k].pc = "decided" =>
                            /\ txn'[k].outcome # "running"
                            /\ txn'[k].op = "reboot" => txn'[k].outcome = "done"
    BY <1>1 DEF TxnFacts
  <2>1. CASE k = h
    BY <1>1, <1>4, <2>1 DEF RCInv
  <2>2. CASE k # h
    BY <1>1, <2>2 DEF RCInv, TxnFacts, InTxn
  <2> QED
    BY <2>1, <2>2
<1>7. ASSUME NEW u \in Steps, ~(attempt'[u] <= plan.retry_count[u])
      PROVE  Reopening(u)' \subseteq Reopening(u)
  <2> SUFFICES ASSUME NEW k \in Handlers, k \in Reopening(u)'
               PROVE  k \in Reopening(u)
    BY DEF Reopening
  <2>1. k # h
    BY <1>1, <1>4, <1>7 DEF Reopening, RCInv
  <2> QED
    BY <1>1, <2>1 DEF Reopening, InTxn, RCInv
<1>8. OverrunBudget'
  <2> SUFFICES ASSUME NEW u \in Steps
               PROVE  attempt'[u] + Claims(u)' + Cardinality(Reopening(u)')
                          <= plan'.retry_count[u] + 1 + Cardinality(Handlers)
    BY DEF OverrunBudget
  <2>1. TypeOK /\ OverrunBudget /\ plan' = plan
    BY <1>1 DEF RCInv
  <2>2. attempt'[u] + Claims(u)' <= attempt[u] + Claims(u)
    <3>1. attempt[u] \in Nat /\ Claims(u) \in {0, 1}
      BY <2>1 DEF TypeOK, Claims
    <3>2. attempt'[u] = attempt[u] /\ Claims(u)' = Claims(u)
      BY <1>1 DEF Claims
    <3> QED
      BY <3>1, <3>2
  <2>3. CASE attempt'[u] <= plan.retry_count[u]
    BY <1>2, <2>1, <2>3, BudgetKept
  <2>4. CASE ~(attempt'[u] <= plan.retry_count[u])
    BY <1>2, <1>7, <2>1, <2>2, <2>4, BudgetKept
  <2> QED
    BY <2>3, <2>4
<1> QED
  BY <1>2, <1>5, <1>6, <1>8 DEF RCInv

(* The second statement.  A handler decides to reopen its step only if it  *)
(* was counted already.                                                    *)
LEMMA DecidePreserves ==
    ASSUME RCInv, NEW h \in Handlers, Decide(h)
    PROVE  RCInv'
<1> DEFINE t == txn[h]
           outcome == IF t.op = "reboot" THEN "done"
                      ELSE StepOutcome(t.step, t.status, t.attempt)
           d == [pc |-> "decided", op |-> t.op, step |-> t.step, outcome |-> outcome,
                 run_outcome |-> RunOutcome(t.step, outcome)]
<1>1. /\ t # None /\ t.pc = "read"
      /\ txn' = [txn EXCEPT ![h] = d]
      /\ UNCHANGED <<plan, state, attempt, handed>>
  BY DEF Decide, vars
<1>2. TypeOK' /\ RunningWasHanded' /\ PlanOrder'
  BY DEF RCInv, Decide, vars, TypeOK, RunningWasHanded, PlanOrder
<1>3. /\ t.op \in {"complete", "reboot"} /\ t.step \in Steps /\ t.status \in Statuses
      /\ t.attempt \in Nat
  BY <1>1 DEF RCInv, Txn
<1>4. /\ outcome \in StepStates /\ outcome # "running"
      /\ t.op = "reboot" => outcome = "done"
  BY <1>3, StepOutcomeType, OutcomeCases DEF StepStates
<1>5. outcome = "pending" =>
          /\ t.op = "complete" /\ t.status = "failed"
          /\ t.attempt <= plan.retry_count[t.step]
  BY <1>3 DEF StepOutcome, Statuses
<1> HIDE DEF outcome
<1>6. RunOutcome(t.step, outcome) \in RunStates
  BY <1>3, RunOutcomeType
<1>7. d \in Txn
  BY <1>3, <1>4, <1>6 DEF Txn
<1>8. d.pc = "decided" /\ d.op = t.op /\ d.step = t.step /\ d.outcome = outcome
  OBVIOUS
<1> HIDE DEF d
<1>9. txn' \in [Handlers -> Txn \cup {None}]
  BY <1>1, <1>7 DEF RCInv
<1>10. TxnFacts'
  <2> SUFFICES ASSUME NEW k \in Handlers, InTxn(k)'
               PROVE  /\ txn'[k].op = "complete" =>
                            \E b \in Agents : txn'[k].step \in handed[b]
                      /\ txn'[k].pc = "decided" =>
                            /\ txn'[k].outcome # "running"
                            /\ txn'[k].op = "reboot" => txn'[k].outcome = "done"
    BY <1>1 DEF TxnFacts
  <2>1. CASE k = h
    BY <1>1, <1>4, <1>8, <2>1 DEF RCInv, TxnFacts, InTxn
  <2>2. CASE k # h
    BY <1>1, <2>2 DEF RCInv, TxnFacts, InTxn
  <2> QED
    BY <2>1, <2>2
<1>11. OverrunBudget'
  <2> SUFFICES ASSUME NEW u \in Steps
               PROVE  attempt'[u] + Claims(u)' + Cardinality(Reopening(u)')
                          <= plan'.retry_count[u] + 1 + Cardinality(Handlers)
    BY DEF OverrunBudget
  <2>1. TypeOK /\ OverrunBudget /\ plan' = plan
    BY <1>1 DEF RCInv
  <2>2. attempt'[u] + Claims(u)' <= attempt[u] + Claims(u)
    <3>1. attempt[u] \in Nat /\ Claims(u) \in {0, 1}
      BY <2>1 DEF TypeOK, Claims
    <3>2. attempt'[u] = attempt[u] /\ Claims(u)' = Claims(u)
      BY <1>1 DEF Claims
    <3> QED
      BY <3>1, <3>2
  <2>3. Reopening(u)' \subseteq Reopening(u)
    <3> SUFFICES ASSUME NEW k \in Handlers, k \in Reopening(u)'
                 PROVE  k \in Reopening(u)
      BY DEF Reopening
    <3>1. CASE k = h
      BY <1>1, <1>5, <1>8, <3>1 DEF Reopening, InTxn, RCInv
    <3>2. CASE k # h
      BY <1>1, <3>2 DEF Reopening, InTxn, RCInv
    <3> QED
      BY <3>1, <3>2
  <2> QED
    BY <1>2, <2>1, <2>2, <2>3, BudgetKept
<1> QED
  BY <1>2, <1>9, <1>10, <1>11 DEF RCInv

(* The commit.  A handler that reopens its step pays for the attempt to    *)
(* come with its own place among the handlers that will.                   *)
LEMMA WriteBackPreserves ==
    ASSUME RCInv, NEW h \in Handlers, WriteBack(h)
    PROVE  RCInv'
<1> DEFINE t == txn[h]
<1>1. /\ t # None /\ t.pc = "decided"
      /\ state' = [state EXCEPT ![t.step] = t.outcome]
      /\ claimed_by' = [claimed_by EXCEPT ![t.step] =
                           IF t.outcome = "pending" THEN None ELSE @]
      /\ run_state' = t.run_outcome
      /\ cursor' = t.step
      /\ txn' = [txn EXCEPT ![h] = None]
      /\ UNCHANGED <<plan, attempt, batch, handed>>
  BY DEF WriteBack
<1>2. /\ t.op \in {"complete", "reboot"} /\ t.step \in Steps /\ t.outcome \in StepStates
      /\ t.run_outcome \in RunStates
  BY <1>1 DEF RCInv, Txn
<1>3. /\ t.op = "complete" => \E b \in Agents : t.step \in handed[b]
      /\ t.outcome # "running"
      /\ t.op = "reboot" => t.outcome = "done"
  BY <1>1 DEF RCInv, TxnFacts, InTxn
<1>4. txn' \in [Handlers -> Txn \cup {None}]
  BY <1>1 DEF RCInv
<1>5. TxnFacts'
  BY <1>1 DEF RCInv, TxnFacts, InTxn
<1>6. h \in Reopening(t.step) <=> t.outcome = "pending"
  BY <1>1, <1>2 DEF Reopening, InTxn
<1>7. \A u \in Steps : Reopening(u)' = Reopening(u) \ {h}
  BY <1>1 DEF Reopening, InTxn, RCInv
<1> HIDE DEF t
<1>8. TypeOK'
  BY <1>1, <1>2 DEF RCInv, TypeOK
<1>9. RunningWasHanded' /\ PlanOrder'
  BY <1>1, <1>2, <1>3 DEF RCInv, TypeOK, RunningWasHanded, PlanOrder
<1>10. OverrunBudget'
  <2> SUFFICES ASSUME NEW u \in Steps
               PROVE  attempt'[u] + Claims(u)' + Cardinality(Reopening(u)')
                          <= plan'.retry_count[u] + 1 + Cardinality(Handlers)
    BY DEF OverrunBudget
  <2>1. TypeOK /\ OverrunBudget /\ plan' = plan
    BY <1>1 DEF RCInv
  <2>2. Reopening(u)' \subseteq Reopening(u)
    BY <1>7
  <2>3. attempt[u] \in Nat /\ Claims(u) \in {0, 1} /\ attempt'[u] = attempt[u]
    BY <1>1, <2>1 DEF TypeOK, Claims
  <2>4. CASE u = t.step /\ t.outcome = "pending"
    <3>1. Reopening(u)' # Reopening(u)
      BY <1>6, <1>7, <2>4
    <3> QED
      BY <1>8, <2>1, <2>2, <2>3, <3>1, BudgetKept
  <2>5. CASE ~(u = t.step /\ t.outcome = "pending")
    <3>1. state'[u] = "pending" => state[u] = "pending"
      BY <1>1, <1>2, <2>1, <2>5 DEF TypeOK
    <3>2. Claims(u)' \in {0, 1} /\ (Claims(u)' = 1 => Claims(u) = 1)
      BY <3>1 DEF Claims
    <3>3. attempt'[u] + Claims(u)' <= attempt[u] + Claims(u)
      BY <2>3, <3>2
    <3> QED
      BY <1>8, <2>1, <2>2, <3>3, BudgetKept
  <2> QED
    BY <2>4, <2>5
<1> QED
  BY <1>4, <1>5, <1>8, <1>9, <1>10 DEF RCInv

(* Requests that touch no handler's transaction: the steps they hand out   *)
(* stay handed out, and the handlers that will reopen a step are the same. *)
LEMMA TxnUntouched ==
    ASSUME RCInv, txn' = txn, plan' = plan,
           \A b \in Agents : handed[b] \subseteq handed'[b]
    PROVE  /\ txn' \in [Handlers -> Txn \cup {None}]
           /\ TxnFacts'
           /\ \A u \in Steps : Reopening(u)' = Reopening(u)
<1>1. TxnFacts'
  BY DEF RCInv, TxnFacts, InTxn
<1>2. \A u \in Steps : Reopening(u)' = Reopening(u)
  BY DEF Reopening, InTxn
<1> QED
  BY <1>1, <1>2 DEF RCInv

(* A claim spends the attempt its pending step stood for.                  *)
LEMMA RCClaimPreserves ==
    ASSUME RCInv, TypeOK', txn' = txn,
           NEW a \in Agents, NEW p, NEW allow \in BOOLEAN, ClaimNextStep(a, p, allow)
    PROVE  RCInv'
<1>1. PICK s \in Steps :
        /\ state[s] = "pending"
        /\ state' = [state EXCEPT ![s] = "running"]
        /\ attempt' = [attempt EXCEPT ![s] = @ + 1]
        /\ handed' = [handed EXCEPT ![a] = @ \cup {s}]
        /\ plan' = plan
  BY DEF ClaimNextStep, Claimable
<1>2. RunningWasHanded' /\ PlanOrder'
  BY RowsAreTyped, ClaimKeepsOrder DEF RCInv
<1>3. \A b \in Agents : handed[b] \subseteq handed'[b]
  BY <1>1 DEF RCInv, TypeOK
<1>4. OverrunBudget'
  <2> SUFFICES ASSUME NEW u \in Steps
               PROVE  attempt'[u] + Claims(u)' + Cardinality(Reopening(u)')
                          <= plan'.retry_count[u] + 1 + Cardinality(Handlers)
    BY DEF OverrunBudget
  <2>1. TypeOK /\ OverrunBudget
    BY DEF RCInv
  <2>2. Reopening(u)' \subseteq Reopening(u)
    BY <1>1, <1>3, TxnUntouched
  <2>3. attempt'[u] + Claims(u)' <= attempt[u] + Claims(u)
    BY <1>1, <2>1 DEF TypeOK, Claims
  <2> QED
    BY <1>1, <2>1, <2>2, <2>3, BudgetKept
<1> QED
  BY <1>1, <1>2, <1>3, <1>4, TxnUntouched DEF RCInv

(* An operator requeue starts the count again.                             *)
LEMMA RCRequeuePreserves ==
    ASSUME RCInv, TypeOK', txn' = txn, NEW s \in Steps, RequeueStep(s)
    PROVE  RCInv'
<1>1. /\ state[s] = "failed"
      /\ state' = [state EXCEPT ![s] = "pending"]
      /\ attempt' = [attempt EXCEPT ![s] = 0]
      /\ UNCHANGED <<plan, handed>>
  BY DEF RequeueStep
<1>2. RunningWasHanded' /\ PlanOrder'
  BY <1>1 DEF RCInv, RunningWasHanded, PlanOrder, TypeOK
<1>3. OverrunBudget'
  <2> SUFFICES ASSUME NEW u \in Steps
               PROVE  attempt'[u] + Claims(u)' + Cardinality(Reopening(u)')
                          <= plan'.retry_count[u] + 1 + Cardinality(Handlers)
    BY DEF OverrunBudget
  <2>1. TypeOK /\ OverrunBudget
    BY DEF RCInv
  <2>2. Reopening(u)' \subseteq Reopening(u)
    BY <1>1, TxnUntouched
  <2>3. CASE u = s
    <3>1. attempt'[u] <= plan.retry_count[u]
      BY <1>1, <2>1, <2>3, PlanFacts DEF TypeOK
    <3> QED
      BY <1>1, <2>1, <3>1, BudgetKept
  <2>4. CASE u # s
    <3>1. attempt'[u] + Claims(u)' <= attempt[u] + Claims(u)
      BY <1>1, <2>1, <2>4 DEF TypeOK, Claims
    <3> QED
      BY <1>1, <2>1, <2>2, <3>1, BudgetKept
  <2> QED
    BY <2>3, <2>4
<1> QED
  BY <1>1, <1>2, <1>3, TxnUntouched DEF RCInv

(* Every statement of every handler preserves the invariant.               *)
LEMMA RCInvNext == RCInv /\ [RCNext]_rcVars => RCInv'
<1> SUFFICES ASSUME RCInv, [RCNext]_rcVars PROVE RCInv'
  OBVIOUS
<1>1. CASE \E h \in Handlers, a \in Agents, s \in Steps, status \in Statuses :
              ReadForResult(h, a, s, status)
  <2>1. PICK h \in Handlers, a \in Agents, s \in Steps, status \in Statuses :
            ReadForResult(h, a, s, status)
    BY <1>1
  <2> QED
    BY <2>1, BeginPreserves DEF ReadForResult
<1>2. CASE \E h \in Handlers : ReadForRegister(h)
  <2>1. PICK h \in Handlers : ReadForRegister(h)
    BY <1>2
  <2>2. cursor \in Steps /\ "success" \in Statuses
    BY <2>1 DEF ReadForRegister, RCInv, TypeOK, Statuses
  <2> QED
    BY <2>1, <2>2, BeginPreserves DEF ReadForRegister
<1>3. CASE \E h \in Handlers : Decide(h)
  BY <1>3, DecidePreserves
<1>4. CASE \E h \in Handlers : WriteBack(h)
  BY <1>4, WriteBackPreserves
<1>5. CASE LockedRequest
  <2>1. TypeOK' /\ txn' = txn
    BY <1>5, TypeNext DEF RCInv, LockedRequest, Next
  <2>2. CASE \E a \in Agents, p \in Phases : NextAction(a, p)
    BY <2>1, <2>2, RCClaimPreserves DEF NextAction
  <2>3. CASE \E a \in Agents : ClaimMore(a)
    BY <2>1, <2>3, RCClaimPreserves DEF ClaimMore
  <2>4. CASE \E s \in Steps : RequeueStep(s)
    BY <2>1, <2>4, RCRequeuePreserves
  <2> QED
    BY <1>5, <2>2, <2>3, <2>4 DEF LockedRequest
<1>6. CASE (\E a \in Agents : EndBatch(a)) /\ UNCHANGED <<txn, overlapped>>
  <2>1. TypeOK' /\ txn' = txn
    BY <1>6, TypeNext DEF RCInv, Next
  <2> QED
    BY <1>6, <2>1 DEF EndBatch, RCInv, RunningWasHanded, PlanOrder, TxnFacts, InTxn,
                      OverrunBudget, Claims, Reopening
<1>7. CASE UNCHANGED rcVars
  BY <1>7 DEF rcVars, vars, RCInv, TypeOK, RunningWasHanded, PlanOrder, TxnFacts, InTxn,
              OverrunBudget, Claims, Reopening
<1> QED
  BY <1>1, <1>2, <1>3, <1>4, <1>5, <1>6, <1>7 DEF RCNext

(* The invariant of the interleaved handlers.                              *)
LEMMA RCInvHolds == RCSpec => []RCInv
BY RCInvInit, RCInvNext, PTL DEF RCSpec

(* complete_step's unlocked reads let a step be retried too often, but by  *)
(* at most one attempt for each thread of the pool, however many results   *)
(* are repeated and however their statements interleave.                   *)
THEOREM BoundedOverrunHolds == RCSpec => []BoundedOverrun
<1>1. RCInv => BoundedOverrun
  <2> SUFFICES ASSUME RCInv, NEW s \in Steps
               PROVE  attempt[s] <= plan.retry_count[s] + 1 + Cardinality(Handlers)
    BY DEF BoundedOverrun
  <2>1. Cardinality(Reopening(s)) \in Nat /\ Cardinality(Handlers) \in Nat
    BY HandlerCount DEF Reopening
  <2>2. attempt[s] \in Nat /\ Claims(s) \in {0, 1} /\ plan.retry_count[s] \in Nat
    BY PlanFacts DEF RCInv, TypeOK, Claims
  <2>3. attempt[s] + Claims(s) + Cardinality(Reopening(s))
            <= plan.retry_count[s] + 1 + Cardinality(Handlers)
    BY DEF RCInv, OverrunBudget
  <2> QED
    BY <2>1, <2>2, <2>3
<1> QED
  BY <1>1, RCInvHolds, PTL

(* The ordinals are respected without the row locks of a result too: its   *)
(* handler writes only a step that was handed out, and a registration      *)
(* only closes its step.                                                   *)
THEOREM InterleavedPlanOrderHolds == RCSpec => []PlanOrder
<1>1. RCInv => PlanOrder
  BY DEF RCInv
<1> QED
  BY <1>1, RCInvHolds, PTL

-----------------------------------------------------------------------------
(* Handlers that do not overlap                                            *)

RunIsSound == RetryBudget /\ PendingHasBudget /\ DoneRunIsClosed /\ LiveRunHasWork

(* What a handler has read or decided is what it would read or decide now. *)
ReadsAreFresh ==
    \A h \in Handlers : InTxn(h) =>
        /\ txn[h].pc = "read" => txn[h].attempt = attempt[txn[h].step]
        /\ txn[h].pc = "decided" =>
              /\ txn[h].outcome = "pending" =>
                    attempt[txn[h].step] <= plan.retry_count[txn[h].step]
              /\ txn[h].run_outcome = RunOutcome(txn[h].step, txn[h].outcome)

SerialInv == ~overlapped => RunIsSound /\ ReadsAreFresh

(* Nothing was read yet.                                                   *)
LEMMA SerialInvInit == RCInit => SerialInv
<1> SUFFICES ASSUME RCInit PROVE RunIsSound /\ ReadsAreFresh
  BY DEF SerialInv
<1>1. EngineInv
  BY EngineInvInit DEF RCInit
<1> QED
  BY <1>1 DEF EngineInv, RowsInv, RunIsSound, ReadsAreFresh, InTxn, RCInit

(* While nothing is written, what was read stays fresh and the next read   *)
(* is.                                                                     *)
LEMMA ReadIsFresh ==
    ASSUME RCInv, SerialInv, UNCHANGED vars, UNCHANGED overlapped, NEW h \in Handlers,
           NEW t, txn' = [txn EXCEPT ![h] = t],
           ~overlapped =>
               /\ t.pc = "read" => t.attempt = attempt[t.step]
               /\ t.pc = "decided" =>
                     /\ t.outcome = "pending" => attempt[t.step] <= plan.retry_count[t.step]
                     /\ t.run_outcome = RunOutcome(t.step, t.outcome)
    PROVE  SerialInv'
<1> SUFFICES ASSUME ~overlapped PROVE RunIsSound' /\ ReadsAreFresh'
  BY DEF SerialInv
<1>1. RunIsSound /\ ReadsAreFresh /\ UNCHANGED <<plan, state, attempt, run_state>>
  BY DEF SerialInv, vars
<1>2. RunIsSound'
  BY <1>1 DEF RunIsSound, RetryBudget, PendingHasBudget, DoneRunIsClosed, LiveRunHasWork
<1>3. ASSUME NEW k \in Handlers, InTxn(k)'
      PROVE  /\ txn'[k].pc = "read" => txn'[k].attempt = attempt[txn'[k].step]
             /\ txn'[k].pc = "decided" =>
                   /\ txn'[k].outcome = "pending" =>
                         attempt[txn'[k].step] <= plan.retry_count[txn'[k].step]
                   /\ txn'[k].run_outcome = RunOutcome(txn'[k].step, txn'[k].outcome)
  <2>1. CASE k = h
    <3>1. txn'[k] = t
      BY <2>1 DEF RCInv
    <3> QED
      BY <3>1
  <2>2. CASE k # h
    <3>1. txn'[k] = txn[k] /\ InTxn(k)
      BY <1>3, <2>2 DEF RCInv, InTxn
    <3> QED
      BY <1>1, <3>1 DEF ReadsAreFresh
  <2> QED
    BY <2>1, <2>2
<1>4. ReadsAreFresh'
  BY <1>1, <1>3 DEF ReadsAreFresh, RunOutcome, NextRunState
<1> QED
  BY <1>2, <1>4

(* A commit that nobody overlapped writes what a handler alone would have  *)
(* written.                                                                *)
LEMMA LoneWriteIsSound ==
    ASSUME RCInv, SerialInv, NEW h \in Handlers, WriteBack(h)
    PROVE  SerialInv'
<1> SUFFICES ASSUME ~overlapped' PROVE RunIsSound' /\ ReadsAreFresh'
  BY DEF SerialInv
<1>1. ~overlapped /\ InFlight = {h} /\ RunIsSound /\ ReadsAreFresh
  BY DEF WriteBack, SerialInv
<1> DEFINE s == txn[h].step
           outcome == txn[h].outcome
<1>2. /\ txn[h] # None /\ txn[h].pc = "decided"
      /\ state' = [state EXCEPT ![s] = outcome]
      /\ run_state' = RunOutcome(s, outcome)
      /\ txn' = [txn EXCEPT ![h] = None]
      /\ UNCHANGED <<plan, attempt>>
  BY <1>1 DEF WriteBack, ReadsAreFresh, InTxn
<1>3. s \in Steps /\ outcome \in StepStates \ {"running"}
  BY <1>2 DEF RCInv, Txn, TxnFacts, InTxn
<1>4. outcome = "pending" => attempt[s] <= plan.retry_count[s]
  BY <1>1, <1>2 DEF ReadsAreFresh, InTxn
<1>5. \A k \in Handlers : ~InTxn(k)'
  BY <1>1, <1>2 DEF InFlight, InTxn, RCInv
<1> HIDE DEF s, outcome
<1>6. DoneRunIsClosed' /\ LiveRunHasWork'
  BY <1>2, <1>3, RunOutcomeCases DEF RCInv, TypeOK, DoneRunIsClosed, LiveRunHasWork
<1>7. RetryBudget' /\ PendingHasBudget'
  BY <1>1, <1>2, <1>3, <1>4 DEF RunIsSound, RetryBudget, PendingHasBudget, RCInv, TypeOK
<1> QED
  BY <1>5, <1>6, <1>7 DEF RunIsSound, ReadsAreFresh

(* Claims and requeues, when no handler is between its statements.         *)
LEMMA LoneRequestIsSound ==
    ASSUME RCInv, SerialInv, LockedRequest
    PROVE  SerialInv'
<1> SUFFICES ASSUME ~overlapped' PROVE RunIsSound' /\ ReadsAreFresh'
  BY DEF SerialInv
<1>1. ~overlapped /\ InFlight = {} /\ RunIsSound /\ txn' = txn
  BY DEF LockedRequest, SerialInv
<1>2. EngineInv
  BY <1>1, RowsAreTyped DEF RunIsSound, EngineInv, RowsInv, RCInv
<1>3. Next
  BY DEF LockedRequest, Next
<1>4. EngineInv'
  BY <1>2, <1>3, EngineInvNext
<1>5. ReadsAreFresh'
  BY <1>1 DEF ReadsAreFresh, InTxn, InFlight
<1> QED
  BY <1>4, <1>5 DEF EngineInv, RowsInv, RunIsSound

(* Every statement of every handler.                                       *)
LEMMA SerialInvNext == RCInv /\ SerialInv /\ [RCNext]_rcVars => SerialInv'
<1> SUFFICES ASSUME RCInv, SerialInv, [RCNext]_rcVars PROVE SerialInv'
  OBVIOUS
<1>1. ASSUME NEW h \in Handlers, NEW op, NEW s, NEW status, BeginTxn(h, op, s, status)
      PROVE  SerialInv'
  <2> DEFINE t == [pc |-> "read", op |-> op, step |-> s, status |-> status,
                   attempt |-> attempt[s]]
  <2>1. txn' = [txn EXCEPT ![h] = t] /\ UNCHANGED vars /\ UNCHANGED overlapped
    BY <1>1 DEF BeginTxn
  <2>2. t.pc = "read" /\ t.attempt = attempt[t.step]
    OBVIOUS
  <2> HIDE DEF t
  <2> QED
    BY <2>1, <2>2, ReadIsFresh
<1>2. CASE \E h \in Handlers, a \in Agents, s \in Steps, status \in Statuses :
              ReadForResult(h, a, s, status)
  BY <1>1, <1>2 DEF ReadForResult
<1>3. CASE \E h \in Handlers : ReadForRegister(h)
  BY <1>1, <1>3 DEF ReadForRegister
<1>4. ASSUME NEW h \in Handlers, Decide(h)
      PROVE  SerialInv'
  <2> DEFINE t == txn[h]
             outcome == IF t.op = "reboot" THEN "done"
                        ELSE StepOutcome(t.step, t.status, t.attempt)
             d == [pc |-> "decided", op |-> t.op, step |-> t.step, outcome |-> outcome,
                   run_outcome |-> RunOutcome(t.step, outcome)]
  <2>1. /\ t # None /\ t.pc = "read"
        /\ txn' = [txn EXCEPT ![h] = d] /\ UNCHANGED vars /\ UNCHANGED overlapped
    BY <1>4 DEF Decide
  <2>2. t.step \in Steps /\ t.status \in Statuses
    BY <2>1 DEF RCInv, Txn
  <2>3. outcome = "pending" => t.attempt <= plan.retry_count[t.step]
    BY <2>2, OutcomeCases
  <2>4. ~overlapped => t.attempt = attempt[t.step]
    BY <2>1 DEF SerialInv, ReadsAreFresh, InTxn
  <2> HIDE DEF outcome
  <2>5. /\ d.pc = "decided" /\ d.step = t.step /\ d.outcome = outcome
        /\ d.run_outcome = RunOutcome(d.step, d.outcome)
    OBVIOUS
  <2> HIDE DEF d
  <2> QED
    BY <2>1, <2>3, <2>4, <2>5, ReadIsFresh
<1>5. CASE \E h \in Handlers : WriteBack(h)
  BY <1>5, LoneWriteIsSound
<1>6. CASE LockedRequest
  BY <1>6, LoneRequestIsSound
<1>7. CASE /\ (\E a \in Agents : EndBatch(a)) \/ UNCHANGED vars
           /\ UNCHANGED <<txn, overlapped>>
  <2>1. UNCHANGED <<plan, state, attempt, run_state, txn, overlapped>>
    BY <1>7 DEF EndBatch, vars
  <2> QED
    BY <2>1 DEF SerialInv, RunIsSound, RetryBudget, PendingHasBudget, DoneRunIsClosed,
                LiveRunHasWork, ReadsAreFresh, InTxn, RunOutcome, NextRunState
<1> QED
  BY <1>2, <1>3, <1>4, <1>5, <1>6, <1>7 DEF RCNext, rcVars

(* complete_step, mark_reboot_complete, _next_run_state: the state of the  *)
(* run and the retry budgets go wrong only when a row was written between  *)
(* the unlocked reads of a handler and its UPDATEs, for any number of      *)
(* handlers and whatever results are late or repeated.                     *)
THEOREM SoundUnlessOverlappedHolds == RCSpec => []SoundUnlessOverlapped
<1>1. SerialInv => SoundUnlessOverlapped
  BY DEF SerialInv, RunIsSound, SoundUnlessOverlapped
<1> QED
  BY <1>1, SerialInvInit, SerialInvNext, RCInvInit, RCInvNext, PTL DEF RCSpec

=============================================================================
