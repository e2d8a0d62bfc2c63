------------------------------ MODULE TaskEngine ------------------------------
(***************************************************************************)
(* The server side of the Task Sequence Engine v2 (web/ts_engine_pg.py and *)
(* the agent endpoints of web/osd_v2_endpoints.py) for one provisioning    *)
(* run: the rows of ts_run_plan_steps, the row of ts_provisioning_runs,    *)
(* and one action per request handler, each run as one transaction.        *)
(*                                                                         *)
(* Agents are the environment: an agent may report a result for any step   *)
(* it was ever handed, at any time and as often as it likes.  That covers  *)
(* late, duplicated and reordered results; a lost one is a result that is  *)
(* never posted.  The real agents are modelled in OsdAgents.               *)
(***************************************************************************)
EXTENDS Integers, FiniteSets

CONSTANTS
    Agents,      \* the agent ids that register for the run
    Controller,  \* agent_id of the controller's own step updates
    Phases,      \* execution phases an agent can claim for
    Kinds,       \* step kinds
    NumSteps,    \* number of rows of the run plan; a step is its ordinal
    Plans,       \* the run plans considered
    Supported,   \* Supported[a]: capabilities agent a sends (empty: no filter)
    None         \* SQL NULL

Steps == 1..NumSteps

RebootBehaviors == {"none", "optional", "required", "deferred"}

(* The immutable columns of the run plan, fixed when the run is created.   *)
PlanType ==
    [phase             : [Steps -> Phases \cup {"any"}],
     kind              : [Steps -> Kinds],
     enabled           : [Steps -> BOOLEAN],
     retry_count       : [Steps -> Nat],
     reboot_behavior   : [Steps -> RebootBehaviors],
     continue_on_error : [Steps -> BOOLEAN]]

ASSUME StepsAssumption == NumSteps \in Nat \ {0}

ASSUME AgentsAssumption ==
    /\ Controller \notin Agents
    /\ None \notin Agents \cup {Controller}
    /\ None \notin Steps
    /\ Supported \in [Agents -> SUBSET Kinds]

(* A run whose steps are all disabled or excluded is never picked up by    *)
(* any handler; it is left out (see the README).                           *)
ASSUME PlansAssumption ==
    /\ Plans \subseteq PlanType
    /\ \A p \in Plans : \E s \in Steps : p.enabled[s]

StepStates == {"pending", "running", "awaiting_reboot", "done", "skipped", "failed"}

OpenStates == {"pending", "running", "awaiting_reboot"}

Statuses == {"success", "skipped", "reboot_required", "failed"}

(* running_<phase> is one state here: no handler reads the phase back.     *)
RunStates == {"queued", "running", "awaiting_reboot", "done", "failed"}

TerminalRunStates == {"done", "failed"}

VARIABLES
    plan,        \* the compiled run plan
    state,       \* ts_run_plan_steps.state
    attempt,     \* ts_run_plan_steps.attempt
    claimed_by,  \* ts_run_plan_steps.claimed_by
    run_state,   \* ts_provisioning_runs.state
    cursor,      \* ts_provisioning_runs.cursor_step_id
    batch,       \* batch[a]: phase of a's /agent/next request that has claimed
                 \*   at least one step and may claim more, else None
    handed       \* handed[a]: the steps ever returned to agent a

vars == <<plan, state, attempt, claimed_by, run_state, cursor, batch, handed>>

-----------------------------------------------------------------------------
(* create_run_from_version: every plan row pending, or skipped if disabled *)
(* or its condition does not match.                                        *)
Init ==
    /\ plan \in Plans
    /\ state = [s \in Steps |-> IF plan.enabled[s] THEN "pending" ELSE "skipped"]
    /\ attempt = [s \in Steps |-> 0]
    /\ claimed_by = [s \in Steps |-> None]
    /\ run_state = "queued"
    /\ cursor = None
    /\ batch = [a \in Agents |-> None]
    /\ handed = [a \in Agents |-> {}]

-----------------------------------------------------------------------------
(* Claiming                                                                *)

VisibleTo(p, s) == plan.phase[s] \in {p, "any"}

(* Mutant of Blocks: a row nobody has started yet does not block.          *)
BlocksStartedOnly(t, a, allow) ==
    \/ state[t] \in {"awaiting_reboot", "failed"}
    \/ state[t] = "running" /\ ~(allow /\ claimed_by[t] = a)

(* Mutant of Blocks: a row being worked on does not block.                 *)
BlocksIdleOnly(t, a, allow) == state[t] \in {"pending", "awaiting_reboot", "failed"}

(* An earlier row that keeps a later one of the phase from being claimed.  *)
Blocks(t, a, allow) ==
    \/ state[t] \in {"pending", "awaiting_reboot", "failed"}
    \/ state[t] = "running" /\ ~(allow /\ claimed_by[t] = a)

(* Mutant of Claimable: the capability filter also hides earlier rows.     *)
ClaimableSkipsUnsupported(a, p, allow, s) ==
    /\ run_state \notin TerminalRunStates
    /\ state[s] = "pending"
    /\ VisibleTo(p, s)
    /\ Supported[a] # {} => plan.kind[s] \in Supported[a]
    /\ \A t \in Steps :
          t < s /\ VisibleTo(p, t) /\ (Supported[a] # {} => plan.kind[t] \in Supported[a])
              => ~Blocks(t, a, allow)

Claimable(a, p, allow, s) ==
    /\ run_state \notin TerminalRunStates
    /\ state[s] = "pending"
    /\ VisibleTo(p, s)
    /\ \A t \in Steps : t < s /\ VisibleTo(p, t) => ~Blocks(t, a, allow)
    /\ Supported[a] # {} => plan.kind[s] \in Supported[a]

ClaimNextStep(a, p, allow) ==
    \E s \in Steps :
        /\ Claimable(a, p, allow, s)
        /\ state' = [state EXCEPT ![s] = "running"]
        /\ attempt' = [attempt EXCEPT ![s] = @ + 1]
        /\ claimed_by' = [claimed_by EXCEPT ![s] = a]
        /\ run_state' = "running"
        /\ cursor' = s
        /\ handed' = [handed EXCEPT ![a] = @ \cup {s}]
        /\ UNCHANGED plan

(* POST /agent/next: the first claim of the batch, then claims that may    *)
(* overtake the agent's own running steps, then the response.  Each claim  *)
(* commits on its own, so other requests come in between.                  *)
NextAction(a, p) ==
    /\ batch[a] = None
    /\ ClaimNextStep(a, p, FALSE)
    /\ batch' = [batch EXCEPT ![a] = p]

ClaimMore(a) ==
    /\ batch[a] # None
    /\ ClaimNextStep(a, batch[a], TRUE)
    /\ UNCHANGED batch

EndBatch(a) ==
    /\ batch[a] # None
    /\ batch' = [batch EXCEPT ![a] = None]
    /\ UNCHANGED <<plan, state, attempt, claimed_by, run_state, cursor, handed>>

-----------------------------------------------------------------------------
(* Results                                                                 *)

(* Mutant of NextRunState: a step waiting for its reboot is not counted.   *)
NextRunStateNoReboot(others) ==
    IF \E t \in others : state[t] \in {"pending", "running"} THEN "queued" ELSE "done"

(* _next_run_state: failed steps do not count.                             *)
NextRunState(others) ==
    IF \E t \in others : state[t] \in OpenStates THEN "queued" ELSE "done"

(* Mutants of StepOutcome: one retry too many; an outcome no reader knows. *)
StepOutcomeExtraRetry(s, status, att) ==
    CASE status = "success" ->
             IF plan.reboot_behavior[s] = "required" THEN "awaiting_reboot" ELSE "done"
      [] status = "skipped" -> "skipped"
      [] status = "reboot_required" -> "awaiting_reboot"
      [] status = "failed" ->
             IF att <= plan.retry_count[s] + 1 THEN "pending" ELSE "failed"

StepOutcomeWarning(s, status, att) ==
    CASE status = "success" ->
             IF plan.reboot_behavior[s] = "required" THEN "awaiting_reboot" ELSE "done"
      [] status = "skipped" -> "skipped"
      [] status = "reboot_required" -> "awaiting_reboot"
      [] status = "failed" ->
             IF plan.continue_on_error[s] THEN "warning" ELSE "failed"

(* complete_step: the new state of the step, from the attempt it read ...  *)
StepOutcome(s, status, att) ==
    CASE status = "success" ->
             IF plan.reboot_behavior[s] = "required" THEN "awaiting_reboot" ELSE "done"
      [] status = "skipped" -> "skipped"
      [] status = "reboot_required" -> "awaiting_reboot"
      [] status = "failed" ->
             IF att <= plan.retry_count[s] THEN "pending" ELSE "failed"

(* Mutant of RunOutcome: every failure is treated as one to continue from. *)
RunOutcomeToleratesAll(s, outcome) ==
    CASE outcome = "awaiting_reboot" -> "awaiting_reboot"
      [] outcome = "pending" -> "running"
      [] OTHER -> NextRunState(Steps \ {s})

(* ... and the new state of the run.                                       *)
RunOutcome(s, outcome) ==
    CASE outcome = "awaiting_reboot" -> "awaiting_reboot"
      [] outcome = "pending" -> "running"
      [] outcome = "failed" /\ ~plan.continue_on_error[s] -> "failed"
      [] OTHER -> NextRunState(Steps \ {s})

(* A failure report for a step that already awaits its reboot is dropped.  *)
LateFailureIgnored(s, status) == status = "failed" /\ state[s] = "awaiting_reboot"

CompleteStep(s, status) ==
    LET outcome == StepOutcome(s, status, attempt[s])
    IN  /\ ~LateFailureIgnored(s, status)
        /\ state' = [state EXCEPT ![s] = outcome]
        /\ claimed_by' = [claimed_by EXCEPT ![s] = IF outcome = "pending" THEN None ELSE @]
        /\ run_state' = RunOutcome(s, outcome)
        /\ cursor' = s
        /\ UNCHANGED <<plan, attempt, batch, handed>>

(* POST /agent/step/{id}/result, with its phase check.                     *)
PostStepResult(a, p, s, status) ==
    /\ s \in handed[a]
    /\ VisibleTo(p, s)
    /\ CompleteStep(s, status)

(* POST /agent/rebooting has no phase check.                               *)
PostRebooting(a, s) ==
    /\ s \in handed[a]
    /\ CompleteStep(s, "reboot_required")

-----------------------------------------------------------------------------
(* Resuming                                                                *)

MarkRebootComplete(s) ==
    /\ state[s] = "awaiting_reboot"
    /\ state' = [state EXCEPT ![s] = "done"]
    /\ run_state' = NextRunState(Steps \ {s})
    /\ cursor' = s
    /\ UNCHANGED <<plan, attempt, claimed_by, batch, handed>>

(* POST /agent/register: any registration completes the cursor's reboot.   *)
RegisterAgent(a) ==
    /\ cursor # None
    /\ MarkRebootComplete(cursor)

-----------------------------------------------------------------------------
(* The controller and the operator                                         *)

(* mark_steps_done_by_kind: closes every step of the kinds, whatever its   *)
(* state, and the run when nothing is left (failed steps count here).      *)
MarkStepsDoneByKind(kinds) ==
    LET marked == {s \in Steps : plan.kind[s] \in kinds /\ state[s] # "done"}
        left   == {s \in Steps \ marked : state[s] \in OpenStates \cup {"failed"}}
        closes == left = {} /\ run_state # "failed"
    IN  /\ kinds # {}
        /\ state' = [s \in Steps |-> IF s \in marked THEN "done" ELSE state[s]]
        /\ claimed_by' = [s \in Steps |->
              IF s \in marked /\ claimed_by[s] = None THEN Controller ELSE claimed_by[s]]
        /\ run_state' = IF closes THEN "done" ELSE run_state
        /\ cursor' = IF closes /\ cursor = None THEN NumSteps ELSE cursor
        /\ UNCHANGED <<plan, attempt, batch, handed>>

(* The callers name a set of phases or leave them open.                    *)
PhaseFilters == ((SUBSET Phases) \ {{}}) \cup {Phases \cup {"any"}}

(* _complete_ubuntu_v2_steps: complete_step(success) on every matching row *)
(* that is pending or running, in ordinal order.  The last one decides     *)
(* the state of the run.  The calls commit one by one; they are one step   *)
(* here, so no other request comes between two of them.                    *)
CompleteUbuntuSteps(kinds, phases) ==
    LET matched == {s \in Steps : /\ state[s] \in {"pending", "running"}
                                  /\ plan.kind[s] \in kinds
                                  /\ plan.phase[s] \in phases}
        outcome == [s \in Steps |->
                      IF s \in matched THEN StepOutcome(s, "success", attempt[s])
                                       ELSE state[s]]
    IN  \E last \in matched :
            /\ \A s \in matched : s <= last
            /\ state' = outcome
            /\ run_state' =
                  IF outcome[last] = "awaiting_reboot" THEN "awaiting_reboot"
                  ELSE IF \E s \in Steps \ {last} : outcome[s] \in OpenStates
                       THEN "queued" ELSE "done"
            /\ cursor' = last
            /\ UNCHANGED <<plan, attempt, claimed_by, batch, handed>>

RequeueStep(s) ==
    /\ state[s] = "failed"
    /\ state' = [state EXCEPT ![s] = "pending"]
    /\ attempt' = [attempt EXCEPT ![s] = 0]
    /\ claimed_by' = [claimed_by EXCEPT ![s] = None]
    /\ run_state' = "running"
    /\ cursor' = None
    /\ UNCHANGED <<plan, batch, handed>>

-----------------------------------------------------------------------------
Next ==
    \/ \E a \in Agents, p \in Phases : NextAction(a, p)
    \/ \E a \in Agents : ClaimMore(a) \/ EndBatch(a) \/ RegisterAgent(a)
    \/ \E a \in Agents, p \in Phases, s \in Steps, status \in Statuses :
           PostStepResult(a, p, s, status)
    \/ \E a \in Agents, s \in Steps : PostRebooting(a, s)
    \/ \E kinds \in SUBSET Kinds : MarkStepsDoneByKind(kinds)
    \/ \E kinds \in SUBSET Kinds, phases \in PhaseFilters :
           CompleteUbuntuSteps(kinds, phases)
    \/ \E s \in Steps : RequeueStep(s)

Spec == Init /\ [][Next]_vars

-----------------------------------------------------------------------------
(* Properties                                                              *)

(* Types of the rows and of the requests in progress.                      *)
TypeOK ==
    /\ plan \in Plans
    /\ state \in [Steps -> StepStates]
    /\ attempt \in [Steps -> Nat]
    /\ claimed_by \in [Steps -> Agents \cup {Controller, None}]
    /\ run_state \in RunStates
    /\ cursor \in Steps \cup {None}
    /\ batch \in [Agents -> Phases \cup {None}]
    /\ handed \in [Agents -> SUBSET Steps]

(* complete_step and claim_next_step: however results are repeated,        *)
(* delayed or reordered, a step is attempted at most retry_count + 1 times *)
(* between two operator requeues.                                          *)
RetryBudget == \A s \in Steps : attempt[s] <= plan.retry_count[s] + 1

(* _next_run_state, mark_steps_done_by_kind: a run reported done has no    *)
(* step left that an agent could still claim, run or reboot for.  True of  *)
(* handlers that do not overlap; TaskEngineRC has those that do.           *)
DoneRunIsClosed ==
    run_state = "done" => \A s \in Steps : state[s] \notin OpenStates

(* The converse: a run that is not finished has a step that explains why.  *)
(* A run stuck in queued with every step closed would never be picked up.  *)
(* Handlers that overlap break it (TaskEngineRC).                          *)
LiveRunHasWork ==
    run_state \notin TerminalRunStates =>
        \E s \in Steps : state[s] \in OpenStates \cup {"failed"}

(* ordinals are respected across claims: once a step was handed out, every *)
(* earlier step an agent of that phase can see was handed out before it,   *)
(* or was closed without an agent, and stays so.                           *)
PlanOrder ==
    \A a \in Agents, s \in Steps : s \in handed[a] =>
        \A t \in Steps : t < s /\ plan.phase[t] \in {plan.phase[s], "any"} =>
            \/ \E b \in Agents : t \in handed[b]
            \/ state[t] \in {"done", "skipped"}
=============================================================================
