------------------------------ MODULE OsdeployRun ------------------------------
(***************************************************************************)
(* An OSDeploy server deployment (web/osdeploy_pg.py, osdeploy_roles.py):  *)
(* the row of osdeploy_runs, its readiness row, the Lab in a Box bundle it *)
(* belongs to and the generated plan, run by the task engine this module   *)
(* extends.                                                                *)
(*                                                                         *)
(* Five writers share those rows: the provision playbook and the builder   *)
(* that runs it, the PE bridge, the agent's heartbeats, the agent's step   *)
(* results, and the other children of the bundle.  PostgreSQL runs them at *)
(* READ COMMITTED, so what a handler read may be stale when it writes.     *)
(***************************************************************************)
EXTENDS TaskEngine, Sequences

CONSTANTS
    ServerRole,   \* "base", "file_server", "isolated_domain_controller" or
                  \*   "mecm_prereq"
    DomainJoin,   \* the role options enable a domain join
    Siblings,     \* the other children of the bundle: none, or two
    MaxFaults     \* bound on failed jobs, agent failures, late results, repeated
                  \*   registrations, builder restarts and handlers cut off

RoleStepKinds(role) ==
    CASE role = "file_server" -> <<"configure_file_server_role">>
      [] role = "isolated_domain_controller" ->
             <<"configure_isolated_domain_controller_role",
               "verify_isolated_domain_controller_role">>
      [] role = "mecm_prereq" -> <<"configure_mecm_prereq_role">>
      [] OTHER -> <<>>

GeneratedStepKinds ==
    (IF DomainJoin THEN <<"join_domain_role", "verify_ad_domain_join">> ELSE <<>>)
    \o RoleStepKinds(ServerRole)

FinalRoleStepKind ==
    LET kinds == RoleStepKinds(ServerRole)
    IN  IF kinds = <<>> THEN None ELSE kinds[Len(kinds)]

(* The PE events the bridge posts, in order, and the steps each closes.    *)
PeEventKinds ==
    <<{"osdeploy_preflight"}, {"apply_wim"}, {"apply_driver_package"},
      {"prepare_windows_setup", "stage_osd_client", "stage_autopilot_agent"},
      {"bake_boot_entry"}>>

PeKinds == UNION {PeEventKinds[i] : i \in 1..Len(PeEventKinds)}

RunSequence ==
    <<"osdeploy_preflight", "apply_wim", "apply_driver_package",
      "prepare_windows_setup", "bake_boot_entry", "stage_osd_client",
      "stage_autopilot_agent", "install_qga", "verify_qga",
      "install_qga_watchdog", "install_autopilot_agent">>
    \o GeneratedStepKinds \o <<"wait_agent_heartbeat">>

RoleActionKinds == {GeneratedStepKinds[i] : i \in 1..Len(GeneratedStepKinds)}

AllKinds == {RunSequence[i] : i \in 1..Len(RunSequence)}

CreateSequenceForRun ==
    [phase             |-> [s \in Steps |-> IF RunSequence[s] \in PeKinds
                                            THEN "pe" ELSE "full_os"],
     kind              |-> [s \in Steps |-> RunSequence[s]],
     enabled           |-> [s \in Steps |-> TRUE],
     retry_count       |-> [s \in Steps |-> IF RunSequence[s] = "wait_agent_heartbeat"
                                            THEN 60 ELSE 0],
     reboot_behavior   |-> [s \in Steps |->
         IF RunSequence[s] \in {"configure_isolated_domain_controller_role",
                                "join_domain_role"}
         THEN "required" ELSE "none"],
     continue_on_error |-> [s \in Steps |-> FALSE]]

ASSUME OsdeployAssumption ==
    /\ ServerRole \in {"base", "file_server", "isolated_domain_controller", "mecm_prereq"}
    /\ DomainJoin \in BOOLEAN
    /\ MaxFaults \in Nat
    /\ NumSteps = Len(RunSequence)
    /\ Plans = {CreateSequenceForRun}
    /\ Phases = {"pe", "full_os"}
    /\ Kinds = AllKinds

OsdStates ==
    {"created", "awaiting_pe", "pe_registered", "role_pending", "complete", "failed"}

VARIABLES
    dstate,     \* osdeploy_runs.state
    readiness,  \* osdeploy_readiness.state; server_role_status follows it
    errors,     \* osdeploy_readiness.errors_json is not empty
    bundle,     \* osdeploy_role_bundles.state
    sibling,    \* osdeploy_runs.state of the bundle's other children
    served,     \* the other children whose role was really configured
    job,        \* where the provision playbook is
    failEvent,  \* the run has a provision_job_failed event of the job
    peDone,     \* how many of the PE events were posted
    os,         \* what the machine runs: "off", "pe" or "full_os"
    did,        \* the role steps the machine really went through
    rpc,        \* where the registration of the PE is
    hb,         \* where the handler of a heartbeat is
    apc, seen,  \* the result handler, and the states of the others it read
    bpc,        \* the builder's finalizer
    spc, sseen, \* the same of the others' result handlers
    faults

engineVars == vars
rowVars == <<dstate, readiness, errors>>
siblingVars == <<sibling, served, spc, sseen>>
bundleVars == <<bundle, siblingVars>>
jobVars == <<job, failEvent, bpc>>
machineVars == <<peDone, os, did, rpc>>
agentVars == <<apc, seen>>
osdVars == <<vars, rowVars, bundleVars, jobVars, machineVars, hb, agentVars, faults>>

(* create_lab_bundle, or create_run outside a bundle: the engine's run row *)
(* is overwritten at once.                                                 *)
OsdInit ==
    /\ plan \in Plans
    /\ state = [s \in Steps |-> "pending"]
    /\ attempt = [s \in Steps |-> 0]
    /\ claimed_by = [s \in Steps |-> None]
    /\ run_state = "osdeploy_created"
    /\ cursor = None
    /\ batch = [a \in Agents |-> None]
    /\ handed = [a \in Agents |-> {}]
    /\ dstate = "created"
    /\ readiness = "waiting_for_heartbeat"
    /\ errors = FALSE
    /\ bundle = "created"
    /\ sibling = [c \in Siblings |-> "created"]
    /\ served = {}
    /\ job = "none"
    /\ failEvent = FALSE
    /\ peDone = 0
    /\ os = "off"
    /\ did = {}
    /\ rpc = "idle"
    /\ hb = "idle"
    /\ apc = "idle"
    /\ seen = None
    /\ bpc = "idle"
    /\ spc = [c \in Siblings |-> "idle"]
    /\ sseen = [c \in Siblings |-> None]
    /\ faults = 0

-----------------------------------------------------------------------------
SetEngineState(s) ==
    /\ run_state' = s
    /\ UNCHANGED <<plan, state, attempt, claimed_by, cursor, batch, handed>>

StepsOf(kind) == {s \in Steps : plan.kind[s] = kind}

FinalRoleStepDone == \E s \in StepsOf(FinalRoleStepKind) : state[s] = "done"

Fault == faults < MaxFaults /\ faults' = faults + 1

(* Mutant of SyncBundleState: one complete child is enough.                *)
SyncBundleStateAny(states) ==
    CASE \E s \in states : s = "failed" -> "failed"
      [] \E s \in states : s = "complete" -> "complete"
      [] \E s \in states : s # "created" -> "running"
      [] OTHER -> "created"

(* _sync_bundle_state_for_child: the bundle's state from its children's.   *)
SyncBundleState(states) ==
    CASE \E s \in states : s = "failed" -> "failed"
      [] \A s \in states : s = "complete" -> "complete"
      [] \E s \in states : s # "created" -> "running"
      [] OTHER -> "created"

Others == {sibling[c] : c \in Siblings}

-----------------------------------------------------------------------------
(* The provision playbook                                                  *)

(* POST /runs/{id}/provision, and the builder that claims the job.         *)
ProvisionRun ==
    /\ job = "none"
    /\ job' = "clone"
    /\ UNCHANGED <<engineVars, rowVars, bundleVars, failEvent, bpc, machineVars, hb,
                   agentVars, faults>>

(* The clone reports its identity and is started from the OSDeploy ISO.    *)
SetRunIdentity ==
    /\ job = "clone"
    /\ job' = "wait_pe"
    /\ os' = "pe"
    /\ dstate' = IF dstate = "created" THEN "awaiting_pe" ELSE dstate
    /\ SetEngineState(IF run_state = "osdeploy_created" THEN "osdeploy_awaiting_pe"
                                                        ELSE run_state)
    /\ UNCHANGED <<readiness, errors, bundleVars, failEvent, bpc, peDone, did, rpc, hb,
                   agentVars, faults>>

(* A task of the playbook fails, a wait runs out of retries, or the job is *)
(* killed or reaped: finalize_job, then _finalize_related_deployment.      *)
JobFails ==
    /\ job' = "failed"
    /\ bpc' = "related"
    /\ UNCHANGED failEvent

JobGivesUp ==
    /\ job \notin {"none", "ok", "failed"}
    /\ bpc = "idle"
    /\ Fault
    /\ JobFails
    /\ UNCHANGED <<engineVars, rowVars, bundleVars, machineVars, hb, agentVars>>

(* A wait of the playbook ends with what it polled.                        *)
JobWaits(at, seenStates, next) ==
    /\ job = at
    /\ dstate \in seenStates
    /\ IF dstate = "failed" THEN bpc = "idle" /\ JobFails
                            ELSE job' = next /\ UNCHANGED <<failEvent, bpc>>

JobSeesPe ==
    /\ JobWaits("wait_pe", {"pe_registered", "complete", "failed"}, "wait_pe_done")
    /\ UNCHANGED <<engineVars, rowVars, bundleVars, machineVars, hb, agentVars, faults>>

(* PE is over: the ISOs are detached and Windows is started from the disk. *)
JobBootsDisk ==
    /\ \/ JobWaits("wait_pe_done", {"complete", "failed"}, "wait_complete")
       \/ /\ peDone = Len(PeEventKinds)
          /\ JobWaits("wait_pe_done", OsdStates, "wait_complete")
    /\ os' = IF job' = "failed" THEN os ELSE "full_os"
    /\ UNCHANGED <<engineVars, rowVars, bundleVars, peDone, did, rpc, hb, agentVars,
                   faults>>

JobSeesOutcome ==
    /\ JobWaits("wait_complete", {"complete", "failed"}, "ok")
    /\ UNCHANGED <<engineVars, rowVars, bundleVars, machineVars, hb, agentVars, faults>>

-----------------------------------------------------------------------------
(* The builder: mark_failed_from_job                                       *)

(* Its reads: a run that is complete is left alone, and so is a failed one *)
(* that already has the job's event.                                       *)
ReadForFailure ==
    /\ bpc = "related"
    /\ bpc' = IF dstate = "complete" \/ (dstate = "failed" /\ failEvent)
              THEN "idle" ELSE "write"
    /\ UNCHANGED <<engineVars, rowVars, bundleVars, job, failEvent, machineVars, hb,
                   agentVars, faults>>

(* Mutant of MarkFailedFromJob: the update trusts the state it read.       *)
MarkFailedFromJobUnguarded ==
    /\ bpc = "write"
    /\ bpc' = "idle"
    /\ dstate' = "failed"
    /\ SetEngineState(IF run_state = "done" THEN "done" ELSE "failed")
    /\ readiness' = "failed"
    /\ errors' = TRUE
    /\ bundle' = SyncBundleState({dstate'} \cup Others)
    /\ failEvent' = TRUE
    /\ UNCHANGED <<siblingVars, job, machineVars, hb, agentVars, faults>>

(* Its writes: only the run row is guarded again.                          *)
MarkFailedFromJob ==
    /\ bpc = "write"
    /\ bpc' = "idle"
    /\ dstate' = IF dstate = "complete" THEN dstate ELSE "failed"
    /\ SetEngineState(IF run_state = "done" THEN "done" ELSE "failed")
    /\ readiness' = "failed"
    /\ errors' = TRUE
    /\ bundle' = SyncBundleState({dstate'} \cup Others)
    /\ failEvent' = (failEvent \/ dstate # "complete")
    /\ UNCHANGED <<siblingVars, job, machineVars, hb, agentVars, faults>>

(* reconcile_failed_related_deployments, when a builder starts.            *)
ReconcileFailedRelatedDeployments ==
    /\ Fault
    /\ bpc = "idle"
    /\ job = "failed"
    /\ bpc' = "related"
    /\ UNCHANGED <<engineVars, rowVars, bundleVars, job, failEvent, machineVars, hb,
                   agentVars>>

-----------------------------------------------------------------------------
(* The PE bridge                                                           *)

(* POST /pe/register: find_run_by_identity only finds a run that is not    *)
(* past this point.  The PE repeats a request that was not answered.       *)
RegisterPeByIdentity ==
    /\ rpc = "idle"
    /\ os = "pe"
    /\ dstate \in {"awaiting_pe", "created", "pe_registered"}
    /\ rpc' = "found"
    /\ IF peDone = 0 THEN UNCHANGED faults ELSE Fault
    /\ UNCHANGED <<engineVars, rowVars, bundleVars, jobVars, peDone, os, did, hb, agentVars>>

(* POST /runs/{id}/pe/register, which no script of the repository sends:   *)
(* the run is named, and nothing is asked about its state.                 *)
RegisterPe ==
    /\ rpc = "idle"
    /\ rpc' = "found"
    /\ Fault
    /\ UNCHANGED <<engineVars, rowVars, bundleVars, jobVars, peDone, os, did, hb, agentVars>>

(* mark_pe_registered does not ask again, however late it comes ...        *)
MarkPeRegistered ==
    /\ rpc = "found"
    /\ rpc' = "event"
    /\ dstate' = "pe_registered"
    /\ SetEngineState("osdeploy_pe_registered")
    /\ UNCHANGED <<readiness, errors, bundleVars, jobVars, peDone, os, did, hb, agentVars,
                   faults>>

(* ... and appends its event in a transaction of its own.                  *)
AppendRegistered ==
    /\ rpc = "event"
    /\ rpc' = "idle"
    /\ peDone' = IF os = "pe" /\ peDone = 0 THEN 1 ELSE peDone
    /\ MarkStepsDoneByKind(PeEventKinds[1])
    /\ UNCHANGED <<rowVars, bundleVars, jobVars, os, did, hb, agentVars, faults>>

(* POST /runs/{id}/events: only the steps move, whatever the run's state.  *)
AppendEvent ==
    /\ os = "pe"
    /\ peDone \in 1..(Len(PeEventKinds) - 1)
    /\ peDone' = peDone + 1
    /\ MarkStepsDoneByKind(PeEventKinds[peDone + 1])
    /\ UNCHANGED <<rowVars, bundleVars, jobVars, os, did, rpc, hb, agentVars, faults>>

-----------------------------------------------------------------------------
(* mark_complete_from_heartbeat                                            *)

(* Mutant of HeartbeatKinds: the role's own steps are closed as well.      *)
HeartbeatKindsAll == AllKinds

HeartbeatKinds ==
    IF ServerRole = "base" THEN AllKinds ELSE AllKinds \ RoleActionKinds

(* Its first transaction: reads the run and closes the base's steps.       *)
HeartbeatArrives ==
    /\ os = "full_os"
    /\ hb = "idle"
    /\ MarkStepsDoneByKind(HeartbeatKinds)
    /\ hb' = IF dstate = "complete" THEN "was_complete" ELSE "was_open"
    /\ UNCHANGED <<rowVars, bundleVars, jobVars, machineVars, agentVars, faults>>

(* Mutant of RoleReady: the steps are not looked at.                       *)
RoleReadyByRows == ServerRole = "base" \/ hb = "was_complete" \/ readiness = "complete"

RoleReady ==
    \/ ServerRole = "base" \/ hb = "was_complete"
    \/ readiness = "complete" \/ FinalRoleStepDone

(* Its reads of the readiness row and of the final role step ...           *)
HeartbeatDecides ==
    /\ hb \in {"was_complete", "was_open"}
    /\ hb' = IF RoleReady THEN "writes_complete" ELSE "writes_pending"
    /\ UNCHANGED <<engineVars, rowVars, bundleVars, jobVars, machineVars, agentVars, faults>>

(* ... and its writes, whatever the run row says by then.                  *)
HeartbeatWrites ==
    LET ready == hb = "writes_complete"
    IN  /\ hb \in {"writes_complete", "writes_pending"}
        /\ hb' = "idle"
        /\ dstate' = IF ready THEN "complete" ELSE "role_pending"
        /\ readiness' = dstate'
        /\ errors' = FALSE
        /\ SetEngineState(IF run_state = "failed" THEN "failed"
                          ELSE IF ready THEN "done" ELSE "role_pending")
        /\ UNCHANGED <<bundleVars, jobVars, machineVars, agentVars, faults>>

-----------------------------------------------------------------------------
(* The agent and its results                                               *)

AgentClaims(a) ==
    /\ os = "full_os"
    /\ apc = "idle"
    /\ ClaimNextStep(a, "full_os", FALSE)
    /\ UNCHANGED <<batch, rowVars, bundleVars, jobVars, machineVars, hb, agentVars, faults>>

AgentWorks(a, s) ==
    /\ os = "full_os"
    /\ s \in handed[a]
    /\ state[s] = "running"
    /\ plan.kind[s] \notin did
    /\ did' = did \cup {plan.kind[s]}
    /\ UNCHANGED <<engineVars, rowVars, bundleVars, jobVars, peDone, os, rpc, hb, agentVars,
                   faults>>

AgentRestarts(a) ==
    /\ os = "full_os"
    /\ RegisterAgent(a)
    /\ UNCHANGED <<rowVars, bundleVars, jobVars, machineVars, hb, agentVars, faults>>

RoleKinds == {RoleStepKinds(ServerRole)[i] : i \in 1..Len(RoleStepKinds(ServerRole))}

(* The result of the step the agent works on, or a late one.  Only role    *)
(* steps are synced, and a success only when it is the final one.          *)
AgentPosts(a, s, status) ==
    LET late == state[s] # "running" \/ claimed_by[s] # a
    IN  /\ os = "full_os"
        /\ apc = "idle"
        /\ status \in {"success", "failed"}
        /\ status = "success" => plan.kind[s] \in did
        /\ PostStepResult(a, "full_os", s, status)
        /\ IF late \/ status = "failed" THEN Fault ELSE UNCHANGED faults
        /\ apc' = CASE status = "success" /\ plan.kind[s] = FinalRoleStepKind -> "success"
                    [] status = "failed" /\ state'[s] = "failed"
                           /\ plan.kind[s] \in RoleKinds -> "failed"
                    [] OTHER -> "idle"
        /\ UNCHANGED <<rowVars, bundleVars, jobVars, machineVars, hb, seen>>

(* mark_role_step_result reads the bundle's other children ...             *)
RoleResultReads ==
    /\ apc \in {"success", "failed"}
    /\ seen = None
    /\ seen' = Others
    /\ UNCHANGED <<engineVars, rowVars, bundleVars, jobVars, machineVars, hb, apc, faults>>

(* ... and commits the three rows and the bundle's.                        *)
MarkRoleStepResult ==
    /\ apc \in {"success", "failed"}
    /\ seen # None
    /\ dstate' = IF apc = "success" THEN "complete" ELSE "failed"
    /\ readiness' = dstate'
    /\ errors' = (apc = "failed")
    /\ SetEngineState(IF apc = "failed" \/ run_state = "failed" THEN "failed" ELSE "done")
    /\ bundle' = SyncBundleState({dstate'} \cup seen)
    /\ apc' = "idle"
    /\ seen' = None
    /\ UNCHANGED <<siblingVars, jobVars, machineVars, hb, faults>>

-----------------------------------------------------------------------------
(* The bundle's other children, at the detail the bundle sees of them      *)

(* What moves a child without the bundle: its registration, a heartbeat,   *)
(* which completes a child whose final role step is done, and one that     *)
(* finds the step failed again.                                            *)
SiblingMoves(c) ==
    /\ sibling' \in {[sibling EXCEPT ![c] = "role_pending"]}
                    \cup IF c \in served THEN {[sibling EXCEPT ![c] = "complete"]} ELSE {}
    /\ sibling' # sibling
    /\ UNCHANGED <<engineVars, rowVars, bundle, served, spc, sseen, jobVars, machineVars, hb,
                   agentVars, faults>>

(* mark_role_step_result of another child, or mark_failed_from_job of its  *)
(* job: a failed step's result, however late, fails a complete child too.  *)
SiblingReads(c) ==
    /\ spc[c] = "idle"
    /\ \/ /\ sibling[c] # "created"
          /\ c \notin served
          /\ spc' = [spc EXCEPT ![c] = "success"]
          /\ served' = served \cup {c}
          /\ UNCHANGED faults
       \/ spc' = [spc EXCEPT ![c] = "failed"] /\ Fault /\ UNCHANGED served
    /\ sseen' = [sseen EXCEPT ![c] = {dstate} \cup {sibling[d] : d \in Siblings \ {c}}]
    /\ UNCHANGED <<engineVars, rowVars, bundle, sibling, jobVars, machineVars, hb, agentVars>>

SiblingResult(c) ==
    LET outcome == IF spc[c] = "success" THEN "complete" ELSE "failed"
    IN  /\ spc[c] # "idle"
        /\ sibling' = [sibling EXCEPT ![c] = outcome]
        /\ bundle' = SyncBundleState({outcome} \cup sseen[c])
        /\ spc' = [spc EXCEPT ![c] = "idle"]
        /\ sseen' = [sseen EXCEPT ![c] = None]
        /\ UNCHANGED <<engineVars, rowVars, served, jobVars, machineVars, hb, agentVars,
                       faults>>

-----------------------------------------------------------------------------
(* An error in a finalizer is logged and swallowed, a database error in    *)
(* the sync after a step result too, and a restart looks the same.         *)
CutOff ==
    /\ Fault
    /\ \/ bpc # "idle" /\ bpc' = "idle" /\ UNCHANGED <<apc, seen, hb, rpc>>
       \/ apc # "idle" /\ apc' = "idle" /\ seen' = None /\ UNCHANGED <<bpc, hb, rpc>>
       \/ hb # "idle" /\ hb' = "idle" /\ UNCHANGED <<bpc, apc, seen, rpc>>
       \/ rpc # "idle" /\ rpc' = "idle" /\ UNCHANGED <<bpc, apc, seen, hb>>
    /\ UNCHANGED <<engineVars, rowVars, bundleVars, job, failEvent, peDone, os, did>>

JobStep ==
    \/ ProvisionRun \/ SetRunIdentity \/ JobGivesUp \/ JobSeesPe \/ JobBootsDisk
    \/ JobSeesOutcome

BuilderStep == ReadForFailure \/ MarkFailedFromJob

BridgeStep ==
    \/ RegisterPeByIdentity \/ RegisterPe \/ MarkPeRegistered \/ AppendRegistered
    \/ AppendEvent

HeartbeatStep == HeartbeatArrives \/ HeartbeatDecides \/ HeartbeatWrites

AgentStep ==
    \E a \in Agents : \/ AgentClaims(a) \/ AgentRestarts(a)
                      \/ \E s \in Steps : AgentWorks(a, s)
                      \/ \E s \in Steps, st \in Statuses : AgentPosts(a, s, st)

RoleResultStep == RoleResultReads \/ MarkRoleStepResult

SiblingStep ==
    \E c \in Siblings : SiblingMoves(c) \/ SiblingReads(c) \/ SiblingResult(c)

OsdNext ==
    \/ JobStep \/ BuilderStep \/ ReconcileFailedRelatedDeployments \/ BridgeStep
    \/ HeartbeatStep \/ AgentStep \/ RoleResultStep \/ SiblingStep \/ CutOff

(* The agent sends heartbeats for as long as the machine is up, and a      *)
(* request that was accepted is answered.                                  *)
OsdFairness ==
    /\ WF_osdVars(HeartbeatStep)
    /\ WF_osdVars(RoleResultStep)
    /\ WF_osdVars(BuilderStep)

OsdSpec == OsdInit /\ [][OsdNext]_osdVars /\ OsdFairness

-----------------------------------------------------------------------------
(* Properties                                                              *)

(* mark_complete_from_heartbeat, mark_role_step_result: whatever order     *)
(* heartbeats, results and job failures arrive in, a run that is reported  *)
(* complete belongs to an installed machine whose role was configured.     *)
CompleteIsEarned ==
    dstate = "complete" =>
        os = "full_os" /\ (ServerRole # "base" => FinalRoleStepKind \in did)

(* _sync_bundle_state_for_child: whichever of the children's states it     *)
(* read before they changed, a bundle that is reported complete had the    *)
(* role of every child configured (a base server is never in a bundle).    *)
(* It may hold a child that a late result has failed since.                *)
BundleIsEarned ==
    bundle = "complete" =>
        served = Siblings /\ (ServerRole # "base" => FinalRoleStepKind \in did)

(* mark_failed_from_job reads the run and fails it later: a run that was   *)
(* completed in between is only failed by its own final role step.         *)
LateJobFailureIsHarmless ==
    [][dstate = "complete" /\ dstate' = "failed" =>
         apc = "failed"]_osdVars

(* The result handler may lose the run's completion (its errors are        *)
(* swallowed) and a heartbeat or the builder may overwrite it: as long as  *)
(* the agent sends heartbeats a run whose final role step is done gets     *)
(* reported complete.                                                      *)
RoleDoneIsReported ==
    (FinalRoleStepDone /\ os = "full_os") ~> (dstate = "complete" \/ ~FinalRoleStepDone)
=============================================================================
