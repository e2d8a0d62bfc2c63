------------------------------ MODULE CloudOsdRun ------------------------------
(***************************************************************************)
(* A CloudOSD deployment: the row of cloudosd_runs and its evidence events *)
(* (web/cloudosd_pg.py, web/cloudosd_endpoints.py), the monitor's          *)
(* server-side executor of the full-OS steps (web/cloudosd_domain_join.py) *)
(* and the generated plan, run by the task engine this module extends.     *)
(*                                                                         *)
(* A CloudOSD run is driven by five processes that share the two rows: the *)
(* registration of the PE, the PE bridge and first boot script posting     *)
(* events, an operator's page views and retries, the agent's step results, *)
(* and the monitor.  What a handler does between two commits, or between a *)
(* check and an UPDATE that does not repeat it, is one step; pc says where *)
(* each is.                                                                *)
(***************************************************************************)
EXTENDS TaskEngine, Sequences

CONSTANTS
    DomainJoin,      \* "none", "unattend" (offline), "online" (a DC address is set)
    VerifyRetries,   \* retry_count of verify_ad_domain_join; 60 in the code
    CaptureRetries,  \* retry_count of capture_autopilot_hash; 2 in the code
    MaxFaults,       \* bound on agent failures, late results, error events and
                     \*   repeated registrations
    MaxRequeues,     \* bound on operator retries
    MaxCrashes       \* bound on handlers cut off between two commits

PeKinds ==
    {"cloudosd_preflight", "cloudosd_deploy_os", "cloudosd_validate_offline_os",
     "stage_ad_domain_join_unattend", "stage_osd_client", "stage_autopilot_agent"}

FullOsKinds ==
    {"wait_agent_heartbeat", "join_domain_role", "verify_ad_domain_join",
     "capture_autopilot_hash"}

If(test, kinds) == IF test THEN kinds ELSE <<>>

(* The steps of the generated sequence, in order.                          *)
RunSequence ==
    <<"cloudosd_preflight", "cloudosd_deploy_os">>
    \o If(DomainJoin = "unattend", <<"stage_ad_domain_join_unattend">>)
    \o <<"cloudosd_validate_offline_os", "stage_osd_client",
         "stage_autopilot_agent", "wait_agent_heartbeat">>
    \o If(DomainJoin = "online", <<"join_domain_role">>)
    \o If(DomainJoin # "none", <<"verify_ad_domain_join">>)
    \o <<"capture_autopilot_hash">>

CreateSequenceForRun ==
    [phase             |-> [s \in Steps |-> IF RunSequence[s] \in PeKinds
                                            THEN "pe" ELSE "full_os"],
     kind              |-> [s \in Steps |-> RunSequence[s]],
     enabled           |-> [s \in Steps |-> TRUE],
     retry_count       |-> [s \in Steps |->
                              CASE RunSequence[s] = "verify_ad_domain_join" -> VerifyRetries
                                [] RunSequence[s] = "capture_autopilot_hash" -> CaptureRetries
                                [] OTHER -> 0],
     reboot_behavior   |-> [s \in Steps |-> IF RunSequence[s] = "join_domain_role"
                                            THEN "required" ELSE "none"],
     continue_on_error |-> [s \in Steps |-> FALSE]]

ASSUME CloudAssumption ==
    /\ DomainJoin \in {"none", "unattend", "online"}
    /\ {VerifyRetries, CaptureRetries, MaxFaults, MaxRequeues, MaxCrashes} \subseteq Nat
    /\ NumSteps = Len(RunSequence)
    /\ Plans = {CreateSequenceForRun}
    /\ Phases = {"pe", "full_os"}
    /\ Kinds = PeKinds \cup FullOsKinds

WaitingStates == {"full_os_waiting_domain_join", "full_os_waiting_v2"}

(* Timestamps of the row and event types sync_ts_progress_for_run reads;   *)
(* "full_os" is the first heartbeat or the first boot script's event.      *)
PeEvents == <<"osdcloud_start", "offline_validation_ok", "cloudosd_pe_complete">>

Evidence ==
    {"pe_registered", "osdcloud_start", "offline_validation_ok",
     "cloudosd_pe_complete", "full_os", "domain_join_verified"}

Processes == {"register", "bridge", "web", "agent", "monitor"}

VARIABLES
    cstate,      \* cloudosd_runs.state
    evidence,    \* the evidence recorded for the run
    asset,       \* membership_state of the run's Lab Bubble asset
    pc,          \* where each process is
    os,          \* what the machine runs: "off", "pe", "full_os", or "down"
    dom,         \* "workgroup", "joining" (until the reboot), or "ad"
    hb,          \* membership the latest heartbeat reported, or None
    hash,        \* a hardware hash of the machine is on disk
    faults, requeues, crashes

engineVars == vars
machineVars == <<os, dom, hb, hash>>
boundVars == <<faults, requeues, crashes>>
cloudVars == <<vars, cstate, evidence, asset, pc, machineVars, boundVars>>

(* create_run, in a bubble: the engine's run row is overwritten at once.   *)
CloudInit ==
    /\ plan \in Plans
    /\ state = [s \in Steps |-> "pending"]
    /\ attempt = [s \in Steps |-> 0]
    /\ claimed_by = [s \in Steps |-> None]
    /\ run_state = "cloudosd_created"
    /\ cursor = None
    /\ batch = [a \in Agents |-> None]
    /\ handed = [a \in Agents |-> {}]
    /\ cstate = "created"
    /\ evidence = {}
    /\ asset = "provisioning"
    /\ pc = [p \in Processes |-> "idle"]
    /\ os = "off"
    /\ dom = "workgroup"
    /\ hb = None
    /\ hash = FALSE
    /\ faults = 0
    /\ requeues = 0
    /\ crashes = 0

-----------------------------------------------------------------------------
Goto(p, label) == pc' = [pc EXCEPT ![p] = label]

(* A page view syncs the plan once more after mark_complete_from_heartbeat. *)
Home(p) == IF p = "web" THEN "sync" ELSE "idle"

SetEngineState(s) ==
    /\ run_state' = s
    /\ UNCHANGED <<plan, state, attempt, claimed_by, cursor, batch, handed>>

StepsOf(kind) == {s \in Steps : plan.kind[s] = kind}

IsDone(kind) == \A s \in StepsOf(kind) : state[s] = "done"

-----------------------------------------------------------------------------
(* Provisioning and the PE bridge                                          *)

(* The playbook records the VM's identity, then starts it.                 *)
SetRunIdentity ==
    /\ os = "off"
    /\ cstate' = "awaiting_pe"
    /\ SetEngineState("awaiting_pe")
    /\ os' = "pe"
    /\ UNCHANGED <<evidence, asset, pc, dom, hb, hash, boundVars>>

(* POST /pe/register: find_run_by_identity only finds a run that is not    *)
(* past this point.  The PE repeats a request that was not answered ...    *)
PeRegister ==
    /\ pc["register"] = "idle"
    /\ os = "pe"
    /\ cstate \in {"awaiting_pe", "created", "pe_registered"}
    /\ IF "pe_registered" \in evidence
       THEN faults < MaxFaults /\ faults' = faults + 1
       ELSE UNCHANGED faults
    /\ Goto("register", "found")
    /\ UNCHANGED <<engineVars, cstate, evidence, asset, machineVars, requeues, crashes>>

(* ... and the UPDATE does not ask again, however long it took to come.    *)
MarkPeRegistered ==
    /\ pc["register"] = "found"
    /\ cstate' = "pe_registered"
    /\ evidence' = evidence \cup {"pe_registered"}
    /\ SetEngineState("pe_registered")
    /\ Goto("register", "idle")
    /\ UNCHANGED <<asset, machineVars, boundVars>>

(* POST /runs/{id}/events: the event, the timestamp it sets, then the sync. *)
AppendEvent(e) ==
    /\ pc["bridge"] = "idle"
    /\ e \notin evidence
    /\ \/ /\ os = "pe"
          /\ "pe_registered" \in evidence
          /\ \E i \in 1..Len(PeEvents) :
                PeEvents[i] = e /\ \A j \in 1..(i - 1) : PeEvents[j] \in evidence
       \/ os = "full_os" /\ e = "full_os"
    /\ evidence' = evidence \cup {e}
    /\ Goto("bridge", "sync")
    /\ UNCHANGED <<engineVars, cstate, asset, machineVars, boundVars>>

MarkFailed ==
    IF cstate = "complete"
    THEN UNCHANGED <<cstate, engineVars>>
    ELSE cstate' = "failed" /\ SetEngineState("failed")

(* The same request with severity "error".                                 *)
AppendErrorEvent ==
    /\ pc["bridge"] = "idle"
    /\ faults < MaxFaults
    /\ os \in {"pe", "full_os"}
    /\ "pe_registered" \in evidence
    /\ MarkFailed
    /\ faults' = faults + 1
    /\ Goto("bridge", "sync")
    /\ UNCHANGED <<evidence, asset, machineVars, requeues, crashes>>

-----------------------------------------------------------------------------
(* Evidence to steps                                                       *)

DomainVerifyKinds == {"verify_ad_domain_join"}

HeartbeatKinds == PeKinds \cup {"wait_agent_heartbeat"}

(* The step kinds the recorded evidence closes.                            *)
DoneKinds ==
    LET closed(ks, evs) == IF evidence \cap evs # {} THEN ks ELSE {}
    IN  closed({"cloudosd_preflight"}, {"pe_registered", "osdcloud_start"})
        \cup closed({"cloudosd_deploy_os", "cloudosd_validate_offline_os"},
                    {"offline_validation_ok"})
        \cup closed(PeKinds, {"cloudosd_pe_complete"})
        \cup closed(HeartbeatKinds, {"full_os"})
        \cup closed(DomainVerifyKinds, {"domain_join_verified"})

SyncTsProgressForRun ==
    IF DoneKinds = {} THEN UNCHANGED engineVars ELSE MarkStepsDoneByKind(DoneKinds)

Sync(p) ==
    /\ pc[p] \in {"sync", "sync_check"}
    /\ SyncTsProgressForRun
    /\ Goto(p, IF pc[p] = "sync_check" THEN "check" ELSE "idle")
    /\ UNCHANGED <<cstate, evidence, asset, machineVars, boundVars>>

-----------------------------------------------------------------------------
(* mark_complete_from_heartbeat                                            *)

DomainJoinVerification == hb = "ad"

(* Its first transaction: both rows say what the run waits for, whatever   *)
(* the engine's row said before, unless the run failed or is finished.     *)
MarkWaiting(p) ==
    LET matched == DomainJoin = "none" \/ DomainJoinVerification
        waiting == IF matched THEN "full_os_waiting_v2" ELSE "full_os_waiting_domain_join"
    IN  IF cstate = "failed"
        THEN Goto(p, Home(p)) /\ UNCHANGED <<engineVars, cstate, evidence>>
        ELSE /\ cstate' = IF cstate = "complete" THEN cstate ELSE waiting
             /\ SetEngineState(IF run_state = "done" THEN "done" ELSE waiting)
             /\ evidence' = evidence \cup {"full_os"}
             /\ Goto(p, IF matched THEN "sync_check" ELSE "sync")

RequiredKinds ==
    {"capture_autopilot_hash", "wait_agent_heartbeat"}
    \cup IF DomainJoin = "none" THEN {} ELSE {"verify_ad_domain_join"}

(* Mutant of V2CompletionStatus: the heartbeat alone is enough.            *)
V2CompletionStatusHeartbeat == IsDone("wait_agent_heartbeat")

V2CompletionStatus == \A k \in RequiredKinds : IsDone(k)

CheckCompletion(p) ==
    /\ pc[p] = "check"
    /\ Goto(p, IF V2CompletionStatus THEN "finish" ELSE Home(p))
    /\ UNCHANGED <<engineVars, cstate, evidence, asset, machineVars, boundVars>>

(* Mutant of FinishRun: the row is not looked at again.                    *)
FinishRunUnguarded(p) ==
    /\ pc[p] = "finish"
    /\ cstate' = "complete"
    /\ SetEngineState("done")
    /\ Goto(p, "promote")
    /\ UNCHANGED <<evidence, asset, machineVars, boundVars>>

FinishRun(p) ==
    /\ pc[p] = "finish"
    /\ IF cstate = "failed"
       THEN Goto(p, Home(p)) /\ UNCHANGED <<engineVars, cstate>>
       ELSE cstate' = "complete" /\ SetEngineState("done") /\ Goto(p, "promote")
    /\ UNCHANGED <<evidence, asset, machineVars, boundVars>>

MarkLabAssetsComplete(p) ==
    /\ pc[p] = "promote"
    /\ asset' = "active"
    /\ Goto(p, Home(p))
    /\ UNCHANGED <<engineVars, cstate, evidence, machineVars, boundVars>>

-----------------------------------------------------------------------------
(* The operator                                                            *)

(* GET /runs/{id}: viewing a run that is not complete drives it forward.   *)
GetRun ==
    /\ pc["web"] = "idle"
    /\ IF hb # None /\ cstate # "complete"
       THEN MarkWaiting("web")
       ELSE Goto("web", "sync") /\ UNCHANGED <<engineVars, cstate, evidence>>
    /\ UNCHANGED <<asset, machineVars, boundVars>>

AgentOperatorRetryKinds ==
    {"capture_autopilot_hash", "join_domain_role", "verify_ad_domain_join"}

(* POST /runs/{id}/v2/steps/{step}/retry: requeue_step commits ...         *)
RetryV2Step(s) ==
    /\ pc["web"] = "idle"
    /\ requeues < MaxRequeues
    /\ plan.phase[s] = "full_os"
    /\ plan.kind[s] \in AgentOperatorRetryKinds
    /\ RequeueStep(s)
    /\ requeues' = requeues + 1
    /\ Goto("web", "requeued")
    /\ UNCHANGED <<cstate, evidence, asset, machineVars, faults, crashes>>

(* ... and then the run is reopened.                                       *)
ReopenRun ==
    /\ pc["web"] = "requeued"
    /\ cstate' = IF cstate = "complete" THEN cstate ELSE "full_os_waiting_v2"
    /\ Goto("web", "sync")
    /\ UNCHANGED <<engineVars, evidence, asset, machineVars, boundVars>>

-----------------------------------------------------------------------------
(* The machine and its agent                                               *)

(* The PE script has posted its events, or the later ones were lost.       *)
BootFullOs ==
    /\ os = "pe"
    /\ "osdcloud_start" \in evidence
    /\ "offline_validation_ok" \in evidence => "cloudosd_pe_complete" \in evidence
    /\ os' = "full_os"
    /\ dom' \in IF DomainJoin = "unattend" THEN {"workgroup", "ad"} ELSE {dom}
    /\ UNCHANGED <<engineVars, cstate, evidence, asset, pc, hb, hash, boundVars>>

RebootGuest ==
    /\ os = "down"
    /\ os' = "full_os"
    /\ dom' = IF dom = "joining" THEN "ad" ELSE dom
    /\ UNCHANGED <<engineVars, cstate, evidence, asset, pc, hb, hash, boundVars>>

Heartbeat ==
    /\ os = "full_os"
    /\ hb' = IF dom = "ad" THEN "ad" ELSE "workgroup"
    /\ UNCHANGED <<engineVars, cstate, evidence, asset, pc, os, dom, hash, boundVars>>

(* The agent asks for one full-OS step at a time.                          *)
AgentClaims(a) ==
    /\ os = "full_os"
    /\ pc["agent"] = "idle"
    /\ ClaimNextStep(a, "full_os", FALSE)
    /\ UNCHANGED <<batch, cstate, evidence, asset, pc, machineVars, boundVars>>

Working(a, kind) ==
    /\ os = "full_os"
    /\ \E s \in StepsOf(kind) : s \in handed[a] /\ state[s] = "running"

AgentJoins(a) ==
    /\ Working(a, "join_domain_role")
    /\ dom = "workgroup"
    /\ dom' = "joining"
    /\ UNCHANGED <<engineVars, cstate, evidence, asset, pc, os, hb, hash, boundVars>>

(* POST /agent/hash, before the step's result.                             *)
PostAgentHash(a) ==
    /\ Working(a, "capture_autopilot_hash")
    /\ ~hash
    /\ hash' = TRUE
    /\ UNCHANGED <<engineVars, cstate, evidence, asset, pc, os, dom, hb, boundVars>>

AgentRestarts(a) ==
    /\ os = "full_os"
    /\ RegisterAgent(a)
    /\ UNCHANGED <<cstate, evidence, asset, pc, machineVars, boundVars>>

(* What a step reported as done by the agent means.                        *)
Truthful(kind) ==
    CASE kind = "join_domain_role" -> dom # "workgroup"
      [] kind = "verify_ad_domain_join" -> dom = "ad"
      [] kind = "capture_autopilot_hash" -> hash
      [] OTHER -> TRUE

CloudSyncKinds ==
    {"capture_autopilot_hash", "wait_agent_heartbeat", "verify_ad_domain_join"}

(* The result of the step the agent works on, or a late one.               *)
AgentPosts(a, s, status) ==
    LET late == state[s] # "running" \/ claimed_by[s] # a
    IN  /\ os = "full_os"
        /\ pc["agent"] = "idle"
        /\ status \in {"success", "failed"}
        /\ status = "success" => Truthful(plan.kind[s])
        /\ PostStepResult(a, "full_os", s, status)
        /\ IF late \/ status = "failed"
           THEN faults < MaxFaults /\ faults' = faults + 1
           ELSE UNCHANGED faults
        /\ IF status = "success" /\ plan.kind[s] \in CloudSyncKinds
           THEN /\ Goto("agent", "event")
                /\ evidence' = IF plan.kind[s] = "verify_ad_domain_join"
                               THEN evidence \cup {"domain_join_verified"} ELSE evidence
           ELSE UNCHANGED <<pc, evidence>>
        /\ UNCHANGED <<cstate, asset, machineVars, requeues, crashes>>

(* _sync_cloudosd_after_step_result, past the event it appends.            *)
SyncCloudOsdAfterStepResult ==
    /\ pc["agent"] = "event"
    /\ IF hb # None
       THEN MarkWaiting("agent")
       ELSE Goto("agent", "idle") /\ UNCHANGED <<engineVars, cstate, evidence>>
    /\ UNCHANGED <<asset, machineVars, boundVars>>
=============================================================================
