---------------------------- MODULE CloudOsdMonitor ----------------------------
(***************************************************************************)
(* The monitor's domain-join tick (web/monitor_main.py) for a CloudOSD run *)
(* (web/cloudosd_domain_join.py), and the whole system it is part of.  A   *)
(* tick is three passes over the run: join and verify over the guest       *)
(* agent, capture the hardware hash, re-run the completion path.  A guest  *)
(* command takes up to 90 seconds, so what a pass read before it may be    *)
(* stale when the pass marks its steps.                                    *)
(***************************************************************************)
EXTENDS CloudOsdRun

TerminalCloudStates == {"complete", "failed"}

Pending(kind) == \E s \in StepsOf(kind) : state[s] = "pending"

Booted == IsDone("wait_agent_heartbeat")

(* Mutant of FindJoinCandidates: a join that is done is not verified.      *)
FindJoinCandidatesJoinOnly ==
    /\ DomainJoin = "online"
    /\ cstate \notin TerminalCloudStates
    /\ Booted
    /\ Pending("join_domain_role")

FindJoinCandidates ==
    /\ DomainJoin = "online"
    /\ cstate \notin TerminalCloudStates
    /\ Booted
    /\ Pending("join_domain_role") \/ Pending("verify_ad_domain_join")

FindHashCandidates ==
    /\ cstate \notin TerminalCloudStates
    /\ Booted
    /\ Pending("capture_autopilot_hash")

(* _heartbeat_is_stale: a machine without a heartbeat, and one that has    *)
(* been down for longer than the cutoff.                                   *)
HeartbeatIsStale ==
    IF hb = None THEN {TRUE} ELSE IF os = "down" THEN BOOLEAN ELSE {FALSE}

(* run_pending_joins, with the tick that starts it.                        *)
RunPendingJoins ==
    /\ pc["monitor"] = "idle"
    /\ \E stale \in HeartbeatIsStale :
          Goto("monitor", IF FindJoinCandidates /\ ~stale THEN "probe" ELSE "hash")
    /\ UNCHANGED <<engineVars, cstate, evidence, asset, machineVars, boundVars>>

(* A guest command that fails or times out ends the pass for this run.     *)
GuestExecFails ==
    /\ pc["monitor"] \in {"probe", "add", "capture"}
    /\ Goto("monitor", IF pc["monitor"] = "capture" THEN "advance" ELSE "hash")
    /\ UNCHANGED <<engineVars, cstate, evidence, asset, machineVars, boundVars>>

(* PartOfDomain is true: both membership steps are done.                   *)
ProbeFindsDomain ==
    /\ pc["monitor"] = "probe"
    /\ os = "full_os"
    /\ dom = "ad"
    /\ MarkStepsDoneByKind({"join_domain_role", "verify_ad_domain_join"})
    /\ evidence' = evidence \cup {"domain_join_verified"}
    /\ Goto("monitor", "hash")
    /\ UNCHANGED <<cstate, asset, machineVars, boundVars>>

ProbeFindsWorkgroup ==
    /\ pc["monitor"] = "probe"
    /\ os = "full_os"
    /\ dom # "ad"
    /\ Goto("monitor", "add")
    /\ UNCHANGED <<engineVars, cstate, evidence, asset, machineVars, boundVars>>

(* Add-Computer reports success; membership takes effect with the reboot.  *)
AddComputer ==
    /\ pc["monitor"] = "add"
    /\ os = "full_os"
    /\ dom' = IF dom = "ad" THEN dom ELSE "joining"
    /\ Goto("monitor", "joined")
    /\ UNCHANGED <<engineVars, cstate, evidence, asset, os, hb, hash, boundVars>>

(* Mutant of MarkJoined: the join is taken for the verification too.       *)
MarkJoinedAndVerified ==
    /\ pc["monitor"] = "joined"
    /\ os' \in {"down", os}
    /\ MarkStepsDoneByKind({"join_domain_role", "verify_ad_domain_join"})
    /\ Goto("monitor", "advance")
    /\ UNCHANGED <<cstate, evidence, asset, dom, hb, hash, boundVars>>

(* The reboot command may fail unnoticed.  The hash pass of this tick      *)
(* skips the run it rebooted.                                              *)
MarkJoined ==
    /\ pc["monitor"] = "joined"
    /\ os' \in {"down", os}
    /\ MarkStepsDoneByKind({"join_domain_role"})
    /\ Goto("monitor", "advance")
    /\ UNCHANGED <<cstate, evidence, asset, dom, hb, hash, boundVars>>

RunPendingHashCaptures ==
    /\ pc["monitor"] = "hash"
    /\ \E stale \in HeartbeatIsStale :
          Goto("monitor", IF FindHashCandidates /\ ~stale THEN "capture" ELSE "advance")
    /\ UNCHANGED <<engineVars, cstate, evidence, asset, machineVars, boundVars>>

CaptureHash ==
    /\ pc["monitor"] = "capture"
    /\ os = "full_os"
    /\ hash' = TRUE
    /\ Goto("monitor", "persisted")
    /\ UNCHANGED <<engineVars, cstate, evidence, asset, os, dom, hb, boundVars>>

MarkCaptured ==
    /\ pc["monitor"] = "persisted"
    /\ MarkStepsDoneByKind({"capture_autopilot_hash"})
    /\ Goto("monitor", "advance")
    /\ UNCHANGED <<cstate, evidence, asset, machineVars, boundVars>>

AdvanceDomainJoinedRuns ==
    /\ pc["monitor"] = "advance"
    /\ \E stale \in HeartbeatIsStale :
          IF cstate \in WaitingStates /\ ~stale
          THEN MarkWaiting("monitor")
          ELSE Goto("monitor", "idle") /\ UNCHANGED <<engineVars, cstate, evidence>>
    /\ UNCHANGED <<asset, machineVars, boundVars>>

-----------------------------------------------------------------------------
(* A handler or a pass cut off between two commits: a database error is    *)
(* swallowed by every caller, and a restart looks the same.                *)
CutOff(p) ==
    /\ pc[p] # "idle"
    /\ crashes < MaxCrashes
    /\ crashes' = crashes + 1
    /\ Goto(p, "idle")
    /\ UNCHANGED <<engineVars, cstate, evidence, asset, machineVars, faults, requeues>>

Drives(p) ==
    Sync(p) \/ CheckCompletion(p) \/ FinishRun(p) \/ MarkLabAssetsComplete(p)

MonitorStep ==
    \/ RunPendingJoins \/ GuestExecFails \/ ProbeFindsDomain \/ ProbeFindsWorkgroup
    \/ AddComputer \/ MarkJoined \/ RunPendingHashCaptures \/ CaptureHash
    \/ MarkCaptured \/ AdvanceDomainJoinedRuns \/ Drives("monitor")

BridgeStep ==
    \/ SetRunIdentity \/ PeRegister \/ MarkPeRegistered \/ AppendErrorEvent
    \/ \E e \in Evidence : AppendEvent(e)

WebStep == GetRun \/ ReopenRun \/ \E s \in Steps : RetryV2Step(s)

MachineStep == BootFullOs \/ RebootGuest \/ Heartbeat

AgentStep ==
    \/ SyncCloudOsdAfterStepResult
    \/ \E a \in Agents : \/ AgentClaims(a) \/ AgentJoins(a) \/ PostAgentHash(a)
                         \/ AgentRestarts(a)
                         \/ \E s \in Steps, st \in Statuses : AgentPosts(a, s, st)

CloudNext ==
    \/ BridgeStep \/ WebStep \/ MachineStep \/ AgentStep \/ MonitorStep
    \/ \E p \in Processes : Drives(p) \/ CutOff(p)

(* The monitor loops for as long as it is up, the machine boots and sends  *)
(* heartbeats, and a guest command that can succeed does not fail forever. *)
CloudFairness ==
    /\ WF_cloudVars(MonitorStep)
    /\ WF_cloudVars(Heartbeat)
    /\ WF_cloudVars(RebootGuest)
    /\ \A p \in Processes : WF_cloudVars(Drives(p))
    /\ SF_cloudVars(ProbeFindsDomain)
    /\ SF_cloudVars(ProbeFindsWorkgroup)
    /\ SF_cloudVars(AddComputer)
    /\ SF_cloudVars(MarkJoined /\ os' = "down")
    /\ SF_cloudVars(CaptureHash)

CloudSafeSpec == CloudInit /\ [][CloudNext]_cloudVars

CloudSpec == CloudSafeSpec /\ CloudFairness

-----------------------------------------------------------------------------
(* Properties                                                              *)

(* mark_complete_from_heartbeat: whoever drives it, and whatever the       *)
(* engine's row said in between, a run that is reported complete belongs   *)
(* to a machine that is in the domain it was to join and whose hardware    *)
(* hash is on disk.                                                        *)
CompleteIsEarned ==
    cstate = "complete" => hash /\ (DomainJoin # "none" => dom = "ad")

(* The three writers of verify_ad_domain_join (agent, executor, evidence   *)
(* sync) agree: a verification marked done is one of a joined machine.     *)
VerifiedIsJoined ==
    DomainJoin # "none" /\ IsDone("verify_ad_domain_join") => dom = "ad"

Overtaken == pc["register"] = "found" /\ cstate' = "pe_registered"

Reopened == pc["web"] = "requeued" /\ cstate' = "full_os_waiting_v2"

(* mark_failed, mark_complete_from_heartbeat and the monitor's passes:     *)
(* whoever comes late, an outcome stays, except that an operator's retry   *)
(* reopens a failed run and that mark_pe_registered, which does not look   *)
(* at the state again, overwrites the outcome of a run it found before.    *)
OutcomeIsFinal ==
    [][/\ cstate = "complete" => cstate' = "complete" \/ Overtaken
       /\ cstate = "failed" => cstate' = "failed" \/ Overtaken \/ Reopened]_cloudVars

(* The executor, for an agent that never claims full-OS work: once a run   *)
(* waits for its full OS, the monitor alone takes it to its end, unless a  *)
(* late registration throws it back.  Guest commands, reboots and single   *)
(* passes may fail on the way.                                             *)
WaitingRunSettles ==
    cstate \in WaitingStates ~> cstate \in TerminalCloudStates \cup {"pe_registered"}
=============================================================================
