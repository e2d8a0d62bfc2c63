---------------------------- MODULE CloudOsdProofs ----------------------------
(* Proofs about CloudOsdMonitor, for every kind of domain join, any number *)
(* of agents, faults, operator retries and handlers that are cut off.  The *)
(* lemmas on the engine's rows come from TaskEngineProofs.                 *)
EXTENDS CloudOsdMonitor, TaskEngineProofs

Labels ==
    {"idle", "sync", "sync_check", "check", "finish", "promote", "event", "probe", "add",
     "joined", "hash", "capture", "persisted", "advance", "found", "requeued"}

CloudTypeOK ==
    /\ plan \in Plans
    /\ state \in [Steps -> StepStates]
    /\ pc \in [Processes -> Labels]

(* What a complete run promises.                                           *)
Earned == hash /\ (DomainJoin # "none" => dom = "ad")

(* Before Windows runs, nobody has joined the machine or taken its hash,   *)
(* and the executor has nothing to reboot.                                 *)
NothingBeforeBoot ==
    /\ os \in {"off", "pe"} => dom = "workgroup" /\ ~hash /\ pc["monitor"] # "joined"
    /\ os = "off" => cstate # "failed"

(* A step that is done, or waits for its reboot, was really carried out.   *)
StepsAreTrue ==
    \A s \in Steps : state[s] \in {"done", "awaiting_reboot"} =>
        /\ plan.kind[s] = "verify_ad_domain_join" => dom = "ad"
        /\ plan.kind[s] = "capture_autopilot_hash" => hash

(* Every record of a membership or of a hash is of one that exists: the    *)
(* steps, the evidence, and what a pass of the monitor is about to record. *)
RecordsAreTrue ==
    /\ StepsAreTrue
    /\ "domain_join_verified" \in evidence => dom = "ad"
    /\ pc["monitor"] = "persisted" => hash

(* A process that is about to finish the run has looked at the steps; the  *)
(* machine still is what they said.                                        *)
FinishIsEarned == \A p \in Processes : pc[p] = "finish" => Earned

CloudInv ==
    /\ CloudTypeOK
    /\ NothingBeforeBoot
    /\ RecordsAreTrue
    /\ FinishIsEarned
    /\ CompleteIsEarned

-----------------------------------------------------------------------------
(* The generated plan                                                      *)

(* The first element behind a sequence.                                    *)
LEMMA ConcatFirst ==
    ASSUME NEW S, NEW q \in Seq(S), NEW r \in Seq(S), Len(r) >= 1
    PROVE  (q \o r)[Len(q) + 1] = r[1]
<1>1. Len(q) \in Nat /\ Len(r) \in Nat
  OBVIOUS
<1>2. Len(q) + 1 \in 1..(Len(q) + Len(r)) /\ ~(Len(q) + 1 <= Len(q)) /\ Len(q) + 1 - Len(q) = 1
  BY <1>1
<1> QED
  BY <1>1, <1>2

(* The sequence ends with the capture of the hash, behind the verification *)
(* of the membership if there is one to verify.                            *)
LEMMA SequenceHasSteps ==
    /\ \E s \in Steps : RunSequence[s] = "capture_autopilot_hash"
    /\ DomainJoin # "none" => \E s \in Steps : RunSequence[s] = "verify_ad_domain_join"
<1> DEFINE K == PeKinds \cup FullOsKinds
           A == <<"cloudosd_preflight", "cloudosd_deploy_os">>
           B == If(DomainJoin = "unattend", <<"stage_ad_domain_join_unattend">>)
           C == <<"cloudosd_validate_offline_os", "stage_osd_client",
                  "stage_autopilot_agent", "wait_agent_heartbeat">>
           D == If(DomainJoin = "online", <<"join_domain_role">>)
           E == If(DomainJoin # "none", <<"verify_ad_domain_join">>)
           F == <<"capture_autopilot_hash">>
<1>1. RunSequence = A \o B \o C \o D \o E \o F
  BY DEF RunSequence
<1>2. A \in Seq(K) /\ C \in Seq(K) /\ F \in Seq(K)
  BY DEF PeKinds, FullOsKinds
<1>3. B \in Seq(K) /\ D \in Seq(K) /\ E \in Seq(K)
  <2>1. /\ <<"stage_ad_domain_join_unattend">> \in Seq(K)
        /\ <<"join_domain_role">> \in Seq(K) /\ <<"verify_ad_domain_join">> \in Seq(K)
        /\ <<>> \in Seq(K)
    BY DEF PeKinds, FullOsKinds
  <2> HIDE DEF K
  <2> QED
    BY <2>1 DEF If
<1>4. Len(F) = 1 /\ F[1] = "capture_autopilot_hash"
  OBVIOUS
<1>5. DomainJoin # "none" => Len(E) = 1 /\ E[1] = "verify_ad_domain_join"
  BY DEF If
<1>6. Steps = 1..Len(RunSequence)
  BY CloudAssumption DEF Steps
<1> HIDE DEF A, B, C, D, E, F, K
<1> DEFINE pre == A \o B \o C \o D
<1>7. pre \in Seq(K)
  BY <1>2, <1>3
<1>8. RunSequence = (pre \o E) \o F
  BY <1>1
<1> HIDE DEF pre
<1>9. /\ Len(pre \o E) = Len(pre) + Len(E) /\ (pre \o E) \in Seq(K)
      /\ Len(RunSequence) = Len(pre) + Len(E) + Len(F)
  BY <1>2, <1>3, <1>7, <1>8
<1>10. /\ Len(pre) + Len(E) + 1 \in Steps
       /\ RunSequence[Len(pre) + Len(E) + 1] = "capture_autopilot_hash"
  BY <1>2, <1>3, <1>4, <1>6, <1>7, <1>8, <1>9
<1>11. ASSUME DomainJoin # "none"
       PROVE  Len(pre) + 1 \in Steps /\ RunSequence[Len(pre) + 1] = "verify_ad_domain_join"
  <2>1. (pre \o E)[Len(pre) + 1] = "verify_ad_domain_join"
    <3>1. Len(pre) \in Nat /\ Len(E) = 1 /\ E[1] = "verify_ad_domain_join"
      BY <1>5, <1>7, <1>11
    <3>2. Len(E) >= 1
      BY <3>1
    <3>3. (pre \o E)[Len(pre) + 1] = E[1]
      BY <1>3, <1>7, <3>2, ConcatFirst, Zenon
    <3> QED
      BY <3>1, <3>3
  <2> QED
    BY <1>2, <1>3, <1>4, <1>5, <1>6, <1>7, <1>8, <1>9, <1>11, <2>1
<1> QED
  BY <1>10, <1>11

(* So a check that the steps of both kinds are done is a check of a step.  *)
LEMMA PlanHasSteps ==
    ASSUME plan \in Plans
    PROVE  /\ \E s \in Steps : plan.kind[s] = "capture_autopilot_hash"
           /\ DomainJoin # "none" => \E s \in Steps : plan.kind[s] = "verify_ad_domain_join"
<1>1. plan = CreateSequenceForRun
  BY CloudAssumption
<1>2. plan.kind = [s \in Steps |-> RunSequence[s]]
  BY <1>1 DEF CreateSequenceForRun
<1> QED
  BY <1>2, SequenceHasSteps

(* verify_ad_domain_join is done only on a machine that is in the domain.  *)
LEMMA VerifiedFromRecords ==
    ASSUME CloudInv, DomainJoin # "none", IsDone("verify_ad_domain_join")
    PROVE  dom = "ad"
<1>1. PICK s \in Steps : plan.kind[s] = "verify_ad_domain_join"
  BY PlanHasSteps DEF CloudInv, CloudTypeOK
<1>2. state[s] = "done"
  BY <1>1 DEF IsDone, StepsOf
<1> QED
  BY <1>1, <1>2 DEF CloudInv, RecordsAreTrue, StepsAreTrue

(* ... and the hash step only on one whose hash was captured.              *)
LEMMA CapturedFromRecords ==
    ASSUME CloudInv, IsDone("capture_autopilot_hash")
    PROVE  hash
<1>1. PICK s \in Steps : plan.kind[s] = "capture_autopilot_hash"
  BY PlanHasSteps DEF CloudInv, CloudTypeOK
<1>2. state[s] = "done"
  BY <1>1 DEF IsDone, StepsOf
<1> QED
  BY <1>1, <1>2 DEF CloudInv, RecordsAreTrue, StepsAreTrue

(* v2_completion_status looks at both.                                     *)
LEMMA CompletionIsEarned ==
    ASSUME CloudInv, V2CompletionStatus
    PROVE  Earned
BY VerifiedFromRecords, CapturedFromRecords DEF V2CompletionStatus, RequiredKinds, Earned

-----------------------------------------------------------------------------
(* The invariant is inductive                                              *)

(* Nothing has been provisioned, read or reported at first.                *)
LEMMA CloudInitInv == CloudInit => CloudInv
BY DEF CloudInit, CloudInv, CloudTypeOK, StepStates, Labels, Processes, NothingBeforeBoot,
       RecordsAreTrue, StepsAreTrue, FinishIsEarned, CompleteIsEarned, Earned

(* No step takes a machine out of its domain or loses its hash.            *)
LEMMA MachineStays ==
    ASSUME CloudInv, [CloudNext]_cloudVars
    PROVE  /\ dom = "ad" => dom' = "ad"
           /\ hash => hash'
           /\ Earned => Earned'
<1> USE DEF CloudInv, NothingBeforeBoot, machineVars
<1>1. (dom = "ad" => dom' = "ad") /\ (hash => hash')
  <2>1. CASE BridgeStep \/ WebStep
    BY <2>1 DEF BridgeStep, SetRunIdentity, PeRegister, MarkPeRegistered, AppendErrorEvent, AppendEvent, WebStep,
                GetRun, RetryV2Step, ReopenRun
  <2>2. CASE MachineStep
    BY <2>2 DEF MachineStep, BootFullOs, RebootGuest, Heartbeat
  <2>3. CASE AgentStep
    <3>1. ASSUME NEW a \in Agents, AgentJoins(a) \/ PostAgentHash(a)
          PROVE  (dom = "ad" => dom' = "ad") /\ (hash => hash')
      BY <3>1 DEF AgentJoins, PostAgentHash
    <3>2. ASSUME NEW a \in Agents,
                 \/ AgentClaims(a) \/ AgentRestarts(a)
                 \/ \E s \in Steps, st \in Statuses : AgentPosts(a, s, st)
          PROVE  UNCHANGED machineVars
      BY <3>2 DEF AgentClaims, AgentRestarts, AgentPosts
    <3>3. CASE SyncCloudOsdAfterStepResult
      BY <3>3 DEF SyncCloudOsdAfterStepResult
    <3> QED
      BY <2>3, <3>1, <3>2, <3>3 DEF AgentStep
  <2>4. ASSUME NEW p \in Processes, Drives(p) \/ CutOff(p)
        PROVE  UNCHANGED machineVars
    BY <2>4 DEF Drives, Sync, CheckCompletion, FinishRun, MarkLabAssetsComplete, CutOff
  <2>5. CASE MonitorStep
    <3>1. "monitor" \in Processes
      BY DEF Processes
    <3> QED
      BY <2>4, <2>5, <3>1
         DEF MonitorStep, RunPendingJoins, GuestExecFails, ProbeFindsDomain, ProbeFindsWorkgroup,
             AddComputer, MarkJoined, RunPendingHashCaptures, CaptureHash, MarkCaptured,
             AdvanceDomainJoinedRuns
  <2>6. CASE UNCHANGED cloudVars
    BY <2>6 DEF cloudVars
  <2> QED
    BY <2>1, <2>2, <2>3, <2>4, <2>5, <2>6 DEF CloudNext
<1> QED
  BY <1>1 DEF Earned

(* Closing steps by kind records what the caller has made sure of.         *)
LEMMA ClosedByKind ==
    ASSUME CloudInv, [CloudNext]_cloudVars, NEW kinds, MarkStepsDoneByKind(kinds),
           "verify_ad_domain_join" \in kinds => dom = "ad",
           "capture_autopilot_hash" \in kinds => hash
    PROVE  plan' \in Plans /\ state' \in [Steps -> StepStates] /\ StepsAreTrue'
<1>1. plan' = plan /\ state' \in [Steps -> StepStates]
  BY DEF CloudInv, CloudTypeOK, MarkStepsDoneByKind, StepStates
<1>2. \A s \in Steps : plan.kind[s] \notin kinds => state'[s] = state[s]
  BY DEF MarkStepsDoneByKind
<1>3. plan \in Plans /\ StepsAreTrue
  BY DEF CloudInv, CloudTypeOK, RecordsAreTrue
<1>4. ASSUME NEW s \in Steps, state'[s] \in {"done", "awaiting_reboot"},
             plan.kind[s] = "verify_ad_domain_join"
      PROVE  dom' = "ad"
  BY <1>2, <1>3, <1>4, MachineStays DEF StepsAreTrue
<1>5. ASSUME NEW s \in Steps, state'[s] \in {"done", "awaiting_reboot"},
             plan.kind[s] = "capture_autopilot_hash"
      PROVE  hash'
  BY <1>2, <1>3, <1>5, MachineStays DEF StepsAreTrue
<1> QED
  BY <1>1, <1>3, <1>4, <1>5 DEF StepsAreTrue

(* sync_ts_progress_for_run closes the verification only on evidence of    *)
(* one, and never the capture.                                             *)
LEMMA DoneKindsAreTrue ==
    ASSUME CloudInv
    PROVE  /\ "verify_ad_domain_join" \in DoneKinds => dom = "ad"
           /\ "capture_autopilot_hash" \notin DoneKinds
BY DEF DoneKinds, HeartbeatKinds, PeKinds, DomainVerifyKinds, CloudInv, RecordsAreTrue

(* The writers of the plan's rows: everything else that CloudOSD does to   *)
(* the engine it does to the row of the run.                               *)
LEMMA CloudRowWriters ==
    ASSUME [CloudNext]_cloudVars
    PROVE  \/ UNCHANGED <<plan, state, attempt, handed>>
           \/ \E p \in Processes : Sync(p)
           \/ ProbeFindsDomain \/ MarkJoined \/ MarkCaptured
           \/ \E s \in Steps : RetryV2Step(s)
           \/ \E a \in Agents : \/ AgentClaims(a) \/ AgentRestarts(a)
                                \/ \E s \in Steps, st \in Statuses : AgentPosts(a, s, st)
<1> USE DEF engineVars, vars, SetEngineState
<1>1. CASE BridgeStep
  BY <1>1 DEF BridgeStep, SetRunIdentity, PeRegister, MarkPeRegistered, AppendErrorEvent, AppendEvent, MarkFailed
<1>2. CASE WebStep
  BY <1>2 DEF WebStep, GetRun, MarkWaiting, ReopenRun
<1>3. CASE MachineStep
  BY <1>3 DEF MachineStep, BootFullOs, RebootGuest, Heartbeat
<1>4. CASE AgentStep
  BY <1>4 DEF AgentStep, SyncCloudOsdAfterStepResult, MarkWaiting, AgentJoins, PostAgentHash
<1>5. ASSUME NEW p \in Processes, Drives(p) \/ CutOff(p)
      PROVE  UNCHANGED <<plan, state, attempt, handed>> \/ Sync(p)
  BY <1>5 DEF Drives, CheckCompletion, FinishRun, MarkLabAssetsComplete, CutOff
<1>6. CASE MonitorStep
  <2>1. "monitor" \in Processes
    BY DEF Processes
  <2> QED
    BY <1>5, <1>6, <2>1
       DEF MonitorStep, RunPendingJoins, GuestExecFails, ProbeFindsWorkgroup, AddComputer,
           RunPendingHashCaptures, CaptureHash, AdvanceDomainJoinedRuns, MarkWaiting
<1>7. CASE UNCHANGED cloudVars
  BY <1>7 DEF cloudVars
<1> QED
  BY <1>1, <1>2, <1>3, <1>4, <1>5, <1>6, <1>7 DEF CloudNext

(* The four writers of the steps: the evidence, the agent, the executor    *)
(* and the operator.                                                       *)
LEMMA StepsStep ==
    ASSUME CloudInv, [CloudNext]_cloudVars
    PROVE  plan' \in Plans /\ state' \in [Steps -> StepStates] /\ StepsAreTrue'
<1> DEFINE Goal == plan' \in Plans /\ state' \in [Steps -> StepStates] /\ StepsAreTrue'
<1>0. /\ plan \in Plans /\ state \in [Steps -> StepStates] /\ StepsAreTrue
      /\ dom = "ad" => dom' = "ad"
      /\ hash => hash'
  BY MachineStays DEF CloudInv, CloudTypeOK, RecordsAreTrue
<1>1. CASE UNCHANGED <<plan, state>>
  BY <1>0, <1>1 DEF StepsAreTrue
<1>2. ASSUME NEW p \in Processes, Sync(p) PROVE Goal
  <2>1. UNCHANGED <<plan, state>> \/ MarkStepsDoneByKind(DoneKinds)
    BY <1>2 DEF Sync, SyncTsProgressForRun, engineVars, vars
  <2> QED
    BY <1>1, <2>1, DoneKindsAreTrue, ClosedByKind
<1>3. CASE ProbeFindsDomain \/ MarkJoined \/ MarkCaptured
  <2>1. CASE ProbeFindsDomain
    BY <2>1, ClosedByKind DEF ProbeFindsDomain
  <2>2. CASE MarkJoined
    BY <2>2, ClosedByKind DEF MarkJoined
  <2>3. CASE MarkCaptured
    BY <2>3, ClosedByKind DEF MarkCaptured, CloudInv, RecordsAreTrue
  <2> QED
    BY <1>3, <2>1, <2>2, <2>3
<1>4. ASSUME NEW s \in Steps, RetryV2Step(s) PROVE Goal
  <2>1. state' = [state EXCEPT ![s] = "pending"] /\ plan' = plan
    BY <1>4 DEF RetryV2Step, RequeueStep
  <2>2. state' \in [Steps -> StepStates]
    BY <1>0, <2>1 DEF StepStates
  <2>3. \A t \in Steps : state'[t] = state[t] \/ state'[t] = "pending"
    BY <1>0, <2>1
  <2> QED
    BY <1>0, <2>1, <2>2, <2>3 DEF StepsAreTrue
<1>5. ASSUME NEW a \in Agents, AgentClaims(a) PROVE Goal
  <2>1. PICK s \in Steps : state' = [state EXCEPT ![s] = "running"] /\ plan' = plan
    BY <1>5 DEF AgentClaims, ClaimNextStep
  <2>2. state' \in [Steps -> StepStates]
    BY <1>0, <2>1 DEF StepStates
  <2>3. \A t \in Steps : state'[t] = state[t] \/ state'[t] = "running"
    BY <1>0, <2>1
  <2> QED
    BY <1>0, <2>1, <2>2, <2>3 DEF StepsAreTrue
<1>6. ASSUME NEW a \in Agents, AgentRestarts(a) PROVE Goal
  <2>1. /\ state[cursor] = "awaiting_reboot"
        /\ state' = [state EXCEPT ![cursor] = "done"] /\ plan' = plan
    BY <1>6 DEF AgentRestarts, RegisterAgent, MarkRebootComplete
  <2>2. state' \in [Steps -> StepStates]
    BY <1>0, <2>1 DEF StepStates
  <2>3. \A t \in Steps : state'[t] = state[t] \/ state[t] = "awaiting_reboot"
    BY <1>0, <2>1
  <2> QED
    BY <1>0, <2>1, <2>2, <2>3 DEF StepsAreTrue
<1>7. ASSUME NEW a \in Agents, NEW s \in Steps, NEW status \in Statuses, AgentPosts(a, s, status)
      PROVE  Goal
  <2> DEFINE outcome == StepOutcome(s, status, attempt[s])
  <2>1. /\ status \in {"success", "failed"}
        /\ status = "success" => Truthful(plan.kind[s])
        /\ state' = [state EXCEPT ![s] = outcome] /\ plan' = plan
        /\ UNCHANGED <<dom, hash>>
    BY <1>7 DEF AgentPosts, PostStepResult, CompleteStep, machineVars
  <2>2. /\ outcome \in StepStates
        /\ outcome \in {"done", "awaiting_reboot"} => status = "success"
    BY <2>1 DEF StepOutcome, StepStates
  <2> HIDE DEF outcome
  <2>3. state' \in [Steps -> StepStates]
    BY <1>0, <2>1, <2>2
  <2>4. ASSUME NEW t \in Steps, state'[t] \in {"done", "awaiting_reboot"}
        PROVE  \/ state[t] \in {"done", "awaiting_reboot"}
               \/ Truthful(plan.kind[t])
    BY <1>0, <2>1, <2>2, <2>4
  <2>5. ASSUME NEW t \in Steps, state'[t] \in {"done", "awaiting_reboot"},
               plan.kind[t] = "verify_ad_domain_join"
        PROVE  dom' = "ad"
    BY <1>0, <2>1, <2>4, <2>5 DEF StepsAreTrue, Truthful
  <2>6. ASSUME NEW t \in Steps, state'[t] \in {"done", "awaiting_reboot"},
               plan.kind[t] = "capture_autopilot_hash"
        PROVE  hash'
    BY <1>0, <2>1, <2>4, <2>6 DEF StepsAreTrue, Truthful
  <2> QED
    BY <1>0, <2>1, <2>3, <2>5, <2>6 DEF StepsAreTrue
<1>8. UNCHANGED <<plan, state, attempt, handed>> => UNCHANGED <<plan, state>>
  OBVIOUS
<1> QED
  BY <1>1, <1>2, <1>3, <1>4, <1>5, <1>6, <1>7, <1>8, CloudRowWriters

(* Where a process goes next, and the others stay.                         *)
LEMMA GotoEffect ==
    ASSUME CloudInv, NEW p \in Processes, NEW label \in Labels, Goto(p, label)
    PROVE  /\ pc' \in [Processes -> Labels]
           /\ pc'[p] = label
           /\ \A q \in Processes : q # p => pc'[q] = pc[q]
BY DEF CloudInv, CloudTypeOK, Goto

(* A step that moves one process, or none, to where it need not have       *)
(* earned anything.                                                        *)
LEMMA ControlStep ==
    ASSUME CloudInv, [CloudNext]_cloudVars, NEW p \in Processes, NEW label \in Labels,
           \/ Goto(p, label)
              /\ (label = "finish" => Earned)
              /\ (p = "monitor" /\ label = "persisted" => hash')
           \/ pc' = pc
    PROVE  /\ pc' \in [Processes -> Labels]
           /\ FinishIsEarned'
           /\ pc'["monitor"] = "persisted" => hash'
<1>0. "monitor" \in Processes
  BY DEF Processes
<1>1. /\ pc \in [Processes -> Labels]
      /\ \A q \in Processes : pc[q] = "finish" => Earned
      /\ pc["monitor"] = "persisted" => hash
      /\ Earned => Earned'
      /\ hash => hash'
  BY MachineStays DEF CloudInv, CloudTypeOK, FinishIsEarned, RecordsAreTrue
<1>2. CASE pc' = pc
  BY <1>1, <1>2 DEF FinishIsEarned
<1>3. CASE /\ Goto(p, label)
           /\ label = "finish" => Earned
           /\ p = "monitor" /\ label = "persisted" => hash'
  <2>1. /\ pc' \in [Processes -> Labels] /\ pc'[p] = label
        /\ \A q \in Processes : q # p => pc'[q] = pc[q]
    BY <1>3, GotoEffect
  <2>2. FinishIsEarned'
    BY <1>1, <1>3, <2>1 DEF FinishIsEarned
  <2>3. pc'["monitor"] = "persisted" => hash'
    BY <1>0, <1>1, <1>3, <2>1
  <2> QED
    BY <2>1, <2>2, <2>3
<1> QED
  BY <1>2, <1>3

(* Only the check of the steps sends a process to finish the run, and only *)
(* a captured hash sends the monitor to record one.                        *)
LEMMA ProcessesStep ==
    ASSUME CloudInv, [CloudNext]_cloudVars
    PROVE  /\ pc' \in [Processes -> Labels]
           /\ FinishIsEarned'
           /\ pc'["monitor"] = "persisted" => hash'
<1> DEFINE Moves(p, label) == Goto(p, label) /\ (label = "finish" => Earned)
                              /\ (p = "monitor" /\ label = "persisted" => hash')
           Goal == \E p \in Processes, label \in Labels : Moves(p, label) \/ pc' = pc
<1> SUFFICES Goal
  BY ControlStep
<1>0. Processes = {"register", "bridge", "web", "agent", "monitor"}
  BY DEF Processes
<1>1. CASE pc' = pc
  BY <1>0, <1>1 DEF Labels
<1>2. ASSUME NEW p \in Processes, MarkWaiting(p) PROVE Goal
  <2>1. \E label \in {"sync_check", "sync", "idle"} : Goto(p, label)
    BY <1>2 DEF MarkWaiting, Home
  <2> QED
    BY <2>1 DEF Labels
<1>3. CASE BridgeStep
  <2>1. \/ pc' = pc \/ Goto("bridge", "sync")
        \/ \E label \in {"found", "idle"} : Goto("register", label)
    BY <1>3 DEF BridgeStep, SetRunIdentity, PeRegister, MarkPeRegistered, AppendEvent, AppendErrorEvent
  <2> QED
    BY <1>0, <1>1, <2>1 DEF Labels
<1>4. CASE WebStep
  <2>1. MarkWaiting("web") \/ \E label \in {"sync", "requeued"} : Goto("web", label)
    BY <1>4 DEF WebStep, GetRun, RetryV2Step, ReopenRun
  <2> QED
    BY <1>0, <1>2, <2>1 DEF Labels
<1>5. CASE MachineStep
  BY <1>1, <1>5 DEF MachineStep, BootFullOs, RebootGuest, Heartbeat
<1>6. CASE AgentStep
  <2>1. \/ pc' = pc \/ MarkWaiting("agent")
        \/ \E label \in {"idle", "event"} : Goto("agent", label)
    BY <1>6 DEF AgentStep, SyncCloudOsdAfterStepResult, AgentClaims, AgentJoins, PostAgentHash,
                AgentRestarts, AgentPosts
  <2> QED
    BY <1>0, <1>1, <1>2, <2>1 DEF Labels
<1>7. ASSUME NEW p \in Processes, Drives(p) \/ CutOff(p) PROVE Goal
  <2>1. CASE CheckCompletion(p)
    <3>1. \/ V2CompletionStatus /\ Goto(p, "finish")
          \/ \E label \in {"sync", "idle"} : Goto(p, label)
      BY <2>1 DEF CheckCompletion, Home
    <3> QED
      BY <3>1, CompletionIsEarned DEF Labels
  <2>2. CASE Sync(p) \/ FinishRun(p) \/ MarkLabAssetsComplete(p) \/ CutOff(p)
    <3>1. \E label \in {"check", "idle", "sync", "promote"} : Goto(p, label)
      BY <2>2 DEF Sync, FinishRun, MarkLabAssetsComplete, CutOff, Home
    <3> QED
      BY <3>1 DEF Labels
  <2> QED
    BY <1>7, <2>1, <2>2 DEF Drives
<1>8. CASE MonitorStep
  <2>1. CASE CaptureHash
    <3>1. Goto("monitor", "persisted") /\ hash'
      BY <2>1 DEF CaptureHash
    <3> QED
      BY <1>0, <3>1 DEF Labels
  <2>2. CASE \/ RunPendingJoins \/ GuestExecFails \/ ProbeFindsDomain \/ ProbeFindsWorkgroup
             \/ AddComputer \/ MarkJoined \/ RunPendingHashCaptures \/ MarkCaptured
    <3>1. \E label \in {"probe", "hash", "advance", "add", "joined", "capture"} :
             Goto("monitor", label)
      BY <2>2 DEF RunPendingJoins, GuestExecFails, ProbeFindsDomain, ProbeFindsWorkgroup,
                  AddComputer, MarkJoined, RunPendingHashCaptures, MarkCaptured
    <3> QED
      BY <1>0, <3>1 DEF Labels
  <2>3. CASE AdvanceDomainJoinedRuns
    <3>1. MarkWaiting("monitor") \/ Goto("monitor", "idle")
      BY <2>3 DEF AdvanceDomainJoinedRuns
    <3> QED
      BY <1>0, <1>2, <3>1 DEF Labels
  <2> QED
    BY <1>0, <1>7, <1>8, <2>1, <2>2, <2>3 DEF MonitorStep
<1>9. CASE UNCHANGED cloudVars
  BY <1>1, <1>9 DEF cloudVars
<1> QED
  BY <1>3, <1>4, <1>5, <1>6, <1>7, <1>8, <1>9 DEF CloudNext

(* The evidence of a verified membership is recorded by the agent's result *)
(* and by the executor's probe, both of a machine in the domain.           *)
LEMMA EvidenceStep ==
    ASSUME CloudInv, [CloudNext]_cloudVars, "domain_join_verified" \in evidence'
    PROVE  dom' = "ad"
<1> SUFFICES "domain_join_verified" \in evidence \/ dom = "ad"
  BY MachineStays DEF CloudInv, RecordsAreTrue
<1>1. ASSUME NEW p \in Processes, MarkWaiting(p) PROVE "domain_join_verified" \in evidence
  BY <1>1 DEF MarkWaiting
<1>2. {"web", "agent", "monitor"} \subseteq Processes
  BY DEF Processes
<1>3. CASE BridgeStep
  BY <1>3 DEF BridgeStep, SetRunIdentity, PeRegister, MarkPeRegistered, AppendEvent, AppendErrorEvent, PeEvents
<1>4. CASE WebStep
  BY <1>1, <1>2, <1>4 DEF WebStep, GetRun, RetryV2Step, ReopenRun
<1>5. CASE MachineStep
  BY <1>5 DEF MachineStep, BootFullOs, RebootGuest, Heartbeat
<1>6. CASE AgentStep
  <2>1. ASSUME NEW a \in Agents, NEW s \in Steps, NEW st \in Statuses, AgentPosts(a, s, st)
        PROVE  "domain_join_verified" \in evidence \/ dom = "ad"
    BY <2>1 DEF AgentPosts, Truthful
  <2> QED
    BY <1>1, <1>2, <1>6, <2>1
       DEF AgentStep, SyncCloudOsdAfterStepResult, AgentClaims, AgentJoins, PostAgentHash,
           AgentRestarts
<1>7. ASSUME NEW p \in Processes, Drives(p) \/ CutOff(p) PROVE evidence' = evidence
  BY <1>7 DEF Drives, Sync, CheckCompletion, FinishRun, MarkLabAssetsComplete, CutOff
<1>8. CASE MonitorStep
  BY <1>1, <1>2, <1>7, <1>8
     DEF MonitorStep, RunPendingJoins, GuestExecFails, ProbeFindsDomain, ProbeFindsWorkgroup,
         AddComputer, MarkJoined, RunPendingHashCaptures, CaptureHash, MarkCaptured,
         AdvanceDomainJoinedRuns
<1>9. CASE UNCHANGED cloudVars
  BY <1>9 DEF cloudVars
<1> QED
  BY <1>3, <1>4, <1>5, <1>6, <1>7, <1>8, <1>9 DEF CloudNext

(* How a step changes cloudosd_runs.state: only FinishRun completes a run, *)
(* only an error event fails one, and neither outcome is taken back but by *)
(* a late registration or by an operator's retry of a failed run.          *)
LEMMA RunRowStep ==
    ASSUME CloudInv, [CloudNext]_cloudVars
    PROVE  /\ cstate' = "complete" => cstate = "complete" \/ Earned
           /\ cstate' = "failed" => cstate = "failed" \/ os' # "off"
           /\ cstate = "complete" => cstate' = "complete" \/ Overtaken
           /\ cstate = "failed" => cstate' = "failed" \/ Overtaken \/ Reopened
<1> DEFINE Goal ==
        /\ cstate' = "complete" => cstate = "complete" \/ Earned
        /\ cstate' = "failed" => cstate = "failed" \/ os' # "off"
        /\ cstate = "complete" => cstate' = "complete" \/ Overtaken
        /\ cstate = "failed" => cstate' = "failed" \/ Overtaken \/ Reopened
<1>0. CASE UNCHANGED cstate
  BY <1>0
<1>1. ASSUME NEW p \in Processes, MarkWaiting(p) PROVE Goal
  BY <1>1 DEF MarkWaiting
<1>2. {"web", "agent", "monitor"} \subseteq Processes
  BY DEF Processes
<1>3. CASE BridgeStep
  <2>1. CASE SetRunIdentity
    <3>1. os = "off" /\ cstate' = "awaiting_pe"
      BY <2>1 DEF SetRunIdentity
    <3>2. cstate # "failed" /\ cstate # "complete"
      BY <3>1 DEF CloudInv, NothingBeforeBoot, CompleteIsEarned
    <3> QED
      BY <3>1, <3>2
  <2>2. CASE PeRegister \/ MarkPeRegistered
    BY <2>2, <1>0 DEF PeRegister, MarkPeRegistered, Overtaken
  <2>3. CASE AppendErrorEvent
    BY <2>3 DEF AppendErrorEvent, MarkFailed, machineVars
  <2>4. ASSUME NEW e \in Evidence, AppendEvent(e) PROVE Goal
    BY <2>4, <1>0 DEF AppendEvent
  <2> QED
    BY <1>3, <2>1, <2>2, <2>3, <2>4 DEF BridgeStep
<1>4. CASE WebStep
  <2>1. ASSUME NEW s \in Steps, RetryV2Step(s) PROVE Goal
    BY <1>0, <2>1 DEF RetryV2Step
  <2>3. CASE ReopenRun
    BY <2>3 DEF ReopenRun, Reopened
  <2>2. CASE GetRun
    BY <1>0, <1>1, <1>2, <2>2 DEF GetRun
  <2> QED
    BY <1>4, <2>1, <2>2, <2>3 DEF WebStep
<1>5. CASE MachineStep
  BY <1>0, <1>5 DEF MachineStep, BootFullOs, RebootGuest, Heartbeat
<1>6. CASE AgentStep
  <2>1. MarkWaiting("agent") \/ UNCHANGED cstate
    BY <1>6 DEF AgentStep, SyncCloudOsdAfterStepResult, AgentClaims, AgentJoins, PostAgentHash,
                AgentRestarts, AgentPosts
  <2> QED
    BY <1>0, <1>1, <1>2, <2>1
<1>7. ASSUME NEW p \in Processes, Drives(p) \/ CutOff(p) PROVE Goal
  <2>1. CASE FinishRun(p)
    <3>1. Earned
      BY <2>1 DEF FinishRun, CloudInv, FinishIsEarned
    <3> QED
      BY <2>1, <3>1 DEF FinishRun
  <2>2. CASE ~FinishRun(p)
    BY <1>0, <1>7, <2>2 DEF Drives, Sync, CheckCompletion, MarkLabAssetsComplete, CutOff
  <2> QED
    BY <2>1, <2>2
<1>8. CASE MonitorStep
  <2>1. Drives("monitor") \/ MarkWaiting("monitor") \/ UNCHANGED cstate
    BY <1>8
       DEF MonitorStep, RunPendingJoins, GuestExecFails, ProbeFindsDomain, ProbeFindsWorkgroup,
           AddComputer, MarkJoined, RunPendingHashCaptures, CaptureHash, MarkCaptured,
           AdvanceDomainJoinedRuns
  <2> QED
    BY <1>0, <1>1, <1>2, <1>7, <2>1
<1>9. CASE UNCHANGED cloudVars
  BY <1>0, <1>9 DEF cloudVars
<1> QED
  BY <1>3, <1>4, <1>5, <1>6, <1>7, <1>8, <1>9 DEF CloudNext

(* The machine: what happens before Windows boots.                         *)
LEMMA BootStep ==
    ASSUME CloudInv, [CloudNext]_cloudVars
    PROVE  NothingBeforeBoot'
<1> DEFINE Goal == /\ os' \in {"off", "pe"} => /\ os \in {"off", "pe"}
                                               /\ UNCHANGED <<dom, hash>>
                                               /\ pc'["monitor"] = "joined" => pc["monitor"] = "joined"
                   /\ os' = "off" => os = "off"
<1> SUFFICES Goal
  BY RunRowStep DEF CloudInv, NothingBeforeBoot
<1>0. /\ pc \in [Processes -> Labels] /\ {"register", "bridge", "web", "agent", "monitor"} \subseteq Processes
      /\ os \in {"off", "pe"} => pc["monitor"] # "joined"
  BY DEF CloudInv, CloudTypeOK, Processes, NothingBeforeBoot
<1>1. ASSUME NEW p \in Processes, NEW label, label # "joined", Goto(p, label)
      PROVE  pc'["monitor"] = "joined" => pc["monitor"] = "joined"
  BY <1>0, <1>1 DEF Goto
<1>2. CASE /\ UNCHANGED <<os, dom, hash>>
           /\ pc' = pc \/ \E p \in Processes, label \in Labels \ {"joined"} : Goto(p, label)
  BY <1>1, <1>2
<1>3. ASSUME NEW p \in Processes, MarkWaiting(p)
      PROVE  \E label \in {"sync_check", "sync", "idle"} : Goto(p, label)
  BY <1>3 DEF MarkWaiting, Home
<1> USE DEF machineVars, Labels
<1>4. CASE BridgeStep
  <2>1. CASE SetRunIdentity
    BY <1>0, <2>1 DEF SetRunIdentity
  <2>2. CASE ~SetRunIdentity
    BY <1>0, <1>2, <1>4, <2>2 DEF BridgeStep, PeRegister, MarkPeRegistered, AppendEvent, AppendErrorEvent
  <2> QED
    BY <2>1, <2>2
<1>5. CASE WebStep
  BY <1>0, <1>2, <1>3, <1>5 DEF WebStep, GetRun, RetryV2Step, ReopenRun
<1>6. CASE MachineStep
  BY <1>6 DEF MachineStep, BootFullOs, RebootGuest, Heartbeat
<1>7. CASE AgentStep
  <2>1. ASSUME NEW a \in Agents, AgentJoins(a) \/ PostAgentHash(a) PROVE Goal
    BY <2>1 DEF AgentJoins, PostAgentHash, Working
  <2>2. CASE SyncCloudOsdAfterStepResult
    BY <1>0, <1>2, <1>3, <2>2 DEF SyncCloudOsdAfterStepResult
  <2>3. ASSUME NEW a \in Agents,
               \/ AgentClaims(a) \/ AgentRestarts(a)
               \/ \E s \in Steps, st \in Statuses : AgentPosts(a, s, st)
        PROVE  Goal
    BY <1>0, <1>2, <2>3 DEF AgentClaims, AgentRestarts, AgentPosts
  <2> QED
    BY <1>7, <2>1, <2>2, <2>3 DEF AgentStep
<1>8. ASSUME NEW p \in Processes, Drives(p) \/ CutOff(p) PROVE Goal
  <2>1. \E label \in {"check", "idle", "finish", "sync", "promote"} : Goto(p, label)
    BY <1>8 DEF Drives, Sync, CheckCompletion, FinishRun, MarkLabAssetsComplete, CutOff, Home
  <2>2. UNCHANGED machineVars
    BY <1>8 DEF Drives, Sync, CheckCompletion, FinishRun, MarkLabAssetsComplete, CutOff
  <2> QED
    BY <1>2, <2>1, <2>2
<1>9. CASE MonitorStep
  <2>1. CASE AddComputer \/ CaptureHash
    BY <2>1 DEF AddComputer, CaptureHash
  <2>2. CASE MarkJoined
    BY <1>0, <2>2 DEF MarkJoined
  <2>3. CASE \/ RunPendingJoins \/ GuestExecFails \/ ProbeFindsDomain \/ ProbeFindsWorkgroup
             \/ RunPendingHashCaptures \/ MarkCaptured
    BY <1>0, <1>2, <2>3
       DEF RunPendingJoins, GuestExecFails, ProbeFindsDomain, ProbeFindsWorkgroup,
           RunPendingHashCaptures, MarkCaptured
  <2>4. CASE AdvanceDomainJoinedRuns
    BY <1>0, <1>2, <1>3, <2>4 DEF AdvanceDomainJoinedRuns
  <2> QED
    BY <1>0, <1>8, <1>9, <2>1, <2>2, <2>3, <2>4 DEF MonitorStep
<1>10. CASE UNCHANGED cloudVars
  BY <1>2, <1>10 DEF cloudVars
<1> QED
  BY <1>4, <1>5, <1>6, <1>7, <1>8, <1>9, <1>10 DEF CloudNext

(* No step breaks the invariant.                                           *)
LEMMA CloudStepInv == CloudInv /\ [CloudNext]_cloudVars => CloudInv'
<1> SUFFICES ASSUME CloudInv, [CloudNext]_cloudVars PROVE CloudInv'
  OBVIOUS
<1>1. CloudTypeOK' /\ StepsAreTrue' /\ FinishIsEarned'
  BY StepsStep, ProcessesStep DEF CloudTypeOK
<1>2. RecordsAreTrue'
  BY <1>1, EvidenceStep, ProcessesStep DEF RecordsAreTrue
<1>3. CompleteIsEarned'
  <2>1. cstate' = "complete" => Earned
    BY RunRowStep DEF CloudInv, CompleteIsEarned, Earned
  <2>2. cstate' = "complete" => Earned'
    BY <2>1, MachineStays
  <2> QED
    BY <2>2 DEF CompleteIsEarned, Earned
<1> QED
  BY <1>1, <1>2, <1>3, BootStep DEF CloudInv

-----------------------------------------------------------------------------
(* The theorems                                                            *)

(* The invariant holds whatever order the five processes run in.           *)
THEOREM CloudInvariant == CloudSafeSpec => []CloudInv
BY CloudInitInv, CloudStepInv, PTL DEF CloudSafeSpec

(* mark_complete_from_heartbeat reads the steps in one transaction and     *)
(* completes the run in a later one: a run reported complete is still of a *)
(* machine in its domain, with its hash on disk.                           *)
THEOREM CompleteRunsAreEarned == CloudSafeSpec => []CompleteIsEarned
<1>1. CloudInv => CompleteIsEarned
  BY DEF CloudInv
<1> QED
  BY <1>1, CloudInvariant, PTL

(* The agent, the executor and the evidence sync mark the verification     *)
(* done only when the machine is in the domain.                            *)
THEOREM VerifiedRunsAreJoined == CloudSafeSpec => []VerifiedIsJoined
<1>1. CloudInv => VerifiedIsJoined
  BY VerifiedFromRecords DEF VerifiedIsJoined
<1> QED
  BY <1>1, CloudInvariant, PTL

(* mark_failed and mark_complete_from_heartbeat may race: neither takes    *)
(* back the other's outcome.  What does is the second commit of a retry,   *)
(* which reopens a failed run, and the UPDATE of a registration that found *)
(* the run before the outcome was written.                                 *)
THEOREM OutcomesAreFinal == CloudSafeSpec => OutcomeIsFinal
<1>1. CloudInv /\ [CloudNext]_cloudVars =>
        [/\ cstate = "complete" => cstate' = "complete" \/ Overtaken
         /\ cstate = "failed" => cstate' = "failed" \/ Overtaken \/ Reopened]_cloudVars
  BY RunRowStep
<1> QED
  BY <1>1, CloudInvariant, PTL DEF CloudSafeSpec, OutcomeIsFinal

-----------------------------------------------------------------------------
(* The engine's own promises, with CloudOSD around it                      *)

(* create_run leaves the rows of the plan as the engine made them.         *)
LEMMA CloudNewRows == CloudInit => RowsInv
<1> SUFFICES ASSUME CloudInit PROVE RowsInv
  OBVIOUS
<1>1. state \in [Steps -> {"pending", "skipped"}]
  BY DEF CloudInit
<1> QED
  BY <1>1, NewRows DEF CloudInit

(* Evidence, executor, agent and operator write rows only the way the      *)
(* engine's own handlers do.                                               *)
LEMMA CloudRowsStep == RowsInv /\ [CloudNext]_cloudVars => RowsInv'
<1> SUFFICES ASSUME RowsInv, [CloudNext]_cloudVars PROVE RowsInv'
  OBVIOUS
<1>1. CASE UNCHANGED <<plan, state, attempt, handed>>
  BY <1>1, RowsKept
<1>2. ASSUME NEW p \in Processes, Sync(p) PROVE RowsInv'
  <2>1. UNCHANGED <<plan, state, attempt, handed>> \/ MarkStepsDoneByKind(DoneKinds)
    BY <1>2 DEF Sync, SyncTsProgressForRun, engineVars, vars
  <2> QED
    BY <1>1, <2>1, RowsAfterMark
<1>3. CASE ProbeFindsDomain \/ MarkJoined \/ MarkCaptured
  BY <1>3, RowsAfterMark DEF ProbeFindsDomain, MarkJoined, MarkCaptured
<1>4. ASSUME NEW s \in Steps, RetryV2Step(s) PROVE RowsInv'
  BY <1>4, RowsAfterRequeue DEF RetryV2Step
<1>5. ASSUME NEW a \in Agents, AgentClaims(a) PROVE RowsInv'
  BY <1>5, RowsAfterClaim DEF AgentClaims
<1>6. ASSUME NEW a \in Agents, AgentRestarts(a) PROVE RowsInv'
  BY <1>6, RowsAfterReboot DEF AgentRestarts, RegisterAgent
<1>7. ASSUME NEW a \in Agents, NEW s \in Steps, NEW status \in Statuses, AgentPosts(a, s, status)
      PROVE  RowsInv'
  BY <1>7, RowsAfterResult DEF AgentPosts, PostStepResult
<1> QED
  BY <1>1, <1>2, <1>3, <1>4, <1>5, <1>6, <1>7, CloudRowWriters

(* set_run_identity, mark_failed and mark_complete_from_heartbeat write    *)
(* the engine's run_state as they like, and three processes besides the    *)
(* agent close and requeue steps: still no step is attempted more often    *)
(* than its retry_count allows between two operator retries ...            *)
THEOREM CloudKeepsRetryBudget == CloudSafeSpec => []RetryBudget
<1>1. RowsInv => RetryBudget
  BY DEF RowsInv
<1> QED
  BY <1>1, CloudNewRows, CloudRowsStep, PTL DEF CloudSafeSpec

(* ... and no agent is handed a step before the earlier ones of its phase  *)
(* were handed out or closed by evidence, and stay so: claim_next_step     *)
(* next to mark_steps_done_by_kind of the monitor and of every page view.  *)
THEOREM CloudKeepsPlanOrder == CloudSafeSpec => []PlanOrder
<1>1. RowsInv => PlanOrder
  BY DEF RowsInv
<1> QED
  BY <1>1, CloudNewRows, CloudRowsStep, PTL DEF CloudSafeSpec

=============================================================================
