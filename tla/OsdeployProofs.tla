---------------------------- MODULE OsdeployProofs ----------------------------
(* Proofs about OsdeployRun, for every role, any number of agents, of      *)
(* children of the bundle and of faults.  The lemmas on the engine's rows  *)
(* come from TaskEngineProofs.                                             *)
EXTENDS OsdeployRun, TaskEngineProofs

(* What a complete run promises.  Both parts stay true: the playbook never *)
(* goes back to PE, and the machine does not undo its role.                *)
Earned == os = "full_os" /\ (ServerRole # "base" => FinalRoleStepKind \in did)

(* The playbook boots Windows after it has started the clone, once.        *)
BootedAfterClone == os = "full_os" => job \notin {"none", "clone"}

(* A final role step is closed by a success of the agent only: neither the *)
(* PE events nor the heartbeats close it.                                  *)
RoleStepWasDone ==
    ServerRole # "base" =>
        \A s \in Steps : plan.kind[s] = FinalRoleStepKind /\ state[s] \in {"done", "awaiting_reboot"}
                             => Earned

AllComplete(states) == \A s \in states : s = "complete"

(* What a handler has read, and will write later.                          *)
InFlightIsEarned ==
    /\ hb # "idle" => os = "full_os"
    /\ hb \in {"was_complete", "writes_complete"} => Earned
    /\ apc = "success" => Earned
    /\ seen # None /\ AllComplete(seen) => Siblings \subseteq served

(* The other children: each was configured before its row or its result    *)
(* handler says so, and what a handler has read of the rest was true.      *)
SiblingsAreEarned ==
    \A c \in Siblings :
        /\ sibling[c] = "complete" \/ spc[c] = "success" => c \in served
        /\ spc[c] # "idle" /\ AllComplete(sseen[c]) => Earned /\ Siblings \ {c} \subseteq served

SiblingsTypeOK ==
    /\ sibling = [c \in Siblings |-> sibling[c]]
    /\ spc = [c \in Siblings |-> spc[c]]
    /\ sseen = [c \in Siblings |-> sseen[c]]
    /\ served \subseteq Siblings

OsdInv ==
    /\ state \in [Steps -> StepStates]
    /\ BootedAfterClone
    /\ RoleStepWasDone
    /\ InFlightIsEarned
    /\ SiblingsTypeOK
    /\ SiblingsAreEarned
    /\ readiness = "complete" => Earned
    /\ CompleteIsEarned
    /\ BundleIsEarned

-----------------------------------------------------------------------------
(* The generated plan                                                      *)

(* The step a role ends with is one of its own: no PE event is about it    *)
(* (PeEventKinds), and heartbeats leave it alone (HeartbeatKinds).         *)
LEMMA FinalRoleStepIsTheRoles ==
    ASSUME ServerRole # "base"
    PROVE  /\ FinalRoleStepKind \notin HeartbeatKinds
           /\ \A i \in 1..Len(PeEventKinds) : FinalRoleStepKind \notin PeEventKinds[i]
<1> DEFINE kinds == RoleStepKinds(ServerRole)
           join  == IF DomainJoin THEN <<"join_domain_role", "verify_ad_domain_join">> ELSE <<>>
           names == {"join_domain_role", "verify_ad_domain_join", "configure_file_server_role",
                     "configure_isolated_domain_controller_role",
                     "verify_isolated_domain_controller_role", "configure_mecm_prereq_role"}
<1>1. \/ kinds = <<"configure_file_server_role">>
      \/ kinds = <<"configure_mecm_prereq_role">>
      \/ kinds = <<"configure_isolated_domain_controller_role",
                   "verify_isolated_domain_controller_role">>
  BY OsdeployAssumption DEF RoleStepKinds
<1>2. /\ FinalRoleStepKind = kinds[Len(kinds)]
      /\ Len(kinds) \in Nat \ {0} /\ kinds \in Seq(names)
      /\ FinalRoleStepKind \in {"configure_file_server_role", "configure_mecm_prereq_role",
                                "verify_isolated_domain_controller_role"}
  <2>1. FinalRoleStepKind = IF kinds = <<>> THEN None ELSE kinds[Len(kinds)]
    BY DEF FinalRoleStepKind
  <2> HIDE DEF kinds
  <2>2. CASE kinds = <<"configure_file_server_role">>
    BY <2>1, <2>2
  <2>3. CASE kinds = <<"configure_isolated_domain_controller_role",
                       "verify_isolated_domain_controller_role">>
    BY <2>1, <2>3
  <2>4. CASE kinds = <<"configure_mecm_prereq_role">>
    BY <2>1, <2>4
  <2> QED
    BY <1>1, <2>2, <2>3, <2>4
<1>3. join \in Seq(names)
  <2>1. <<"join_domain_role", "verify_ad_domain_join">> \in Seq(names)
    OBVIOUS
  <2>2. <<>> \in Seq(names)
    OBVIOUS
  <2> QED
    BY <2>1, <2>2
<1>4. GeneratedStepKinds = join \o kinds
  BY DEF GeneratedStepKinds
<1> HIDE DEF kinds, join, names
<1>5. /\ Len(join) + Len(kinds) \in 1..Len(GeneratedStepKinds)
      /\ GeneratedStepKinds[Len(join) + Len(kinds)] = FinalRoleStepKind
  BY <1>2, <1>3, <1>4
<1>6. FinalRoleStepKind \in RoleActionKinds
  BY <1>5 DEF RoleActionKinds
<1> QED
  BY <1>2, <1>6 DEF HeartbeatKinds, PeEventKinds

-----------------------------------------------------------------------------
(* The invariant is inductive                                              *)

(* Nothing has been provisioned, read or reported at first.                *)
LEMMA OsdInitInv == OsdInit => OsdInv
BY DEF OsdInit, OsdInv, StepStates, BootedAfterClone, RoleStepWasDone, InFlightIsEarned,
       SiblingsTypeOK, SiblingsAreEarned, Earned, CompleteIsEarned, BundleIsEarned

(* No step takes back what a complete run promises.                        *)
LEMMA EarnedStays ==
    ASSUME OsdInv, [OsdNext]_osdVars
    PROVE  /\ os = "full_os" => os' = "full_os"
           /\ Earned => Earned'
           /\ BootedAfterClone'
<1> USE DEF OsdInv, BootedAfterClone, Earned, machineVars, jobVars
<1>1. CASE JobStep
  BY <1>1 DEF JobStep, ProvisionRun, SetRunIdentity, JobGivesUp, JobSeesPe, JobBootsDisk,
              JobSeesOutcome, JobWaits, JobFails
<1>2. CASE BuilderStep \/ ReconcileFailedRelatedDeployments \/ BridgeStep
  BY <1>2 DEF BuilderStep, ReadForFailure, MarkFailedFromJob, ReconcileFailedRelatedDeployments,
              BridgeStep, RegisterPeByIdentity, RegisterPe, MarkPeRegistered, AppendRegistered,
              AppendEvent
<1>3. CASE HeartbeatStep \/ RoleResultStep \/ SiblingStep \/ CutOff
  BY <1>3 DEF HeartbeatStep, HeartbeatArrives, HeartbeatDecides, HeartbeatWrites,
              RoleResultStep, RoleResultReads, MarkRoleStepResult, SiblingStep,
              SiblingMoves, SiblingReads, SiblingResult, CutOff
<1>4. CASE AgentStep
  BY <1>4 DEF AgentStep, AgentClaims, AgentWorks, AgentRestarts, AgentPosts
<1>5. CASE UNCHANGED osdVars
  BY <1>5 DEF osdVars
<1> QED
  BY <1>1, <1>2, <1>3, <1>4, <1>5 DEF OsdNext

(* What closes steps by kind closes no final role step.                    *)
LEMMA ClosedByKind ==
    ASSUME OsdInv, [OsdNext]_osdVars, NEW kinds, MarkStepsDoneByKind(kinds),
           ServerRole # "base" => FinalRoleStepKind \notin kinds
    PROVE  state' \in [Steps -> StepStates] /\ RoleStepWasDone'
<1>1. state' \in [Steps -> StepStates] /\ plan' = plan
  BY DEF OsdInv, MarkStepsDoneByKind, StepStates
<1>2. \A s \in Steps : plan.kind[s] \notin kinds => state'[s] = state[s]
  BY DEF MarkStepsDoneByKind
<1> QED
  BY <1>1, <1>2, EarnedStays DEF OsdInv, RoleStepWasDone

(* The writers of the plan's rows: everything else that OSDeploy does to   *)
(* the engine it does to the row of the run.                               *)
LEMMA OsdRowWriters ==
    ASSUME [OsdNext]_osdVars
    PROVE  \/ UNCHANGED <<plan, state, attempt, handed>>
           \/ AppendRegistered \/ AppendEvent \/ HeartbeatArrives
           \/ \E a \in Agents : \/ AgentClaims(a) \/ AgentRestarts(a)
                                \/ \E s \in Steps, st \in Statuses : AgentPosts(a, s, st)
<1> USE DEF engineVars, vars, SetEngineState
<1>1. CASE JobStep \/ BuilderStep \/ ReconcileFailedRelatedDeployments
  BY <1>1 DEF JobStep, ProvisionRun, SetRunIdentity, JobGivesUp, JobSeesPe, JobBootsDisk,
              JobSeesOutcome, BuilderStep, ReadForFailure, MarkFailedFromJob,
              ReconcileFailedRelatedDeployments
<1>2. CASE BridgeStep
  BY <1>2 DEF BridgeStep, RegisterPeByIdentity, RegisterPe, MarkPeRegistered
<1>3. CASE HeartbeatStep \/ RoleResultStep
  BY <1>3 DEF HeartbeatStep, HeartbeatDecides, HeartbeatWrites, RoleResultStep,
              RoleResultReads, MarkRoleStepResult
<1>4. CASE AgentStep
  BY <1>4 DEF AgentStep, AgentWorks
<1>5. CASE SiblingStep \/ CutOff \/ UNCHANGED osdVars
  BY <1>5 DEF SiblingStep, SiblingMoves, SiblingReads, SiblingResult, CutOff, osdVars
<1> QED
  BY <1>1, <1>2, <1>3, <1>4, <1>5 DEF OsdNext

(* The steps: only a success the agent has earned closes a final one.      *)
LEMMA RoleStepWasDoneStep ==
    ASSUME OsdInv, [OsdNext]_osdVars
    PROVE  state' \in [Steps -> StepStates] /\ RoleStepWasDone'
<1> USE DEF OsdInv
<1>1. CASE UNCHANGED <<plan, state>>
  BY <1>1, EarnedStays DEF RoleStepWasDone
<1>2. CASE AppendRegistered
  <2>1. 1 \in 1..Len(PeEventKinds) /\ MarkStepsDoneByKind(PeEventKinds[1])
    BY <1>2 DEF AppendRegistered, PeEventKinds
  <2> QED
    BY <2>1, FinalRoleStepIsTheRoles, ClosedByKind
<1>3. CASE AppendEvent
  <2>1. peDone + 1 \in 1..Len(PeEventKinds) /\ MarkStepsDoneByKind(PeEventKinds[peDone + 1])
    BY <1>3 DEF AppendEvent, PeEventKinds
  <2> QED
    BY <2>1, FinalRoleStepIsTheRoles, ClosedByKind
<1>4. CASE HeartbeatArrives
  BY <1>4, FinalRoleStepIsTheRoles, ClosedByKind DEF HeartbeatArrives
<1>5. ASSUME NEW a \in Agents, AgentClaims(a)
      PROVE  state' \in [Steps -> StepStates] /\ RoleStepWasDone'
  <2>1. PICK t \in Steps : state' = [state EXCEPT ![t] = "running"] /\ plan' = plan
    BY <1>5 DEF AgentClaims, ClaimNextStep
  <2> QED
    BY <2>1, EarnedStays DEF RoleStepWasDone, StepStates
<1>6. ASSUME NEW a \in Agents, AgentRestarts(a)
      PROVE  state' \in [Steps -> StepStates] /\ RoleStepWasDone'
  <2>1. /\ state[cursor] = "awaiting_reboot"
        /\ state' = [state EXCEPT ![cursor] = "done"] /\ plan' = plan
    BY <1>6 DEF AgentRestarts, RegisterAgent, MarkRebootComplete
  <2>2. state' \in [Steps -> StepStates]
    BY <2>1 DEF StepStates
  <2>3. \A s \in Steps : \/ state'[s] = state[s]
                         \/ state[s] = "awaiting_reboot"
    BY <2>1
  <2> QED
    BY <2>1, <2>2, <2>3, EarnedStays DEF RoleStepWasDone
<1>7. ASSUME NEW a \in Agents, NEW t \in Steps, NEW status \in Statuses, AgentPosts(a, t, status)
      PROVE  state' \in [Steps -> StepStates] /\ RoleStepWasDone'
  <2> DEFINE outcome == StepOutcome(t, status, attempt[t])
  <2>1. /\ os = "full_os" /\ status \in {"success", "failed"}
        /\ status = "success" => plan.kind[t] \in did
        /\ state' = [state EXCEPT ![t] = outcome] /\ plan' = plan
        /\ UNCHANGED <<os, did>>
    BY <1>7 DEF AgentPosts, PostStepResult, CompleteStep, machineVars
  <2>2. /\ outcome \in StepStates
        /\ outcome \in {"done", "awaiting_reboot"} => status = "success"
    BY <2>1 DEF StepOutcome, StepStates
  <2> HIDE DEF outcome
  <2>3. ASSUME NEW s \in Steps, ServerRole # "base", plan'.kind[s] = FinalRoleStepKind,
               state'[s] \in {"done", "awaiting_reboot"}
        PROVE  Earned'
    <3>1. CASE s = t
      BY <2>1, <2>2, <2>3, <3>1 DEF Earned
    <3>2. CASE s # t
      BY <2>1, <2>3, <3>2, EarnedStays DEF RoleStepWasDone
    <3> QED
      BY <3>1, <3>2
  <2> QED
    BY <2>1, <2>2, <2>3 DEF RoleStepWasDone
<1>8. UNCHANGED <<plan, state, attempt, handed>> => UNCHANGED <<plan, state>>
  OBVIOUS
<1> QED
  BY <1>1, <1>2, <1>3, <1>4, <1>5, <1>6, <1>7, <1>8, OsdRowWriters

(* A bundle is complete only if every child whose state was read is.       *)
LEMMA BundleComplete ==
    ASSUME NEW s, NEW S, SyncBundleState({s} \cup S) = "complete"
    PROVE  s = "complete" /\ AllComplete(S)
BY DEF SyncBundleState, AllComplete

(* The other children: their own steps, and this run's that they read.     *)
LEMMA SiblingsStep ==
    ASSUME OsdInv, [OsdNext]_osdVars
    PROVE  /\ SiblingsTypeOK' /\ SiblingsAreEarned'
           /\ served \subseteq served'
<1> USE DEF OsdInv, SiblingsTypeOK, AllComplete
<1>0. Earned => Earned'
  BY EarnedStays
<1>1. CASE UNCHANGED siblingVars
  BY <1>0, <1>1 DEF siblingVars, SiblingsAreEarned
<1>2. ASSUME NEW c \in Siblings, SiblingMoves(c)
      PROVE  SiblingsTypeOK' /\ SiblingsAreEarned' /\ served' = served
  <2>1. UNCHANGED <<served, spc, sseen>>
    BY <1>2 DEF SiblingMoves
  <2>2. /\ sibling' = [d \in Siblings |-> sibling'[d]]
        /\ \A d \in Siblings : sibling'[d] = "complete" => sibling[d] = "complete" \/ d \in served
    BY <1>2 DEF SiblingMoves
  <2> QED
    BY <1>0, <2>1, <2>2 DEF SiblingsAreEarned
<1>3. ASSUME NEW c \in Siblings, SiblingReads(c)
      PROVE  SiblingsTypeOK' /\ SiblingsAreEarned' /\ served \subseteq served'
  <2>1. /\ UNCHANGED sibling
        /\ spc' = [d \in Siblings |-> spc'[d]]
        /\ served \subseteq served' /\ served' \subseteq Siblings
        /\ spc'[c] = "success" => c \in served'
        /\ \A d \in Siblings \ {c} : spc'[d] = spc[d]
    BY <1>3 DEF SiblingReads
  <2>2. /\ sseen' = [d \in Siblings |-> sseen'[d]]
        /\ sseen'[c] = {dstate} \cup {sibling[d] : d \in Siblings \ {c}}
        /\ \A d \in Siblings \ {c} : sseen'[d] = sseen[d]
    BY <1>3 DEF SiblingReads
  <2>3. AllComplete(sseen'[c]) => Earned /\ Siblings \ {c} \subseteq served
    BY <2>2 DEF CompleteIsEarned, Earned, SiblingsAreEarned
  <2> QED
    BY <1>0, <2>1, <2>2, <2>3 DEF SiblingsAreEarned
<1>4. ASSUME NEW c \in Siblings, SiblingResult(c)
      PROVE  SiblingsTypeOK' /\ SiblingsAreEarned' /\ served' = served
  <2>1. /\ spc[c] # "idle" /\ served' = served
        /\ sibling' = [sibling EXCEPT ![c] = IF spc[c] = "success" THEN "complete" ELSE "failed"]
        /\ spc' = [spc EXCEPT ![c] = "idle"]
        /\ sseen' = [sseen EXCEPT ![c] = None]
    BY <1>4 DEF SiblingResult
  <2>2. /\ sibling' = [d \in Siblings |-> sibling'[d]]
        /\ spc' = [d \in Siblings |-> spc'[d]]
        /\ sseen' = [d \in Siblings |-> sseen'[d]]
    BY <2>1
  <2>3. \A d \in Siblings : /\ sibling'[d] = "complete" => sibling[d] = "complete" \/ spc[d] = "success"
                            /\ spc'[d] \in {spc[d], "idle"}
                            /\ spc'[d] # "idle" => sseen'[d] = sseen[d]
    BY <2>1
  <2> QED
    BY <1>0, <2>1, <2>2, <2>3 DEF SiblingsAreEarned
<1>5. UNCHANGED siblingVars
      \/ \E c \in Siblings : SiblingMoves(c) \/ SiblingReads(c) \/ SiblingResult(c)
  <2> USE DEF bundleVars
  <2>1. CASE JobStep
    BY <2>1 DEF JobStep, ProvisionRun, SetRunIdentity, JobGivesUp, JobSeesPe, JobBootsDisk,
                JobSeesOutcome
  <2>2. CASE BuilderStep \/ ReconcileFailedRelatedDeployments \/ BridgeStep
    BY <2>2 DEF BuilderStep, ReadForFailure, MarkFailedFromJob,
                ReconcileFailedRelatedDeployments, BridgeStep, RegisterPeByIdentity,
                RegisterPe, MarkPeRegistered, AppendRegistered, AppendEvent
  <2>3. CASE HeartbeatStep \/ RoleResultStep \/ SiblingStep \/ CutOff
    BY <2>3 DEF HeartbeatStep, HeartbeatArrives, HeartbeatDecides, HeartbeatWrites,
                RoleResultStep, RoleResultReads, MarkRoleStepResult, SiblingStep, CutOff
  <2>4. CASE AgentStep
    BY <2>4 DEF AgentStep, AgentClaims, AgentWorks, AgentRestarts, AgentPosts
  <2>5. CASE UNCHANGED osdVars
    BY <2>5 DEF osdVars
  <2> QED
    BY <2>1, <2>2, <2>3, <2>4, <2>5 DEF OsdNext
<1> QED
  BY <1>1, <1>2, <1>3, <1>4, <1>5 DEF siblingVars

(* The rows and what the handlers hold, group by group.                    *)
LEMMA OsdRowsStep ==
    ASSUME OsdInv, [OsdNext]_osdVars
    PROVE  /\ InFlightIsEarned'
           /\ (readiness = "complete" => Earned)'
           /\ CompleteIsEarned'
           /\ BundleIsEarned'
<1> DEFINE Goal == /\ InFlightIsEarned'
                   /\ (readiness = "complete" => Earned)'
                   /\ CompleteIsEarned'
                   /\ BundleIsEarned'
<1> USE DEF OsdInv, InFlightIsEarned, CompleteIsEarned, BundleIsEarned, rowVars, bundleVars,
            machineVars, agentVars, AllComplete
<1>0. /\ os = "full_os" => os' = "full_os"
      /\ Earned => Earned'
      /\ served \subseteq served' /\ served' \subseteq Siblings
  BY EarnedStays, SiblingsStep DEF SiblingsTypeOK
<1>1. Earned <=> os = "full_os" /\ (ServerRole # "base" => FinalRoleStepKind \in did)
  BY DEF Earned
<1>2. Earned' <=> os' = "full_os" /\ (ServerRole # "base" => FinalRoleStepKind \in did')
  BY DEF Earned
<1>3. CASE /\ UNCHANGED <<dstate, readiness, bundle, hb, apc, seen>>
           /\ did \subseteq did'
  BY <1>0, <1>1, <1>2, <1>3
<1>4. CASE SetRunIdentity \/ MarkPeRegistered
  BY <1>0, <1>1, <1>2, <1>4 DEF SetRunIdentity, MarkPeRegistered
<1>a. AllComplete(Others) => Siblings \subseteq served
  BY DEF Others, SiblingsAreEarned
<1>5. CASE MarkFailedFromJob
  <2>1. /\ dstate' = "complete" => dstate = "complete"
        /\ readiness' = "failed"
        /\ bundle' = SyncBundleState({dstate'} \cup Others)
        /\ UNCHANGED <<os, did, hb, apc, seen>>
    BY <1>5 DEF MarkFailedFromJob
  <2>2. bundle' = "complete" => dstate' = "complete" /\ AllComplete(Others)
    BY <2>1, BundleComplete
  <2> QED
    BY <1>0, <1>1, <1>2, <1>a, <2>1, <2>2
<1>6. CASE HeartbeatArrives
  BY <1>0, <1>1, <1>2, <1>6 DEF HeartbeatArrives
<1>7. CASE HeartbeatDecides
  <2>1. /\ hb \in {"was_complete", "was_open"}
        /\ hb' = IF RoleReady THEN "writes_complete" ELSE "writes_pending"
        /\ UNCHANGED <<dstate, readiness, bundle, os, did, apc, seen>>
    BY <1>7 DEF HeartbeatDecides
  <2>2. RoleReady => Earned
    BY <1>1, <2>1 DEF RoleReady, FinalRoleStepDone, StepsOf, RoleStepWasDone
  <2> QED
    BY <1>0, <1>1, <1>2, <2>1, <2>2
<1>8. CASE HeartbeatWrites
  <2>1. /\ hb \in {"writes_complete", "writes_pending"} /\ hb' = "idle"
        /\ dstate' = IF hb = "writes_complete" THEN "complete" ELSE "role_pending"
        /\ readiness' = dstate'
        /\ UNCHANGED <<bundle, os, did, apc, seen>>
    BY <1>8 DEF HeartbeatWrites
  <2> QED
    BY <1>0, <1>1, <1>2, <2>1
<1>9. ASSUME NEW a \in Agents, NEW t \in Steps, NEW status \in Statuses, AgentPosts(a, t, status)
       PROVE  Goal
  <2>1. /\ apc' = "success" => FinalRoleStepKind \in did
        /\ os = "full_os"
        /\ UNCHANGED <<dstate, readiness, bundle, os, did, hb, seen>>
    BY <1>9 DEF AgentPosts
  <2> QED
    BY <1>0, <1>1, <1>2, <2>1
<1>10. CASE RoleResultReads
  <2>1. seen' = Others /\ UNCHANGED <<dstate, readiness, bundle, os, did, hb, apc>>
    BY <1>10 DEF RoleResultReads
  <2> QED
    BY <1>0, <1>1, <1>2, <1>a, <2>1
<1>11. CASE MarkRoleStepResult
  <2>1. /\ apc \in {"success", "failed"} /\ seen # None
        /\ dstate' = IF apc = "success" THEN "complete" ELSE "failed"
        /\ readiness' = dstate'
        /\ bundle' = SyncBundleState({dstate'} \cup seen)
        /\ apc' = "idle" /\ seen' = None
        /\ UNCHANGED <<os, did, hb>>
    BY <1>11 DEF MarkRoleStepResult
  <2>2. bundle' = "complete" => dstate' = "complete" /\ AllComplete(seen)
    BY <2>1, BundleComplete
  <2> QED
    BY <1>0, <1>1, <1>2, <2>1, <2>2
<1>12. ASSUME NEW c \in Siblings, SiblingResult(c) PROVE Goal
  <2>1. /\ spc[c] # "idle"
        /\ bundle' = SyncBundleState({IF spc[c] = "success" THEN "complete" ELSE "failed"}
                                     \cup sseen[c])
        /\ UNCHANGED <<dstate, readiness, os, did, hb, apc, seen>>
    BY <1>12 DEF SiblingResult
  <2>2. bundle' = "complete" => spc[c] = "success" /\ AllComplete(sseen[c])
    BY <2>1, BundleComplete
  <2>3. bundle' = "complete" => Earned /\ Siblings \subseteq served
    BY <2>1, <2>2 DEF SiblingsAreEarned
  <2> QED
    BY <1>0, <1>1, <1>2, <2>1, <2>3
<1>13. ASSUME NEW c \in Siblings, SiblingMoves(c) \/ SiblingReads(c) PROVE Goal
  BY <1>3, <1>13 DEF SiblingMoves, SiblingReads
<1>14. CASE CutOff
  BY <1>0, <1>1, <1>2, <1>14 DEF CutOff
<1>15. \/ /\ UNCHANGED <<dstate, readiness, bundle, hb, apc, seen>>
          /\ did \subseteq did'
       \/ SetRunIdentity \/ MarkPeRegistered \/ MarkFailedFromJob \/ HeartbeatArrives
       \/ HeartbeatDecides \/ HeartbeatWrites \/ RoleResultReads \/ MarkRoleStepResult
       \/ CutOff
       \/ \E c \in Siblings : SiblingMoves(c) \/ SiblingReads(c) \/ SiblingResult(c)
       \/ \E a \in Agents, s \in Steps, st \in Statuses : AgentPosts(a, s, st)
  <2>1. CASE JobStep
    BY <2>1 DEF JobStep, ProvisionRun, JobGivesUp, JobSeesPe, JobBootsDisk, JobSeesOutcome
  <2>2. CASE BuilderStep \/ ReconcileFailedRelatedDeployments
    BY <2>2 DEF BuilderStep, ReadForFailure, ReconcileFailedRelatedDeployments
  <2>3. CASE BridgeStep
    BY <2>3 DEF BridgeStep, RegisterPeByIdentity, RegisterPe, AppendRegistered, AppendEvent
  <2>4. CASE HeartbeatStep \/ RoleResultStep \/ SiblingStep \/ CutOff
    BY <2>4 DEF HeartbeatStep, RoleResultStep, SiblingStep
  <2>5. CASE AgentStep
    BY <2>5 DEF AgentStep, AgentClaims, AgentWorks, AgentRestarts
  <2>6. CASE UNCHANGED osdVars
    BY <2>6 DEF osdVars
  <2> QED
    BY <2>1, <2>2, <2>3, <2>4, <2>5, <2>6 DEF OsdNext
<1> QED
  BY <1>3, <1>4, <1>5, <1>6, <1>7, <1>8, <1>9, <1>10, <1>11, <1>12, <1>13, <1>14, <1>15

(* No step breaks the invariant.                                           *)
LEMMA OsdStepInv == OsdInv /\ [OsdNext]_osdVars => OsdInv'
BY EarnedStays, RoleStepWasDoneStep, SiblingsStep, OsdRowsStep DEF OsdInv

-----------------------------------------------------------------------------
(* The theorems                                                            *)

(* What is true of a run at every moment, in the handlers' hands too.      *)
THEOREM OsdInvariant == OsdSpec => []OsdInv
BY OsdInitInv, OsdStepInv, PTL DEF OsdSpec

(* mark_complete_from_heartbeat, mark_role_step_result: a run reported     *)
(* complete belongs to an installed machine whose role was configured,     *)
(* for every role, domain join and order of the five writers.              *)
THEOREM CompleteRunsAreEarned == OsdSpec => []CompleteIsEarned
<1>1. OsdInv => CompleteIsEarned
  BY DEF OsdInv
<1> QED
  BY <1>1, OsdInvariant, PTL

(* _sync_bundle_state_for_child, although it may have read every child     *)
(* before the others' results, and a late result may have failed one since *)
(* it was read: a complete bundle had the role of every child configured,  *)
(* for any number of children.                                             *)
THEOREM CompleteBundlesAreEarned == OsdSpec => []BundleIsEarned
<1>1. OsdInv => BundleIsEarned
  BY DEF OsdInv
<1> QED
  BY <1>1, OsdInvariant, PTL

(* mark_failed_from_job fails no run that was completed after it read it.  *)
THEOREM LateJobFailuresAreHarmless == OsdSpec => LateJobFailureIsHarmless
<1>1. ASSUME OsdNext, dstate = "complete", dstate' = "failed"
      PROVE  apc = "failed"
  <2> USE <1>1 DEF rowVars
  <2>1. CASE JobStep
    BY <2>1 DEF JobStep, ProvisionRun, SetRunIdentity, JobGivesUp, JobSeesPe, JobBootsDisk,
                JobSeesOutcome
  <2>2. CASE BuilderStep \/ ReconcileFailedRelatedDeployments \/ BridgeStep
    BY <2>2 DEF BuilderStep, ReadForFailure, MarkFailedFromJob,
                ReconcileFailedRelatedDeployments, BridgeStep, RegisterPeByIdentity,
                RegisterPe, MarkPeRegistered, AppendRegistered, AppendEvent
  <2>3. CASE HeartbeatStep
    BY <2>3 DEF HeartbeatStep, HeartbeatArrives, HeartbeatDecides, HeartbeatWrites
  <2>4. CASE RoleResultStep
    BY <2>4 DEF RoleResultStep, RoleResultReads, MarkRoleStepResult
  <2>5. CASE AgentStep
    BY <2>5 DEF AgentStep, AgentClaims, AgentWorks, AgentRestarts, AgentPosts
  <2>6. CASE SiblingStep \/ CutOff
    BY <2>6 DEF SiblingStep, SiblingMoves, SiblingReads, SiblingResult, CutOff
  <2> QED
    BY <2>1, <2>2, <2>3, <2>4, <2>5, <2>6 DEF OsdNext
<1>2. [OsdNext]_osdVars
         => [dstate = "complete" /\ dstate' = "failed" => apc = "failed"]_osdVars
  BY <1>1
<1> QED
  BY <1>2, PTL DEF OsdSpec, LateJobFailureIsHarmless

-----------------------------------------------------------------------------
(* The engine's own promises, with OSDeploy around it                      *)

(* create_run leaves the rows of the plan as the engine made them.         *)
LEMMA OsdNewRows == OsdInit => RowsInv
<1> SUFFICES ASSUME OsdInit PROVE RowsInv
  OBVIOUS
<1>1. state \in [Steps -> {"pending", "skipped"}]
  BY DEF OsdInit
<1> QED
  BY <1>1, NewRows DEF OsdInit

(* The bridge, the heartbeats and the agent write rows only the way the    *)
(* engine's own handlers do.                                               *)
LEMMA OsdPlanRowsStep == RowsInv /\ [OsdNext]_osdVars => RowsInv'
<1> SUFFICES ASSUME RowsInv, [OsdNext]_osdVars PROVE RowsInv'
  OBVIOUS
<1>1. CASE UNCHANGED <<plan, state, attempt, handed>>
  BY <1>1, RowsKept
<1>2. CASE AppendRegistered \/ AppendEvent \/ HeartbeatArrives
  BY <1>2, RowsAfterMark DEF AppendRegistered, AppendEvent, HeartbeatArrives
<1>4. ASSUME NEW a \in Agents, AgentClaims(a) PROVE RowsInv'
  BY <1>4, RowsAfterClaim DEF AgentClaims
<1>5. ASSUME NEW a \in Agents, AgentRestarts(a) PROVE RowsInv'
  BY <1>5, RowsAfterReboot DEF AgentRestarts, RegisterAgent
<1>6. ASSUME NEW a \in Agents, NEW s \in Steps, NEW status \in Statuses, AgentPosts(a, s, status)
      PROVE  RowsInv'
  BY <1>6, RowsAfterResult DEF AgentPosts, PostStepResult
<1> QED
  BY <1>1, <1>2, <1>4, <1>5, <1>6, OsdRowWriters

(* set_run_identity, mark_failed_from_job and mark_complete_from_heartbeat *)
(* write the engine's run_state as they like: still no step is attempted   *)
(* more often than its retry_count allows ...                              *)
THEOREM OsdeployKeepsRetryBudget == OsdSpec => []RetryBudget
<1>1. RowsInv => RetryBudget
  BY DEF RowsInv
<1> QED
  BY <1>1, OsdNewRows, OsdPlanRowsStep, PTL DEF OsdSpec

(* ... and no agent is handed a step before the earlier ones of its phase  *)
(* were handed out or closed by a PE event or a heartbeat, and stay so.    *)
THEOREM OsdeployKeepsPlanOrder == OsdSpec => []PlanOrder
<1>1. RowsInv => PlanOrder
  BY DEF RowsInv
<1> QED
  BY <1>1, OsdNewRows, OsdPlanRowsStep, PTL DEF OsdSpec

=============================================================================
