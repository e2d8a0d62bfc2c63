---------------------------- MODULE OsdAgentsProofs ----------------------------
(***************************************************************************)
(* Proofs about OsdAgents, for every plan, every set of clients and every  *)
(* number of faults.  The lemmas on the engine's rows come from            *)
(* TaskEngineProofs; the handlers of TaskEngineRC play no part here.       *)
(***************************************************************************)
EXTENDS OsdAgents, TaskEngineProofs

-----------------------------------------------------------------------------
(* With every fault                                                        *)

ClientPCs == {"absent", "waiting", "register", "next", "run", "report", "finished"}

(* The clients never report anything else.                                 *)
ClientStatuses == {"success", "failed"}

Requests ==
    [from : Agents, op : Calls, step : Steps \cup {None}, status : ClientStatuses]

ClientTypeOK ==
    /\ pc \in [Agents -> ClientPCs]
    /\ act \in [Agents -> Steps \cup {None}]
    /\ report \in [Agents -> ClientStatuses]
    /\ restart \in Agents \cup {None}
    /\ late \in SUBSET Requests
    /\ executed \in SUBSET Steps

BusyHasStep == \A c \in Agents : pc[c] \in {"run", "report"} => act[c] \in Steps

(* A request says "success" only of work that was done.                    *)
TrueRequest(m) == m.op = "report" /\ m.status = "success" => m.step \in executed

(* Whoever is about to report, and whatever is still on its way, tells the *)
(* truth about a success.                                                  *)
SuccessIsTrue ==
    /\ \A c \in Agents : pc[c] = "report" /\ report[c] = "success" => act[c] \in executed
    /\ \A m \in late : TrueRequest(m)

(* A step that waits for its reboot has had its work done, too.            *)
AwaitingWasExecuted ==
    \A s \in Steps : state[s] = "awaiting_reboot" => s \in executed

AgentInv ==
    /\ TypeOK /\ ClientTypeOK
    /\ BusyHasStep
    /\ SuccessIsTrue
    /\ AwaitingWasExecuted
    /\ DoneWasExecuted

-----------------------------------------------------------------------------
(* Without network faults: every request is answered, only crashes remain. *)

Quiet == FaultKinds \subseteq {"crash"}

Working(c) == pc[c] \in {"run", "report"}

(* The step a client works on is its own.                                  *)
OwnStep ==
    \A c \in Agents : Working(c) =>
        state[act[c]] = "running" /\ claimed_by[act[c]] = c

(* Once a step was handed out, everything before it in the clients' phase  *)
(* is closed, and a step in progress was handed out.                       *)
HandedInOrder ==
    /\ \A c \in Agents, s \in Steps : s \in handed[c] =>
           /\ VisibleTo(Phase, s)
           /\ \A t \in Steps : t < s /\ VisibleTo(Phase, t) => state[t] \in {"done", "skipped"}
    /\ \A s \in Steps : state[s] \in {"running", "awaiting_reboot"} =>
           \E c \in Agents : s \in handed[c]

(* A run with a step in progress has not ended.                            *)
ProgressIsLive ==
    \A s \in Steps : state[s] \in {"running", "awaiting_reboot"} =>
        run_state \notin TerminalRunStates

(* A step that may not fail ends its run, and no client skips a step.      *)
FailureEndsRun ==
    \A s \in Steps :
        /\ state[s] = "failed" /\ ~plan.continue_on_error[s] => run_state = "failed"
        /\ state[s] = "skipped" => ~plan.enabled[s]

QuietInv ==
    /\ AgentInv
    /\ late = {}
    /\ OwnStep
    /\ HandedInOrder
    /\ ProgressIsLive
    /\ DoneRunIsClosed
    /\ FailureEndsRun

-----------------------------------------------------------------------------
(* Proofs, with every fault                                                *)

(* Both clients are asleep at first and nothing was executed.              *)
LEMMA AgentInvInit == AgentInit => AgentInv
<1> SUFFICES ASSUME AgentInit PROVE AgentInv
  OBVIOUS
<1>1. TypeOK
  BY TypeInit DEF AgentInit
<1>2. ClientTypeOK
  BY DEF AgentInit, ClientTypeOK, ClientPCs, ClientStatuses
<1>3. BusyHasStep /\ SuccessIsTrue
  <2>1. PICK fleet : pc = [c \in Agents |-> IF c \in fleet THEN "waiting" ELSE "absent"]
    BY DEF AgentInit
  <2> QED
    BY <2>1 DEF AgentInit, BusyHasStep, SuccessIsTrue
<1>4. AwaitingWasExecuted /\ DoneWasExecuted
  BY DEF AgentInit, Init, AwaitingWasExecuted, DoneWasExecuted
<1> QED
  BY <1>1, <1>2, <1>3, <1>4 DEF AgentInv

(* A claim as the clients make it, with no batch.                          *)
LEMMA ClaimType ==
    ASSUME TypeOK, NEW c \in Agents, ClaimNextStep(c, Phase, FALSE), UNCHANGED batch
    PROVE  TypeOK'
BY DEF TypeOK, ClaimNextStep, StepStates, RunStates

(* What the engine does to the rows, request by request: nothing, or one   *)
(* of the three updates.                                                   *)
LEMMA ServeCases ==
    ASSUME NEW m \in Requests, Serve(m)
    PROVE  \/ UNCHANGED vars
           \/ m.op = "register" /\ RegisterAgent(m.from)
           \/ m.op = "next" /\ ClaimNextStep(m.from, Phase, FALSE) /\ UNCHANGED batch
           \/ m.op = "report" /\ PostStepResult(m.from, Phase, m.step, m.status)
BY DEF Serve, ServeRegister, ServeNext, ServeResult

(* The engine keeps its rows true as long as the requests are true.        *)
LEMMA ServeKeepsTruth ==
    ASSUME TypeOK, executed \in SUBSET Steps, AwaitingWasExecuted, DoneWasExecuted,
           NEW m \in Requests, TrueRequest(m), Serve(m), executed' = executed
    PROVE  /\ TypeOK'
           /\ AwaitingWasExecuted' /\ DoneWasExecuted'
           /\ attempt' # attempt => m.op = "next" /\ cursor' \in Steps
<1> USE DEF AwaitingWasExecuted, DoneWasExecuted
<1>0. m.from \in Agents /\ m.status \in Statuses
  BY DEF Requests, ClientStatuses, Statuses
<1>1. CASE UNCHANGED vars
  BY <1>1 DEF vars, TypeOK
<1>2. CASE m.op = "register" /\ RegisterAgent(m.from)
  <2>1. TypeOK'
    BY <1>0, <1>2, TypeNext DEF Next
  <2>2. /\ cursor \in Steps /\ state[cursor] = "awaiting_reboot"
        /\ state' = [state EXCEPT ![cursor] = "done"]
        /\ attempt' = attempt
    BY <1>2 DEF RegisterAgent, MarkRebootComplete, TypeOK
  <2> QED
    BY <2>1, <2>2 DEF TypeOK
<1>3. CASE m.op = "next" /\ ClaimNextStep(m.from, Phase, FALSE) /\ UNCHANGED batch
  <2>1. TypeOK'
    BY <1>0, <1>3, ClaimType
  <2>2. PICK s \in Steps : state' = [state EXCEPT ![s] = "running"] /\ cursor' = s
    BY <1>3 DEF ClaimNextStep
  <2> QED
    BY <1>3, <2>1, <2>2 DEF TypeOK
<1>4. CASE m.op = "report" /\ PostStepResult(m.from, Phase, m.step, m.status)
  <2>1. m.step \in Steps
    BY <1>0, <1>4 DEF PostStepResult, TypeOK
  <2>2. TypeOK'
    BY <1>0, <1>4, <2>1, TypeNext, ClientsAssumption DEF Next
  <2> DEFINE outcome == StepOutcome(m.step, m.status, attempt[m.step])
  <2>3. state' = [state EXCEPT ![m.step] = outcome] /\ attempt' = attempt
    BY <1>4 DEF PostStepResult, CompleteStep
  <2>4. outcome \in {"awaiting_reboot", "done"} => m.status = "success"
    <3>1. m.status \in {"success", "failed"}
      BY DEF Requests, ClientStatuses
    <3> QED
      BY <3>1 DEF StepOutcome
  <2>5. outcome \in {"awaiting_reboot", "done"} => m.step \in executed
    BY <1>4, <2>4 DEF TrueRequest
  <2> HIDE DEF outcome
  <2> QED
    BY <2>1, <2>2, <2>3, <2>5 DEF TypeOK
<1> QED
  BY <1>1, <1>2, <1>3, <1>4, ServeCases

(* What a client sends is a request, and true.                             *)
LEMMA RequestIsTrue ==
    ASSUME ClientTypeOK, SuccessIsTrue, NEW c \in Agents, pc[c] \in Calls
    PROVE  Request(c) \in Requests /\ TrueRequest(Request(c))
BY DEF ClientTypeOK, SuccessIsTrue, Request, Requests, TrueRequest

(* Where an answer leads: to a step only if one was claimed, and never to  *)
(* another report.                                                         *)
LEMMA AnswerCases ==
    ASSUME NEW c \in Agents, pc[c] \in Calls, NEW claimed \in BOOLEAN
    PROVE  /\ AfterAnswer(c, claimed) \in {"next", "run", "finished", "waiting"}
           /\ AfterAnswer(c, claimed) = "run" => claimed
BY DEF AfterAnswer, Calls

(* A failed attempt leaves the client with the same request, with a        *)
(* failure to report instead of a success, or with nothing to do.          *)
LEMMA RetryCases ==
    ASSUME ClientTypeOK, NEW c \in Agents, Retry(c)
    PROVE  /\ restart' = restart
           /\ report' \in [Agents -> ClientStatuses]
           /\ report'[c] \in {report[c], "failed"}
           /\ \A d \in Agents \ {c} : report'[d] = report[d]
           /\ \/ pc' = pc /\ act' = act
              \/ /\ pc' = [pc EXCEPT ![c] = "waiting"]
                 /\ act' = [act EXCEPT ![c] = None]
<1> DEFINE gaveUp    == tries[c] + 1 = Attempts[c]
           downgrade == gaveUp /\ pc[c] = "report" /\ report[c] = "success"
           b == gaveUp /\ ~downgrade
<1>1. /\ report' = [report EXCEPT ![c] = IF downgrade THEN "failed" ELSE @]
      /\ pc' = [pc EXCEPT ![c] = IF b THEN "waiting" ELSE @]
      /\ act' = [act EXCEPT ![c] = IF b THEN None ELSE @]
      /\ restart' = restart
  BY DEF Retry
<1> HIDE DEF b, downgrade, gaveUp
<1>2. \/ pc' = pc /\ act' = act
      \/ /\ pc' = [pc EXCEPT ![c] = "waiting"]
         /\ act' = [act EXCEPT ![c] = None]
  BY <1>1 DEF ClientTypeOK
<1> QED
  BY <1>1, <1>2 DEF ClientTypeOK, ClientStatuses

(* An answered request.                                                    *)
LEMMA CallPreserves ==
    ASSUME AgentInv, NEW c \in Agents, Call(c)
    PROVE  AgentInv'
<1> DEFINE claimed == pc[c] = "next" /\ attempt' # attempt
<1>1. /\ pc[c] \in Calls
      /\ Serve(Request(c))
      /\ pc' = [pc EXCEPT ![c] = AfterAnswer(c, claimed)]
      /\ act' = [act EXCEPT ![c] = IF claimed THEN cursor' ELSE None]
      /\ restart' = IF NeedsRestart(c) THEN c ELSE restart
      /\ UNCHANGED <<report, executed, late>>
  BY DEF Call, Answered
<1>2. Request(c) \in Requests /\ TrueRequest(Request(c))
  BY <1>1, RequestIsTrue DEF AgentInv
<1>3. /\ TypeOK' /\ AwaitingWasExecuted' /\ DoneWasExecuted'
      /\ attempt' # attempt => cursor' \in Steps
  BY <1>1, <1>2, ServeKeepsTruth DEF AgentInv, ClientTypeOK
<1>4. claimed => cursor' \in Steps
  BY <1>3
<1> DEFINE after == AfterAnswer(c, claimed)
<1>5. /\ after \in {"next", "run", "finished", "waiting"}
      /\ after = "run" => claimed
  <2>1. claimed \in BOOLEAN
    OBVIOUS
  <2> HIDE DEF claimed
  <2> QED
    BY <1>1, <2>1, AnswerCases
<1>6. pc' = [pc EXCEPT ![c] = after]
  BY <1>1
<1> HIDE DEF after, claimed
<1>7. ClientTypeOK'
  BY <1>1, <1>4, <1>5, <1>6 DEF AgentInv, ClientTypeOK, ClientPCs
<1>8. BusyHasStep' /\ SuccessIsTrue'
  BY <1>1, <1>4, <1>5, <1>6 DEF AgentInv, ClientTypeOK, BusyHasStep, SuccessIsTrue,
                                TrueRequest
<1> QED
  BY <1>3, <1>7, <1>8 DEF AgentInv

(* What Retry leaves of the clients' part of the invariant.                *)
LEMMA RetryKeepsTruth ==
    ASSUME AgentInv, NEW c \in Agents, Retry(c),
           UNCHANGED executed,
           late' \in SUBSET Requests, \A m \in late' : TrueRequest(m)
    PROVE  ClientTypeOK' /\ BusyHasStep' /\ SuccessIsTrue'
<1>1. /\ restart' = restart
      /\ report' \in [Agents -> ClientStatuses]
      /\ report'[c] \in {report[c], "failed"}
      /\ \A d \in Agents \ {c} : report'[d] = report[d]
      /\ \/ pc' = pc /\ act' = act
         \/ /\ pc' = [pc EXCEPT ![c] = "waiting"]
            /\ act' = [act EXCEPT ![c] = None]
  BY RetryCases DEF AgentInv
<1>2. ClientTypeOK'
  BY <1>1 DEF AgentInv, ClientTypeOK, ClientPCs
<1>3. BusyHasStep'
  BY <1>1 DEF AgentInv, ClientTypeOK, BusyHasStep
<1>4. ASSUME NEW d \in Agents, pc'[d] = "report", report'[d] = "success"
      PROVE  act'[d] \in executed
  <2>1. pc[d] = "report" /\ act'[d] = act[d]
    BY <1>1, <1>4 DEF AgentInv, ClientTypeOK
  <2>2. report[d] = "success"
    BY <1>1, <1>4
  <2> QED
    BY <2>1, <2>2 DEF AgentInv, SuccessIsTrue
<1>5. SuccessIsTrue'
  BY <1>4 DEF SuccessIsTrue, TrueRequest
<1> QED
  BY <1>2, <1>3, <1>5

(* A request that is served although its answer is lost.                   *)
LEMMA LoseReplyPreserves ==
    ASSUME AgentInv, NEW c \in Agents, LoseReply(c)
    PROVE  AgentInv'
<1>1. /\ pc[c] \in Calls /\ Serve(Request(c)) /\ Retry(c)
      /\ UNCHANGED <<executed, late>>
  BY DEF LoseReply
<1>2. Request(c) \in Requests /\ TrueRequest(Request(c))
  BY <1>1, RequestIsTrue DEF AgentInv
<1>3. TypeOK' /\ AwaitingWasExecuted' /\ DoneWasExecuted'
  BY <1>1, <1>2, ServeKeepsTruth DEF AgentInv, ClientTypeOK
<1>4. ClientTypeOK' /\ BusyHasStep' /\ SuccessIsTrue'
  BY <1>1, RetryKeepsTruth DEF AgentInv, ClientTypeOK, SuccessIsTrue
<1> QED
  BY <1>3, <1>4 DEF AgentInv

(* A request that its client gave up waiting for.                          *)
LEMMA DelayPreserves ==
    ASSUME AgentInv, NEW c \in Agents, DelayRequest(c)
    PROVE  AgentInv'
<1>1. /\ pc[c] \in Calls /\ Retry(c)
      /\ late' = late \cup {Request(c)}
      /\ UNCHANGED <<vars, executed>>
  BY DEF DelayRequest
<1>2. Request(c) \in Requests /\ TrueRequest(Request(c))
  BY <1>1, RequestIsTrue DEF AgentInv
<1>3. late' \in SUBSET Requests /\ \A m \in late' : TrueRequest(m)
  BY <1>1, <1>2 DEF AgentInv, ClientTypeOK, SuccessIsTrue
<1>4. ClientTypeOK' /\ BusyHasStep' /\ SuccessIsTrue'
  BY <1>1, <1>3, RetryKeepsTruth
<1>5. TypeOK' /\ AwaitingWasExecuted' /\ DoneWasExecuted'
  BY <1>1 DEF AgentInv, vars, TypeOK, AwaitingWasExecuted, DoneWasExecuted
<1> QED
  BY <1>4, <1>5 DEF AgentInv

(* ... and that reaches the engine later, after any number of others.      *)
LEMMA ServeLatePreserves ==
    ASSUME AgentInv, NEW m \in late, ServeLate(m)
    PROVE  AgentInv'
<1>1. /\ Serve(m) /\ late' = late \ {m}
      /\ UNCHANGED <<pc, act, report, restart, executed>>
  BY DEF ServeLate, clientVars
<1>2. m \in Requests /\ TrueRequest(m)
  BY DEF AgentInv, ClientTypeOK, SuccessIsTrue
<1>3. TypeOK' /\ AwaitingWasExecuted' /\ DoneWasExecuted'
  BY <1>1, <1>2, ServeKeepsTruth DEF AgentInv, ClientTypeOK
<1>4. ClientTypeOK' /\ BusyHasStep' /\ SuccessIsTrue'
  BY <1>1 DEF AgentInv, ClientTypeOK, BusyHasStep, SuccessIsTrue, TrueRequest
<1> QED
  BY <1>3, <1>4 DEF AgentInv

(* The service reports a failure after its success.                        *)
LEMMA ShutdownPreserves ==
    ASSUME AgentInv, ShutdownFails
    PROVE  AgentInv'
<1>1. /\ pc["svc"] \in Calls /\ Serve(Request("svc"))
      /\ report' = [report EXCEPT !["svc"] = "failed"]
      /\ UNCHANGED <<pc, act, restart, executed, late>>
  BY DEF ShutdownFails, NeedsRestart, Calls
<1>2. Request("svc") \in Requests /\ TrueRequest(Request("svc"))
  BY <1>1, RequestIsTrue, ClientsAssumption DEF AgentInv
<1>3. TypeOK' /\ AwaitingWasExecuted' /\ DoneWasExecuted'
  BY <1>1, <1>2, ServeKeepsTruth DEF AgentInv, ClientTypeOK
<1>4. ClientTypeOK' /\ BusyHasStep' /\ SuccessIsTrue'
  BY <1>1 DEF AgentInv, ClientTypeOK, ClientStatuses, BusyHasStep, SuccessIsTrue, TrueRequest
<1> QED
  BY <1>3, <1>4 DEF AgentInv

(* The work of a step: a success is reported only of what was done.        *)
LEMMA RunPreserves ==
    ASSUME AgentInv, NEW c \in Agents, Run(c)
    PROVE  AgentInv'
<1> USE DEF AgentInv
<1>1. /\ pc[c] = "run" /\ pc' = [pc EXCEPT ![c] = "report"]
      /\ UNCHANGED <<vars, act, restart, late>>
  BY DEF Run
<1>2. act[c] \in Steps
  BY <1>1 DEF BusyHasStep
<1>3. /\ executed \subseteq executed' /\ executed' \in SUBSET Steps
      /\ \E status \in ClientStatuses :
             /\ report' = [report EXCEPT ![c] = status]
             /\ status = "success" => act[c] \in executed'
  BY <1>2 DEF Run, ClientTypeOK, ClientStatuses
<1>4. ClientTypeOK'
  BY <1>1, <1>3 DEF ClientTypeOK, ClientPCs
<1>5. BusyHasStep'
  BY <1>1, <1>2 DEF BusyHasStep, ClientTypeOK
<1>6. SuccessIsTrue'
  BY <1>1, <1>3 DEF SuccessIsTrue, TrueRequest, ClientTypeOK
<1>7. TypeOK' /\ AwaitingWasExecuted' /\ DoneWasExecuted'
  BY <1>1, <1>3 DEF vars, TypeOK, AwaitingWasExecuted, DoneWasExecuted
<1> QED
  BY <1>4, <1>5, <1>6, <1>7

(* A restart of the machine, asked for or not: the clients forget.         *)
LEMMA BootPreserves ==
    ASSUME AgentInv, Boot
    PROVE  AgentInv'
<1> USE DEF AgentInv
<1>1. /\ pc' = [c \in Agents |-> IF pc[c] \in {"absent", "finished"}
                                 THEN pc[c] ELSE "waiting"]
      /\ act' = [c \in Agents |-> None]
      /\ restart' = None
      /\ UNCHANGED <<vars, report, executed, late>>
  BY DEF Boot
<1>2. ClientTypeOK'
  BY <1>1 DEF ClientTypeOK, ClientPCs
<1>3. BusyHasStep' /\ SuccessIsTrue'
  BY <1>1 DEF BusyHasStep, SuccessIsTrue, TrueRequest
<1>4. TypeOK' /\ AwaitingWasExecuted' /\ DoneWasExecuted'
  BY <1>1 DEF vars, TypeOK, AwaitingWasExecuted, DoneWasExecuted
<1> QED
  BY <1>2, <1>3, <1>4

(* The steps of a client that touch neither the rows nor the machine: it   *)
(* starts a pass, or drops an action.                                      *)
LEMMA IdlePreserves ==
    ASSUME AgentInv, NEW c \in Agents,
           NEW p \in {"register", "waiting"}, pc' = [pc EXCEPT ![c] = p],
           act' = act \/ act' = [act EXCEPT ![c] = None],
           UNCHANGED <<vars, report, restart, executed, late>>
    PROVE  AgentInv'
<1> USE DEF AgentInv
<1>1. ClientTypeOK'
  BY DEF ClientTypeOK, ClientPCs
<1>2. BusyHasStep' /\ SuccessIsTrue'
  BY DEF BusyHasStep, SuccessIsTrue, TrueRequest, ClientTypeOK
<1>3. TypeOK' /\ AwaitingWasExecuted' /\ DoneWasExecuted'
  BY DEF vars, TypeOK, AwaitingWasExecuted, DoneWasExecuted
<1> QED
  BY <1>1, <1>2, <1>3

(* Every step of the clients, the network and the machine.                 *)
LEMMA AgentInvNext == AgentInv /\ [AgentNext]_agentVars => AgentInv'
<1> SUFFICES ASSUME AgentInv, [AgentNext]_agentVars PROVE AgentInv'
  OBVIOUS
<1>1. CASE \E c \in Agents : Wake(c)
  BY <1>1, IdlePreserves DEF Wake
<1>2. CASE \E c \in Agents : Run(c)
  BY <1>2, RunPreserves
<1>3. CASE \E c \in Agents : Call(c)
  BY <1>3, CallPreserves
<1>4. CASE \E c \in Agents : LoseReply(c)
  BY <1>4, LoseReplyPreserves
<1>5. CASE \E c \in Agents : DelayRequest(c)
  BY <1>5, DelayPreserves
<1>6. CASE \E m \in late : ServeLate(m)
  BY <1>6, ServeLatePreserves
<1>7. CASE LogFails
  BY <1>7, IdlePreserves, ClientsAssumption DEF LogFails
<1>8. CASE Restart \/ Crash
  BY <1>8, BootPreserves DEF Restart, Crash
<1>9. CASE ShutdownFails
  BY <1>9, ShutdownPreserves
<1>10. CASE UNCHANGED agentVars
  BY <1>10 DEF agentVars, vars, clientVars, AgentInv, TypeOK, ClientTypeOK,
               BusyHasStep, SuccessIsTrue, TrueRequest, AwaitingWasExecuted, DoneWasExecuted
<1> QED
  BY <1>1, <1>2, <1>3, <1>4, <1>5, <1>6, <1>7, <1>8, <1>9, <1>10 DEF AgentNext

(* The invariant of the clients and the engine, whatever the network does. *)
THEOREM AgentInvariant == AgentSpec => []AgentInv
BY AgentInvInit, AgentInvNext, PTL DEF AgentSpec

(* complete_step and the clients' loops: whatever is lost, late, repeated  *)
(* or interrupted, and however often, a step shown as done has had its     *)
(* work done.                                                              *)
THEOREM DoneStepsWereExecuted == AgentSpec => []DoneWasExecuted
<1>1. AgentInv => DoneWasExecuted
  BY DEF AgentInv
<1> QED
  BY <1>1, AgentInvariant, PTL

-----------------------------------------------------------------------------
(* The engine with these clients, whatever the network does                *)

(* A report is of a step of this phase that its sender was handed, which   *)
(* the engine takes for granted of its agents.                             *)
OwnReport(m) == m.op = "report" => m.step \in handed[m.from] /\ VisibleTo(Phase, m.step)

ReportsAreOwn ==
    /\ \A c \in Agents : pc[c] \in {"run", "report"} =>
           act[c] \in handed[c] /\ VisibleTo(Phase, act[c])
    /\ \A m \in late : OwnReport(m)

ClientsInv == AgentInv /\ EngineInv /\ ReportsAreOwn

(* Whatever the engine serves, it takes back no step it handed out.        *)
LEMMA ServeKeepsEngine ==
    ASSUME EngineInv, TypeOK', NEW m \in Requests, Serve(m)
    PROVE  /\ EngineInv'
           /\ plan' = plan
           /\ \A c \in Agents : handed[c] \subseteq handed'[c]
           /\ attempt' # attempt => cursor' \in handed'[m.from] /\ VisibleTo(Phase, cursor')
<1>0. m.from \in Agents /\ m.status \in Statuses /\ TypeOK
  BY DEF Requests, ClientStatuses, Statuses, EngineInv
<1>1. CASE UNCHANGED vars
  BY <1>1, EngineInvNext DEF vars
<1>2. CASE RegisterAgent(m.from)
  <2>1. EngineInv'
    BY <1>0, <1>2, EngineInvNext DEF Next
  <2>2. UNCHANGED <<plan, attempt, handed>>
    BY <1>2 DEF RegisterAgent, MarkRebootComplete
  <2> QED
    BY <2>1, <2>2
<1>3. CASE ClaimNextStep(m.from, Phase, FALSE)
  <2>1. EngineInv'
    BY <1>0, <1>3, ClaimPreserves
  <2>2. PICK s \in Steps : /\ Claimable(m.from, Phase, FALSE, s) /\ cursor' = s /\ plan' = plan
                           /\ handed' = [handed EXCEPT ![m.from] = @ \cup {s}]
    BY <1>3 DEF ClaimNextStep
  <2> QED
    BY <1>0, <2>1, <2>2 DEF TypeOK, Claimable
<1>4. CASE PostStepResult(m.from, Phase, m.step, m.status)
  <2>1. m.step \in Steps
    BY <1>0, <1>4 DEF PostStepResult, TypeOK
  <2>2. EngineInv'
    BY <1>0, <1>4, <2>1, EngineInvNext, ClientsAssumption DEF Next
  <2>3. UNCHANGED <<plan, attempt, handed>>
    BY <1>4 DEF PostStepResult, CompleteStep
  <2> QED
    BY <2>2, <2>3
<1> QED
  BY <1>1, <1>2, <1>3, <1>4, ServeCases

(* Nobody has anything to report at first.                                 *)
LEMMA ClientsInvInit == AgentInit => ClientsInv
<1> SUFFICES ASSUME AgentInit PROVE ClientsInv
  OBVIOUS
<1>1. AgentInv
  BY AgentInvInit
<1>2. EngineInv
  BY EngineInvInit DEF AgentInit
<1>3. ReportsAreOwn
  BY DEF AgentInit, ReportsAreOwn
<1> QED
  BY <1>1, <1>2, <1>3 DEF ClientsInv

(* Every step of the clients, the network and the machine.                 *)
LEMMA ClientsInvNext == ClientsInv /\ [AgentNext]_agentVars => ClientsInv'
<1> SUFFICES ASSUME ClientsInv, [AgentNext]_agentVars PROVE ClientsInv'
  OBVIOUS
<1>0. /\ AgentInv /\ EngineInv /\ ReportsAreOwn /\ TypeOK /\ ClientTypeOK
      /\ AgentInv' /\ TypeOK' /\ ClientTypeOK'
  BY AgentInvNext DEF ClientsInv, AgentInv
<1> DEFINE Grows == plan' = plan /\ \A c \in Agents : handed[c] \subseteq handed'[c]
           Own(c) == pc[c] \in {"run", "report"} =>
                        act[c] \in handed[c] /\ VisibleTo(Phase, act[c])
<1>1. ASSUME UNCHANGED vars PROVE EngineInv' /\ Grows
  BY <1>0, <1>1, EngineInvNext DEF vars
<1>2. ASSUME NEW m \in Requests, Serve(m)
      PROVE  /\ EngineInv' /\ Grows
             /\ attempt' # attempt => cursor' \in handed'[m.from] /\ VisibleTo(Phase, cursor')
  BY <1>0, <1>2, ServeKeepsEngine
<1>3. ASSUME NEW c \in Agents, pc[c] \in Calls
      PROVE  Request(c) \in Requests /\ OwnReport(Request(c)) /\ Request(c).from = c
  BY <1>0, <1>3 DEF ClientTypeOK, Request, Requests, OwnReport, ReportsAreOwn
<1>4. ASSUME EngineInv', Grows,
             \A c \in Agents : (pc'[c] = pc[c] /\ act'[c] = act[c]) \/ Own(c)',
             \A m \in late' : m \in late \/ (m \in Requests /\ OwnReport(m))
      PROVE  ClientsInv'
  <2>1. ASSUME NEW m \in Requests, OwnReport(m) PROVE OwnReport(m)'
    <3>1. m.from \in Agents
      BY <2>1 DEF Requests
    <3> QED
      BY <1>4, <2>1, <3>1 DEF OwnReport, VisibleTo
  <2>2. \A m \in late : m \in Requests
    BY <1>0 DEF ClientTypeOK
  <2>3. \A m \in late' : OwnReport(m)'
    BY <1>0, <1>4, <2>1, <2>2 DEF ReportsAreOwn
  <2>4. \A c \in Agents : Own(c)'
    BY <1>0, <1>4 DEF ReportsAreOwn, VisibleTo
  <2>5. ReportsAreOwn'
    BY <2>3, <2>4 DEF ReportsAreOwn
  <2> QED
    BY <1>0, <1>4, <2>5 DEF ClientsInv
<1> HIDE DEF Grows
<1>5. ASSUME NEW c \in Agents, Wake(c) \/ Run(c) PROVE ClientsInv'
  <2>1. UNCHANGED vars /\ UNCHANGED <<act, late>>
    BY <1>5 DEF Wake, Run
  <2>2. \A d \in Agents : pc'[d] = pc[d] \/ Own(d)'
    BY <1>0, <1>5, <2>1 DEF Wake, Run, ClientTypeOK, ReportsAreOwn, vars, VisibleTo
  <2> QED
    BY <1>1, <1>4, <2>1, <2>2
<1>6. ASSUME NEW c \in Agents, Call(c) PROVE ClientsInv'
  <2> DEFINE claimed == pc[c] = "next" /\ attempt' # attempt
  <2>1. /\ pc[c] \in Calls /\ Serve(Request(c)) /\ UNCHANGED late
        /\ pc' = [pc EXCEPT ![c] = AfterAnswer(c, claimed)]
        /\ act' = [act EXCEPT ![c] = IF claimed THEN cursor' ELSE None]
    BY <1>6 DEF Call, Answered
  <2>2. AfterAnswer(c, claimed) \in {"run", "report"} => claimed
    BY <2>1, AnswerCases
  <2>3. /\ EngineInv' /\ Grows
        /\ attempt' # attempt => cursor' \in handed'[c] /\ VisibleTo(Phase, cursor')
    BY <1>2, <1>3, <2>1
  <2>4. Grows => (VisibleTo(Phase, cursor') => VisibleTo(Phase, cursor)')
    BY DEF VisibleTo, Grows
  <2>5. \A d \in Agents : (pc'[d] = pc[d] /\ act'[d] = act[d]) \/ Own(d)'
    BY <1>0, <2>1, <2>2, <2>3, <2>4 DEF ClientTypeOK, VisibleTo, Grows
  <2> QED
    BY <1>4, <2>1, <2>3, <2>5
<1>7. ASSUME NEW c \in Agents, Retry(c)
      PROVE  \A d \in Agents : (pc'[d] = pc[d] /\ act'[d] = act[d]) \/ Own(d)'
  BY <1>0, <1>7 DEF Retry, ClientTypeOK
<1>8. ASSUME NEW c \in Agents, LoseReply(c) PROVE ClientsInv'
  <2>1. pc[c] \in Calls /\ Serve(Request(c)) /\ Retry(c) /\ UNCHANGED late
    BY <1>8 DEF LoseReply
  <2> QED
    BY <1>2, <1>3, <1>4, <1>7, <2>1
<1>9. ASSUME NEW c \in Agents, DelayRequest(c) PROVE ClientsInv'
  <2>1. /\ pc[c] \in Calls /\ Retry(c) /\ UNCHANGED vars
        /\ late' = late \cup {Request(c)}
    BY <1>9 DEF DelayRequest
  <2> QED
    BY <1>1, <1>3, <1>4, <1>7, <2>1
<1>10. ASSUME NEW m \in late, ServeLate(m) PROVE ClientsInv'
  <2>1. Serve(m) /\ late' = late \ {m} /\ UNCHANGED <<pc, act>> /\ m \in Requests
    BY <1>0, <1>10 DEF ServeLate, clientVars, ClientTypeOK
  <2> QED
    BY <1>2, <1>4, <2>1
<1>11. CASE LogFails
  BY <1>0, <1>1, <1>4, <1>11, ClientsAssumption DEF LogFails, ClientTypeOK
<1>12. CASE Restart \/ Crash
  <2>1. /\ UNCHANGED <<vars, late>>
        /\ \A d \in Agents : pc'[d] \notin {"run", "report"}
    BY <1>0, <1>12 DEF Restart, Crash, Boot, ClientTypeOK
  <2> QED
    BY <1>1, <1>4, <2>1
<1>13. CASE ShutdownFails
  <2>1. /\ pc["svc"] \in Calls /\ Serve(Request("svc"))
        /\ UNCHANGED <<pc, act, late>>
    BY <1>13 DEF ShutdownFails, NeedsRestart, Calls
  <2> QED
    BY <1>2, <1>3, <1>4, <2>1, ClientsAssumption
<1>14. CASE UNCHANGED agentVars
  BY <1>1, <1>4, <1>14 DEF agentVars, clientVars
<1> QED
  BY <1>5, <1>6, <1>8, <1>9, <1>10, <1>11, <1>12, <1>13, <1>14 DEF AgentNext

(* With the real clients, their retries, requests that are served late or  *)
(* whose answers are lost, restarts that fail and crashes of the machine,  *)
(* the engine keeps the attempt limit of a step and the order of the plan, *)
(* while it serves one request at a time.                                  *)
THEOREM ClientsKeepEngineSound == AgentSpec => [](RetryBudget /\ PlanOrder)
<1>1. ClientsInv => RetryBudget /\ PlanOrder
  BY DEF ClientsInv, EngineInv, RowsInv
<1> QED
  BY <1>1, ClientsInvInit, ClientsInvNext, PTL DEF AgentSpec

(* POST /agent/step/{id}/result checks the phase and the step's run only:  *)
(* the clients never send, and the network never holds, a report of a step *)
(* that its sender was not handed.                                         *)
THEOREM ReportsAreOfHandedSteps == AgentSpec => []ReportsAreOwn
<1>1. ClientsInv => ReportsAreOwn
  BY DEF ClientsInv
<1> QED
  BY <1>1, ClientsInvInit, ClientsInvNext, PTL DEF AgentSpec

-----------------------------------------------------------------------------
(* Proofs, without network faults                                          *)

(* No step is handed out yet and the run is active.                        *)
LEMMA QuietInvInit == AgentInit => QuietInv
<1> SUFFICES ASSUME AgentInit PROVE QuietInv
  OBVIOUS
<1>1. AgentInv /\ late = {}
  BY AgentInvInit DEF AgentInit
<1>2. OwnStep
  <2>1. PICK fleet : pc = [c \in Agents |-> IF c \in fleet THEN "waiting" ELSE "absent"]
    BY DEF AgentInit
  <2> QED
    BY <2>1 DEF OwnStep, Working
<1>3. HandedInOrder /\ ProgressIsLive /\ DoneRunIsClosed /\ FailureEndsRun
  BY DEF AgentInit, Init, HandedInOrder, ProgressIsLive, DoneRunIsClosed, FailureEndsRun
<1> QED
  BY <1>1, <1>2, <1>3 DEF QuietInv

(* At most one step is in progress.                                        *)
LEMMA OneInProgress ==
    ASSUME TypeOK, HandedInOrder, NEW s \in Steps, NEW t \in Steps,
           state[s] \in {"running", "awaiting_reboot"},
           state[t] \in {"running", "awaiting_reboot"}
    PROVE  s = t
<1>1. /\ \E c \in Agents : s \in handed[c]
      /\ \E c \in Agents : t \in handed[c]
  BY DEF HandedInOrder
<1>2. VisibleTo(Phase, s) /\ VisibleTo(Phase, t)
  BY <1>1 DEF HandedInOrder
<1>3. ~(s < t) /\ ~(t < s)
  BY <1>1, <1>2 DEF HandedInOrder
<1>4. s \in Int /\ t \in Int
  BY DEF Steps
<1> QED
  BY <1>3, <1>4

(* The part of the invariant that is about the engine's rows.              *)
RowInv == HandedInOrder /\ ProgressIsLive /\ DoneRunIsClosed /\ FailureEndsRun

(* A step in progress is closed or reopened, and the run goes on as        *)
(* _next_run_state says.                                                   *)
LEMMA CloseKeepsRows ==
    ASSUME TypeOK, RowInv, NEW s \in Steps, NEW o \in StepStates,
           o \in {"pending", "awaiting_reboot", "done", "failed"},
           state[s] \in {"running", "awaiting_reboot"},
           state' = [state EXCEPT ![s] = o], run_state' = RunOutcome(s, o),
           UNCHANGED <<plan, handed>>
    PROVE  RowInv'
<1> USE DEF RowInv
<1>1. run_state \notin TerminalRunStates
  BY DEF ProgressIsLive
<1>2. \A t \in Steps : t # s => state[t] \notin {"running", "awaiting_reboot"}
  BY OneInProgress
<1>3. HandedInOrder'
  <2>1. ASSUME NEW c \in Agents, NEW u \in Steps, u \in handed[c], NEW t \in Steps,
               t < u, VisibleTo(Phase, t)
        PROVE  state'[t] \in {"done", "skipped"}
    BY <2>1 DEF HandedInOrder, TypeOK
  <2>2. ASSUME NEW u \in Steps, state'[u] \in {"running", "awaiting_reboot"}
        PROVE  \E c \in Agents : u \in handed[c]
    BY <2>2 DEF HandedInOrder, TypeOK
  <2> QED
    BY <2>1, <2>2 DEF HandedInOrder, VisibleTo
<1>4. ProgressIsLive'
  BY <1>2 DEF ProgressIsLive, TypeOK, RunOutcome, TerminalRunStates
<1>5. DoneRunIsClosed'
  BY RunOutcomeCases DEF DoneRunIsClosed, TypeOK, StepStates
<1>6. FailureEndsRun'
  BY <1>1 DEF FailureEndsRun, TypeOK, RunOutcome, TerminalRunStates
<1> QED
  BY <1>3, <1>4, <1>5, <1>6

(* A claim.                                                                *)
LEMMA ClaimKeepsRows ==
    ASSUME TypeOK, RowInv, NEW c \in Agents, NEW s \in Steps,
           Claimable(c, Phase, FALSE, s),
           state' = [state EXCEPT ![s] = "running"], run_state' = "running",
           handed' = [handed EXCEPT ![c] = @ \cup {s}], plan' = plan
    PROVE  RowInv'
<1> USE DEF RowInv
<1>1. /\ run_state \notin TerminalRunStates /\ state[s] = "pending"
      /\ VisibleTo(Phase, s)
      /\ \A t \in Steps : t < s /\ VisibleTo(Phase, t) => ~Blocks(t, c, FALSE)
  BY DEF Claimable
<1>2. \A t \in Steps : t < s /\ VisibleTo(Phase, t) => state[t] \in {"done", "skipped"}
  BY <1>1 DEF Blocks, TypeOK, StepStates
<1>3. HandedInOrder'
  <2>1. ASSUME NEW d \in Agents, NEW u \in Steps, u \in handed'[d]
        PROVE  /\ VisibleTo(Phase, u)
               /\ \A t \in Steps : t < u /\ VisibleTo(Phase, t) =>
                      state'[t] \in {"done", "skipped"}
    <3>1. CASE u \in handed[d]
      BY <1>1, <3>1 DEF HandedInOrder, TypeOK
    <3>2. CASE u \notin handed[d]
      <4>1. u = s
        BY <2>1, <3>2 DEF TypeOK
      <4>2. ~(s < s)
        BY DEF Steps
      <4> QED
        BY <1>1, <1>2, <4>1, <4>2 DEF TypeOK
    <3> QED
      BY <3>1, <3>2
  <2>2. ASSUME NEW u \in Steps, state'[u] \in {"running", "awaiting_reboot"}
        PROVE  \E d \in Agents : u \in handed'[d]
    BY <2>2 DEF HandedInOrder, TypeOK
  <2> QED
    BY <2>1, <2>2 DEF HandedInOrder, VisibleTo
<1>4. ProgressIsLive' /\ DoneRunIsClosed'
  BY DEF ProgressIsLive, DoneRunIsClosed, TerminalRunStates
<1>5. FailureEndsRun'
  BY <1>1 DEF FailureEndsRun, TypeOK, TerminalRunStates
<1> QED
  BY <1>3, <1>4, <1>5

(* What a client's request does to the rows when every request is on time: *)
(* the client's registration closes a step that waits for its reboot, or   *)
(* its report settles its own step ...                                     *)
Settles(c, s, o) ==
    /\ state[s] \in {"running", "awaiting_reboot"}
    /\ state' = [state EXCEPT ![s] = o]
    /\ run_state' = RunOutcome(s, o)
    /\ \A t \in Steps \ {s} : claimed_by'[t] = claimed_by[t]
    /\ UNCHANGED <<plan, attempt, handed>>
    /\ \/ pc[c] = "register" /\ state[s] = "awaiting_reboot" /\ o = "done"
       \/ /\ pc[c] = "report" /\ s = act[c]
          /\ o = "done" => plan.reboot_behavior[s] # "required"
          /\ o = "awaiting_reboot" =>
                 report[c] = "success" /\ plan.reboot_behavior[s] = "required"

(* ... or it claims one.                                                   *)
Takes(c, s) ==
    /\ pc[c] = "next"
    /\ Claimable(c, Phase, FALSE, s)
    /\ state' = [state EXCEPT ![s] = "running"]
    /\ attempt' = [attempt EXCEPT ![s] = @ + 1]
    /\ claimed_by' = [claimed_by EXCEPT ![s] = c]
    /\ run_state' = "running"
    /\ cursor' = s
    /\ handed' = [handed EXCEPT ![c] = @ \cup {s}]
    /\ plan' = plan

Settled == {"pending", "awaiting_reboot", "done", "failed"}

(* What the engine does with a request of a client: nothing, it settles    *)
(* the step the client has in hand, or hands it the next one.              *)
LEMMA QuietServe ==
    ASSUME QuietInv, NEW c \in Agents, pc[c] \in Calls, Serve(Request(c))
    PROVE  \/ UNCHANGED vars
           \/ \E s \in Steps, o \in Settled : Settles(c, s, o)
           \/ \E s \in Steps : Takes(c, s)
<1> USE DEF QuietInv, AgentInv
<1> DEFINE m == Request(c)
<1>1. m \in Requests
  BY RequestIsTrue
<1>2. m.from = c /\ m.op = pc[c] /\ m.step = act[c] /\ m.status = report[c]
  BY DEF Request
<1>3. \/ UNCHANGED vars
      \/ pc[c] = "register" /\ RegisterAgent(c)
      \/ pc[c] = "next" /\ ClaimNextStep(c, Phase, FALSE)
      \/ pc[c] = "report" /\ PostStepResult(c, Phase, act[c], report[c])
  BY <1>1, <1>2, ServeCases
<1>4. CASE pc[c] = "register" /\ RegisterAgent(c)
  <2>1. /\ cursor \in Steps /\ state[cursor] = "awaiting_reboot"
        /\ state' = [state EXCEPT ![cursor] = "done"]
        /\ run_state' = NextRunState(Steps \ {cursor})
        /\ UNCHANGED <<plan, attempt, claimed_by, handed>>
    BY <1>4 DEF RegisterAgent, MarkRebootComplete, TypeOK
  <2>2. run_state' = RunOutcome(cursor, "done")
    BY <2>1 DEF RunOutcome
  <2>3. Settles(c, cursor, "done")
    BY <1>4, <2>1, <2>2 DEF Settles
  <2> QED
    BY <2>1, <2>3 DEF Settled
<1>5. CASE pc[c] = "next" /\ ClaimNextStep(c, Phase, FALSE)
  BY <1>5 DEF ClaimNextStep, Takes
<1>6. CASE pc[c] = "report" /\ PostStepResult(c, Phase, act[c], report[c])
  <2> DEFINE s == act[c]
             o == StepOutcome(s, report[c], attempt[s])
  <2>1. /\ state' = [state EXCEPT ![s] = o]
        /\ claimed_by' = [claimed_by EXCEPT ![s] = IF o = "pending" THEN None ELSE @]
        /\ run_state' = RunOutcome(s, o)
        /\ UNCHANGED <<plan, attempt, batch, handed>>
    BY <1>6 DEF PostStepResult, CompleteStep
  <2>2. s \in Steps /\ state[s] = "running"
    BY <1>6 DEF BusyHasStep, OwnStep, Working
  <2>3. report[c] \in {"success", "failed"}
    BY DEF ClientTypeOK, ClientStatuses
  <2>4. /\ o \in Settled
        /\ o = "done" => plan.reboot_behavior[s] # "required"
        /\ o = "awaiting_reboot" =>
               report[c] = "success" /\ plan.reboot_behavior[s] = "required"
    BY <2>3 DEF StepOutcome, Settled
  <2> HIDE DEF o
  <2>5. \A t \in Steps \ {s} : claimed_by'[t] = claimed_by[t]
    BY <2>1, <2>2 DEF TypeOK
  <2>6. Settles(c, s, o)
    BY <1>6, <2>1, <2>2, <2>4, <2>5 DEF Settles
  <2> QED
    BY <2>2, <2>4, <2>6
<1> QED
  BY <1>3, <1>4, <1>5, <1>6

(* An answered request, row by row: only the client itself gets a step, or *)
(* loses the one it worked on.                                             *)
LEMMA QuietCallPreserves ==
    ASSUME QuietInv, NEW c \in Agents, Call(c)
    PROVE  QuietInv'
<1> DEFINE claimed == pc[c] = "next" /\ attempt' # attempt
           after == AfterAnswer(c, claimed)
<1>1. AgentInv' /\ late' = {}
  BY CallPreserves DEF QuietInv, Call
<1>2. /\ pc[c] \in Calls /\ Serve(Request(c))
      /\ pc' = [pc EXCEPT ![c] = after]
      /\ act' = [act EXCEPT ![c] = IF claimed THEN cursor' ELSE None]
  BY DEF Call, Answered
<1>3. /\ after \in {"next", "run", "finished", "waiting"}
      /\ after = "run" => claimed
  <2>1. claimed \in BOOLEAN
    OBVIOUS
  <2> HIDE DEF claimed
  <2> QED
    BY <1>2, <2>1, AnswerCases
<1>4. claimed => attempt' # attempt
  OBVIOUS
<1> HIDE DEF after, claimed
<1>5. TypeOK /\ ClientTypeOK /\ BusyHasStep /\ OwnStep /\ RowInv
  BY DEF QuietInv, AgentInv, RowInv
<1>6. ASSUME NEW d \in Agents, Working(d)'
      PROVE  /\ d = c => claimed /\ act'[d] = cursor'
             /\ d # c => Working(d) /\ act'[d] = act[d] /\ act[d] \in Steps
                         /\ state[act[d]] = "running" /\ claimed_by[act[d]] = d
  BY <1>2, <1>3, <1>5, <1>6 DEF Working, ClientTypeOK, BusyHasStep, OwnStep
<1>7. CASE UNCHANGED vars
  <2>1. ~claimed
    BY <1>4, <1>7 DEF vars
  <2>2. OwnStep'
    BY <1>6, <1>7, <2>1 DEF OwnStep, vars
  <2>3. RowInv'
    BY <1>5, <1>7 DEF vars, RowInv, HandedInOrder, VisibleTo, ProgressIsLive,
                      DoneRunIsClosed, FailureEndsRun
  <2> QED
    BY <1>1, <2>2, <2>3 DEF QuietInv, RowInv
<1>8. CASE \E s \in Steps, o \in Settled : Settles(c, s, o)
  <2>1. PICK s \in Steps, o \in Settled : Settles(c, s, o)
    BY <1>8
  <2>2. ~claimed
    BY <1>4, <2>1 DEF Settles
  <2>3. ASSUME NEW d \in Agents, Working(d)'
        PROVE  state'[act'[d]] = "running" /\ claimed_by'[act'[d]] = d
    <3>1. /\ d # c /\ act'[d] = act[d] /\ act[d] \in Steps
          /\ state[act[d]] = "running" /\ claimed_by[act[d]] = d
      BY <1>6, <2>2, <2>3
    <3>2. act[d] # s
      <4>1. CASE pc[c] = "register" /\ state[s] = "awaiting_reboot"
        BY <3>1, <4>1
      <4>2. CASE pc[c] = "report" /\ s = act[c]
        BY <1>5, <3>1, <4>2 DEF OwnStep, Working
      <4> QED
        BY <2>1, <4>1, <4>2 DEF Settles
    <3> QED
      BY <1>5, <2>1, <3>1, <3>2 DEF Settles, TypeOK
  <2>4. OwnStep'
    BY <2>3 DEF OwnStep
  <2>5. o \in StepStates
    BY DEF Settled, StepStates
  <2>6. RowInv'
    BY <1>5, <2>1, <2>5, CloseKeepsRows DEF Settles, Settled
  <2> QED
    BY <1>1, <2>4, <2>6 DEF QuietInv, RowInv
<1>9. CASE \E s \in Steps : Takes(c, s)
  <2>1. PICK s \in Steps : Takes(c, s)
    BY <1>9
  <2>2. state[s] = "pending"
    BY <2>1 DEF Takes, Claimable
  <2>3. ASSUME NEW d \in Agents, Working(d)'
        PROVE  state'[act'[d]] = "running" /\ claimed_by'[act'[d]] = d
    <3>1. CASE d = c
      BY <1>5, <1>6, <2>1, <2>3, <3>1 DEF Takes, TypeOK
    <3>2. CASE d # c
      BY <1>5, <1>6, <2>1, <2>2, <2>3, <3>2 DEF Takes, TypeOK
    <3> QED
      BY <3>1, <3>2
  <2>4. OwnStep'
    BY <2>3 DEF OwnStep
  <2>5. RowInv'
    BY <1>5, <2>1, ClaimKeepsRows DEF Takes
  <2> QED
    BY <1>1, <2>4, <2>5 DEF QuietInv, RowInv
<1> QED
  BY <1>2, <1>7, <1>8, <1>9, QuietServe

(* The steps that send no request leave the rows as they are.              *)
LEMMA QuietOtherPreserves ==
    ASSUME QuietInv, AgentInv', UNCHANGED <<vars, late>>,
           \A c \in Agents : Working(c)' => Working(c) /\ act'[c] = act[c]
    PROVE  QuietInv'
<1>1. OwnStep'
  BY DEF QuietInv, OwnStep, vars
<1>2. RowInv'
  BY DEF vars, QuietInv, RowInv, HandedInOrder, VisibleTo, ProgressIsLive,
         DoneRunIsClosed, FailureEndsRun
<1> QED
  BY <1>1, <1>2 DEF QuietInv, RowInv

(* Without network faults no request is lost or late.                      *)
LEMMA QuietInvNext ==
    ASSUME Quiet
    PROVE  QuietInv /\ [AgentNext]_agentVars => QuietInv'
<1> SUFFICES ASSUME QuietInv, [AgentNext]_agentVars PROVE QuietInv'
  OBVIOUS
<1>0. AgentInv'
  BY AgentInvNext DEF QuietInv
<1>1. CASE \E c \in Agents : Wake(c)
  BY <1>0, <1>1, QuietOtherPreserves DEF Wake, Working, QuietInv, AgentInv, ClientTypeOK
<1>2. CASE \E c \in Agents : Run(c)
  BY <1>0, <1>2, QuietOtherPreserves DEF Run, Working, QuietInv, AgentInv, ClientTypeOK
<1>3. CASE \E c \in Agents : Call(c)
  BY <1>3, QuietCallPreserves
<1>4. ~ \E c \in Agents : LoseReply(c) \/ DelayRequest(c)
  BY DEF Quiet, LoseReply, DelayRequest, Fault
<1>5. ~ LogFails /\ ~ ShutdownFails /\ ~ \E m \in late : ServeLate(m)
  BY DEF Quiet, LogFails, ShutdownFails, Fault, QuietInv
<1>6. CASE Restart \/ Crash
  <2>1. Boot
    BY <1>6 DEF Restart, Crash
  <2> QED
    BY <1>0, <2>1, QuietOtherPreserves DEF Boot, Working
<1>7. CASE UNCHANGED agentVars
  BY <1>0, <1>7, QuietOtherPreserves DEF agentVars, clientVars, Working
<1> QED
  BY <1>1, <1>2, <1>3, <1>4, <1>5, <1>6, <1>7 DEF AgentNext

(* The invariant of the clients and the engine when no request is lost or  *)
(* late, with any number of crashes.                                       *)
LEMMA QuietInvHolds ==
    ASSUME Quiet
    PROVE  AgentSpec => []QuietInv
BY QuietInvInit, QuietInvNext, PTL DEF AgentSpec

(* claim_next_step: the clients of one phase never work on two steps, or   *)
(* twice on one, in any fleet and across any number of crashes, as long as *)
(* every request is answered.                                              *)
THEOREM ClientsTakeTurns ==
    ASSUME Quiet
    PROVE  AgentSpec => []OneRunner
<1>1. QuietInv => OneRunner
  <2> SUFFICES ASSUME QuietInv, NEW c \in Agents, NEW d \in Agents,
                      pc[c] = "run", pc[d] = "run"
               PROVE  c = d
    BY DEF OneRunner
  <2>1. /\ act[c] \in Steps /\ state[act[c]] = "running" /\ claimed_by[act[c]] = c
        /\ act[d] \in Steps /\ state[act[d]] = "running" /\ claimed_by[act[d]] = d
    BY DEF QuietInv, AgentInv, BusyHasStep, OwnStep, Working
  <2>2. act[c] = act[d]
    BY <2>1, OneInProgress DEF QuietInv, AgentInv
  <2> QED
    BY <2>1, <2>2
<1> QED
  BY <1>1, QuietInvHolds, PTL

(* complete_step, _next_run_state: a run is done only when the work of     *)
(* every step that may not fail was done, as long as every request is      *)
(* answered.                                                               *)
THEOREM DoneRunsDidTheWork ==
    ASSUME Quiet
    PROVE  AgentSpec => []DoneRunDidTheWork
<1>1. QuietInv => DoneRunDidTheWork
  <2> SUFFICES ASSUME QuietInv, run_state = "done", NEW s \in Steps,
                      plan.enabled[s], ~plan.continue_on_error[s]
               PROVE  s \in executed
    BY DEF DoneRunDidTheWork
  <2>1. state[s] \notin OpenStates /\ state[s] \in StepStates
    BY DEF QuietInv, AgentInv, TypeOK, DoneRunIsClosed
  <2>2. state[s] # "failed" /\ state[s] # "skipped"
    BY DEF QuietInv, FailureEndsRun
  <2>3. state[s] = "done"
    BY <2>1, <2>2 DEF StepStates, OpenStates
  <2> QED
    BY <2>3 DEF QuietInv, AgentInv, DoneWasExecuted
<1> QED
  BY <1>1, QuietInvHolds, PTL

(* A request that is answered changes no step that is closed, and no run   *)
(* that has ended.                                                         *)
LEMMA AnsweredLeavesEnded ==
    ASSUME QuietInv, NEW c \in Agents, pc[c] \in Calls, Serve(Request(c))
    PROVE  /\ \A s \in Steps : state[s] \notin OpenStates => state'[s] = state[s]
           /\ run_state \in TerminalRunStates => run_state' = run_state
<1> USE DEF QuietInv, AgentInv
<1>1. CASE UNCHANGED vars
  BY <1>1 DEF vars
<1>2. CASE \E s \in Steps, o \in Settled : Settles(c, s, o)
  <2>1. PICK s \in Steps, o \in Settled : Settles(c, s, o)
    BY <1>2
  <2>2. state[s] \in {"running", "awaiting_reboot"} /\ state' = [state EXCEPT ![s] = o]
    BY <2>1 DEF Settles
  <2>3. run_state \notin TerminalRunStates
    BY <2>2 DEF ProgressIsLive
  <2> QED
    BY <2>2, <2>3 DEF OpenStates, TypeOK
<1>3. CASE \E s \in Steps : Takes(c, s)
  <2>1. PICK s \in Steps : Takes(c, s)
    BY <1>3
  <2>2. /\ run_state \notin TerminalRunStates /\ state[s] = "pending"
        /\ state' = [state EXCEPT ![s] = "running"]
    BY <2>1 DEF Takes, Claimable
  <2> QED
    BY <2>2 DEF OpenStates, TypeOK
<1> QED
  BY <1>1, <1>2, <1>3, QuietServe

(* complete_step reopens whatever it is told to: it takes the clients'     *)
(* loops for a closed step to stay as it was closed and an ended run as it *)
(* ended, in any fleet and across crashes, as long as every request is     *)
(* answered.                                                               *)
THEOREM EndedStaysEnded ==
    ASSUME Quiet
    PROVE  AgentSpec =>
             [][/\ \A s \in Steps : state[s] \notin OpenStates => state'[s] = state[s]
                /\ run_state \in TerminalRunStates => run_state' = run_state]_agentVars
<1> DEFINE Stays == /\ \A s \in Steps : state[s] \notin OpenStates => state'[s] = state[s]
                    /\ run_state \in TerminalRunStates => run_state' = run_state
<1>1. QuietInv /\ [AgentNext]_agentVars => [Stays]_agentVars
  <2> SUFFICES ASSUME QuietInv, AgentNext PROVE Stays
    OBVIOUS
  <2>1. CASE \E c \in Agents : Call(c)
    BY <2>1, AnsweredLeavesEnded DEF Call
  <2>2. /\ ~ \E c \in Agents : LoseReply(c) \/ DelayRequest(c)
        /\ ~ LogFails /\ ~ ShutdownFails /\ ~ \E m \in late : ServeLate(m)
    BY DEF Quiet, LoseReply, DelayRequest, LogFails, ShutdownFails, Fault, QuietInv
  <2>3. CASE (\E c \in Agents : Wake(c) \/ Run(c)) \/ Restart \/ Crash
    BY <2>3 DEF Wake, Run, Restart, Crash, Boot, vars
  <2> QED
    BY <2>1, <2>2, <2>3 DEF AgentNext
<1> QED
  BY <1>1, QuietInvHolds, PTL DEF AgentSpec

-----------------------------------------------------------------------------
(* The promise of SequentialRun                                            *)

(* Every step of every plan is one the clients' phase can see.             *)
OnePhase == \A p \in Plans : \A s \in Steps : p.phase[s] \in {Phase, "any"}

Todo == {s \in Steps : state[s] \in OpenStates}

Outcome == IF run_state \in TerminalRunStates THEN run_state ELSE "active"

(* A step of the promise, or none.                                         *)
Advances == Abstract!Advance \/ (Todo' = Todo /\ Outcome' = Outcome)

(* A settled step is closed or reopened as the promise says: it is the     *)
(* first one that is left.                                                 *)
LEMMA SettleAdvances ==
    ASSUME OnePhase, TypeOK, RowInv, NEW c \in Agents, NEW s \in Steps,
           NEW o \in Settled, Settles(c, s, o)
    PROVE  Advances
<1> DEFINE left == \E t \in Steps \ {s} : state[t] \in OpenStates
<1>1. /\ state[s] \in {"running", "awaiting_reboot"}
      /\ state' = [state EXCEPT ![s] = o]
      /\ run_state' = RunOutcome(s, o)
  BY DEF Settles
<1>2. run_state \notin TerminalRunStates
  BY <1>1 DEF RowInv, ProgressIsLive
<1>3. Outcome = "active"
  BY <1>2 DEF Outcome
<1>4. s \in Todo /\ \A t \in Todo : s <= t
  <2>1. s \in Todo
    BY <1>1 DEF Todo, OpenStates
  <2>2. ASSUME NEW t \in Todo PROVE ~(t < s)
    <3>1. t \in Steps /\ state[t] \in OpenStates
      BY DEF Todo
    <3>2. plan \in Plans
      BY DEF TypeOK
    <3>3. VisibleTo(Phase, t)
      BY <3>1, <3>2 DEF OnePhase, VisibleTo
    <3>4. PICK d \in Agents : s \in handed[d]
      BY <1>1 DEF RowInv, HandedInOrder
    <3>5. t < s => state[t] \in {"done", "skipped"}
      BY <3>1, <3>3, <3>4 DEF RowInv, HandedInOrder
    <3> QED
      BY <3>1, <3>5 DEF OpenStates
  <2>3. \A t \in Todo : t \in Int /\ s \in Int
    BY DEF Todo, Steps
  <2> QED
    BY <2>1, <2>2, <2>3
<1>5. CASE o \in {"pending", "awaiting_reboot"}
  <2>1. Todo' = Todo
    BY <1>1, <1>5 DEF Todo, OpenStates, TypeOK
  <2>2. run_state' \notin TerminalRunStates
    BY <1>1, <1>5 DEF RunOutcome, TerminalRunStates
  <2>3. Outcome' = "active"
    BY <2>2 DEF Outcome
  <2> QED
    BY <1>3, <2>1, <2>3 DEF Advances
<1>6. CASE o \in {"done", "failed"}
  <2>1. Todo' = Todo \ {s}
    BY <1>1, <1>6 DEF Todo, OpenStates, TypeOK
  <2>2. Todo' = {} <=> ~left
    BY <2>1 DEF Todo
  <2>3. CASE run_state' = "failed"
    <3>1. Outcome' = "failed"
      BY <2>3 DEF Outcome, TerminalRunStates
    <3>2. Abstract!Abort(s)
      BY <1>3, <1>4, <2>1, <3>1 DEF Abstract!Abort, Abstract!Current, Todo, Outcome
    <3> QED
      BY <3>2 DEF Advances, Abstract!Advance
  <2>4. CASE run_state' # "failed"
    <3>1. run_state' = NextRunState(Steps \ {s})
      BY <1>1, <1>6, <2>4 DEF RunOutcome
    <3>2. run_state' = IF left THEN "queued" ELSE "done"
      BY <3>1 DEF NextRunState
    <3> HIDE DEF left
    <3>3. Outcome' = IF Todo' = {} THEN "done" ELSE "active"
      BY <2>2, <3>2 DEF Outcome, TerminalRunStates
    <3>4. Abstract!Close(s)
      BY <1>3, <1>4, <2>1, <3>3 DEF Abstract!Close, Abstract!Current, Todo, Outcome
    <3> QED
      BY <3>4 DEF Advances, Abstract!Advance
  <2> QED
    BY <2>3, <2>4
<1> QED
  BY <1>5, <1>6 DEF Settled

(* Every step of the clients is a step of the promise, or none.            *)
LEMMA StepAdvances ==
    ASSUME Quiet, OnePhase, QuietInv, [AgentNext]_agentVars
    PROVE  Advances
<1>1. CASE UNCHANGED vars
  BY <1>1 DEF vars, Advances, Todo, Outcome
<1>2. CASE \E c \in Agents : Call(c)
  <2>1. PICK c \in Agents : pc[c] \in Calls /\ Serve(Request(c))
    BY <1>2 DEF Call
  <2>2. CASE \E s \in Steps, o \in Settled : Settles(c, s, o)
    BY <2>2, SettleAdvances DEF QuietInv, AgentInv, RowInv
  <2>3. CASE \E s \in Steps : Takes(c, s)
    <3>1. PICK s \in Steps : Takes(c, s)
      BY <2>3
    <3>2. /\ state[s] = "pending" /\ state' = [state EXCEPT ![s] = "running"]
          /\ run_state \notin TerminalRunStates /\ run_state' = "running"
      BY <3>1 DEF Takes, Claimable
    <3>3. Todo' = Todo
      BY <3>2 DEF Todo, OpenStates, QuietInv, AgentInv, TypeOK
    <3>4. Outcome' = Outcome
      BY <3>2 DEF Outcome, TerminalRunStates
    <3> QED
      BY <3>3, <3>4 DEF Advances
  <2> QED
    BY <1>1, <2>1, <2>2, <2>3, QuietServe
<1>3. ~ \E c \in Agents : LoseReply(c) \/ DelayRequest(c)
  BY DEF Quiet, LoseReply, DelayRequest, Fault
<1>4. ~ LogFails /\ ~ ShutdownFails /\ ~ \E m \in late : ServeLate(m)
  BY DEF Quiet, LogFails, ShutdownFails, Fault, QuietInv
<1>5. CASE (\E c \in Agents : Wake(c) \/ Run(c)) \/ Restart \/ Crash
  BY <1>1, <1>5 DEF Wake, Run, Restart, Crash, Boot
<1>6. CASE UNCHANGED agentVars
  BY <1>1, <1>6 DEF agentVars
<1> QED
  BY <1>2, <1>3, <1>4, <1>5, <1>6 DEF AgentNext

(* The clients and the engine implement SequentialRun: for plans of one    *)
(* phase, in any fleet and across crashes, the steps are closed in order,  *)
(* one at a time and each once, and an ended run never comes back, as long *)
(* as every request is answered.                                           *)
THEOREM ClientsKeepPromise ==
    ASSUME Quiet, OnePhase
    PROVE  AgentSpec => KeepsPromise
<1>1. AgentInit => Abstract!Start
  <2> SUFFICES ASSUME AgentInit PROVE Abstract!Start
    OBVIOUS
  <2>1. TypeOK
    BY TypeInit DEF AgentInit
  <2>2. PICK s \in Steps : plan.enabled[s]
    BY <2>1, PlanFacts DEF TypeOK
  <2>3. s \in Todo /\ Todo \in SUBSET Steps
    BY <2>2 DEF AgentInit, Init, Todo, OpenStates
  <2>4. Outcome = "active"
    BY DEF AgentInit, Init, Outcome, TerminalRunStates
  <2> QED
    BY <2>3, <2>4 DEF Abstract!Start, Todo, Outcome
<1>2. QuietInv /\ [AgentNext]_agentVars
          => [Abstract!Advance]_<<Todo, Outcome>>
  BY StepAdvances DEF Advances
<1>3. QuietInv /\ [AgentNext]_agentVars
          => [Abstract!Advance]_<<{s \in Steps : state[s] \in OpenStates},
                IF run_state \in TerminalRunStates THEN run_state ELSE "active">>
  BY <1>2 DEF Todo, Outcome
<1> QED
  BY <1>1, <1>3, QuietInvHolds, PTL DEF AgentSpec, KeepsPromise, Abstract!Promise

=============================================================================
