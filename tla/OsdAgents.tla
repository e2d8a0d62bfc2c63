------------------------------- MODULE OsdAgents -------------------------------
(***************************************************************************)
(* The two full-OS clients of the engine on one machine, the network       *)
(* between them and the engine, and the machine's restarts:                *)
(*                                                                         *)
(*  - "osd": OsdClient.ps1 (Invoke-OsdV2Client), started every minute by   *)
(*    the CloudOSD first-boot task until it ends with exit code 0;         *)
(*  - "svc": the AutopilotAgent service (Worker, OsdV2WorkService), which  *)
(*    registers, asks for one action and runs it on every heartbeat.       *)
(*                                                                         *)
(* Every handler of the engine is one atomic step of TaskEngine.           *)
(***************************************************************************)
EXTENDS TaskEngine

CONSTANTS
    RoleKinds,   \* kinds after which the service restarts the machine itself
    Fleets,      \* Fleets[p]: the sets of clients present on a machine with plan p
    Attempts,    \* Attempts[c]: how often client c tries one request
    FaultKinds,  \* the faults considered, a subset of Faults
    MaxFaults    \* bound on the number of faults in one behaviour

Phase == "full_os"

Faults == {"lost_reply", "late_request", "shutdown", "crash"}

ASSUME ClientsAssumption ==
    /\ Agents = {"osd", "svc"}
    /\ Phase \in Phases
    /\ RoleKinds \subseteq Kinds
    /\ Fleets \in [Plans -> SUBSET SUBSET Agents]
    /\ Attempts \in [Agents -> Nat \ {0}]
    /\ FaultKinds \subseteq Faults
    /\ MaxFaults \in Nat

VARIABLES
    pc,        \* pc[c]: where client c is in its loop
    act,       \* act[c]: the step client c is working on, or None
    report,    \* report[c]: the status client c is about to report
    tries,     \* tries[c]: failed attempts of the request c is making
    late,      \* requests the client gave up waiting for, not yet served
    restart,   \* the client that asked for a restart of the machine, or None
    executed,  \* steps whose work has been done on the machine
    faults     \* number of faults so far

clientVars == <<pc, act, report, tries, restart>>
agentVars == <<vars, clientVars, executed, late, faults>>

Calls == {"register", "next", "report"}

AgentInit ==
    /\ Init
    /\ \E fleet \in Fleets[plan] :
           pc = [c \in Agents |-> IF c \in fleet THEN "waiting" ELSE "absent"]
    /\ act = [c \in Agents |-> None]
    /\ report = [c \in Agents |-> "success"]
    /\ tries = [c \in Agents |-> 0]
    /\ late = {}
    /\ restart = None
    /\ executed = {}
    /\ faults = 0

-----------------------------------------------------------------------------
(* What the engine does with a request                                     *)

ServeRegister(c) ==
    \/ RegisterAgent(c)
    \/ /\ ~ (cursor # None /\ state[cursor] = "awaiting_reboot")
       /\ UNCHANGED vars

(* All clients ask for one action.                                         *)
ServeNext(c) ==
    \/ ClaimNextStep(c, Phase, FALSE) /\ UNCHANGED batch
    \/ /\ ~ \E s \in Steps : Claimable(c, Phase, FALSE, s)
       /\ UNCHANGED vars

ServeResult(c, s, status) ==
    \/ PostStepResult(c, Phase, s, status)
    \/ LateFailureIgnored(s, status) /\ UNCHANGED vars

Serve(m) ==
    \/ m.op = "register" /\ ServeRegister(m.from)
    \/ m.op = "next" /\ ServeNext(m.from)
    \/ m.op = "report" /\ ServeResult(m.from, m.step, m.status)

Request(c) == [from |-> c, op |-> pc[c], step |-> act[c], status |-> report[c]]

-----------------------------------------------------------------------------
(* The clients                                                             *)

(* The heartbeat delay of Worker, the minute of the first-boot task.  The  *)
(* task is not started again before the restart OsdClient has asked for;   *)
(* Worker's delay may be 10 s, and shutdown.exe waits for 15 s.            *)
Wake(c) ==
    /\ pc[c] = "waiting"
    /\ restart = c => c = "svc"
    /\ pc' = [pc EXCEPT ![c] = "register"]
    /\ UNCHANGED <<vars, act, report, tries, restart, executed, late, faults>>

(* Mutant of Run: a failure of the work is swallowed.                      *)
RunSwallowsFailure(c) ==
    /\ pc[c] = "run"
    /\ pc' = [pc EXCEPT ![c] = "report"]
    /\ report' = [report EXCEPT ![c] = "success"]
    /\ executed' \in {executed, executed \cup {act[c]}}
    /\ UNCHANGED <<vars, act, tries, restart, late, faults>>

(* The work of the step succeeds, or fails and is reported as failed.      *)
Run(c) ==
    /\ pc[c] = "run"
    /\ pc' = [pc EXCEPT ![c] = "report"]
    /\ \/ /\ report' = [report EXCEPT ![c] = "success"]
          /\ executed' = executed \cup {act[c]}
       \/ /\ report' = [report EXCEPT ![c] = "failed"]
          /\ UNCHANGED executed
    /\ UNCHANGED <<vars, act, tries, restart, late, faults>>

NeedsRestart(c) ==
    /\ pc[c] = "report"
    /\ report[c] = "success"
    /\ plan.reboot_behavior[act[c]] = "required"
    /\ c = "svc" => plan.kind[act[c]] \in RoleKinds

(* Mutant of AfterAnswer: the service, too, ends when there is no action.  *)
AfterAnswerBothFinish(c, claimed) ==
    CASE pc[c] = "register" -> "next"
      [] pc[c] = "next" -> IF claimed THEN "run" ELSE "finished"
      [] pc[c] = "report" ->
             IF c = "osd" /\ report[c] = "success" /\ ~NeedsRestart(c)
             THEN "next" ELSE "waiting"

(* Where an answered request leads.  Without an action OsdClient takes its *)
(* phase for complete, ends with exit code 0 and its task is removed;      *)
(* after a report it asks again unless it has to restart (3010) or has     *)
(* failed (1), and is then started by its task again.  The service does    *)
(* one action per heartbeat.                                               *)
AfterAnswer(c, claimed) ==
    CASE pc[c] = "register" -> "next"
      [] pc[c] = "next" /\ claimed -> "run"
      [] pc[c] = "next" /\ ~claimed -> IF c = "osd" THEN "finished" ELSE "waiting"
      [] pc[c] = "report" ->
             IF c = "osd" /\ report[c] = "success" /\ ~NeedsRestart(c)
             THEN "next" ELSE "waiting"

Answered(c) ==
    LET claimed == pc[c] = "next" /\ attempt' # attempt
    IN  /\ pc' = [pc EXCEPT ![c] = AfterAnswer(c, claimed)]
        /\ act' = [act EXCEPT ![c] = IF claimed THEN cursor' ELSE None]
        /\ tries' = [tries EXCEPT ![c] = 0]
        /\ restart' = IF NeedsRestart(c) THEN c ELSE restart
        /\ UNCHANGED report

Call(c) ==
    /\ pc[c] \in Calls
    /\ Serve(Request(c))
    /\ Answered(c)
    /\ UNCHANGED <<executed, late, faults>>

-----------------------------------------------------------------------------
(* Faults                                                                  *)

Fault(kind) ==
    /\ kind \in FaultKinds
    /\ faults < MaxFaults
    /\ faults' = faults + 1

(* An attempt failed.  The client tries again, or gives up: a success it   *)
(* could not report is reported as a failure, anything else ends the pass. *)
Retry(c) ==
    LET gaveUp    == tries[c] + 1 = Attempts[c]
        downgrade == gaveUp /\ pc[c] = "report" /\ report[c] = "success"
    IN  /\ tries' = [tries EXCEPT ![c] = IF gaveUp THEN 0 ELSE @ + 1]
        /\ report' = [report EXCEPT ![c] = IF downgrade THEN "failed" ELSE @]
        /\ pc' = [pc EXCEPT ![c] = IF gaveUp /\ ~downgrade THEN "waiting" ELSE @]
        /\ act' = [act EXCEPT ![c] = IF gaveUp /\ ~downgrade THEN None ELSE @]
        /\ UNCHANGED restart

(* The engine serves the request, the client never sees the answer.        *)
LoseReply(c) ==
    /\ pc[c] \in Calls
    /\ Fault("lost_reply")
    /\ Serve(Request(c))
    /\ Retry(c)
    /\ UNCHANGED <<executed, late>>

(* The client stops waiting; its request is served later, or never.        *)
DelayRequest(c) ==
    /\ pc[c] \in Calls
    /\ Fault("late_request")
    /\ late' = late \cup {Request(c)}
    /\ Retry(c)
    /\ UNCHANGED <<vars, executed>>

(* shutdown.exe fails after the service has reported its success: the      *)
(* service reports the step as failed, too.                                *)
ShutdownFails ==
    /\ NeedsRestart("svc")
    /\ Fault("shutdown")
    /\ Serve(Request("svc"))
    /\ report' = [report EXCEPT !["svc"] = "failed"]
    /\ UNCHANGED <<pc, act, tries, restart, executed, late>>

(* The service posts a log line before it starts; if that fails, the       *)
(* action is dropped without a report.                                     *)
LogFails ==
    /\ pc["svc"] = "run"
    /\ Fault("lost_reply")
    /\ pc' = [pc EXCEPT !["svc"] = "waiting"]
    /\ act' = [act EXCEPT !["svc"] = None]
    /\ UNCHANGED <<vars, report, tries, restart, executed, late>>

ServeLate(m) ==
    /\ m \in late
    /\ Serve(m)
    /\ late' = late \ {m}
    /\ UNCHANGED <<clientVars, executed, faults>>

(* The machine starts again: the service and the task (unless it has been  *)
(* removed) start over and forget what they were doing.                    *)
Boot ==
    /\ pc' = [c \in Agents |-> IF pc[c] \in {"absent", "finished"} THEN pc[c] ELSE "waiting"]
    /\ act' = [c \in Agents |-> None]
    /\ tries' = [c \in Agents |-> 0]
    /\ restart' = None
    /\ UNCHANGED <<vars, report, executed, late>>

Restart ==
    /\ restart # None
    /\ Boot
    /\ UNCHANGED faults

Crash ==
    /\ Fault("crash")
    /\ Boot

-----------------------------------------------------------------------------
AgentNext ==
    \/ \E c \in Agents :
           Wake(c) \/ Run(c) \/ Call(c) \/ LoseReply(c) \/ DelayRequest(c)
    \/ \E m \in late : ServeLate(m)
    \/ ShutdownFails
    \/ LogFails
    \/ Restart
    \/ Crash

(* The clients' loops, the scheduled task and a requested restart go on;   *)
(* nothing is assumed of the faults or of requests served late.            *)
Fairness ==
    /\ \A c \in Agents : WF_agentVars(Wake(c)) /\ WF_agentVars(Run(c)) /\ WF_agentVars(Call(c))
    /\ WF_agentVars(Restart)

AgentSpec == AgentInit /\ [][AgentNext]_agentVars /\ Fairness

-----------------------------------------------------------------------------
(* Properties                                                              *)

(* claim_next_step and the clients' loops: whatever is lost, late or       *)
(* repeated, a step the engine shows as done has had its work done.        *)
DoneWasExecuted == \A s \in Steps : state[s] = "done" => s \in executed

(* complete_step, _next_run_state: a run reported done has done the work   *)
(* of every step that was not allowed to fail.                             *)
DoneRunDidTheWork ==
    run_state = "done" =>
        \A s \in Steps : plan.enabled[s] /\ ~plan.continue_on_error[s] => s \in executed

(* claim_next_step: the clients of one phase never work on two steps, or   *)
(* twice on the same step, at the same time.                               *)
OneRunner ==
    \A c, d \in Agents : pc[c] = "run" /\ pc[d] = "run" => c = d

(* Rows that no client will touch again: a running step whose client was   *)
(* cut off, since only pending steps are claimed; a pending step behind    *)
(* one that failed with continue_on_error; and a pending step that only    *)
(* OsdClient knows, after it found nothing to do and ended.                *)
Wedged ==
    \/ \E s \in Steps : state[s] = "running" /\ \A c \in Agents : act[c] # s
    \/ \E s, t \in Steps : s < t /\ state[s] = "failed" /\ state[t] = "pending"
    \/ \E s \in Steps :
           /\ state[s] = "pending"
           /\ pc["osd"] \in {"absent", "finished"}
           /\ pc["svc"] # "absent" => Supported["svc"] # {} /\ plan.kind[s] \notin Supported["svc"]

(* claim_next_step, complete_step and the clients' loops together: a run   *)
(* ends, unless it has come to one of the three ends an operator has to    *)
(* clear up; across crashes, restarts and clients that hand over.          *)
RunEndsOrIsWedged == <>(run_state \in TerminalRunStates \/ Wedged)

(* The rows of the engine as an operator sees them.                        *)
Abstract == INSTANCE SequentialRun WITH
    todo    <- {s \in Steps : state[s] \in OpenStates},
    outcome <- IF run_state \in TerminalRunStates THEN run_state ELSE "active"

(* The clients and the engine together keep the promise of SequentialRun:  *)
(* in order, one step at a time, each once, and no ended run comes back.   *)
KeepsPromise == Abstract!Promise
=============================================================================
