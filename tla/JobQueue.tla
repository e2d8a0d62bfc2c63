------------------------------- MODULE JobQueue -------------------------------
(***************************************************************************)
(* The job queue (web/jobs_pg.py), the builders that run its jobs          *)
(* (web/builder.py) and the monitor's orphan reaper.                       *)
(*                                                                         *)
(* claim_next_job is modelled statement by statement: the candidate types  *)
(* of its first query, one advisory lock per type it visits, all held to   *)
(* the end of the transaction, and the claim itself.  Every other          *)
(* operation on the table is one UPDATE and one step here.                 *)
(***************************************************************************)
EXTENDS Integers, Sequences, FiniteSets

CONSTANTS
    NumJobs,     \* bound on the number of jobs; jobs are numbered by created_at
    Types,       \* job types
    JobTypes,    \* the assignments of types to jobs considered
    Workers,     \* builder replicas
    Caps,        \* values of job_type_limits.max_concurrent considered
    OSDeploy,    \* the job type whose failure fails an OSDeploy run
    Provision,   \* types complete_interrupted_provision_winpe_jobs_for_run closes
    Killable,    \* bound: the jobs the operator may ask to kill
    ListLimit,   \* how many of the newest jobs the recovery at start looks at
    Faults,      \* the kinds of fault considered
    MaxFaults,   \* bound on the number of faults
    None

Jobs == 1..NumJobs

Terminal == {"complete", "failed", "orphaned"}
JobStates == {"none", "pending", "running"} \cup Terminal

(* Exit code 0, another code (spawn failures are -1), and -15 after SIGTERM. *)
Exits == {"none", "zero", "error", "sigterm"}

(* A builder misses heartbeats while its process runs, is killed, gets     *)
(* SIGTERM, or meets a database error in finalize_job, in                  *)
(* _finalize_related_deployment or in its recovery at start.               *)
FaultKinds == {"stall", "crash", "stop", "finalize", "related", "recover"}

ASSUME QueueAssumption ==
    /\ NumJobs \in Nat \ {0}
    /\ IsFiniteSet(Types)
    /\ JobTypes \subseteq [Jobs -> Types]
    /\ Caps \subseteq Nat \ {0}
    /\ Caps # {}
    /\ Killable \subseteq Jobs
    /\ ListLimit \in Nat
    /\ Faults \subseteq FaultKinds
    /\ MaxFaults \in Nat
    /\ None \notin Jobs
    /\ None \notin Workers

VARIABLES
    jtype,       \* jobs.job_type
    status,      \* jobs.status; "none": not enqueued yet
    worker,      \* jobs.worker_id
    kill,        \* jobs.kill_requested, as a set of jobs
    stale,       \* jobs whose last_heartbeat is older than the reaper allows
    cap,         \* job_type_limits
    high,        \* the highest cap each type ever had (history)
    wpc,         \* where each builder is
    wjob,        \* the job a builder is claiming or running, or None
    cand,        \* the types a claim transaction still has to visit, in order
    held,        \* the advisory locks a claim transaction holds
    stopping,    \* builders whose stop event is set
    alive,       \* jobs whose process is running
    dying,       \* running processes that were sent SIGTERM
    exit,        \* exit[j]: how the process of j ended, "none" before
    told,        \* jobs whose failure was passed on to their OSDeploy run
    faults       \* number of faults so far

rowVars == <<jtype, status, worker, kill, stale>>
capVars == <<cap, high>>
claimVars == <<cand, held>>
procVars == <<alive, dying, exit>>
queueVars == <<rowVars, capVars, wpc, wjob, claimVars, stopping, procVars, told, faults>>

WorkerPCs == {"down", "idle", "claiming", "taking", "spawn", "run", "related"}

Init ==
    /\ jtype \in JobTypes
    /\ status = [j \in Jobs |-> "none"]
    /\ worker = [j \in Jobs |-> None]
    /\ kill = {}
    /\ stale = {}
    /\ cap \in [Types -> Caps]
    /\ high = cap
    /\ wpc = [w \in Workers |-> "idle"]
    /\ wjob = [w \in Workers |-> None]
    /\ cand = [w \in Workers |-> <<>>]
    /\ held = [w \in Workers |-> {}]
    /\ stopping = {}
    /\ alive = {}
    /\ dying = {}
    /\ exit = [j \in Jobs |-> "none"]
    /\ told = {}
    /\ faults = 0

-----------------------------------------------------------------------------
Fault(kind) ==
    /\ kind \in Faults
    /\ faults < MaxFaults
    /\ faults' = faults + 1

-----------------------------------------------------------------------------
(* The web application and the operator                                    *)

(* The next job in created_at order.                                       *)
Enqueue(j) ==
    /\ status[j] = "none"
    /\ \A i \in Jobs : i < j => status[i] # "none"
    /\ status' = [status EXCEPT ![j] = "pending"]
    /\ UNCHANGED <<jtype, worker, kill, stale, capVars, wpc, wjob, claimVars,
                   stopping, procVars, told, faults>>

RequestKill(j) ==
    /\ j \in Killable
    /\ status[j] # "none"
    /\ kill' = kill \cup {j}
    /\ UNCHANGED <<jtype, status, worker, stale, capVars, wpc, wjob, claimVars,
                   stopping, procVars, told, faults>>

UpdateJobTypeLimit(t, n) ==
    /\ cap' = [cap EXCEPT ![t] = n]
    /\ high' = [high EXCEPT ![t] = IF n > @ THEN n ELSE @]
    /\ UNCHANGED <<rowVars, wpc, wjob, claimVars, stopping, procVars, told, faults>>

(* A WinPE run that reports in closes its interrupted provision job.       *)
CompleteInterrupted(j) ==
    /\ jtype[j] \in Provision
    /\ status[j] = "orphaned" \/ (status[j] = "failed" /\ exit[j] = "sigterm")
    /\ status' = [status EXCEPT ![j] = "complete"]
    /\ kill' = kill \ {j}
    /\ UNCHANGED <<jtype, worker, stale, capVars, wpc, wjob, claimVars,
                   stopping, procVars, told, faults>>

-----------------------------------------------------------------------------
(* claim_next_job                                                          *)

(* Mutant: an orphaned job is claimed again.                               *)
PendingOrOrphaned(t) ==
    {j \in Jobs : jtype[j] = t /\ status[j] \in {"pending", "orphaned"}}

Pending(t) == {j \in Jobs : jtype[j] = t /\ status[j] = "pending"}

Running(t) == {j \in Jobs : jtype[j] = t /\ status[j] = "running"}

(* FOR UPDATE SKIP LOCKED: the pending rows no other claim has locked.     *)
Unlocked(t) == Pending(t) \ {wjob[v] : v \in {u \in Workers : wpc[u] = "taking"}}

Oldest(S) == CHOOSE j \in S : \A i \in S : j <= i

(* The types with pending jobs, ordered by their oldest one.               *)
Candidates ==
    LET ts == {t \in Types : Pending(t) # {}}
    IN  {seq \in [1..Cardinality(ts) -> ts] :
            \A m, n \in 1..Cardinality(ts) :
                m < n => Oldest(Pending(seq[m])) < Oldest(Pending(seq[n]))}

BeginClaim(w) ==
    /\ wpc[w] = "idle"
    /\ w \notin stopping
    /\ \E seq \in Candidates :
           /\ seq # <<>>
           /\ cand' = [cand EXCEPT ![w] = seq]
    /\ wpc' = [wpc EXCEPT ![w] = "claiming"]
    /\ UNCHANGED <<rowVars, capVars, wjob, held, stopping, procVars, told, faults>>

(* Mutant: no advisory lock.                                               *)
AlwaysFree(t, w) == TRUE

Free(t, w) == \A v \in Workers \ {w} : t \notin held[v]

(* pg_advisory_xact_lock on the next type, then the cap, the running count *)
(* and the oldest pending row.  A type at its cap, or with nothing left,   *)
(* is passed over; its lock stays.                                         *)
VisitType(w) ==
    /\ wpc[w] = "claiming"
    /\ cand[w] # <<>>
    /\ LET t == Head(cand[w])
           claims == Cardinality(Running(t)) < cap[t] /\ Unlocked(t) # {}
       IN  /\ Free(t, w)
           /\ held' = [held EXCEPT ![w] = @ \cup {t}]
           /\ cand' = [cand EXCEPT ![w] = IF claims THEN <<>> ELSE Tail(@)]
           /\ wjob' = [wjob EXCEPT ![w] = IF claims THEN Oldest(Unlocked(t)) ELSE @]
           /\ wpc' = [wpc EXCEPT ![w] = IF claims THEN "taking" ELSE @]
    /\ UNCHANGED <<rowVars, capVars, stopping, procVars, told, faults>>

(* The UPDATE of the claimed row and the commit, which frees the locks.    *)
TakeJob(w) ==
    /\ wpc[w] = "taking"
    /\ status' = [status EXCEPT ![wjob[w]] = "running"]
    /\ worker' = [worker EXCEPT ![wjob[w]] = w]
    /\ stale' = stale \ {wjob[w]}
    /\ held' = [held EXCEPT ![w] = {}]
    /\ wpc' = [wpc EXCEPT ![w] = "spawn"]
    /\ UNCHANGED <<jtype, kill, capVars, wjob, cand, stopping, procVars, told, faults>>

(* Every type visited, nothing claimed.                                    *)
EndClaim(w) ==
    /\ wpc[w] = "claiming"
    /\ cand[w] = <<>>
    /\ held' = [held EXCEPT ![w] = {}]
    /\ wpc' = [wpc EXCEPT ![w] = "idle"]
    /\ UNCHANGED <<rowVars, capVars, wjob, cand, stopping, procVars, told, faults>>

(* Two claims that wait for a lock the other one holds.                    *)
LockCycle(v, w) ==
    /\ v # w
    /\ \A u \in {v, w} : wpc[u] = "claiming" /\ cand[u] # <<>>
    /\ Head(cand[v]) \in held[w]
    /\ Head(cand[w]) \in held[v]

(* A builder ends: its locks are released and its container's processes    *)
(* die with it.                                                            *)
Down(w) ==
    /\ wpc' = [wpc EXCEPT ![w] = "down"]
    /\ wjob' = [wjob EXCEPT ![w] = None]
    /\ cand' = [cand EXCEPT ![w] = <<>>]
    /\ held' = [held EXCEPT ![w] = {}]
    /\ stopping' = stopping \ {w}
    /\ alive' = {j \in alive : worker[j] # w}
    /\ dying' = {j \in dying : worker[j] # w}
    /\ UNCHANGED <<rowVars, capVars, exit, told>>

(* PostgreSQL breaks the cycle with an error that run_builder does not     *)
(* catch.                                                                  *)
DeadlockDetected(w) ==
    /\ \E v \in Workers : LockCycle(v, w)
    /\ Down(w)
    /\ UNCHANGED faults

-----------------------------------------------------------------------------
(* _run_one_job                                                            *)

(* Mutant: finalize_job does not ask whether the row is still running.     *)
FinalizeAnyRow(j, ok) ==
    /\ status' = [status EXCEPT ![j] = IF ok THEN "complete" ELSE "failed"]
    /\ kill' = kill \ {j}

(* finalize_job: the row only changes while it is running, and whoever     *)
(* calls it.                                                               *)
FinalizeJob(j, ok) ==
    LET hit == status[j] = "running"
    IN  /\ status' = [status EXCEPT ![j] =
                         IF hit THEN (IF ok THEN "complete" ELSE "failed") ELSE @]
        /\ kill' = IF hit THEN kill \ {j} ELSE kill

Spawn(w) ==
    /\ wpc[w] = "spawn"
    /\ alive' = alive \cup {wjob[w]}
    /\ wpc' = [wpc EXCEPT ![w] = "run"]
    /\ UNCHANGED <<rowVars, capVars, wjob, claimVars, stopping, dying, exit, told, faults>>

(* Exit code -1, then finalize_job as below.                               *)
SpawnFails(w) ==
    /\ wpc[w] = "spawn"
    /\ exit' = [exit EXCEPT ![wjob[w]] = "error"]
    /\ wpc' = [wpc EXCEPT ![w] = "run"]
    /\ UNCHANGED <<rowVars, capVars, wjob, claimVars, stopping, alive, dying, told, faults>>

OwnsRow(w) == status[wjob[w]] = "running" /\ worker[wjob[w]] = w

(* Mutant: the loop does not look at kill_requested.                       *)
HeartbeatWithoutKill(w) ==
    /\ wpc[w] = "run"
    /\ wjob[w] \in alive
    /\ OwnsRow(w)
    /\ stale' = stale \ {wjob[w]}
    /\ dying' = IF w \in stopping THEN dying \cup {wjob[w]} ELSE dying
    /\ UNCHANGED <<jtype, status, worker, kill, capVars, wpc, wjob, claimVars,
                   stopping, alive, exit, told, faults>>

(* One turn of the heartbeat loop: touch the row, then obey a kill or the  *)
(* stop event.                                                             *)
Heartbeat(w) ==
    /\ wpc[w] = "run"
    /\ wjob[w] \in alive
    /\ OwnsRow(w)
    /\ stale' = stale \ {wjob[w]}
    /\ dying' = IF wjob[w] \in kill \/ w \in stopping
                THEN dying \cup {wjob[w]} ELSE dying
    /\ UNCHANGED <<jtype, status, worker, kill, capVars, wpc, wjob, claimVars,
                   stopping, alive, exit, told, faults>>

(* Mutant: the process of a row that was taken away is left alone.         *)
LetGoQuietly(w) ==
    /\ wpc[w] = "run"
    /\ wjob[w] \in alive
    /\ ~OwnsRow(w)
    /\ wpc' = [wpc EXCEPT ![w] = "idle"]
    /\ wjob' = [wjob EXCEPT ![w] = None]
    /\ UNCHANGED <<rowVars, capVars, claimVars, stopping, alive, dying, exit, told, faults>>

(* The row was taken away: SIGTERM and on to the next job, without waiting *)
(* for the process to end and without finalize_job.                        *)
LetGo(w) ==
    /\ wpc[w] = "run"
    /\ wjob[w] \in alive
    /\ ~OwnsRow(w)
    /\ dying' = dying \cup {wjob[w]}
    /\ wpc' = [wpc EXCEPT ![w] = "idle"]
    /\ wjob' = [wjob EXCEPT ![w] = None]
    /\ UNCHANGED <<rowVars, capVars, claimVars, stopping, alive, exit, told, faults>>

(* The process has ended: finalize_job ...                                 *)
Finalize(w) ==
    /\ wpc[w] = "run"
    /\ wjob[w] \notin alive
    /\ FinalizeJob(wjob[w], exit[wjob[w]] = "zero")
    /\ wpc' = [wpc EXCEPT ![w] = "related"]
    /\ UNCHANGED <<jtype, worker, stale, capVars, wjob, claimVars, stopping,
                   procVars, told, faults>>

(* ... which may fail with a database error: the row stays running.        *)
FinalizeFails(w) ==
    /\ wpc[w] = "run"
    /\ wjob[w] \notin alive
    /\ Fault("finalize")
    /\ wpc' = [wpc EXCEPT ![w] = "idle"]
    /\ wjob' = [wjob EXCEPT ![w] = None]
    /\ UNCHANGED <<rowVars, capVars, claimVars, stopping, procVars, told>>

(* _finalize_related_deployment, a transaction of its own.                 *)
FinalizeRelated(w) ==
    /\ wpc[w] = "related"
    /\ told' = IF jtype[wjob[w]] = OSDeploy /\ exit[wjob[w]] # "zero"
               THEN told \cup {wjob[w]} ELSE told
    /\ wpc' = [wpc EXCEPT ![w] = "idle"]
    /\ wjob' = [wjob EXCEPT ![w] = None]
    /\ UNCHANGED <<rowVars, capVars, claimVars, stopping, procVars, faults>>

(* Its errors are logged and swallowed.                                    *)
RelatedFails(w) ==
    /\ wpc[w] = "related"
    /\ Fault("related")
    /\ wpc' = [wpc EXCEPT ![w] = "idle"]
    /\ wjob' = [wjob EXCEPT ![w] = None]
    /\ UNCHANGED <<rowVars, capVars, claimVars, stopping, procVars, told>>

-----------------------------------------------------------------------------
(* Processes, builders and the monitor                                     *)

ProcFinish(j) ==
    /\ j \in alive
    /\ alive' = alive \ {j}
    /\ dying' = dying \ {j}
    /\ \E code \in {"zero", "error"} : exit' = [exit EXCEPT ![j] = code]
    /\ UNCHANGED <<rowVars, capVars, wpc, wjob, claimVars, stopping, told, faults>>

ProcTerminated(j) ==
    /\ j \in dying
    /\ alive' = alive \ {j}
    /\ dying' = dying \ {j}
    /\ exit' = [exit EXCEPT ![j] = "sigterm"]
    /\ UNCHANGED <<rowVars, capVars, wpc, wjob, claimVars, stopping, told, faults>>

(* SIGTERM: the stop event, obeyed by the heartbeat loop and by the claim  *)
(* loop.                                                                   *)
RequestStop(w) ==
    /\ wpc[w] # "down"
    /\ w \notin stopping
    /\ Fault("stop")
    /\ stopping' = stopping \cup {w}
    /\ UNCHANGED <<rowVars, capVars, wpc, wjob, claimVars, procVars, told>>

StopBuilder(w) ==
    /\ wpc[w] = "idle"
    /\ w \in stopping
    /\ Down(w)
    /\ UNCHANGED faults

Crash(w) ==
    /\ wpc[w] # "down"
    /\ Fault("crash")
    /\ Down(w)

(* The provision jobs among the newest ListLimit ones that failed or were  *)
(* lost.                                                                   *)
ToReconcile ==
    LET newer(j) == {i \in Jobs : i > j /\ status[i] # "none"}
    IN  {j \in Jobs : /\ jtype[j] = OSDeploy
                      /\ status[j] \in {"failed", "orphaned"}
                      /\ Cardinality(newer(j)) < ListLimit}

(* Mutant: no reconciliation at start.                                     *)
StartWithoutReconcile(w) ==
    /\ wpc[w] = "down"
    /\ wpc' = [wpc EXCEPT ![w] = "idle"]
    /\ UNCHANGED <<rowVars, capVars, wjob, claimVars, stopping, procVars, told, faults>>

(* Docker starts the container again; run_builder first reconciles.  If    *)
(* the list, or the update of any of the runs, fails, the error is logged  *)
(* and swallowed.                                                          *)
StartBuilder(w) ==
    /\ wpc[w] = "down"
    /\ wpc' = [wpc EXCEPT ![w] = "idle"]
    /\ \E reached \in SUBSET ToReconcile :
           /\ reached # ToReconcile => "recover" \in Faults
           /\ told' = told \cup reached
    /\ UNCHANGED <<rowVars, capVars, wjob, claimVars, stopping, procVars, faults>>

(* 300 seconds pass without a heartbeat: nobody runs the job any more, or  *)
(* the builder could not reach the database or was suspended.              *)
HeartbeatExpires(j) ==
    /\ status[j] = "running"
    /\ j \notin stale
    /\ stale' = stale \cup {j}
    /\ \/ /\ \A w \in Workers : wjob[w] # j
          /\ UNCHANGED faults
       \/ /\ \E w \in Workers : wjob[w] = j
          /\ Fault("stall")
    /\ UNCHANGED <<jtype, status, worker, kill, capVars, wpc, wjob, claimVars,
                   stopping, procVars, told>>

(* Mutant: only the jobs of builders that are gone are reaped.             *)
ReapOfDownBuilders ==
    LET lost == {j \in stale : status[j] = "running" /\ wpc[worker[j]] = "down"}
    IN  /\ lost # {}
        /\ status' = [j \in Jobs |-> IF j \in lost THEN "orphaned" ELSE status[j]]
        /\ UNCHANGED <<jtype, worker, kill, stale, capVars, wpc, wjob, claimVars,
                       stopping, procVars, told, faults>>

ReapStaleRunningJobs ==
    /\ \E j \in stale : status[j] = "running"
    /\ status' = [j \in Jobs |->
          IF status[j] = "running" /\ j \in stale THEN "orphaned" ELSE status[j]]
    /\ UNCHANGED <<jtype, worker, kill, stale, capVars, wpc, wjob, claimVars,
                   stopping, procVars, told, faults>>

-----------------------------------------------------------------------------
BuilderStep(w) ==
    \/ BeginClaim(w) \/ VisitType(w) \/ TakeJob(w) \/ EndClaim(w) \/ DeadlockDetected(w)
    \/ Spawn(w) \/ SpawnFails(w) \/ Heartbeat(w) \/ LetGo(w)
    \/ Finalize(w) \/ FinalizeRelated(w)
    \/ StopBuilder(w) \/ StartBuilder(w)

Next ==
    \/ \E j \in Jobs : \/ Enqueue(j) \/ RequestKill(j) \/ CompleteInterrupted(j)
                       \/ ProcFinish(j) \/ ProcTerminated(j) \/ HeartbeatExpires(j)
    \/ \E t \in Types, n \in Caps : UpdateJobTypeLimit(t, n)
    \/ \E w \in Workers : BuilderStep(w)
    \/ \E w \in Workers : FinalizeFails(w) \/ RelatedFails(w) \/ RequestStop(w) \/ Crash(w)
    \/ ReapStaleRunningJobs

Spec == Init /\ [][Next]_queueVars

(* The builders poll, beat and finalize; a lost heartbeat runs out and the *)
(* reaper comes by; a process that was sent SIGTERM ends.                  *)
ServiceFairness ==
    /\ \A w \in Workers : WF_queueVars(BuilderStep(w))
    /\ \A j \in Jobs : WF_queueVars(ProcTerminated(j))
    /\ \A j \in Jobs : WF_queueVars(HeartbeatExpires(j) /\ \A w \in Workers : wjob[w] # j)
    /\ WF_queueVars(ReapStaleRunningJobs)

(* A playbook ends by itself, unless the operator found it hanging and     *)
(* asked to kill it: then only SIGTERM is sure to end it.                  *)
FairSpec ==
    /\ Spec
    /\ ServiceFairness
    /\ \A j \in Jobs : WF_queueVars(ProcFinish(j) /\ j \notin kill)

-----------------------------------------------------------------------------
(* Properties                                                              *)

(* Types of the rows, of the builders' state and of the processes.         *)
QueueTypeOK ==
    /\ jtype \in JobTypes
    /\ status \in [Jobs -> JobStates]
    /\ worker \in [Jobs -> Workers \cup {None}]
    /\ kill \subseteq Jobs
    /\ stale \subseteq Jobs
    /\ cap \in [Types -> Caps]
    /\ high \in [Types -> Caps]
    /\ wpc \in [Workers -> WorkerPCs]
    /\ wjob \in [Workers -> Jobs \cup {None}]
    /\ cand \in [Workers -> Seq(Types)]
    /\ held \in [Workers -> SUBSET Types]
    /\ stopping \subseteq Workers
    /\ alive \subseteq Jobs
    /\ dying \subseteq alive
    /\ exit \in [Jobs -> Exits]
    /\ told \subseteq Jobs
    /\ faults \in 0..MaxFaults

(* claim_next_job: the advisory lock makes the count and the claim one, so *)
(* no interleaving of builders lets a type run more jobs than the highest  *)
(* limit it ever had.                                                      *)
CapRespected == \A t \in Types : Cardinality(Running(t)) <= high[t]

(* claim_next_job, _run_one_job: two builders never work on one job.       *)
OneBuilderPerJob ==
    \A v, w \in Workers : v # w /\ wjob[v] # None => wjob[v] # wjob[w]

(* _run_one_job: no process is forgotten.  Reaped, killed, stopped or done *)
(* with, a process that still runs is the one its builder watches, or has  *)
(* been sent SIGTERM; so whatever runs beyond the limit of its type after  *)
(* a stalled builder lost its row is stopped at that builder's next beat.  *)
NoProcessForgotten ==
    \A j \in alive : j \in dying \/ \E w \in Workers : wpc[w] = "run" /\ wjob[w] = j

(* finalize_job, reap_stale_running_jobs: how a job ended is not rewritten *)
(* by a builder that comes late, after the reaper or from a process it     *)
(* lost the row of; only a WinPE run may close its interrupted job.        *)
EndedStaysAsItEnded ==
    [][\A j \in Jobs : status[j] \in Terminal =>
          \/ status'[j] = status[j]
          \/ jtype[j] \in Provision /\ status[j] # "complete" /\ status'[j] = "complete"]_queueVars

(* The whole queue: whichever builder crashes, stops or deadlocks, a job   *)
(* that was enqueued ends.                                                 *)
EveryJobEnds ==
    \A j \in Jobs : status[j] = "pending" ~> status[j] \in Terminal

(* request_kill, _run_one_job: a kill request ends a running job, even one *)
(* that would hang for ever.                                               *)
KillEndsJob ==
    \A j \in Jobs : status[j] = "running" /\ j \in kill ~> status[j] # "running"

(* _finalize_related_deployment, reconcile_failed_related_deployments: the *)
(* failure of a provision job reaches its OSDeploy run, even if the        *)
(* builder dies between the two transactions, unless the recovery itself   *)
(* fails or ListLimit newer jobs have come.                                *)
FailureReachesRun ==
    \A j \in Jobs : status[j] = "failed" /\ jtype[j] = OSDeploy ~> j \in told
=============================================================================
