---------------------------- MODULE JobQueueProofs ----------------------------
(* Proofs about JobQueue, for any number of jobs, types and builders.      *)
EXTENDS JobQueue, FiniteSetTheorems, WellFoundedInduction, TLAPS

(* ORDER BY created_at LIMIT 1 returns a row of a set that is not empty.   *)
LEMMA OldestIn ==
    ASSUME NEW S \in SUBSET Jobs, S # {}
    PROVE  Oldest(S) \in S
<1>1. Jobs \subseteq Nat
  BY QueueAssumption DEF Jobs
<1>2. \E j \in S : \A i \in S : j <= i
  <2> DEFINE R == OpToRel(<, Nat)
  <2>1. \E j \in S : \A i \in S : ~(<<i, j>> \in R)
    BY <1>1, NatLessThanWellFounded, WFMin
  <2>2. ASSUME NEW i \in Nat, NEW j \in Nat, i < j PROVE <<i, j>> \in R
    BY <2>2 DEF OpToRel
  <2> HIDE DEF R
  <2>3. PICK j \in S : \A i \in S : ~(<<i, j>> \in R)
    BY <2>1
  <2>4. ASSUME NEW i \in S PROVE j <= i
    <3>1. i \in Nat /\ j \in Nat
      BY <1>1
    <3>2. ~(i < j)
      BY <2>2, <2>3, <3>1
    <3> QED
      BY <3>1, <3>2
  <2> QED
    BY <2>4
<1> QED
  BY <1>2 DEF Oldest

(* The first query of claim_next_job lists job types.                      *)
LEMMA CandidatesType == Candidates \subseteq Seq(Types)
<1> SUFFICES ASSUME NEW seq \in Candidates PROVE seq \in Seq(Types)
  OBVIOUS
<1> DEFINE ts == {t \in Types : Pending(t) # {}}
<1>1. Cardinality(ts) \in Nat
  BY QueueAssumption, FS_Subset, FS_CardinalityType
<1>2. seq \in [1..Cardinality(ts) -> Types]
  BY DEF Candidates
<1> HIDE DEF ts
<1> QED
  BY <1>1, <1>2

(* A set of jobs and a larger one: the counts the cap compares.            *)
LEMMA JobCount ==
    ASSUME NEW S \in SUBSET Jobs, NEW T \in SUBSET S
    PROVE  /\ Cardinality(T) \in Nat
           /\ Cardinality(S) \in Nat
           /\ Cardinality(T) <= Cardinality(S)
<1>1. IsFiniteSet(Jobs)
  BY QueueAssumption, FS_Interval DEF Jobs
<1>2. IsFiniteSet(S) /\ IsFiniteSet(T)
  BY <1>1, FS_Subset
<1> QED
  BY <1>2, FS_Subset, FS_CardinalityType

(* One more job counts for at most one.                                    *)
LEMMA JobCountPlusOne ==
    ASSUME NEW S \in SUBSET Jobs, NEW j \in Jobs
    PROVE  Cardinality(S \cup {j}) <= Cardinality(S) + 1
<1>1. IsFiniteSet(Jobs)
  BY QueueAssumption, FS_Interval DEF Jobs
<1>2. IsFiniteSet(S) /\ Cardinality(S) \in Nat
  BY <1>1, FS_Subset, FS_CardinalityType
<1> QED
  BY <1>2, FS_AddElement

-----------------------------------------------------------------------------
(* The type invariant                                                      *)

(* A builder has a job exactly when it is claiming or running one.         *)
HoldsJob ==
    \A w \in Workers :
        IF wpc[w] \in {"taking", "spawn", "run", "related"}
        THEN wjob[w] \in Jobs ELSE wjob[w] = None

(* An empty queue with idle builders is well typed.                        *)
LEMMA QueueTypeInit == Init => QueueTypeOK
<1> SUFFICES ASSUME Init PROVE QueueTypeOK
  OBVIOUS
<1>1. \A w \in Workers : <<>> \in Seq(Types)
  OBVIOUS
<1> QED
  BY <1>1, QueueAssumption DEF Init, QueueTypeOK, JobStates, Exits, WorkerPCs

(* So is a queue after a builder went down ...                             *)
LEMMA DownType ==
    ASSUME QueueTypeOK, NEW w \in Workers, Down(w), faults' \in 0..MaxFaults
    PROVE  QueueTypeOK'
<1>1. <<>> \in Seq(Types)
  OBVIOUS
<1> QED
  BY <1>1 DEF Down, QueueTypeOK, WorkerPCs, rowVars, capVars

(* ... and the number of faults stays within its bound.                    *)
LEMMA FaultType ==
    ASSUME QueueTypeOK, NEW kind, Fault(kind)
    PROVE  faults' \in 0..MaxFaults
BY QueueAssumption DEF QueueTypeOK, Fault

(* Every step of the queue, its builders and the reaper keeps the types; a *)
(* builder that works on a row has one.                                    *)
LEMMA QueueTypeNext == QueueTypeOK /\ HoldsJob /\ [Next]_queueVars => QueueTypeOK'
<1> SUFFICES ASSUME QueueTypeOK, HoldsJob, [Next]_queueVars PROVE QueueTypeOK'
  OBVIOUS
<1> USE DEF QueueTypeOK, rowVars, capVars, claimVars, procVars
<1>1. CASE \E j \in Jobs : Enqueue(j) \/ RequestKill(j) \/ CompleteInterrupted(j)
  BY <1>1 DEF Enqueue, RequestKill, CompleteInterrupted, JobStates, Terminal
<1>2. CASE \E j \in Jobs : ProcFinish(j) \/ ProcTerminated(j)
  BY <1>2 DEF ProcFinish, ProcTerminated, Exits
<1>3. CASE \E j \in Jobs : HeartbeatExpires(j)
  BY <1>3, FaultType DEF HeartbeatExpires
<1>4. CASE \E t \in Types, n \in Caps : UpdateJobTypeLimit(t, n)
  BY <1>4 DEF UpdateJobTypeLimit
<1>5. ASSUME NEW w \in Workers, BuilderStep(w) PROVE QueueTypeOK'
  <2>1. CASE BeginClaim(w)
    BY <2>1, CandidatesType DEF BeginClaim, WorkerPCs
  <2>2. CASE VisitType(w)
    <3> DEFINE t == Head(cand[w])
               claims == Cardinality(Running(t)) < cap[t] /\ Unlocked(t) # {}
    <3>1. t \in Types /\ Tail(cand[w]) \in Seq(Types) /\ <<>> \in Seq(Types)
      BY <2>2 DEF VisitType
    <3>2. claims => Oldest(Unlocked(t)) \in Jobs
      <4>1. Unlocked(t) \in SUBSET Jobs
        BY DEF Unlocked, Pending
      <4> QED
        BY <4>1, OldestIn
    <3>3. /\ held' = [held EXCEPT ![w] = @ \cup {t}]
          /\ cand' = [cand EXCEPT ![w] = IF claims THEN <<>> ELSE Tail(@)]
          /\ wjob' = [wjob EXCEPT ![w] = IF claims THEN Oldest(Unlocked(t)) ELSE @]
          /\ wpc' = [wpc EXCEPT ![w] = IF claims THEN "taking" ELSE @]
          /\ UNCHANGED <<rowVars, capVars, stopping, procVars, told, faults>>
      BY <2>2 DEF VisitType
    <3> HIDE DEF t, claims
    <3> QED
      BY <3>1, <3>2, <3>3 DEF WorkerPCs
  <2>3. CASE TakeJob(w)
    BY <2>3 DEF TakeJob, WorkerPCs, JobStates
  <2>4. CASE EndClaim(w)
    BY <2>4 DEF EndClaim, WorkerPCs
  <2>5. CASE DeadlockDetected(w)
    BY <2>5, DownType DEF DeadlockDetected
  <2>6. CASE Spawn(w) \/ SpawnFails(w)
    BY <2>6 DEF HoldsJob, Spawn, SpawnFails, WorkerPCs, Exits
  <2>7. CASE Heartbeat(w) \/ LetGo(w)
    BY <2>7 DEF Heartbeat, LetGo, WorkerPCs
  <2>8. CASE Finalize(w)
    BY <2>8 DEF Finalize, FinalizeJob, WorkerPCs, JobStates, Terminal
  <2>9. CASE FinalizeRelated(w)
    BY <2>9 DEF HoldsJob, FinalizeRelated, WorkerPCs
  <2>10. CASE StopBuilder(w)
    BY <2>10, DownType DEF StopBuilder
  <2>11. CASE StartBuilder(w)
    BY <2>11 DEF StartBuilder, ToReconcile, WorkerPCs
  <2> QED
    BY <1>5, <2>1, <2>2, <2>3, <2>4, <2>5, <2>6, <2>7, <2>8, <2>9, <2>10, <2>11
       DEF BuilderStep
<1>6. CASE \E w \in Workers : FinalizeFails(w) \/ RelatedFails(w) \/ RequestStop(w)
  BY <1>6, FaultType DEF FinalizeFails, RelatedFails, RequestStop, WorkerPCs
<1>7. CASE \E w \in Workers : Crash(w)
  BY <1>7, FaultType, DownType DEF Crash
<1>8. CASE ReapStaleRunningJobs
  BY <1>8 DEF ReapStaleRunningJobs, JobStates, Terminal
<1>9. CASE UNCHANGED queueVars
  BY <1>9 DEF queueVars
<1> QED
  BY <1>1, <1>2, <1>3, <1>4, <1>5, <1>6, <1>7, <1>8, <1>9 DEF Next

-----------------------------------------------------------------------------
(* The inductive invariant                                                 *)

Busy == {"spawn", "run", "related"}

(* A raised limit raises its history too.                                  *)
CapBelowHigh == \A t \in Types : cap[t] <= high[t]

(* pg_advisory_xact_lock: a type is locked by one claim at most.           *)
LocksExclusive ==
    \A v, w \in Workers : v # w => held[v] \cap held[w] = {}

(* Between the count and the UPDATE of a claim its type is locked, so the  *)
(* row is still pending and the count still below the limit.               *)
ClaimIsSafe ==
    \A w \in Workers, t \in Types : wpc[w] = "taking" /\ jtype[wjob[w]] = t =>
        /\ status[wjob[w]] = "pending"
        /\ t \in held[w]
        /\ Cardinality(Running(t)) < high[t]

(* The job a builder runs has left the queue, and no step puts it back.    *)
BusyJobClaimed ==
    \A w \in Workers : wpc[w] \in Busy => status[wjob[w]] \notin {"none", "pending"}

QueueInv ==
    /\ QueueTypeOK
    /\ HoldsJob
    /\ CapBelowHigh
    /\ LocksExclusive
    /\ ClaimIsSafe
    /\ BusyJobClaimed
    /\ OneBuilderPerJob
    /\ CapRespected

(* Nothing is claimed at first.                                            *)
LEMMA QueueInvInit == Init => QueueInv
<1> SUFFICES ASSUME Init PROVE QueueInv
  OBVIOUS
<1>1. QueueTypeOK
  BY QueueTypeInit
<1>2. HoldsJob /\ LocksExclusive /\ ClaimIsSafe /\ BusyJobClaimed /\ OneBuilderPerJob
  BY DEF Init, HoldsJob, LocksExclusive, ClaimIsSafe, BusyJobClaimed,
         OneBuilderPerJob, Busy
<1>3. CapBelowHigh
  <2>1. high = cap /\ \A t \in Types : cap[t] \in Nat
    BY QueueAssumption DEF Init
  <2> QED
    BY <2>1 DEF CapBelowHigh
<1>4. CapRespected
  <2> SUFFICES ASSUME NEW t \in Types PROVE Cardinality(Running(t)) <= high[t]
    BY DEF CapRespected
  <2>1. Running(t) = {}
    BY DEF Init, Running
  <2>2. high[t] \in Nat
    BY <1>1, QueueAssumption DEF QueueTypeOK
  <2> QED
    BY <2>1, <2>2, FS_EmptySet
<1> QED
  BY <1>1, <1>2, <1>3, <1>4 DEF QueueInv

(* No row becomes running: the counts do not grow.                         *)
LEMMA RunningShrinks ==
    ASSUME jtype' = jtype,
           \A j \in Jobs : status'[j] = "running" => status[j] = "running",
           NEW t
    PROVE  /\ Cardinality(Running(t)') \in Nat
           /\ Cardinality(Running(t)) \in Nat
           /\ Cardinality(Running(t)') <= Cardinality(Running(t))
<1>1. Running(t) \in SUBSET Jobs /\ Running(t)' \in SUBSET Running(t)
  BY DEF Running
<1> QED
  BY <1>1, JobCount

(* What a step does to the builders and the rows unless it counts or takes *)
(* a job.                                                                  *)
QuietStep ==
    /\ jtype' = jtype
    /\ \A j \in Jobs : status'[j] = "running" => status[j] = "running"
    /\ \A j \in Jobs : status[j] = "pending" => status'[j] = "pending"
    /\ \A j \in Jobs : status[j] \notin {"none", "pending"} =>
                          status'[j] \notin {"none", "pending"}
    /\ \A t \in Types : cap'[t] <= high'[t] /\ high[t] <= high'[t]
    /\ \A w \in Workers :
          /\ held'[w] \subseteq held[w]
          /\ \/ wpc'[w] \notin Busy \cup {"taking"} /\ wjob'[w] = None
             \/ wpc'[w] \in Busy /\ wpc[w] \in Busy /\ wjob'[w] = wjob[w]
             \/ /\ wpc'[w] = "taking" /\ wpc[w] = "taking"
                /\ wjob'[w] = wjob[w] /\ held'[w] = held[w]

(* A step that takes no job and frees no row of another builder keeps the  *)
(* whole invariant.                                                        *)
LEMMA QuietStepInv == QueueInv /\ QueueTypeOK' /\ QuietStep => QueueInv'
<1> SUFFICES ASSUME QueueInv, QueueTypeOK', QuietStep PROVE QueueInv'
  OBVIOUS
<1>1. HoldsJob'
  BY DEF QueueInv, HoldsJob, QuietStep, Busy
<1>2. CapBelowHigh'
  BY DEF CapBelowHigh, QuietStep
<1>3. LocksExclusive'
  BY DEF QueueInv, LocksExclusive, QuietStep
<1>4. ASSUME NEW t \in Types
      PROVE  /\ Cardinality(Running(t)') <= Cardinality(Running(t))
             /\ Cardinality(Running(t)') \in Nat
             /\ Cardinality(Running(t)) \in Nat
             /\ high[t] <= high'[t]
             /\ high[t] \in Nat /\ high'[t] \in Nat
  BY RunningShrinks, QueueAssumption DEF QueueInv, QueueTypeOK, QuietStep
<1>5. ClaimIsSafe'
  <2> SUFFICES ASSUME NEW w \in Workers, NEW t \in Types,
                      wpc'[w] = "taking", jtype'[wjob'[w]] = t
               PROVE  /\ status'[wjob'[w]] = "pending"
                      /\ t \in held'[w]
                      /\ Cardinality(Running(t)') < high'[t]
    BY DEF ClaimIsSafe
  <2>1. wpc[w] = "taking" /\ wjob'[w] = wjob[w] /\ held'[w] = held[w] /\ jtype' = jtype
    BY DEF QuietStep, Busy
  <2>2. /\ wjob[w] \in Jobs
        /\ status[wjob[w]] = "pending"
        /\ t \in held[w]
        /\ Cardinality(Running(t)) < high[t]
    BY <2>1 DEF QueueInv, HoldsJob, ClaimIsSafe
  <2>3. status'[wjob[w]] = "pending"
    BY <2>2 DEF QuietStep
  <2>4. Cardinality(Running(t)') < high'[t]
    BY <1>4, <2>2
  <2> QED
    BY <2>1, <2>2, <2>3, <2>4
<1>6. BusyJobClaimed'
  BY DEF QueueInv, HoldsJob, BusyJobClaimed, QuietStep, Busy
<1>7. OneBuilderPerJob'
  BY DEF QueueInv, OneBuilderPerJob, QuietStep
<1>8. CapRespected'
  <2> SUFFICES ASSUME NEW t \in Types PROVE Cardinality(Running(t)') <= high'[t]
    BY DEF CapRespected
  <2>1. Cardinality(Running(t)) <= high[t]
    BY DEF QueueInv, CapRespected
  <2> QED
    BY <1>4, <2>1
<1> QED
  BY <1>1, <1>2, <1>3, <1>5, <1>6, <1>7, <1>8 DEF QueueInv

-----------------------------------------------------------------------------
(* The two steps of a claim                                                *)

(* VisitType locks a type nobody holds and counts under that lock.         *)
LEMMA VisitTypeInv ==
    ASSUME QueueInv, QueueTypeOK', NEW w \in Workers, VisitType(w)
    PROVE  QueueInv'
<1> DEFINE t == Head(cand[w])
           claims == Cardinality(Running(t)) < cap[t] /\ Unlocked(t) # {}
<1>1. /\ wpc[w] = "claiming" /\ Free(t, w)
      /\ held' = [held EXCEPT ![w] = @ \cup {t}]
      /\ wjob' = [wjob EXCEPT ![w] = IF claims THEN Oldest(Unlocked(t)) ELSE @]
      /\ wpc' = [wpc EXCEPT ![w] = IF claims THEN "taking" ELSE @]
      /\ UNCHANGED <<jtype, status, cap, high>>
  BY DEF VisitType, rowVars, capVars
<1>2. t \in Types
  BY DEF VisitType, QueueInv, QueueTypeOK
<1>3. ASSUME claims PROVE Oldest(Unlocked(t)) \in Unlocked(t)
  <2>1. Unlocked(t) \in SUBSET Jobs
    BY DEF Unlocked, Pending
  <2> QED
    BY <1>3, <2>1, OldestIn
<1>4. \A j \in Unlocked(t) : /\ j \in Jobs /\ jtype[j] = t /\ status[j] = "pending"
                             /\ \A v \in Workers : wpc[v] = "taking" => wjob[v] # j
  BY DEF Unlocked, Pending
<1>5. \A u \in Types : Running(u)' = Running(u)
  BY <1>1 DEF Running
<1>6. claims => Cardinality(Running(t)) < high[t]
  <2>1. Running(t) \in SUBSET Jobs
    BY DEF Running
  <2>2. Cardinality(Running(t)) \in Nat
    BY <2>1, JobCount
  <2>3. cap[t] \in Nat /\ high[t] \in Nat /\ cap[t] <= high[t]
    BY <1>2, QueueAssumption DEF QueueInv, QueueTypeOK, CapBelowHigh
  <2> QED
    BY <2>2, <2>3
<1>7. wjob \in [Workers -> Jobs \cup {None}] /\ wpc \in [Workers -> WorkerPCs]
      /\ held \in [Workers -> SUBSET Types]
  BY DEF QueueInv, QueueTypeOK
<1> HIDE DEF t, claims
<1>8. HoldsJob'
  BY <1>1, <1>3, <1>4, <1>7 DEF QueueInv, HoldsJob
<1>9. CapBelowHigh'
  BY <1>1 DEF QueueInv, CapBelowHigh
<1>10. LocksExclusive'
  BY <1>1, <1>7 DEF QueueInv, LocksExclusive, Free
<1>11. ClaimIsSafe'
  <2> SUFFICES ASSUME NEW v \in Workers, NEW u \in Types,
                      wpc'[v] = "taking", jtype'[wjob'[v]] = u
               PROVE  /\ status'[wjob'[v]] = "pending"
                      /\ u \in held'[v]
                      /\ Cardinality(Running(u)') < high'[u]
    BY DEF ClaimIsSafe
  <2>1. CASE v # w
    BY <1>1, <1>5, <1>7, <2>1 DEF QueueInv, ClaimIsSafe
  <2>2. CASE v = w
    <3>1. claims /\ wjob'[w] = Oldest(Unlocked(t))
      BY <1>1, <1>7, <2>2
    <3>2. u = t /\ status[wjob'[w]] = "pending"
      BY <1>1, <1>3, <1>4, <2>2, <3>1
    <3> QED
      BY <1>1, <1>2, <1>5, <1>6, <1>7, <2>2, <3>1, <3>2
  <2> QED
    BY <2>1, <2>2
<1>12. BusyJobClaimed'
  BY <1>1, <1>7 DEF QueueInv, BusyJobClaimed, Busy
<1>13. OneBuilderPerJob'
  <2>1. ASSUME NEW v \in Workers, v # w, claims
        PROVE  wjob[v] # Oldest(Unlocked(t))
    <3>1. Oldest(Unlocked(t)) \in Jobs /\ status[Oldest(Unlocked(t))] = "pending"
      BY <1>3, <1>4, <2>1
    <3>2. wpc[v] = "taking" => wjob[v] # Oldest(Unlocked(t))
      BY <1>3, <1>4, <2>1
    <3>3. wpc[v] \in Busy => wjob[v] # Oldest(Unlocked(t))
      BY <3>1 DEF QueueInv, BusyJobClaimed
    <3> QED
      BY <3>1, <3>2, <3>3, QueueAssumption DEF QueueInv, HoldsJob, Busy
  <2> QED
    BY <1>1, <1>7, <2>1 DEF QueueInv, OneBuilderPerJob
<1>14. CapRespected'
  BY <1>1, <1>5 DEF QueueInv, CapRespected
<1> QED
  BY <1>8, <1>9, <1>10, <1>11, <1>12, <1>13, <1>14 DEF QueueInv

(* TakeJob adds one row to a count nobody else can raise meanwhile.        *)
LEMMA TakeJobInv ==
    ASSUME QueueInv, QueueTypeOK', NEW w \in Workers, TakeJob(w)
    PROVE  QueueInv'
<1> DEFINE j == wjob[w]
           t == jtype[wjob[w]]
<1>1. /\ wpc[w] = "taking"
      /\ status' = [status EXCEPT ![j] = "running"]
      /\ held' = [held EXCEPT ![w] = {}]
      /\ wpc' = [wpc EXCEPT ![w] = "spawn"]
      /\ UNCHANGED <<jtype, wjob, cap, high>>
  BY DEF TakeJob, capVars
<1>2. j \in Jobs
  BY <1>1 DEF QueueInv, HoldsJob
<1>3. t \in Types
  BY <1>2, QueueAssumption DEF QueueInv, QueueTypeOK
<1>4. status[j] = "pending" /\ t \in held[w] /\ Cardinality(Running(t)) < high[t]
  BY <1>1, <1>3 DEF QueueInv, ClaimIsSafe
<1>5. /\ wpc \in [Workers -> WorkerPCs] /\ held \in [Workers -> SUBSET Types]
      /\ status \in [Jobs -> JobStates]
  BY DEF QueueInv, QueueTypeOK
<1>6. ASSUME NEW u \in Types PROVE Running(u)' = IF u = t THEN Running(u) \cup {j} ELSE Running(u)
  BY <1>1, <1>2, <1>5 DEF Running
<1>7. \A v \in Workers : v # w => wjob[v] # j
  BY <1>2, QueueAssumption DEF QueueInv, OneBuilderPerJob
<1> HIDE DEF j, t
<1>8. HoldsJob'
  BY <1>1, <1>5 DEF QueueInv, HoldsJob
<1>9. CapBelowHigh'
  BY <1>1 DEF QueueInv, CapBelowHigh
<1>10. LocksExclusive'
  BY <1>1, <1>5 DEF QueueInv, LocksExclusive
<1>11. ClaimIsSafe'
  <2> SUFFICES ASSUME NEW v \in Workers, NEW u \in Types,
                      wpc'[v] = "taking", jtype'[wjob'[v]] = u
               PROVE  /\ status'[wjob'[v]] = "pending"
                      /\ u \in held'[v]
                      /\ Cardinality(Running(u)') < high'[u]
    BY DEF ClaimIsSafe
  <2>1. v # w /\ wpc[v] = "taking" /\ jtype[wjob[v]] = u
    BY <1>1, <1>5
  <2>2. status[wjob[v]] = "pending" /\ u \in held[v] /\ Cardinality(Running(u)) < high[u]
    BY <2>1 DEF QueueInv, ClaimIsSafe
  <2>3. u # t
    BY <1>4, <2>1, <2>2 DEF QueueInv, LocksExclusive
  <2>4. wjob[v] \in Jobs /\ wjob[v] # j
    BY <1>7, <2>1 DEF QueueInv, HoldsJob
  <2> QED
    BY <1>1, <1>5, <1>6, <2>1, <2>2, <2>3, <2>4
<1>12. BusyJobClaimed'
  BY <1>1, <1>2, <1>5 DEF QueueInv, BusyJobClaimed, HoldsJob, Busy, j
<1>13. OneBuilderPerJob'
  BY <1>1 DEF QueueInv, OneBuilderPerJob
<1>14. CapRespected'
  <2> SUFFICES ASSUME NEW u \in Types PROVE Cardinality(Running(u)') <= high'[u]
    BY DEF CapRespected
  <2>1. CASE u # t
    BY <1>1, <1>6, <2>1 DEF QueueInv, CapRespected
  <2>2. CASE u = t
    <3>1. Running(t) \in SUBSET Jobs /\ Running(t) \cup {j} \in SUBSET Jobs
      BY <1>2 DEF Running
    <3>2. /\ Cardinality(Running(t)) \in Nat
          /\ Cardinality(Running(t) \cup {j}) \in Nat
          /\ Cardinality(Running(t) \cup {j}) <= Cardinality(Running(t)) + 1
      BY <1>2, <3>1, JobCount, JobCountPlusOne
    <3>3. high[t] \in Nat
      BY <1>3, QueueAssumption DEF QueueInv, QueueTypeOK
    <3>4. Cardinality(Running(t) \cup {j}) <= high[t]
      BY <1>4, <3>2, <3>3
    <3> QED
      BY <1>1, <1>6, <2>2, <3>4
  <2> QED
    BY <2>1, <2>2
<1> QED
  BY <1>8, <1>9, <1>10, <1>11, <1>12, <1>13, <1>14 DEF QueueInv

-----------------------------------------------------------------------------
(* Every step                                                              *)

(* A builder that goes down lets go of its locks and its job and does      *)
(* nothing else.                                                           *)
LEMMA DownQuiet ==
    ASSUME QueueInv, NEW w \in Workers, Down(w)
    PROVE  QuietStep
<1>1. /\ \A t \in Types : cap[t] <= high[t] /\ high[t] \in Nat
      /\ wpc \in [Workers -> WorkerPCs] /\ held \in [Workers -> SUBSET Types]
      /\ wjob \in [Workers -> Jobs \cup {None}]
  BY QueueAssumption DEF QueueInv, QueueTypeOK, CapBelowHigh
<1> QED
  BY <1>1 DEF QueueInv, HoldsJob, Down, QuietStep, Busy, rowVars, capVars

(* Each step is quiet in this sense, or is one of the steps of a claim,    *)
(* which have lemmas of their own.                                         *)
LEMMA QueueInvNext == QueueInv /\ [Next]_queueVars => QueueInv'
<1> SUFFICES ASSUME QueueInv, [Next]_queueVars PROVE QueueInv'
  OBVIOUS
<1>type. QueueTypeOK'
  BY QueueTypeNext DEF QueueInv
<1>quiet. ASSUME QuietStep PROVE QueueInv'
  BY <1>type, <1>quiet, QuietStepInv
<1>facts. /\ \A t \in Types : cap[t] <= high[t] /\ high[t] \in Nat
          /\ HoldsJob
          /\ wpc \in [Workers -> WorkerPCs] /\ held \in [Workers -> SUBSET Types]
          /\ wjob \in [Workers -> Jobs \cup {None}]
          /\ status \in [Jobs -> JobStates]
          /\ cap \in [Types -> Caps] /\ high \in [Types -> Caps]
  BY QueueAssumption DEF QueueInv, QueueTypeOK, CapBelowHigh
<1> USE DEF QuietStep, HoldsJob, Busy, rowVars, capVars, claimVars, procVars
<1>1. CASE \E j \in Jobs : Enqueue(j) \/ RequestKill(j) \/ CompleteInterrupted(j)
  BY <1>1, <1>quiet, <1>facts DEF Enqueue, RequestKill, CompleteInterrupted
<1>2. CASE \E j \in Jobs : ProcFinish(j) \/ ProcTerminated(j) \/ HeartbeatExpires(j)
  BY <1>2, <1>quiet, <1>facts DEF ProcFinish, ProcTerminated, HeartbeatExpires
<1>3. ASSUME NEW t \in Types, NEW n \in Caps, UpdateJobTypeLimit(t, n) PROVE QueueInv'
  <2>1. /\ UNCHANGED <<jtype, status, wpc, wjob, held>>
        /\ cap' = [cap EXCEPT ![t] = n]
        /\ high' = [high EXCEPT ![t] = IF n > @ THEN n ELSE @]
    BY <1>3 DEF UpdateJobTypeLimit
  <2>2. n \in Nat
    BY QueueAssumption
  <2>3. ASSUME NEW u \in Types PROVE cap'[u] <= high'[u] /\ high[u] <= high'[u]
    BY <1>facts, <2>1, <2>2
  <2> QED
    BY <1>quiet, <1>facts, <2>1, <2>3
<1>4. ASSUME NEW w \in Workers, BuilderStep(w) PROVE QueueInv'
  <2>1. CASE BeginClaim(w)
    BY <2>1, <1>quiet, <1>facts DEF BeginClaim
  <2>2. CASE VisitType(w)
    BY <2>2, <1>type, VisitTypeInv
  <2>3. CASE TakeJob(w)
    BY <2>3, <1>type, TakeJobInv
  <2>4. CASE EndClaim(w)
    BY <2>4, <1>quiet, <1>facts DEF EndClaim
  <2>5. CASE DeadlockDetected(w) \/ StopBuilder(w)
    BY <2>5, <1>quiet, DownQuiet DEF DeadlockDetected, StopBuilder
  <2>6. CASE Spawn(w) \/ SpawnFails(w)
    BY <2>6, <1>quiet, <1>facts DEF Spawn, SpawnFails
  <2>7. CASE Heartbeat(w) \/ LetGo(w)
    BY <2>7, <1>quiet, <1>facts DEF Heartbeat, LetGo
  <2>8. CASE Finalize(w)
    BY <2>8, <1>quiet, <1>facts DEF Finalize, FinalizeJob
  <2>9. CASE FinalizeRelated(w)
    BY <2>9, <1>quiet, <1>facts DEF FinalizeRelated
  <2>10. CASE StartBuilder(w)
    BY <2>10, <1>quiet, <1>facts DEF StartBuilder
  <2> QED
    BY <1>4, <2>1, <2>2, <2>3, <2>4, <2>5, <2>6, <2>7, <2>8, <2>9, <2>10 DEF BuilderStep
<1>5. CASE \E w \in Workers : FinalizeFails(w) \/ RelatedFails(w) \/ RequestStop(w)
  BY <1>5, <1>quiet, <1>facts DEF FinalizeFails, RelatedFails, RequestStop
<1>6. CASE \E w \in Workers : Crash(w)
  BY <1>6, <1>quiet, DownQuiet DEF Crash
<1>7. CASE ReapStaleRunningJobs
  BY <1>7, <1>quiet, <1>facts DEF ReapStaleRunningJobs
<1>8. CASE UNCHANGED queueVars
  BY <1>8, <1>quiet, <1>facts DEF queueVars
<1> QED
  BY <1>1, <1>2, <1>3, <1>4, <1>5, <1>6, <1>7, <1>8 DEF Next

(* Every reachable state of the queue, the builders and the processes is   *)
(* well typed.                                                             *)
THEOREM QueueTypeCorrect == Spec => []QueueTypeOK
<1>1. QueueInv => QueueTypeOK
  BY DEF QueueInv
<1> QED
  BY <1>1, QueueInvInit, QueueInvNext, PTL DEF Spec

(* claim_next_job never lets the running jobs of a type exceed the highest *)
(* limit the type ever had, for any number of builders and of jobs, however*)
(* their claims interleave and wherever builders crash.                    *)
THEOREM CapRespectedHolds == Spec => []CapRespected
<1>1. QueueInv => CapRespected
  BY DEF QueueInv
<1> QED
  BY <1>1, QueueInvInit, QueueInvNext, PTL DEF Spec

(* Two builders never claim or run the same job.                           *)
THEOREM OneBuilderPerJobHolds == Spec => []OneBuilderPerJob
<1>1. QueueInv => OneBuilderPerJob
  BY DEF QueueInv
<1> QED
  BY <1>1, QueueInvInit, QueueInvNext, PTL DEF Spec

-----------------------------------------------------------------------------
(* A job that has ended                                                    *)

(* Claims take pending rows, the reaper and finalize_job running ones, so  *)
(* nothing but a WinPE run touches the status of a job that has ended, for *)
(* any number of builders and whatever stalls, crashes or comes late.      *)
THEOREM EndedStaysAsItEndedHolds == Spec => EndedStaysAsItEnded
<1>1. QueueInv /\ [Next]_queueVars =>
        [\A j \in Jobs : status[j] \in Terminal =>
            \/ status'[j] = status[j]
            \/ jtype[j] \in Provision /\ status[j] # "complete" /\ status'[j] = "complete"]_queueVars
  <2> SUFFICES ASSUME QueueInv, Next, NEW j \in Jobs, status[j] \in Terminal
               PROVE  \/ status'[j] = status[j]
                      \/ /\ jtype[j] \in Provision /\ status[j] # "complete"
                         /\ status'[j] = "complete"
    OBVIOUS
  <2>facts. /\ wpc \in [Workers -> WorkerPCs] /\ wjob \in [Workers -> Jobs \cup {None}]
            /\ status \in [Jobs -> JobStates] /\ jtype \in [Jobs -> Types]
            /\ HoldsJob /\ ClaimIsSafe
            /\ status[j] \notin {"none", "pending", "running"}
    BY QueueAssumption DEF QueueInv, QueueTypeOK, Terminal
  <2> USE DEF rowVars, capVars, claimVars, procVars
  <2>1. CASE \E i \in Jobs : Enqueue(i) \/ RequestKill(i) \/ CompleteInterrupted(i)
    BY <2>1, <2>facts DEF Enqueue, RequestKill, CompleteInterrupted
  <2>2. CASE \E i \in Jobs : ProcFinish(i) \/ ProcTerminated(i) \/ HeartbeatExpires(i)
    BY <2>2 DEF ProcFinish, ProcTerminated, HeartbeatExpires
  <2>3. CASE \E t \in Types, n \in Caps : UpdateJobTypeLimit(t, n)
    BY <2>3 DEF UpdateJobTypeLimit
  <2>4. ASSUME NEW w \in Workers, TakeJob(w) PROVE status'[j] = status[j]
    <3>1. wpc[w] = "taking" /\ wjob[w] \in Jobs
      BY <2>4, <2>facts DEF TakeJob, HoldsJob
    <3>2. status[wjob[w]] = "pending"
      BY <3>1, <2>facts DEF ClaimIsSafe
    <3> QED
      BY <2>4, <3>2, <2>facts DEF TakeJob
  <2>5. ASSUME NEW w \in Workers, BuilderStep(w), ~TakeJob(w) PROVE status'[j] = status[j]
    BY <2>5, <2>facts DEF BuilderStep, BeginClaim, VisitType, EndClaim, DeadlockDetected, Down,
                          Spawn, SpawnFails, Heartbeat, LetGo, Finalize, FinalizeJob,
                          FinalizeRelated, StopBuilder, StartBuilder
  <2>6. CASE \E w \in Workers : FinalizeFails(w) \/ RelatedFails(w) \/ RequestStop(w) \/ Crash(w)
    BY <2>6 DEF FinalizeFails, RelatedFails, RequestStop, Crash, Down
  <2>7. CASE ReapStaleRunningJobs
    BY <2>7, <2>facts DEF ReapStaleRunningJobs
  <2> QED
    BY <2>1, <2>2, <2>3, <2>4, <2>5, <2>6, <2>7 DEF Next
<1> QED
  BY <1>1, QueueInvInit, QueueInvNext, PTL DEF Spec, EndedStaysAsItEnded

-----------------------------------------------------------------------------
(* The processes on the cluster                                            *)

(* The row of a job keeps the name of the builder that runs it, reaped or  *)
(* not: when that builder's container dies, the process dies with it.      *)
RowNamesBuilder ==
    \A w \in Workers : wpc[w] \in {"spawn", "run"} => worker[wjob[w]] = w

WatchInv == RowNamesBuilder /\ NoProcessForgotten

(* A builder that goes down takes its processes with it.                   *)
LEMMA DownKeepsWatch ==
    ASSUME QueueInv, WatchInv, NEW w \in Workers, Down(w)
    PROVE  WatchInv'
<1>1. /\ wpc' = [wpc EXCEPT ![w] = "down"]
      /\ wjob' = [wjob EXCEPT ![w] = None]
      /\ alive' = {j \in alive : worker[j] # w}
      /\ dying' = {j \in dying : worker[j] # w}
      /\ UNCHANGED worker
  BY DEF Down, rowVars
<1>2. wpc \in [Workers -> WorkerPCs] /\ wjob \in [Workers -> Jobs \cup {None}]
  BY DEF QueueInv, QueueTypeOK
<1>3. RowNamesBuilder'
  BY <1>1, <1>2 DEF WatchInv, RowNamesBuilder
<1>4. ASSUME NEW j \in alive, worker[j] # w, j \notin dying
      PROVE  \E v \in Workers : wpc'[v] = "run" /\ wjob'[v] = j
  <2>1. PICK v \in Workers : wpc[v] = "run" /\ wjob[v] = j
    BY <1>4 DEF WatchInv, NoProcessForgotten
  <2>2. v # w
    BY <1>4, <2>1 DEF WatchInv, RowNamesBuilder
  <2> QED
    BY <1>1, <1>2, <2>1, <2>2
<1> QED
  BY <1>1, <1>3, <1>4 DEF WatchInv, NoProcessForgotten

(* A builder leaves a job whose process has ended or was sent SIGTERM.     *)
LEMMA ReleaseKeepsWatch ==
    ASSUME QueueInv, WatchInv, NEW w \in Workers,
           NEW p \in WorkerPCs \ {"spawn", "run"}, wpc' = [wpc EXCEPT ![w] = p],
           wjob' = wjob \/ wjob' = [wjob EXCEPT ![w] = None],
           wjob[w] \in alive => wjob[w] \in dying',
           dying \subseteq dying',
           UNCHANGED <<worker, alive>>
    PROVE  WatchInv'
<1>1. wpc \in [Workers -> WorkerPCs] /\ wjob \in [Workers -> Jobs \cup {None}]
  BY DEF QueueInv, QueueTypeOK
<1>2. RowNamesBuilder'
  BY <1>1 DEF WatchInv, RowNamesBuilder
<1>3. ASSUME NEW j \in alive, j \notin dying'
      PROVE  \E v \in Workers : wpc'[v] = "run" /\ wjob'[v] = j
  <2>1. PICK v \in Workers : wpc[v] = "run" /\ wjob[v] = j
    BY <1>3 DEF WatchInv, NoProcessForgotten
  <2>2. v # w
    BY <1>3, <2>1
  <2> QED
    BY <1>1, <2>1, <2>2
<1> QED
  BY <1>2, <1>3 DEF WatchInv, NoProcessForgotten

(* Builders that run a job and processes: as they were, or ended.          *)
LEMMA OthersKeepWatch ==
    ASSUME WatchInv,
           \A w \in Workers : wpc[w] \in {"spawn", "run"} \/ wpc'[w] \in {"spawn", "run"}
               => wpc'[w] = wpc[w] /\ wjob'[w] = wjob[w],
           worker' = worker,
           alive' \subseteq alive,
           \A j \in alive' : j \in dying => j \in dying'
    PROVE  WatchInv'
<1>1. RowNamesBuilder'
  BY DEF WatchInv, RowNamesBuilder
<1>2. NoProcessForgotten'
  BY DEF WatchInv, NoProcessForgotten
<1> QED
  BY <1>1, <1>2 DEF WatchInv

(* Every step, stalled builders and reaped rows included.                  *)
LEMMA WatchNext == QueueInv /\ WatchInv /\ [Next]_queueVars => WatchInv'
<1> SUFFICES ASSUME QueueInv, WatchInv, [Next]_queueVars PROVE WatchInv'
  OBVIOUS
<1>facts. /\ wpc \in [Workers -> WorkerPCs] /\ wjob \in [Workers -> Jobs \cup {None}]
          /\ worker \in [Jobs -> Workers \cup {None}]
          /\ HoldsJob /\ OneBuilderPerJob /\ None \notin Jobs
  BY QueueAssumption DEF QueueInv, QueueTypeOK
<1> USE DEF rowVars, capVars, claimVars, procVars
<1>1. CASE \E j \in Jobs : Enqueue(j) \/ RequestKill(j) \/ CompleteInterrupted(j)
  BY <1>1, OthersKeepWatch DEF Enqueue, RequestKill, CompleteInterrupted
<1>2. CASE \E j \in Jobs : ProcFinish(j) \/ ProcTerminated(j)
  BY <1>2, OthersKeepWatch DEF ProcFinish, ProcTerminated
<1>3. CASE \E j \in Jobs : HeartbeatExpires(j)
  BY <1>3, OthersKeepWatch DEF HeartbeatExpires
<1>4. CASE \E t \in Types, n \in Caps : UpdateJobTypeLimit(t, n)
  BY <1>4, OthersKeepWatch DEF UpdateJobTypeLimit
<1>5. ASSUME NEW w \in Workers, BuilderStep(w) PROVE WatchInv'
  <2>1. CASE BeginClaim(w) \/ EndClaim(w) \/ StartBuilder(w)
    BY <2>1, <1>facts, OthersKeepWatch DEF BeginClaim, EndClaim, StartBuilder
  <2>2. CASE VisitType(w)
    <3>1. /\ UNCHANGED <<worker, alive, dying>>
          /\ \A v \in Workers \ {w} : wpc'[v] = wpc[v] /\ wjob'[v] = wjob[v]
          /\ wpc[w] = "claiming" /\ wpc'[w] \in {"claiming", "taking"}
      BY <2>2, <1>facts DEF VisitType
    <3> QED
      BY <3>1, OthersKeepWatch
  <2>3. CASE TakeJob(w)
    <3>1. /\ wpc[w] = "taking" /\ wjob[w] \in Jobs
          /\ worker' = [worker EXCEPT ![wjob[w]] = w]
          /\ wpc' = [wpc EXCEPT ![w] = "spawn"]
          /\ UNCHANGED <<wjob, alive, dying>>
      BY <2>3, <1>facts DEF TakeJob, HoldsJob
    <3>2. ASSUME NEW v \in Workers, v # w, wpc[v] \in {"spawn", "run"}
          PROVE  wjob[v] \in Jobs /\ wjob[v] # wjob[w]
      BY <1>facts, <3>2 DEF HoldsJob, OneBuilderPerJob
    <3>3. RowNamesBuilder'
      BY <1>facts, <3>1, <3>2 DEF WatchInv, RowNamesBuilder
    <3>4. NoProcessForgotten'
      BY <1>facts, <3>1 DEF WatchInv, NoProcessForgotten
    <3> QED
      BY <3>3, <3>4 DEF WatchInv
  <2>4. CASE DeadlockDetected(w) \/ StopBuilder(w)
    BY <2>4, DownKeepsWatch DEF DeadlockDetected, StopBuilder
  <2>5. CASE Spawn(w) \/ SpawnFails(w)
    <3>1. /\ wpc[w] = "spawn" /\ wpc' = [wpc EXCEPT ![w] = "run"]
          /\ alive' \subseteq alive \cup {wjob[w]}
          /\ UNCHANGED <<worker, dying, wjob>>
      BY <2>5 DEF Spawn, SpawnFails
    <3>2. RowNamesBuilder'
      BY <1>facts, <3>1 DEF WatchInv, RowNamesBuilder
    <3>3. NoProcessForgotten'
      BY <1>facts, <3>1 DEF WatchInv, NoProcessForgotten
    <3> QED
      BY <3>2, <3>3 DEF WatchInv
  <2>6. CASE Heartbeat(w)
    BY <2>6, OthersKeepWatch DEF Heartbeat
  <2>7. CASE LetGo(w)
    BY <2>7, ReleaseKeepsWatch DEF LetGo, WorkerPCs
  <2>8. CASE Finalize(w)
    BY <2>8, ReleaseKeepsWatch DEF Finalize, WorkerPCs
  <2>9. CASE FinalizeRelated(w)
    BY <2>9, <1>facts, OthersKeepWatch DEF FinalizeRelated
  <2> QED
    BY <1>5, <2>1, <2>2, <2>3, <2>4, <2>5, <2>6, <2>7, <2>8, <2>9 DEF BuilderStep
<1>6. CASE \E w \in Workers : FinalizeFails(w)
  BY <1>6, ReleaseKeepsWatch DEF FinalizeFails, WorkerPCs
<1>7. CASE \E w \in Workers : RelatedFails(w) \/ RequestStop(w)
  BY <1>7, <1>facts, OthersKeepWatch DEF RelatedFails, RequestStop
<1>8. CASE \E w \in Workers : Crash(w)
  BY <1>8, DownKeepsWatch DEF Crash
<1>9. CASE ReapStaleRunningJobs
  BY <1>9, OthersKeepWatch DEF ReapStaleRunningJobs
<1>10. CASE UNCHANGED queueVars
  BY <1>10, OthersKeepWatch DEF queueVars
<1> QED
  BY <1>1, <1>2, <1>3, <1>4, <1>5, <1>6, <1>7, <1>8, <1>9, <1>10 DEF Next

(* _run_one_job forgets no process: whatever stalls, is reaped, stopped or *)
(* crashes, each process that runs is watched by its builder or has been   *)
(* sent SIGTERM.                                                           *)
THEOREM NoProcessForgottenHolds == Spec => []NoProcessForgotten
<1>1. Init => WatchInv
  BY DEF Init, WatchInv, RowNamesBuilder, NoProcessForgotten
<1>2. WatchInv => NoProcessForgotten
  BY DEF WatchInv
<1> QED
  BY <1>1, <1>2, QueueInvInit, QueueInvNext, WatchNext, PTL DEF Spec

=============================================================================
