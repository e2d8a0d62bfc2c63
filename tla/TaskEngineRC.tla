----------------------------- MODULE TaskEngineRC -----------------------------
(***************************************************************************)
(* TaskEngine at the isolation level the code runs with: psycopg's default *)
(* READ COMMITTED, request handlers on the threads of a pool.              *)
(*                                                                         *)
(* complete_step and mark_reboot_complete read the step without a lock,    *)
(* read the other rows with a second statement, and write both rows        *)
(* unconditionally.  Here these three are separate steps of a handler, so  *)
(* other handlers run in between.  claim_next_step and requeue_step lock   *)
(* the rows they read and stay atomic.                                     *)
(*                                                                         *)
(* The controller's bulk updates are left to TaskEngine.                   *)
(***************************************************************************)
EXTENDS TaskEngine

CONSTANT Handlers   \* threads that serve result and register requests

(* The server's thread pool is finite.                                     *)
ASSUME HandlersAssumption == IsFiniteSet(Handlers)

VARIABLES
    txn,        \* txn[h]: the transaction handler h is in, or None
    overlapped  \* history: a row was written between a handler's first read
                \*   and its commit

rcVars == <<vars, txn, overlapped>>

RCInit == Init /\ txn = [h \in Handlers |-> None] /\ overlapped = FALSE

InFlight == {h \in Handlers : txn[h] # None}

-----------------------------------------------------------------------------
(* mark_reboot_complete updates the step before it looks at the others,    *)
(* and so holds its row lock until it commits.                             *)
Locked(s) ==
    \E h \in Handlers : /\ txn[h] # None
                        /\ txn[h].op = "reboot"
                        /\ txn[h].pc = "decided"
                        /\ txn[h].step = s

BeginTxn(h, op, s, status) ==
    /\ txn[h] = None
    /\ txn' = [txn EXCEPT ![h] =
          [pc |-> "read", op |-> op, step |-> s, status |-> status,
           attempt |-> attempt[s]]]
    /\ UNCHANGED <<vars, overlapped>>

(* POST /agent/step/{id}/result and /agent/rebooting: the first SELECT,    *)
(* with the early return for a late failure.                               *)
ReadForResult(h, a, s, status) ==
    /\ s \in handed[a]
    /\ ~LateFailureIgnored(s, status)
    /\ BeginTxn(h, "complete", s, status)

(* POST /agent/register: the cursor, then its step.                        *)
ReadForRegister(h) ==
    /\ cursor # None
    /\ state[cursor] = "awaiting_reboot"
    /\ BeginTxn(h, "reboot", cursor, "success")

(* The new states, from the attempt read before and the rows read now.     *)
Decide(h) ==
    LET t == txn[h]
        outcome == IF t.op = "reboot" THEN "done"
                   ELSE StepOutcome(t.step, t.status, t.attempt)
    IN  /\ t # None
        /\ t.pc = "read"
        /\ t.op = "reboot" => ~Locked(t.step)
        /\ txn' = [txn EXCEPT ![h] =
              [pc |-> "decided", op |-> t.op, step |-> t.step, outcome |-> outcome,
               run_outcome |-> RunOutcome(t.step, outcome)]]
        /\ UNCHANGED <<vars, overlapped>>

(* The two UPDATEs and the commit.                                         *)
WriteBack(h) ==
    LET t == txn[h]
    IN  /\ t # None
        /\ t.pc = "decided"
        /\ t.op = "complete" => ~Locked(t.step)
        /\ state' = [state EXCEPT ![t.step] = t.outcome]
        /\ claimed_by' = [claimed_by EXCEPT ![t.step] =
                             IF t.outcome = "pending" THEN None ELSE @]
        /\ run_state' = t.run_outcome
        /\ cursor' = t.step
        /\ txn' = [txn EXCEPT ![h] = None]
        /\ overlapped' = (overlapped \/ InFlight # {h})
        /\ UNCHANGED <<plan, attempt, batch, handed>>

-----------------------------------------------------------------------------
(* Requests that lock what they read.  A claim skips locked rows.          *)
LockedRequest ==
    /\ \/ \E a \in Agents, p \in Phases : NextAction(a, p)
       \/ \E a \in Agents : ClaimMore(a)
       \/ \E s \in Steps : RequeueStep(s)
    /\ overlapped' = (overlapped \/ InFlight # {})
    /\ UNCHANGED txn

RCNext ==
    \/ \E h \in Handlers, a \in Agents, s \in Steps, status \in Statuses :
           ReadForResult(h, a, s, status)
    \/ \E h \in Handlers : ReadForRegister(h) \/ Decide(h) \/ WriteBack(h)
    \/ LockedRequest
    \/ (\E a \in Agents : EndBatch(a)) /\ UNCHANGED <<txn, overlapped>>

RCSpec == RCInit /\ [][RCNext]_rcVars

-----------------------------------------------------------------------------
(* Properties                                                              *)

(* complete_step reads the attempt it compares with retry_count in an      *)
(* earlier statement than the one that reopens the step.  Each handler can *)
(* hold one stale read, so the budget is overrun by at most one attempt    *)
(* per handler, and never without limit.                                   *)
BoundedOverrun ==
    \A s \in Steps :
        attempt[s] <= plan.retry_count[s] + 1 + Cardinality(Handlers)

(* complete_step, mark_reboot_complete and _next_run_state take no lock on *)
(* what they read, so the state of the run and the budget of a step are    *)
(* right only as long as nobody has written between the reads and the      *)
(* UPDATEs of a handler; however requests alternated otherwise, late and   *)
(* repeated ones included, they are.                                       *)
SoundUnlessOverlapped ==
    ~overlapped => DoneRunIsClosed /\ LiveRunHasWork /\ RetryBudget
=============================================================================
