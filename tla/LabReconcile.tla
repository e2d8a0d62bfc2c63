----------------------------- MODULE LabReconcile -----------------------------
(***************************************************************************)
(* Managed labs: address reservations, and the reconciler that brings the  *)
(* Proxmox SDN to what a lab wants (web/managed_labs_pg.py,                *)
(* managed_labs_reconciler.py, managed_labs_network.py,                    *)
(* managed_labs_endpoints.py, and the monitor's lab tick).                 *)
(*                                                                         *)
(* Two workers run passes at the same time: the monitor's sweep, which     *)
(* takes one inventory and then plans and applies lab by lab, and an       *)
(* operator's requests.  A plan pass replaces the fix actions of a lab     *)
(* whether or not another worker is applying them, and commits the new     *)
(* ones one by one.  Meanwhile somebody may delete a lab's SDN objects     *)
(* through the application's own SDN page (sdn_endpoints.py).  A lab that  *)
(* was created stays: no handler calls delete_lab.                         *)
(***************************************************************************)
EXTENDS Naturals, FiniteSets

CONSTANTS
    Labs,        \* the labs that may be created
    Wants,       \* Wants[l]: what lab l may ask for: its network_cidr and
                 \* sdn_subnet, as sets of blocks of addresses, and its network_mode
    SweepOn,     \* AUTOPILOT_LAB_RECONCILE_INTERVAL_SECONDS is not 0
    AutoApply,   \* AUTOPILOT_LAB_RECONCILE_AUTO_APPLY
    MaxFaults,   \* bound on errors of Proxmox and of a plan pass, and on workers
                 \* that die in a pass
    MaxRequests, \* bound on operator requests
    None

Workers == {"sweep", "operator"}

ASSUME LabAssumption ==
    /\ {MaxFaults, MaxRequests} \subseteq Nat
    /\ {SweepOn, AutoApply} \subseteq BOOLEAN
    /\ None \notin Workers
    /\ \A l \in Labs : None \notin Wants[l]

(* The SDN objects of a lab; each lives in the one before it.              *)
Objects == {"zone", "vnet", "subnet"}

(* The fix actions: one creates each object, "apply" is apply_sdn.         *)
Actions == Objects \cup {"apply"}

Priority(t) ==
    CASE t = "zone" -> 10 [] t = "vnet" -> 20 [] t = "subnet" -> 30 [] t = "apply" -> 90

LabStatuses == {"none", "draft", "validating", "fixing", "ready", "blocked"}

PCs == {"idle", "next", "plan", "planned", "list", "run", "mutate", "locked", "record"}

VARIABLES
    status,    \* labs.status; "none" before the lab is created
    want,      \* want[l]: what l was created with, None before
    reserved,  \* the labs with an active cidr reservation
    fix,       \* fix[l]: the current fix actions of l and their status
    pve,       \* pve[l]: the objects of l in the SDN configuration
    deleted,   \* those that were deleted and not created again since
    lock,      \* Proxmox's SDN lock: the worker that knows its token, "abandoned"
               \* when nobody does any more, or None
    pc,        \* where each worker is
    on,        \* the lab a worker works on
    left,      \* the labs its sweep has still to visit
    inv,       \* the inventory it plans from
    overlap,   \* it found an overlapping reservation
    result,    \* the status its plan or fix action ends with
    todo,      \* the fix actions of its pass that are still to record or to run
    mine,      \* no plan pass replaced those since it listed them
    faults, requests

dbVars == <<status, want, reserved, fix>>
sdnVars == <<pve, deleted, lock>>
passVars == <<on, left, inv, overlap, result, todo, mine>>
boundVars == <<faults, requests>>
labVars == <<dbVars, sdnVars, pc, passVars, boundVars>>

NoFixes == [t \in {} |-> "pending"]

LabInit ==
    /\ status = [l \in Labs |-> "none"]
    /\ want = [l \in Labs |-> None]
    /\ reserved = {}
    /\ fix = [l \in Labs |-> NoFixes]
    /\ pve = [l \in Labs |-> {}]
    /\ deleted = [l \in Labs |-> {}]
    /\ lock = None
    /\ pc = [w \in Workers |-> "idle"]
    /\ on = [w \in Workers |-> None]
    /\ left = [w \in Workers |-> {}]
    /\ inv = [w \in Workers |-> [l \in Labs |-> {}]]
    /\ overlap = [w \in Workers |-> FALSE]
    /\ result = [w \in Workers |-> None]
    /\ todo = [w \in Workers |-> {}]
    /\ mine = [w \in Workers |-> FALSE]
    /\ faults = 0
    /\ requests = 0

-----------------------------------------------------------------------------
Goto(w, label) == pc' = [pc EXCEPT ![w] = label]

(* The end of a pass, or of its worker: its local variables are gone.      *)
EndPass(w) ==
    /\ Goto(w, "idle")
    /\ on' = [on EXCEPT ![w] = None]
    /\ left' = [left EXCEPT ![w] = {}]
    /\ inv' = [inv EXCEPT ![w] = [l \in Labs |-> {}]]
    /\ overlap' = [overlap EXCEPT ![w] = FALSE]
    /\ result' = [result EXCEPT ![w] = None]
    /\ todo' = [todo EXCEPT ![w] = {}]
    /\ mine' = [mine EXCEPT ![w] = FALSE]

MayFail == faults < MaxFaults

Fault == MayFail /\ faults' = faults + 1

Request == requests < MaxRequests /\ requests' = requests + 1

Created == {l \in Labs : status[l] # "none"}

(* Two labs whose network_cidr have addresses in common.                   *)
Overlapping(l, m) ==
    /\ want[l] # None /\ want[m] # None
    /\ want[l].cidr \cap want[m].cidr # {}

(* proxmox_sdn.inventory: what is configured, applied or not.  An error    *)
(* while it lists subnets shows a VNet without any.                        *)
Inventory == {pve} \cup IF MayFail THEN {[l \in Labs |-> pve[l] \ {"subnet"}]} ELSE {}

(* A pass that used a poor inventory is a fault.                           *)
Counted(i) == IF i = pve THEN UNCHANGED faults ELSE Fault

-----------------------------------------------------------------------------
(* Creating a lab                                                          *)

(* POST /labs: reserve_value only refuses the very same network_cidr, and  *)
(* nothing looks at sdn_subnet.                                            *)
CreateLab(l, wanted) ==
    /\ status[l] = "none"
    /\ \A m \in reserved : want[m].cidr # wanted.cidr
    /\ status' = [status EXCEPT ![l] = "draft"]
    /\ want' = [want EXCEPT ![l] = wanted]
    /\ reserved' = reserved \cup {l}
    /\ UNCHANGED <<fix, sdnVars, pc, passVars, boundVars>>

-----------------------------------------------------------------------------
(* Passes                                                                  *)

(* Mutant of ListLabs: a lab that was planned once is left alone.          *)
ListLabsOnce == {l \in Created : status[l] \in {"draft", "validating"}}

ListLabs == Created

(* The monitor's tick, when it is configured: reconcile_all_labs.          *)
StartSweep ==
    /\ SweepOn
    /\ pc["sweep"] = "idle"
    /\ Created # {}
    /\ \E i \in Inventory : inv' = [inv EXCEPT !["sweep"] = i] /\ Counted(i)
    /\ left' = [left EXCEPT !["sweep"] = ListLabs]
    /\ Goto("sweep", "next")
    /\ UNCHANGED <<dbVars, sdnVars, on, overlap, result, todo, mine, requests>>

(* POST /labs/{id}/reconcile, for an operator.                             *)
StartReconcile ==
    /\ pc["operator"] = "idle"
    /\ Request
    /\ \E l \in Created, i \in Inventory :
          /\ left' = [left EXCEPT !["operator"] = {l}]
          /\ inv' = [inv EXCEPT !["operator"][l] = i[l]]
          /\ Counted(i)
    /\ Goto("operator", "next")
    /\ UNCHANGED <<dbVars, sdnVars, on, overlap, result, todo, mine>>

(* POST /labs/{id}/fixes/run-pending.                                      *)
RunPendingFixes ==
    /\ pc["operator"] = "idle"
    /\ Request
    /\ \E l \in Created : on' = [on EXCEPT !["operator"] = l]
    /\ Goto("operator", "list")
    /\ UNCHANGED <<dbVars, sdnVars, left, inv, overlap, result, todo, mine, faults>>

(* A sweep ends with its last lab, a request with its only one.            *)
EndSweep(w) ==
    /\ pc[w] = "next"
    /\ left[w] = {}
    /\ EndPass(w)
    /\ UNCHANGED <<dbVars, sdnVars, boundVars>>

-----------------------------------------------------------------------------
(* plan_network_reconcile                                                  *)

(* Mutant of FindOverlappingCidrReservations: equal ranges only.           *)
FindOverlappingCidrReservationsEqual(l) ==
    {m \in reserved \ {l} : want[m].cidr = want[l].cidr}

FindOverlappingCidrReservations(l) == {m \in reserved \ {l} : Overlapping(l, m)}

(* start_reconcile_run for the next lab, and the overlap check, before     *)
(* anything is planned.                                                    *)
StartReconcileRun(w) ==
    /\ pc[w] = "next"
    /\ \E l \in left[w] :
          /\ status' = [status EXCEPT ![l] = "validating"]
          /\ on' = [on EXCEPT ![w] = l]
          /\ left' = [left EXCEPT ![w] = @ \ {l}]
          /\ overlap' = [overlap EXCEPT ![w] = FindOverlappingCidrReservations(l) # {}]
    /\ Goto(w, "plan")
    /\ UNCHANGED <<want, reserved, fix, sdnVars, inv, result, todo, mine, boundVars>>

(* Mutant of Missing: a subnet is expected to come with its VNet.          *)
MissingNoSubnet(l, i) == {"zone", "vnet"} \ i[l]

Missing(l, i) == Objects \ i[l]

(* A failed pass blocks the lab from the fifth attempt on.  The attempts,  *)
(* which count every pass, are not kept.                                   *)
LabStatusFromReconcileStatus(s) == IF s = "failed" THEN {"blocked", "validating"} ELSE {s}

(* clear_current_reconcile_state supersedes what was planned before, also  *)
(* under a worker that is applying it.                                     *)
ClearCurrentReconcileState(l) ==
    /\ fix' = [fix EXCEPT ![l] = NoFixes]
    /\ mine' = [v \in Workers |-> mine[v] /\ on[v] # l]

(* plan_network_reconcile up to its first commit.  A lab on a bridge is    *)
(* reserved and then blocked.                                              *)
PlanNetworkReconcile(w) ==
    LET l       == on[w]
        blocked == overlap[w] \/ want[l].mode # "sdn"
        missing == Missing(l, inv[w])
    IN  /\ pc[w] = "plan"
        /\ ClearCurrentReconcileState(l)
        /\ reserved' = IF overlap[w] THEN reserved ELSE reserved \cup {l}
        /\ todo' = [todo EXCEPT ![w] = IF blocked \/ missing = {} THEN {}
                                       ELSE missing \cup {"apply"}]
        /\ result' = [result EXCEPT ![w] = IF blocked THEN "blocked"
                                           ELSE IF missing = {} THEN "ready" ELSE "fixing"]
        /\ overlap' = [overlap EXCEPT ![w] = FALSE]
        /\ Goto(w, "planned")
        /\ inv' = [inv EXCEPT ![w][l] = {}]
        /\ UNCHANGED <<status, want, sdnVars, on, left, boundVars>>

First(fixes) == CHOOSE t \in fixes : \A u \in fixes : Priority(t) <= Priority(u)

NextFix(w) == First(todo[w])

(* create_fix_action, a commit of its own for each; a pending row of that  *)
(* type is used again.                                                     *)
CreateFixAction(w) ==
    LET l == on[w]
        t == NextFix(w)
    IN  /\ pc[w] = "planned"
        /\ todo[w] # {}
        /\ fix' = [fix EXCEPT ![l] = [u \in DOMAIN @ \cup {t} |->
                                         IF u = t THEN "pending" ELSE @[u]]]
        /\ todo' = [todo EXCEPT ![w] = @ \ {t}]
        /\ UNCHANGED <<status, want, reserved, sdnVars, pc, on, left, inv, overlap, result,
                       mine, boundVars>>

(* A lab's end of the plan pass: the sweep applies only what it is told to.*)
FinishRun(w, s) ==
    LET applies == w = "sweep" /\ AutoApply /\ s = "fixing"
    IN  /\ \E st \in LabStatusFromReconcileStatus(s) :
              status' = [status EXCEPT ![on[w]] = st]
        /\ Goto(w, IF applies THEN "list" ELSE "next")
        /\ on' = [on EXCEPT ![w] = IF applies THEN @ ELSE None]
        /\ inv' = [inv EXCEPT ![w][on[w]] = {}]
        /\ result' = [result EXCEPT ![w] = None]
        /\ todo' = [todo EXCEPT ![w] = {}]
        /\ overlap' = [overlap EXCEPT ![w] = FALSE]

(* finish_reconcile_run, after everything planned was recorded.            *)
FinishReconcileRun(w) ==
    /\ pc[w] = "planned"
    /\ todo[w] = {}
    /\ FinishRun(w, result[w])
    /\ UNCHANGED <<want, reserved, fix, sdnVars, left, mine, boundVars>>

(* A plan that raises is finished as failed, which also commits what it    *)
(* had written so far.                                                     *)
PlanFails(w) ==
    /\ Fault
    /\ \/ pc[w] \in {"plan", "planned"} /\ UNCHANGED <<fix, mine>>
       \/ pc[w] = "plan" /\ ClearCurrentReconcileState(on[w])
    /\ FinishRun(w, "failed")
    /\ UNCHANGED <<want, reserved, sdnVars, left, requests>>

-----------------------------------------------------------------------------
(* execute_pending_network_fixes                                           *)

(* Back to the sweep's next lab, or the answer to the operator's request.  *)
LeaveFixes(w) ==
    IF w = "operator" THEN EndPass(w)
    ELSE /\ Goto(w, "next")
         /\ todo' = [todo EXCEPT ![w] = {}]
         /\ mine' = [mine EXCEPT ![w] = FALSE]
         /\ on' = [on EXCEPT ![w] = None]
         /\ UNCHANGED <<left, inv, overlap, result>>

ListPending(w) ==
    /\ pc[w] = "list"
    /\ todo' = [todo EXCEPT ![w] = {t \in DOMAIN fix[on[w]] : fix[on[w]][t] = "pending"}]
    /\ mine' = [mine EXCEPT ![w] = TRUE]
    /\ Goto(w, "run")
    /\ UNCHANGED <<dbVars, sdnVars, on, left, inv, overlap, result, boundVars>>

HasNextFix(w) == IF todo[w] = {} THEN FALSE ELSE mine[w] /\ fix[on[w]][NextFix(w)] = "pending"

(* All are run; or the next one is not pending any more, or no snapshot of *)
(* Proxmox can be taken, which raises.                                     *)
EndFixes(w) ==
    /\ pc[w] = "run"
    /\ \/ ~HasNextFix(w) /\ UNCHANGED faults
       \/ HasNextFix(w) /\ Fault
    /\ LeaveFixes(w)
    /\ UNCHANGED <<dbVars, sdnVars, requests>>

(* execute_fix_action up to the call that changes Proxmox: an object its   *)
(* snapshot has is reported fixed at once.                                 *)
RunFix(w) ==
    /\ pc[w] = "run"
    /\ HasNextFix(w)
    /\ \E i \in Inventory :
          /\ Counted(i)
          /\ result' = [result EXCEPT ![w] = "fixed"]
          /\ Goto(w, IF NextFix(w) \in i[on[w]] THEN "record" ELSE "mutate")
    /\ UNCHANGED <<dbVars, sdnVars, on, left, inv, overlap, todo, mine, requests>>

(* What Proxmox accepts: an object whose container exists, once, and from  *)
(* a caller without a token only while nobody holds the SDN lock.          *)
Accepts(l, t) ==
    /\ lock = None
    /\ t \notin pve[l]
    /\ t = "vnet" => "zone" \in pve[l]
    /\ t = "subnet" => "vnet" \in pve[l]

(* create_zone, create_vnet, create_subnet, and the check that it is there. *)
CreateObject(w) ==
    LET l == on[w]
        t == NextFix(w)
    IN  /\ pc[w] = "mutate"
        /\ t # "apply"
        /\ \/ /\ Accepts(l, t)
              /\ pve' = [pve EXCEPT ![l] = @ \cup {t}]
              /\ deleted' = [deleted EXCEPT ![l] = @ \ {t}]
              /\ \/ UNCHANGED <<faults, result>>
                 \/ Fault /\ result' = [result EXCEPT ![w] = "failed"]
           \/ /\ ~Accepts(l, t)
              /\ result' = [result EXCEPT ![w] = "failed"]
              /\ UNCHANGED <<pve, deleted, faults>>
           \/ /\ Fault
              /\ result' = [result EXCEPT ![w] = "failed"]
              /\ UNCHANGED <<pve, deleted>>
        /\ Goto(w, "record")
        /\ UNCHANGED <<dbVars, lock, on, left, inv, overlap, todo, mine, requests>>

(* acquire_lock.  When its answer is lost, or holds no token, Proxmox may  *)
(* have taken the lock: then nobody can release it.                        *)
AcquireLock(w) ==
    /\ pc[w] = "mutate"
    /\ NextFix(w) = "apply"
    /\ \/ lock = None /\ lock' = w /\ Goto(w, "locked") /\ UNCHANGED <<result, faults>>
       \/ /\ \/ lock # None /\ UNCHANGED <<lock, faults>>
             \/ Fault /\ lock' \in {lock, IF lock = None THEN "abandoned" ELSE lock}
          /\ result' = [result EXCEPT ![w] = "failed"]
          /\ Goto(w, "record")
    /\ UNCHANGED <<dbVars, pve, deleted, on, left, inv, overlap, todo, mine, requests>>

(* Mutant of ApplyFails: an error leaves without the lock being released.  *)
ApplyFailsHoldingLock(w) ==
    /\ pc[w] = "locked"
    /\ Fault
    /\ result' = [result EXCEPT ![w] = "failed"]
    /\ Goto(w, "record")
    /\ UNCHANGED <<dbVars, sdnVars, on, left, inv, overlap, todo, mine, requests>>

(* apply_sdn and release_lock.                                             *)
ApplySdn(w) ==
    /\ pc[w] = "locked"
    /\ lock' = None
    /\ Goto(w, "record")
    /\ UNCHANGED <<dbVars, pve, deleted, passVars, boundVars>>

(* apply_sdn or the release raises: the lock is released by force, and     *)
(* when that fails too it is only logged.                                  *)
ApplyFails(w) ==
    /\ pc[w] = "locked"
    /\ Fault
    /\ lock' \in {None, "abandoned"}
    /\ result' = [result EXCEPT ![w] = "failed"]
    /\ Goto(w, "record")
    /\ UNCHANGED <<dbVars, pve, deleted, on, left, inv, overlap, todo, mine, requests>>

(* update_fix_action.  A row that a plan superseded meanwhile is an old    *)
(* one.                                                                    *)
RecordResult(w) ==
    LET l == on[w]
        t == NextFix(w)
    IN  /\ pc[w] = "record"
        /\ fix' = IF mine[w] THEN [fix EXCEPT ![l][t] = result[w]] ELSE fix
        /\ todo' = [todo EXCEPT ![w] = @ \ {t}]
        /\ result' = [result EXCEPT ![w] = None]
        /\ Goto(w, "run")
        /\ UNCHANGED <<status, want, reserved, sdnVars, on, left, inv, overlap, mine,
                       boundVars>>

(* A worker that dies takes the token of Proxmox's lock with it.           *)
Crash(w) ==
    /\ pc[w] # "idle"
    /\ Fault
    /\ lock' = IF lock = w THEN "abandoned" ELSE lock
    /\ EndPass(w)
    /\ UNCHANGED <<dbVars, pve, deleted, requests>>

-----------------------------------------------------------------------------
(* The SDN page: DELETE /zones/{zone}, /vnets/{vnet} and .../subnets/{s},  *)
(* which ask nobody whether a lab wants the object.  Proxmox refuses one   *)
(* that still holds another, and anything while the SDN is locked.         *)
DeleteObject(l, t) ==
    /\ Request
    /\ lock = None
    /\ t \in pve[l]
    /\ t = "zone" => "vnet" \notin pve[l]
    /\ t = "vnet" => "subnet" \notin pve[l]
    /\ pve' = [pve EXCEPT ![l] = @ \ {t}]
    /\ deleted' = [deleted EXCEPT ![l] = @ \cup {t}]
    /\ UNCHANGED <<dbVars, lock, pc, passVars, faults>>

-----------------------------------------------------------------------------
Pass(w) ==
    \/ EndSweep(w) \/ StartReconcileRun(w) \/ PlanNetworkReconcile(w)
    \/ CreateFixAction(w) \/ FinishReconcileRun(w) \/ PlanFails(w)
    \/ ListPending(w) \/ EndFixes(w) \/ RunFix(w) \/ CreateObject(w)
    \/ AcquireLock(w) \/ ApplySdn(w) \/ ApplyFails(w) \/ RecordResult(w)

LabNext ==
    \/ \E l \in Labs : \E wanted \in Wants[l] : CreateLab(l, wanted)
    \/ StartSweep \/ StartReconcile \/ RunPendingFixes
    \/ \E w \in Workers : Pass(w) \/ Crash(w)
    \/ \E l \in Labs, t \in Objects : DeleteObject(l, t)

(* A monitor that is configured to sweeps for as long as it is up, and a   *)
(* pass or a request that began goes on.                                   *)
LabFairness ==
    /\ WF_labVars(StartSweep)
    /\ \A w \in Workers : WF_labVars(Pass(w))

LabSpec == LabInit /\ [][LabNext]_labVars /\ LabFairness

-----------------------------------------------------------------------------
(* Properties                                                              *)

(* Types of the rows, of Proxmox and of the passes.                        *)
LabTypeOK ==
    /\ status \in [Labs -> LabStatuses]
    /\ want \in [Labs -> (UNION {Wants[l] : l \in Labs}) \cup {None}]
    /\ reserved \subseteq Labs
    /\ \A l \in Labs : /\ DOMAIN fix[l] \subseteq Actions
                       /\ \A t \in DOMAIN fix[l] : fix[l][t] \in {"pending", "fixed", "failed"}
    /\ pve \in [Labs -> SUBSET Objects] /\ deleted \in [Labs -> SUBSET Objects]
    /\ lock \in Workers \cup {"abandoned", None}
    /\ pc \in [Workers -> PCs]

(* create_lab reserves before find_overlapping_cidr_reservations checks:   *)
(* although the check and the commits of a plan pass are apart and the     *)
(* unique key only catches equal ranges, two labs whose sdn_subnets        *)
(* overlap never both have objects in Proxmox, as long as each lab's       *)
(* sdn_subnet lies in the network_cidr that is reserved for it.            *)
OverlapNeverBuilt ==
    \A l, m \in Created :
        /\ l # m
        /\ want[l].subnet \subseteq want[l].cidr
        /\ want[m].subnet \subseteq want[m].cidr
        /\ want[l].subnet \cap want[m].subnet # {}
        => pve[l] = {} \/ pve[m] = {}

(* plan_network_reconcile works from an inventory that may be old, and     *)
(* execute_fix_action may race another worker and the SDN page: what is    *)
(* reported ready or fixed has been built, and if it is not there any more *)
(* then only because somebody deleted it and no pass has built it again.   *)
ReportedIsBuilt ==
    \A l \in Labs :
        /\ status[l] = "ready" => Objects \subseteq pve[l] \cup deleted[l]
        /\ \A t \in DOMAIN fix[l] \cap Objects :
              fix[l][t] = "fixed" => t \in pve[l] \cup deleted[l]

(* execute_fix_action: whoever knows the token of Proxmox's SDN lock is    *)
(* still applying.  The lock stays behind only when its token was lost:    *)
(* with acquire_lock's answer, with the worker, or after the forced        *)
(* release failed too.                                                     *)
LockIsReleased ==
    lock \in Workers => pc[lock] = "locked"

(* The sweep, where it is switched on and told to apply, with errors of    *)
(* Proxmox, passes that supersede each other, deletions and a restart on   *)
(* the way: a lab on the SDN that nothing overlaps with gets its network,  *)
(* and gets it back, unless the SDN lock was left behind.                  *)
LabConverges ==
    \A l \in Labs :
        SweepOn /\ AutoApply /\ l \in Created /\ want[l].mode = "sdn" ~>
            \/ pve[l] = Objects
            \/ \E m \in Labs \ {l} : Overlapping(l, m)
            \/ lock = "abandoned"
=============================================================================
