-------------------------- MODULE LabReconcileProofs --------------------------
(***************************************************************************)
(* What the lab reconciler keeps for any number of labs, ranges, faults    *)
(* and requests, with or without the monitor's sweep.                      *)
(*                                                                         *)
(* Two ranges that overlap are safe because of an order nobody wrote down: *)
(* a lab is reserved in the transaction that creates it, and a pass looks  *)
(* for overlaps before it plans.  The invariant says so: of two labs that  *)
(* overlap, at most one is being built (Building), from the moment its     *)
(* pass found no overlap.                                                  *)
(***************************************************************************)
EXTENDS LabReconcile, TLAPS

Applying == {"mutate", "locked", "record"}

(* Types, with those of the workers' local variables.                      *)
Results == {"fixed", "failed", "ready", "fixing", "blocked", None}

LTypes ==
    /\ LabTypeOK
    /\ DOMAIN fix = Labs
    /\ on \in [Workers -> Labs \cup {None}]
    /\ left \in [Workers -> SUBSET Labs]
    /\ inv \in [Workers -> [Labs -> SUBSET Objects]]
    /\ overlap \in [Workers -> BOOLEAN]
    /\ result \in [Workers -> Results]
    /\ todo \in [Workers -> SUBSET Actions]
    /\ mine \in [Workers -> BOOLEAN]
    /\ faults \in Nat /\ requests \in Nat

(* A lab that does not exist has nothing; one that does is reserved.       *)
LRows ==
    \A l \in Labs :
        /\ status[l] = "none" => want[l] = None /\ pve[l] = {} /\ DOMAIN fix[l] = {}
        /\ status[l] # "none" => want[l] # None /\ l \in reserved

(* A worker works on labs that exist, and applies what it has to do.       *)
LWorkers ==
    \A w \in Workers :
        /\ pc[w] \notin {"idle", "next"} => on[w] \in Created
        /\ left[w] \subseteq Created
        /\ pc[w] \notin Applying \cup {"planned", "run"} => todo[w] = {}
        /\ pc[w] \in Applying => todo[w] # {}

(* What was built once is there, or was deleted and not built again.       *)
Built(l) == pve[l] \cup deleted[l]

(* What a worker knows of Proxmox was built.                               *)
LKnown ==
    \A w \in Workers :
        /\ \A l \in Labs : inv[w][l] \subseteq Built(l)
        /\ pc[w] = "locked" => NextFix(w) = "apply"
        /\ pc[w] \in Applying => result[w] \in {"fixed", "failed"}
        /\ pc[w] = "planned" => result[w] \in {"ready", "fixing", "blocked"}
        /\ pc[w] = "planned" /\ result[w] = "ready" => Objects \subseteq Built(on[w])
        /\ pc[w] = "record" /\ result[w] = "fixed" /\ NextFix(w) \in Objects =>
              NextFix(w) \in Built(on[w])

(* A pass found no overlap for l, and since then it was built or planned.  *)
Building(l) ==
    \/ pve[l] # {}
    \/ DOMAIN fix[l] # {}
    \/ \E w \in Workers : on[w] = l /\ ((pc[w] = "plan" /\ ~overlap[w]) \/ todo[w] # {})

LApart == \A l, m \in Labs : l # m /\ Overlapping(l, m) => ~(Building(l) /\ Building(m))

LInv == LTypes /\ LRows /\ LWorkers /\ LKnown /\ LApart /\ ReportedIsBuilt /\ LockIsReleased

-----------------------------------------------------------------------------
(* The fix action with the lowest priority number is one of them.          *)
LEMMA FirstIsOne ==
    ASSUME NEW S \in SUBSET Actions, S # {} PROVE First(S) \in S
<1>1. \E t \in S : \A u \in S : Priority(t) <= Priority(u)
  <2>1. CASE "zone" \in S
    BY <2>1 DEF Actions, Objects, Priority
  <2>2. CASE "zone" \notin S /\ "vnet" \in S
    BY <2>2 DEF Actions, Objects, Priority
  <2>3. CASE S \subseteq {"subnet", "apply"} /\ "subnet" \in S
    BY <2>3 DEF Actions, Objects, Priority
  <2>4. CASE S = {"apply"}
    BY <2>4 DEF Actions, Objects, Priority
  <2>5. QED  BY <2>1, <2>2, <2>3, <2>4 DEF Actions, Objects
<1>2. QED  BY <1>1 DEF First

(* Nothing that was built is forgotten: CreateObject.                      *)
LEMMA CreateKeepsBuilt ==
    ASSUME LTypes, NEW w \in Workers, CreateObject(w)
    PROVE  \A l \in Labs : Built(l) \subseteq Built(l)'
<1>1. CASE UNCHANGED <<pve, deleted>>
  BY <1>1 DEF Built
<1>2. CASE /\ pve' = [pve EXCEPT ![on[w]] = @ \cup {NextFix(w)}]
           /\ deleted' = [deleted EXCEPT ![on[w]] = @ \ {NextFix(w)}]
  BY <1>2 DEF LTypes, LabTypeOK, Built
<1>3. QED  BY <1>1, <1>2 DEF CreateObject

(* Nothing that was built is forgotten: DeleteObject.                      *)
LEMMA DeleteKeepsBuilt ==
    ASSUME LTypes, NEW l \in Labs, NEW t \in Objects, DeleteObject(l, t)
    PROVE  \A m \in Labs : Built(m) \subseteq Built(m)'
BY DEF LTypes, LabTypeOK, Built, DeleteObject

(* A worker that applies has a fix action, one of those it listed.         *)
LEMMA NextFixIsOne ==
    ASSUME LTypes, LWorkers, NEW w \in Workers, pc[w] \in Applying
    PROVE  NextFix(w) \in todo[w] /\ NextFix(w) \in Actions
BY FirstIsOne DEF LTypes, LWorkers, NextFix

(* Labs stay apart as long as no further lab is built.                     *)
LEMMA NoNewBuild ==
    ASSUME LApart, want' = want, \A l \in Labs : Building(l)' => Building(l)
    PROVE  LApart'
BY DEF LApart, Overlapping

(* EndSweep: the worker is idle again and knows nothing.                   *)
LEMMA EndSweepStep ==
    ASSUME LInv, NEW w \in Workers, EndSweep(w) PROVE LInv'
<1> USE DEF LInv, dbVars, sdnVars, passVars, boundVars, Goto, EndSweep, EndPass
<1>1. LTypes'
  BY DEF LTypes, LabTypeOK, LabStatuses, PCs, Actions, Objects, Workers, Results
<1>2. LRows'
  BY DEF LTypes, LabTypeOK, LRows, LWorkers, Created
<1>3. LWorkers'
  BY DEF LTypes, LabTypeOK, LWorkers, Created, Applying
<1>4. LKnown'
  BY DEF LTypes, LabTypeOK, LKnown, LWorkers, Applying, NextFix, Built
<1>5. LApart'
  <2>1. \A l \in Labs : Building(l)' => Building(l)
    BY DEF LTypes, LabTypeOK, Building, LWorkers, Applying
  <2>2. QED  BY <2>1, NoNewBuild
<1>6. ReportedIsBuilt'
  BY DEF LTypes, LabTypeOK, ReportedIsBuilt, LKnown, Built
<1>7. LockIsReleased'
  BY LabAssumption DEF LTypes, LabTypeOK, LockIsReleased, Workers
<1>8. QED  BY <1>1, <1>2, <1>3, <1>4, <1>5, <1>6, <1>7 DEF LInv

(* StartReconcileRun: the only step by which a lab starts being built;     *)
(* every lab that overlaps is reserved, so the search would have found it. *)
LEMMA StartReconcileRunStep ==
    ASSUME LInv, NEW w \in Workers, StartReconcileRun(w) PROVE LInv'
<1> USE DEF LInv, dbVars, sdnVars, passVars, boundVars, Goto, StartReconcileRun
<1>1. LTypes'
  BY DEF LTypes, LabTypeOK, LabStatuses, PCs, Actions, Objects, Workers, Results
<1>2. LRows'
  BY DEF LTypes, LabTypeOK, LRows, LWorkers, Created
<1>3. LWorkers'
  BY DEF LTypes, LabTypeOK, LWorkers, Created, Applying
<1>4. LKnown'
  BY DEF LTypes, LabTypeOK, LKnown, LWorkers, Applying, NextFix, Built
<1>5. LApart'
  <2>1. PICK l \in left[w] :
            /\ on' = [on EXCEPT ![w] = l]
            /\ overlap' = [overlap EXCEPT ![w] = FindOverlappingCidrReservations(l) # {}]
    OBVIOUS
  <2>2. l \in Labs /\ todo[w] = {}
    BY DEF LTypes, LWorkers, Applying
  <2>3. \A m \in Labs \ {l} : Building(m)' => Building(m)
    BY <2>1, <2>2 DEF LTypes, Building
  <2>4. CASE Building(l)' => Building(l)
    BY <2>3, <2>4, NoNewBuild
  <2>5. CASE ~Building(l) /\ Building(l)'
    <3>1. FindOverlappingCidrReservations(l) = {}
      <4>1. UNCHANGED <<pve, fix, todo>>
        OBVIOUS
      <4>2. \A v \in Workers \ {w} : on'[v] = on[v] /\ pc'[v] = pc[v] /\ overlap'[v] = overlap[v]
        BY <2>1 DEF LTypes, LabTypeOK
      <4>3. ~overlap'[w]
        BY <2>2, <2>5, <4>1, <4>2 DEF Building
      <4>4. overlap'[w] = (FindOverlappingCidrReservations(l) # {})
        BY <2>1 DEF LTypes, LabTypeOK
      <4>5. QED  BY <4>3, <4>4
    <3>2. \A m \in Labs \ {l} : want[m] # None => m \in reserved
      BY DEF LRows
    <3>3. \A m \in Labs \ {l} : ~Overlapping(l, m) /\ ~Overlapping(m, l)
      BY <3>1, <3>2 DEF FindOverlappingCidrReservations, Overlapping
    <3>4. QED  BY <2>3, <3>3 DEF LApart, Overlapping
  <2>6. QED  BY <2>4, <2>5
<1>6. ReportedIsBuilt'
  BY DEF LTypes, LabTypeOK, ReportedIsBuilt, LKnown, Built
<1>7. LockIsReleased'
  BY LabAssumption DEF LTypes, LabTypeOK, LockIsReleased, Workers
<1>8. QED  BY <1>1, <1>2, <1>3, <1>4, <1>5, <1>6, <1>7 DEF LInv

(* PlanNetworkReconcile: only a lab without an overlap has fixes to record,*)
(* and ready is planned of what the inventory held.                        *)
LEMMA PlanNetworkReconcileStep ==
    ASSUME LInv, NEW w \in Workers, PlanNetworkReconcile(w) PROVE LInv'
<1> USE DEF LInv, dbVars, sdnVars, passVars, boundVars, Goto, PlanNetworkReconcile,
            ClearCurrentReconcileState, NoFixes, Missing
<1>0. on[w] \in Labs /\ status[on[w]] # "none"
  BY DEF LTypes, LWorkers, Created
<1>1. LTypes'
  <2>1. /\ DOMAIN fix' = Labs
        /\ \A l \in Labs : /\ DOMAIN fix'[l] \subseteq Actions
                           /\ \A t \in DOMAIN fix'[l] : fix'[l][t] \in {"pending", "fixed", "failed"}
    BY <1>0 DEF LTypes, LabTypeOK
  <2>2. todo' \in [Workers -> SUBSET Actions] /\ result' \in [Workers -> Results]
    BY DEF LTypes, Actions, Results
  <2>3. inv' \in [Workers -> [Labs -> SUBSET Objects]]
    BY DEF LTypes
  <2>4. reserved' \subseteq Labs /\ pc' \in [Workers -> PCs]
    BY <1>0 DEF LTypes, LabTypeOK, PCs
  <2>5. overlap' \in [Workers -> BOOLEAN] /\ mine' \in [Workers -> BOOLEAN]
    BY DEF LTypes
  <2>6. QED  BY <2>1, <2>2, <2>3, <2>4, <2>5 DEF LTypes, LabTypeOK
<1>2. LRows'
  <2>1. \A l \in Labs : DOMAIN fix[l] = {} => DOMAIN fix'[l] = {}
    BY <1>0 DEF LTypes
  <2>2. QED  BY <1>0, <2>1 DEF LRows
<1>3. LWorkers'
  BY DEF LTypes, LabTypeOK, LWorkers, Created, Applying
<1>4. LKnown'
  <2>1. \A v \in Workers \ {w} : /\ pc'[v] = pc[v] /\ result'[v] = result[v]
                               /\ todo'[v] = todo[v] /\ inv'[v] = inv[v]
    BY DEF LTypes, LabTypeOK
  <2>2. pc'[w] = "planned" /\ result'[w] \in {"ready", "fixing", "blocked"}
    BY DEF LTypes, LabTypeOK
  <2>3. result'[w] = "ready" => Objects \subseteq Built(on[w])
    <3>1. result'[w] = "ready" => Objects \subseteq inv[w][on[w]]
      BY DEF LTypes
    <3>2. QED  BY <1>0, <3>1 DEF LKnown
  <2>4. \A l \in Labs : inv'[w][l] \subseteq inv[w][l]
    BY <1>0 DEF LTypes
  <2>5. \A l : Built(l)' = Built(l)
    BY DEF Built
  <2>6. QED  BY <2>1, <2>2, <2>3, <2>4, <2>5 DEF LKnown, Applying, NextFix
<1>5. LApart'
  <2>1. \A l \in Labs : DOMAIN fix'[l] # {} => DOMAIN fix[l] # {}
    BY <1>0 DEF LTypes
  <2>2. todo'[w] # {} => ~overlap[w]
    BY DEF LTypes
  <2>3. \A v \in Workers \ {w} : todo'[v] = todo[v]
    BY DEF LTypes
  <2>4. \A v \in Workers : pc'[v] = "plan" => pc[v] = "plan" /\ overlap'[v] = overlap[v]
    BY DEF LTypes, LabTypeOK
  <2>5. \A l \in Labs : Building(l)' => Building(l)
    BY <2>1, <2>2, <2>3, <2>4 DEF Building
  <2>6. QED  BY <2>5, NoNewBuild
<1>6. ReportedIsBuilt'
  <2>1. \A l \in Labs : /\ DOMAIN fix'[l] \subseteq DOMAIN fix[l]
                        /\ \A t \in DOMAIN fix'[l] : fix'[l][t] = fix[l][t]
    BY <1>0 DEF LTypes
  <2>2. QED  BY <2>1 DEF ReportedIsBuilt
<1>7. LockIsReleased'
  BY LabAssumption DEF LTypes, LabTypeOK, LockIsReleased, Workers
<1>8. QED  BY <1>1, <1>2, <1>3, <1>4, <1>5, <1>6, <1>7 DEF LInv

(* CreateFixAction: a further pending fix of a lab that is being built.    *)
LEMMA CreateFixActionStep ==
    ASSUME LInv, NEW w \in Workers, CreateFixAction(w) PROVE LInv'
<1> USE DEF LInv, dbVars, sdnVars, passVars, boundVars, CreateFixAction
<1>0. on[w] \in Labs /\ status[on[w]] # "none"
  BY DEF LTypes, LWorkers, Created
<1>a. NextFix(w) \in todo[w] /\ NextFix(w) \in Actions
  BY FirstIsOne DEF LTypes, NextFix
<1>b. /\ DOMAIN fix' = Labs
      /\ \A l \in Labs \ {on[w]} : fix'[l] = fix[l]
      /\ DOMAIN fix'[on[w]] = DOMAIN fix[on[w]] \cup {NextFix(w)}
      /\ \A t \in DOMAIN fix'[on[w]] :
            fix'[on[w]][t] = IF t = NextFix(w) THEN "pending" ELSE fix[on[w]][t]
  BY <1>0 DEF LTypes
<1>1. LTypes'
  <2>1. \A l \in Labs : /\ DOMAIN fix'[l] \subseteq Actions
                        /\ \A t \in DOMAIN fix'[l] : fix'[l][t] \in {"pending", "fixed", "failed"}
    BY <1>a, <1>b DEF LTypes, LabTypeOK
  <2>2. todo' \in [Workers -> SUBSET Actions]
    BY DEF LTypes
  <2>3. QED  BY <1>b, <2>1, <2>2 DEF LTypes, LabTypeOK
<1>2. LRows'
  BY <1>0, <1>b DEF LRows
<1>3. LWorkers'
  BY DEF LTypes, LabTypeOK, LWorkers, Created, Applying
<1>4. LKnown'
  BY DEF LTypes, LabTypeOK, LKnown, LWorkers, Applying, NextFix, Built
<1>5. LApart'
  <2>1. Building(on[w])
    BY <1>0 DEF Building
  <2>2. \A v \in Workers : todo'[v] # {} => todo[v] # {}
    BY DEF LTypes
  <2>3. \A l \in Labs : Building(l)' => Building(l)
    BY <1>b, <2>1, <2>2 DEF Building
  <2>4. QED  BY <2>3, NoNewBuild
<1>6. ReportedIsBuilt'
  BY <1>0, <1>b DEF ReportedIsBuilt
<1>7. LockIsReleased'
  BY LabAssumption DEF LTypes, LabTypeOK, LockIsReleased, Workers
<1>8. QED  BY <1>1, <1>2, <1>3, <1>4, <1>5, <1>6, <1>7 DEF LInv

(* FinishReconcileRun: ready is reported of what was built.                *)
LEMMA FinishReconcileRunStep ==
    ASSUME LInv, NEW w \in Workers, FinishReconcileRun(w) PROVE LInv'
<1> USE DEF LInv, dbVars, sdnVars, passVars, boundVars, Goto, FinishReconcileRun,
            FinishRun, LabStatusFromReconcileStatus
<1>0. on[w] \in Labs /\ status[on[w]] # "none" /\ result[w] \in {"ready", "fixing", "blocked"}
  BY DEF LTypes, LWorkers, Created, LKnown
<1>a. status' = [status EXCEPT ![on[w]] = result[w]]
  BY <1>0
<1>1. LTypes'
  <2>1. status' \in [Labs -> LabStatuses]
    BY <1>0, <1>a DEF LTypes, LabTypeOK, LabStatuses
  <2>2. inv' \in [Workers -> [Labs -> SUBSET Objects]] /\ on' \in [Workers -> Labs \cup {None}]
    BY DEF LTypes
  <2>3. pc' \in [Workers -> PCs]
    BY DEF LTypes, LabTypeOK, PCs
  <2>4. QED  BY <2>1, <2>2, <2>3 DEF LTypes, LabTypeOK, Results
<1>2. LRows'
  BY <1>0, <1>a DEF LTypes, LabTypeOK, LRows
<1>3. LWorkers'
  <2>1. Created' = Created
    BY <1>0, <1>a DEF LTypes, LabTypeOK, Created
  <2>2. QED  BY <2>1 DEF LTypes, LabTypeOK, LWorkers, Applying
<1>4. LKnown'
  BY DEF LTypes, LabTypeOK, LKnown, LWorkers, Applying, NextFix, Built
<1>5. LApart'
  <2>1. \A l \in Labs : Building(l)' => Building(l)
    BY DEF LTypes, LabTypeOK, Building, LWorkers, Applying
  <2>2. QED  BY <2>1, NoNewBuild
<1>6. ReportedIsBuilt'
  BY <1>0, <1>a DEF LTypes, LabTypeOK, ReportedIsBuilt, LKnown, Built
<1>7. LockIsReleased'
  BY LabAssumption DEF LTypes, LabTypeOK, LockIsReleased, Workers
<1>8. QED  BY <1>1, <1>2, <1>3, <1>4, <1>5, <1>6, <1>7 DEF LInv

(* PlanFails: the status of the lab changes, and its fixes may be cleared. *)
LEMMA PlanFailsStep ==
    ASSUME LInv, NEW w \in Workers, PlanFails(w) PROVE LInv'
<1> USE DEF LInv, dbVars, sdnVars, passVars, boundVars, Goto, PlanFails, Fault,
            FinishRun, LabStatusFromReconcileStatus, ClearCurrentReconcileState, NoFixes
<1>0. on[w] \in Labs /\ status[on[w]] # "none"
  BY DEF LTypes, LWorkers, Created
<1>a. PICK st \in {"blocked", "validating"} : status' = [status EXCEPT ![on[w]] = st]
  OBVIOUS
<1>b. /\ DOMAIN fix' = Labs
      /\ \A l \in Labs : /\ DOMAIN fix'[l] \subseteq DOMAIN fix[l]
                         /\ \A t \in DOMAIN fix'[l] : fix'[l][t] = fix[l][t]
  <2>1. CASE fix' = fix
    BY <2>1 DEF LTypes
  <2>2. CASE fix' = [fix EXCEPT ![on[w]] = NoFixes]
    BY <1>0, <2>2 DEF LTypes
  <2>3. QED  BY <2>1, <2>2
<1>c. todo' = [todo EXCEPT ![w] = {}] /\ pc' = [pc EXCEPT ![w] = "next"]
  OBVIOUS
<1>1. LTypes'
  <2>1. status' \in [Labs -> LabStatuses]
    BY <1>0, <1>a DEF LTypes, LabTypeOK, LabStatuses
  <2>2. inv' \in [Workers -> [Labs -> SUBSET Objects]] /\ on' \in [Workers -> Labs \cup {None}]
    BY DEF LTypes
  <2>3. pc' \in [Workers -> PCs] /\ faults' \in Nat
    BY <1>c DEF LTypes, LabTypeOK, PCs
  <2>6. mine' \in [Workers -> BOOLEAN]
    BY DEF LTypes
  <2>4. \A l \in Labs : /\ DOMAIN fix'[l] \subseteq Actions
                        /\ \A t \in DOMAIN fix'[l] : fix'[l][t] \in {"pending", "fixed", "failed"}
    BY <1>b DEF LTypes, LabTypeOK
  <2>5. QED  BY <1>b, <2>1, <2>2, <2>3, <2>4, <2>6 DEF LTypes, LabTypeOK, Results
<1>2. LRows'
  BY <1>0, <1>a, <1>b DEF LTypes, LabTypeOK, LRows
<1>3. LWorkers'
  <2>1. Created' = Created
    BY <1>0, <1>a DEF LTypes, LabTypeOK, Created
  <2>2. QED  BY <1>c, <2>1 DEF LTypes, LabTypeOK, LWorkers, Applying
<1>4. LKnown'
  BY <1>c DEF LTypes, LabTypeOK, LKnown, LWorkers, Applying, NextFix, Built
<1>5. LApart'
  <2>1. \A v \in Workers : /\ todo'[v] # {} => todo[v] # {} /\ on'[v] = on[v]
                           /\ pc'[v] = "plan" => pc[v] = "plan" /\ on'[v] = on[v]
                                                /\ overlap'[v] = overlap[v]
    BY <1>c DEF LTypes, LabTypeOK
  <2>2. \A l \in Labs : Building(l)' => Building(l)
    <3>1. pve' = pve
      OBVIOUS
    <3>2. \A l \in Labs : DOMAIN fix'[l] # {} => DOMAIN fix[l] # {}
      BY <1>b
    <3> HIDE DEF PlanFails
    <3>3. QED  BY <2>1, <3>1, <3>2 DEF Building
  <2>3. QED  BY <2>2, NoNewBuild
<1>6. ReportedIsBuilt'
  BY <1>0, <1>a, <1>b DEF LTypes, LabTypeOK, ReportedIsBuilt
<1>7. LockIsReleased'
  BY <1>c DEF LTypes, LabTypeOK, LockIsReleased
<1>8. QED  BY <1>1, <1>2, <1>3, <1>4, <1>5, <1>6, <1>7 DEF LInv

(* ListPending: what is to do was recorded for the same lab.               *)
LEMMA ListPendingStep ==
    ASSUME LInv, NEW w \in Workers, ListPending(w) PROVE LInv'
<1> USE DEF LInv, dbVars, sdnVars, passVars, boundVars, Goto, ListPending
<1>1. LTypes'
  <2>1. DOMAIN fix[on[w]] \subseteq Actions
    BY DEF LTypes, LabTypeOK, LWorkers, Created
  <2>2. QED  BY <2>1 DEF LTypes, LabTypeOK, PCs
<1>2. LRows'
  BY DEF LTypes, LabTypeOK, LRows, LWorkers, Created
<1>3. LWorkers'
  BY DEF LTypes, LabTypeOK, LWorkers, Created, Applying
<1>4. LKnown'
  BY DEF LTypes, LabTypeOK, LKnown, LWorkers, Applying, NextFix, Built
<1>5. LApart'
  <2>1. \A l \in Labs : Building(l)' => Building(l)
    BY DEF LTypes, LabTypeOK, Building, LWorkers, Applying
  <2>2. QED  BY <2>1, NoNewBuild
<1>6. ReportedIsBuilt'
  BY DEF LTypes, LabTypeOK, ReportedIsBuilt, LKnown, Built
<1>7. LockIsReleased'
  BY LabAssumption DEF LTypes, LabTypeOK, LockIsReleased, Workers
<1>8. QED  BY <1>1, <1>2, <1>3, <1>4, <1>5, <1>6, <1>7 DEF LInv

(* EndFixes: the worker leaves its lab, or only its fixes.                 *)
LEMMA EndFixesStep ==
    ASSUME LInv, NEW w \in Workers, EndFixes(w) PROVE LInv'
<1> USE DEF LInv, dbVars, sdnVars, passVars, boundVars, Goto, EndFixes, LeaveFixes,
            EndPass, Fault
<1>1. LTypes'
  <2>1. faults' \in Nat /\ requests' \in Nat
    BY DEF LTypes
  <2>2. /\ pc' \in [Workers -> PCs]
        /\ todo' \in [Workers -> SUBSET Actions]
        /\ mine' \in [Workers -> BOOLEAN]
    BY DEF LTypes, LabTypeOK, PCs
  <2>3. CASE w = "operator"
    <3>1. on' \in [Workers -> Labs \cup {None}] /\ left' \in [Workers -> SUBSET Labs]
      BY <2>3 DEF LTypes
    <3>2. inv' \in [Workers -> [Labs -> SUBSET Objects]]
      BY <2>3 DEF LTypes
    <3>3. overlap' \in [Workers -> BOOLEAN] /\ result' \in [Workers -> Results]
      BY <2>3 DEF LTypes, Results
    <3>4. QED  BY <2>1, <2>2, <3>1, <3>2, <3>3 DEF LTypes, LabTypeOK
  <2>4. CASE w # "operator"
    BY <2>1, <2>2, <2>4 DEF LTypes, LabTypeOK
  <2>5. QED  BY <2>3, <2>4
<1>2. LRows'
  BY DEF LTypes, LabTypeOK, LRows, LWorkers, Created
<1>3. LWorkers'
  <2>1. CASE w = "operator"
    BY <2>1 DEF LTypes, LabTypeOK, LWorkers, Created, Applying
  <2>2. CASE w # "operator"
    <3>1. \A v \in Workers \ {w} : pc'[v] = pc[v] /\ on'[v] = on[v] /\ todo'[v] = todo[v]
      BY <2>2 DEF LTypes, LabTypeOK
    <3>2. pc'[w] = "next" /\ todo'[w] = {} /\ UNCHANGED <<left, status>>
      BY <2>2 DEF LTypes, LabTypeOK
    <3>3. QED  BY <3>1, <3>2 DEF LWorkers, Created, Applying
  <2>3. QED  BY <2>1, <2>2
<1>4. LKnown'
  <2>1. \A v \in Workers \ {w} : /\ pc'[v] = pc[v] /\ result'[v] = result[v] /\ on'[v] = on[v]
                               /\ inv'[v] = inv[v] /\ todo'[v] = todo[v]
    BY DEF LTypes, LabTypeOK
  <2>2. pc'[w] \in {"idle", "next"} /\ \A l \in Labs : inv'[w][l] \subseteq inv[w][l]
    BY DEF LTypes, LabTypeOK
  <2>3. \A l : Built(l)' = Built(l)
    BY DEF Built
  <2>4. QED  BY <2>1, <2>2, <2>3 DEF LKnown, Applying, NextFix
<1>5. LApart'
  <2>1. /\ \A v \in Workers : todo'[v] # {} => todo[v] # {} /\ on'[v] = on[v]
        /\ \A v \in Workers : pc'[v] = "plan" =>
               pc[v] = "plan" /\ on'[v] = on[v] /\ overlap'[v] = overlap[v]
    <3>1. CASE w = "operator"
      BY <3>1 DEF LTypes, LabTypeOK
    <3>2. CASE w # "operator"
      BY <3>2 DEF LTypes, LabTypeOK
    <3>3. QED  BY <3>1, <3>2
  <2>2. \A l \in Labs : Building(l)' => Building(l)
    BY <2>1 DEF Building
  <2>3. QED  BY <2>2, NoNewBuild
<1>6. ReportedIsBuilt'
  BY DEF LTypes, LabTypeOK, ReportedIsBuilt, LKnown, Built
<1>7. LockIsReleased'
  BY LabAssumption DEF LTypes, LabTypeOK, LockIsReleased, Workers
<1>8. QED  BY <1>1, <1>2, <1>3, <1>4, <1>5, <1>6, <1>7 DEF LInv

(* RunFix: an object that the inventory holds is there.                    *)
LEMMA RunFixStep ==
    ASSUME LInv, NEW w \in Workers, RunFix(w) PROVE LInv'
<1> USE DEF LInv, dbVars, sdnVars, passVars, boundVars, Goto, RunFix, HasNextFix,
            Inventory, Counted, Fault
<1>1. LTypes'
  BY DEF LTypes, LabTypeOK, LabStatuses, PCs, Actions, Objects, Workers, Results
<1>2. LRows'
  BY DEF LTypes, LabTypeOK, LRows, LWorkers, Created
<1>3. LWorkers'
  BY DEF LTypes, LabTypeOK, LWorkers, Created, Applying
<1>4. LKnown'
  <2>1. PICK i \in Inventory :
            pc' = [pc EXCEPT ![w] = IF NextFix(w) \in i[on[w]] THEN "record" ELSE "mutate"]
    OBVIOUS
  <2>2. on[w] \in Labs => i[on[w]] \subseteq Built(on[w])
    BY DEF LTypes, LabTypeOK, Built
  <2>3. on[w] \in Labs
    BY DEF LTypes, LWorkers, Created
  <2>4. QED  BY <2>1, <2>2, <2>3 DEF LTypes, LabTypeOK, LKnown, NextFix, Applying, Built
<1>5. LApart'
  <2>1. \A l \in Labs : Building(l)' => Building(l)
    BY DEF LTypes, LabTypeOK, Building, LWorkers, Applying
  <2>2. QED  BY <2>1, NoNewBuild
<1>6. ReportedIsBuilt'
  BY DEF LTypes, LabTypeOK, ReportedIsBuilt, LKnown, Built
<1>7. LockIsReleased'
  BY LabAssumption DEF LTypes, LabTypeOK, LockIsReleased, Workers
<1>8. QED  BY <1>1, <1>2, <1>3, <1>4, <1>5, <1>6, <1>7 DEF LInv

(* CreateObject: the lab was being built already.                          *)
LEMMA CreateObjectStep ==
    ASSUME LInv, NEW w \in Workers, CreateObject(w) PROVE LInv'
<1> USE DEF LInv, dbVars, sdnVars, passVars, boundVars, Goto, CreateObject, Fault
<1>0. on[w] \in Labs /\ status[on[w]] # "none"
  BY DEF LTypes, LWorkers, Created
<1>a. NextFix(w) \in Objects
  BY NextFixIsOne DEF Applying, Actions
<1>b. \A l \in Labs : Built(l) \subseteq Built(l)'
  BY CreateKeepsBuilt
<1>1. LTypes'
  <2>1. pve' \in [Labs -> SUBSET Objects] /\ deleted' \in [Labs -> SUBSET Objects]
    <3>1. CASE UNCHANGED <<pve, deleted>>
      BY <3>1 DEF LTypes, LabTypeOK
    <3>2. CASE /\ pve' = [pve EXCEPT ![on[w]] = @ \cup {NextFix(w)}]
               /\ deleted' = [deleted EXCEPT ![on[w]] = @ \ {NextFix(w)}]
      <4> HIDE DEF CreateObject
      <4>1. pve' \in [Labs -> SUBSET Objects]
        BY <1>a, <3>2 DEF LTypes, LabTypeOK
      <4>2. deleted' \in [Labs -> SUBSET Objects]
        BY <3>2 DEF LTypes, LabTypeOK
      <4>3. QED  BY <4>1, <4>2
    <3>3. QED  BY <3>1, <3>2
  <2>2. result' \in [Workers -> Results] /\ faults' \in Nat
    BY DEF LTypes, Results
  <2>3. QED  BY <2>1, <2>2 DEF LTypes, LabTypeOK, PCs, Results
<1>2. LRows'
  BY <1>0 DEF LTypes, LabTypeOK, LRows
<1>3. LWorkers'
  BY DEF LTypes, LabTypeOK, LWorkers, Created, Applying
<1>4. LKnown'
  <2>1. result'[w] \in {"fixed", "failed"} /\ (result'[w] = "fixed" => NextFix(w) \in pve'[on[w]])
    <3>1. result[w] \in {"fixed", "failed"}
      BY DEF LKnown, Applying
    <3>2. CASE result' = [result EXCEPT ![w] = "failed"]
      BY <3>2 DEF LTypes
    <3>3. CASE result' = result /\ pve' = [pve EXCEPT ![on[w]] = @ \cup {NextFix(w)}]
      BY <1>0, <3>1, <3>3 DEF LTypes, LabTypeOK
    <3>4. QED  BY <3>2, <3>3
  <2>2. \A v \in Workers \ {w} : pc'[v] = pc[v] /\ result'[v] = result[v]
    BY DEF LTypes, LabTypeOK
  <2>3. pc'[w] = "record" /\ \A v \in Workers : NextFix(v)' = NextFix(v)
    BY DEF LTypes, LabTypeOK, NextFix
  <2>4. \A v \in Workers : pc[v] \in Applying \cup {"planned"} => on[v] \in Labs
    BY DEF LTypes, LWorkers, Created, Applying
  <2>5. result'[w] = "fixed" => NextFix(w) \in Built(on[w])'
    BY <2>1 DEF Built
  <2>6. UNCHANGED <<on, inv>>
    OBVIOUS
  <2>7. QED  BY <1>b, <2>1, <2>2, <2>3, <2>4, <2>5, <2>6 DEF LKnown, Applying
<1>5. LApart'
  <2>1. Building(on[w])
    BY <1>0 DEF LWorkers, Building, Applying
  <2>2. \A l \in Labs \ {on[w]} : pve'[l] = pve[l]
    BY DEF LTypes, LabTypeOK
  <2>3. \A v \in Workers : pc'[v] = "plan" => pc[v] = "plan"
    BY DEF LTypes, LabTypeOK
  <2>4. \A l \in Labs : Building(l)' => Building(l)
    BY <2>1, <2>2, <2>3 DEF Building
  <2>5. QED  BY <2>4, NoNewBuild
<1>6. ReportedIsBuilt'
  <2>1. UNCHANGED <<status, fix>>
    OBVIOUS
  <2>2. QED  BY <1>b, <2>1 DEF ReportedIsBuilt, Built
<1>7. LockIsReleased'
  BY LabAssumption DEF LTypes, LabTypeOK, LockIsReleased, Workers
<1>8. QED  BY <1>1, <1>2, <1>3, <1>4, <1>5, <1>6, <1>7 DEF LInv

(* AcquireLock: only the lock and the worker's place change.               *)
LEMMA AcquireLockStep ==
    ASSUME LInv, NEW w \in Workers, AcquireLock(w) PROVE LInv'
<1> USE DEF LInv, dbVars, sdnVars, passVars, boundVars, Goto, AcquireLock, Fault
<1>1. LTypes'
  BY DEF LTypes, LabTypeOK, LabStatuses, PCs, Actions, Objects, Workers, Results
<1>2. LRows'
  BY DEF LTypes, LabTypeOK, LRows, LWorkers, Created
<1>3. LWorkers'
  BY SMTT(30) DEF LTypes, LabTypeOK, LWorkers, Created, Applying
<1>4. LKnown'
  BY DEF LTypes, LabTypeOK, LKnown, LWorkers, Applying, NextFix, Built
<1>5. LApart'
  <2>1. \A l \in Labs : Building(l)' => Building(l)
    BY DEF LTypes, LabTypeOK, Building, LWorkers, Applying
  <2>2. QED  BY <2>1, NoNewBuild
<1>6. ReportedIsBuilt'
  BY DEF LTypes, LabTypeOK, ReportedIsBuilt, LKnown, Built
<1>7. LockIsReleased'
  BY LabAssumption DEF LTypes, LabTypeOK, LockIsReleased, Workers
<1>8. QED  BY <1>1, <1>2, <1>3, <1>4, <1>5, <1>6, <1>7 DEF LInv

(* ApplySdn: the lock is released, no object changes.                      *)
LEMMA ApplySdnStep ==
    ASSUME LInv, NEW w \in Workers, ApplySdn(w) PROVE LInv'
<1> USE DEF LInv, dbVars, sdnVars, passVars, boundVars, Goto, ApplySdn
<1>1. LTypes'
  BY DEF LTypes, LabTypeOK, LabStatuses, PCs, Actions, Objects, Workers, Results
<1>2. LRows'
  BY DEF LTypes, LabTypeOK, LRows, LWorkers, Created
<1>3. LWorkers'
  BY DEF LTypes, LabTypeOK, LWorkers, Created, Applying
<1>4. LKnown'
  <2>1. NextFix(w) \notin Objects
    BY DEF LKnown, Objects
  <2>2. \A v \in Workers : NextFix(v)' = NextFix(v)
    BY DEF NextFix
  <2>3. QED  BY <2>1, <2>2 DEF LTypes, LabTypeOK, LKnown, Applying, Built
<1>5. LApart'
  <2>1. \A l \in Labs : Building(l)' => Building(l)
    BY DEF LTypes, LabTypeOK, Building, LWorkers, Applying
  <2>2. QED  BY <2>1, NoNewBuild
<1>6. ReportedIsBuilt'
  BY DEF LTypes, LabTypeOK, ReportedIsBuilt, LKnown, Built
<1>7. LockIsReleased'
  BY LabAssumption DEF LTypes, LabTypeOK, LockIsReleased, Workers
<1>8. QED  BY <1>1, <1>2, <1>3, <1>4, <1>5, <1>6, <1>7 DEF LInv

(* ApplyFails: the lock is released unless Proxmox is lost.                *)
LEMMA ApplyFailsStep ==
    ASSUME LInv, NEW w \in Workers, ApplyFails(w) PROVE LInv'
<1> USE DEF LInv, dbVars, sdnVars, passVars, boundVars, Goto, ApplyFails, Fault
<1>1. LTypes'
  BY DEF LTypes, LabTypeOK, LabStatuses, PCs, Actions, Objects, Workers, Results
<1>2. LRows'
  BY DEF LTypes, LabTypeOK, LRows, LWorkers, Created
<1>3. LWorkers'
  BY DEF LTypes, LabTypeOK, LWorkers, Created, Applying
<1>4. LKnown'
  BY DEF LTypes, LabTypeOK, LKnown, LWorkers, Applying, NextFix, Built
<1>5. LApart'
  <2>1. \A l \in Labs : Building(l)' => Building(l)
    BY DEF LTypes, LabTypeOK, Building, LWorkers, Applying
  <2>2. QED  BY <2>1, NoNewBuild
<1>6. ReportedIsBuilt'
  BY DEF LTypes, LabTypeOK, ReportedIsBuilt, LKnown, Built
<1>7. LockIsReleased'
  BY LabAssumption DEF LTypes, LabTypeOK, LockIsReleased, Workers
<1>8. QED  BY <1>1, <1>2, <1>3, <1>4, <1>5, <1>6, <1>7 DEF LInv

(* RecordResult: what is fixed is in Proxmox.                              *)
LEMMA RecordResultStep ==
    ASSUME LInv, NEW w \in Workers, RecordResult(w) PROVE LInv'
<1> USE DEF LInv, dbVars, sdnVars, passVars, boundVars, Goto, RecordResult
<1>1. LTypes'
  <2>1. on[w] \in Labs /\ result[w] \in {"fixed", "failed"}
    BY DEF LTypes, LWorkers, Created, LKnown, Applying
  <2>2. /\ DOMAIN fix' = Labs
        /\ \A l \in Labs : /\ DOMAIN fix'[l] = DOMAIN fix[l]
                           /\ \A t \in DOMAIN fix'[l] : fix'[l][t] \in {fix[l][t], result[w]}
    BY <2>1 DEF LTypes
  <2>3. QED  BY <2>1, <2>2 DEF LTypes, LabTypeOK, PCs, Results
<1>2. LRows'
  BY DEF LTypes, LabTypeOK, LRows, LWorkers, Created
<1>3. LWorkers'
  BY DEF LTypes, LabTypeOK, LWorkers, Created, Applying
<1>4. LKnown'
  BY DEF LTypes, LabTypeOK, LKnown, LWorkers, Applying, NextFix, Built
<1>5. LApart'
  <2>1. \A l \in Labs : Building(l)' => Building(l)
    BY DEF LTypes, LabTypeOK, Building, LWorkers, Applying
  <2>2. QED  BY <2>1, NoNewBuild
<1>6. ReportedIsBuilt'
  BY DEF LTypes, LabTypeOK, ReportedIsBuilt, LKnown, Built
<1>7. LockIsReleased'
  BY LabAssumption DEF LTypes, LabTypeOK, LockIsReleased, Workers
<1>8. QED  BY <1>1, <1>2, <1>3, <1>4, <1>5, <1>6, <1>7 DEF LInv

(* Crash: the worker forgets, the rows and Proxmox stay.                   *)
LEMMA CrashStep ==
    ASSUME LInv, NEW w \in Workers, Crash(w) PROVE LInv'
<1> USE DEF LInv, dbVars, sdnVars, passVars, boundVars, Goto, Crash, EndPass,
            Fault
<1>1. LTypes'
  BY DEF LTypes, LabTypeOK, LabStatuses, PCs, Actions, Objects, Workers, Results
<1>2. LRows'
  BY DEF LTypes, LabTypeOK, LRows, LWorkers, Created
<1>3. LWorkers'
  BY DEF LTypes, LabTypeOK, LWorkers, Created, Applying
<1>4. LKnown'
  BY DEF LTypes, LabTypeOK, LKnown, LWorkers, Applying, NextFix, Built
<1>5. LApart'
  <2>1. \A l \in Labs : Building(l)' => Building(l)
    BY DEF LTypes, LabTypeOK, Building, LWorkers, Applying
  <2>2. QED  BY <2>1, NoNewBuild
<1>6. ReportedIsBuilt'
  BY DEF LTypes, LabTypeOK, ReportedIsBuilt, LKnown, Built
<1>7. LockIsReleased'
  BY LabAssumption DEF LTypes, LabTypeOK, LockIsReleased, Workers
<1>8. QED  BY <1>1, <1>2, <1>3, <1>4, <1>5, <1>6, <1>7 DEF LInv

(* StartSweep: the inventory is part of what is there.                     *)
LEMMA StartSweepStep ==
    ASSUME LInv, StartSweep PROVE LInv'
<1> USE DEF LInv, dbVars, sdnVars, passVars, boundVars, Goto, StartSweep, Inventory,
            Counted, Fault, Created, ListLabs
<1>1. LTypes'
  BY DEF LTypes, LabTypeOK, LabStatuses, PCs, Actions, Objects, Workers, Results
<1>2. LRows'
  BY DEF LTypes, LabTypeOK, LRows, LWorkers, Created
<1>3. LWorkers'
  BY DEF LTypes, LabTypeOK, LWorkers, Created, Applying
<1>4. LKnown'
  BY DEF LTypes, LabTypeOK, LKnown, LWorkers, Applying, NextFix, Built
<1>5. LApart'
  <2>1. \A l \in Labs : Building(l)' => Building(l)
    BY DEF LTypes, LabTypeOK, Building, LWorkers, Applying
  <2>2. QED  BY <2>1, NoNewBuild
<1>6. ReportedIsBuilt'
  BY DEF LTypes, LabTypeOK, ReportedIsBuilt, LKnown, Built
<1>7. LockIsReleased'
  BY LabAssumption DEF LTypes, LabTypeOK, LockIsReleased, Workers
<1>8. QED  BY <1>1, <1>2, <1>3, <1>4, <1>5, <1>6, <1>7 DEF LInv

(* StartReconcile: an operator's pass over one existing lab.               *)
LEMMA StartReconcileStep ==
    ASSUME LInv, StartReconcile PROVE LInv'
<1> USE DEF LInv, dbVars, sdnVars, passVars, boundVars, Goto, StartReconcile, Created,
            Request, Inventory, Counted, Fault
<1>1. LTypes'
  BY DEF LTypes, LabTypeOK, LabStatuses, PCs, Actions, Objects, Workers, Results
<1>2. LRows'
  BY DEF LTypes, LabTypeOK, LRows, LWorkers, Created
<1>3. LWorkers'
  BY DEF LTypes, LabTypeOK, LWorkers, Created, Applying
<1>4. LKnown'
  BY DEF LTypes, LabTypeOK, LKnown, LWorkers, Applying, NextFix, Built
<1>5. LApart'
  <2>1. \A l \in Labs : Building(l)' => Building(l)
    BY DEF LTypes, LabTypeOK, Building, LWorkers, Applying
  <2>2. QED  BY <2>1, NoNewBuild
<1>6. ReportedIsBuilt'
  BY DEF LTypes, LabTypeOK, ReportedIsBuilt, LKnown, Built
<1>7. LockIsReleased'
  BY LabAssumption DEF LTypes, LabTypeOK, LockIsReleased, Workers
<1>8. QED  BY <1>1, <1>2, <1>3, <1>4, <1>5, <1>6, <1>7 DEF LInv

(* RunPendingFixes: an operator goes straight to the pending fixes.        *)
LEMMA RunPendingFixesStep ==
    ASSUME LInv, RunPendingFixes PROVE LInv'
<1> USE DEF LInv, dbVars, sdnVars, passVars, boundVars, Goto, RunPendingFixes, Created,
            Request
<1>1. LTypes'
  BY DEF LTypes, LabTypeOK, LabStatuses, PCs, Actions, Objects, Workers, Results
<1>2. LRows'
  BY DEF LTypes, LabTypeOK, LRows, LWorkers, Created
<1>3. LWorkers'
  BY DEF LTypes, LabTypeOK, LWorkers, Created, Applying
<1>4. LKnown'
  BY DEF LTypes, LabTypeOK, LKnown, LWorkers, Applying, NextFix, Built
<1>5. LApart'
  <2>1. \A l \in Labs : Building(l)' => Building(l)
    <3>1. todo["operator"] = {} /\ UNCHANGED <<pve, fix, overlap, todo>>
      BY DEF LWorkers, Applying, Workers
    <3>2. \A v \in Workers \ {"operator"} : on'[v] = on[v] /\ pc'[v] = pc[v]
      BY DEF LTypes, LabTypeOK
    <3>3. pc'["operator"] = "list"
      BY DEF LTypes, LabTypeOK, Workers
    <3> HIDE DEF RunPendingFixes
    <3>4. QED  BY <3>1, <3>2, <3>3 DEF Building
  <2>2. QED  BY <2>1, NoNewBuild
<1>6. ReportedIsBuilt'
  BY DEF LTypes, LabTypeOK, ReportedIsBuilt, LKnown, Built
<1>7. LockIsReleased'
  BY LabAssumption DEF LTypes, LabTypeOK, LockIsReleased, Workers
<1>8. QED  BY <1>1, <1>2, <1>3, <1>4, <1>5, <1>6, <1>7 DEF LInv

(* CreateLab: a new lab is not being built, and is reserved.               *)
LEMMA CreateLabStep ==
    ASSUME LInv, NEW l \in Labs, NEW wanted \in Wants[l], CreateLab(l, wanted) PROVE LInv'
<1> USE DEF LInv, dbVars, sdnVars, passVars, boundVars, CreateLab
<1>1. LTypes'
  <2>1. wanted \in UNION {Wants[m] : m \in Labs}
    OBVIOUS
  <2>2. QED  BY <2>1 DEF LTypes, LabTypeOK, LabStatuses
<1>2. LRows'
  BY LabAssumption DEF LTypes, LabTypeOK, LRows
<1>3. LWorkers'
  BY DEF LTypes, LabTypeOK, LWorkers, Created
<1>4. LKnown'
  BY DEF LKnown, NextFix, Built
<1>5. LApart'
  <2>1. \A m \in Labs : Building(m)' = Building(m)
    BY DEF Building
  <2>2. ~Building(l)
    BY DEF LTypes, LRows, LWorkers, Building, Created, Applying
  <2>3. \A m \in Labs \ {l} : want'[m] = want[m]
    BY DEF LTypes, LabTypeOK
  <2>4. QED  BY <2>1, <2>2, <2>3 DEF LApart, Overlapping
<1>6. ReportedIsBuilt'
  BY DEF LTypes, LabTypeOK, ReportedIsBuilt
<1>7. LockIsReleased'
  BY DEF LockIsReleased
<1>8. QED  BY <1>1, <1>2, <1>3, <1>4, <1>5, <1>6, <1>7 DEF LInv

(* DeleteObject: what is gone counts as deleted.                           *)
LEMMA DeleteObjectStep ==
    ASSUME LInv, NEW l \in Labs, NEW t \in Objects, DeleteObject(l, t) PROVE LInv'
<1> USE DEF LInv, dbVars, sdnVars, passVars, boundVars, DeleteObject, Request
<1>a. \A m \in Labs : Built(m) \subseteq Built(m)' /\ pve'[m] \subseteq pve[m]
  BY DeleteKeepsBuilt DEF LTypes, LabTypeOK
<1>1. LTypes'
  BY DEF LTypes, LabTypeOK
<1>2. LRows'
  BY <1>a DEF LRows
<1>3. LWorkers'
  BY DEF LWorkers, Created
<1>4. LKnown'
  <2>1. \A v \in Workers : pc[v] \in Applying \cup {"planned"} => on[v] \in Labs
    BY DEF LTypes, LWorkers, Created, Applying
  <2>2. \A v \in Workers : NextFix(v)' = NextFix(v)
    BY DEF NextFix
  <2>3. UNCHANGED <<on, inv, pc, result>>
    OBVIOUS
  <2>4. QED  BY <1>a, <2>1, <2>2, <2>3 DEF LKnown, Applying
<1>5. LApart'
  <2>1. \A m \in Labs : Building(m)' => Building(m)
    BY <1>a DEF Building
  <2>2. QED  BY <2>1, NoNewBuild
<1>6. ReportedIsBuilt'
  <2>1. UNCHANGED <<status, fix>>
    OBVIOUS
  <2>2. QED  BY <1>a, <2>1 DEF ReportedIsBuilt, Built
<1>7. LockIsReleased'
  BY DEF LockIsReleased
<1>8. QED  BY <1>1, <1>2, <1>3, <1>4, <1>5, <1>6, <1>7 DEF LInv

(* Nothing exists at first.                                                *)
LEMMA LabInitial == LabInit => LInv
<1> SUFFICES ASSUME LabInit PROVE LInv
  OBVIOUS
<1> USE DEF LabInit
<1>1. LTypes
  <2>1. /\ DOMAIN fix = Labs
        /\ \A l \in Labs : DOMAIN fix[l] = {}
    BY DEF NoFixes
  <2>2. QED  BY <2>1 DEF LTypes, LabTypeOK, LabStatuses, PCs, Results
<1>2. LRows /\ LWorkers /\ LKnown
  BY DEF LRows, LWorkers, LKnown, Applying, NoFixes
<1>3. LApart
  BY DEF LApart, Overlapping
<1>4. ReportedIsBuilt /\ LockIsReleased
  BY LabAssumption DEF ReportedIsBuilt, LockIsReleased, NoFixes
<1>5. QED  BY <1>1, <1>2, <1>3, <1>4 DEF LInv

(* Every step keeps the invariant.                                         *)
LEMMA LabStep == LInv /\ [LabNext]_labVars => LInv'
<1> SUFFICES ASSUME LInv, [LabNext]_labVars PROVE LInv'
  OBVIOUS
<1>1. CASE UNCHANGED labVars
  <2> USE <1>1 DEF labVars, dbVars, sdnVars, passVars, boundVars, LInv
  <2>1. LTypes' /\ LRows' /\ LWorkers' /\ LKnown'
    BY DEF LTypes, LabTypeOK, LRows, LWorkers, LKnown, Created, NextFix, Built
  <2>2. LApart'
    BY NoNewBuild DEF Building
  <2>3. ReportedIsBuilt' /\ LockIsReleased'
    BY DEF ReportedIsBuilt, LockIsReleased
  <2>4. QED  BY <2>1, <2>2, <2>3
<1>2. ASSUME NEW l \in Labs, NEW wanted \in Wants[l], CreateLab(l, wanted) PROVE LInv'
  BY <1>2, CreateLabStep
<1>3. CASE StartSweep \/ StartReconcile \/ RunPendingFixes
  BY <1>3, StartSweepStep, StartReconcileStep, RunPendingFixesStep
<1>4. ASSUME NEW w \in Workers, Pass(w) \/ Crash(w) PROVE LInv'
  BY <1>4, EndSweepStep, StartReconcileRunStep, PlanNetworkReconcileStep,
     CreateFixActionStep, FinishReconcileRunStep, PlanFailsStep,
     ListPendingStep, EndFixesStep, RunFixStep, CreateObjectStep, AcquireLockStep,
     ApplySdnStep, ApplyFailsStep, RecordResultStep, CrashStep DEF Pass
<1>5. ASSUME NEW l \in Labs, NEW t \in Objects, DeleteObject(l, t) PROVE LInv'
  BY <1>5, DeleteObjectStep
<1>6. QED  BY <1>1, <1>2, <1>3, <1>4, <1>5 DEF LabNext

(* The invariant of the reconciler, for every number of labs and any       *)
(* interleaving of the monitor's sweep with an operator's requests.        *)
THEOREM LabInvariant == LabSpec => []LInv
BY LabInitial, LabStep, PTL DEF LabSpec

(* The rows that create_lab, plan_network_reconcile and update_fix_action  *)
(* write, and the workers' positions, keep their types.                    *)
THEOREM LabTypes == LabSpec => []LabTypeOK
<1>1. LInv => LabTypeOK
  BY DEF LInv, LTypes
<1>2. QED  BY LabInvariant, <1>1, PTL

(* find_overlapping_cidr_reservations is enough: although the check and    *)
(* the commits of a plan pass are apart, two labs whose sdn_subnets        *)
(* overlap, each inside its network_cidr, never both have objects in       *)
(* Proxmox.                                                                *)
THEOREM OverlapIsNeverBuilt == LabSpec => []OverlapNeverBuilt
<1>1. LInv => OverlapNeverBuilt
  <2> SUFFICES ASSUME LInv, NEW l \in Created, NEW m \in Created, l # m,
                      want[l].subnet \subseteq want[l].cidr,
                      want[m].subnet \subseteq want[m].cidr,
                      want[l].subnet \cap want[m].subnet # {}
               PROVE  pve[l] = {} \/ pve[m] = {}
    BY DEF OverlapNeverBuilt
  <2>1. Overlapping(l, m)
    BY DEF LInv, LRows, Overlapping, Created
  <2>2. QED  BY <2>1 DEF LInv, LApart, Building, Created
<1>2. QED  BY LabInvariant, <1>1, PTL

(* What plan_network_reconcile reports ready and update_fix_action reports *)
(* fixed was built, however old the inventory was; it is gone only when    *)
(* somebody deleted it and nobody has built it again.                      *)
THEOREM ReportsAreTrue == LabSpec => []ReportedIsBuilt
<1>1. LInv => ReportedIsBuilt
  BY DEF LInv
<1>2. QED  BY LabInvariant, <1>1, PTL

(* execute_fix_action never ends with the SDN lock held and its token      *)
(* known; the lock stays behind only where the token was lost or the       *)
(* forced release failed.                                                  *)
THEOREM LockIsAlwaysReleased == LabSpec => []LockIsReleased
<1>1. LInv => LockIsReleased
  BY DEF LInv
<1>2. QED  BY LabInvariant, <1>1, PTL

=============================================================================
