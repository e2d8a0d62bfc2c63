---------------------------- MODULE BuildHostProofs ----------------------------
(* Proofs about BuildHost, for any number of requests, items and faults.   *)
EXTENDS BuildHost, TLAPS

Kinds == Dependencies \cup {"build"}

Item == [kind : Kinds, status : Active \cup {"complete", "failed"}, claimed : Nat, done : Nat]

(* The rows of agent_work_items and the variables that refer to them.      *)
BuildTypeOK ==
    /\ items \in Seq(Item)
    /\ deps \in Seq(SUBSET Nat)
    /\ Len(deps) = Len(items)
    /\ clock \in Nat
    /\ agent \in [pc : {"idle", "work", "complete", "fail"}, item : Nat \cup {None}]
    /\ warm \in [Requests -> [pc : Dependencies \cup {"build", "mark", "idle"},
                              deps : SUBSET Nat, build : Nat \cup {None}]]
    /\ entry \in [status : {"discovered", "warming", "ready", "failed", "missing"},
                  work : Nat \cup {None}, path : Nat \cup {None}]
    /\ late \in SUBSET [item : Nat, status : {"complete", "failed"}]
    /\ lost \in SUBSET Nat
    /\ look \in [Viewers -> [pc : {"idle", "look", "found"}, item : Nat \cup {None}]]
    /\ job \in [pc : {"idle", "verify", "delete"}, item : Nat \cup {None}]
    /\ iso \in SUBSET Nat
    /\ files \in SUBSET iso

(* What the agent holds, or has reported in vain, is an item it claimed.   *)
AgentHoldsClaim ==
    /\ IF agent.pc = "idle" THEN agent.item = None
       ELSE agent.item \in Items /\ items[agent.item].status # "pending"
    /\ \A report \in late :
          /\ report.item \in Items /\ items[report.item].status # "pending"
          /\ report.item \in lost

(* Timestamps are given in order, and only items the agent has lost ended  *)
(* since it took the item it is working on.                                *)
ClaimIsLatest ==
    /\ \A i \in Items : items[i].claimed <= clock /\ items[i].done <= clock
    /\ agent.pc # "idle" /\ items[agent.item].status = "claimed"
          => \A j \in Items : items[j].done <= items[agent.item].claimed \/ j \in lost

(* The queue is taken from its front.                                      *)
TakenInOrder ==
    \A i, j \in Items : i < j /\ items[i].status = "pending" => items[j].status = "pending"

(* A claimed item is in the agent's hands, or the agent has lost it.       *)
ClaimedIsHeld ==
    \A i \in Items :
        items[i].status = "claimed" => (agent.pc # "idle" /\ agent.item = i) \/ i \in lost

(* A request queues what a build depends on before the build.              *)
DependenciesQueuedFirst ==
    /\ \A r \in Requests : warm[r].deps \subseteq Items
    /\ \A b \in Items : \A d \in deps[b] : d \in Items /\ d < b

QueueInv ==
    /\ AgentHoldsClaim
    /\ ClaimIsLatest
    /\ TakenInOrder
    /\ ClaimedIsHeld
    /\ DependenciesQueuedFirst
    /\ BuildFollowsDependencies

(* A look that has found an ISO has found one that was uploaded.           *)
FoundIsBuilt == \A v \in Viewers : look[v].pc = "found" => look[v].item \in iso

CacheIsTrue == ReadyIsBuilt /\ FoundIsBuilt

BuildInv == BuildTypeOK /\ QueueInv /\ CacheIsTrue

-----------------------------------------------------------------------------
(* How an operation changes the rows                                       *)

(* create_work_item adds a pending row behind the others.                  *)
LEMMA CreateEffect ==
    ASSUME BuildTypeOK, NEW kind \in Kinds, NEW after \in SUBSET Nat, CreateWorkItem(kind, after)
    PROVE  LET new == Len(items) + 1 IN
           /\ items' \in Seq(Item) /\ deps' \in Seq(SUBSET Nat) /\ Len(deps') = Len(items')
           /\ new \in Nat /\ new \notin Items /\ \A i \in Items : i \in Nat /\ i < new
           /\ Items' = Items \cup {new}
           /\ \A i \in Items : items'[i] = items[i] /\ deps'[i] = deps[i]
           /\ items'[new].status = "pending" /\ items'[new].claimed = 0 /\ items'[new].done = 0
           /\ deps'[new] = after
           /\ clock' = clock
<1> DEFINE row == [kind |-> kind, status |-> "pending", claimed |-> 0, done |-> 0]
<1>1. row \in Item
  BY DEF Item, Active
<1>2. items' = Append(items, row) /\ deps' = Append(deps, after) /\ clock' = clock
  BY DEF CreateWorkItem
<1>3. row.status = "pending" /\ row.claimed = 0 /\ row.done = 0
  OBVIOUS
<1> HIDE DEF row
<1> QED
  BY <1>1, <1>2, <1>3 DEF BuildTypeOK, Items

(* complete_work_item and fail_work_item end an active row at a later      *)
(* time, and touch no other.                                               *)
LEMMA EndEffect ==
    ASSUME BuildTypeOK, NEW k \in Items, NEW status \in {"complete", "failed"},
           EndWorkItem(k, status)
    PROVE  /\ items' \in Seq(Item) /\ deps' = deps /\ Len(items') = Len(items)
           /\ Items' = Items
           /\ clock' \in Nat /\ clock <= clock'
           /\ \A i \in Items : i # k => items'[i] = items[i]
           /\ items[k].status \notin Active => items' = items /\ clock' = clock
           /\ items[k].status \in Active =>
                 /\ items'[k].status = status
                 /\ items'[k].claimed = items[k].claimed
                 /\ items'[k].done = clock'
<1>1. items[k] \in Item
  BY DEF BuildTypeOK, Items
<1>2. CASE items[k].status \in Active
  <2>1. PICK r \in Item, t \in Nat : r = items[k] /\ t = clock + 1
    BY <1>1 DEF BuildTypeOK
  <2> DEFINE row == [r EXCEPT !.status = status, !.done = t]
  <2>2. items' = [items EXCEPT ![k] = row] /\ clock' = t /\ deps' = deps
    BY <1>2, <2>1 DEF EndWorkItem
  <2>3. row \in Item /\ row.status = status /\ row.claimed = r.claimed /\ row.done = t
    BY DEF Item
  <2> HIDE DEF row
  <2> QED
    BY <1>2, <2>1, <2>2, <2>3 DEF BuildTypeOK, Items
<1>3. CASE items[k].status \notin Active
  BY <1>3 DEF EndWorkItem, rowVars, BuildTypeOK, Items
<1> QED
  BY <1>2, <1>3

(* claim_next_work_item takes the oldest pending row.                      *)
LEMMA ClaimEffect ==
    ASSUME BuildTypeOK, NEW k \in NextPending, ClaimWorkItem(k)
    PROVE  /\ items' \in Seq(Item) /\ Len(items') = Len(items) /\ Items' = Items
           /\ deps' = deps /\ clock' = clock + 1
           /\ k \in Items /\ k \in Nat /\ items[k].status = "pending"
           /\ \A i \in Items : i # k => items'[i] = items[i]
           /\ items'[k].status = "claimed"
           /\ items'[k].claimed = clock + 1
           /\ items'[k].done = items[k].done
           /\ \A i \in Items : i < k => items[i].status # "pending"
<1>1. k \in Items /\ items[k].status = "pending" /\ k \in Nat
  BY DEF NextPending, Pending, Items, BuildTypeOK
<1>2. \A i \in Items : i < k => items[i].status # "pending"
  BY <1>1 DEF NextPending, Pending, Items, BuildTypeOK
<1>3. items[k] \in Item
  BY <1>1 DEF BuildTypeOK, Items
<1>4. PICK r \in Item, t \in Nat : r = items[k] /\ t = clock + 1
  BY <1>3 DEF BuildTypeOK
<1> DEFINE row == [r EXCEPT !.status = "claimed", !.claimed = t]
<1>5. items' = [items EXCEPT ![k] = row] /\ clock' = t /\ deps' = deps
  BY <1>4 DEF ClaimWorkItem
<1>6. row \in Item /\ row.status = "claimed" /\ row.claimed = t /\ row.done = r.done
  BY DEF Item, Active
<1> HIDE DEF row
<1> QED
  BY <1>1, <1>2, <1>4, <1>5, <1>6 DEF BuildTypeOK, Items

-----------------------------------------------------------------------------
(* The invariant is inductive: one lemma per operation                     *)

(* Nothing is queued, claimed or built at first.                           *)
LEMMA BuildInitInv == BuildInit => BuildInv
<1> SUFFICES ASSUME BuildInit PROVE BuildInv
  OBVIOUS
<1> USE DEF BuildInit, Idle, NoRequest, Items
<1>1. BuildTypeOK
  BY DEF BuildTypeOK, Dependencies
<1>2. AgentHoldsClaim /\ ClaimIsLatest /\ TakenInOrder /\ ClaimedIsHeld
  BY DEF AgentHoldsClaim, ClaimIsLatest, TakenInOrder, ClaimedIsHeld
<1>3. DependenciesQueuedFirst /\ BuildFollowsDependencies /\ CacheIsTrue
  BY DEF DependenciesQueuedFirst, BuildFollowsDependencies, CacheIsTrue, ReadyIsBuilt, FoundIsBuilt
<1> QED
  BY <1>1, <1>2, <1>3 DEF BuildInv, QueueInv

(* What is not about the rows or the agent keeps the queue.                *)
LEMMA QueueUntouched ==
    ASSUME BuildInv, UNCHANGED <<rowVars, agentVars>>,
           \A r \in Requests : warm'[r].deps \subseteq Items
    PROVE  QueueInv'
<1> USE DEF BuildInv, QueueInv, rowVars, agentVars, Items
<1>1. AgentHoldsClaim' /\ ClaimIsLatest' /\ TakenInOrder'
  BY DEF AgentHoldsClaim, ClaimIsLatest, TakenInOrder
<1>2. ClaimedIsHeld'
  BY DEF ClaimedIsHeld, BuildTypeOK
<1>3. DependenciesQueuedFirst'
  BY DEF DependenciesQueuedFirst
<1>4. BuildFollowsDependencies'
  BY DEF BuildFollowsDependencies, Ended, BuildTypeOK
<1> QED
  BY <1>1, <1>2, <1>3, <1>4

(* A request that has queued a new item.                                   *)
LEMMA QueueExtended ==
    ASSUME BuildInv, NEW kind \in Kinds, NEW after \in SUBSET Items,
           CreateWorkItem(kind, after),
           \A r \in Requests : warm'[r].deps \subseteq Items',
           UNCHANGED agentVars
    PROVE  QueueInv'
<1> USE DEF BuildInv, QueueInv, agentVars
<1> DEFINE new == Len(items) + 1
<1>0. after \in SUBSET Nat
  BY DEF Items, BuildTypeOK
<1>1. /\ new \in Nat /\ new \notin Items /\ \A i \in Items : i \in Nat /\ i < new
      /\ Items' = Items \cup {new}
      /\ \A i \in Items : items'[i] = items[i] /\ deps'[i] = deps[i]
      /\ items'[new].status = "pending" /\ items'[new].claimed = 0 /\ items'[new].done = 0
      /\ deps'[new] = after
      /\ clock' = clock
  BY <1>0, CreateEffect
<1> HIDE DEF new
<1>2. clock \in Nat /\ \A i \in Items : items[i] \in Item
  BY DEF BuildTypeOK, Items
<1>3. AgentHoldsClaim'
  BY <1>1 DEF AgentHoldsClaim
<1>4. ClaimIsLatest'
  BY <1>1, <1>2 DEF ClaimIsLatest, AgentHoldsClaim, Item
<1>5. TakenInOrder'
  BY <1>1 DEF TakenInOrder
<1>6. ClaimedIsHeld'
  BY <1>1 DEF ClaimedIsHeld
<1>7. DependenciesQueuedFirst'
  BY <1>1 DEF DependenciesQueuedFirst
<1>8. BuildFollowsDependencies'
  <2> SUFFICES ASSUME agent'.pc = "work", NEW d \in deps'[agent'.item]
               PROVE  Ended(d)' \/ d \in lost'
    BY DEF BuildFollowsDependencies
  <2>1. agent.pc = "work" /\ agent.item \in Items /\ d \in deps[agent.item] /\ d \in Items
    BY <1>1 DEF AgentHoldsClaim, DependenciesQueuedFirst
  <2> QED
    BY <1>1, <2>1 DEF BuildFollowsDependencies, Ended
<1> QED
  BY <1>3, <1>4, <1>5, <1>6, <1>7, <1>8

(* _ensure_build_host_dependency_work_item: an item it reuses is there, and *)
(* one it queues is behind all others.                                     *)
LEMMA EnsureDependencyInv ==
    ASSUME BuildInv, NEW r \in Requests, EnsureDependency(r)
    PROVE  BuildInv'
<1> USE DEF BuildInv
<1> DEFINE kind == warm[r].pc
           next == IF kind = "prereq" THEN "fetch" ELSE "build"
           Use(i) == warm' = [warm EXCEPT ![r].pc = next, ![r].deps = @ \cup {i}]
<1>1. kind \in Kinds /\ kind \in Dependencies /\ next \in {"fetch", "build"}
  BY DEF EnsureDependency, Kinds
<1>2. UNCHANGED <<entry, iso, files, agentVars, look, job>>
  BY DEF EnsureDependency, fileVars
<1>3. ASSUME NEW i \in Nat, Use(i)
      PROVE  /\ warm' \in [Requests -> [pc : Dependencies \cup {"build", "mark", "idle"},
                                        deps : SUBSET Nat, build : Nat \cup {None}]]
             /\ \A q \in Requests : warm'[q].deps \subseteq warm[q].deps \cup {i}
  <2>1. PICK n \in {"fetch", "build"}, w \in [pc : Dependencies \cup {"build", "mark", "idle"},
                                             deps : SUBSET Nat, build : Nat \cup {None}] :
           n = next /\ w = warm[r]
    BY <1>1 DEF BuildTypeOK
  <2> DEFINE row == [w EXCEPT !.pc = n, !.deps = @ \cup {i}]
  <2>2. warm' = [warm EXCEPT ![r] = row]
    BY <1>3, <2>1
  <2>3. /\ row \in [pc : Dependencies \cup {"build", "mark", "idle"},
                    deps : SUBSET Nat, build : Nat \cup {None}]
        /\ row.deps = w.deps \cup {i}
    BY DEF Dependencies
  <2> HIDE DEF row, next
  <2> QED
    BY <2>1, <2>2, <2>3 DEF BuildTypeOK
<1> HIDE DEF kind, next, Use
<1>4. ASSUME NEW fresh \in BOOLEAN, NEW i \in Reusable(kind, fresh), Use(i), UNCHANGED rowVars
      PROVE  BuildInv'
  <2>1. i \in Items /\ i \in Nat
    BY DEF Reusable, Items, BuildTypeOK
  <2>2. BuildTypeOK'
    BY <1>2, <1>3, <1>4, <2>1 DEF BuildTypeOK, rowVars, agentVars
  <2>3. \A q \in Requests : warm'[q].deps \subseteq Items
    BY <1>3, <1>4, <2>1 DEF QueueInv, DependenciesQueuedFirst
  <2>4. QueueInv'
    BY <1>2, <1>4, <2>3, QueueUntouched DEF BuildTypeOK
  <2> QED
    BY <1>2, <2>2, <2>4 DEF CacheIsTrue, ReadyIsBuilt, FoundIsBuilt
<1>5. ASSUME CreateWorkItem(kind, {}), Use(Len(items) + 1)
      PROVE  BuildInv'
  <2>1. /\ items' \in Seq(Item) /\ deps' \in Seq(SUBSET Nat) /\ Len(deps') = Len(items')
        /\ Len(items) + 1 \in Nat /\ Items' = Items \cup {Len(items) + 1}
        /\ clock' = clock
    BY <1>1, <1>5, CreateEffect
  <2>2. BuildTypeOK'
    BY <1>2, <1>3, <1>5, <2>1 DEF BuildTypeOK, agentVars
  <2>3. \A q \in Requests : warm'[q].deps \subseteq Items'
    BY <1>3, <1>5, <2>1 DEF QueueInv, DependenciesQueuedFirst
  <2>4. QueueInv'
    BY <1>1, <1>2, <1>5, <2>3, QueueExtended
  <2> QED
    BY <1>2, <2>2, <2>4 DEF CacheIsTrue, ReadyIsBuilt, FoundIsBuilt
<1>6. \E fresh \in BOOLEAN :
         \/ \E i \in Reusable(kind, fresh) : Use(i) /\ UNCHANGED rowVars
         \/ CreateWorkItem(kind, {}) /\ Use(Len(items) + 1)
  BY DEF EnsureDependency, kind, next, Use
<1> QED
  BY <1>4, <1>5, <1>6

(* The build is queued behind what its request has ensured.                *)
LEMMA QueueBuildInv ==
    ASSUME BuildInv, NEW r \in Requests, QueueBuild(r)
    PROVE  BuildInv'
<1> USE DEF BuildInv
<1>1. /\ CreateWorkItem("build", warm[r].deps)
      /\ warm' = [warm EXCEPT ![r].pc = "mark", ![r].build = Len(items) + 1]
      /\ UNCHANGED <<entry, iso, files, agentVars, look, job>>
  BY DEF QueueBuild, fileVars
<1>2. warm[r].deps \in SUBSET Items /\ warm[r].deps \in SUBSET Nat /\ "build" \in Kinds
  BY DEF BuildTypeOK, QueueInv, DependenciesQueuedFirst, Kinds
<1>3. /\ items' \in Seq(Item) /\ deps' \in Seq(SUBSET Nat) /\ Len(deps') = Len(items')
      /\ Len(items) + 1 \in Nat /\ Items' = Items \cup {Len(items) + 1}
      /\ clock' = clock
  BY <1>1, <1>2, CreateEffect
<1>4. /\ warm' \in [Requests -> [pc : Dependencies \cup {"build", "mark", "idle"},
                                 deps : SUBSET Nat, build : Nat \cup {None}]]
      /\ \A q \in Requests : warm'[q].deps = warm[q].deps
  <2> DEFINE Queuing == [pc : Dependencies \cup {"build", "mark", "idle"},
                         deps : SUBSET Nat, build : Nat \cup {None}]
  <2>1. PICK old \in Queuing, n \in Nat : old = warm[r] /\ n = Len(items) + 1
    BY <1>3 DEF BuildTypeOK
  <2> DEFINE row == [old EXCEPT !.pc = "mark", !.build = n]
  <2>2. row \in Queuing /\ row.deps = old.deps
    OBVIOUS
  <2>3. warm \in [Requests -> Queuing] /\ warm' = [warm EXCEPT ![r] = row]
    BY <1>1, <2>1 DEF BuildTypeOK
  <2> HIDE DEF row, Queuing
  <2>4. warm' \in [Requests -> Queuing] /\ \A q \in Requests : warm'[q].deps = warm[q].deps
    BY <2>1, <2>2, <2>3
  <2> QED
    BY <2>4 DEF Queuing
<1>5. BuildTypeOK'
  BY <1>1, <1>3, <1>4 DEF BuildTypeOK, agentVars
<1>6. \A q \in Requests : warm'[q].deps \subseteq Items'
  BY <1>3, <1>4 DEF QueueInv, DependenciesQueuedFirst
<1>7. QueueInv'
  BY <1>1, <1>2, <1>6, QueueExtended
<1> QED
  BY <1>1, <1>5, <1>7 DEF CacheIsTrue, ReadyIsBuilt, FoundIsBuilt

(* mark_build_dispatched leaves the queue alone.                           *)
LEMMA MarkBuildDispatchedInv ==
    ASSUME BuildInv, NEW r \in Requests, MarkBuildDispatched(r)
    PROVE  BuildInv'
<1> USE DEF BuildInv
<1>1. /\ entry' = [entry EXCEPT !.status = "warming", !.work = warm[r].build]
      /\ warm' = [warm EXCEPT ![r] = NoRequest]
      /\ UNCHANGED rowVars /\ UNCHANGED <<iso, files, agentVars, look, job>>
  BY DEF MarkBuildDispatched, fileVars
<1>2. BuildTypeOK' /\ entry'.status = "warming"
  <2>1. PICK b \in Nat \cup {None} : b = warm[r].build
    BY DEF BuildTypeOK
  <2>2. entry' \in [status : {"discovered", "warming", "ready", "failed", "missing"},
                    work : Nat \cup {None}, path : Nat \cup {None}]
    BY <1>1, <2>1 DEF BuildTypeOK
  <2> QED
    BY <1>1, <2>2 DEF BuildTypeOK, NoRequest, rowVars, agentVars
<1>3. \A q \in Requests : warm'[q].deps \subseteq Items
  BY <1>1 DEF BuildTypeOK, QueueInv, DependenciesQueuedFirst, NoRequest
<1>4. QueueInv'
  BY <1>1, <1>3, QueueUntouched DEF BuildTypeOK
<1> QED
  BY <1>1, <1>2, <1>4 DEF CacheIsTrue, ReadyIsBuilt, FoundIsBuilt

(* claim_next_work_item: the row it takes is the oldest pending one.  The  *)
(* agent has nothing else in hand, so that what the row depends on, all of *)
(* it queued before the row, has ended or was lost.                        *)
LEMMA ClaimInv ==
    ASSUME BuildInv, NEW k \in NextPending, ClaimWorkItem(k),
           \/ /\ agent.pc = "idle" /\ agent' = [pc |-> "work", item |-> k]
              /\ lost' = lost
           \/ agent' = agent /\ lost' = lost \cup {k},
           UNCHANGED <<entry, fileVars, late, warm, look, job>>
    PROVE  BuildInv'
<1> USE DEF BuildInv, QueueInv
<1>3. /\ items' \in Seq(Item) /\ Len(items') = Len(items) /\ Items' = Items
      /\ deps' = deps /\ clock' = clock + 1
      /\ k \in Items /\ k \in Nat /\ items[k].status = "pending"
      /\ \A i \in Items : i # k => items'[i] = items[i]
      /\ items'[k].status = "claimed"
      /\ items'[k].claimed = clock + 1
      /\ items'[k].done = items[k].done
      /\ \A i \in Items : i < k => items[i].status # "pending"
  BY ClaimEffect
<1>4. /\ clock \in Nat
      /\ \A i \in Items : i \in Nat /\ items[i] \in Item /\ items'[i] \in Item
  BY <1>3 DEF BuildTypeOK, Items
<1>5. \/ agent.pc = "idle" /\ agent'.pc = "work" /\ agent'.item = k /\ lost' = lost
      \/ agent' = agent /\ lost' = lost \cup {k}
  OBVIOUS
<1>6. BuildTypeOK'
  BY <1>3, <1>4 DEF BuildTypeOK, fileVars
<1>7. AgentHoldsClaim'
  BY <1>3, <1>5 DEF AgentHoldsClaim
<1>8. ClaimIsLatest'
  <2>0. \A i \in Items : items[i].claimed \in Nat /\ items[i].done \in Nat
    BY <1>4 DEF Item
  <2>1. \A i \in Items : items'[i].claimed <= clock + 1 /\ items'[i].done = items[i].done
    BY <1>3, <1>4, <2>0 DEF ClaimIsLatest
  <2>2. \A i \in Items : items'[i].done <= clock + 1
    BY <1>4, <2>0, <2>1 DEF ClaimIsLatest
  <2>3. \A i \in Items' : items'[i].claimed <= clock' /\ items'[i].done <= clock'
    BY <1>3, <2>1, <2>2
  <2>4. CASE agent.pc = "idle" /\ agent'.pc = "work" /\ agent'.item = k /\ lost' = lost
    BY <1>3, <2>2, <2>3, <2>4 DEF ClaimIsLatest
  <2>5. CASE agent' = agent /\ lost' = lost \cup {k}
    <3>1. agent.pc # "idle" => agent.item \in Items /\ agent.item # k
      BY <1>3 DEF AgentHoldsClaim
    <3> QED
      BY <1>3, <2>1, <2>3, <2>5, <3>1 DEF ClaimIsLatest
  <2> QED
    BY <1>5, <2>4, <2>5
<1>9. TakenInOrder'
  BY <1>3, <1>4 DEF TakenInOrder
<1>10. ClaimedIsHeld'
  BY <1>3, <1>5 DEF ClaimedIsHeld
<1>11. DependenciesQueuedFirst'
  BY <1>3 DEF DependenciesQueuedFirst
<1>12. BuildFollowsDependencies'
  <2> SUFFICES ASSUME agent'.pc = "work", NEW d \in deps'[agent'.item]
               PROVE  Ended(d)' \/ d \in lost'
    BY DEF BuildFollowsDependencies
  <2>1. CASE agent.pc = "idle" /\ agent'.item = k /\ lost' = lost
    <3>1. d \in Items /\ d < k
      BY <1>3, <2>1 DEF DependenciesQueuedFirst
    <3>2. items[d].status # "pending" /\ (items[d].status = "claimed" => d \in lost)
      BY <1>3, <2>1, <3>1 DEF ClaimedIsHeld
    <3>3. d # k /\ items'[d] = items[d] /\ items[d].status \in Active \cup {"complete", "failed"}
      BY <1>3, <1>4, <3>1 DEF Item
    <3> QED
      BY <2>1, <3>2, <3>3 DEF Ended, Active
  <2>2. CASE agent' = agent /\ lost' = lost \cup {k}
    <3>1. agent.item \in Items /\ d \in deps[agent.item] /\ d \in Items
      BY <1>3, <2>2 DEF AgentHoldsClaim, DependenciesQueuedFirst
    <3>2. Ended(d) \/ d \in lost
      BY <2>2, <3>1 DEF BuildFollowsDependencies
    <3> QED
      BY <1>3, <2>2, <3>1, <3>2 DEF Ended
  <2> QED
    BY <1>5, <2>1, <2>2
<1> QED
  BY <1>6, <1>7, <1>8, <1>9, <1>10, <1>11, <1>12 DEF CacheIsTrue, ReadyIsBuilt, FoundIsBuilt, fileVars

(* What the agent built is uploaded; the rows stay as they are.            *)
LEMMA WorkInv ==
    ASSUME BuildInv, Work
    PROVE  BuildInv'
<1> USE DEF BuildInv, QueueInv
<1>1. PICK ok \in BOOLEAN, uploaded \in BOOLEAN :
         /\ agent' = [agent EXCEPT !.pc = IF ok THEN "complete" ELSE "fail"]
         /\ iso' = IF uploaded THEN iso \cup {agent.item} ELSE iso
         /\ files' = IF uploaded THEN files \cup {agent.item} ELSE files
  BY DEF Work
<1>2. agent.pc = "work" /\ UNCHANGED <<rowVars, entry, late, lost, warm, look, job>>
  BY DEF Work
<1>3. agent.item \in Items /\ items[agent.item].status # "pending" /\ agent.item \in Nat
  BY <1>2 DEF AgentHoldsClaim, Items, BuildTypeOK
<1>4. agent' \in [pc : {"complete", "fail"}, item : Nat] /\ agent'.item = agent.item
  BY <1>1, <1>3 DEF BuildTypeOK
<1>5. BuildTypeOK'
  BY <1>1, <1>2, <1>3, <1>4 DEF BuildTypeOK, rowVars
<1>6. AgentHoldsClaim' /\ ClaimIsLatest' /\ TakenInOrder' /\ ClaimedIsHeld'
  BY <1>2, <1>3, <1>4
     DEF AgentHoldsClaim, ClaimIsLatest, TakenInOrder, ClaimedIsHeld, rowVars, Items
<1>7. DependenciesQueuedFirst' /\ BuildFollowsDependencies'
  BY <1>2, <1>4 DEF DependenciesQueuedFirst, BuildFollowsDependencies, rowVars, Items
<1>8. CacheIsTrue'
  BY <1>1, <1>2 DEF CacheIsTrue, ReadyIsBuilt, FoundIsBuilt
<1> QED
  BY <1>5, <1>6, <1>7, <1>8

(* A report about an item k that was claimed, served now or not: by the    *)
(* agent that holds it, which lets go of it or goes on to report a failure *)
(* because it does not know, or long after the agent has given up.         *)
LEMMA ReportInv ==
    ASSUME BuildInv, NEW k \in Items, items[k].status # "pending",
           NEW status \in {"complete", "failed"},
           EndWorkItem(k, status) \/ UNCHANGED rowVars,
           \/ agent' = agent
           \/ agent' = [agent EXCEPT !.pc = "fail"] /\ agent.pc # "idle"
           \/ agent' = Idle /\ (agent.item \in lost' \/ (agent.item = k /\ EndWorkItem(k, status))),
           k \in lost' \/ agent' = Idle,
           lost \subseteq lost', lost' \subseteq lost \cup {k},
           late' \subseteq late \cup {[item |-> k, status |-> status]},
           late' \subseteq late \/ k \in lost',
           UNCHANGED <<entry, fileVars, warm, look, job>>
    PROVE  BuildInv'
<1> USE DEF BuildInv, QueueInv
<1>1. k \in Nat
  BY DEF Items, BuildTypeOK
<1>2. /\ items' \in Seq(Item) /\ deps' = deps /\ Len(items') = Len(items)
      /\ Items' = Items
      /\ clock' \in Nat /\ clock <= clock'
      /\ \A i \in Items : i # k => items'[i] = items[i]
      /\ \/ /\ items' = items /\ clock' = clock
            /\ (EndWorkItem(k, status) => items[k].status \notin Active)
         \/ /\ items[k].status \in Active
            /\ items'[k].status = status
            /\ items'[k].claimed = items[k].claimed
            /\ items'[k].done = clock'
  <2>1. CASE EndWorkItem(k, status)
    BY <2>1, EndEffect
  <2>2. CASE UNCHANGED rowVars /\ ~EndWorkItem(k, status)
    BY <2>2 DEF rowVars, BuildTypeOK, Items
  <2> QED
    BY <2>1, <2>2
<1>3. /\ clock \in Nat
      /\ \A i \in Items : i \in Nat /\ items[i] \in Item /\ items'[i] \in Item
  BY <1>2 DEF BuildTypeOK, Items
<1>4. /\ agent' \in [pc : {"idle", "work", "complete", "fail"}, item : Nat \cup {None}]
      /\ \/ agent'.pc = "idle" /\ agent'.item = None
            /\ \/ agent.pc = "idle" \/ agent.item \in lost'
               \/ agent.item = k /\ EndWorkItem(k, status)
         \/ agent.pc # "idle" /\ agent'.pc # "idle" /\ agent'.item = agent.item /\ k \in lost'
            /\ (agent'.pc = "work" => agent.pc = "work")
  <2>1. CASE agent' = agent
    BY <2>1 DEF AgentHoldsClaim, BuildTypeOK, Idle
  <2>2. CASE agent' = [agent EXCEPT !.pc = "fail"] /\ agent.pc # "idle"
    BY <2>2 DEF BuildTypeOK, Idle
  <2>3. CASE agent' = Idle /\ (agent.item \in lost' \/ (agent.item = k /\ EndWorkItem(k, status)))
    BY <2>3 DEF BuildTypeOK, Idle
  <2> QED
    BY <2>1, <2>2, <2>3
<1>5. BuildTypeOK'
  BY <1>1, <1>2, <1>4 DEF BuildTypeOK, fileVars
<1>6. AgentHoldsClaim'
  <2>1. \A i \in Items : items[i].status # "pending" => items'[i].status # "pending"
    BY <1>2
  <2>2. agent'.pc # "idle" => agent'.item \in Items /\ items[agent'.item].status # "pending"
    BY <1>4 DEF AgentHoldsClaim
  <2>3. \A report \in late' : /\ report.item \in Items /\ items[report.item].status # "pending"
                              /\ report.item \in lost'
    BY DEF AgentHoldsClaim
  <2> QED
    BY <1>2, <1>4, <2>1, <2>2, <2>3 DEF AgentHoldsClaim
<1>7. ClaimIsLatest'
  <2>0. \A i \in Items : items[i].claimed \in Nat /\ items[i].done \in Nat
    BY <1>3 DEF Item
  <2>1. \A i \in Items : items'[i].claimed <= clock' /\ items'[i].done <= clock'
    BY <1>2, <1>3, <2>0 DEF ClaimIsLatest
  <2>2. ASSUME agent'.pc # "idle", items'[agent'.item].status = "claimed"
        PROVE  /\ agent.pc # "idle" /\ agent'.item = agent.item /\ k \in lost'
               /\ agent.item \in Items /\ items'[agent.item] = items[agent.item]
    <3>1. agent.pc # "idle" /\ agent'.item = agent.item /\ k \in lost' /\ agent.item \in Items
      BY <1>4, <2>2 DEF AgentHoldsClaim
    <3> QED
      BY <1>2, <2>2, <3>1
  <2>3. ASSUME agent'.pc # "idle", items'[agent'.item].status = "claimed", NEW j \in Items
        PROVE  items'[j].done <= items'[agent'.item].claimed \/ j \in lost'
    <3>1. items[j].done <= items[agent.item].claimed \/ j \in lost
      BY <2>2, <2>3 DEF ClaimIsLatest
    <3> QED
      BY <1>2, <2>2, <2>3, <3>1
  <2> QED
    BY <1>2, <2>1, <2>3 DEF ClaimIsLatest
<1>8. TakenInOrder'
  BY <1>2, <1>3 DEF TakenInOrder
<1>9. ClaimedIsHeld'
  <2> SUFFICES ASSUME NEW i \in Items, items'[i].status = "claimed"
               PROVE  (agent'.pc # "idle" /\ agent'.item = i) \/ i \in lost'
    BY <1>2 DEF ClaimedIsHeld
  <2>1. items[i].status = "claimed" /\ ~(i = k /\ EndWorkItem(k, status))
    BY <1>2 DEF Active
  <2>2. (agent.pc # "idle" /\ agent.item = i) \/ i \in lost
    BY <2>1 DEF ClaimedIsHeld
  <2> QED
    BY <1>4, <2>1, <2>2 DEF Idle
<1>10. DependenciesQueuedFirst'
  BY <1>2 DEF DependenciesQueuedFirst
<1>11. BuildFollowsDependencies'
  <2> SUFFICES ASSUME agent'.pc = "work", NEW d \in deps'[agent'.item]
               PROVE  Ended(d)' \/ d \in lost'
    BY DEF BuildFollowsDependencies
  <2>1. agent.pc = "work" /\ agent'.item = agent.item /\ agent.item \in Items
    BY <1>4 DEF AgentHoldsClaim
  <2>2. d \in Items /\ (Ended(d) \/ d \in lost)
    BY <1>2, <2>1 DEF BuildFollowsDependencies, DependenciesQueuedFirst
  <2> QED
    BY <1>2, <2>2 DEF Ended
<1> QED
  BY <1>5, <1>6, <1>7, <1>8, <1>9, <1>10, <1>11 DEF CacheIsTrue, ReadyIsBuilt, FoundIsBuilt, fileVars

(* What the agent holds is an item, and not a pending one.                 *)
LEMMA AgentHoldsItem ==
    ASSUME BuildInv, agent.pc # "idle"
    PROVE  agent.item \in Items /\ items[agent.item].status # "pending"
<1> QED
  BY DEF BuildInv, QueueInv, AgentHoldsClaim

(* POST /work/{id}/complete and /fail, with their answers or without.      *)
LEMMA AgentReportInv ==
    ASSUME BuildInv, CompleteWork \/ FailWork
    PROVE  BuildInv'
<1>1. CASE CompleteWork
  <2>1. /\ agent.pc # "idle" /\ agent.item \in Items /\ items[agent.item].status # "pending"
        /\ UNCHANGED <<entry, fileVars, warm, look, job>>
    BY <1>1, AgentHoldsItem DEF CompleteWork
  <2>2. CASE EndWorkItem(agent.item, "complete") /\ agent' = Idle /\ UNCHANGED <<late, lost>>
    BY <2>1, <2>2, ReportInv
  <2>3. CASE GiveUp("complete") /\ agent' = [agent EXCEPT !.pc = "fail"]
    BY <2>1, <2>3, ReportInv DEF GiveUp
  <2> QED
    BY <1>1, <2>2, <2>3 DEF CompleteWork
<1>2. CASE FailWork
  <2>1. /\ agent.pc # "idle" /\ agent.item \in Items /\ items[agent.item].status # "pending"
        /\ agent' = Idle /\ UNCHANGED <<entry, fileVars, warm, look, job>>
    BY <1>2, AgentHoldsItem DEF FailWork
  <2>2. CASE EndWorkItem(agent.item, "failed") /\ UNCHANGED <<late, lost>>
    BY <2>1, <2>2, ReportInv
  <2>3. CASE GiveUp("failed")
    BY <2>1, <2>3, ReportInv DEF GiveUp
  <2> QED
    BY <1>2, <2>2, <2>3 DEF FailWork
<1> QED
  BY <1>1, <1>2

(* A report served late is about an item the agent has lost.               *)
LEMMA ServeLateReportInv ==
    ASSUME BuildInv, ServeLateReport
    PROVE  BuildInv'
<1>1. PICK report \in late : EndWorkItem(report.item, report.status) /\ late' = late \ {report}
  BY DEF ServeLateReport
<1>2. /\ report.item \in Items /\ items[report.item].status # "pending" /\ report.item \in lost
      /\ report.status \in {"complete", "failed"}
  BY DEF BuildInv, BuildTypeOK, QueueInv, AgentHoldsClaim
<1>3. agent' = agent /\ lost' = lost /\ UNCHANGED <<entry, fileVars, warm, look, job>>
  BY DEF ServeLateReport
<1> QED
  BY <1>1, <1>2, <1>3, ReportInv

(* A restart forgets the item, whatever the agent was doing with it.       *)
LEMMA AgentCrashesInv ==
    ASSUME BuildInv, AgentCrashes
    PROVE  BuildInv'
<1>1. /\ agent.item \in Items /\ items[agent.item].status # "pending"
      /\ agent' = Idle /\ late' = late /\ lost' = lost \cup {agent.item}
      /\ UNCHANGED rowVars /\ UNCHANGED <<entry, fileVars, warm, look, job>>
  BY AgentHoldsItem DEF AgentCrashes
<1>2. "failed" \in {"complete", "failed"}
  OBVIOUS
<1> QED
  BY <1>1, <1>2, ReportInv

(* Whatever works on the cache entry and its files only: a ready entry     *)
(* must still name an uploaded ISO.                                        *)
LEMMA CacheInv ==
    ASSUME BuildInv, UNCHANGED rowVars, UNCHANGED agentVars, UNCHANGED <<warm, iso>>,
           entry' \in [status : {"discovered", "warming", "ready", "failed", "missing"},
                       work : Nat \cup {None}, path : Nat \cup {None}],
           look' \in [Viewers -> [pc : {"idle", "look", "found"}, item : Nat \cup {None}]],
           job' \in [pc : {"idle", "verify", "delete"}, item : Nat \cup {None}],
           files' \in SUBSET files,
           entry'.status = "ready" => entry'.path \in iso,
           \A v \in Viewers : look'[v].pc = "found" => look'[v].item \in iso
    PROVE  BuildInv'
<1> USE DEF BuildInv
<1>1. BuildTypeOK'
  BY DEF BuildTypeOK, rowVars, agentVars
<1>2. QueueInv'
  BY QueueUntouched DEF QueueInv, DependenciesQueuedFirst
<1> QED
  BY <1>1, <1>2 DEF CacheIsTrue, ReadyIsBuilt, FoundIsBuilt

(* _finalize_warming_cache_builds: what it makes ready it has found.       *)
LEMMA LookInv ==
    ASSUME BuildInv, NEW v \in Viewers, Look(v)
    PROVE  BuildInv'
<1> USE DEF BuildInv, CacheIsTrue
<1> DEFINE Looking == [pc : {"idle", "look", "found"}, item : Nat \cup {None}]
<1>1. /\ look \in [Viewers -> Looking] /\ look[v] \in Looking
      /\ entry \in [status : {"discovered", "warming", "ready", "failed", "missing"},
                    work : Nat \cup {None}, path : Nat \cup {None}]
      /\ job \in [pc : {"idle", "verify", "delete"}, item : Nat \cup {None}]
  BY DEF BuildTypeOK
<1>2. UNCHANGED rowVars /\ UNCHANGED agentVars /\ UNCHANGED <<warm, iso, files, job>>
  BY DEF Look, ReadWarmingEntry, FindArtifact, FinalizeFromBuild, MarkBuildFailed, fileVars
<1>3. ASSUME NEW seen \in Looking, look' = [look EXCEPT ![v] = seen],
             seen.pc = "found" => seen.item \in iso
      PROVE  /\ look' \in [Viewers -> Looking]
             /\ \A w \in Viewers : look'[w].pc = "found" => look'[w].item \in iso
  BY <1>1, <1>3 DEF FoundIsBuilt
<1>4. CASE ReadWarmingEntry(v)
  <2>1. PICK seen \in Looking : /\ seen.pc = "look"
                                /\ look' = [look EXCEPT ![v] = seen] /\ entry' = entry
    BY <1>1, <1>4 DEF ReadWarmingEntry
  <2> QED
    BY <1>1, <1>2, <1>3, <2>1, CacheInv DEF ReadyIsBuilt
<1>5. CASE FindArtifact(v)
  <2>1. look[v].item \in iso
    BY <1>5 DEF FindArtifact, Built, BuildTypeOK
  <2>2. PICK seen \in Looking : /\ seen.item \in iso
                                /\ look' = [look EXCEPT ![v] = seen] /\ entry' = entry
    <3>1. PICK old \in Looking : old = look[v]
      BY <1>1
    <3>2. [old EXCEPT !.pc = "found"] \in Looking /\ [old EXCEPT !.pc = "found"].item = old.item
      OBVIOUS
    <3> QED
      BY <1>5, <2>1, <3>1, <3>2 DEF FindArtifact
  <2> QED
    BY <1>1, <1>2, <1>3, <2>2, CacheInv DEF ReadyIsBuilt
<1>6. Idle \in Looking /\ Idle.pc = "idle"
  BY DEF Idle
<1>7. CASE FinalizeFromBuild(v)
  <2>1. PICK i \in iso : i = look[v].item /\ i \in Nat
    BY <1>7 DEF FinalizeFromBuild, FoundIsBuilt, BuildTypeOK
  <2>2. entry' = [entry EXCEPT !.status = "ready", !.path = i] /\ look' = [look EXCEPT ![v] = Idle]
    BY <1>7, <2>1 DEF FinalizeFromBuild
  <2>3. /\ entry' \in [status : {"discovered", "warming", "ready", "failed", "missing"},
                       work : Nat \cup {None}, path : Nat \cup {None}]
        /\ entry'.path \in iso
    BY <1>1, <2>1, <2>2
  <2> QED
    BY <1>1, <1>2, <1>3, <1>6, <2>2, <2>3, CacheInv
<1>8. CASE MarkBuildFailed(v)
  <2>1. /\ entry' = entry \/ entry' = [entry EXCEPT !.status = "failed"]
        /\ look' = [look EXCEPT ![v] = Idle]
    BY <1>8 DEF MarkBuildFailed
  <2>2. /\ entry' \in [status : {"discovered", "warming", "ready", "failed", "missing"},
                       work : Nat \cup {None}, path : Nat \cup {None}]
        /\ entry'.status = "ready" => entry'.path \in iso
    BY <1>1, <2>1 DEF ReadyIsBuilt
  <2> QED
    BY <1>1, <1>2, <1>3, <1>6, <2>1, <2>2, CacheInv
<1> QED
  BY <1>4, <1>5, <1>7, <1>8 DEF Look

(* The catalog refresh, and the verify and delete jobs.                    *)
LEMMA CacheJobsInv ==
    ASSUME BuildInv,
           \/ RefreshCatalog \/ VerifyEntry \/ DeleteEntryFile
           \/ \E op \in {"verify", "delete"} : StartCacheJob(op)
    PROVE  BuildInv'
<1> USE DEF BuildInv, CacheIsTrue
<1>1. /\ look \in [Viewers -> [pc : {"idle", "look", "found"}, item : Nat \cup {None}]]
      /\ entry \in [status : {"discovered", "warming", "ready", "failed", "missing"},
                    work : Nat \cup {None}, path : Nat \cup {None}]
      /\ job \in [pc : {"idle", "verify", "delete"}, item : Nat \cup {None}]
      /\ files \in SUBSET iso /\ iso \in SUBSET Nat
      /\ \A v \in Viewers : look[v].pc = "found" => look[v].item \in iso
  BY DEF BuildTypeOK, FoundIsBuilt
<1>2. CASE RefreshCatalog
  BY <1>1, <1>2, CacheInv DEF RefreshCatalog, fileVars
<1>3. CASE VerifyEntry
  <2>1. /\ \/ job.item \in files /\ entry' = [entry EXCEPT !.status = "ready", !.path = job.item]
           \/ entry' = [entry EXCEPT !.status = "missing"]
        /\ job' = Idle /\ UNCHANGED rowVars /\ UNCHANGED agentVars
        /\ UNCHANGED <<iso, files, warm, look>>
    BY <1>3 DEF VerifyEntry, fileVars
  <2>2. /\ entry' \in [status : {"discovered", "warming", "ready", "failed", "missing"},
                       work : Nat \cup {None}, path : Nat \cup {None}]
        /\ entry'.status = "ready" => entry'.path \in iso
    BY <1>1, <2>1
  <2> QED
    BY <1>1, <2>1, <2>2, CacheInv DEF Idle
<1>4. CASE DeleteEntryFile
  BY <1>1, <1>4, CacheInv DEF DeleteEntryFile, Idle
<1>5. ASSUME NEW op \in {"verify", "delete"}, StartCacheJob(op) PROVE BuildInv'
  BY <1>1, <1>5, CacheInv DEF StartCacheJob, ReadyIsBuilt, fileVars
<1> QED
  BY <1>2, <1>3, <1>4, <1>5

(* No operation breaks the invariant.                                      *)
LEMMA BuildStepInv == BuildInv /\ [BuildNext]_buildVars => BuildInv'
<1> SUFFICES ASSUME BuildInv, [BuildNext]_buildVars PROVE BuildInv'
  OBVIOUS
<1>1. CASE \E r \in Requests : EnsureDependency(r) \/ QueueBuild(r) \/ MarkBuildDispatched(r)
  BY <1>1, EnsureDependencyInv, QueueBuildInv, MarkBuildDispatchedInv
<1>2. CASE Agent \/ ClaimUnheard \/ ServeLateReport \/ AgentCrashes
  <2>1. CASE ClaimNextWorkItem
    BY <2>1, ClaimInv DEF ClaimNextWorkItem
  <2>2. CASE ClaimUnheard
    BY <2>2, ClaimInv DEF ClaimUnheard
  <2> QED
    BY <1>2, <2>1, <2>2, WorkInv, AgentReportInv, ServeLateReportInv, AgentCrashesInv DEF Agent
<1>3. CASE \E v \in Viewers : Look(v)
  BY <1>3, LookInv
<1>4. CASE \/ RefreshCatalog \/ VerifyEntry \/ DeleteEntryFile
           \/ \E op \in {"verify", "delete"} : StartCacheJob(op)
  BY <1>4, CacheJobsInv
<1>5. CASE UNCHANGED buildVars
  <2>1. UNCHANGED rowVars /\ UNCHANGED agentVars /\ UNCHANGED <<warm, iso, files, entry, look, job>>
    BY <1>5 DEF buildVars, fileVars
  <2> QED
    BY <2>1, CacheInv DEF BuildInv, BuildTypeOK, CacheIsTrue, ReadyIsBuilt, FoundIsBuilt
<1> QED
  BY <1>1, <1>2, <1>3, <1>4, <1>5 DEF BuildNext

-----------------------------------------------------------------------------
(* The theorems                                                            *)

(* The rows, the entry and what the agent, the requests and the jobs hold  *)
(* stay of their types, and the invariant holds.                           *)
THEOREM BuildInvariant == BuildSpec => []BuildInv
<1> QED
  BY BuildInitInv, BuildStepInv, PTL DEF BuildSpec

(* claim_next_work_item starts no build before what it was queued behind   *)
(* has ended, or the agent has lost it, however many requests share it.    *)
THEOREM BuildsFollowDependencies == BuildSpec => []BuildFollowsDependencies
<1>1. BuildInv => BuildFollowsDependencies
  BY DEF BuildInv, QueueInv
<1> QED
  BY <1>1, BuildInvariant, PTL

(* The health page's rule for lost work hits the item in progress only on  *)
(* account of items that the agent had lost itself.                        *)
THEOREM SupersededWorkIsLost == BuildSpec => []SupersededIsLost
<1>1. BuildInv => SupersededIsLost
  <2> SUFFICES ASSUME BuildInv, NEW i \in Items, agent.item = i,
                      NEW j \in SupersededByLaterTerminalWork(i)
               PROVE  j \in lost
    BY DEF SupersededIsLost
  <2>1. j \in Items /\ items[j].done > items[i].claimed /\ items[i].status = "claimed"
    BY DEF SupersededByLaterTerminalWork
  <2>2. agent.pc # "idle"
    BY BuildAssumption DEF BuildInv, BuildTypeOK, QueueInv, AgentHoldsClaim, Items
  <2>3. items[j].done <= items[i].claimed \/ j \in lost
    BY <2>1, <2>2 DEF BuildInv, QueueInv, ClaimIsLatest
  <2>4. items[j] \in Item /\ items[i] \in Item
    BY <2>1 DEF BuildInv, BuildTypeOK, Items
  <2> QED
    BY <2>1, <2>3, <2>4 DEF Item
<1> QED
  BY <1>1, BuildInvariant, PTL

(* Verify jobs, refreshes, deletions and late looks at the page never make *)
(* an entry ready whose ISO was not uploaded.                              *)
THEOREM ReadyEntriesAreBuilt == BuildSpec => []ReadyIsBuilt
<1>1. BuildInv => ReadyIsBuilt
  BY DEF BuildInv, CacheIsTrue
<1> QED
  BY <1>1, BuildInvariant, PTL

(* complete_work_item and fail_work_item: no step changes how an item has  *)
(* ended.                                                                  *)
THEOREM EndsAreFinal == BuildSpec => EndIsFinal
<1>1. ASSUME BuildInv, BuildNext, NEW i \in Items, Ended(i)
      PROVE  items'[i].status = items[i].status
  <2> USE <1>1 DEF BuildInv
  <2>1. CASE items' = items
    BY <2>1
  <2>2. ASSUME NEW kind \in Kinds, NEW after \in SUBSET Nat, CreateWorkItem(kind, after)
        PROVE  items'[i] = items[i]
    BY <2>2, CreateEffect
  <2>3. ASSUME NEW r \in Requests, EnsureDependency(r) PROVE items'[i].status = items[i].status
    <3>1. warm[r].pc \in Kinds
      BY <2>3 DEF EnsureDependency, Kinds
    <3>2. items' = items \/ CreateWorkItem(warm[r].pc, {})
      BY <2>3 DEF EnsureDependency, rowVars
    <3> QED
      BY <2>2, <3>1, <3>2
  <2>4. ASSUME NEW r \in Requests, QueueBuild(r) PROVE items'[i].status = items[i].status
    BY <2>2, <2>4 DEF QueueBuild, Kinds, BuildTypeOK
  <2>5. CASE ClaimNextWorkItem \/ ClaimUnheard
    <3>1. PICK k \in NextPending : ClaimWorkItem(k)
      BY <2>5 DEF ClaimNextWorkItem, ClaimUnheard
    <3>2. items[k].status = "pending" /\ (i # k => items'[i] = items[i])
      BY <3>1, ClaimEffect
    <3> QED
      BY <3>2 DEF Ended
  <2>6. CASE CompleteWork \/ FailWork \/ ServeLateReport
    <3>1. ASSUME NEW k \in Items, NEW status \in {"complete", "failed"}, EndWorkItem(k, status)
          PROVE  items'[i].status = items[i].status
      BY <3>1, EndEffect DEF Ended, Active
    <3>2. CASE CompleteWork \/ FailWork
      <4>1. agent.item \in Items
        BY <3>2, AgentHoldsItem DEF CompleteWork, FailWork
      <4>2. \/ items' = items
            \/ \E status \in {"complete", "failed"} : EndWorkItem(agent.item, status)
        BY <3>2 DEF CompleteWork, FailWork, GiveUp, rowVars
      <4> QED
        BY <3>1, <4>1, <4>2
    <3>3. CASE ServeLateReport
      <4>1. PICK report \in late : EndWorkItem(report.item, report.status)
        BY <3>3 DEF ServeLateReport
      <4>2. report.item \in Items /\ report.status \in {"complete", "failed"}
        BY DEF BuildTypeOK, QueueInv, AgentHoldsClaim
      <4> QED
        BY <3>1, <4>1, <4>2
    <3> QED
      BY <2>6, <3>2, <3>3
  <2>7. CASE items' # items
    <3>1. \/ \E r \in Requests : EnsureDependency(r) \/ QueueBuild(r)
          \/ ClaimNextWorkItem \/ ClaimUnheard \/ CompleteWork \/ FailWork \/ ServeLateReport
      BY <2>7
         DEF BuildNext, Agent, Look, MarkBuildDispatched, Work, AgentCrashes, ReadWarmingEntry,
             FindArtifact, FinalizeFromBuild, MarkBuildFailed, RefreshCatalog,
             VerifyEntry, DeleteEntryFile, StartCacheJob, rowVars
    <3> QED
      BY <2>3, <2>4, <2>5, <2>6, <3>1
  <2> QED
    BY <2>1, <2>7
<1>2. BuildInv /\ [BuildNext]_buildVars
         => [\A i \in Items : Ended(i) => items'[i].status = items[i].status]_buildVars
  BY <1>1
<1> QED
  BY <1>2, BuildInvariant, PTL DEF BuildSpec, EndIsFinal

=============================================================================
