------------------------ MODULE SequenceAuthoringProofs ------------------------
(***************************************************************************)
(* Proofs about SequenceAuthoring, for any number of connections and of    *)
(* requests and for any trees the builder draws.                           *)
(***************************************************************************)
EXTENDS SequenceAuthoring, FiniteSetTheorems, WellFoundedInduction, TLAPS

(* The builder draws no tree whose first node is inside itself.            *)
DrawnFromRoot ==
    \A body \in Bodies :
        1 \in DOMAIN body.nodes => body.nodes[1].client_id # body.nodes[1].parent_id

-----------------------------------------------------------------------------
(* The inductive invariant                                                 *)

PCs == {"idle", "replace", "delete", "insert", "load", "number", "max", "version", "run"}

(* The nodes a tree has from the builder, and the first one of their save. *)
Saved(t) == {k \in DOMAIN t : k[2] > 0}

First(k) == <<k[1], 1>>

Saving(c) == pc[c] \in {"replace", "delete", "insert"}

OneSave(t) == \A i, j \in Saved(t) : i[1] = j[1]

LocalTypeOK ==
    /\ requests \in Nat
    /\ DOMAIN nodes \in SUBSET (Nat \X Nat)
    /\ pc \in [Clients -> PCs]
    /\ snap \in [Clients -> SUBSET (Nat \X Nat)]
    /\ DOMAIN work = Clients /\ DOMAIN tree = Clients

(* Ids are those of requests that have begun.                              *)
IdsAreOld ==
    /\ \A k \in DOMAIN nodes : k[1] <= requests
    /\ \A c \in Clients : \A k \in snap[c] : k[1] <= requests

(* Nothing is known yet of the ids a save is going to use.                 *)
SavesAreFresh ==
    \A c \in Clients : Saving(c) =>
        /\ work[c].id \in Nat /\ work[c].id <= requests
        /\ \E body \in Bodies : work[c].nodes = body.nodes
        /\ \A k \in DOMAIN nodes : k[1] # work[c].id
        /\ \A d \in Clients : \A k \in snap[d] : k[1] # work[c].id
        /\ \A d \in Clients \ {c} : Saving(d) => work[d].id # work[c].id

(* A save comes with its first node, which is the first of the roots ...   *)
DraftIsWhole ==
    \A k \in Saved(nodes) :
        /\ First(k) \in DOMAIN nodes
        /\ nodes[First(k)].parent_id = None
        /\ nodes[First(k)].position = 0

(* ... and a DELETE saw all of it or nothing.                              *)
SnapIsWhole ==
    \A c \in Clients : \A k \in Saved(nodes) : k \in snap[c] <=> First(k) \in snap[c]

(* The draft, what is being compiled and what was compiled.                *)
TreesAreOneSave ==
    /\ OneSave(nodes)
    /\ \A c \in Clients : OneSave(tree[c])
    /\ \A v \in versions : OneSave(v.tree)

NumbersAreUnique == \A v, w \in versions : v.version = w.version => v = w

DraftInv == LocalTypeOK /\ IdsAreOld /\ SavesAreFresh /\ DraftIsWhole /\ SnapIsWhole

AuthoringInv == DraftInv /\ TreesAreOneSave /\ NumbersAreUnique

(* The draft is empty at first and no request has begun.                   *)
LEMMA AuthoringInvInit == AuthoringInit => AuthoringInv
<1> SUFFICES ASSUME AuthoringInit PROVE AuthoringInv
  OBVIOUS
<1>1. DOMAIN NoNodes = {}
  BY DEF NoNodes
<1>2. DraftInv
  BY <1>1 DEF AuthoringInit, DraftInv, LocalTypeOK, PCs, IdsAreOld, SavesAreFresh, Saving,
              DraftIsWhole, SnapIsWhole, Saved
<1>3. TreesAreOneSave /\ NumbersAreUnique
  BY <1>1 DEF AuthoringInit, TreesAreOneSave, OneSave, Saved, NumbersAreUnique
<1> QED
  BY <1>2, <1>3 DEF AuthoringInv

-----------------------------------------------------------------------------
(* The operators on trees                                                  *)

(* What ON DELETE CASCADE leaves: nodes that were there and not deleted,   *)
(* as they were, and every root that was not deleted.                      *)
LEMMA WithoutKeeps ==
    ASSUME NEW t, NEW gone
    PROVE  /\ DOMAIN Without(t, gone) \in SUBSET (DOMAIN t \ gone)
           /\ \A i \in DOMAIN Without(t, gone) : Without(t, gone)[i] = t[i]
           /\ \A i \in DOMAIN t \ gone :
                 t[i].parent_id = None => i \in DOMAIN Without(t, gone)
<1> DEFINE closed(S) == \A i \in S : t[i].parent_id \in S \cup {None}
           kept == {j \in DOMAIN t : \E S \in SUBSET (DOMAIN t \ gone) : j \in S /\ closed(S)}
<1>1. Without(t, gone) = [i \in kept |-> t[i]]
  BY DEF Without
<1>2. kept \in SUBSET (DOMAIN t \ gone)
  OBVIOUS
<1>3. ASSUME NEW i \in DOMAIN t \ gone, t[i].parent_id = None
      PROVE  i \in kept
  <2>1. {i} \in SUBSET (DOMAIN t \ gone) /\ i \in {i} /\ closed({i})
    BY <1>3
  <2> QED
    BY <2>1
<1> HIDE DEF kept
<1> QED
  BY <1>1, <1>2, <1>3

(* The ids of a save, and its first node.                                  *)
LEMMA NewNodesFacts ==
    ASSUME NEW request \in Nat, NEW body \in Bodies, DrawnFromRoot
    PROVE  LET new == NewNodes(request, body.nodes)
           IN  /\ DOMAIN new \in SUBSET (Nat \X Nat)
               /\ \A k \in DOMAIN new : /\ k[1] = request /\ k[2] > 0
                                        /\ First(k) \in DOMAIN new
                                        /\ new[First(k)].parent_id = None
                                        /\ new[First(k)].position = 0
<1> DEFINE drawn == body.nodes
           n == Len(drawn)
           new == NewNodes(request, drawn)
           ids == {<<request, i>> : i \in DOMAIN drawn}
           one == <<request, 1>>
<1>1. n \in Nat /\ DOMAIN drawn = 1..n
  BY AuthoringAssumption
<1>2. DOMAIN new = ids
  BY DEF NewNodes
<1>3. \A k \in ids : k \in Nat \X Nat /\ k[1] = request /\ k[2] > 0 /\ First(k) = one
  BY <1>1 DEF First
<1>4. ASSUME NEW k \in ids
      PROVE  /\ one \in ids
             /\ new[one].parent_id = None
             /\ new[one].position = 0
  <2>1. 1 \in DOMAIN drawn
    BY <1>1, <1>4
  <2>2. one \in ids /\ one[2] = 1
    BY <2>1
  <2>3. {j \in 1..1 : drawn[j].client_id = drawn[1].parent_id} = {}
    BY <2>1 DEF DrawnFromRoot
  <2>4. {j \in 1..(1 - 1) : drawn[j].parent_id = drawn[1].parent_id} = {}
    OBVIOUS
  <2>5. /\ new[one].parent_id = None
        /\ new[one].position =
              Cardinality({j \in 1..(1 - 1) : drawn[j].parent_id = drawn[1].parent_id})
    BY <2>2, <2>3 DEF NewNodes
  <2>6. Cardinality({}) = 0
    BY FS_EmptySet
  <2> QED
    BY <2>2, <2>4, <2>5, <2>6
<1> HIDE DEF ids, new, one
<1> QED
  BY <1>2, <1>3, <1>4 DEF new

-----------------------------------------------------------------------------
(* The steps                                                               *)

(* A step of client c: the other clients' requests stay where they are,    *)
(* and c is in a save afterwards only if it was.                           *)
StepOf(c) ==
    /\ DOMAIN work' = Clients /\ DOMAIN tree' = Clients
    /\ pc' \in [Clients -> PCs]
    /\ snap' \in [Clients -> SUBSET (Nat \X Nat)]
    /\ \A d \in Clients \ {c} : pc'[d] = pc[d] /\ work'[d] = work[d] /\ snap'[d] = snap[d]
    /\ Saving(c)' => Saving(c) /\ work'[c] = work[c]

(* Going on to another label with the request at hand, and answering it,   *)
(* are such steps.                                                         *)
LEMMA GoesOn ==
    ASSUME LocalTypeOK, NEW c \in Clients, NEW label \in PCs, Goto(c, label), UNCHANGED work,
           snap' = snap \/ snap' = [snap EXCEPT ![c] = DOMAIN nodes],
           DOMAIN tree' = Clients,
           label \in {"replace", "delete", "insert"} => Saving(c)
    PROVE  StepOf(c)
  BY DEF LocalTypeOK, Goto, StepOf, Saving, PCs

(* So is the response, after which the client has seen nothing.            *)
LEMMA Responds ==
    ASSUME LocalTypeOK, NEW c \in Clients, Respond(c)
    PROVE  StepOf(c) /\ snap'[c] = {}
  BY DEF LocalTypeOK, Respond, Goto, StepOf, Saving, PCs

(* What a step that leaves the draft alone keeps, when the DELETE of its   *)
(* client sees what it saw before, nothing, or the whole draft.            *)
LEMMA DraftStays ==
    ASSUME DraftInv, NEW c \in Clients, StepOf(c), UNCHANGED <<nodes, requests>>,
           snap'[c] \in {snap[c], {}, DOMAIN nodes}
    PROVE  DraftInv'
<1>1. LocalTypeOK'
  BY DEF DraftInv, LocalTypeOK, StepOf
<1>2. IdsAreOld'
  BY DEF DraftInv, IdsAreOld, StepOf
<1>3. SavesAreFresh'
  <2> SUFFICES ASSUME NEW d \in Clients, Saving(d)'
               PROVE  /\ work'[d].id \in Nat /\ work'[d].id <= requests'
                      /\ \E body \in Bodies : work'[d].nodes = body.nodes
                      /\ \A k \in DOMAIN nodes' : k[1] # work'[d].id
                      /\ \A e \in Clients : \A k \in snap'[e] : k[1] # work'[d].id
                      /\ \A e \in Clients \ {d} : Saving(e)' => work'[e].id # work'[d].id
    BY DEF SavesAreFresh
  <2>1. \A e \in Clients : Saving(e)' => Saving(e) /\ work'[e] = work[e]
    BY DEF StepOf, Saving
  <2>2. Saving(d) /\ work'[d] = work[d]
    BY <2>1
  <2>3. \A e \in Clients : \A k \in snap'[e] : k[1] # work[d].id
    BY <2>2 DEF StepOf, DraftInv, SavesAreFresh
  <2> QED
    BY <2>1, <2>2, <2>3 DEF DraftInv, SavesAreFresh
<1>4. DraftIsWhole'
  BY DEF DraftInv, DraftIsWhole, Saved
<1>5. SnapIsWhole'
  <2>1. \A k \in Saved(nodes) : k \in DOMAIN nodes /\ First(k) \in DOMAIN nodes
    BY DEF DraftInv, DraftIsWhole, Saved
  <2>2. Saved(nodes') = Saved(nodes)
    BY DEF Saved
  <2> QED
    BY <2>1, <2>2 DEF DraftInv, SnapIsWhole, StepOf
<1> QED
  BY <1>1, <1>2, <1>3, <1>4, <1>5 DEF DraftInv

(* A new request, of any kind; the id of a save is the request's.          *)
LEMMA RequestBegins ==
    ASSUME DraftInv, NEW c \in Clients, NEW request, NEW label \in PCs,
           Begin(c, request, label),
           label \in {"replace", "delete", "insert"} =>
               request.id = requests + 1 /\ \E body \in Bodies : request.nodes = body.nodes
    PROVE  DraftInv'
<1>1. LocalTypeOK'
  BY DEF DraftInv, LocalTypeOK, Begin, Goto
<1>2. requests \in Nat /\ requests' = requests + 1 /\ nodes' = nodes /\ snap' = snap
  BY DEF DraftInv, LocalTypeOK, Begin
<1>3. /\ \A k \in DOMAIN nodes : k[1] \in Nat /\ k[1] <= requests
      /\ \A d \in Clients : \A k \in snap[d] : k[1] \in Nat /\ k[1] <= requests
  BY DEF DraftInv, LocalTypeOK, IdsAreOld
<1>4. IdsAreOld'
  BY <1>2, <1>3 DEF IdsAreOld
<1>5. SavesAreFresh'
  <2> DEFINE Fresh(d) ==
        /\ work'[d].id \in Nat /\ work'[d].id <= requests'
        /\ \E body \in Bodies : work'[d].nodes = body.nodes
        /\ \A k \in DOMAIN nodes' : k[1] # work'[d].id
        /\ \A e \in Clients : \A k \in snap'[e] : k[1] # work'[d].id
        /\ \A e \in Clients \ {d} : Saving(e)' => work'[e].id # work'[d].id
  <2>1. \A d \in Clients \ {c} : Saving(d)' => Saving(d) /\ work'[d] = work[d]
    BY DEF Saving, Begin, Goto, DraftInv, LocalTypeOK
  <2>2. \A d \in Clients \ {c} : Saving(d) => work[d].id \in Nat /\ work[d].id <= requests
    BY DEF DraftInv, SavesAreFresh
  <2>3. Saving(c)' => /\ work'[c].id = requests + 1
                      /\ \E body \in Bodies : work'[c].nodes = body.nodes
    BY DEF Saving, Begin, Goto, DraftInv, LocalTypeOK
  <2>4. ASSUME Saving(c)' PROVE Fresh(c)
    <3>1. \A e \in Clients \ {c} : Saving(e)' => work'[e].id # work'[c].id
      BY <1>2, <2>1, <2>2, <2>3, <2>4
    <3>2. /\ \A k \in DOMAIN nodes' : k[1] # work'[c].id
          /\ \A e \in Clients : \A k \in snap'[e] : k[1] # work'[c].id
      BY <1>2, <1>3, <2>3, <2>4
    <3> QED
      BY <1>2, <2>3, <2>4, <3>1, <3>2
  <2>5. ASSUME NEW d \in Clients \ {c}, Saving(d)' PROVE Fresh(d)
    <3>1. Saving(d) /\ work'[d] = work[d] /\ work[d].id \in Nat /\ work[d].id <= requests
      BY <2>1, <2>2, <2>5
    <3>2. \A e \in Clients \ {d} : Saving(e)' => work'[e].id # work'[d].id
      BY <1>2, <2>1, <2>3, <3>1 DEF DraftInv, SavesAreFresh
    <3>3. /\ \E body \in Bodies : work[d].nodes = body.nodes
          /\ \A k \in DOMAIN nodes : k[1] # work[d].id
          /\ \A e \in Clients : \A k \in snap[e] : k[1] # work[d].id
      BY <3>1 DEF DraftInv, SavesAreFresh
    <3> QED
      BY <1>2, <3>1, <3>2, <3>3
  <2> QED
    BY <2>4, <2>5 DEF SavesAreFresh
<1>6. DraftIsWhole' /\ SnapIsWhole'
  BY <1>2 DEF DraftInv, DraftIsWhole, SnapIsWhole, Saved
<1> QED
  BY <1>1, <1>4, <1>5, <1>6 DEF DraftInv

(* add_step adds a node that is of no save.                                *)
LEMMA StepIsAdded ==
    ASSUME DraftInv, NEW c \in Clients, NEW parent, NEW position, AddStep(c, parent, position)
    PROVE  DraftInv' /\ (OneSave(nodes) => OneSave(nodes'))
<1> DEFINE id == <<requests + 1, 0>>
<1>1. PICK row : nodes' = Both(nodes, [i \in {id} |-> row])
  BY DEF AddStep
<1>2. requests \in Nat /\ requests' = requests + 1
  BY DEF DraftInv, LocalTypeOK, AddStep
<1>3. /\ DOMAIN nodes' = DOMAIN nodes \cup {id}
      /\ \A k \in DOMAIN nodes : nodes'[k] = nodes[k]
  BY <1>1 DEF Both
<1>4. id \in Nat \X Nat /\ id[1] = requests + 1 /\ id[2] = 0
  BY <1>2
<1>5. UNCHANGED <<pc, work, snap, tree>>
  BY DEF AddStep, localVars
<1>6. Saved(nodes') = Saved(nodes)
  BY <1>3, <1>4 DEF Saved
<1>7. /\ \A k \in DOMAIN nodes : k[1] \in Nat /\ k[1] <= requests
      /\ \A d \in Clients : \A k \in snap[d] : k[1] \in Nat /\ k[1] <= requests
  BY DEF DraftInv, LocalTypeOK, IdsAreOld
<1> HIDE DEF id
<1>8. LocalTypeOK' /\ IdsAreOld'
  BY <1>2, <1>3, <1>4, <1>5, <1>7 DEF DraftInv, LocalTypeOK, IdsAreOld
<1>9. SavesAreFresh'
  <2>1. \A d \in Clients : Saving(d)' <=> Saving(d)
    BY <1>5 DEF Saving
  <2>2. \A d \in Clients : Saving(d) =>
           work[d].id \in Nat /\ work[d].id <= requests /\ work[d].id <= requests'
                /\ id[1] # work[d].id
    BY <1>2, <1>4 DEF DraftInv, SavesAreFresh
  <2> QED
    BY <1>3, <1>5, <2>1, <2>2 DEF DraftInv, SavesAreFresh
<1>10. DraftIsWhole' /\ SnapIsWhole'
  BY <1>3, <1>5, <1>6 DEF DraftInv, DraftIsWhole, SnapIsWhole
<1> QED
  BY <1>6, <1>8, <1>9, <1>10 DEF DraftInv, OneSave

(* replace_sequence_nodes commits: what its DELETE had not seen of another *)
(* save would hold the place of its own first node, so nothing is left of  *)
(* other saves, unless the builder drew nothing at all.                    *)
LEMMA NodesAreReplaced ==
    ASSUME DraftInv, OneSave(nodes), DrawnFromRoot, NEW c \in Clients, InsertNodes(c)
    PROVE  DraftInv' /\ OneSave(nodes')
<1> DEFINE request == work[c].id
           new == NewNodes(request, work[c].nodes)
           kept == Without(nodes, snap[c])
           draft == Both(kept, new)
<1>1. Saving(c) /\ request \in Nat /\ request <= requests
  BY DEF InsertNodes, Saving, DraftInv, SavesAreFresh
<1>2. CASE ~UniquePositions(draft) /\ Respond(c) /\ UNCHANGED nodes
  <2>1. StepOf(c) /\ snap'[c] = {} /\ UNCHANGED <<nodes, requests>>
    BY <1>2, Responds DEF DraftInv, InsertNodes
  <2> QED
    BY <1>2, <2>1, DraftStays
<1>3. CASE /\ UniquePositions(draft) /\ nodes' = draft /\ Goto(c, "load")
           /\ snap' = [snap EXCEPT ![c] = {}] /\ UNCHANGED <<work, tree, number>>
  <2>1. /\ UNCHANGED <<work, tree, requests>>
        /\ snap' \in [Clients -> SUBSET (Nat \X Nat)]
        /\ \A d \in Clients : snap'[d] = snap[d] \/ snap'[d] = {}
    BY <1>3 DEF InsertNodes, DraftInv, LocalTypeOK
  <2>2. PICK body \in Bodies : work[c].nodes = body.nodes
    BY <1>1 DEF DraftInv, SavesAreFresh
  <2>3. /\ DOMAIN new \in SUBSET (Nat \X Nat)
        /\ \A k \in DOMAIN new : /\ k[1] = request /\ k[2] > 0
                                 /\ First(k) \in DOMAIN new
                                 /\ new[First(k)].parent_id = None
                                 /\ new[First(k)].position = 0
    BY <1>1, <2>2, NewNodesFacts
  <2>4. /\ DOMAIN kept \in SUBSET (DOMAIN nodes \ snap[c])
        /\ \A k \in DOMAIN kept : kept[k] = nodes[k]
        /\ \A k \in DOMAIN nodes \ snap[c] : nodes[k].parent_id = None => k \in DOMAIN kept
    BY WithoutKeeps
  <2>5. \A k \in DOMAIN nodes : k[1] # request
    BY <1>1 DEF DraftInv, SavesAreFresh
  <2> HIDE DEF request, new, kept
  <2>6. /\ DOMAIN nodes' = DOMAIN kept \cup DOMAIN new
        /\ \A k \in DOMAIN kept : nodes'[k] = nodes[k]
        /\ \A k \in DOMAIN new : nodes'[k] = new[k]
    BY <1>3, <2>3, <2>4, <2>5 DEF Both
  <2>7. \A k \in Saved(nodes') : k \in DOMAIN new \/ (k \in Saved(nodes) /\ k \in DOMAIN kept)
    BY <2>4, <2>6 DEF Saved
  <2>8. \A k \in Saved(nodes) : k \in DOMAIN kept =>
           /\ First(k) \in DOMAIN kept
           /\ nodes[First(k)].parent_id = None /\ nodes[First(k)].position = 0
    BY <2>4 DEF DraftInv, DraftIsWhole, SnapIsWhole
  <2>9. LocalTypeOK'
    BY <1>3, <2>1, <2>3, <2>4, <2>6 DEF DraftInv, LocalTypeOK, Goto, PCs
  <2>10. IdsAreOld'
    BY <1>1, <2>1, <2>3, <2>4, <2>6 DEF DraftInv, IdsAreOld, request
  <2>11. SavesAreFresh'
    <3>1. \A d \in Clients : Saving(d)' => d # c /\ Saving(d)
      BY <1>3 DEF Saving, Goto, DraftInv, LocalTypeOK
    <3>2. \A d \in Clients : Saving(d)' => request # work[d].id
      BY <1>1, <3>1 DEF DraftInv, SavesAreFresh, request
    <3> QED
      BY <2>1, <2>3, <2>4, <2>6, <3>1, <3>2 DEF DraftInv, SavesAreFresh
  <2>12. DraftIsWhole'
    BY <2>3, <2>6, <2>7, <2>8 DEF DraftIsWhole
  <2>13. SnapIsWhole'
    <3>1. \A d \in Clients : \A k \in snap[d] : k[1] # request
      BY <1>1 DEF DraftInv, SavesAreFresh, request
    <3>2. \A d \in Clients : \A k \in DOMAIN new : k \notin snap[d] /\ First(k) \notin snap[d]
      BY <2>3, <3>1
    <3> QED
      BY <2>1, <2>7, <3>2 DEF DraftInv, SnapIsWhole
  <2>14. ASSUME NEW i \in Saved(nodes'), NEW j \in Saved(nodes')
         PROVE  i[1] = j[1]
    <3>1. ASSUME NEW k \in Saved(nodes), k \in DOMAIN kept, NEW l \in DOMAIN new
          PROVE  FALSE
      <4>1. /\ First(k) \in DOMAIN nodes' /\ First(l) \in DOMAIN nodes'
            /\ Place(nodes'[First(k)]) = Place(nodes'[First(l)])
        BY <2>3, <2>6, <2>8, <3>1 DEF Place
      <4>2. First(k) = First(l)
        BY <1>3, <4>1 DEF UniquePositions
      <4> QED
        BY <2>3, <2>4, <2>5, <2>8, <3>1, <4>2
    <3> QED
      BY <2>3, <2>7, <2>14, <3>1 DEF OneSave
  <2> QED
    BY <2>9, <2>10, <2>11, <2>12, <2>13, <2>14 DEF DraftInv, OneSave
<1> QED
  BY <1>2, <1>3 DEF InsertNodes

(* The draft stays whole, and of one save, through every step.             *)
LEMMA DraftStep ==
    ASSUME DraftInv, OneSave(nodes), DrawnFromRoot, [AuthoringNext]_authoringVars
    PROVE  DraftInv' /\ OneSave(nodes')
<1>1. ASSUME NEW c \in Clients, NEW body \in Bodies, SaveSequence(c, body)
      PROVE  DraftInv' /\ nodes' = nodes
  <2> DEFINE request == [do |-> "save", id |-> requests + 1, nodes |-> body.nodes]
  <2>1. Begin(c, request, "replace") /\ "replace" \in PCs
    BY <1>1 DEF SaveSequence, PCs
  <2>2. request.id = requests + 1 /\ request.nodes = body.nodes
    OBVIOUS
  <2>3. nodes' = nodes
    BY <2>1 DEF Begin
  <2> HIDE DEF request
  <2> QED
    BY <2>1, <2>2, <2>3, RequestBegins
<1>2. ASSUME NEW c \in Clients, NEW request, Begin(c, request, "load")
      PROVE  DraftInv' /\ nodes' = nodes
  <2>1. "load" \in PCs /\ "load" \notin {"replace", "delete", "insert"}
    BY DEF PCs
  <2>2. nodes' = nodes
    BY <1>2 DEF Begin
  <2> QED
    BY <1>2, <2>1, <2>2, RequestBegins
<1>3. ASSUME NEW c \in Clients, StartDelete(c)
      PROVE  DraftInv' /\ nodes' = nodes
  <2>1. UNCHANGED <<nodes, requests>> /\ Saving(c) /\ LocalTypeOK
    BY <1>3 DEF StartDelete, draftVars, Saving, DraftInv
  <2>2. CASE Respond(c)
    BY <2>1, <2>2, Responds, DraftStays
  <2>3. CASE /\ snap' = [snap EXCEPT ![c] = DOMAIN nodes]
             /\ Goto(c, "delete") /\ UNCHANGED <<work, tree, number>>
    <3>1. StepOf(c)
      BY <2>1, <2>3, GoesOn DEF PCs, LocalTypeOK
    <3>2. snap'[c] = DOMAIN nodes
      BY <2>1, <2>3 DEF LocalTypeOK
    <3> QED
      BY <2>1, <3>1, <3>2, DraftStays
  <2> QED
    BY <1>3, <2>2, <2>3 DEF StartDelete
<1>4. ASSUME NEW c \in Clients, NEW label \in PCs, Goto(c, label), UNCHANGED <<work, snap>>,
             DOMAIN tree' = Clients, UNCHANGED <<nodes, requests>>,
             label \in {"replace", "delete", "insert"} => Saving(c)
      PROVE  DraftInv' /\ nodes' = nodes
  <2>1. StepOf(c)
    BY <1>4, GoesOn DEF DraftInv
  <2> QED
    BY <1>4, <2>1, DraftStays
<1>5. ASSUME NEW c \in Clients, Respond(c), UNCHANGED <<nodes, requests>>
      PROVE  DraftInv' /\ nodes' = nodes
  <2>1. StepOf(c) /\ snap'[c] = {}
    BY <1>5, Responds DEF DraftInv
  <2> QED
    BY <1>5, <2>1, DraftStays
<1>6. ASSUME NEW c \in Clients, Compiled(c), UNCHANGED <<nodes, requests>>
      PROVE  DraftInv' /\ nodes' = nodes
  <2>1. CASE Respond(c)
    BY <1>5, <1>6, <2>1
  <2>2. CASE Goto(c, "run") /\ UNCHANGED localVars
    <3>1. "run" \in PCs /\ DOMAIN tree' = Clients /\ UNCHANGED <<work, snap>>
      BY <2>2 DEF PCs, localVars, DraftInv, LocalTypeOK
    <3> QED
      BY <1>4, <1>6, <2>2, <3>1
  <2> QED
    BY <1>6, <2>1, <2>2 DEF Compiled
<1>7. ASSUME NEW c \in Clients, DeleteNodes(c)
      PROVE  DraftInv' /\ nodes' = nodes
  <2>1. /\ "insert" \in PCs /\ Goto(c, "insert") /\ Saving(c) /\ DOMAIN tree' = Clients
        /\ UNCHANGED <<nodes, requests, work, snap>>
    BY <1>7 DEF DeleteNodes, PCs, Saving, localVars, draftVars, DraftInv, LocalTypeOK
  <2> QED
    BY <1>4, <2>1
<1>8. ASSUME NEW c \in Clients, LoadNodes(c)
      PROVE  DraftInv' /\ nodes' = nodes
  <2>1. /\ "number" \in PCs /\ Goto(c, "number") /\ DOMAIN tree' = Clients
        /\ UNCHANGED <<nodes, requests, work, snap>>
    BY <1>8 DEF LoadNodes, PCs, draftVars, DraftInv, LocalTypeOK
  <2> QED
    BY <1>4, <2>1
<1>9. ASSUME NEW c \in Clients, FindVersion(c) \/ NextVersion(c)
      PROVE  DraftInv' /\ nodes' = nodes
  <2>1. UNCHANGED <<nodes, requests>>
    BY <1>9 DEF FindVersion, NextVersion, draftVars
  <2>2. CASE Compiled(c)
    BY <1>6, <2>1, <2>2
  <2>3. CASE \E label \in {"max", "version"} : Goto(c, label) /\ UNCHANGED <<work, snap, tree>>
    <3>1. {"max", "version"} \subseteq PCs \ {"replace", "delete", "insert"} /\ DOMAIN tree' = Clients
      BY <2>3 DEF PCs, DraftInv, LocalTypeOK
    <3> QED
      BY <1>4, <2>1, <2>3, <3>1
  <2> QED
    BY <1>9, <2>2, <2>3 DEF FindVersion, NextVersion, localVars
<1>10. ASSUME NEW c \in Clients, InsertVersion(c)
       PROVE  DraftInv' /\ nodes' = nodes
  <2>1. UNCHANGED <<nodes, requests>> /\ (Compiled(c) \/ Respond(c))
    BY <1>10 DEF InsertVersion, draftVars
  <2> QED
    BY <1>5, <1>6, <2>1
<1>11. ASSUME NEW c \in Clients, CreateRun(c)
       PROVE  DraftInv' /\ nodes' = nodes
  <2>1. UNCHANGED <<nodes, requests>> /\ Respond(c)
    BY <1>11 DEF CreateRun, draftVars
  <2> QED
    BY <1>5, <2>1
<1>12. ASSUME UNCHANGED <<nodes, requests, pc, work, snap, tree>>
       PROVE  DraftInv' /\ nodes' = nodes
  BY <1>12 DEF DraftInv, LocalTypeOK, IdsAreOld, SavesAreFresh, Saving, DraftIsWhole,
               SnapIsWhole, Saved
<1>13. CASE UNCHANGED authoringVars
  BY <1>12, <1>13 DEF authoringVars, draftVars, localVars
<1>14. ASSUME NEW n \in Names, CreateContentVersion(n)
       PROVE  DraftInv' /\ nodes' = nodes
  <2>1. UNCHANGED <<nodes, requests, pc, work, snap, tree>>
    BY <1>14 DEF CreateContentVersion, draftVars, localVars
  <2> QED
    BY <1>12, <2>1
<1>15. ASSUME NEW c \in Clients, Continue(c)
       PROVE  DraftInv' /\ OneSave(nodes')
  <2>1. CASE LockNode(c)
    BY <1>12, <2>1 DEF LockNode, draftVars
  <2>2. CASE DeadlockDetected(c)
    BY <1>5, <2>2 DEF DeadlockDetected, draftVars
  <2> QED
    BY <1>3, <1>7, <1>8, <1>9, <1>10, <1>11, <1>15, <2>1, <2>2, NodesAreReplaced DEF Continue
<1>16. ASSUME NEW c \in Clients,
              CompileSequence(c) \/ \E body \in RunBodies : CreateSequenceRun(c, body)
       PROVE  DraftInv' /\ nodes' = nodes
  BY <1>2, <1>16 DEF CompileSequence, CreateSequenceRun
<1> QED
  BY <1>1, <1>13, <1>14, <1>15, <1>16, StepIsAdded DEF AuthoringNext

(* What a step may do to the trees that are compiled and to the versions.  *)
TreesMove ==
    /\ \A d \in Clients : tree'[d] \in {tree[d], nodes, NoNodes}
    /\ \A v \in versions' : v \in versions \/ \E c \in Clients : v.tree = tree[c]
    /\ NumbersAreUnique'

(* What is compiled is the draft, and what has a version was compiled; a   *)
(* number that is taken is refused.                                        *)
LEMMA TreesStep ==
    ASSUME LocalTypeOK, NumbersAreUnique, [AuthoringNext]_authoringVars
    PROVE  TreesMove
<1> DEFINE Moved == \A d \in Clients : tree'[d] \in {tree[d], nodes, NoNodes}
<1>1. ASSUME UNCHANGED tree PROVE Moved
  BY <1>1
<1>2. ASSUME NEW c \in Clients, Respond(c) PROVE Moved
  BY <1>2 DEF Respond, LocalTypeOK
<1>3. ASSUME NEW c \in Clients, Compiled(c) PROVE Moved
  BY <1>1, <1>2, <1>3 DEF Compiled, localVars
<1>4. ASSUME NEW c \in Clients, LoadNodes(c) PROVE Moved
  BY <1>4 DEF LoadNodes, LocalTypeOK
<1>5. ASSUME Moved, UNCHANGED versions PROVE TreesMove
  BY <1>5 DEF TreesMove, NumbersAreUnique
<1> HIDE DEF Moved
<1>6. ASSUME NEW c \in Clients, InsertVersion(c) PROVE TreesMove
  <2>1. CASE Respond(c) /\ UNCHANGED versions
    BY <1>2, <1>5, <2>1
  <2>2. CASE /\ number[c] \notin Numbers
             /\ versions' = versions \cup {[version |-> number[c], tree |-> tree[c]]}
             /\ Compiled(c)
    <3> DEFINE new == [version |-> number[c], tree |-> tree[c]]
    <3>1. new.version = number[c] /\ new.tree = tree[c]
      OBVIOUS
    <3>2. \A v \in versions : v.version # new.version
      BY <2>2, <3>1 DEF Numbers
    <3>3. versions' = versions \cup {new}
      BY <2>2
    <3> HIDE DEF new
    <3>4. NumbersAreUnique'
      BY <3>2, <3>3 DEF NumbersAreUnique
    <3>5. \A v \in versions' : v \in versions \/ \E d \in Clients : v.tree = tree[d]
      BY <3>1, <3>3
    <3> QED
      BY <1>3, <2>2, <3>4, <3>5 DEF TreesMove, Moved
  <2> QED
    BY <1>6, <2>1, <2>2 DEF InsertVersion
<1>7. CASE UNCHANGED authoringVars
  BY <1>1, <1>5, <1>7 DEF authoringVars, localVars
<1>8. ASSUME NEW c \in Clients, Continue(c) PROVE TreesMove
  <2>1. CASE StartDelete(c)
    BY <1>1, <1>2, <1>5, <2>1 DEF StartDelete
  <2>2. CASE LockNode(c) \/ DeleteNodes(c) \/ DeadlockDetected(c)
    BY <1>1, <1>2, <1>5, <2>2 DEF LockNode, DeleteNodes, DeadlockDetected, localVars
  <2>3. CASE InsertNodes(c)
    BY <1>1, <1>2, <1>5, <2>3 DEF InsertNodes, localVars
  <2>4. CASE LoadNodes(c)
    <3>1. UNCHANGED versions
      BY <2>4 DEF LoadNodes
    <3> QED
      BY <1>4, <1>5, <2>4, <3>1
  <2>5. CASE FindVersion(c) \/ NextVersion(c)
    BY <1>1, <1>3, <1>5, <2>5 DEF FindVersion, NextVersion, localVars
  <2>6. CASE CreateRun(c)
    BY <1>2, <1>5, <2>6 DEF CreateRun
  <2> QED
    BY <1>6, <1>8, <2>1, <2>2, <2>3, <2>4, <2>5, <2>6 DEF Continue
<1>9. ASSUME NEW c \in Clients,
             \/ \E body \in Bodies : SaveSequence(c, body)
             \/ CompileSequence(c)
             \/ \E body \in RunBodies : CreateSequenceRun(c, body)
      PROVE  TreesMove
  <2>1. UNCHANGED <<tree, versions>>
    BY <1>9 DEF SaveSequence, CompileSequence, CreateSequenceRun, Begin
  <2> QED
    BY <1>1, <1>5, <2>1
<1>10. ASSUME NEW c \in Clients, NEW parent, NEW position, AddStep(c, parent, position)
       PROVE  TreesMove
  <2>1. UNCHANGED <<tree, versions>>
    BY <1>10 DEF AddStep, localVars
  <2> QED
    BY <1>1, <1>5, <2>1
<1>11. ASSUME NEW n \in Names, CreateContentVersion(n)
       PROVE  TreesMove
  BY <1>1, <1>5, <1>11 DEF CreateContentVersion, localVars
<1> QED
  BY <1>7, <1>8, <1>9, <1>10, <1>11 DEF AuthoringNext

(* So what holds of the draft holds of everything that is compiled.        *)
LEMMA VersionsStep ==
    ASSUME LocalTypeOK, TreesAreOneSave, NumbersAreUnique, OneSave(nodes'),
           [AuthoringNext]_authoringVars
    PROVE  TreesAreOneSave' /\ NumbersAreUnique'
<1>1. TreesMove
  BY TreesStep
<1>2. OneSave(NoNodes)
  BY DEF OneSave, Saved, NoNodes
<1> QED
  BY <1>1, <1>2 DEF TreesMove, TreesAreOneSave

-----------------------------------------------------------------------------
(* The draft of a sequence is at all times what one save wrote and what    *)
(* was added to it since, whatever replace_sequence_nodes of other         *)
(* requests is at that time.                                               *)
THEOREM AuthoringInvariant ==
    ASSUME DrawnFromRoot
    PROVE  AuthoringSpec => []AuthoringInv
<1>1. AuthoringInv /\ [AuthoringNext]_authoringVars => AuthoringInv'
  <2> SUFFICES ASSUME AuthoringInv, [AuthoringNext]_authoringVars
               PROVE  AuthoringInv'
    OBVIOUS
  <2>1. DraftInv /\ OneSave(nodes) /\ LocalTypeOK /\ TreesAreOneSave /\ NumbersAreUnique
    BY DEF AuthoringInv, TreesAreOneSave, DraftInv
  <2>2. DraftInv' /\ OneSave(nodes')
    BY <2>1, DraftStep
  <2>3. TreesAreOneSave' /\ NumbersAreUnique'
    BY <2>1, <2>2, VersionsStep
  <2> QED
    BY <2>2, <2>3 DEF AuthoringInv
<1> QED
  BY <1>1, AuthoringInvInit, PTL DEF AuthoringSpec

(* compile_sequence: a version number stands for one tree, whose nodes     *)
(* from the builder are all of one save, however saves, compilations and   *)
(* added steps interleave.                                                 *)
THEOREM VersionsAreOneSave ==
    ASSUME DrawnFromRoot
    PROVE  AuthoringSpec => []VersionIsOneSave
<1>1. AuthoringInv => VersionIsOneSave
  BY DEF AuthoringInv, TreesAreOneSave, NumbersAreUnique, OneSave, Saved, VersionIsOneSave
<1> QED
  BY <1>1, AuthoringInvariant, PTL

-----------------------------------------------------------------------------
(* Runs and their versions                                                 *)

(* Run r is made of version v for what body asks: its plan is the version  *)
(* flattened, each step pending or skipped by its condition on the run     *)
(* variable, and its pins are all the content the plan refers to.          *)
MadeOf(r, v, body) ==
    LET steps == FlattenSteps(v.tree)
    IN  /\ r.version = v.version
        /\ r.plan = [k \in DOMAIN steps |-> PlanStep(v.tree, steps[k], body.value)]
        /\ r.value = body.value /\ r.resolved = body.resolve
        /\ r.resolved => DOMAIN r.pins = References(v.tree, steps)

(* A pin is a version that the content item has, of as many as it has.     *)
PinsExist(r, have) == \A n \in DOMAIN r.pins \cap Names : r.pins[n] \in 1..have[n]

RunsAreOfVersions ==
    \A r \in runs :
        PinsExist(r, content) /\ \E v \in versions, body \in RunBodies : MadeOf(r, v, body)

RunsTypeOK ==
    /\ DOMAIN pc = Clients /\ DOMAIN work = Clients /\ DOMAIN tree = Clients
    /\ content \in [Names -> Nat]

(* A request for a run carries what a body asked for ...                   *)
AsksAsBody(w) == \E body \in RunBodies : w.value = body.value /\ w.resolve = body.resolve

(* ... and when the run is about to be created its tree has a version.     *)
RunRequests ==
    \A c \in Clients :
        /\ pc[c] # "idle" /\ work[c].do = "run" => AsksAsBody(work[c])
        /\ pc[c] = "run" => work[c].do = "run" /\ tree[c] \in Trees

(* Versions and runs are only added to, and content items only gain        *)
(* versions.                                                               *)
HistoryGrows ==
    /\ versions \subseteq versions' /\ runs \subseteq runs'
    /\ \A n \in Names : content'[n] \in Nat /\ content[n] <= content'[n]

LineageInv == RunsTypeOK /\ RunRequests /\ NumbersAreUnique /\ RunsAreOfVersions

(* A step that creates no run keeps every run what it was.                 *)
LEMMA RunsStay ==
    ASSUME RunsTypeOK, RunsAreOfVersions, HistoryGrows, UNCHANGED runs
    PROVE  RunsAreOfVersions'
<1> SUFFICES ASSUME NEW r \in runs
             PROVE  /\ PinsExist(r, content')
                    /\ \E v \in versions', body \in RunBodies : MadeOf(r, v, body)
  BY DEF RunsAreOfVersions
<1>1. PinsExist(r, content')
  BY DEF RunsAreOfVersions, PinsExist, HistoryGrows, RunsTypeOK
<1>2. \E v \in versions', body \in RunBodies : MadeOf(r, v, body)
  BY DEF RunsAreOfVersions, HistoryGrows
<1> QED
  BY <1>1, <1>2

(* A step that leaves versions, runs and content alone.                    *)
LEMMA HistoryStays ==
    ASSUME LineageInv, UNCHANGED <<versions, runs, content>>
    PROVE  HistoryGrows /\ NumbersAreUnique' /\ RunsAreOfVersions'
<1>1. HistoryGrows
  BY DEF HistoryGrows, LineageInv, RunsTypeOK
<1> QED
  BY <1>1, RunsStay DEF LineageInv, NumbersAreUnique

(* The response, a step on with the same request, and a new request keep   *)
(* what is known of the requests for runs.                                 *)
LEMMA RequestsStay ==
    ASSUME RunsTypeOK, RunRequests, NEW c \in Clients, versions \subseteq versions',
           UNCHANGED content,
           \/ Respond(c)
           \/ /\ \E label \in PCs \ {"idle", "run"} : Goto(c, label)
              /\ pc[c] # "idle" /\ UNCHANGED work
              /\ DOMAIN tree' = Clients /\ \A d \in Clients \ {c} : tree'[d] = tree[d]
           \/ /\ Goto(c, "run")
              /\ pc[c] # "idle" /\ work[c].do = "run" /\ UNCHANGED <<work, tree>>
              /\ tree[c] \in Trees'
           \/ \E request : \E label \in PCs \ {"idle", "run"} :
              /\ Goto(c, label) /\ work' = [work EXCEPT ![c] = request] /\ UNCHANGED tree
              /\ request.do = "run" => AsksAsBody(request)
    PROVE  RunsTypeOK' /\ RunRequests'
<1>1. RunsTypeOK'
  BY DEF RunsTypeOK, Respond, Goto
<1>2. \A d \in Clients \ {c} : pc'[d] = pc[d] /\ work'[d] = work[d] /\ tree'[d] = tree[d]
  BY DEF RunsTypeOK, Respond, Goto
<1>3. \A t : t \in Trees => t \in Trees'
  BY DEF Trees
<1>4. \A d \in Clients \ {c} :
          /\ pc'[d] # "idle" /\ work'[d].do = "run" => AsksAsBody(work'[d])
          /\ pc'[d] = "run" => work'[d].do = "run" /\ tree'[d] \in Trees'
  BY <1>2, <1>3 DEF RunRequests
<1>5. /\ pc'[c] # "idle" /\ work'[c].do = "run" => AsksAsBody(work'[c])
      /\ pc'[c] = "run" => work'[c].do = "run" /\ tree'[c] \in Trees'
  BY DEF RunsTypeOK, RunRequests, Respond, Goto, PCs
<1> QED
  BY <1>1, <1>4, <1>5 DEF RunRequests


(* CreateRun: the run it adds is made of a version there is.               *)
LEMMA RunIsCreated ==
    ASSUME LineageInv, NEW c \in Clients, CreateRun(c)
    PROVE  HistoryGrows /\ RunsAreOfVersions'
<1> DEFINE t     == tree[c]
           steps == FlattenSteps(t)
           refs  == IF work[c].resolve THEN References(t, steps) ELSE {}
           v     == CHOOSE w \in versions : w.tree = t
           plan  == [k \in DOMAIN steps |-> PlanStep(t, steps[k], work[c].value)]
           pins  == [n \in {m \in refs : content[m] > 0} |-> content[n]]
           run   == [version |-> v.version, value |-> work[c].value,
                     resolved |-> work[c].resolve, plan |-> plan, pins |-> pins]
<1>1. /\ pc[c] = "run" /\ UNCHANGED <<versions, content>>
      /\ (MayCreate(refs) /\ runs' = runs \cup {run}) \/ UNCHANGED runs
  BY DEF CreateRun
<1>2. v \in versions /\ v.tree = t
  BY <1>1 DEF LineageInv, RunRequests, Trees
<1>3. PICK body \in RunBodies : work[c].value = body.value /\ work[c].resolve = body.resolve
  BY <1>1 DEF LineageInv, RunRequests, AsksAsBody
<1>4. HistoryGrows
  <2> HIDE DEF run, refs
  <2>1. runs \subseteq runs'
    BY <1>1
  <2> QED
    BY <1>1, <2>1 DEF HistoryGrows, LineageInv, RunsTypeOK
<1>5. CASE UNCHANGED runs
  BY <1>4, <1>5, RunsStay DEF LineageInv
<1>6. CASE MayCreate(refs) /\ runs' = runs \cup {run}
  <2>1. {m \in refs : content[m] > 0} = refs
    BY <1>6 DEF MayCreate
  <2>2. DOMAIN pins = refs /\ \A n \in refs : pins[n] = content[n] /\ content[n] > 0
    BY <1>6, <2>1 DEF MayCreate
  <2>3. /\ run.version = v.version /\ run.resolved = work[c].resolve
        /\ run.value = work[c].value /\ run.plan = plan /\ run.pins = pins
    OBVIOUS
  <2>4. run.resolved => DOMAIN run.pins = References(t, steps)
    BY <2>2, <2>3
  <2>5. \A n \in Names : content[n] \in Nat /\ content'[n] = content[n]
    BY <1>1 DEF LineageInv, RunsTypeOK
  <2>6. PinsExist(run, content')
    <3> HIDE DEF run, pins, refs
    <3> QED
      BY <2>2, <2>3, <2>5 DEF PinsExist
  <2>7. MadeOf(run, v, body)
    <3> HIDE DEF run, v
    <3>1. plan = [k \in DOMAIN steps |-> PlanStep(v.tree, steps[k], body.value)]
      BY <1>2, <1>3
    <3> QED
      BY <1>2, <1>3, <2>3, <2>4, <3>1 DEF MadeOf
  <2>8. v \in versions'
    BY <1>1, <1>2
  <2> HIDE DEF run, v, refs
  <2>9. \A r \in runs : /\ PinsExist(r, content')
                       /\ \E w \in versions', b \in RunBodies : MadeOf(r, w, b)
    BY <1>1 DEF LineageInv, RunsAreOfVersions, PinsExist
  <2>10. \A r \in runs' : /\ PinsExist(r, content')
                         /\ \E w \in versions', b \in RunBodies : MadeOf(r, w, b)
    BY <1>6, <2>6, <2>7, <2>8, <2>9
  <2> QED
    BY <1>4, <2>10 DEF RunsAreOfVersions
<1> QED
  BY <1>1, <1>5, <1>6

(* compile_sequence: a version is added under a number that no other has.  *)
LEMMA VersionIsInserted ==
    ASSUME LineageInv, NEW c \in Clients, InsertVersion(c)
    PROVE  HistoryGrows /\ LineageInv'
<1>1. UNCHANGED <<runs, content>> /\ pc[c] = "version"
  BY DEF InsertVersion
<1>2. CASE Respond(c) /\ UNCHANGED versions
  BY <1>1, <1>2, HistoryStays, RequestsStay DEF LineageInv
<1>3. CASE /\ number[c] \notin Numbers
           /\ versions' = versions \cup {[version |-> number[c], tree |-> tree[c]]}
           /\ Compiled(c)
  <2> DEFINE new == [version |-> number[c], tree |-> tree[c]]
  <2>1. new.version = number[c] /\ new.tree = tree[c]
    OBVIOUS
  <2>2. \A v \in versions : v.version # new.version
    BY <1>3, <2>1 DEF Numbers
  <2>3. versions' = versions \cup {new}
    BY <1>3
  <2> HIDE DEF new
  <2>4. NumbersAreUnique'
    BY <2>2, <2>3 DEF LineageInv, NumbersAreUnique
  <2>5. HistoryGrows
    BY <1>1, <2>3 DEF HistoryGrows, LineageInv, RunsTypeOK
  <2>6. RunsAreOfVersions'
    BY <1>1, <2>5, RunsStay DEF LineageInv
  <2>7. tree[c] \in Trees'
    BY <2>1, <2>3 DEF Trees
  <2>8. RunsTypeOK' /\ RunRequests'
    <3>1. \/ Respond(c)
          \/ Goto(c, "run") /\ work[c].do = "run" /\ UNCHANGED <<work, tree>>
      BY <1>3 DEF Compiled, localVars
    <3> QED
      BY <1>1, <2>3, <2>7, <3>1, RequestsStay DEF LineageInv
  <2> QED
    BY <2>4, <2>5, <2>6, <2>8 DEF LineageInv
<1> QED
  BY <1>2, <1>3 DEF InsertVersion

(* Each step adds to the history and keeps the invariant.                  *)
LEMMA LineageStep ==
    ASSUME LineageInv, [AuthoringNext]_authoringVars
    PROVE  HistoryGrows /\ LineageInv'
<1>1. ASSUME UNCHANGED <<versions, runs, content>>, RunsTypeOK', RunRequests'
      PROVE  HistoryGrows /\ LineageInv'
  BY <1>1, HistoryStays DEF LineageInv
<1>2. ASSUME NEW c \in Clients, UNCHANGED <<versions, runs, content>>,
             \/ Respond(c)
             \/ /\ \E label \in PCs \ {"idle", "run"} : Goto(c, label)
                /\ pc[c] # "idle" /\ UNCHANGED work
                /\ DOMAIN tree' = Clients /\ \A d \in Clients \ {c} : tree'[d] = tree[d]
             \/ /\ Goto(c, "run")
                /\ pc[c] # "idle" /\ work[c].do = "run" /\ UNCHANGED <<work, tree>>
                /\ tree[c] \in Trees'
             \/ \E request : \E label \in PCs \ {"idle", "run"} :
                /\ Goto(c, label) /\ work' = [work EXCEPT ![c] = request] /\ UNCHANGED tree
                /\ request.do = "run" => AsksAsBody(request)
      PROVE  HistoryGrows /\ LineageInv'
  <2>1. RunsTypeOK' /\ RunRequests'
    BY <1>2, RequestsStay DEF LineageInv
  <2> QED
    BY <1>1, <1>2, <2>1
<1>3. ASSUME UNCHANGED <<versions, runs, content, pc, work, tree>>
      PROVE  HistoryGrows /\ LineageInv'
  BY <1>1, <1>3 DEF LineageInv, RunsTypeOK, RunRequests, Trees
<1>4. ASSUME NEW c \in Clients, Continue(c)
      PROVE  HistoryGrows /\ LineageInv'
  <2>0. DOMAIN tree = Clients
    BY DEF LineageInv, RunsTypeOK
  <2>1. CASE StartDelete(c)
    BY <1>2, <2>0, <2>1 DEF StartDelete, PCs
  <2>2. CASE LockNode(c) \/ DeleteNodes(c) \/ DeadlockDetected(c)
    BY <1>2, <1>3, <2>0, <2>2 DEF LockNode, DeleteNodes, DeadlockDetected, localVars, PCs
  <2>3. CASE InsertNodes(c)
    <3>1. /\ UNCHANGED <<versions, runs, content>> /\ pc[c] # "idle"
          /\ Respond(c) \/ (Goto(c, "load") /\ UNCHANGED <<work, tree>>)
      BY <2>3 DEF InsertNodes, localVars
    <3> QED
      BY <1>2, <2>0, <3>1 DEF PCs
  <2>4. CASE LoadNodes(c)
    <3>1. /\ UNCHANGED <<versions, runs, content, work>> /\ pc[c] # "idle" /\ Goto(c, "number")
          /\ DOMAIN tree' = Clients /\ \A d \in Clients \ {c} : tree'[d] = tree[d]
      BY <2>0, <2>4 DEF LoadNodes
    <3> QED
      BY <1>2, <3>1 DEF PCs
  <2>5. CASE FindVersion(c) \/ NextVersion(c)
    <3>1. /\ UNCHANGED <<versions, runs, content>> /\ pc[c] # "idle"
          /\ \/ tree[c] \in Trees /\ Compiled(c)
             \/ \E label \in {"max", "version"} : Goto(c, label) /\ UNCHANGED <<work, tree>>
      BY <2>5 DEF FindVersion, NextVersion, localVars
    <3>2. CASE tree[c] \in Trees /\ Compiled(c)
      <4>1. \/ Respond(c)
            \/ Goto(c, "run") /\ work[c].do = "run" /\ UNCHANGED <<work, tree>>
        BY <3>2 DEF Compiled, localVars
      <4>2. tree[c] \in Trees'
        BY <3>1, <3>2 DEF Trees
      <4> QED
        BY <1>2, <3>1, <4>1, <4>2
    <3>3. CASE \E label \in {"max", "version"} : Goto(c, label) /\ UNCHANGED <<work, tree>>
      BY <1>2, <2>0, <3>1, <3>3 DEF PCs
    <3> QED
      BY <3>1, <3>2, <3>3
  <2>6. CASE InsertVersion(c)
    BY <2>6, VersionIsInserted
  <2>7. CASE CreateRun(c)
    <3>1. Respond(c) /\ UNCHANGED <<versions, content>>
      BY <2>7 DEF CreateRun
    <3>2. RunsTypeOK' /\ RunRequests'
      BY <3>1, RequestsStay DEF LineageInv
    <3>3. NumbersAreUnique'
      BY <3>1 DEF LineageInv, NumbersAreUnique
    <3> QED
      BY <2>7, <3>2, <3>3, RunIsCreated DEF LineageInv
  <2> QED
    BY <1>4, <2>1, <2>2, <2>3, <2>4, <2>5, <2>6, <2>7 DEF Continue
<1>5. ASSUME NEW c \in Clients, NEW body \in Bodies, SaveSequence(c, body)
      PROVE  HistoryGrows /\ LineageInv'
  <2> DEFINE request == [do |-> "save", id |-> requests + 1, nodes |-> body.nodes]
  <2>1. /\ UNCHANGED <<versions, runs, content, tree>>
        /\ Goto(c, "replace") /\ work' = [work EXCEPT ![c] = request]
    BY <1>5 DEF SaveSequence, Begin
  <2>2. request.do # "run"
    OBVIOUS
  <2> HIDE DEF request
  <2> QED
    BY <1>2, <2>1, <2>2 DEF PCs
<1>6. ASSUME NEW c \in Clients, CompileSequence(c)
      PROVE  HistoryGrows /\ LineageInv'
  <2> DEFINE request == [do |-> "compile"]
  <2>1. /\ UNCHANGED <<versions, runs, content, tree>>
        /\ Goto(c, "load") /\ work' = [work EXCEPT ![c] = request]
    BY <1>6 DEF CompileSequence, Begin
  <2>2. request.do # "run"
    OBVIOUS
  <2> HIDE DEF request
  <2> QED
    BY <1>2, <2>1, <2>2 DEF PCs
<1>7. ASSUME NEW c \in Clients, NEW body \in RunBodies, CreateSequenceRun(c, body)
      PROVE  HistoryGrows /\ LineageInv'
  <2> DEFINE request == [do |-> "run", value |-> body.value, resolve |-> body.resolve]
  <2>1. /\ UNCHANGED <<versions, runs, content, tree>>
        /\ Goto(c, "load") /\ work' = [work EXCEPT ![c] = request]
    BY <1>7 DEF CreateSequenceRun, Begin
  <2>2. AsksAsBody(request)
    BY DEF AsksAsBody
  <2> HIDE DEF request
  <2> QED
    BY <1>2, <2>1, <2>2 DEF PCs
<1>8. ASSUME NEW c \in Clients, NEW parent, NEW position, AddStep(c, parent, position)
      PROVE  HistoryGrows /\ LineageInv'
  BY <1>3, <1>8 DEF AddStep, localVars
<1>9. ASSUME NEW n \in Names, CreateContentVersion(n)
      PROVE  HistoryGrows /\ LineageInv'
  <2>1. /\ UNCHANGED <<versions, runs, pc, work, tree>>
        /\ content' = [content EXCEPT ![n] = @ + 1]
    BY <1>9 DEF CreateContentVersion, localVars
  <2>2. RunsTypeOK' /\ RunRequests' /\ NumbersAreUnique'
    BY <2>1 DEF LineageInv, RunsTypeOK, RunRequests, NumbersAreUnique, Trees
  <2>3. HistoryGrows
    BY <2>1 DEF HistoryGrows, LineageInv, RunsTypeOK
  <2> QED
    BY <2>1, <2>2, <2>3, RunsStay DEF LineageInv
<1>10. CASE UNCHANGED authoringVars
  BY <1>3, <1>10 DEF authoringVars, localVars
<1> QED
  BY <1>4, <1>5, <1>6, <1>7, <1>8, <1>9, <1>10 DEF AuthoringNext

(* Nothing has a version and there is no run at first.                     *)
LEMMA LineageInvInit == AuthoringInit => LineageInv
  BY DEF AuthoringInit, LineageInv, RunsTypeOK, RunRequests, NumbersAreUnique,
         RunsAreOfVersions

(* create_run_from_version and resolve_run_content_manifest: the draft,    *)
(* the versions and the content change between the transactions of a       *)
(* request, yet every run is the flattening of the one version it names,   *)
(* with each step pending or skipped by the variable it was asked for, and *)
(* when it resolves content it pins an existing version of every reference *)
(* of that tree. What the flattening is, is RunsAreTheTree below.          *)
THEOREM RunsFollowVersions ==
    AuthoringSpec => [](NumbersAreUnique /\ RunsAreOfVersions)
<1>1. LineageInv => NumbersAreUnique /\ RunsAreOfVersions
  BY DEF LineageInv
<1>2. LineageInv /\ [AuthoringNext]_authoringVars => LineageInv'
  BY LineageStep
<1> QED
  BY <1>1, <1>2, LineageInvInit, PTL DEF AuthoringSpec

(* compile_sequence and create_run_from_version only insert: a version     *)
(* that was compiled, a run that was created and the content it pins stay  *)
(* what they are through every later save, compilation and run.            *)
THEOREM HistoryIsKept == AuthoringSpec => [][HistoryGrows]_authoringVars
<1>1. LineageInv /\ [AuthoringNext]_authoringVars => [HistoryGrows]_authoringVars
  BY LineageStep
<1>2. LineageInv /\ [AuthoringNext]_authoringVars => LineageInv'
  BY LineageStep
<1> QED
  BY <1>1, <1>2, LineageInvInit, PTL DEF AuthoringSpec

-----------------------------------------------------------------------------
(* Trees                                                                   *)

(* A set of naturals that holds 0 and with n also n + 1 holds them all.    *)
LEMMA AllNaturals ==
    ASSUME NEW S \in SUBSET Nat, 0 \in S, \A n \in S : n + 1 \in S
    PROVE  \A n \in Nat : n \in S
<1> SUFFICES ASSUME Nat \ S # {} PROVE FALSE
  OBVIOUS
<1> DEFINE R == OpToRel(<, Nat)
<1>1. \E n \in Nat \ S : \A k \in Nat \ S : ~(<<k, n>> \in R)
  BY NatLessThanWellFounded, WFMin
<1>2. \A k, n \in Nat : k < n => <<k, n>> \in R
  BY DEF OpToRel
<1> HIDE DEF R
<1>3. PICK n \in Nat \ S : \A k \in Nat \ S : ~(<<k, n>> \in R)
  BY <1>1
<1>4. n # 0 /\ n - 1 \in Nat /\ n - 1 < n /\ (n - 1) + 1 = n
  BY <1>3
<1>5. n - 1 \in S
  BY <1>2, <1>3, <1>4
<1> QED
  BY <1>3, <1>4, <1>5

(* What the steps of a version are to be taken from: nodes inside others   *)
(* that are there, groups only inside groups, no two in one place, and     *)
(* nothing inside itself, which a rank of the nodes shows.                 *)
Contained(t) ==
    /\ None \notin DOMAIN t
    /\ \A i \in DOMAIN t :
          /\ t[i].node_type \in {"group", "step"} /\ t[i].position \in Nat
          /\ t[i].parent_id \in DOMAIN t \cup {None}
          /\ t[i].node_type = "group" /\ t[i].parent_id # None =>
                t[t[i].parent_id].node_type = "group"

Bounded(t) == \E m \in Nat : \A i \in DOMAIN t : t[i].position < m

RankedBy(t, rank, n) ==
    /\ n \in Nat /\ rank \in [DOMAIN t -> Nat]
    /\ \A i \in DOMAIN t :
          rank[i] < n /\ (t[i].parent_id # None => rank[t[i].parent_id] < rank[i])

Forest(t) ==
    Contained(t) /\ UniquePositions(t) /\ Bounded(t) /\ \E rank, n : RankedBy(t, rank, n)

(* The nodes at a place <<parent, position>>, whether no node has so high  *)
(* a position, and what _flatten_steps puts there.                         *)
At(t, x) == {i \in DOMAIN t : t[i].parent_id = x[1] /\ t[i].position = x[2]}

Beyond(t, p) == \A i \in DOMAIN t : t[i].position < p

Piece(t, f, x) ==
    CASE At(t, x) = {} -> <<>>
      [] \E i \in At(t, x) : t[i].node_type = "step" -> <<CHOOSE i \in At(t, x) : TRUE>>
      [] OTHER -> f[<<CHOOSE i \in At(t, x) : TRUE, 0>>]

Parents(t) == DOMAIN t \cup {None}

Places(t) == Parents(t) \X Nat

WalkFrom(t, f, x) ==
    IF Beyond(t, x[2]) THEN <<>> ELSE Piece(t, f, x) \o f[<<x[1], x[2] + 1>>]

IsWalk(t, f) == f = [x \in Places(t) |-> WalkFrom(t, f, x)]

(* The height of a parent: what is inside it is lower.                     *)
HeightOf(t, height) ==
    /\ height \in [Parents(t) -> Nat]
    /\ \A i \in DOMAIN t : height[i] < height[t[i].parent_id] /\ height[i] < height[None]

(* The lower the rank of a node, the greater its height; the root is above *)
(* all.                                                                    *)
LEMMA HeightExists ==
    ASSUME NEW t, Forest(t)
    PROVE  \E height : HeightOf(t, height)
<1>1. PICK rank, n : RankedBy(t, rank, n)
  BY DEF Forest
<1> DEFINE height == [x \in Parents(t) |-> IF x = None THEN n ELSE n - rank[x] - 1]
<1>2. \A i \in DOMAIN t : i # None /\ t[i].parent_id \in Parents(t) /\ i \in Parents(t)
  BY DEF Forest, Contained, Parents
<1>3. n \in Nat /\ \A i \in DOMAIN t : rank[i] \in Nat /\ rank[i] < n
  BY <1>1 DEF RankedBy
<1>4. height \in [Parents(t) -> Nat]
  BY <1>2, <1>3 DEF Parents
<1>5. ASSUME NEW i \in DOMAIN t
      PROVE  height[i] < height[t[i].parent_id] /\ height[i] < height[None]
  <2>1. height[i] = n - rank[i] - 1 /\ height[None] = n
    BY <1>2 DEF Parents
  <2>2. CASE t[i].parent_id = None
    BY <1>2, <1>3, <2>1, <2>2
  <2>3. CASE t[i].parent_id # None
    <3>1. t[i].parent_id \in DOMAIN t
      BY <1>2, <2>3 DEF Parents
    <3>2. rank[t[i].parent_id] < rank[i]
      BY <1>1, <2>3 DEF RankedBy
    <3>3. height[t[i].parent_id] = n - rank[t[i].parent_id] - 1
      BY <1>2, <2>3, <3>1
    <3> QED
      BY <1>3, <2>1, <3>1, <3>2, <3>3
  <2> QED
    BY <2>2, <2>3
<1> QED
  BY <1>4, <1>5 DEF HeightOf

(* Induction along the walk: what holds beyond all positions, and at a     *)
(* place when it holds at the next one and at the beginning of the nodes   *)
(* there, holds everywhere.                                                *)
LEMMA AlongTheWalk ==
    ASSUME NEW t, Forest(t), NEW G \in SUBSET Places(t),
           \A x \in Places(t) :
               \/ Beyond(t, x[2])
               \/ <<x[1], x[2] + 1>> \in G /\ \A i \in At(t, x) : <<i, 0>> \in G
               => x \in G
    PROVE  \A x \in Places(t) : x \in G
<1>1. PICK height : HeightOf(t, height)
  BY HeightExists
<1>2. PICK m \in Nat : \A i \in DOMAIN t : t[i].position < m
  BY DEF Forest, Bounded
<1> DEFINE Lower(k) == \A y \in Parents(t) : height[y] < k => \A p \in Nat : <<y, p>> \in G
           S == {k \in Nat : Lower(k)}
<1>3. ASSUME NEW k \in Nat, Lower(k) PROVE Lower(k + 1)
  <2> SUFFICES ASSUME NEW y \in Parents(t), height[y] < k + 1
               PROVE  \A p \in Nat : <<y, p>> \in G
    OBVIOUS
  <2>1. ASSUME NEW p \in Nat, NEW i \in At(t, <<y, p>>) PROVE <<i, 0>> \in G
    <3>1. i \in DOMAIN t /\ t[i].parent_id = y
      BY <2>1 DEF At
    <3>2. i \in Parents(t) /\ height[i] < height[y]
      BY <1>1, <3>1 DEF HeightOf, Parents
    <3>3. height[i] \in Nat /\ height[y] \in Nat
      BY <1>1, <3>2 DEF HeightOf
    <3>4. height[i] < k
      BY <3>2, <3>3
    <3> QED
      BY <1>3, <3>2, <3>4
  <2> DEFINE T == {q \in Nat : \A p \in Nat : p + q >= m => <<y, p>> \in G}
  <2>2. 0 \in T
    <3> SUFFICES ASSUME NEW p \in Nat, p >= m PROVE <<y, p>> \in G
      OBVIOUS
    <3>1. Beyond(t, p)
      BY <1>2 DEF Beyond, Forest, Contained
    <3> QED
      BY <3>1 DEF Places
  <2>3. ASSUME NEW q \in T PROVE q + 1 \in T
    <3> SUFFICES ASSUME NEW p \in Nat, p + (q + 1) >= m PROVE <<y, p>> \in G
      OBVIOUS
    <3>1. p + 1 \in Nat /\ (p + 1) + q >= m
      OBVIOUS
    <3>2. <<y, p + 1>> \in G
      BY <2>3, <3>1
    <3> QED
      BY <2>1, <3>2 DEF Places
  <2> HIDE DEF T
  <2>4. \A q \in Nat : q \in T
    <3>1. T \in SUBSET Nat
      BY DEF T
    <3> QED
      BY <2>2, <2>3, <3>1, AllNaturals
  <2>5. m \in T
    BY <2>4
  <2> QED
    BY <2>5 DEF T
<1>4. \A k \in Nat : k \in S
  <2>1. 0 \in S
    BY <1>1 DEF HeightOf
  <2>2. \A k \in S : k + 1 \in S
    BY <1>3
  <2> HIDE DEF Lower
  <2>3. S \in SUBSET Nat
    OBVIOUS
  <2> HIDE DEF S
  <2> QED
    BY <2>1, <2>2, <2>3, AllNaturals
<1> SUFFICES ASSUME NEW y \in Parents(t), NEW p \in Nat PROVE <<y, p>> \in G
  BY DEF Places
<1>5. height[y] \in Nat /\ height[y] + 1 \in Nat /\ height[y] < height[y] + 1
  BY <1>1 DEF HeightOf
<1>6. Lower(height[y] + 1)
  BY <1>4, <1>5
<1> QED
  BY <1>5, <1>6

(* From each position, the pieces from there to the last.                  *)
Chain(X, chain, piece, stop) ==
    /\ chain \in [Nat -> Seq(X)]
    /\ \A p \in Nat : chain[p] = IF p \in stop THEN <<>> ELSE piece[p] \o chain[p + 1]

(* There is such a chain: one piece more in front of a shorter one.        *)
LEMMA ChainExists ==
    ASSUME NEW X, NEW m \in Nat, NEW pieces \in [Nat -> Seq(X)], NEW ends \in SUBSET Nat,
           \A p \in Nat : p >= m => p \in ends
    PROVE  \E chain : Chain(X, chain, pieces, ends)
<1> DEFINE Found(k) == \A piece \in [Nat -> Seq(X)], stop \in SUBSET Nat :
                           (\A p \in Nat : p >= k => p \in stop) =>
                               \E g : Chain(X, g, piece, stop)
           S == {k \in Nat : Found(k)}
<1>1. Found(0)
  <2> SUFFICES ASSUME NEW piece \in [Nat -> Seq(X)], NEW stop \in SUBSET Nat,
                      \A p \in Nat : p >= 0 => p \in stop
               PROVE  \E g : Chain(X, g, piece, stop)
    OBVIOUS
  <2> DEFINE g == [p \in Nat |-> <<>>]
  <2>1. <<>> \in Seq(X)
    OBVIOUS
  <2>2. g \in [Nat -> Seq(X)]
    BY <2>1
  <2>3. Chain(X, g, piece, stop)
    BY <2>2 DEF Chain
  <2> QED
    BY <2>3
<1>2. ASSUME NEW k \in Nat, Found(k) PROVE Found(k + 1)
  <2> SUFFICES ASSUME NEW piece \in [Nat -> Seq(X)], NEW stop \in SUBSET Nat,
                      \A p \in Nat : p >= k + 1 => p \in stop
               PROVE  \E g : Chain(X, g, piece, stop)
    OBVIOUS
  <2> DEFINE later == [p \in Nat |-> piece[p + 1]]
             last == {p \in Nat : p + 1 \in stop}
  <2>1. later \in [Nat -> Seq(X)] /\ last \in SUBSET Nat
    OBVIOUS
  <2>2. \A p \in Nat : p >= k => p \in last
    OBVIOUS
  <2>3. PICK h : Chain(X, h, later, last)
    <3> HIDE DEF later, last
    <3> QED
      BY <1>2, <2>1, <2>2
  <2> DEFINE first == IF 0 \in stop THEN <<>> ELSE piece[0] \o h[0]
             g == [p \in Nat |-> IF p = 0 THEN first ELSE h[p - 1]]
  <2>4. first \in Seq(X) /\ h \in [Nat -> Seq(X)]
    BY <2>3 DEF Chain
  <2>5. g \in [Nat -> Seq(X)]
    <3> HIDE DEF first
    <3>1. \A p \in Nat : p # 0 => p - 1 \in Nat
      OBVIOUS
    <3> QED
      BY <2>4, <3>1
  <2>6. ASSUME NEW p \in Nat PROVE g[p] = IF p \in stop THEN <<>> ELSE piece[p] \o g[p + 1]
    <3>1. CASE p = 0
      <4>1. g[p] = first /\ g[p + 1] = h[0]
        BY <3>1
      <4> QED
        BY <3>1, <4>1
    <3>2. CASE p # 0
      <4>1. p - 1 \in Nat /\ (p - 1) + 1 = p /\ p + 1 # 0 /\ (p + 1) - 1 = p /\ p + 1 \in Nat
        BY <3>2
      <4>2. g[p] = h[p - 1] /\ g[p + 1] = h[p]
        BY <3>2, <4>1
      <4>3. later[p - 1] = piece[p] /\ (p - 1 \in last <=> p \in stop)
        BY <4>1
      <4> HIDE DEF later, last, g
      <4>4. h[p - 1] = IF p - 1 \in last THEN <<>> ELSE later[p - 1] \o h[(p - 1) + 1]
        BY <2>3, <4>1 DEF Chain
      <4>5. h[p - 1] = IF p \in stop THEN <<>> ELSE piece[p] \o h[p]
        BY <4>1, <4>3, <4>4
      <4> QED
        BY <4>2, <4>5
    <3> QED
      BY <3>1, <3>2
  <2> HIDE DEF g
  <2>7. Chain(X, g, piece, stop)
    BY <2>5, <2>6 DEF Chain
  <2> QED
    BY <2>7
<1> HIDE DEF Found
<1>3. \A k \in Nat : k \in S
  <2>1. S \in SUBSET Nat
    OBVIOUS
  <2>2. 0 \in S
    BY <1>1
  <2>3. \A k \in S : k + 1 \in S
    BY <1>2
  <2> HIDE DEF S
  <2> QED
    BY <2>1, <2>2, <2>3, AllNaturals
<1>4. Found(m)
  BY <1>3
<1> QED
  BY <1>4 DEF Found

(* The unique indexes: a place holds one node at most.                     *)
LEMMA PieceIsOneNode ==
    ASSUME NEW t, Forest(t), NEW x \in Places(t), NEW f
    PROVE  \/ At(t, x) = {} /\ Piece(t, f, x) = <<>>
           \/ \E i \in DOMAIN t :
                 /\ At(t, x) = {i} /\ i \in Parents(t)
                 /\ t[i].parent_id = x[1] /\ t[i].position = x[2]
                 /\ \/ t[i].node_type = "step" /\ Piece(t, f, x) = <<i>>
                    \/ t[i].node_type = "group" /\ Piece(t, f, x) = f[<<i, 0>>]
<1>1. CASE At(t, x) = {}
  BY <1>1 DEF Piece
<1>2. CASE At(t, x) # {}
  <2>1. PICK i : i \in At(t, x)
    BY <1>2
  <2>2. i \in DOMAIN t /\ t[i].parent_id = x[1] /\ t[i].position = x[2]
    BY <2>1 DEF At
  <2>3. At(t, x) = {i}
    <3> SUFFICES ASSUME NEW j \in At(t, x) PROVE j = i
      BY <2>1
    <3>1. j \in DOMAIN t /\ t[j].parent_id = x[1] /\ t[j].position = x[2]
      BY DEF At
    <3> QED
      BY <2>2, <3>1 DEF Forest, UniquePositions, Place
  <2>4. (CHOOSE j \in At(t, x) : TRUE) = i
    BY <2>3
  <2>5. t[i].node_type \in {"group", "step"} /\ i \in Parents(t)
    BY <2>2 DEF Forest, Contained, Parents
  <2>6. CASE t[i].node_type = "step"
    <3>1. \E j \in At(t, x) : t[j].node_type = "step"
      BY <2>1, <2>6
    <3>2. Piece(t, f, x) = <<i>>
      BY <1>2, <2>4, <3>1 DEF Piece
    <3> QED
      BY <2>2, <2>3, <2>5, <2>6, <3>2
  <2>7. CASE t[i].node_type = "group"
    <3>1. ~\E j \in At(t, x) : t[j].node_type = "step"
      BY <2>3, <2>7
    <3>2. Piece(t, f, x) = f[<<i, 0>>]
      BY <1>2, <2>4, <3>1 DEF Piece
    <3> QED
      BY <2>2, <2>3, <2>5, <2>7, <3>2
  <2> QED
    BY <2>5, <2>6, <2>7
<1> QED
  BY <1>1, <1>2

(* Two walks that agree on the nodes at a place put the same there.        *)
LEMMA PieceDependsOn ==
    ASSUME NEW t, Forest(t), NEW x \in Places(t), NEW f, NEW g,
           \A i \in At(t, x) : f[<<i, 0>>] = g[<<i, 0>>]
    PROVE  Piece(t, f, x) = Piece(t, g, x)
<1>1. CASE At(t, x) = {}
  BY <1>1 DEF Piece
<1>2. CASE At(t, x) # {}
  <2>1. (CHOOSE j \in At(t, x) : TRUE) \in At(t, x)
    BY <1>2
  <2> QED
    BY <2>1 DEF Piece
<1> QED
  BY <1>1, <1>2

(* _flatten_steps ends: level by level, from the parents that are lowest,  *)
(* there is a function that its recursion describes.                       *)
LEMMA WalkExists ==
    ASSUME NEW t, Forest(t)
    PROVE  \E f : IsWalk(t, f)
<1> DEFINE X == DOMAIN t
<1>1. PICK height : HeightOf(t, height)
  BY HeightExists
<1>2. PICK m \in Nat : \A i \in DOMAIN t : t[i].position < m
  BY DEF Forest, Bounded
<1> DEFINE Low(k) == {x \in Places(t) : height[x[1]] < k}
           Walks(f, k) == f \in [Low(k) -> Seq(X)] /\ \A x \in Low(k) : f[x] = WalkFrom(t, f, x)
           S == {k \in Nat : \E f : Walks(f, k)}
<1>3. 0 \in S
  <2>1. Low(0) = {}
    BY <1>1 DEF HeightOf, Places
  <2>2. Walks([x \in Low(0) |-> <<>>], 0)
    BY <2>1
  <2> QED
    BY <2>2
<1>4. ASSUME NEW k \in Nat, NEW f, Walks(f, k)
      PROVE  \E g : Walks(g, k + 1)
  <2> DEFINE stop == {p \in Nat : Beyond(t, p)}
             piece(y) == [p \in Nat |-> Piece(t, f, <<y, p>>)]
             Level == {y \in Parents(t) : height[y] = k}
  <2>1. ASSUME NEW x \in Places(t), height[x[1]] <= k, NEW i \in At(t, x)
        PROVE  <<i, 0>> \in Low(k)
    <3>1. i \in DOMAIN t /\ t[i].parent_id = x[1] /\ x[1] \in Parents(t)
      BY <2>1 DEF At, Places
    <3>2. i \in Parents(t) /\ height[i] < height[x[1]]
      BY <1>1, <3>1 DEF HeightOf, Parents
    <3>3. height[i] \in Nat /\ height[x[1]] \in Nat
      BY <1>1, <3>1, <3>2 DEF HeightOf
    <3>4. height[i] < k
      BY <2>1, <3>2, <3>3
    <3> QED
      BY <3>2, <3>4 DEF Places
  <2>2. ASSUME NEW y \in Level PROVE \E c : Chain(X, c, piece(y), stop)
    <3>1. ASSUME NEW x \in Places(t), height[x[1]] <= k PROVE Piece(t, f, x) \in Seq(X)
      <4>1. \A i \in At(t, x) : f[<<i, 0>>] \in Seq(X)
        BY <1>4, <2>1, <3>1
      <4>2. \A i \in X : <<i>> \in Seq(X)
        OBVIOUS
      <4>3. <<>> \in Seq(X)
        OBVIOUS
      <4>4. \/ At(t, x) = {} /\ Piece(t, f, x) = <<>>
            \/ \E i \in X : /\ At(t, x) = {i}
                            /\ Piece(t, f, x) = <<i>> \/ Piece(t, f, x) = f[<<i, 0>>]
        BY PieceIsOneNode
      <4> QED
        BY <4>1, <4>2, <4>3, <4>4
    <3>2. piece(y) \in [Nat -> Seq(X)]
      <4>1. \A p \in Nat : <<y, p>> \in Places(t) /\ height[<<y, p>>[1]] <= k
        BY DEF Places
      <4> QED
        BY <3>1, <4>1
    <3>3. stop \in SUBSET Nat
      OBVIOUS
    <3>4. \A p \in Nat : p >= m => p \in stop
      BY <1>2 DEF Beyond, Forest, Contained
    <3> HIDE DEF stop, piece
    <3> QED
      BY <3>2, <3>3, <3>4, ChainExists
  <2> DEFINE chain == [y \in Level |-> CHOOSE c : Chain(X, c, piece(y), stop)]
             g == [x \in Low(k + 1) |-> IF height[x[1]] < k THEN f[x] ELSE chain[x[1]][x[2]]]
  <2>3. \A y \in Level : Chain(X, chain[y], piece(y), stop)
    <3> HIDE DEF piece, stop, Level
    <3> QED
      BY <2>2
  <2>4. ASSUME NEW x \in Low(k + 1)
        PROVE  /\ x = <<x[1], x[2]>> /\ x[1] \in Parents(t) /\ x[2] \in Nat /\ x \in Places(t)
               /\ height[x[1]] \in Nat
               /\ \/ height[x[1]] < k /\ x \in Low(k)
                  \/ height[x[1]] = k /\ x[1] \in Level
    <3>1. x \in Places(t) /\ height[x[1]] < k + 1
      BY <2>4
    <3>2. x = <<x[1], x[2]>> /\ x[1] \in Parents(t) /\ x[2] \in Nat
      BY <3>1 DEF Places
    <3>3. height[x[1]] \in Nat
      BY <1>1, <3>2 DEF HeightOf
    <3> QED
      BY <3>1, <3>2, <3>3
  <2>5. ASSUME NEW x \in Low(k)
        PROVE  x \in Low(k + 1) /\ g[x] = f[x]
    <3>1. x \in Places(t) /\ height[x[1]] < k /\ x[1] \in Parents(t)
      BY <2>5 DEF Places
    <3>2. height[x[1]] \in Nat
      BY <1>1, <3>1 DEF HeightOf
    <3> QED
      BY <3>1, <3>2
  <2>6. ASSUME NEW y \in Level, NEW p \in Nat
        PROVE  <<y, p>> \in Low(k + 1) /\ g[<<y, p>>] = chain[y][p]
    <3>1. <<y, p>> \in Places(t) /\ height[y] = k
      BY <2>6 DEF Places
    <3> HIDE DEF chain
    <3> QED
      BY <3>1
  <2> HIDE DEF g, chain
  <2>7. ASSUME NEW x \in Low(k + 1) PROVE g[x] \in Seq(X) /\ g[x] = WalkFrom(t, g, x)
    <3>1. \A i \in At(t, x) : g[<<i, 0>>] = f[<<i, 0>>]
      <4>1. x \in Places(t) /\ height[x[1]] <= k
        BY <2>4
      <4> HIDE DEF Low
      <4> QED
        BY <2>1, <2>5, <4>1
    <3>2. Piece(t, g, x) = Piece(t, f, x)
      BY <2>4, <3>1, PieceDependsOn
    <3>3. CASE x \in Low(k)
      <4>1. g[x] = f[x] /\ f[x] \in Seq(X) /\ f[x] = WalkFrom(t, f, x)
        BY <1>4, <2>5, <3>3
      <4>2. <<x[1], x[2] + 1>> \in Low(k)
        BY <2>4, <3>3 DEF Places
      <4>3. g[<<x[1], x[2] + 1>>] = f[<<x[1], x[2] + 1>>]
        BY <2>5, <4>2
      <4> QED
        BY <3>2, <4>1, <4>3 DEF WalkFrom
    <3>4. CASE x[1] \in Level
      <4>1. g[x] = chain[x[1]][x[2]] /\ g[<<x[1], x[2] + 1>>] = chain[x[1]][x[2] + 1]
        BY <2>4, <2>6, <3>4
      <4>2. Chain(X, chain[x[1]], piece(x[1]), stop)
        BY <2>3, <3>4
      <4>3. chain[x[1]][x[2]] \in Seq(X)
        BY <2>4, <4>2 DEF Chain
      <4>4. chain[x[1]][x[2]] = IF Beyond(t, x[2]) THEN <<>>
                                ELSE Piece(t, f, <<x[1], x[2]>>) \o chain[x[1]][x[2] + 1]
        BY <2>4, <4>2 DEF Chain
      <4> QED
        BY <2>4, <3>2, <4>1, <4>3, <4>4 DEF WalkFrom
    <3> QED
      BY <2>4, <3>3, <3>4
  <2>8. g \in [Low(k + 1) -> Seq(X)]
    <3>1. DOMAIN g = Low(k + 1) /\ g = [x \in Low(k + 1) |-> g[x]]
      BY DEF g
    <3> HIDE DEF Low
    <3> QED
      BY <2>7, <3>1
  <2> QED
    BY <2>7, <2>8
<1>5. \A k \in Nat : k \in S
  <2>1. S \in SUBSET Nat /\ \A k \in S : k + 1 \in S
    <3> HIDE DEF Walks
    <3> QED
      BY <1>4
  <2> HIDE DEF S
  <2> QED
    BY <1>3, <2>1, AllNaturals
<1> DEFINE top == height[None] + 1
<1>6. height[None] \in Nat /\ top \in Nat
  BY <1>1 DEF HeightOf, Parents
<1>7. Low(top) = Places(t)
  <2>1. \A y \in Parents(t) : height[y] \in Nat /\ height[y] <= height[None]
    BY <1>1, <1>6 DEF HeightOf, Parents
  <2>2. \A y \in Parents(t) : height[y] < top
    BY <1>6, <2>1
  <2> HIDE DEF top
  <2> QED
    BY <2>2 DEF Places
<1>8. PICK f : Walks(f, top)
  BY <1>5, <1>6
<1>9. f = [x \in Places(t) |-> f[x]] /\ \A x \in Places(t) : f[x] = WalkFrom(t, f, x)
  <2> HIDE DEF Low, top
  <2> QED
    BY <1>7, <1>8
<1> QED
  BY <1>9 DEF IsWalk

(* Walk is such a function at the root.                                    *)
LEMMA WalkIsAWalk ==
    ASSUME NEW t, Forest(t)
    PROVE  \E walk : /\ DOMAIN walk = Places(t)
                     /\ \A x \in Places(t) : walk[x] = WalkFrom(t, walk, x)
                     /\ FlattenSteps(t) = walk[<<None, 0>>]
<1> DEFINE walk == CHOOSE f : IsWalk(t, f)
<1>1. IsWalk(t, walk)
  BY WalkExists
<1>2. Walk(t) = walk[<<None, 0>>]
  BY DEF Walk, IsWalk, WalkFrom, Places, Parents, Beyond, Piece, At
<1> HIDE DEF walk
<1>3. DOMAIN walk = Places(t) /\ \A x \in Places(t) : walk[x] = WalkFrom(t, walk, x)
  BY <1>1 DEF IsWalk
<1> QED
  BY <1>2, <1>3 DEF FlattenSteps

(* A function that the recursion of Path describes.                        *)
IsPath(t, f) ==
    f = [j \in DOMAIN t |-> (IF t[j].parent_id = None THEN <<>> ELSE f[t[j].parent_id])
                               \o <<t[j].position>>]

(* Paths exist: a node is inside one of a lower rank.                      *)
LEMMA PathExists ==
    ASSUME NEW t, Forest(t)
    PROVE  \E f : IsPath(t, f)
<1>1. PICK rank, n : RankedBy(t, rank, n)
  BY DEF Forest
<1> DEFINE Low(k) == {i \in DOMAIN t : rank[i] < k}
           From(f, j) == (IF t[j].parent_id = None THEN <<>> ELSE f[t[j].parent_id])
                            \o <<t[j].position>>
           Paths(f, k) == DOMAIN f = Low(k) /\ f = [j \in Low(k) |-> From(f, j)]
           S == {k \in Nat : \E f : Paths(f, k)}
<1>2. \A i \in DOMAIN t : /\ rank[i] \in Nat /\ rank[i] < n
                          /\ t[i].parent_id # None =>
                                t[i].parent_id \in DOMAIN t /\ rank[t[i].parent_id] < rank[i]
  BY <1>1 DEF RankedBy, Forest, Contained
<1>3. 0 \in S
  <2>1. Low(0) = {}
    BY <1>2
  <2>2. Paths([j \in Low(0) |-> <<>>], 0)
    BY <2>1
  <2> QED
    BY <2>2
<1>4. ASSUME NEW k \in Nat, NEW f, Paths(f, k)
      PROVE  \E g : Paths(g, k + 1)
  <2> DEFINE g == [j \in Low(k + 1) |-> From(f, j)]
  <2>1. ASSUME NEW j \in Low(k + 1), t[j].parent_id # None
        PROVE  t[j].parent_id \in Low(k)
    BY <1>2, <2>1
  <2>2. \A j \in Low(k) : j \in Low(k + 1)
    BY <1>2
  <2>3. ASSUME NEW j \in Low(k) PROVE g[j] = f[j]
    <3> HIDE DEF From, Low
    <3> QED
      BY <1>4, <2>2, <2>3
  <2>4. ASSUME NEW j \in Low(k + 1) PROVE From(f, j) = From(g, j)
    <3>1. t[j].parent_id # None => f[t[j].parent_id] = g[t[j].parent_id]
      BY <2>1, <2>3, <2>4
    <3> HIDE DEF g
    <3> QED
      BY <3>1
  <2>5. DOMAIN g = Low(k + 1)
    OBVIOUS
  <2>6. g = [j \in Low(k + 1) |-> From(g, j)]
    <3> HIDE DEF From, Low
    <3> QED
      BY <2>4
  <2> HIDE DEF g
  <2> QED
    BY <2>5, <2>6
<1>5. \A k \in Nat : k \in S
  <2>1. S \in SUBSET Nat
    OBVIOUS
  <2>2. \A k \in S : k + 1 \in S
    <3> HIDE DEF Paths
    <3> QED
      BY <1>4
  <2> HIDE DEF S
  <2> QED
    BY <1>3, <2>1, <2>2, AllNaturals
<1>6. n \in S
  BY <1>1, <1>5 DEF RankedBy
<1>7. PICK f : Paths(f, n)
  BY <1>6
<1>8. Low(n) = DOMAIN t
  BY <1>2
<1> QED
  BY <1>7, <1>8 DEF IsPath

(* The path to a parent; the root has none.                                *)
Prefix(t, y) == IF y = None THEN <<>> ELSE Path(t, y)

(* The path to a node is the one to its parent and its position.           *)
LEMMA PathFacts ==
    ASSUME NEW t, Forest(t)
    PROVE  \A i \in DOMAIN t : /\ Path(t, i) \in Seq(Nat)
                               /\ Path(t, i) = Prefix(t, t[i].parent_id) \o <<t[i].position>>
<1> DEFINE path == CHOOSE f : IsPath(t, f)
<1>1. IsPath(t, path)
  BY PathExists
<1>2. \A i : Path(t, i) = path[i]
  BY DEF Path, IsPath
<1> HIDE DEF path
<1>3. ASSUME NEW i \in DOMAIN t
      PROVE  Path(t, i) = Prefix(t, t[i].parent_id) \o <<t[i].position>>
  BY <1>1, <1>2 DEF IsPath, Prefix
<1>4. PICK rank, n : RankedBy(t, rank, n)
  BY DEF Forest
<1> DEFINE S == {k \in Nat : \A i \in DOMAIN t : rank[i] < k => Path(t, i) \in Seq(Nat)}
<1>5. \A i \in DOMAIN t : /\ rank[i] \in Nat /\ rank[i] < n /\ t[i].position \in Nat
                          /\ t[i].parent_id # None =>
                                t[i].parent_id \in DOMAIN t /\ rank[t[i].parent_id] < rank[i]
  BY <1>4 DEF RankedBy, Forest, Contained
<1>6. 0 \in S
  BY <1>5
<1>7. ASSUME NEW k \in S PROVE k + 1 \in S
  <2> SUFFICES ASSUME NEW i \in DOMAIN t, rank[i] < k + 1 PROVE Path(t, i) \in Seq(Nat)
    OBVIOUS
  <2>1. Prefix(t, t[i].parent_id) \in Seq(Nat)
    <3>1. CASE t[i].parent_id = None
      BY <3>1 DEF Prefix
    <3>2. CASE t[i].parent_id # None
      <4>1. t[i].parent_id \in DOMAIN t /\ rank[t[i].parent_id] < k
        BY <1>5, <3>2
      <4> QED
        BY <1>7, <3>2, <4>1 DEF Prefix
    <3> QED
      BY <3>1, <3>2
  <2>2. <<t[i].position>> \in Seq(Nat)
    BY <1>5
  <2>3. Prefix(t, t[i].parent_id) \o <<t[i].position>> \in Seq(Nat)
    BY <2>1, <2>2
  <2> QED
    BY <1>3, <2>3
<1>8. \A k \in Nat : k \in S
  <2>1. S \in SUBSET Nat
    OBVIOUS
  <2> HIDE DEF S
  <2> QED
    BY <1>6, <1>7, <2>1, AllNaturals
<1>9. n \in S
  BY <1>4, <1>8 DEF RankedBy
<1> QED
  BY <1>3, <1>5, <1>9

(* A function that the recursion of _flatten_steps describes, and the      *)
(* elements of a sequence.                                                 *)
WalkOf(t, w) == \A x \in Places(t) : w[x] = WalkFrom(t, w, x)

In(s, i) == \E k \in 1..Len(s) : s[k] = i

(* One turn of the walk: at x it finds s and then goes on with rest, where *)
(* s is nothing, a step, or what the walk finds inside a group.            *)
Turn(t, w, x, s, rest) ==
    /\ ~Beyond(t, x[2]) /\ w[x] = s \o rest
    /\ \/ At(t, x) = {} /\ s = <<>>
       \/ \E i \in DOMAIN t :
             /\ At(t, x) = {i} /\ <<i, 0>> \in Places(t)
             /\ t[i].parent_id = x[1] /\ t[i].position = x[2]
             /\ \/ t[i].node_type = "step" /\ s = <<i>>
                \/ t[i].node_type = "group" /\ s = w[<<i, 0>>]

Further(x) == <<x[1], x[2] + 1>>

(* The walk ends beyond all positions and takes a turn before that.        *)
LEMMA WalkGoesOn ==
    ASSUME NEW t, Forest(t), NEW w, WalkOf(t, w), NEW x \in Places(t)
    PROVE  /\ Further(x) \in Places(t)
           /\ \/ Beyond(t, x[2]) /\ w[x] = <<>>
              \/ \E s : Turn(t, w, x, s, w[Further(x)])
<1>1. x[1] \in Parents(t) /\ x[2] \in Nat /\ x[2] + 1 \in Nat
  BY DEF Places
<1>2. Further(x) \in Places(t) /\ \A i \in Parents(t) : <<i, 0>> \in Places(t)
  BY <1>1 DEF Places, Further
<1>3. CASE Beyond(t, x[2])
  BY <1>2, <1>3 DEF WalkOf, WalkFrom
<1>4. CASE ~Beyond(t, x[2])
  <2> DEFINE s == Piece(t, w, x)
  <2>1. w[x] = s \o w[Further(x)]
    BY <1>4 DEF WalkOf, WalkFrom, Further
  <2>2. \/ At(t, x) = {} /\ s = <<>>
        \/ \E i \in DOMAIN t :
              /\ At(t, x) = {i} /\ i \in Parents(t)
              /\ t[i].parent_id = x[1] /\ t[i].position = x[2]
              /\ \/ t[i].node_type = "step" /\ s = <<i>>
                 \/ t[i].node_type = "group" /\ s = w[<<i, 0>>]
    BY PieceIsOneNode
  <2> HIDE DEF s
  <2>3. Turn(t, w, x, s, w[Further(x)])
    BY <1>2, <1>4, <2>1, <2>2 DEF Turn
  <2> QED
    BY <1>2, <2>3
<1> QED
  BY <1>3, <1>4

(* The elements of two sequences, one after the other.                     *)
LEMMA ConcatFacts ==
    ASSUME NEW X, NEW a \in Seq(X), NEW b \in Seq(X)
    PROVE  /\ a \o b \in Seq(X) /\ Len(a \o b) = Len(a) + Len(b)
           /\ Len(a) \in Nat /\ Len(b) \in Nat
           /\ \A k \in 1..Len(a) : (a \o b)[k] = a[k]
           /\ \A k \in 1..Len(b) : (a \o b)[Len(a) + k] = b[k]
           /\ \A i : In(a \o b, i) <=> In(a, i) \/ In(b, i)
<1> DEFINE s == a \o b
<1>1. /\ s \in Seq(X) /\ Len(s) = Len(a) + Len(b)
      /\ Len(a) \in Nat /\ Len(b) \in Nat
  OBVIOUS
<1>2. \A k \in 1..Len(a) : s[k] = a[k]
  OBVIOUS
<1>3. \A k \in 1..Len(b) : s[Len(a) + k] = b[k]
  OBVIOUS
<1> HIDE DEF s
<1>4. ASSUME NEW i PROVE In(s, i) <=> In(a, i) \/ In(b, i)
  <2>1. ASSUME In(a, i) PROVE In(s, i)
    <3>1. PICK k \in 1..Len(a) : a[k] = i
      BY <2>1 DEF In
    <3>2. k \in 1..Len(s) /\ s[k] = i
      BY <1>1, <1>2, <3>1
    <3> QED
      BY <3>2 DEF In
  <2>2. ASSUME In(b, i) PROVE In(s, i)
    <3>1. PICK k \in 1..Len(b) : b[k] = i
      BY <2>2 DEF In
    <3>2. Len(a) + k \in 1..Len(s) /\ s[Len(a) + k] = i
      BY <1>1, <1>3, <3>1
    <3> QED
      BY <3>2 DEF In
  <2>3. ASSUME In(s, i) PROVE In(a, i) \/ In(b, i)
    <3>1. PICK k \in 1..Len(s) : s[k] = i
      BY <2>3 DEF In
    <3>2. CASE k <= Len(a)
      <4>1. k \in 1..Len(a) /\ a[k] = i
        BY <1>1, <1>2, <3>1, <3>2
      <4> QED
        BY <4>1 DEF In
    <3>3. CASE k > Len(a)
      <4>1. k - Len(a) \in 1..Len(b) /\ Len(a) + (k - Len(a)) = k
        BY <1>1, <3>1, <3>3
      <4>2. b[k - Len(a)] = i
        BY <1>3, <3>1, <4>1
      <4> QED
        BY <4>1, <4>2 DEF In
    <3> QED
      BY <1>1, <3>1, <3>2, <3>3
  <2> QED
    BY <2>1, <2>2, <2>3
<1> QED
  BY <1>1, <1>2, <1>3, <1>4 DEF s

(* The walk lists nodes ...                                                *)
LEMMA WalkType ==
    ASSUME NEW t, Forest(t), NEW w, WalkOf(t, w)
    PROVE  \A x \in Places(t) : w[x] \in Seq(DOMAIN t)
<1> DEFINE X == DOMAIN t
           G == {x \in Places(t) : w[x] \in Seq(X)}
<1>1. ASSUME NEW x \in Places(t),
             \/ Beyond(t, x[2])
             \/ <<x[1], x[2] + 1>> \in G /\ \A i \in At(t, x) : <<i, 0>> \in G
      PROVE  w[x] \in Seq(X)
  <2>1. <<>> \in Seq(X) /\ \A i \in X : <<i>> \in Seq(X)
    OBVIOUS
  <2>2. CASE Beyond(t, x[2])
    BY <2>1, <2>2 DEF WalkOf, WalkFrom
  <2>3. CASE ~Beyond(t, x[2])
    <3>1. w[Further(x)] \in Seq(X) /\ \A i \in At(t, x) : w[<<i, 0>>] \in Seq(X)
      BY <1>1, <2>3 DEF Further
    <3>2. PICK s : Turn(t, w, x, s, w[Further(x)])
      BY <2>3, WalkGoesOn
    <3>3. s \in Seq(X) /\ w[x] = s \o w[Further(x)]
      BY <2>1, <3>1, <3>2 DEF Turn
    <3> QED
      BY <3>1, <3>3, ConcatFacts
  <2> QED
    BY <2>2, <2>3
<1>2. G \in SUBSET Places(t)
  OBVIOUS
<1>3. \A x \in Places(t) :
          \/ Beyond(t, x[2])
          \/ <<x[1], x[2] + 1>> \in G /\ \A i \in At(t, x) : <<i, 0>> \in G
          => x \in G
  BY <1>1
<1> HIDE DEF G
<1>4. \A x \in Places(t) : x \in G
  BY <1>2, <1>3, AlongTheWalk
<1> QED
  BY <1>4 DEF G

(* What a turn finds and the rest make up the walk.                        *)
LEMMA TurnFacts ==
    ASSUME NEW t, Forest(t), NEW w, WalkOf(t, w), NEW x \in Places(t), NEW s,
           Turn(t, w, x, s, w[Further(x)])
    PROVE  /\ s \in Seq(DOMAIN t) /\ w[Further(x)] \in Seq(DOMAIN t)
           /\ w[x] = s \o w[Further(x)] /\ Further(x) \in Places(t)
           /\ \A i : In(w[x], i) <=> In(s, i) \/ In(w[Further(x)], i)
<1> DEFINE X == DOMAIN t
<1>1. <<>> \in Seq(X) /\ \A i \in X : <<i>> \in Seq(X)
  OBVIOUS
<1>2. Further(x) \in Places(t)
  BY WalkGoesOn
<1>3. \A z \in Places(t) : w[z] \in Seq(X)
  BY WalkType
<1>4. s \in Seq(X) /\ w[x] = s \o w[Further(x)]
  BY <1>1, <1>3 DEF Turn
<1>5. w[Further(x)] \in Seq(X)
  BY <1>2, <1>3
<1> QED
  BY <1>2, <1>4, <1>5, ConcatFacts

(* A parent whose steps are executed: the root or a group.                 *)
Open(t, y) == y = None \/ (y \in DOMAIN t /\ t[y].node_type = "group")

(* ... that may be executed, and nothing else.                             *)
LEMMA WalkIsExecutable ==
    ASSUME NEW t, Forest(t), NEW w, WalkOf(t, w)
    PROVE  \A x \in Places(t) : \A i : Open(t, x[1]) /\ In(w[x], i) => i \in Executable(t)
<1> DEFINE Good(x) == \A i : Open(t, x[1]) /\ In(w[x], i) => i \in Executable(t)
           G == {x \in Places(t) : Good(x)}
<1>1. ASSUME NEW x \in Places(t), ~Beyond(t, x[2]), Further(x) \in G,
             \A i \in At(t, x) : <<i, 0>> \in G
      PROVE  Good(x)
  <2> SUFFICES ASSUME NEW i, Open(t, x[1]), In(w[x], i) PROVE i \in Executable(t)
    OBVIOUS
  <2>1. PICK s : Turn(t, w, x, s, w[Further(x)])
    BY <1>1, WalkGoesOn
  <2>2. In(s, i) \/ In(w[Further(x)], i)
    BY <2>1, TurnFacts
  <2>3. CASE In(w[Further(x)], i)
    <3>1. Further(x)[1] = x[1]
      BY DEF Further
    <3> QED
      BY <1>1, <2>3, <3>1
  <2>4. CASE In(s, i)
    <3>1. s # <<>>
      BY <2>4 DEF In
    <3>2. PICK j \in DOMAIN t :
              /\ At(t, x) = {j} /\ t[j].parent_id = x[1]
              /\ \/ t[j].node_type = "step" /\ s = <<j>>
                 \/ t[j].node_type = "group" /\ s = w[<<j, 0>>]
      BY <2>1, <3>1 DEF Turn
    <3>3. CASE t[j].node_type = "step" /\ s = <<j>>
      <4>1. i = j
        BY <2>4, <3>3 DEF In
      <4> QED
        BY <3>2, <3>3, <4>1 DEF Executable, Open
    <3>4. CASE t[j].node_type = "group" /\ s = w[<<j, 0>>]
      <4>1. <<j, 0>> \in G /\ Open(t, <<j, 0>>[1])
        BY <1>1, <3>2, <3>4 DEF Open
      <4> QED
        BY <2>4, <3>4, <4>1
    <3> QED
      BY <3>2, <3>3, <3>4
  <2> QED
    BY <2>2, <2>3, <2>4
<1>2. ASSUME NEW x \in Places(t), Beyond(t, x[2]) PROVE Good(x)
  <2>1. w[x] = <<>>
    BY <1>2 DEF WalkOf, WalkFrom
  <2> QED
    BY <2>1 DEF In
<1>3. G \in SUBSET Places(t)
  OBVIOUS
<1> HIDE DEF Good
<1>4. \A x \in Places(t) :
          \/ Beyond(t, x[2])
          \/ <<x[1], x[2] + 1>> \in G /\ \A i \in At(t, x) : <<i, 0>> \in G
          => x \in G
  BY <1>1, <1>2 DEF Further
<1>5. \A x \in Places(t) : x \in G
  <2> HIDE DEF G
  <2> QED
    BY <1>3, <1>4, AlongTheWalk
<1> QED
  BY <1>5 DEF Good

(* Nothing is lost on the way, neither what comes later inside a parent    *)
(* ...                                                                     *)
LEMMA LaterIsWalked ==
    ASSUME NEW t, Forest(t), NEW w, WalkOf(t, w), NEW y \in Parents(t)
    PROVE  \A p \in Nat : \A i : In(w[<<y, p>>], i) => In(w[<<y, 0>>], i)
<1> DEFINE S == {p \in Nat : \A i : In(w[<<y, p>>], i) => In(w[<<y, 0>>], i)}
<1>1. 0 \in S
  OBVIOUS
<1>2. ASSUME NEW p \in S PROVE p + 1 \in S
  <2> DEFINE x == <<y, p>>
  <2>1. x \in Places(t) /\ x[1] = y /\ x[2] = p /\ Further(x) = <<y, p + 1>> /\ p \in Nat
    BY DEF Places, Further
  <2>2. CASE Beyond(t, p)
    <3>1. Beyond(t, p + 1) /\ Further(x) \in Places(t) /\ Further(x)[2] = p + 1
      BY <2>1, <2>2, WalkGoesOn DEF Beyond, Forest, Contained
    <3>2. w[<<y, p + 1>>] = <<>>
      BY <2>1, <3>1 DEF WalkOf, WalkFrom
    <3> QED
      BY <2>1, <3>2 DEF In
  <2>3. CASE ~Beyond(t, p)
    <3> HIDE DEF x
    <3>1. PICK s : Turn(t, w, x, s, w[Further(x)])
      BY <2>1, <2>3, WalkGoesOn
    <3>2. \A i : In(w[Further(x)], i) => In(w[x], i)
      BY <2>1, <3>1, TurnFacts
    <3> QED
      BY <1>2, <2>1, <3>2 DEF x
  <2> QED
    BY <2>2, <2>3
<1>3. S \in SUBSET Nat
  OBVIOUS
<1> HIDE DEF S
<1>4. \A p \in Nat : p \in S
  BY <1>1, <1>2, <1>3, AllNaturals
<1> QED
  BY <1>4 DEF S

(* ... nor the node at a place, or what is inside it.                      *)
LEMMA PlaceIsWalked ==
    ASSUME NEW t, Forest(t), NEW w, WalkOf(t, w), NEW i \in DOMAIN t
    PROVE  LET y == t[i].parent_id
           IN  /\ t[i].node_type = "step" => In(w[<<y, 0>>], i)
               /\ t[i].node_type = "group" =>
                     \A j : In(w[<<i, 0>>], j) => In(w[<<y, 0>>], j)
<1> DEFINE y == t[i].parent_id
           x == <<y, t[i].position>>
<1>1. y \in Parents(t) /\ t[i].position \in Nat
  BY DEF Forest, Contained, Parents
<1>2. x \in Places(t) /\ i \in At(t, x) /\ x[1] = y /\ x[2] = t[i].position
  BY <1>1 DEF Places, At
<1>3. ~Beyond(t, x[2])
  BY <1>1, <1>2 DEF Beyond
<1> HIDE DEF x
<1>4. PICK s : Turn(t, w, x, s, w[Further(x)])
  BY <1>2, <1>3, WalkGoesOn
<1>6. \A j : In(s, j) => In(w[<<y, 0>>], j)
  <2>1. \A j : In(s, j) => In(w[x], j)
    BY <1>2, <1>4, TurnFacts
  <2> QED
    BY <1>1, <2>1, LaterIsWalked DEF x
<1>7. \/ t[i].node_type = "step" /\ s = <<i>>
      \/ t[i].node_type = "group" /\ s = w[<<i, 0>>]
  BY <1>2, <1>4 DEF Turn
<1>8. CASE t[i].node_type = "step" /\ s = <<i>>
  <2>1. In(s, i)
    BY <1>8 DEF In
  <2> QED
    BY <1>6, <1>8, <2>1
<1>9. CASE t[i].node_type = "group" /\ s = w[<<i, 0>>]
  BY <1>6, <1>9
<1> QED
  BY <1>7, <1>8, <1>9

(* So every group is walked from the root, as the groups it is inside of   *)
(* are.                                                                    *)
LEMMA GroupsAreWalked ==
    ASSUME NEW t, Forest(t), NEW w, WalkOf(t, w)
    PROVE  \A y : Open(t, y) => \A i : In(w[<<y, 0>>], i) => In(w[<<None, 0>>], i)
<1>1. PICK rank, n : RankedBy(t, rank, n)
  BY DEF Forest
<1> DEFINE Walked(y) == \A i : In(w[<<y, 0>>], i) => In(w[<<None, 0>>], i)
           S == {k \in Nat : \A y \in DOMAIN t :
                                 rank[y] < k /\ t[y].node_type = "group" => Walked(y)}
<1>2. \A i \in DOMAIN t : rank[i] \in Nat /\ rank[i] < n
  BY <1>1 DEF RankedBy
<1>3. 0 \in S
  BY <1>2
<1>4. ASSUME NEW k \in S PROVE k + 1 \in S
  <2> SUFFICES ASSUME NEW y \in DOMAIN t, rank[y] < k + 1, t[y].node_type = "group"
               PROVE  Walked(y)
    OBVIOUS
  <2> DEFINE z == t[y].parent_id
  <2>1. \A i : In(w[<<y, 0>>], i) => In(w[<<z, 0>>], i)
    BY PlaceIsWalked
  <2>2. CASE z = None
    BY <2>1, <2>2
  <2>3. CASE z # None
    <3>1. z \in DOMAIN t /\ t[z].node_type = "group"
      BY <2>3 DEF Forest, Contained
    <3>2. rank[z] < rank[y]
      BY <1>1, <2>3 DEF RankedBy
    <3>3. rank[z] < k
      BY <1>2, <3>1, <3>2
    <3>4. Walked(z)
      BY <1>4, <3>1, <3>3
    <3> QED
      BY <2>1, <3>4
  <2> QED
    BY <2>2, <2>3
<1>5. S \in SUBSET Nat
  OBVIOUS
<1> HIDE DEF Walked
<1>6. \A k \in Nat : k \in S
  <2> HIDE DEF S
  <2> QED
    BY <1>3, <1>4, <1>5, AllNaturals
<1>7. n \in S
  BY <1>1, <1>6 DEF RankedBy
<1>8. \A y \in DOMAIN t : t[y].node_type = "group" => Walked(y)
  BY <1>2, <1>7
<1> QED
  BY <1>8 DEF Walked, Open

(* Every step that is to be executed is met from the root.                 *)
LEMMA ExecutableIsWalked ==
    ASSUME NEW t, Forest(t), NEW w, WalkOf(t, w)
    PROVE  \A i \in Executable(t) : In(w[<<None, 0>>], i)
<1> SUFFICES ASSUME NEW i \in Executable(t) PROVE In(w[<<None, 0>>], i)
  OBVIOUS
<1> DEFINE y == t[i].parent_id
<1>1. /\ i \in DOMAIN t /\ t[i].node_type = "step"
      /\ y # None => t[y].node_type = "group"
  BY DEF Executable
<1>2. Open(t, y)
  BY <1>1 DEF Open, Forest, Contained
<1>3. In(w[<<y, 0>>], i)
  BY <1>1, PlaceIsWalked
<1> QED
  BY <1>2, <1>3, GroupsAreWalked

(* A path that goes through a prefix, at a position from p on.             *)
Through(u, p, q) ==
    /\ u \in Seq(Nat) /\ q \in Seq(Nat) /\ Len(u) < Len(q)
    /\ \A l \in 1..Len(u) : q[l] = u[l]
    /\ q[Len(u) + 1] >= p

(* Where two paths through the same prefix part.                           *)
LEMMA PathsPart ==
    ASSUME NEW u, NEW p \in Nat, NEW q, NEW r, Through(u, p, q), q[Len(u) + 1] = p,
           Through(u, p + 1, r)
    PROVE  Before(q, r)
<1> DEFINE k == Len(u) + 1
<1>1. /\ Len(u) \in Nat /\ Len(q) \in Nat /\ Len(r) \in Nat
      /\ DOMAIN q = 1..Len(q) /\ DOMAIN r = 1..Len(r)
  BY DEF Through
<1>2. k \in DOMAIN q \cap DOMAIN r
  BY <1>1 DEF Through
<1>3. q[k] < r[k]
  <2>1. r[k] \in Nat /\ r[k] >= p + 1 /\ q[k] = p
    BY <1>1, <1>2 DEF Through
  <2> QED
    BY <2>1
<1>4. \A l \in 1..(k - 1) : q[l] = r[l]
  BY <1>1 DEF Through
<1> QED
  BY <1>2, <1>3, <1>4 DEF Before

(* Nodes in the order of their paths.                                      *)
InOrder(t, s) ==
    \A k, l \in 1..Len(s) : k < l => Before(Path(t, s[k]), Path(t, s[l]))

(* Two sequences in order, the first of which is before the second.        *)
LEMMA OrderedConcat ==
    ASSUME NEW t, NEW X, NEW a \in Seq(X), NEW b \in Seq(X), InOrder(t, a), InOrder(t, b),
           \A i, j : In(a, i) /\ In(b, j) => Before(Path(t, i), Path(t, j))
    PROVE  InOrder(t, a \o b)
<1> DEFINE s == a \o b
           m == Len(a)
<1>1. /\ Len(s) = m + Len(b) /\ m \in Nat /\ Len(b) \in Nat
      /\ \A k \in 1..m : s[k] = a[k]
      /\ \A k \in 1..Len(b) : s[m + k] = b[k]
  BY ConcatFacts
<1> HIDE DEF s, m
<1>2. ASSUME NEW k \in 1..Len(s)
      PROVE  \/ k \in 1..m /\ s[k] = a[k]
             \/ k > m /\ k - m \in 1..Len(b) /\ s[k] = b[k - m]
  <2>1. CASE k <= m
    BY <1>1, <2>1
  <2>2. CASE k > m
    <3>1. k - m \in 1..Len(b) /\ m + (k - m) = k
      BY <1>1, <2>2
    <3> QED
      BY <1>1, <2>2, <3>1
  <2> QED
    BY <1>1, <2>1, <2>2
<1> SUFFICES ASSUME NEW k \in 1..Len(s), NEW l \in 1..Len(s), k < l
             PROVE  Before(Path(t, s[k]), Path(t, s[l]))
  BY DEF InOrder, s
<1>3. CASE l <= m
  <2>1. k \in 1..m /\ l \in 1..m /\ s[k] = a[k] /\ s[l] = a[l]
    BY <1>1, <1>3
  <2> QED
    BY <2>1 DEF InOrder, m
<1>4. CASE k > m
  <2>1. /\ k - m \in 1..Len(b) /\ l - m \in 1..Len(b) /\ k - m < l - m
        /\ s[k] = b[k - m] /\ s[l] = b[l - m]
    BY <1>1, <1>2, <1>4
  <2> QED
    BY <2>1 DEF InOrder
<1>5. CASE k <= m /\ l > m
  <2>1. k \in 1..m /\ s[k] = a[k] /\ l - m \in 1..Len(b) /\ s[l] = b[l - m]
    BY <1>1, <1>2, <1>5
  <2>2. In(a, s[k]) /\ In(b, s[l])
    BY <2>1 DEF In, m
  <2> QED
    BY <2>2
<1> QED
  BY <1>1, <1>3, <1>4, <1>5

(* A path that goes through a prefix at position p.                        *)
Exactly(u, p, q) == Through(u, p, q) /\ q[Len(u) + 1] = p

(* The path to a place of a parent, and to what is inside that place.      *)
LEMMA PathsGoDown ==
    ASSUME NEW u \in Seq(Nat), NEW p \in Nat
    PROVE  /\ Exactly(u, p, u \o <<p>>)
           /\ \A q : Through(u \o <<p>>, 0, q) => Exactly(u, p, q)
           /\ \A q : Through(u, p + 1, q) => Through(u, p, q)
<1> DEFINE v == u \o <<p>>
           n == Len(u)
<1>1. /\ n \in Nat /\ v \in Seq(Nat) /\ Len(v) = n + 1 /\ v[n + 1] = p
      /\ \A l \in 1..n : v[l] = u[l]
  OBVIOUS
<1> HIDE DEF v, n
<1>2. Exactly(u, p, v)
  BY <1>1 DEF Exactly, Through, n
<1>3. ASSUME NEW q, Through(v, 0, q) PROVE Exactly(u, p, q)
  <2>1. q \in Seq(Nat) /\ n + 1 < Len(q) /\ Len(q) \in Nat /\ \A l \in 1..(n + 1) : q[l] = v[l]
    BY <1>1, <1>3 DEF Through
  <2>2. q[n + 1] = p /\ \A l \in 1..n : q[l] = u[l]
    BY <1>1, <2>1
  <2> QED
    BY <1>1, <2>1, <2>2 DEF Exactly, Through, n
<1>4. ASSUME NEW q, Through(u, p + 1, q) PROVE Through(u, p, q)
  <2>1. q[n + 1] \in Nat /\ q[n + 1] >= p + 1
    BY <1>1, <1>4 DEF Through, n
  <2>2. q[n + 1] >= p
    BY <2>1
  <2> QED
    BY <1>4, <2>2 DEF Through, n
<1> QED
  BY <1>2, <1>3, <1>4 DEF v

(* The walk meets the steps in the order of their paths.                   *)
LEMMA WalkIsInOrder ==
    ASSUME NEW t, Forest(t), NEW w, WalkOf(t, w)
    PROVE  \A x \in Places(t) : InOrder(t, w[x])
<1> DEFINE Good(x) == /\ \A i : In(w[x], i) => Through(Prefix(t, x[1]), x[2], Path(t, i))
                      /\ InOrder(t, w[x])
           G == {x \in Places(t) : Good(x)}
<1>1. ASSUME NEW x \in Places(t), ~Beyond(t, x[2]), Further(x) \in G,
             \A i \in At(t, x) : <<i, 0>> \in G
      PROVE  Good(x)
  <2> DEFINE u == Prefix(t, x[1])
             p == x[2]
             rest == w[Further(x)]
  <2>1. PICK s : Turn(t, w, x, s, rest)
    BY <1>1, WalkGoesOn
  <2>2. /\ s \in Seq(DOMAIN t) /\ rest \in Seq(DOMAIN t) /\ w[x] = s \o rest
        /\ \A i : In(w[x], i) <=> In(s, i) \/ In(rest, i)
    BY <2>1, TurnFacts
  <2>3. x[1] \in Parents(t) /\ p \in Nat /\ Further(x)[1] = x[1] /\ Further(x)[2] = p + 1
    BY DEF Places, Further
  <2>4. u \in Seq(Nat)
    <3>1. <<>> \in Seq(Nat)
      OBVIOUS
    <3>2. \A i \in DOMAIN t : Path(t, i) \in Seq(Nat)
      BY PathFacts
    <3> QED
      BY <2>3, <3>1, <3>2 DEF Prefix, Parents
  <2>5. InOrder(t, rest) /\ \A i : In(rest, i) => Through(u, p + 1, Path(t, i))
    <3>1. Good(Further(x))
      BY <1>1
    <3> QED
      BY <2>3, <3>1
  <2>6. InOrder(t, s) /\ \A i : In(s, i) => Exactly(u, p, Path(t, i))
    <3>1. CASE s = <<>>
      BY <3>1 DEF InOrder, In
    <3>2. ASSUME NEW j \in DOMAIN t, At(t, x) = {j},
                 t[j].parent_id = x[1], t[j].position = p,
                 \/ t[j].node_type = "step" /\ s = <<j>>
                 \/ t[j].node_type = "group" /\ s = w[<<j, 0>>]
          PROVE  InOrder(t, s) /\ \A i : In(s, i) => Exactly(u, p, Path(t, i))
      <4>1. Path(t, j) = u \o <<p>>
        BY <3>2, PathFacts
      <4> HIDE DEF u, p
      <4>2. CASE s = <<j>>
        <5>1. \A i : In(s, i) => i = j
          BY <4>2 DEF In
        <5>2. InOrder(t, s)
          BY <4>2 DEF InOrder
        <5>3. Exactly(u, p, Path(t, j))
          BY <2>3, <2>4, <4>1, PathsGoDown
        <5> QED
          BY <5>1, <5>2, <5>3
      <4>3. CASE s = w[<<j, 0>>]
        <5>1. Good(<<j, 0>>)
          BY <1>1, <3>2
        <5>2. Prefix(t, j) = u \o <<p>>
          BY <3>2, <4>1 DEF Prefix, Forest, Contained
        <5>3. \A i : In(s, i) => Through(u \o <<p>>, 0, Path(t, i))
          BY <4>3, <5>1, <5>2
        <5>4. InOrder(t, s)
          BY <4>3, <5>1
        <5> QED
          BY <2>3, <2>4, <5>3, <5>4, PathsGoDown
      <4> QED
        BY <3>2, <4>2, <4>3
    <3> QED
      BY <2>1, <3>1, <3>2 DEF Turn
  <2> HIDE DEF u, p, rest
  <2>7. \A i, j : In(s, i) /\ In(rest, j) => Before(Path(t, i), Path(t, j))
    BY <2>3, <2>5, <2>6, PathsPart DEF Exactly
  <2>8. InOrder(t, w[x])
    BY <2>2, <2>5, <2>6, <2>7, OrderedConcat
  <2>9. \A i : In(w[x], i) => Through(u, p, Path(t, i))
    BY <2>2, <2>3, <2>4, <2>5, <2>6, PathsGoDown DEF Exactly
  <2> QED
    BY <2>8, <2>9 DEF u, p
<1>2. ASSUME NEW x \in Places(t), Beyond(t, x[2]) PROVE Good(x)
  <2>1. w[x] = <<>>
    BY <1>2 DEF WalkOf, WalkFrom
  <2> QED
    BY <2>1 DEF In, InOrder
<1>3. G \in SUBSET Places(t)
  OBVIOUS
<1> HIDE DEF Good
<1>4. \A x \in Places(t) :
          \/ Beyond(t, x[2])
          \/ <<x[1], x[2] + 1>> \in G /\ \A i \in At(t, x) : <<i, 0>> \in G
          => x \in G
  BY <1>1, <1>2 DEF Further
<1>5. \A x \in Places(t) : x \in G
  <2> HIDE DEF G
  <2> QED
    BY <1>3, <1>4, AlongTheWalk
<1> QED
  BY <1>5 DEF Good

(* _flatten_steps, for every forest: the steps to be executed, each once,  *)
(* in the order a reader of the tree meets them.                           *)
LEMMA FlattenIsTheTree ==
    ASSUME NEW t, Forest(t)
    PROVE  LET steps == FlattenSteps(t)
           IN  /\ steps \in Seq(DOMAIN t)
               /\ {steps[k] : k \in DOMAIN steps} = Executable(t)
               /\ \A k, l \in DOMAIN steps :
                     k < l => Before(Path(t, steps[k]), Path(t, steps[l]))
<1>1. PICK w : /\ \A x \in Places(t) : w[x] = WalkFrom(t, w, x)
               /\ FlattenSteps(t) = w[<<None, 0>>]
  BY WalkIsAWalk
<1> DEFINE root == <<None, 0>>
           steps == w[root]
<1>2. WalkOf(t, w)
  BY <1>1 DEF WalkOf
<1>3. root \in Places(t) /\ Open(t, root[1])
  BY DEF Places, Parents, Open
<1> HIDE DEF root
<1>4. steps \in Seq(DOMAIN t)
  BY <1>2, <1>3, WalkType
<1>5. DOMAIN steps = 1..Len(steps)
  BY <1>4
<1>6. \A i : In(steps, i) <=> i \in Executable(t)
  BY <1>2, <1>3, WalkIsExecutable, ExecutableIsWalked DEF root
<1>7. InOrder(t, steps)
  BY <1>2, <1>3, WalkIsInOrder
<1>8. FlattenSteps(t) = steps
  BY <1>1 DEF root
<1> HIDE DEF steps
<1> QED
  BY <1>4, <1>5, <1>6, <1>7, <1>8 DEF In, InOrder

-----------------------------------------------------------------------------
(* The trees of the draft                                                  *)

(* The builder draws nothing inside itself, and groups only inside groups. *)
DrawnInGroups ==
    \A body \in Bodies : \A i \in DOMAIN body.nodes :
        /\ body.nodes[i].client_id # body.nodes[i].parent_id
        /\ \A j \in DOMAIN body.nodes :
              /\ body.nodes[i].node_type = "group"
              /\ body.nodes[j].client_id = body.nodes[i].parent_id
              => body.nodes[j].node_type = "group"

(* A forest, but for the places of its nodes.                              *)
Nested(t) == Contained(t) /\ Bounded(t) /\ \E rank, n : RankedBy(t, rank, n)

(* What is left of a forest when nodes are deleted with what they contain. *)
LEMMA WithoutIsForest ==
    ASSUME NEW t, NEW gone, Forest(t)
    PROVE  Forest(Without(t, gone))
<1> DEFINE closed(S) == \A i \in S : t[i].parent_id \in S \cup {None}
           kept == {j \in DOMAIN t : \E S \in SUBSET (DOMAIN t \ gone) : j \in S /\ closed(S)}
           left == Without(t, gone)
<1>1. left = [i \in kept |-> t[i]]
  BY DEF Without
<1>2. kept \in SUBSET DOMAIN t
  OBVIOUS
<1>3. \A i \in kept : t[i].parent_id \in kept \cup {None}
  OBVIOUS
<1> HIDE DEF kept
<1>4. DOMAIN left = kept /\ \A i \in kept : i \in DOMAIN t /\ left[i] = t[i]
  BY <1>1, <1>2
<1> HIDE DEF left
<1>5. Contained(left)
  BY <1>3, <1>4 DEF Forest, Contained
<1>6. UniquePositions(left)
  BY <1>4 DEF Forest, UniquePositions, Place
<1>7. Bounded(left)
  BY <1>4 DEF Forest, Bounded
<1>8. PICK rank, n : RankedBy(t, rank, n)
  BY DEF Forest
<1>9. RankedBy(left, [i \in kept |-> rank[i]], n)
  BY <1>3, <1>4, <1>8 DEF RankedBy
<1> QED
  BY <1>5, <1>6, <1>7, <1>9 DEF Forest, left

(* Two trees side by side.                                                 *)
LEMMA BothAreNested ==
    ASSUME NEW t, NEW u, Nested(t), Nested(u), DOMAIN t \cap DOMAIN u = {}
    PROVE  Nested(Both(t, u))
<1> DEFINE b == Both(t, u)
<1>1. /\ DOMAIN b = DOMAIN t \cup DOMAIN u
      /\ \A i \in DOMAIN t : b[i] = t[i]
      /\ \A i \in DOMAIN u : b[i] = u[i]
  BY DEF Both
<1> HIDE DEF b
<1>2. Contained(b)
  BY <1>1 DEF Nested, Contained
<1>3. Bounded(b)
  <2>1. PICK m \in Nat : \A i \in DOMAIN t : t[i].position < m
    BY DEF Nested, Bounded
  <2>2. PICK n \in Nat : \A i \in DOMAIN u : u[i].position < n
    BY DEF Nested, Bounded
  <2>3. \A i \in DOMAIN t : t[i].position \in Nat
    BY DEF Nested, Contained
  <2>4. \A i \in DOMAIN u : u[i].position \in Nat
    BY DEF Nested, Contained
  <2>5. m + n \in Nat /\ \A i \in DOMAIN b : b[i].position < m + n
    BY <1>1, <2>1, <2>2, <2>3, <2>4
  <2> QED
    BY <2>5 DEF Bounded
<1>4. PICK r, m : RankedBy(t, r, m)
  BY DEF Nested
<1>5. PICK q, n : RankedBy(u, q, n)
  BY DEF Nested
<1> DEFINE rank == [i \in DOMAIN b |-> IF i \in DOMAIN t THEN r[i] ELSE q[i]]
<1>6. /\ \A i \in DOMAIN t : r[i] \in Nat /\ r[i] < m
      /\ \A i \in DOMAIN u : q[i] \in Nat /\ q[i] < n
      /\ m \in Nat /\ n \in Nat
  BY <1>4, <1>5 DEF RankedBy
<1>7. /\ \A i \in DOMAIN t : i \in DOMAIN b /\ rank[i] = r[i]
      /\ \A i \in DOMAIN u : i \in DOMAIN b /\ rank[i] = q[i]
  BY <1>1
<1>8. rank \in [DOMAIN b -> Nat]
  BY <1>1, <1>6
<1> HIDE DEF rank
<1>9. ASSUME NEW i \in DOMAIN b
      PROVE  /\ rank[i] < m + n
             /\ b[i].parent_id # None => rank[b[i].parent_id] < rank[i]
  <2>1. CASE i \in DOMAIN t
    <3>1. rank[i] = r[i] /\ b[i] = t[i] /\ rank[i] < m + n
      BY <1>1, <1>6, <1>7, <2>1
    <3>2. t[i].parent_id # None => t[i].parent_id \in DOMAIN t /\ r[t[i].parent_id] < r[i]
      BY <1>4, <2>1 DEF RankedBy, Nested, Contained
    <3> QED
      BY <1>7, <3>1, <3>2
  <2>2. CASE i \in DOMAIN u
    <3>1. rank[i] = q[i] /\ b[i] = u[i] /\ rank[i] < m + n
      BY <1>1, <1>6, <1>7, <2>2
    <3>2. u[i].parent_id # None => u[i].parent_id \in DOMAIN u /\ q[u[i].parent_id] < q[i]
      BY <1>5, <2>2 DEF RankedBy, Nested, Contained
    <3> QED
      BY <1>7, <3>1, <3>2
  <2> QED
    BY <1>1, <2>1, <2>2
<1>10. RankedBy(b, rank, m + n)
  BY <1>6, <1>8, <1>9 DEF RankedBy
<1> QED
  BY <1>2, <1>3, <1>10 DEF Nested, b

(* A step added under a node that is there.                                *)
LEMMA AddedIsNested ==
    ASSUME NEW t, Nested(t), NEW id, id \notin DOMAIN t, id # None, NEW row,
           row.node_type = "step", row.position \in Nat, row.parent_id \in DOMAIN t \cup {None}
    PROVE  Nested(Both(t, [i \in {id} |-> row]))
<1> DEFINE u == [i \in {id} |-> row]
           b == Both(t, u)
<1>1. DOMAIN b = DOMAIN t \cup {id} /\ b[id] = row /\ \A i \in DOMAIN t : b[i] = t[i]
  BY DEF Both
<1> HIDE DEF b
<1>2. Contained(b)
  BY <1>1 DEF Nested, Contained
<1>3. Bounded(b)
  <2>1. PICK m \in Nat : \A i \in DOMAIN t : t[i].position < m
    BY DEF Nested, Bounded
  <2>2. \A i \in DOMAIN t : t[i].position \in Nat
    BY DEF Nested, Contained
  <2> DEFINE n == m + row.position + 1
  <2>3. n \in Nat /\ row.position < n /\ \A i \in DOMAIN t : t[i].position < n
    BY <2>1, <2>2
  <2> HIDE DEF n
  <2>4. \A i \in DOMAIN b : b[i].position < n
    BY <1>1, <2>3
  <2> QED
    BY <2>3, <2>4 DEF Bounded
<1>4. PICK r, m : RankedBy(t, r, m)
  BY DEF Nested
<1> DEFINE rank == [i \in DOMAIN b |-> IF i = id THEN m ELSE r[i]]
<1>5. m \in Nat /\ \A i \in DOMAIN t : r[i] \in Nat /\ r[i] < m
  BY <1>4 DEF RankedBy
<1>6. rank[id] = m /\ \A i \in DOMAIN t : rank[i] = r[i]
  BY <1>1
<1>7. rank \in [DOMAIN b -> Nat]
  BY <1>1, <1>5
<1> HIDE DEF rank
<1>8. ASSUME NEW i \in DOMAIN t
      PROVE  /\ rank[i] < m + 1
             /\ t[i].parent_id # None => rank[t[i].parent_id] < rank[i]
  <2>1. t[i].parent_id # None => t[i].parent_id \in DOMAIN t /\ r[t[i].parent_id] < r[i]
    BY <1>4, <1>8 DEF RankedBy, Nested, Contained
  <2> QED
    BY <1>5, <1>6, <2>1
<1>9. rank[id] < m + 1 /\ (row.parent_id # None => rank[row.parent_id] < rank[id])
  BY <1>5, <1>6
<1>10. RankedBy(b, rank, m + 1)
  BY <1>1, <1>5, <1>7, <1>8, <1>9 DEF RankedBy
<1> QED
  BY <1>2, <1>3, <1>10 DEF Nested, b

(* What replace_sequence_nodes inserts: a parent that was found is earlier *)
(* in the body, and is a group if it contains one.                         *)
LEMMA NewNodesAreNested ==
    ASSUME NEW request \in Nat, NEW body \in Bodies, DrawnInGroups
    PROVE  Nested(NewNodes(request, body.nodes))
<1> DEFINE drawn == body.nodes
           n == Len(drawn)
           new == NewNodes(request, drawn)
           ids == {<<request, i>> : i \in DOMAIN drawn}
           earlier(i) == {j \in 1..i : drawn[j].client_id = drawn[i].parent_id}
           before(i) == {j \in 1..(i - 1) : drawn[j].parent_id = drawn[i].parent_id}
<1>1. n \in Nat /\ DOMAIN drawn = 1..n
  BY AuthoringAssumption
<1>2. DOMAIN new = ids
  BY DEF NewNodes
<1>3. ASSUME NEW k \in ids
      PROVE  /\ new[k].position = Cardinality(before(k[2]))
             /\ new[k].node_type = drawn[k[2]].node_type
             /\ new[k].parent_id = IF earlier(k[2]) = {} THEN None
                                   ELSE <<request, CHOOSE j \in earlier(k[2]) : TRUE>>
  BY DEF NewNodes
<1>4. \A k \in ids : k \in Nat \X Nat /\ k[2] \in DOMAIN drawn /\ k = <<request, k[2]>>
  BY <1>1
<1>5. None \notin ids
  BY <1>4, AuthoringAssumption
<1>6. \A i \in DOMAIN drawn : drawn[i].node_type \in {"group", "step"}
  BY AuthoringAssumption
<1>7. ASSUME NEW i \in DOMAIN drawn
      PROVE  Cardinality(before(i)) \in Nat /\ Cardinality(before(i)) < n + 1
  <2>1. i \in Nat /\ 1 <= i /\ i <= n /\ i - 1 \in Nat
    BY <1>1
  <2>2. IsFiniteSet(1..(i - 1)) /\ Cardinality(1..(i - 1)) <= i - 1
    <3>1. 1 \in Int /\ i - 1 \in Int
      BY <2>1
    <3>2. /\ IsFiniteSet(1..(i - 1))
          /\ Cardinality(1..(i - 1)) = IF 1 > i - 1 THEN 0 ELSE (i - 1) - 1 + 1
      BY <3>1, FS_Interval
    <3> QED
      BY <2>1, <3>2
  <2>3. before(i) \in SUBSET (1..(i - 1))
    OBVIOUS
  <2> HIDE DEF before
  <2>4. /\ IsFiniteSet(before(i))
        /\ Cardinality(before(i)) <= Cardinality(1..(i - 1))
    BY <2>2, <2>3, FS_Subset
  <2>5. Cardinality(before(i)) \in Nat /\ Cardinality(1..(i - 1)) \in Nat
    BY <2>2, <2>4, FS_CardinalityType
  <2> QED
    BY <2>1, <2>2, <2>4, <2>5
<1>8. ASSUME NEW k \in ids, new[k].parent_id # None
      PROVE  \E j \in DOMAIN drawn :
                /\ new[k].parent_id = <<request, j>> /\ j < k[2]
                /\ drawn[k[2]].node_type = "group" => drawn[j].node_type = "group"
  <2> DEFINE i == k[2]
             j == CHOOSE l \in earlier(i) : TRUE
  <2>1. earlier(i) # {} /\ new[k].parent_id = <<request, j>>
    BY <1>3, <1>8
  <2>2. j \in earlier(i)
    BY <2>1
  <2>3. j \in 1..i /\ drawn[j].client_id = drawn[i].parent_id
    BY <2>2
  <2>4. i \in DOMAIN drawn
    BY <1>4
  <2> HIDE DEF i, j
  <2>5. j \in DOMAIN drawn /\ j # i
    BY <1>1, <2>3, <2>4 DEF DrawnInGroups
  <2>6. j < i
    BY <1>1, <2>3, <2>4, <2>5
  <2>7. drawn[i].node_type = "group" => drawn[j].node_type = "group"
    BY <2>3, <2>4, <2>5 DEF DrawnInGroups
  <2> QED
    BY <2>1, <2>5, <2>6, <2>7 DEF i
<1> HIDE DEF new, ids, earlier, before
<1>9. ASSUME NEW k \in ids
      PROVE  /\ new[k].node_type \in {"group", "step"} /\ new[k].position \in Nat
             /\ new[k].position < n + 1
             /\ new[k].parent_id # None =>
                   /\ new[k].parent_id \in ids /\ new[k].parent_id[2] < k[2]
                   /\ new[k].node_type = "group" => new[new[k].parent_id].node_type = "group"
  <2>1. k[2] \in DOMAIN drawn
    BY <1>4
  <2>2. /\ new[k].node_type \in {"group", "step"} /\ new[k].position \in Nat
        /\ new[k].position < n + 1
    BY <1>3, <1>6, <1>7, <2>1
  <2>3. ASSUME new[k].parent_id # None
        PROVE  /\ new[k].parent_id \in ids /\ new[k].parent_id[2] < k[2]
               /\ new[k].node_type = "group" => new[new[k].parent_id].node_type = "group"
    <3>1. PICK j \in DOMAIN drawn :
              /\ new[k].parent_id = <<request, j>> /\ j < k[2]
              /\ drawn[k[2]].node_type = "group" => drawn[j].node_type = "group"
      BY <1>8, <2>3
    <3>2. <<request, j>> \in ids /\ <<request, j>>[2] = j
      BY DEF ids
    <3>3. new[k].node_type = drawn[k[2]].node_type
      BY <1>3
    <3>4. new[<<request, j>>].node_type = drawn[j].node_type
      BY <1>3, <3>2
    <3> QED
      BY <3>1, <3>2, <3>3, <3>4
  <2> QED
    BY <2>2, <2>3
<1>10. Contained(new)
  BY <1>2, <1>5, <1>9 DEF Contained
<1>11. Bounded(new)
  <2>1. n + 1 \in Nat
    BY <1>1
  <2> QED
    BY <1>2, <1>9, <2>1 DEF Bounded
<1>12. RankedBy(new, [k \in ids |-> k[2]], n + 1)
  <2>1. \A k \in ids : k[2] \in Nat /\ k[2] < n + 1
    BY <1>1, <1>4
  <2>2. n + 1 \in Nat
    BY <1>1
  <2> QED
    BY <1>2, <1>9, <2>1, <2>2 DEF RankedBy
<1> QED
  BY <1>10, <1>11, <1>12 DEF Nested, new

(* The draft, what is being compiled and what has a version.               *)
ForestInv ==
    /\ Forest(nodes)
    /\ \A c \in Clients : Forest(tree[c])
    /\ \A v \in versions : Forest(v.tree)

(* The empty tree.                                                         *)
LEMMA NoNodesIsForest == Forest(NoNodes)
<1>1. DOMAIN NoNodes = {}
  BY DEF NoNodes
<1>2. RankedBy(NoNodes, [i \in {} |-> 0], 0)
  BY <1>1 DEF RankedBy
<1>3. Contained(NoNodes) /\ UniquePositions(NoNodes)
  BY <1>1 DEF Contained, UniquePositions
<1>4. Bounded(NoNodes)
  <2>1. 0 \in Nat /\ \A i \in DOMAIN NoNodes : NoNodes[i].position < 0
    BY <1>1
  <2> QED
    BY <2>1 DEF Bounded
<1> QED
  BY <1>2, <1>3, <1>4 DEF Forest

(* replace_sequence_nodes and add_step keep the draft a forest: the        *)
(* foreign key and the unique indexes refuse the rest.                     *)
LEMMA DraftIsForest ==
    ASSUME DrawnInGroups, DraftInv, Forest(nodes), [AuthoringNext]_authoringVars
    PROVE  Forest(nodes')
<1>1. CASE UNCHANGED nodes
  BY <1>1
<1>2. ASSUME NEW c \in Clients, InsertNodes(c) PROVE Forest(nodes')
  <2> DEFINE left == Without(nodes, snap[c])
             new == NewNodes(work[c].id, work[c].nodes)
  <2>1. CASE UNCHANGED nodes
    BY <2>1
  <2>2. CASE nodes' = Both(left, new) /\ UniquePositions(Both(left, new))
    <3>1. pc[c] = "insert" /\ Saving(c)
      BY <1>2 DEF InsertNodes, Saving
    <3>2. /\ work[c].id \in Nat
          /\ \E body \in Bodies : work[c].nodes = body.nodes
          /\ \A k \in DOMAIN nodes : k[1] # work[c].id
      BY <3>1 DEF DraftInv, SavesAreFresh
    <3>3. PICK body \in Bodies : work[c].nodes = body.nodes
      BY <3>2
    <3>4. Nested(new)
      BY <3>2, <3>3, NewNodesAreNested
    <3>5. Forest(left) /\ DOMAIN left \in SUBSET DOMAIN nodes
      BY WithoutIsForest, WithoutKeeps
    <3>6. \A k \in DOMAIN new : k[1] = work[c].id
      BY DEF NewNodes
    <3> HIDE DEF left, new
    <3>7. DOMAIN left \cap DOMAIN new = {}
      BY <3>2, <3>5, <3>6
    <3>8. Nested(left)
      BY <3>5 DEF Forest, Nested
    <3>9. Nested(Both(left, new))
      BY <3>4, <3>7, <3>8, BothAreNested
    <3> QED
      BY <2>2, <3>9 DEF Forest, Nested
  <2> QED
    BY <1>2, <2>1, <2>2 DEF InsertNodes
<1>3. ASSUME NEW c \in Clients, NEW parent, NEW position \in Extra.positions,
             AddStep(c, parent, position)
      PROVE  Forest(nodes')
  <2> DEFINE row == [parent_id |-> parent, position |-> position, node_type |-> "step",
                     enabled |-> TRUE, fits |-> Extra.fits, condition |-> Extra.condition,
                     content_refs |-> Extra.content_refs]
             id == <<requests + 1, 0>>
             added == [i \in {id} |-> row]
  <2>1. /\ parent \in DOMAIN nodes \cup {None}
        /\ \A r \in Rows(nodes) : Place(r) # Place(row)
        /\ nodes' = Both(nodes, added)
    BY <1>3 DEF AddStep
  <2>2. row.parent_id = parent /\ row.position = position /\ row.node_type = "step"
    OBVIOUS
  <2>3. position \in Nat
    BY <1>3, AuthoringAssumption
  <2>4. id \in Nat \X Nat /\ id # None
    BY AuthoringAssumption DEF DraftInv, LocalTypeOK
  <2>5. id \notin DOMAIN nodes
    BY DEF DraftInv, IdsAreOld, LocalTypeOK
  <2> HIDE DEF row, id
  <2>6. Nested(nodes')
    <3>1. Nested(nodes)
      BY DEF Forest, Nested
    <3>2. row.position \in Nat /\ row.parent_id \in DOMAIN nodes \cup {None}
      BY <2>1, <2>2, <2>3
    <3>3. Nested(Both(nodes, [i \in {id} |-> row]))
      BY <2>2, <2>4, <2>5, <3>1, <3>2, AddedIsNested
    <3> QED
      BY <2>1, <3>3
  <2>7. UniquePositions(nodes')
    <3>1. /\ DOMAIN nodes' = DOMAIN nodes \cup {id} /\ nodes'[id] = row
          /\ \A i \in DOMAIN nodes : nodes'[i] = nodes[i]
      BY <2>1, <2>5 DEF Both
    <3>2. \A i \in DOMAIN nodes : Place(nodes[i]) # Place(row)
      BY <2>1 DEF Rows
    <3>3. \A i, j \in DOMAIN nodes : Place(nodes[i]) = Place(nodes[j]) => i = j
      BY DEF Forest, UniquePositions
    <3> QED
      BY <3>1, <3>2, <3>3 DEF UniquePositions
  <2> QED
    BY <2>6, <2>7 DEF Forest, Nested
<1>4. ASSUME NEW c \in Clients, Continue(c), ~InsertNodes(c) PROVE UNCHANGED nodes
  BY <1>4 DEF Continue, StartDelete, LockNode, DeleteNodes, DeadlockDetected, LoadNodes,
              FindVersion, NextVersion, InsertVersion, CreateRun, draftVars
<1>5. ASSUME \/ \E c \in Clients : \/ \E body \in Bodies : SaveSequence(c, body)
                                   \/ CompileSequence(c)
                                   \/ \E body \in RunBodies : CreateSequenceRun(c, body)
             \/ \E n \in Names : CreateContentVersion(n)
             \/ UNCHANGED authoringVars
      PROVE  UNCHANGED nodes
  BY <1>5 DEF SaveSequence, CompileSequence, CreateSequenceRun, Begin, CreateContentVersion,
              authoringVars, draftVars
<1> QED
  BY <1>1, <1>2, <1>3, <1>4, <1>5 DEF AuthoringNext

(* A run made of a version that is a forest is that tree.                  *)
LEMMA RunOfForest ==
    ASSUME NEW r, NEW v, NEW body, MadeOf(r, v, body), Forest(v.tree)
    PROVE  LET steps == Executable(v.tree)
           IN  /\ v.version = r.version
               /\ {r.plan[k].node : k \in DOMAIN r.plan} = steps
               /\ \A k \in 1..(Len(r.plan) - 1) :
                     Before(Path(v.tree, r.plan[k].node), Path(v.tree, r.plan[k + 1].node))
               /\ \A k \in DOMAIN r.plan :
                     LET step == v.tree[r.plan[k].node]
                     IN  r.plan[k].state = "pending"
                           <=> step.enabled /\ EvalCondition(step.condition, r.value)
               /\ r.resolved => DOMAIN r.pins = UNION {v.tree[i].content_refs : i \in steps}
<1> DEFINE t == v.tree
           steps == FlattenSteps(t)
           n == Len(steps)
<1>1. /\ steps \in Seq(DOMAIN t)
      /\ {steps[k] : k \in DOMAIN steps} = Executable(t)
      /\ \A k, l \in DOMAIN steps : k < l => Before(Path(t, steps[k]), Path(t, steps[l]))
  BY FlattenIsTheTree
<1>2. /\ r.plan = [k \in DOMAIN steps |-> PlanStep(t, steps[k], body.value)]
      /\ r.resolved => DOMAIN r.pins = References(t, steps)
      /\ v.version = r.version /\ r.value = body.value
  BY DEF MadeOf
<1> HIDE DEF steps, t
<1>3. n \in Nat /\ DOMAIN steps = 1..n
  BY <1>1
<1>4. DOMAIN r.plan = 1..n /\ \A k \in 1..n : r.plan[k].node = steps[k]
  BY <1>2, <1>3 DEF PlanStep
<1>5. Len(r.plan) = n
  BY <1>2, <1>3
<1>6. {r.plan[k].node : k \in DOMAIN r.plan} = Executable(t)
  BY <1>1, <1>3, <1>4
<1>7. ASSUME NEW k \in 1..(n - 1)
      PROVE  Before(Path(t, r.plan[k].node), Path(t, r.plan[k + 1].node))
  <2>1. k \in 1..n /\ k + 1 \in 1..n /\ k < k + 1
    BY <1>3
  <2> QED
    BY <1>1, <1>3, <1>4, <2>1
<1>8. References(t, steps) = UNION {t[i].content_refs : i \in Executable(t)}
  BY <1>1 DEF References
<1>9. \A k \in DOMAIN r.plan : r.plan[k].state = "pending"
          <=> t[r.plan[k].node].enabled /\ EvalCondition(t[r.plan[k].node].condition, r.value)
  BY <1>2, <1>4 DEF PlanStep
<1> QED
  BY <1>2, <1>5, <1>6, <1>7, <1>8, <1>9 DEF t

(* _flatten_steps, create_run_from_version, resolve_run_content_manifest:  *)
(* a run holds every step of its version that only groups contain, once,   *)
(* in the order a reader of the tree meets them, pending by its own flag   *)
(* and condition, with all their content when asked to, for every tree     *)
(* that is drawn, any number of requests and any interleaving of their     *)
(* transactions.                                                           *)
THEOREM RunsAreTheTree ==
    ASSUME DrawnInGroups
    PROVE  AuthoringSpec => []RunIsTheTree
<1>1. DrawnFromRoot
  BY DEF DrawnInGroups, DrawnFromRoot
<1>2. AuthoringInit => ForestInv
  BY NoNodesIsForest DEF AuthoringInit, ForestInv
<1>3. AuthoringInv /\ ForestInv /\ [AuthoringNext]_authoringVars => ForestInv'
  <2> SUFFICES ASSUME AuthoringInv, ForestInv, [AuthoringNext]_authoringVars
               PROVE  ForestInv'
    OBVIOUS
  <2>1. Forest(nodes')
    BY DraftIsForest DEF AuthoringInv, ForestInv
  <2>2. TreesMove
    BY TreesStep DEF AuthoringInv, DraftInv
  <2> QED
    BY <2>1, <2>2, NoNodesIsForest DEF TreesMove, ForestInv
<1>4. LineageInv /\ ForestInv => RunIsTheTree
  <2> SUFFICES ASSUME LineageInv, ForestInv, NEW r \in runs
               PROVE  \E v \in versions :
                          LET steps == Executable(v.tree)
                          IN  /\ v.version = r.version
                              /\ {r.plan[k].node : k \in DOMAIN r.plan} = steps
                              /\ \A k \in 1..(Len(r.plan) - 1) :
                                    Before(Path(v.tree, r.plan[k].node),
                                           Path(v.tree, r.plan[k + 1].node))
                              /\ \A k \in DOMAIN r.plan :
                                    LET step == v.tree[r.plan[k].node]
                                    IN  r.plan[k].state = "pending"
                                          <=> step.enabled /\ EvalCondition(step.condition, r.value)
                              /\ r.resolved =>
                                    DOMAIN r.pins = UNION {v.tree[i].content_refs : i \in steps}
    BY DEF RunIsTheTree
  <2>1. PICK v \in versions, body \in RunBodies : MadeOf(r, v, body)
    BY DEF LineageInv, RunsAreOfVersions
  <2>2. Forest(v.tree)
    BY DEF ForestInv
  <2> QED
    BY <2>1, <2>2, RunOfForest
<1>5. LineageInv /\ [AuthoringNext]_authoringVars => LineageInv'
  BY LineageStep
<1> QED
  BY <1>1, <1>2, <1>3, <1>4, <1>5, AuthoringInvariant, LineageInvInit, PTL DEF AuthoringSpec

=============================================================================
