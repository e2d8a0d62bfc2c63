--------------------------- MODULE SequenceAuthoring ---------------------------
(***************************************************************************)
(* Authoring a v2 task sequence: the draft tree of groups and steps, its   *)
(* compiled versions, and the runs that are created from them              *)
(* (web/ts_engine_pg.py, the builder's handlers in web/app.py and the API  *)
(* of web/osd_v2_endpoints.py), for one sequence.                          *)
(*                                                                         *)
(* A request is a chain of transactions: a save updates the sequence,      *)
(* replaces its nodes and compiles them, each with a commit of its own.    *)
(* Statements see what is committed when they start.  A DELETE locks the   *)
(* rows it saw at its start one by one, keeps them while it waits for the  *)
(* ones another transaction is deleting, and does not see what was         *)
(* inserted meanwhile; PostgreSQL ends a circle of such waits.             *)
(***************************************************************************)
EXTENDS Naturals, FiniteSets, Sequences, Relation

CONSTANTS
    Clients,      \* connections that serve requests
    Bodies,       \* what the builder may send: [target_os, nodes]
    Extra,        \* the step that POST /sequences/{id}/steps adds
    Conditions,   \* Conditions[c]: condition c, whose parts are conditions too
    RunBodies,    \* what a run is asked for: [value, resolve], where value is the
                  \* run variable that conditions read, None if it is not given
    Names,        \* content items
    MaxRequests,  \* bound on requests
    MaxContent,   \* bound on the versions of a content item
    None

(* The API takes no other type of node and no position below 0, and NULL   *)
(* is the id of no node.                                                   *)
ASSUME AuthoringAssumption ==
    /\ {MaxRequests, MaxContent} \subseteq Nat
    /\ Extra.positions \subseteq Nat
    /\ None \notin Nat \X Nat
    /\ \A body \in Bodies :
          /\ Len(body.nodes) \in Nat /\ DOMAIN body.nodes = 1..Len(body.nodes)
          /\ \A i \in DOMAIN body.nodes : body.nodes[i].node_type \in {"group", "step"}

VARIABLES
    target_os,   \* ts_task_sequences.target_os
    nodes,       \* the draft: ts_task_sequence_nodes, from ids to rows
    versions,    \* ts_task_sequence_versions: records [version, tree]
    runs,        \* the runs: records [version, value, resolved, plan, pins]
    content,     \* content[n]: the number of versions of content item n
    pc,          \* where each client's request is
    work,        \* the request, None when there is none
    snap,        \* the nodes its DELETE statement saw
    held,        \* the nodes it has locked in order to delete them
    tree,        \* the nodes its compilation loaded
    number,      \* the version number it computed
    requests     \* the number of requests so far

draftVars == <<target_os, nodes>>
localVars == <<work, snap, held, tree, number>>
authoringVars == <<draftVars, versions, runs, content, pc, localVars, requests>>

NoNodes == [i \in {} |-> None]

AuthoringInit ==
    /\ target_os = "windows"
    /\ nodes = NoNodes
    /\ versions = {}
    /\ runs = {}
    /\ content = [n \in Names |-> 0]
    /\ pc = [c \in Clients |-> "idle"]
    /\ work = [c \in Clients |-> None]
    /\ snap = [c \in Clients |-> {}]
    /\ held = [c \in Clients |-> {}]
    /\ tree = [c \in Clients |-> NoNodes]
    /\ number = [c \in Clients |-> 0]
    /\ requests = 0

-----------------------------------------------------------------------------
(* The nodes                                                               *)

Rows(t) == {t[i] : i \in DOMAIN t}

(* validate_steps_for_target_os: only enabled steps are looked at.         *)
ValidateSteps(os, rows) ==
    \A r \in rows : r.node_type = "step" /\ r.enabled => os \in r.fits

(* _normalize_builder_nodes refuses a client id that occurs twice.         *)
Distinct(drawn) == \A i, j \in DOMAIN drawn : drawn[i].client_id = drawn[j].client_id => i = j

(* The ids are those of the request and the place in its body.  A parent   *)
(* that has not been inserted yet is not found, and the node goes to the   *)
(* root, with the position counted for the parent it asked for.            *)
NewNodes(request, drawn) ==
    LET earlier(i) == {j \in 1..i : drawn[j].client_id = drawn[i].parent_id}
        position(i) == Cardinality({j \in 1..(i - 1) : drawn[j].parent_id = drawn[i].parent_id})
    IN  [id \in {<<request, i>> : i \in DOMAIN drawn} |->
            LET i == id[2]
            IN  [parent_id    |-> IF earlier(i) = {} THEN None
                                  ELSE <<request, CHOOSE j \in earlier(i) : TRUE>>,
                 position     |-> position(i),
                 node_type    |-> drawn[i].node_type,
                 enabled      |-> drawn[i].enabled,
                 fits         |-> drawn[i].fits,
                 condition    |-> drawn[i].condition,
                 content_refs |-> drawn[i].content_refs]]

(* A deleted node takes what it contains with it (ON DELETE CASCADE): a    *)
(* node is left with everything it is contained in, or not at all.         *)
Without(t, gone) ==
    LET closed(S) == \A i \in S : t[i].parent_id \in S \cup {None}
    IN  [i \in {j \in DOMAIN t : \E S \in SUBSET (DOMAIN t \ gone) : j \in S /\ closed(S)}
            |-> t[i]]

Both(t, u) == [i \in DOMAIN t \cup DOMAIN u |-> IF i \in DOMAIN t THEN t[i] ELSE u[i]]

Place(r) == <<r.parent_id, r.position>>

(* Mutant of UniquePositions: only inside a group, as the table's own      *)
(* UNIQUE would have it, for which NULLs differ.                           *)
UniquePositionsInGroups(t) ==
    \A i, j \in DOMAIN t :
        t[i].parent_id # None /\ Place(t[i]) = Place(t[j]) => i = j

(* The unique indexes, of the roots and of the children.                   *)
UniquePositions(t) == \A i, j \in DOMAIN t : Place(t[i]) = Place(t[j]) => i = j

(* What the DELETE of c removes, the cascade included.                     *)
Doomed(c) == DOMAIN nodes \ DOMAIN Without(nodes, snap[c])

HeldByOthers(c) == UNION {held[d] : d \in Clients \ {c}}

-----------------------------------------------------------------------------
(* Requests                                                                *)

Goto(c, label) == pc' = [pc EXCEPT ![c] = label]

(* Mutant of Respond: nothing is rolled back.                              *)
RespondHolding(c) ==
    /\ Goto(c, "idle")
    /\ work' = [work EXCEPT ![c] = None]
    /\ snap' = [snap EXCEPT ![c] = {}]
    /\ tree' = [tree EXCEPT ![c] = NoNodes]
    /\ number' = [number EXCEPT ![c] = 0]
    /\ UNCHANGED held

(* The response: the connection is rolled back and given back.             *)
Respond(c) ==
    /\ Goto(c, "idle")
    /\ work' = [work EXCEPT ![c] = None]
    /\ snap' = [snap EXCEPT ![c] = {}]
    /\ held' = [held EXCEPT ![c] = {}]
    /\ tree' = [tree EXCEPT ![c] = NoNodes]
    /\ number' = [number EXCEPT ![c] = 0]

Begin(c, request, label) ==
    /\ pc[c] = "idle"
    /\ requests < MaxRequests
    /\ requests' = requests + 1
    /\ work' = [work EXCEPT ![c] = request]
    /\ Goto(c, label)
    /\ UNCHANGED <<nodes, versions, runs, content, snap, held, tree, number>>

(* _save_v2_builder_sequence up to the commit of update_sequence.          *)
SaveSequence(c, body) ==
    /\ ValidateSteps(body.target_os, Rows(body.nodes))
    /\ target_os' = body.target_os
    /\ Begin(c, [do |-> "save", id |-> requests + 1, nodes |-> body.nodes], "replace")

(* POST /sequences/{id}/compile.                                           *)
CompileSequence(c) ==
    /\ ValidateSteps(target_os, Rows(nodes))
    /\ Begin(c, [do |-> "compile"], "load")
    /\ UNCHANGED target_os

(* POST /sequences/{id}/runs.                                              *)
CreateSequenceRun(c, body) ==
    /\ ValidateSteps(target_os, Rows(nodes))
    /\ Begin(c, [do |-> "run", value |-> body.value, resolve |-> body.resolve], "load")
    /\ UNCHANGED target_os

(* POST /sequences/{id}/steps: add_step.  A place that is taken, or a      *)
(* parent that is gone, is refused; one that is being deleted is waited    *)
(* for.                                                                    *)
AddStep(c, parent, position) ==
    LET row == [parent_id |-> parent, position |-> position, node_type |-> "step",
                enabled |-> TRUE, fits |-> Extra.fits, condition |-> Extra.condition,
                content_refs |-> Extra.content_refs]
    IN  /\ pc[c] = "idle"
        /\ requests < MaxRequests
        /\ parent \in {None} \cup (DOMAIN nodes \ HeldByOthers(c))
        /\ \A r \in Rows(nodes) : Place(r) # Place(row)
        /\ nodes' = Both(nodes, [i \in {<<requests + 1, 0>>} |-> row])
        /\ requests' = requests + 1
        /\ UNCHANGED <<target_os, versions, runs, content, pc, localVars>>

-----------------------------------------------------------------------------
(* replace_sequence_nodes                                                  *)

StartDelete(c) ==
    /\ pc[c] = "replace"
    /\ \/ /\ Distinct(work[c].nodes)
          /\ snap' = [snap EXCEPT ![c] = DOMAIN nodes]
          /\ Goto(c, "delete")
          /\ UNCHANGED <<work, held, tree, number>>
       \/ ~Distinct(work[c].nodes) /\ Respond(c)
    /\ UNCHANGED <<draftVars, versions, runs, content, requests>>

(* The DELETE comes to a row that no other transaction holds.              *)
LockNode(c) ==
    /\ pc[c] = "delete"
    /\ \E i \in Doomed(c) \ (held[c] \cup HeldByOthers(c)) :
          held' = [held EXCEPT ![c] = @ \cup {i}]
    /\ UNCHANGED <<draftVars, versions, runs, content, pc, work, snap, tree, number, requests>>

DeleteNodes(c) ==
    /\ pc[c] = "delete"
    /\ Doomed(c) \subseteq held[c]
    /\ Goto(c, "insert")
    /\ UNCHANGED <<draftVars, versions, runs, content, localVars, requests>>

(* The places the INSERTs of c need and d is about to free.                *)
Contested(c, d) ==
    {i \in held[d] : \E r \in Rows(NewNodes(work[c].id, work[c].nodes)) :
                        Place(nodes[i]) = Place(r)}

(* The INSERTs and the commit.  A place that another transaction is about  *)
(* to free is waited for; one that is taken is a unique violation.         *)
InsertNodes(c) ==
    LET draft == Both(Without(nodes, snap[c]), NewNodes(work[c].id, work[c].nodes))
    IN  /\ pc[c] = "insert"
        /\ \A d \in Clients \ {c} : Contested(c, d) = {}
        /\ \/ /\ UniquePositions(draft)
              /\ nodes' = draft
              /\ snap' = [snap EXCEPT ![c] = {}]
              /\ held' = [held EXCEPT ![c] = {}]
              /\ Goto(c, "load")
              /\ UNCHANGED <<work, tree, number>>
           \/ ~UniquePositions(draft) /\ Respond(c) /\ UNCHANGED nodes
        /\ UNCHANGED <<target_os, versions, runs, content, requests>>

WaitsFor(c, d) ==
    /\ c # d
    /\ \/ pc[c] = "delete" /\ Doomed(c) \cap held[d] # {}
       \/ pc[c] = "insert" /\ Contested(c, d) # {}

InACircle(c) == TransitiveClosure([d, e \in Clients |-> WaitsFor(d, e)], Clients)[c, c]

(* PostgreSQL's deadlock detector aborts one of those who wait in a circle. *)
DeadlockDetected(c) ==
    /\ pc[c] \in {"delete", "insert"}
    /\ InACircle(c)
    /\ Respond(c)
    /\ UNCHANGED <<draftVars, versions, runs, content, requests>>

-----------------------------------------------------------------------------
(* compile_sequence                                                        *)

LoadNodes(c) ==
    /\ pc[c] = "load"
    /\ tree' = [tree EXCEPT ![c] = nodes]
    /\ Goto(c, "number")
    /\ UNCHANGED <<draftVars, versions, runs, content, work, snap, held, number, requests>>

Numbers == {v.version : v \in versions}

Trees == {v.tree : v \in versions}

(* A save or a compilation is answered, a run is created next.             *)
Compiled(c) ==
    IF work[c].do = "run" THEN Goto(c, "run") /\ UNCHANGED localVars ELSE Respond(c)

(* A tree that has a version, by its source_hash, keeps it.                *)
FindVersion(c) ==
    /\ pc[c] = "number"
    /\ \/ tree[c] \in Trees /\ Compiled(c)
       \/ tree[c] \notin Trees /\ Goto(c, "max") /\ UNCHANGED localVars
    /\ UNCHANGED <<draftVars, versions, runs, content, requests>>

(* MAX(version) + 1, a statement of its own.                               *)
NextVersion(c) ==
    /\ pc[c] = "max"
    /\ number' = [number EXCEPT ![c] = Cardinality(versions) + 1]
    /\ Goto(c, "version")
    /\ UNCHANGED <<draftVars, versions, runs, content, work, snap, held, tree, requests>>

(* The number and the source_hash of a version are unique.                 *)
InsertVersion(c) ==
    /\ pc[c] = "version"
    /\ \/ /\ number[c] \notin Numbers /\ tree[c] \notin Trees
          /\ versions' = versions \cup {[version |-> number[c], tree |-> tree[c]]}
          /\ Compiled(c)
       \/ /\ number[c] \in Numbers \/ tree[c] \in Trees
          /\ Respond(c)
          /\ UNCHANGED versions
    /\ UNCHANGED <<draftVars, runs, content, requests>>

-----------------------------------------------------------------------------
(* create_run_from_version                                                 *)

(* _flatten_steps: depth first, by position; a group stands for what it    *)
(* contains, whether it is enabled or not.  walk[<<parent, p>>] are the    *)
(* steps inside parent from its position p on.                             *)
Walk(t) ==
    LET at(x) == {i \in DOMAIN t : t[i].parent_id = x[1] /\ t[i].position = x[2]}
        walk[x \in (DOMAIN t \cup {None}) \X Nat] ==
            IF \A i \in DOMAIN t : t[i].position < x[2] THEN <<>>
            ELSE (CASE at(x) = {} -> <<>>
                    [] \E i \in at(x) : t[i].node_type = "step" -> <<CHOOSE i \in at(x) : TRUE>>
                    [] OTHER -> walk[<<CHOOSE i \in at(x) : TRUE, 0>>])
                   \o walk[<<x[1], x[2] + 1>>]
    IN  walk[<<None, 0>>]

(* Mutant of FlattenSteps: the steps of the root before those of groups.   *)
FlattenStepsRootFirst(t) ==
    SelectSeq(Walk(t), LAMBDA i : t[i].parent_id = None)
      \o SelectSeq(Walk(t), LAMBDA i : t[i].parent_id # None)

FlattenSteps(t) == Walk(t)

(* evaluate_condition, with one path: the run variable, None if not given. *)
EvalCondition(c, value) ==
    LET eval[d \in DOMAIN Conditions] ==
            LET e == Conditions[d]
            IN  CASE e.op = "empty"  -> TRUE
                  [] e.op = "all"    -> \A i \in DOMAIN e.of : eval[e.of[i]]
                  [] e.op = "any"    -> \E i \in DOMAIN e.of : eval[e.of[i]]
                  [] e.op = "not"    -> ~eval[e.of]
                  [] e.op = "exists" -> value # None
                  [] e.op = "eq"     -> value = e.expected
                  [] e.op = "ne"     -> value # e.expected
    IN  eval[c]

PlanStep(t, i, value) ==
    [node  |-> i,
     state |-> IF t[i].enabled /\ EvalCondition(t[i].condition, value)
               THEN "pending" ELSE "skipped"]

(* The content a plan refers to; skipped steps count.                      *)
References(t, steps) == UNION {t[steps[k]].content_refs : k \in DOMAIN steps}

(* resolve_run_content_manifest raises for a reference without a version.  *)
MayCreate(refs) == \A n \in refs : content[n] > 0

(* The run, its plan and the content it pins, in one transaction.          *)
CreateRun(c) ==
    LET t     == tree[c]
        steps == FlattenSteps(t)
        refs  == IF work[c].resolve THEN References(t, steps) ELSE {}
        run   == [version  |-> (CHOOSE v \in versions : v.tree = t).version,
                  value    |-> work[c].value,
                  resolved |-> work[c].resolve,
                  plan     |-> [k \in DOMAIN steps |-> PlanStep(t, steps[k], work[c].value)],
                  pins     |-> [n \in {m \in refs : content[m] > 0} |-> content[n]]]
    IN  /\ pc[c] = "run"
        /\ \/ MayCreate(refs) /\ runs' = runs \cup {run}
           \/ ~MayCreate(refs) /\ UNCHANGED runs
        /\ Respond(c)
        /\ UNCHANGED <<draftVars, versions, content, requests>>

(* create_content_version.                                                 *)
CreateContentVersion(n) ==
    /\ content[n] < MaxContent
    /\ content' = [content EXCEPT ![n] = @ + 1]
    /\ UNCHANGED <<draftVars, versions, runs, pc, localVars, requests>>

-----------------------------------------------------------------------------
Continue(c) ==
    \/ StartDelete(c) \/ LockNode(c) \/ DeleteNodes(c) \/ InsertNodes(c) \/ DeadlockDetected(c)
    \/ LoadNodes(c) \/ FindVersion(c) \/ NextVersion(c) \/ InsertVersion(c) \/ CreateRun(c)

AuthoringNext ==
    \/ \E c \in Clients :
          \/ \E body \in Bodies : SaveSequence(c, body)
          \/ CompileSequence(c)
          \/ \E body \in RunBodies : CreateSequenceRun(c, body)
          \/ \E parent \in {None} \cup DOMAIN nodes, position \in Extra.positions :
                AddStep(c, parent, position)
          \/ Continue(c)
    \/ \E n \in Names : CreateContentVersion(n)

(* A request that has begun goes on; the deadlock detector is a timer of   *)
(* the database (deadlock_timeout).                                        *)
AuthoringSpec ==
    /\ AuthoringInit /\ [][AuthoringNext]_authoringVars
    /\ \A c \in Clients : WF_authoringVars(Continue(c))

-----------------------------------------------------------------------------
(* Properties                                                              *)

(* replace_sequence_nodes and compile_sequence: saves, compilations and    *)
(* added steps interleave statement by statement, yet a version number     *)
(* stands for one tree, and the nodes that tree has from the builder are   *)
(* all those of one save, never a mix of two.                              *)
VersionIsOneSave ==
    /\ \A v, w \in versions : v.version = w.version => v = w
    /\ \A v \in versions :
          \A i, j \in {k \in DOMAIN v.tree : k[2] > 0} : i[1] = j[1]

(* The positions from the root to a node.                                  *)
Path(t, i) ==
    LET path[j \in DOMAIN t] ==
            (IF t[j].parent_id = None THEN <<>> ELSE path[t[j].parent_id])
               \o <<t[j].position>>
    IN  path[i]

Before(p, q) ==
    \E k \in DOMAIN p \cap DOMAIN q :
        p[k] < q[k] /\ \A l \in 1..(k - 1) : p[l] = q[l]

(* The steps that no other step contains: add_step accepts a step as a     *)
(* parent, and what it contains then is in no plan.                        *)
Executable(t) ==
    {i \in DOMAIN t : /\ t[i].node_type = "step"
                      /\ t[i].parent_id # None => t[t[i].parent_id].node_type = "group"}

(* _flatten_steps, create_run_from_version, resolve_run_content_manifest:  *)
(* a run holds every step of its version that only groups contain, once,   *)
(* in the order a reader of the tree meets them, pending where the step's  *)
(* own flag and own condition on the run's variables say so (those of the  *)
(* groups around it do not count), and, when asked to, a pinned version of *)
(* all the content they refer to, or it does not exist.                    *)
RunIsTheTree ==
    \A r \in runs : \E v \in versions :
        LET steps == Executable(v.tree)
        IN  /\ v.version = r.version
            /\ {r.plan[k].node : k \in DOMAIN r.plan} = steps
            /\ \A k \in 1..(Len(r.plan) - 1) :
                  Before(Path(v.tree, r.plan[k].node), Path(v.tree, r.plan[k + 1].node))
            /\ \A k \in DOMAIN r.plan :
                  LET step == v.tree[r.plan[k].node]
                  IN  r.plan[k].state = "pending"
                        <=> step.enabled /\ EvalCondition(step.condition, r.value)
            /\ r.resolved => DOMAIN r.pins = UNION {v.tree[i].content_refs : i \in steps}

(* replace_sequence_nodes and _db.connect: a transaction waits for rows    *)
(* and places others hold, and loses to them by a unique violation or to   *)
(* the deadlock detector; every request is answered, because each that is  *)
(* answered, however it ends, lets go of all it held.                      *)
RequestsEnd == \A c \in Clients : pc[c] # "idle" ~> pc[c] = "idle"
=============================================================================
