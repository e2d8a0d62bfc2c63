------------------------------- MODULE BuildHost -------------------------------
(***************************************************************************)
(* Work items of a build-host agent, and the server images that are built  *)
(* through them (web/agent_telemetry_pg.py, agent_v1_endpoints.py,         *)
(* osdeploy_endpoints.py, osdeploy_cache.py, AutopilotAgent's Worker).     *)
(*                                                                         *)
(* A warm request queues the items the build depends on and the build,     *)
(* each in its own transaction, and then remembers the build in the cache  *)
(* entry.  The agent works on one item at a time.  Looks at the cache      *)
(* page, several at once, turn an uploaded ISO into a ready entry.  A      *)
(* request the agent has given up waiting for may still be served, at any  *)
(* time later.                                                             *)
(***************************************************************************)
EXTENDS Naturals, Sequences, FiniteSets

CONSTANTS
    Requests,   \* warm requests
    Viewers,    \* those who look at the cache page
    MaxItems,   \* bound on work items
    MaxEvents,  \* bound on lost or late requests and answers, crashes, and on
                \* catalog refreshes, verify and delete jobs
    None

ASSUME BuildAssumption == {MaxItems, MaxEvents} \subseteq Nat /\ None \notin Nat

Dependencies == {"prereq", "fetch"}  \* install_build_prerequisites, fetch_source_bundle

Active == {"pending", "claimed"}

VARIABLES
    items,    \* agent_work_items in the order of created_at
    clock,    \* the last timestamp given to a claim or an end
    entry,    \* the cache entry: status, its build_work_item_id, its local_path
    iso,      \* the items an osdeploy-iso was uploaded for
    files,    \* those of them whose file still exists
    agent,    \* the agent's loop: where it is, and the item it works on
    late,     \* reports the agent gave up waiting for, which may still be served
    lost,     \* the items whose claim or report it lost, or had when it died
    warm,     \* each warm request: where it is, the items it depends on, its build
    look,     \* each look at the cache page: where it is, the build it read
    job,      \* a cache job of the builder: what it does, the path it read
    deps,     \* deps[i]: the items build i was queued behind
    faults, jobs

rowVars == <<items, clock, deps>>
fileVars == <<iso, files>>
agentVars == <<agent, late, lost>>
boundVars == <<faults, jobs>>
buildVars == <<rowVars, entry, fileVars, agentVars, warm, look, job, boundVars>>

Idle == [pc |-> "idle", item |-> None]

NoRequest == [pc |-> "idle", deps |-> {}, build |-> None]

BuildInit ==
    /\ items = <<>>
    /\ clock = 0
    /\ entry = [status |-> "discovered", work |-> None, path |-> None]
    /\ iso = {} /\ files = {}
    /\ agent = Idle /\ late = {} /\ lost = {}
    /\ warm = [r \in Requests |-> [NoRequest EXCEPT !.pc = "prereq"]]
    /\ look = [v \in Viewers |-> Idle]
    /\ job = Idle
    /\ deps = <<>>
    /\ faults = 0 /\ jobs = 0

Items == DOMAIN items

Ended(i) == items[i].status \in {"complete", "failed"}

MayHappen == faults + jobs < MaxEvents

Fault == MayHappen /\ faults' = faults + 1 /\ UNCHANGED jobs

-----------------------------------------------------------------------------
(* Queueing: _queue_build_host_agent_build                                 *)

(* create_work_item.                                                       *)
CreateWorkItem(kind, after) ==
    /\ Len(items) < MaxItems
    /\ items' = Append(items, [kind |-> kind, status |-> "pending", claimed |-> 0, done |-> 0])
    /\ deps' = Append(deps, after)
    /\ UNCHANGED clock

(* The newest item of the kind, if it has not failed and, once claimed, is *)
(* not older than its TTL (_claimed_dependency_is_fresh).                  *)
Reusable(kind, fresh) ==
    {i \in Items : /\ items[i].kind = kind
                   /\ \A j \in Items : items[j].kind = kind => j <= i
                   /\ items[i].status # "failed"
                   /\ items[i].status = "claimed" => fresh}

(* _ensure_build_host_dependency_work_item.                                *)
EnsureDependency(r) ==
    LET kind == warm[r].pc
        next == IF kind = "prereq" THEN "fetch" ELSE "build"
        Use(i) == warm' = [warm EXCEPT ![r].pc = next, ![r].deps = @ \cup {i}]
    IN  /\ kind \in Dependencies
        /\ \E fresh \in BOOLEAN :
              \/ \E i \in Reusable(kind, fresh) : Use(i) /\ UNCHANGED rowVars
              \/ /\ Reusable(kind, fresh) = {}
                 /\ CreateWorkItem(kind, {})
                 /\ Use(Len(items) + 1)
        /\ UNCHANGED <<entry, fileVars, agentVars, look, job, boundVars>>

QueueBuild(r) ==
    /\ warm[r].pc = "build"
    /\ CreateWorkItem("build", warm[r].deps)
    /\ warm' = [warm EXCEPT ![r].pc = "mark", ![r].build = Len(items) + 1]
    /\ UNCHANGED <<entry, fileVars, agentVars, look, job, boundVars>>

(* mark_build_dispatched, a transaction of its own.                        *)
MarkBuildDispatched(r) ==
    /\ warm[r].pc = "mark"
    /\ entry' = [entry EXCEPT !.status = "warming", !.work = warm[r].build]
    /\ warm' = [warm EXCEPT ![r] = NoRequest]
    /\ UNCHANGED <<rowVars, fileVars, agentVars, look, job, boundVars>>

-----------------------------------------------------------------------------
(* The agent: Worker.ExecuteAsync and the handlers it calls                *)

Pending == {i \in Items : items[i].status = "pending"}

(* Mutant of NextPending: the newest first.                                *)
NextPendingNewest == {i \in Pending : \A j \in Pending : j <= i}

NextPending == {i \in Pending : \A j \in Pending : i <= j}

(* claim_next_work_item: the UPDATE of the row it locked.                  *)
ClaimWorkItem(i) ==
    /\ items' = [items EXCEPT ![i].status = "claimed", ![i].claimed = clock + 1]
    /\ clock' = clock + 1
    /\ UNCHANGED deps

(* POST /work/next.                                                        *)
ClaimNextWorkItem ==
    /\ agent.pc = "idle"
    /\ \E i \in NextPending : ClaimWorkItem(i) /\ agent' = [pc |-> "work", item |-> i]
    /\ UNCHANGED <<entry, fileVars, late, lost, warm, look, job, boundVars>>

(* The same for an agent that does not get the answer, or gave up waiting  *)
(* for it and does something else by now.                                  *)
ClaimUnheard ==
    /\ Fault
    /\ \E i \in NextPending : ClaimWorkItem(i) /\ lost' = lost \cup {i}
    /\ UNCHANGED <<entry, fileVars, agent, late, warm, look, job>>

(* ProcessWorkAsync.  A build uploads what it made before it reports; the  *)
(* ISO may arrive although the agent sees an error, or a later upload      *)
(* fails.                                                                  *)
Work ==
    /\ agent.pc = "work"
    /\ \E ok \in BOOLEAN, uploaded \in BOOLEAN :
          /\ agent' = [agent EXCEPT !.pc = IF ok THEN "complete" ELSE "fail"]
          /\ uploaded => items[agent.item].kind = "build"
          /\ ok /\ items[agent.item].kind = "build" => uploaded
          /\ iso' = IF uploaded THEN iso \cup {agent.item} ELSE iso
          /\ files' = IF uploaded THEN files \cup {agent.item} ELSE files
    /\ UNCHANGED <<rowVars, entry, late, lost, warm, look, job, boundVars>>

(* Mutant of EndWorkItem: whatever the item's status is.                   *)
EndWorkItemAnyStatus(i, status) ==
    /\ items' = [items EXCEPT ![i].status = status, ![i].done = clock + 1]
    /\ clock' = clock + 1
    /\ UNCHANGED deps

(* complete_work_item, fail_work_item: an item that has ended is not found. *)
EndWorkItem(i, status) ==
    IF items[i].status \in Active
    THEN /\ items' = [items EXCEPT ![i].status = status, ![i].done = clock + 1]
         /\ clock' = clock + 1
         /\ UNCHANGED deps
    ELSE UNCHANGED rowVars

(* The agent gives up on a report: it was served and the answer lost, or   *)
(* it is still to be served.                                               *)
GiveUp(status) ==
    /\ Fault
    /\ lost' = lost \cup {agent.item}
    /\ \/ EndWorkItem(agent.item, status) /\ UNCHANGED late
       \/ late' = late \cup {[item |-> agent.item, status |-> status]} /\ UNCHANGED rowVars

(* POST /work/{id}/complete.  When that fails, the agent's handler of the  *)
(* exception reports a failure.                                            *)
CompleteWork ==
    /\ agent.pc = "complete"
    /\ \/ /\ EndWorkItem(agent.item, "complete")
          /\ agent' = Idle
          /\ UNCHANGED <<late, lost, boundVars>>
       \/ GiveUp("complete") /\ agent' = [agent EXCEPT !.pc = "fail"]
    /\ UNCHANGED <<entry, fileVars, warm, look, job>>

(* POST /work/{id}/fail.  An error here ends the pass of the loop.         *)
FailWork ==
    /\ agent.pc = "fail"
    /\ agent' = Idle
    /\ \/ EndWorkItem(agent.item, "failed") /\ UNCHANGED <<late, lost, boundVars>>
       \/ GiveUp("failed")
    /\ UNCHANGED <<entry, fileVars, warm, look, job>>

(* The server gets to a report that nobody waits for any more.             *)
ServeLateReport ==
    /\ \E report \in late :
          /\ EndWorkItem(report.item, report.status)
          /\ late' = late \ {report}
    /\ UNCHANGED <<entry, fileVars, agent, lost, warm, look, job, boundVars>>

(* The machine or the service restarts: nothing remembers the item.        *)
AgentCrashes ==
    /\ agent.pc # "idle"
    /\ Fault
    /\ agent' = Idle
    /\ lost' = lost \cup {agent.item}
    /\ UNCHANGED <<rowVars, entry, fileVars, late, warm, look, job>>

-----------------------------------------------------------------------------
(* The cache page: _finalize_warming_cache_builds                          *)

(* warming_build_entries, read before the artifacts are looked up.         *)
ReadWarmingEntry(v) ==
    /\ look[v].pc = "idle"
    /\ entry.status = "warming" /\ entry.work # None
    /\ look' = [look EXCEPT ![v] = [pc |-> "look", item |-> entry.work]]
    /\ UNCHANGED <<rowVars, entry, fileVars, agentVars, warm, job, boundVars>>

(* Mutant of Built: an item that was taken will be built.                  *)
BuiltOrTaken(i) == items[i].status # "pending"

Built(i) == i \in files

(* The artifact is there.                                                  *)
FindArtifact(v) ==
    /\ look[v].pc = "look"
    /\ Built(look[v].item)
    /\ look' = [look EXCEPT ![v].pc = "found"]
    /\ UNCHANGED <<rowVars, entry, fileVars, agentVars, warm, job, boundVars>>

(* finalize_from_build, whatever happened to the entry since.  It is       *)
(* followed by _publish_warmed_osdeploy_artifact, which hands the ISO to   *)
(* the artifacts and the job queue.                                        *)
FinalizeFromBuild(v) ==
    /\ look[v].pc = "found"
    /\ entry' = [entry EXCEPT !.status = "ready", !.path = look[v].item]
    /\ look' = [look EXCEPT ![v] = Idle]
    /\ UNCHANGED <<rowVars, fileVars, agentVars, warm, job, boundVars>>

(* Mutant of MarkBuildFailed: a failed item leaves the entry as it is.     *)
MarkBuildFailedNever(v) ==
    /\ look[v].pc = "look"
    /\ ~Built(look[v].item)
    /\ look' = [look EXCEPT ![v] = Idle]
    /\ UNCHANGED <<rowVars, entry, fileVars, agentVars, warm, job, boundVars>>

(* No ISO: a failed item fails the entry, also one that was warmed again   *)
(* since it was read.                                                      *)
MarkBuildFailed(v) ==
    /\ look[v].pc = "look"
    /\ ~Built(look[v].item)
    /\ entry' = IF items[look[v].item].status = "failed"
                THEN [entry EXCEPT !.status = "failed"] ELSE entry
    /\ look' = [look EXCEPT ![v] = Idle]
    /\ UNCHANGED <<rowVars, fileVars, agentVars, warm, job, boundVars>>

-----------------------------------------------------------------------------
(* Cache jobs                                                              *)

(* refresh_catalog: upsert_entry writes the entry as it was seeded.        *)
RefreshCatalog ==
    /\ MayHappen
    /\ jobs' = jobs + 1
    /\ entry' = [status |-> "discovered", work |-> None, path |-> None]
    /\ UNCHANGED <<rowVars, fileVars, agentVars, warm, look, job, faults>>

(* verify_entry and delete_entry_file read the entry's path first.         *)
StartCacheJob(op) ==
    /\ MayHappen
    /\ jobs' = jobs + 1
    /\ job.pc = "idle"
    /\ job' = [pc |-> op, item |-> entry.path]
    /\ UNCHANGED <<rowVars, entry, fileVars, agentVars, warm, look, faults>>

(* verify_entry: the file it read about is there, or the entry is missing. *)
VerifyEntry ==
    /\ job.pc = "verify"
    /\ entry' = IF job.item \in files
                THEN [entry EXCEPT !.status = "ready", !.path = job.item]
                ELSE [entry EXCEPT !.status = "missing"]
    /\ job' = Idle
    /\ UNCHANGED <<rowVars, fileVars, agentVars, warm, look, boundVars>>

DeleteEntryFile ==
    /\ job.pc = "delete"
    /\ files' = files \ {job.item}
    /\ entry' = [entry EXCEPT !.status = "missing", !.path = None]
    /\ job' = Idle
    /\ UNCHANGED <<rowVars, iso, agentVars, warm, look, boundVars>>

-----------------------------------------------------------------------------
Agent == ClaimNextWorkItem \/ Work \/ CompleteWork \/ FailWork

Look(v) == ReadWarmingEntry(v) \/ FindArtifact(v) \/ FinalizeFromBuild(v) \/ MarkBuildFailed(v)

BuildNext ==
    \/ \E r \in Requests : EnsureDependency(r) \/ QueueBuild(r) \/ MarkBuildDispatched(r)
    \/ Agent \/ ClaimUnheard \/ ServeLateReport \/ AgentCrashes
    \/ \E v \in Viewers : Look(v)
    \/ RefreshCatalog \/ VerifyEntry \/ DeleteEntryFile
    \/ \E op \in {"verify", "delete"} : StartCacheJob(op)

(* The agent's loop runs for as long as the machine does.  Nothing makes   *)
(* anybody look at the cache page.                                         *)
BuildSpec == BuildInit /\ [][BuildNext]_buildVars /\ WF_buildVars(Agent)

-----------------------------------------------------------------------------
(* What the health page makes of it                                        *)

(* Mutant of SupersededByLaterTerminalWork: ended at any time.             *)
SupersededByAnyTerminalWork(i) ==
    {j \in Items : items[i].status = "claimed" /\ Ended(j)}

(* deployment_health._sync_agent_work and app._latest_claimed_build_host_  *)
(* work take a claimed item for lost once the same agent ended another     *)
(* item after that claim: the items that make item i look lost.            *)
SupersededByLaterTerminalWork(i) ==
    {j \in Items : /\ items[i].status = "claimed"
                   /\ Ended(j) /\ items[j].done > items[i].claimed}

-----------------------------------------------------------------------------
(* Properties                                                              *)

(* complete_work_item and fail_work_item: a lost answer makes the agent    *)
(* report a failure of what it has completed, and a report may be served   *)
(* after the next one; an item that ended stays as it ended.               *)
EndIsFinal ==
    [][\A i \in Items : Ended(i) => items'[i].status = items[i].status]_buildVars

(* claim_next_work_item with _ensure_build_host_dependency_work_item:      *)
(* although requests share the items they queue, the agent starts no build *)
(* before the items it was queued behind have ended; only one whose own    *)
(* claim or report was lost is passed over.                                *)
BuildFollowsDependencies ==
    agent.pc = "work" => \A d \in deps[agent.item] : Ended(d) \/ d \in lost

(* SupersededByLaterTerminalWork takes the item the agent is working on    *)
(* for lost only because of an item the agent itself had given up on, the  *)
(* report of which was served late.                                        *)
SupersededIsLost ==
    \A i \in Items : agent.item = i => SupersededByLaterTerminalWork(i) \subseteq lost

(* finalize_from_build, with verify jobs, refreshes, warm requests and     *)
(* other looks in between: a ready entry names an ISO that the agent has   *)
(* uploaded.                                                               *)
ReadyIsBuilt == entry.status = "ready" => entry.path \in iso

(* mark_build_dispatched and _finalize_warming_cache_builds: whoever keeps *)
(* looking at the cache page sees an entry leave warming, unless its own   *)
(* build was lost; nobody has to look.                                     *)
WarmEnds ==
    ([]<><<\E v \in Viewers : Look(v)>>_buildVars) =>
        (entry.status = "warming" ~> entry.status # "warming" \/ entry.work \in lost)
=============================================================================
