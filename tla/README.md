# TLA+ verification of ProxmoxVEAutopilot

ProxmoxVEAutopilot installs and configures Windows and Ubuntu machines on a
Proxmox cluster. A controller (FastAPI and PostgreSQL, `autopilot-proxmox/web`)
keeps runs and their steps, builders run Ansible playbooks, and agents on the
new machines ask the controller for steps and report results. This directory
models the parts where several of these actors meet in one database row, checks
them with TLC and proves their safety properties with TLAPS.

Contents: [1 Inventory](#1-inventory), [2 Modules](#2-modules-and-the-code-they-model),
[3 Runs](#3-runs), [4 Fairness](#4-fairness), [5 Known disagreements](#5-known-disagreements),
[6 Proofs](#6-proofs), [7 Not modelled](#7-what-is-not-modelled), [8 Plan](#8-plan).

## 1 Inventory

`W` stands for `src/autopilot-proxmox/web`.

| Component | State | Operations | Correct when |
|---|---|---|---|
| Task Sequence Engine v2, runs and steps (`W/ts_engine_pg.py`, `W/osd_v2_endpoints.py`) | `ts_run_plan_steps` (state, attempt, claimed_by), `ts_provisioning_runs` (state, cursor) | create run, claim, result, rebooting, register, requeue, mark done by kind | steps are handed out in order, retries are bounded, a run is done exactly when its steps are closed |
| Engine, authoring (`W/ts_engine_pg.py`, `W/osd_v2_endpoints.py`, the builder's handlers in `W/app.py`) | sequences, nodes, versions, runs, content versions | save, add a step, compile, create a run | a version is the tree of one save; a run's plan is that tree, in order, with each step's own flag and condition applied |
| Ubuntu v2 completion (`W/app.py`) | the engine's rows | complete matching steps from cloud-init callbacks | the run ends in the state its last step implies |
| OsdClient (`files/osd-client/OsdClient.ps1`), started by `PVEAutopilot-FirstBoot.ps1` | the action in hand, retry count | register, next, run, report, reboot | no step is reported that was not done |
| AutopilotAgent (`src/autopilot-agent`, `Worker.cs`, `OsdV2WorkService.cs`, `BuildHostWorkService.cs`) | one action or work item at a time | the same; claim, work, complete or fail an item | the same |
| Job queue (`W/jobs_pg.py`) | `jobs` (status, worker, heartbeat, kill), `job_type_limits` | enqueue, claim, heartbeat, finalize, kill, reap, limits | one builder per job, limits hold, every job ends |
| Builder (`W/builder.py`) | the process of a job, stop event | claim loop, heartbeat loop, finalize, related run | a process has a row; failures reach the run |
| Monitor (`W/monitor_main.py`, `W/cloudosd_domain_join.py`) | timers | reap, domain-join tick, lab sweep; device sweep, keytab | lost jobs are found; steps it closes were done |
| CloudOSD runs (`W/cloudosd_pg.py`, `W/cloudosd_endpoints.py`) | `cloudosd_runs`, evidence events, lab asset, and the engine's rows | create, PE registered, events, page view, heartbeat completion, fail, retry a step | complete means joined and hashed; an outcome is final |
| OSDeploy runs and bundles (`W/osdeploy_pg.py`, `W/osdeploy_roles.py`, `W/osdeploy_endpoints.py`) | `osdeploy_runs`, readiness, bundles, and the engine's rows | provision, PE events, heartbeat, role result, failure of the job | complete means the role was configured; a bundle follows its children |
| Work items and image cache (`W/agent_telemetry_pg.py`, `W/agent_v1_endpoints.py`, `W/osdeploy_cache.py`) | `agent_work_items`, cache entry, uploaded ISOs | warm, claim, complete, fail, finalize, verify, delete, refresh | builds follow their dependencies; a ready entry was built; warming ends |
| Managed labs (`W/managed_labs_*.py`, `W/proxmox_sdn.py`) | labs, reservations, fix actions, the SDN | create, plan, apply, sweep; delete SDN objects | overlapping labs are never both built; what is reported was built; labs converge |
| Agent bootstrap, Linux agent, CloudOSD content cache, lab bubbles, machine lifecycle, install tracking, health, device history | one table each | single-statement updates | – |
| Legacy sequences and WinPE endpoints, frontend, Ansible roles, image tools | – | – | – |

How they interact:

- An agent talks to the engine over HTTP: `/agent/register`, `/agent/next`
  (claims up to a batch of steps, one transaction each), `/agent/step/{id}/result`,
  `/agent/rebooting`. Handlers run on a thread pool, at READ COMMITTED.
- On a CloudOSD machine *two* agents ask for the steps of phase `full_os`:
  OsdClient, run every minute by the first-boot task until it exits with 0, and
  the AutopilotAgent service, on every heartbeat. They know different step kinds.
  The monitor closes the same steps from outside, over the guest agent.
- CloudOSD and OSDeploy handlers write the engine's steps and its run state: the PE
  bridge's events, heartbeats, page views, step results, the provision job.
- The web application enqueues jobs; builders claim them under per-type
  advisory locks and start a playbook; the monitor reaps jobs whose heartbeat is
  older than 300 s. A failed OSDeploy job fails its run in a second transaction.
- Warming a server image queues work items for the agent of a build host; a look at
  the cache page, and nothing else, turns its uploaded ISO into a ready entry.
- The monitor's lab sweep (off by default) and an operator's requests plan and apply the
  same labs, and share one SDN lock in Proxmox. The SDN page deletes objects under them.

What is hard: results carry no attempt number and are accepted from any agent at
any time; a handler reads, decides and writes without a row lock; the reboot of a
machine is inferred from a registration; two clients, the monitor and page views drive
one plan; a builder, its process, its row and its run can each outlive the others;
claims have no lease; a save, a warm request or a completion is a chain of
transactions. `PROJECT.json` lists these as hazards, each at its line, with the
property that covers it.

## 2 Modules and the code they model

| Module | Models | Extends |
|---|---|---|
| `TaskEngine` | one run of the engine, every handler one transaction | – |
| `TaskEngineRC` | the same at READ COMMITTED, handlers split into read, decide, write | `TaskEngine` |
| `OsdAgents` | the two full-OS clients, the network, the machine's restarts, composed with the engine | `TaskEngine`, `SequentialRun` |
| `SequentialRun` | what a run promises (abstract specification) | – |
| `SequenceAuthoring` | the draft of a sequence, its versions, and how runs are made | – |
| `CloudOsdRun` | a CloudOSD run: bridge, page views, agent, machine, composed with the engine | `TaskEngine` |
| `CloudOsdMonitor` | the monitor's domain-join tick, and the whole CloudOSD system | `CloudOsdRun` |
| `OsdeployRun` | an OSDeploy run, its bundle, job and builder, composed with the engine | `TaskEngine` |
| `JobQueue` | queue, builders, their processes, the reaper | – |
| `BuildHost` | work items, the build-host agent, the image cache | – |
| `LabReconcile` | labs, reservations, the reconciler and Proxmox's SDN | – |
| `TaskEngineProofs` | proofs about `TaskEngine` and `TaskEngineRC` | `TaskEngineRC` |
| `OsdAgentsProofs` | proofs about the clients, with the refinement of `SequentialRun` | `OsdAgents`, `TaskEngineProofs` |
| `CloudOsdProofs`, `OsdeployProofs` | proofs about `CloudOsdMonitor` and `OsdeployRun` | that module, `TaskEngineProofs` |
| `SequenceAuthoringProofs`, `JobQueueProofs`, `BuildHostProofs`, `LabReconcileProofs` | proofs about one module each | that module |
| `MC*` | instances for TLC | – |

Definitions whose comment begins with "Mutant" are deliberate mistakes that
show each property can fail; no specification uses them.

### TaskEngine

State: `plan` (the immutable columns), `state`, `attempt`, `claimed_by` per step,
`run_state`, `cursor`; `batch` (an `/agent/next` request between two claims) and
`handed` (which steps an agent ever got). A step is its ordinal.

| Action | Code |
|---|---|
| `Init` | `create_run_from_version` |
| `NextAction`, `ClaimMore`, `EndBatch` | `next_action`, a loop over `claim_next_step` |
| `PostStepResult`, `PostRebooting` | the endpoints, then `complete_step` with `_next_run_state` |
| `RegisterAgent` | `register_agent`, then `mark_reboot_complete` for the step at the cursor |
| `MarkStepsDoneByKind` | `mark_steps_done_by_kind` |
| `CompleteUbuntuSteps` | `_complete_ubuntu_v2_steps` (app.py) |
| `RequeueStep` | `requeue_step` |

Agents are the environment: for any step ever handed to them they may report any
status, at any time, again and again. Lost, late, duplicated and reordered
results are all included.

Abstractions. `running_<phase>` is one run state, since nothing reads the phase
back. A plan is an input: conditions and compilation happen before `Init`
(`SequenceAuthoring` models them), and a row they exclude is a disabled row.
`retry_delay_seconds` is only shown to clients, the claim ignores it, so retries are
immediate. A plan with no enabled step is excluded by `PlansAssumption`: its run is
queued for ever, because only a result, a reboot or a bulk update recomputes the run
state. A claim that finds the next row locked by another claim (SKIP LOCKED) returns
nothing; that is a step not taken. Each handler is one step here, which is more than READ
COMMITTED gives; `TaskEngineRC` is the same with handlers in their statements.
`CompleteUbuntuSteps` commits per step in the code and is one step here; `TaskEngineRC` leaves the
controller's own updates out. Events, logs and timestamps change no modelled column.

### TaskEngineRC

`ReadForResult` / `ReadForRegister` are the first SELECT, `Decide` the reads of the
other rows, `WriteBack` the UPDATEs and the commit. `mark_reboot_complete` updates
its row before it reads the others, so it holds that row's lock in between
(`Locked`). `claim_next_step` and `requeue_step` read FOR UPDATE and stay atomic.
`overlapped` is a history variable: somebody has written between the first read and the commit
of a handler. `RetryBudget` and the two facts about the run, `DoneRunIsClosed` and
`LiveRunHasWork`, are promised here only as long as that has not happened.

### OsdAgents

Per client: `pc`, the step in hand, the status to report, attempts of the current
request. `Call` sends a request and gets its answer; `LoseReply` serves it but
loses the answer; `DelayRequest` leaves it to be served later by `ServeLate`, after
the client has given up; `LogFails` is the log line the service posts before it works.
`Retry` is what the client does about it: OsdClient tries again and, if a success
cannot be delivered, reports the step as failed; the service gives up at once. `Run`
does the work of the step or fails. `Restart` is the reboot a client asked for, `Crash`
one nobody asked for; `ShutdownFails` is the service's `shutdown.exe` failing after the success was
reported, which the service then reports as a failure. `executed` is a history variable
about the machine.

The clients' different endings are in `AfterAnswer`: OsdClient takes an empty answer
for the end of its phase and its task is removed; the service waits for the next
heartbeat. Only OsdClient restarts the machine for any step with
`reboot_behavior = required`, the service only for server roles (`RoleKinds`).
OsdClient's task does not start again before the restart OsdClient has asked for. The
service's heartbeat may: its delay can be 10 s, and `shutdown /r /t 15` waits for 15.

`Wedged` describes the three ends that only an operator clears: a running step whose
client was cut off, a pending step behind one that failed with `continue_on_error`, and a
pending step only OsdClient knows, after OsdClient has left.

`Abstract` maps rows to `SequentialRun`: `todo` is the set of open steps, `outcome`
the run state with everything that is not terminal as `"active"`.

### SequenceAuthoring

One sequence and several requests at a time. State: the draft (`target_os`, `nodes`),
`versions`, `runs`, `content`; per client where its request is and what it has read.

| Action | Code |
|---|---|
| `SaveSequence`, `StartDelete`, `LockNode`, `DeleteNodes`, `InsertNodes` | `_save_v2_builder_sequence`: update the sequence, then `replace_sequence_nodes` |
| `DeadlockDetected` | PostgreSQL's deadlock detector |
| `CompileSequence`, `LoadNodes`, `FindVersion`, `NextVersion`, `InsertVersion` | `compile_sequence`: the tree, the lookup by hash, MAX(version), the INSERT |
| `AddStep` | `add_step`, `_add_node` |
| `CreateSequenceRun`, `CreateRun` | `create_sequence_run`: resolve the content, `create_run_from_version` |
| `CreateContentVersion` | `create_content_version` |

`FlattenSteps` and `EvalCondition` are `_flatten_steps` and `evaluate_condition`; a condition is a
name in the table `Conditions`, and the parts of a compound one are names again. An id is the
pair of the request that made the node and its place in the body, so a tree tells which
saves it comes from. PostgreSQL's part is modelled by what it guarantees: a DELETE
removes the rows it saw when it started; it locks them one by one, in any order, and keeps
what it has (`held`) while it waits for a row of another transaction; the foreign key
cascades to children (`Without`: a node is left only with everything it is contained in);
an INSERT waits for a place another transaction is about to free (`Contested`), and the two
unique indexes on positions refuse one that is taken (`UniquePositions`). A circle of waiters
loses one of them to the deadlock detector. A refused request ends with an
error after the transactions it has already committed.

### CloudOsdRun and CloudOsdMonitor

State besides the engine's: `cstate` (the state column of `cloudosd_runs`), `evidence` (its
events), `asset` (the lab bubble's membership row), the machine (`os`, `dom`, `hash`, its last
heartbeat `hb`) and `pc`, where each of the processes `register`, `bridge`, `web`, `agent` and
`monitor` is; the last three run the shared chain sync – waiting – check – finish, the bridge its sync.

| Action | Code |
|---|---|
| `SetRunIdentity`, `AppendEvent`, `AppendErrorEvent` | `set_run_identity`, `append_event` (with `mark_failed` for an error) |
| `PeRegister`, `MarkPeRegistered` | `pe_register`: find the run, then the unconditional UPDATE |
| `GetRun` | `get_run`: a page view drives the chain |
| `Sync`, `MarkWaiting`, `CheckCompletion`, `FinishRun`, `MarkLabAssetsComplete` | `sync_ts_progress_for_run`, `mark_complete_from_heartbeat`, `mark_lab_assets_complete_for_run` |
| `RetryV2Step`, `ReopenRun` | `requeue_agent_v2_step`: requeue the step, then the run, a commit each |
| `AgentClaims`, `AgentJoins`, `PostAgentHash`, `AgentRestarts`, `AgentPosts` | `OsdV2WorkService` against the engine's endpoints, then `_sync_cloudosd_after_step_result` |
| `BootFullOs`, `RebootGuest`, `Heartbeat` | the playbook's disk boot, the executor's reboot, `record_heartbeat` |
| `RunPendingJoins`, `ProbeFindsDomain`, `ProbeFindsWorkgroup`, `AddComputer`, `MarkJoined` | `run_pending_joins`, `execute_join_for_run` |
| `RunPendingHashCaptures`, `CaptureHash`, `MarkCaptured` | `run_pending_hash_captures`, `execute_hash_capture_for_run` |
| `AdvanceDomainJoinedRuns` | `advance_domain_joined_runs` |
| `GuestExecFails`, `CutOff` | a guest command that fails; a handler that ends between two commits |

### OsdeployRun

State besides the engine's: the run's state and its readiness row, the bundle and its other
children (`Siblings`), the provision job and the builder's finalizer, the machine, and what
each handler in flight has read (`rpc`, `hb`, `apc`, `seen`, `bpc`, `spc`, `sseen`). `did` and `served` are the
history of the work that was really done, on this machine and on the others. The roles are
those of `osdeploy_roles.py`: base, file server, isolated domain controller, MECM prerequisites.

| Action | Code |
|---|---|
| `ProvisionRun`, `SetRunIdentity` | `provision_run`, `set_run_identity` |
| `JobWaits`, `JobSeesPe`, `JobBootsDisk`, `JobSeesOutcome`, `JobGivesUp`, `JobFails` | the waits of `_provision_proxmox_osdeploy_vm.yml` |
| `ReadForFailure`, `MarkFailedFromJob`, `ReconcileFailedRelatedDeployments` | `mark_failed_from_job`, called when the job ends and when a builder starts |
| `RegisterPeByIdentity`, `RegisterPe`, `MarkPeRegistered`, `AppendRegistered` | the two registration endpoints; the unconditional UPDATE; the event, in a transaction of its own |
| `AppendEvent` | `_mark_pe_phase_progress_from_event` |
| `HeartbeatArrives`, `HeartbeatDecides`, `HeartbeatWrites` | `mark_complete_from_heartbeat` in its statements |
| `AgentClaims`, `AgentWorks`, `AgentRestarts`, `AgentPosts` | `OsdV2WorkService` |
| `RoleResultReads`, `MarkRoleStepResult` | `mark_role_step_result` |
| `SiblingMoves`, `SiblingReads`, `SiblingResult` | the other children through the same handlers; a late failure fails a complete child |
| `CutOff` | a handler that ends between two commits |

`SyncBundleState` is `_sync_bundle_state_for_child`, part of each writer's transaction.

### JobQueue

`claim_next_job` is modelled statement by statement: `BeginClaim` reads the candidate
types in the order of their oldest pending job, `VisitType` takes a type's advisory
lock (kept to the end of the transaction), compares the running count with the limit
and locks the oldest pending row (SKIP LOCKED), `TakeJob` updates it and commits,
`EndClaim` finds nothing. Two claims may wait for each other; `DeadlockDetected` is
PostgreSQL's error, which `run_builder` does not catch, so the container restarts.
`_run_one_job` is `Spawn`/`SpawnFails`, `Heartbeat`, `LetGo` (the row was taken away),
`Finalize`/`FinalizeFails`, `FinalizeRelated`/`RelatedFails`. The container's end
(`Down`: crash, stop, deadlock) kills its processes; `StartBuilder` runs
`reconcile_failed_related_deployments` over the newest `ListLimit` jobs (500 in the code), and under the
fault `"recover"` its swallowed errors leave some of them untold. Time is abstracted to `stale`: a row without a
builder expires, a row with one only by the fault `"stall"`.

Advisory locks are taken on `hashtext(job_type)`; two types with one hash would only
serialise claims further, so collisions are left out.

### BuildHost

State: `items` (the work items in creation order, with claim and end times), the cache
`entry`, `iso` and `files` (uploads); the agent's loop, reports it gave up waiting for and that may
still be served (`late`), items whose claim or report it lost (`lost`); each warm request, each look
at the cache page (`Viewers` may look at once) and a cache job, with what it read.

| Action | Code |
|---|---|
| `EnsureDependency`, `QueueBuild`, `MarkBuildDispatched` | `_warm_factory_entry_via_agent`: two dependencies, the build, the entry, a transaction each |
| `ClaimNextWorkItem`, `Work`, `CompleteWork`, `FailWork` | `claim_next_work_item`, `BuildOsDeployAsync` with its upload, `complete_work_item`, `fail_work_item` |
| `ClaimUnheard`, `GiveUp`, `ServeLateReport` | a claim whose answer is lost or comes too late; a report that is, or is served after the agent went on |
| `AgentCrashes` | the service stops with an item in hand |
| `ReadWarmingEntry`, `FindArtifact`, `FinalizeFromBuild`, `MarkBuildFailed` | `_finalize_warming_cache_builds`, run by every page request |
| `RefreshCatalog`, `StartCacheJob`, `VerifyEntry`, `DeleteEntryFile` | `refresh_catalog` and the cache jobs |

`SupersededByLaterTerminalWork` is the rule by which `deployment_health` and `app.py` take a
claimed item for lost.

### LabReconcile

State: the rows (`status`, `want`, `reserved`, `fix`), Proxmox (`pve`, `deleted`, `lock`), and per worker the
pass it is in: lab, inventory, overlap found, fixes still to record or to run. `want` is what
a lab was created with: its `network_cidr`, its `sdn_subnet` and its `network_mode`. `lock` names the
worker that knows the token, or is `"abandoned"` when nobody does. The workers are the monitor's
`sweep` and the `operator`.

| Action | Code |
|---|---|
| `CreateLab` | `create_lab` with its reservation |
| `StartSweep` (where `SweepOn`), `EndSweep`; `StartReconcile`; `RunPendingFixes` | `reconcile_all_labs`; the two endpoints |
| `StartReconcileRun`, `PlanNetworkReconcile`, `CreateFixAction`, `FinishReconcileRun`, `PlanFails` | `start_reconcile_run`, `plan_network_reconcile` and its commits, `finish_reconcile_run` |
| `ListPending`, `NextFix`, `RunFix`, `CreateObject`, `RecordResult`, `EndFixes`, `LeaveFixes` | `execute_pending_network_fixes`, `execute_fix_action`, `update_fix_action` |
| `AcquireLock`, `ApplySdn`, `ApplyFails` | `apply_sdn` under the SDN lock, with its forced release |
| `DeleteObject` | the DELETE endpoints of the SDN page (`sdn_endpoints.py`) |
| `Crash` | the worker dies |

A network is a set of blocks, so that two labs overlap when the sets meet. Proxmox refuses a
change from a caller without the token while its SDN is locked (`Accepts`, `DeleteObject`). Only the
objects' existence is modelled; what `apply_sdn` makes of them is not. The sweep that
`POST /reconcile-sweep` starts and the single fix of `run_fix` repeat the modelled passes and have no
action of their own.

## 3 Runs

| Run | Module, cfg | Checks | States |
|---|---|---|---|
| `engine` | MCTaskEngine, TaskEngine.cfg | `TypeOK`, `RetryBudget`, `PlanOrder` | 436 k |
| `engine_rc` | MCTaskEngineRC, TaskEngineRC.cfg | `PlanOrder`, `BoundedOverrun`, `SoundUnlessOverlapped` at READ COMMITTED | 2.9 M |
| `agents` | MCOsdAgents, OsdAgents.cfg | `KeepsPromise` (refinement), `RunEndsOrIsWedged`, `OneRunner`, `DoneRunDidTheWork` | 39 k |
| `agents_faults` | MCOsdAgents, OsdAgentsFaults.cfg | `DoneWasExecuted` with two faults | 1.16 M |
| `authoring` | MCSequenceAuthoring, SequenceAuthoring.cfg | `VersionIsOneSave`, `RunIsTheTree`, `RequestsEnd` | 207 k |
| `cloudosd` | MCCloudOsd, CloudOsd.cfg | `CompleteIsEarned`, `VerifiedIsJoined`, `OutcomeIsFinal` | 1.39 M |
| `cloudosd_live` | MCCloudOsd, CloudOsdLive.cfg | `WaitingRunSettles` without an agent that claims | 23 k |
| `osdeploy` | MCOsdeploy, Osdeploy.cfg | `CompleteIsEarned`, `BundleIsEarned`, `LateJobFailureIsHarmless`, `RoleDoneIsReported` | 392 k |
| `queue_contention` | MCJobQueue, JobQueueContention.cfg | `CapRespected`, `NoProcessForgotten` with deadlocking claims and a stalled builder | 2.19 M |
| `queue_live` | MCJobQueue, JobQueueLive.cfg | `OneBuilderPerJob`, `EndedStaysAsItEnded`, `EveryJobEnds`, `KillEndsJob`, `FailureReachesRun` | 104 k |
| `build_host` | BuildHost, BuildHost.cfg | `BuildFollowsDependencies`, `SupersededIsLost`, `ReadyIsBuilt`, `EndIsFinal`, `WarmEnds` | 761 k |
| `labs` | MCLabReconcile, LabReconcile.cfg | `OverlapNeverBuilt`, `ReportedIsBuilt`, `LockIsReleased`, `LabConverges` | 533 k |

What the less obvious ones say:

- `SoundUnlessOverlapped`: with handlers in their statements a run that says done has only
  closed steps, a run that goes on has a step to go on with, and no step has been tried
  too often, until a row is written between the first read and the commit of a handler.
  Afterwards only `PlanOrder` and `BoundedOverrun` are promised (section 5, 1).
- `RunEndsOrIsWedged`: a run ends, or it has come to one of the three ends of `Wedged`, which are
  described above and each happen in the instance.
- `NoProcessForgotten`: a process that runs is watched by its builder or has been sent SIGTERM, also
  after a stalled builder has lost its row. `EndedStaysAsItEnded`: that builder, coming back, does not
  rewrite what the reaper wrote.
- `RunIsTheTree` compares a run's plan and content with a reference definition of the
  depth-first order that does not walk: a step comes before another when its path of
  positions does; and a step is pending exactly when its own flag and condition say so.
- `VersionIsOneSave`: no version mixes the nodes of two saves, although a save's delete,
  insert and compilation interleave with those of another.
- `OutcomeIsFinal`, `LateJobFailureIsHarmless`: a late event, heartbeat or job failure leaves an
  outcome alone. A CloudOSD outcome has two ways out, which the property names: the
  operator's retry, and a registration that found the run before it had one.
- `WaitingRunSettles`: from the moment a CloudOSD run waits for its full OS the monitor alone ends it.
- `BundleIsEarned`: the role of every child of a complete bundle was configured. It does not say
  that every child's row is complete: a late result may have failed one since.
- `RoleDoneIsReported`: once the agent has done its role and keeps sending heartbeats, the run
  says so, even if the sync after the result was lost.
- `WarmEnds` has a premise, that somebody looks at the cache page again and again, because nothing
  else finishes an entry. Only a lost build excuses the entry that names it.
- `ReportedIsBuilt`: what a lab reports was built, and is still there unless the SDN page deleted it
  and no pass has built it again.
- `LabConverges`: a lab on the SDN that overlaps with no other gets its zone, vnet and subnet,
  whatever passes supersede its fixes, and after an error, a deletion or a restart on the
  way; where the sweep is on and applies, and the SDN lock was not left behind.

Bounds, and why they suffice:

- *Steps.* The engine compares a step with the earlier rows of its phase and with
  the set of other rows; three rows give a row before, the row, and a row after.
  Three plans cover a retry, a reboot, two phases, phase `any`, a disabled row,
  `continue_on_error`. The proofs remove this bound for the safety properties.
- *Agents.* Two: one without a capability list, one that knows a single kind.
- *READ COMMITTED.* Two handlers, two steps, one agent: an anomaly needs two
  overlapping transactions. `BoundedOverrun` is stated for any number of handlers.
- *Attempts* need no bound of their own: `RetryBudget` and `BoundedOverrun` keep
  them finite.
- *Clients.* `agents` takes each of six plans with OsdClient alone, the service alone and both:
  steps both know, with reboots; steps one hands over to the other; a first step that may
  fail; a package after a role. One crash.
- *Faults* (`MaxFaults`, `MaxCrashes`, `MaxEvents`): an answer lost, a request served late, a crash, an
  error. Two let a lost answer meet a late one; liveness uses one.
- *CloudOSD.* The generated plan with an online join, the case with most writers. Retry
  counts are 0 instead of 60 and 2, so that a step runs out of attempts; operator retries
  bring it back.
- *OSDeploy.* An isolated domain controller, the role with two steps and a reboot, in a
  bundle with one other child; a bundle of the code has two others, and the theorem is for any
  set of them. Two faults let a failing job, a late result or a repeated registration meet
  a failing step.
- *Jobs.* Two jobs, two types, two builders; `queue_contention` has four jobs of
  alternating types and limits 1 and 2, since the deadlock needs a row that stays running
  without a builder. `ListLimit` is 2, so that a job can be too old for the recovery.
- *Build host.* Two requests, four items: the second finds the first one's dependencies
  pending, claimed, ended or lost. Two looks at once. One event, since each is a different
  failure.
- *Labs.* Two labs, ranges `{1,2}` and `{2}`, which overlap without being equal; the second may be on
  a bridge. One request of the operator, a deletion included, meets the endless sweep.
- *Authoring.* Three requests by two clients: two saves and a run, or two compilations.
  The bodies nest groups, use an id twice, disable nodes and hold a compound condition.
- Deadlock checking is off where the system may stop: a terminal or wedged run (`agents`,
  `agents_faults`, `osdeploy`), used-up requests (`build_host`, `authoring`).

## 4 Fairness

- `OsdAgents`: weak fairness of each client's `Wake`, `Run`, `Call` and of `Restart`. The
  scheduled task fires every minute, the service loops on its heartbeat delay, a
  request is answered if no fault happens, `shutdown /r` and `Restart-Computer` go
  through. Nothing is assumed of faults, of requests served late or of the outcome of a
  step.
- `JobQueue`: weak fairness of each builder's loop (it polls, and the container has
  `restart: unless-stopped`), of the reaper (every 30 s) and of an unattended row's
  heartbeat running out, and of a process that was sent SIGTERM. A playbook ends by
  itself unless somebody asked to kill it; so `KillEndsJob` cannot rely on the
  process ending on its own.
- `CloudOsdMonitor`: weak fairness of the monitor's tick, the machine's heartbeat and reboot, and of
  handlers that have begun; strong fairness of guest commands that can succeed, which may
  fail any number of times but not for ever. Nobody has to open the run's page.
- `OsdeployRun`: weak fairness of heartbeats, of step results that were accepted and of the builder's
  finalizer. Nothing is assumed of the job, the agent's work or the other children.
- `LabReconcile`: weak fairness of the sweep and of passes that have begun. The sweep is a timer of the
  monitor that is off by default (interval 0) and proposes only (`monitor_main.py`:34-43); `SweepOn` and
  `AutoApply` say how it is configured, and without `SweepOn` it never starts.
- `BuildHost`: weak fairness of the agent's loop. That somebody looks at the cache page is not assumed
  of the system; it is the premise of `WarmEnds`.
- `SequenceAuthoring`: a request that has begun goes on unless it waits for a lock, and
  PostgreSQL's `deadlock_timeout` runs out for those who wait in a circle.
- `TaskEngine` and `TaskEngineRC` state safety only.

## 5 Known disagreements

Every run passes; its properties are stated for what the code does. This section lists
where that differs from a line of the repository or from what one would expect, and where
it can be seen. `DS` is `docs/specs/2026-05-06-task-sequence-engine-v2-postgres-design.md`.

1. **Overlapping results leave a run wrong** (`DS`:209, "Use row locks for claim/resume semantics").
   `complete_step` and `_next_run_state` take no row lock. Two results of one batch, handled
   at the same time, each see the other step still running; both leave the run queued,
   every step is closed, and nothing recomputes it. Likewise a result that has seen its
   sibling closed writes the run done after a late failure or `requeue_step` has made that
   sibling pending again. *See it:* TaskEngineRC.cfg with `LiveRunHasWork` (nine states, each step
   claimed and reported once) or `DoneRunIsClosed` as the only invariant.
2. **A reboot is resumed before it happens** (`DS`:803-807). `register_agent` completes the
   awaiting step at the cursor for whoever registers. With both clients present, or with a
   heartbeat delay below the 15 s of `shutdown.exe`, a heartbeat of the service marks the reboot
   complete and the next step runs on a machine that has not restarted. `agents` includes these
   behaviours and nothing is promised about them.
3. **continue_on_error blocks its phase** (`DS`:964). The step stays `failed`, and
   `claim_next_step` counts every earlier failed step as blocking. It is the second wedge of
   `RunEndsOrIsWedged`; *see it:* OsdAgents.cfg with that disjunct of `Wedged` taken out.
4. **A late failure reopens a running step** (`DS`:782). Results are not matched with the
   attempt or the claimer; a second client claims the step again while the first one
   works. *See it:* OsdAgentsFaults.cfg with `OneRunner`.
5. **A stalled builder exceeds the limit** (`docs/specs/2026-04-21-microservice-split-design.md`:95).
   The reaper frees the slot while the process of the builder that missed its heartbeats
   still runs. `CapRespected` counts rows; of the process `NoProcessForgotten` says that its builder
   still watches it, so it ends at that builder's next beat.
6. **An unwatched CloudOSD run does not end** (`cloudosd_domain_join.py`:18-20). The monitor's
   last pass selects runs that already wait for the full OS; when the agent claims no
   steps, only a page view takes a run out of `pe_registered`. `WaitingRunSettles` therefore
   starts later.
7. **A bundle does not follow its children** (`tests/test_osdeploy_endpoints.py`, which expects a
   bundle with complete children to be complete). Two children that finish at the same time
   each read the other's old state, the bundle stays running and nothing synchronises it
   again. The other way round, a bundle may be complete with a child that a late result
   failed (`osdeploy_pg.py`:1373-1382), when the result of another is written after it.
8. **Groups do not switch their steps off** (`DS`:590-602, :961). `_flatten_steps` ignores a group's
   own condition and enabled flag. `RunIsTheTree` is stated for what the code does, and says so.
9. **A lingering SDN lock is not recovered** (`proxmox_sdn.py`:307-310, a lingering lock "leaves the
   SDN effectively-locked from any other operator until cleanup"). When the answer to
   `acquire_lock` is lost or holds no token, when the worker dies, or when the forced release fails too, nobody can release the lock and every
   later change is refused. `LockIsReleased` and `LabConverges` except exactly that.
10. **The finalizer of warmed builds may run twice** (`osdeploy_endpoints.py`:1796-1798, "Runs once, on
   the warming->ready transition"). Two looks at the cache page that overlap both finalize and
   both publish.

Also seen while modelling:

- *Engine and agents.* A repeated failure report that overlaps a new claim adds one
  attempt to the budget (`BoundedOverrun` is the bound that does hold). A machine that
  crashes during a step leaves the row `running` for ever, since only pending rows are
  claimed (the first wedge). A repeated result of an earlier step moves the cursor off the
  step that awaits its reboot, which is then never resumed. A plan whose steps are all
  skipped never closes.
- *Authoring.* A step whose parent is a step is in no plan. A refused save has already
  changed `target_os`. With two interleaved saves a run's check of the target OS may be
  stale. Content referenced in two phases is pinned for the first one only. Two saves can
  deadlock, when a step was added between their DELETEs; one of them ends with an error.
- *CloudOSD and OSDeploy.* A registration that is served late overwrites an outcome with
  `pe_registered`, in both. A heartbeat shows a failed OSDeploy run as `role_pending`, its errors gone.
  A builder that starts re-fails a run whose machine is alive. Provisioning again reuses
  the evidence of the first attempt. An error in `_finalize_related_deployment` is swallowed
  and the OSDeploy run waits for some builder to start again.
- *Labs.* When a plan pass supersedes an `apply_sdn` that has not run, the lab is ready and
  its objects are not applied; the verification of `apply_sdn` accepts any answer. An
  `sdn_subnet` outside the lab's `network_cidr` is compared with nobody's, hence the condition in
  `OverlapNeverBuilt`.
- *Build host.* A build that fails after its entry was warmed again fails the new entry too.

## 6 Proofs

Eight modules hold theorems. They are for *every* value of the constants that satisfies the
named assumptions of the component's module, which TLC evaluates on every run of it, and,
where a theorem has a hypothesis of its own, for every value that satisfies that one too.
Each inductive invariant was an invariant of a TLC run before it was proved (`ForestInv` with
small ranks). All safety properties of section 3 are proved, and some that only a theorem
states:

| Module | Properties proved | Inductive invariant | Hypotheses |
|---|---|---|---|
| `TaskEngineProofs` | `TypeOK`, `RetryBudget`, `PlanOrder` | `EngineInv` | – |
| | `BoundedOverrun`, `PlanOrder` at READ COMMITTED | `RCInv` | – |
| | `SoundUnlessOverlapped` at READ COMMITTED | `SerialInv`, `RCInv` | – |
| `OsdAgentsProofs` | `DoneWasExecuted` | `AgentInv` | – |
| | `RetryBudget`, `PlanOrder`, `ReportsAreOwn` | `ClientsInv` | – |
| | `OneRunner`, `DoneRunDidTheWork`, `EndedStaysEnded` | `QuietInv` | `Quiet` |
| | `KeepsPromise` | `QuietInv` | `Quiet`, `OnePhase` |
| `SequenceAuthoringProofs` | `VersionIsOneSave` | `AuthoringInv` | `DrawnFromRoot` |
| | `RunsAreOfVersions`, `HistoryGrows` | `LineageInv` | – |
| | `RunIsTheTree` | `ForestInv`, `LineageInv` | `DrawnInGroups` |
| `CloudOsdProofs` | `CompleteIsEarned`, `VerifiedIsJoined`, `OutcomeIsFinal` | `CloudInv` | – |
| | `RetryBudget`, `PlanOrder` | `RowsInv` | – |
| `OsdeployProofs` | `CompleteIsEarned`, `BundleIsEarned`, `LateJobFailureIsHarmless` | `OsdInv` | – |
| | `RetryBudget`, `PlanOrder` | `RowsInv` | – |
| `JobQueueProofs` | `CapRespected`, `OneBuilderPerJob`, `EndedStaysAsItEnded` | `QueueInv` | – |
| | `NoProcessForgotten` | `WatchInv`, `QueueInv` | – |
| `BuildHostProofs` | `BuildFollowsDependencies`, `SupersededIsLost`, `ReadyIsBuilt`, `EndIsFinal` | `BuildInv` | – |
| `LabReconcileProofs` | `OverlapNeverBuilt`, `ReportedIsBuilt`, `LockIsReleased` | `LInv` | – |

What the hypotheses say, and why a theorem has them (the instances of `agents` and
`authoring` satisfy them, with plans that need a reboot and bodies that are drawn):

- `Quiet`: the only faults are crashes of the machine. With a request served late a second
  client works on the step of the first (section 5, 4), so `OneRunner` is false without it.
- `OnePhase`: every step is in the phase both clients ask for, or in `any`, as on a machine
  in the full OS. A step of another phase is never closed by these clients, and whether an
  earlier one of it is open is not theirs to know.
- `DrawnFromRoot`: the first node of a tree does not name itself as its parent.
  `replace_sequence_nodes` enters a node into its map of ids before it looks the parent up,
  so such a node would be inside itself and hold no place among the roots; the builder
  cannot draw it and the endpoint does not refuse it.
- `DrawnInGroups`: no node of a save names itself as its parent, and groups are only inside
  groups. The builder draws nothing else; the endpoint does not refuse it. A node inside
  itself is never reached from the root, and the steps of a group inside a step are in no
  plan, although only a group contains them. Steps inside steps are allowed, as
  `add_step` makes them.

### The engine

`EngineInv` is the type invariant, `DoneRunIsClosed` and `LiveRunHasWork`, and `RowsInv`, which is about
the rows of the steps alone. The two about the run are facts of `TaskEngine`, where a handler is
one step; at READ COMMITTED they are part of `SoundUnlessOverlapped` and no theorem
claims them without its condition. `RowsInv` adds to `RetryBudget` and `PlanOrder`

- `PendingHasBudget`: a pending step has been attempted at most `retry_count` times.
  Without it a claim could exceed the budget; `complete_step` reopens a step only when
  it holds.
- `RunningWasHanded`: a running step was handed to an agent. Without it a running
  step that does not block its claimer's batch could be overtaken unhanded, and
  `PlanOrder` would not be inductive.

Each action preserves each part. What a kind of write does to the rows is a lemma of its
own (`RowsAfterClaim`, `RowsAfterResult`, `RowsAfterClosing`, `RowsAfterMark`, `RowsAfterReboot`,
`RowsAfterRequeue`), so the clients, CloudOSD and OSDeploy use the same lemmas for the same
functions. The theorems of `TaskEngineProofs` are about `TaskEngine`'s `Spec`, that is about runs
only the engine and the Ubuntu callbacks write.

At READ COMMITTED the budget is kept by an account. `Reopening(s)` is the set of handlers
that will reopen step s: they have read an attempt within the budget, or have already
decided. `OverrunBudget` says that attempts spent, plus one if the step is pending, plus one
for each of these handlers never exceed `retry_count + 1 + |Handlers|`. A claim turns the
pending step into an attempt, a write turns a handler into a pending step, and a handler
joins the set only when the attempt it reads is within the budget, where the whole set of
handlers still fits. `HandlersAssumption` (a finite thread pool) makes the count a number.

`SerialInv` says that until something overlaps, the run is sound and whatever a handler has
read or decided is what it would read or decide now (`ReadsAreFresh`). Any number of handlers may
have begun: the first write with another handler under way is the overlap, and a write by
the only one decides from fresh reads (`LoneWriteIsSound`).

### The clients

`AgentInv` holds with every fault: whoever is about to report a success, and every report
still under way, is right about it (`SuccessIsTrue`), and a step that waits for its reboot
has been executed. A lost answer or a late request can therefore repeat a truth, never
make one up. `ClientsInv` adds the engine's own invariant and `ReportsAreOwn`: a step in a client's
hand, and every report still under way, is of a step that client was handed and in its phase.
The endpoint checks the phase and the run only; that no client reports the step of
another is a fact about the clients' loops.

`QuietInv` adds who owns what: the step in a client's hand is running and claimed by it
(`OwnStep`); everything before a step that was handed out is closed (`HandedInOrder`), so two
clients that both work would each have to be behind the other; a step in progress keeps the
run live, and a failure that may not happen ends it. `QuietServe` reduces a served
request to three cases, nothing, settling the step in hand, or taking the next one,
and every later lemma is about these; that a closed step and an ended run never change
again (`EndedStaysEnded`) follows from the same three cases, and not from `complete_step`, which
reopens a closed step when it is told to. For the refinement, initial states map to `Start`, and a
step closes or aborts the first open step of `todo`, or leaves both mapped variables alone.

### Authoring

`AuthoringInv` follows the ids: those of a save that has not inserted yet are in no draft and no
snapshot (`SavesAreFresh`), the nodes of a save come with its first one, which is the
first of the roots (`DraftIsWhole`), and a DELETE saw all nodes of a save or none (`SnapIsWhole`).
The key step is `NodesAreReplaced`: if the INSERT of one save met a node of another that its
DELETE had not seen, the first root of that other save would still be there too, in the
place of its own first root, and the unique index refuses it. So the draft is never a mix,
nor is anything compiled from it.

`LineageInv` ties a run to its version: it was made of a version with its number, with the
conditions of its request, and its pins are versions its content has (`RunsAreOfVersions`); and
versions, runs and content are only ever added to (`HistoryGrows`), so this stays true.

`RunIsTheTree` compares two recursions over a tree of any shape. The library's induction
theorems cannot be used, since they take an operator as a parameter; what can be used is
that every set of naturals with 0 and the successors of its members holds all naturals
(`AllNaturals`, from the well-foundedness of `<`), with the set of heights at which the claim
holds in the place of the operator. A `Forest` is a tree whose parents exist, whose places
are unique and bounded and whose nodes have a rank above their parent's. For every forest,
along this argument:

- the recursion of `_flatten_steps` and that of the paths have solutions (`WalkExists`, `PathExists`:
  unions of solutions up to a height);
- everything the walk puts out is executable (`WalkIsExecutable`), and everything executable is
  put out (`ExecutableIsWalked`, through `GroupsAreWalked` and `PlaceIsWalked`);
- what is put out is in the order of the paths (`WalkIsInOrder`): within the piece of one node
  paths start alike and go down, and pieces of two places part at their positions
  (`PathsPart`, `OrderedConcat`).

Together they are `FlattenIsTheTree`. `ForestInv` says that the draft, what a request has loaded and
every version are forests: a save replaces a forest by what it drew (`NewNodesAreNested`), a DELETE
takes whole subtrees (`WithoutIsForest`), and an added step hangs below a node that exists.
`RunOfForest` then turns a run's version into the property.

### CloudOSD and OSDeploy

`CloudInv`: every record of a membership or of a hash is of one that exists (`RecordsAreTrue`), in the
steps, in the evidence and in what a pass of the monitor is about to write; a process that
has looked at the steps and is about to finish the run may still do so (`FinishIsEarned`),
because the machine does not leave its domain or lose its hash. `OutcomeIsFinal` follows from
the guards of every other writer; its two exceptions are `MarkPeRegistered` and `ReopenRun`. `SequenceHasSteps` shows that
the generated plan has the steps the completion check looks for, for every kind of join.

In both systems handlers outside the engine close its steps, requeue them and write its
`run_state`. `RowsInv` does not mention `run_state` and is kept, so budgets and plan order hold of
these runs too. The engine's `TypeOK`, `DoneRunIsClosed` and `LiveRunHasWork` do not hold of them:
`set_run_identity` and the failure and completion handlers write states of their own there.

`OsdInv`: the final step of a role is closed by a success of the agent only (`RoleStepWasDone`; neither
PE events nor heartbeats are about it, `FinalRoleStepIsTheRoles`), and what a handler has read and
will write is already earned (`InFlightIsEarned`). The bundle rests on the latter and on
`SiblingsAreEarned`: a child whose row was read as complete had its role configured by then, and a
late failure does not undo that. The theorem is for any set of `Siblings`.

### Queue, build host and labs

`QueueInv` adds

- `LocksExclusive`: an advisory lock has one holder;
- `ClaimIsSafe`: a claim about to take a job holds the lock of its type, the job is
  still pending and the running count is below the highest limit. This carries the
  limit from the check to the update: whatever happens in between, only the holder of
  the lock adds a running row of the type;
- `CapBelowHigh`, `HoldsJob`, `BusyJobClaimed`: the limit is below its history; which
  program locations hold a job; a builder's job is never pending, except for the one
  being claimed.

The oldest pending job exists because `<` on the naturals is well founded. Steps that leave
rows and claims alone share one frame lemma (`QuietStep`). `WatchInv` adds that the row of a job keeps
the name of the builder that runs it, reaped or not (`RowNamesBuilder`), which is how a container
that goes down is known to take its processes with it; no heartbeat has to arrive.

`BuildInv`: the queue is taken from its front (`TakenInOrder`), a build is queued behind what it
depends on (`DependenciesQueuedFirst`), and a claimed item is in the agent's hands or among those it
has lost (`ClaimedIsHeld`): when a build is claimed, its dependencies have been, and the one agent
has ended or lost them. `ClaimIsLatest` says that only items the agent has lost ended after the claim
of the item in progress, so that the health page's rule can be wrong about it only on their
account. `FoundIsBuilt` and `ReadyIsBuilt` (`CacheIsTrue`) are about uploads, which stay uploaded.
`BuildAssumption` says that `None` is no number of an item.

`LInv` adds

- `LTypes`, `LRows`, `LWorkers`: types, which rows exist together (a created lab is reserved), and what
  a worker's variables mean at each place in its pass;
- `LKnown`: what an inventory shows was built. Objects are deleted, but what was built once
  is there or among the deleted (`Built`), which only grows; so an old inventory stays true of
  that, and a plan that finds nothing missing may report the lab ready;
- `LApart`: of two labs that overlap at most one is being built, where being built means it
  has an object, a fix that would create one or is still to be recorded, or a plan pass
  that saw no overlap (`Building`). A lab is
  reserved in the transaction that creates it, so once two overlapping labs exist a pass
  over either finds the other's reservation, and only one that was planned before the
  other was created can be built; this carries `OverlapNeverBuilt` over every interleaving
  of sweep and operator.

`LockIsReleased` is inductive with these: only `AcquireLock` gives a worker the lock, and every way
out of the place it leads to, errors and the worker's death included, takes it away.

### Only model-checked

- Liveness, which is outside the prover: `RunEndsOrIsWedged`, `RequestsEnd`, `WaitingRunSettles`,
  `RoleDoneIsReported`, `EveryJobEnds`, `KillEndsJob`, `FailureReachesRun`, `WarmEnds`, `LabConverges`.

With lost answers and late requests `OneRunner`, `DoneRunDidTheWork` and `KeepsPromise` are false, which is
why their theorems assume `Quiet`; `agents_faults` checks what is left, and it is proved.

## 7 What is not modelled

The map covers about a tenth of the repository's lines. The rest is mostly not
concurrent state:

- `app.py` (16 600 lines): pages, HTTP payloads, settings, job arguments. Its saves of
  sequences, Ubuntu callbacks and work-item heuristic are modelled.
- The frontend; PowerShell, Ansible and Python scripts that build images and
  drive one machine: sequential, with an exit code that is a nondeterministic outcome here.
- Single-statement record keeping: device history, install tracking, machine lifecycle,
  lab bubbles' services, service health, archiving, provision batches, artifact lists.
- The legacy WinPE run (`W/winpe_endpoints.py`, the run functions of `W/sequences_pg.py`, OsdClient's v1
  protocol) and legacy sequences with their compiler: predecessors kept for old media.
- Agent bootstrap (an approval is used in two transactions, `agent_telemetry_pg.py`:507), updates and
  revocation; the Linux agent's loop, which claims the same work items.
- CloudOSD's content cache; the Autopilot upload and readiness watch of CloudOSD; preflight checks
  of OSDeploy; variables of groups and the staging status of content.
- The publication of a warmed artifact, a job of its own; `POST /reconcile-sweep` and `run_fix` of a
  single fix, which repeat modelled passes.
- The device sweep and keytab refresher: probes that append what they saw.
- The work of a step, Proxmox beyond its SDN objects, AD, Entra, Intune: external.

Boundaries inside the modelled parts: what `apply_sdn` makes of the SDN objects; the cause of a
step's failure; times, except for stale heartbeats and the order of claims and ends.

## 8 Plan

Done: the engine, serializable and at READ COMMITTED; its clients and their promise;
authoring; CloudOSD and OSDeploy runs composed with the engine; the queue; work items and the
image cache; managed labs; proofs of every safety property, and of the engine's for the
composed systems.

Next:

1. The legacy WinPE run: the media is detached only after every WinPE step; done is earned;
   "terminal states stay terminal" (`winpe_endpoints.py`:816) against handlers that read and then
   write unconditionally.
2. `CompleteUbuntuSteps` split into its transactions; agent bootstrap.
