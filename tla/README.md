# Verification of the collaborator backend

TLA+ models of the parts of the backend whose correctness depends on the order of
events, TLC runs over small instances of them, and proofs, checked by TLAPS, for
instances of any size. Paths are relative to `src/`; `W`, `S` and `L` abbreviate
`backend/runtime/worker.py`, `supervisor.py` and `lifecycle.py`.

## 1. The system

One **Supervisor** process accepts browser connections and owns the central
database; several **Worker** processes each run an event loop that serves *groups*
(chat rooms with their agents). A group has its own SQLite database and workspace
directory and is served by one worker at a time. Three things are meant to keep it so:

* `groups.assigned_worker_id` in the central database says whose group it is, and
  the Supervisor caches the answer in `_routing_cache`;
* a worker *hydrates* a group (opens it, resumes its workflows) under an exclusive
  lock on `group.lock`, and *evicts* it before it lets go;
* to move a group the Supervisor writes the assignment, sends `RELEASE_LEASE` to the
  old worker, waits for `LEASE_RELEASED` (or a disconnect, or 10 s), and only then
  routes traffic to the new one.

### Components

| Component | State it keeps | Operations | What is hard |
|---|---|---|---|
| Group lifecycle (`L`) | `_active_groups` in LRU order, `_hydrating` and `_evicting` futures, `_locks`, the lock file | hydrate, evict, touch, sweep, LRU eviction, shutdown | callers that wait for each other's futures; checks that are stale after an await; failures in the middle; the soft capacity limit; locks by inode and by name |
| Supervisor (`S`) | routing cache, versions, lock objects with reference counts, pending and active handoffs, worker connections | reassign_group, route, send, connect, disconnect, request_abort, fan-out | overlapping reassigns; maps that are created and popped at many places; late or missing acknowledgements; time-outs |
| Worker (`W`) | the connection, startup hydration, pumps | frames, RELEASE_LEASE, aborts, startup hydration | an exception ends the frame loop and with it every group of the worker |
| Background task registry (`core/bg.py`) | tasks per group, run locks | spawn_group, abort_group, group_run_lock | cancellation is a request, not an end |
| Workflow engine (`core/runner.py`, `workflow.py`, `workflow_store.py`) and the declarative orchestrator | `_state` in memory, `workflow_state` in the database, units of work | start, observe, advance, gates and their confirmation, end, resume | memory that moves before the row; a live dict that is dumped late; three kinds of writers; aborts in the middle of a commit |
| Sessions (`sessions/recovery.py`) | session status | recover | a crash during recovery; recovered runs beside live ones |
| Agent dashboard | agent tasks, retry claims, the adapter's view, the detector's counters | dispatch, retry claims, abort, delete, project, reconcile | claims that race aborts, crashes between claim and completion, old news |
| Memory pipeline jobs | jobs, leases with fencing tokens | enqueue, claim, renew, complete, fail, defer, reset | expired leases, bounded attempts |
| Memory projection outbox | versions to be projected | enqueue, drain | a slow delivery overtaken by a newer version |
| Channel delivery | a projection queue and an outbox per group, the outbox of the channel store | commit, relay, claim, send, recover, replay, pause, revoke | three databases, crashes between send and mark, at-least-once delivery |
| Event bus | bounded queues | publish, subscribe, dispatch | drops and back-pressure at the limit |
| Permissions | pending requests, once grants | ask, answer, expire, group eviction | answers that race time-outs and eviction |
| MCP bridge | calls by correlation id | call, result, time-out | late and lost results |
| Database writers | a writer and a lock per database | write, close | closing while others wait for the lock |

The rest (HTTP handlers, IPC framing, telemetry, tool execution, editing, workspace
files, model client, retrieval) is I/O or data without a protocol of its own;
`PROJECT.json` lists every component with its status.

Interactions. The Supervisor talks to workers over ordered connections that may
break; frames carry the worker's name, not the handoff they belong to. In a worker,
the frame loop, the startup hydration and the lifecycle's background loop are
coroutines of one event loop that meet in `LifecycleManager`; it calls the task
registry (busy groups are not evicted, evicted groups lose their tasks), the
workflow engine (resume, save) and the database writers (close). Workers meet each
other only in the lock files and the databases.

### What correct means

* *Lifecycle*: a group is in one phase at a time; it is active only under its lock;
  every exit gives the lock back; when evict() returns the lease is released; no
  group is evicted while it is busy, unless somebody asks for it; every call returns.
* *Handoff*: the version of a reassign orders it among the others; a superseded one
  has no effect on the route; the route ends at the assigned worker; the maps end
  empty; every call returns; the new worker is not addressed while the old one holds
  the group.
* *Workflow*: what others see of a transition is durable; the row is the memory
  whenever nobody writes; a gate is passed by a human only; every unit gets its turn;
  the next worker goes on where the last one was.
* *Jobs, outbox, delivery*: a result is recorded by the holder of the current lease
  only; attempts are bounded and not lost; a completed row was delivered in the version
  it names; nothing is lost between two databases; duplicates have an excuse.
* *Tasks*: one run at a time; `retrying` is the state of a retry under way; the row
  tells the run; the stuck detector comes to an end.
* *Bus, bridge, permissions*: nothing critical is dropped; every call is answered
  once; a grant is used once.

## 2. Modules

| Module | Models | Lines |
|---|---|---|
| `ExclusiveLease` | what `group.lock` promises (abstract) | |
| `GroupLock` | `GroupLock.acquire/release` at system-call level, several processes | `L` 31-76 |
| `Lifecycle` | `LifecycleManager` of one worker and its coroutines | `L` 87-145, 348-394, 472-752; `W` 95-107, 258-263; `core/bg.py` |
| `Handoff` | `reassign_group`, routing and connections, the startup hydration, one group, several workers | `S` 40-221, 415-444, 474-479, 580-591, 687-907; `W` 291-353, 448-491 |
| `Workflow` | the workflow of one group in its worker: state machine, units, commits, gates, recovery | `core/orchestration/declarative.py`, `stages.py`; `core/runner.py`, `workflow.py`, `workflow_store.py`, `bg.py`; `db/writer.py`; `sessions/recovery.py`, `executors/plugins/tool_loop_session_persistence.py`; `L` 680-704 |
| `FencedWork` | what a queue of leased work promises (abstract) | |
| `PipelineJobs` | the table `pipeline_jobs` and its dispatchers in several workers | `memory/infrastructure/pipeline_jobs.py`, `memory/application/pipeline.py` |
| `ProjectionOutbox` | outbox rows, drains, the vector index | `memory/infrastructure/projection_outbox.py`, `memory/adapters/projections/chroma.py` |
| `ChannelRelay` | from a committed event to a message, through three databases | `channels/bridge/workflow_events.py`, `group_outbox.py`, `binding.py`; `channels/stores/sqlite.py`, `runtime.py`, `process.py`, `process_server.py` |
| `AgentTask` | one agent task: row, claim, adapter, projector, detector, worker | `plugins/agent_dashboard/`, `S` 620-685, `W` 334-441 |
| `MCLifecycle`, `MCHandoff`, `MCPipelineJobs` | symmetry sets for TLC | |
| `MCWorkflow` | `Workflow` with a history of what a worker that died was working on | |
| `GroupLockProofs`, `LifecycleProofs`, `HandoffProofs`, `PipelineJobsProofs`, `ProjectionOutboxProofs`, `WorkflowProofs`, `ChannelRelayProofs`, `AgentTaskProofs` | theorems | |

How they compose: `Handoff` uses the lease `GroupLock` implements (`owner`) and the
contract of evict() that `Lifecycle` proves (`LeaseReleased`); `Workflow!Release` and
`Hydrate` are the two ends of a hand-over seen by one group's workflow; `PipelineJobs`
and `ProjectionOutbox` have several workers because a hand-over may leave the old one
at work; the events `ChannelRelay` starts from are those `Workflow!Commit` writes;
`AgentTask` sees a worker as runs that `START_WORKFLOW` and `ABORT_REQUEST` frames
start and end.

**The grain of a step.** In `Lifecycle`, `Handoff` and `Workflow` a step is what one
coroutine does between two suspensions: asyncio runs nothing else in between. In the
other modules it is a database transaction with the synchronous code around it. No body of an
`async with self._lock` in `lifecycle.py` suspends, so that lock is never contended
for longer than a step and is not a variable. In `GroupLock` a step is a system call.

### GroupLock

| Code | Model |
|---|---|
| `open(path, "w")` (37-40) | `Open`: the inode the name points to, or a fresh one |
| `flock(LOCK_EX\|LOCK_NB)` succeeds (41-49), raises (50-58) | `Lock`, `Refuse` |
| `flock(LOCK_UN)`, `close` (60-71), `unlink` (72-76) | `Unlock`, `Unlink` (by name) |
| death of the process | `Crash`: the kernel closes its files |

Inode numbers are finite and reused when nothing refers to them. `DisciplinedSpec` is
`Spec` with the order the handshake gives: no release is under way when a process
opens the file, and no process is between open and flock when a release begins.

### Lifecycle

`active` and `older` are `_active_groups` and its order, `hydrating[g]` and
`evicting[g]` name the coroutine that owns the future in `_hydrating[g]` or
`_evicting[g]`, `registered` is the key set of `_locks`, `lock[g]` who holds the
file. `pc`, `op` and `target` are the coroutines: `hWaitEvict` and `eWaitEvict` wait
for an eviction, `hFollow` and `eWaitHydrate` for a hydration, `hInit` is inside
`init_group_db` and migrations, `hReady` before the last section of hydrate(),
`saving` and `closing` the two awaits of `_do_evict`, `eReturn` where evict() is
about to return, `body` the body of `_group_context`, `failed` an exception about to
leave the call, `ended` a frame loop that an exception has ended.

| Code | Actions |
|---|---|
| hydrate() 472-510: active, evicted, being hydrated, free, locked by another | `StartHydrate`, `RetryHydrate` = `UseActive`, `AwaitEviction`, `Follow`, `Lead`, `Refused` |
| 512-588 database, workflows | `Resume`; error path 611-619 `HydrateFail` |
| 590-610 activate, evict the LRU group at capacity | `FinishHydrate`, `FinishHydrateEvicting` |
| evict() 622-649 | `StartEvict`, `EvictAfterHydrate` |
| `_evict_once`, `_do_evict` 651-752 | `BeginEvict`, `AbortTasks`, `FinishEvict`, `FailEvict` |
| sweep 362-394 | `StartSweep`, `SweepOne`, `EndSweep`, `Expire` |
| handlers, tasks | `SpawnTask`, `EndTask`, `Leave`, `EndLoop` |
| other workers | `OtherProcess` |

Time is `stale`: the groups whose timestamp is older than the time-out. The sweep
remembers timestamps; comparing them is `touched`, the candidates whose timestamp has
changed. `freed` and `misled` are history variables. A future resolved wakes its
waiters in the same step (they become ready); they run later, in any order with other
coroutines. One thing is assumed of the event loop: coroutines woken by a future run
before a database call that started later completes (`ReadyQueueDrained`).

### Handoff

The variables are the dictionaries of the Supervisor for one group (`version` is 0
when there is no entry), a record per call of `reassign_group` and per routed frame,
and a record per worker: its inbox, its acknowledgements on the way, its connections.
`owner` is the worker that holds the lease, in the abstraction `GroupLock` implements.

| Code | Actions |
|---|---|
| lock object, version, cancelled predecessor (727-736) | `Enter`, `Acquire` (both run `BeginSection`) |
| UPDATE (738-757) | `WriteDb`, `FailDb` |
| nobody to ask (747-796) | `Direct` |
| handoff (798-907) | `StartHandoff`, `SendRelease`, `FailRelease`, `Timeout`, `EndHandoff` |
| `_clear_reassign_version_later` | `Cleanup` |
| `_drop_worker_state` (108-150) | `Drop` in `Disconnect`, `FailRelease`, `FailFrame` |
| routing and sending (580-591, 687-711) | `StartSend`, `ReadAssignment`, `CacheRoute`, `SendFrame`, `FailFrame`, `EndSend` |
| startup hydration: the SELECT (`W` 459-461), later the group (483-486) | `Boot` = `ListGroups`, `HydrateListed` |
| worker | `HandleRelease`, `HandleFrame`, `RefuseFrame`, `Crash`, `Connect` |

`WriteDb` commits; the coroutine hears of it in a later step, so that a disconnect or
a lookup can come in between. `FailRelease` drops the connection at once and waits
for it to close afterwards (`closing`), which is where a superseded call can linger.
`RELEASE_LEASE` is one step of the worker: `Lifecycle` shows (`LeaseReleased`) that
the acknowledgement is sent only after the release. The startup hydration is a task
beside the frame loop, so frames are handled between its two steps. `astray` is history:
whoever holds the lock took it (`TakeLock`) when the group was assigned to another.

### Workflow

`mem` is `_state[group_id]`, `row` the group's row of `workflow_state`, `queue` and
`run` the units that wait for `group_run_lock` and the one that holds it. `step[t]` is
the `OrchestratorStep` a task is applying, `writers` the queue of the database's write
lock. Three tasks may apply a step at the same time: the unit, the frame the worker
handles, and a run that `recover_all` resumed. `sessions` are the units whose agent
sessions have status `running`, `recovered` those whose sessions were resumed.

| Code | Model |
|---|---|
| `begin`, `_advance`, `_rewind`, `_redo`, `_raise_gate`, `confirm`, `StageType.enter`, `PoolStage.observe` | `Start`, `Advance`, `Enter`, `RaiseGate`, `Confirmed`, `Claim`, `Done`: the outcomes a transition may have |
| `apply_step` (126-179) | `Apply`: the memory moves, the write is queued; `Commit`; `Deliver`: card and units |
| `serialize()` hands out the live dict | `Follow`: a write that waits follows its workflow |
| `run_unit`, `_run_unit_body` | `Begin`, then `Observe`, `Pause`, `Quit` or `Fail` |
| CONFIRM, START_WORKFLOW, WORKFLOW_NEXT, WORKFLOW_END, USER_MESSAGE | `Confirm`, `Start`, `NextStage`, `End`, `Message` |
| ABORT, a message that replaces runs; `_do_evict`; death | `Abort`, `Release`, `Crash` |
| `resume_workflows`, `recover_all` | `Hydrate`: the memory is read back, any of the running sessions go on |
| a resumed run: session `running` again; `_dispatch_recovery` | `Resumed`; `ObserveRecovered`, `QuitRecovered` |

`approved`, `durable`, `adrift` and `left` are history. What a stage produces is not
modelled; a ticket is one of a number. A confirmation needs a gate, not a card: a frame
without `gate_id` confirms whatever is pending. The one process that keeps `mem` after
`Release` is the worker
that gave the group up: nothing clears its `_state`.

### PipelineJobs

A row is `status`, `attempt`, `token` and whether its lease has `lapsed`. A dispatcher
lists a batch (`List`), claims a job of it (`Claim`, `ClaimKills` when no attempt is
left, `ClaimMisses`), starts the handler and its heartbeat (`Start`, `Heartbeat`,
`HeartbeatLost`), and settles (`Complete`, `CompleteLost`, `Fail`, `Defer`, `Release`).
`Enqueue`, `ResetCompleted` and `CompletePending` are the producers. `Crash` drops what
the dispatcher had in hand and leaves the row as it is.

### ProjectionOutbox

`Enqueue` replaces the content of a row under a new version; `Claim` leases every
claimable row for one drain; `Deliver`, `Land`, `Raise` are the write of the index in a
thread; `Complete`, `Fail`, `TooLate` the acknowledgement with its WHERE clause; `Abort`
a drain that is cancelled, whose write may still land (`LandStray`).

### ChannelRelay

`Commit` puts an event into the projection queue; the relay loop takes it through
`ClaimEvent`, `Project` (or `FailProject`), then `ClaimRow`, `EnqueueOutbound`, `Finish`
(or `FailEnqueue`, `AbandonRelay`); the dispatcher through `Recover`, `ClaimDelivery`,
`Send`, `MarkSent`, `MarkFailed`, `MarkSentFails`, `AbandonDelivery`. `Replay`, `Revoke`
and `SetPaused` are the administrators. A crash ends both loops; leases lapse by
`Expire`.

A send ends with a receipt (`Told`), with an ambiguous error (the message was shown or
not, and the code says it does not know), or with a plain one. A plain error means that
the platform refused (`Refused`) or that nobody was told what it did (`Untold`): the
connector's process took longer than 30 s, answered an error of any kind without the
flag, or sent a receipt that is not the message's. `excused` counts the sends whose
outcome was lost, and the replays.

### AgentTask

`row` and `claim` are the database, `adapter`, `proj`, `retries` the Supervisor's
memory of the task, `ops` the calls under way, `frames`, `live` and `events` the worker
and its two channels.

| Code | Actions |
|---|---|
| `retry_task`, `_auto_retry` (`claim_retry`, `complete_retry_claim`, `restore_retry_claim`) | `BeginRetry`, `Claim`, `Conflict`, `SendAbort`, `SendStart`, `Dispatch`, `Complete`, `Restore`, `Fallback` |
| `abort_task`, `delete_task_record`, `terminate_permanently_stuck` | `BeginAbort`, `MarkAborted`, `WriteAborted`, `AbortRefused`; `BeginDelete`, `RemoveTask`, `DeleteRow`; `WriteTerminated`, `MarkTerminated`, `TerminateRefused` |
| `create_task` from its dispatch on | `CreateDispatch`, `CreateWrite` |
| `request_abort` and the worker's answer | `SendAbort`, `TimeOut`, `Abort`, `Proven` |
| projector, adapter, detector | `Project`, `Observe`, `FoundIdle` |
| run of the worker; restarts | `Start`, `EndRun`, `WorkerDies`; `Crash` with `RowReconciled`, `ClaimReconciled`, `Hydrated` |

`mixed` names the races the code does not exclude (section 6); the properties about
the row except exactly those. `Forgotten` is what the stuck detector does to its own
retry when it hears that the task has ended: the cancelled retry gives its claim back,
unless it is still inside `claim_retry`, whose commit lands outside the `try`.

## 3. Runs

| Run | Instance | States | Shows |
|---|---|---|---|
| `GroupLock_lease` | 4 processes, 5 inodes | 261 | under the hand-over order GroupLock implements `ExclusiveLease` |
| `GroupLock_split` | 3 processes, 4 inodes | counterexample | without it two processes hold the lock |
| `Lifecycle_worker` | frame loop, a second hydrating coroutine, sweep; 2 groups, 1 slot; fairness | 114 020 | phases, leases, evictions, capacity; every call returns |
| `Handoff_settles` | 2 calls, 2 workers, 2 connections each, dying workers, failed sends, fairness | 892 358 | routes and maps settle; stale calls have no effect; every call returns |
| `Handoff_frames` | 2 calls, a frame, failing sends and updates, dying workers | 1 699 130 | one writer, no waiting handoff out of reach; an answer means that the old worker let go |
| `PipelineJobs_fenced` | 1 job of 3 attempts, 2 workers, fairness | 9 155 | implements `FencedWork`; no attempt lost; the job ends |
| `ProjectionOutbox_acks` | 1 row, 2 versions, 2 drains, fairness | 27 729 | acknowledgements name what was delivered; rows drain |
| `ChannelRelay_delivers` | 1 event, 1 binding, 2 tries a stage, 2 faults, a replay, fairness | 72 840 | nothing lost, duplicates excused and bounded by the attempts, every event ends |
| `AgentTask_runs` | 1 operator with 2 requests, 1 automatic retry, 1 fault, fairness | 402 004 | one run, retries that give the row back, a row that tells the run |
| `AgentTask_incomplete` | 1 operator, a run that ends `incomplete` | counterexample | section 6 |
| `Workflow_durable` | a stage, a gated stage, a pool of 2 bots with up to 3 tickets; 5 transitions, a message, every fault, fairness | 1 364 390 | durability, row and memory, gates, turns |
| `Workflow_barrier` | 2 stages, a release | counterexample | section 6 |

Kept beside them, as larger instances of the same properties: `Lifecycle_safety` (3
groups, 2 slots; 1.1 M states), `Handoff_lock` (3 reassigns, every fault; 2.4 M),
`PipelineJobs_leases` (2 jobs; 146 k); and the other counterexamples of section 6, which
TLC finds within seconds: `Handoff_startup`, `ProjectionOutbox_overtaken`,
`ChannelRelay_resent`, `AgentTask_cancelled`, `Workflow_resumed` (of `MCWorkflow`),
`Lifecycle_tasks`, `Handoff_stale`, `Handoff_lookup`, `Handoff_reacquire`, `Handoff_leak`.

**Bounds and why they suffice.** In `Lifecycle_worker` one slot for two groups makes
every hydration compete for it; `Lifecycle_safety` adds the case that the least
recently used group is busy while another is idle. A worker has exactly the two callers
of hydrate() the run has, and one sweep. Two reassigns overlap in every way two can; the
third in `Handoff_lock` is there because the lock object can be forgotten by one,
recreated by another and waited for by a third, and the proof of `OneWriter` covers any
number. Two connections per worker let one die with a handoff in progress and its
replacement take part. Inode numbers suffice when no `Open` ever lacks one. Three tokens
for two workers: one in each hand and one in the row, which no hand need hold. Two
versions of a record and three edits let content change, come back and be deleted; one
lapsed lease (`MaxSlow`) is what makes two drains deliver the same row. Two faults let a
crash follow a failure. Two tries per stage make the first failure a retry and the
second a dead letter. Five transitions take a workflow through a signal, a gate, its
confirmation and into the pool, or by the human's `next` into the pool and out of it;
three tickets for two bots let one be claimed when another is done. Any number of runs
may be recovered together; of those, one at a time is between what it observes and its
effects. Symmetry is used only
where the elements are interchangeable (groups; calls; senders; jobs) and never with
liveness. For safety the proofs remove the bounds, except where a hypothesis of section 4 limits
the callers of evict() or the calls of `reassign_group`.

**Faults left out.** `Handoff_settles` excludes routed frames and a failing UPDATE,
because with them its property does not hold: a lookup breaks
`RouteFollowsAssignment` (`Handoff_lookup`) and `CleanWhenQuiet` (`Handoff_leak`),
and with a failing UPDATE the cancelled handoff is routed by nobody. `Handoff_frames`
and `Handoff_lock` include them. `AckMeansLetGo` is proved for two calls and every fault
when no frame is routed, and checked with a frame when no worker reconnects. With both, a
disconnect pops the version of a handoff that has its answer, a second reassign gives the
group back to the old worker, the frame makes it take the lock, and the first call still
routes to its own worker before the second one routes back. A third reassign breaks it as
well, since an acknowledgement names no handoff (section 4). `Workflow!Release` waits until
no recovered run is at
work: nothing would cancel it, it would go on writing after the takeover (as the tasks
of `Lifecycle_tasks` do), and no property of one process could say so.

`CHECK_DEADLOCK` is off where the system may come to rest: a dead job with idle
workers, an outbox without rows to drain, a task that has ended.

**Fairness.** `Lifecycle!Fairness` is weak fairness of each coroutine's own steps:
the event loop runs every ready coroutine and the database calls it awaits complete
or raise. Nobody has to call hydrate or evict, tasks need not end, and other
processes need not give up locks. `Handoff!Fairness` is weak fairness of each call's
steps, the timer of `wait_for(…, 10)` among them; workers owe nothing: they need not
read, answer, or come back. `Workflow!Fairness`: the event loop serves the lock queues,
executors return, a recovered run ends; nobody has to confirm, write, or hydrate the
group again. In `PipelineJobs`, `ProjectionOutbox` and `ChannelRelay` time passes (leases
and back-offs end) and the background loops go on; strong fairness stands where a loop
that is restarted for ever must get through in the end: crashes, cancellations and
failures of an external service may happen at every try, but not at all of them, and an
instance is not paused for ever. In `AgentTask` event loops and time-outs go on;
operators need not ask, runs need not end, nothing has to fail.

## 4. Proofs

`GroupLockProofs` (no assumption but `None` outside the other sets):

* `Typing`: `TypeOK`, which says also that a process has the file open exactly while it
  is in acquire() or past it (`OpenWhileUsing`): no path leaves a lock file open.
* `Exclusion`: two processes hold the lock only if an unlink removed the name of a
  file another process had open. The invariant says besides that the kernel's table of
  owners and the processes past flock agree (`OwnersAreHolders`), and that, as long as
  no such overlap happened, every open file is the one the name points to
  (`OpenFilesNamed`). The last is what `Unlink` can destroy.
* `Refinement`: `DisciplinedSpec => ImplementsLease`. The discipline keeps `overlap`
  FALSE, so there is at most one holder and each step takes, gives back or stutters.

`LifecycleProofs` (any groups, callers, frame loops among them, and capacity):

* `Typing`, then the inductive invariant `IInv`, whose parts need each other:
  `Owners` (every future in `_hydrating` or `_evicting` has an owner that is at work
  on that group, and a coroutine evicts one group at a time), `Hydrations` (a
  hydration under way holds the lock, whether or not its future is still in the
  table), `Leased` (`LeaseFollowsUse`, and a group being evicted has its lock, which
  `_locks` knows), `OnePhase`, `Waiters` (which call a waiting
  coroutine is in, and for what), `Sweeping`, and `EvictReleases`. `OnePhase` alone is
  not inductive: that no second hydration starts when an error handler has popped the
  first one's future follows only from the lock.
* `Phases`, `Leases`: `OnePhase`, and `LeaseFollowsUse` (`ActiveIsLeased` with
  `NoLeakedLease`).
* `IdleEvictions`, `SweepSpares`: the action properties, from `IInv` and
  `Candidates` (an untouched candidate that is still active is still stale).
* `Released`: with any number of callers, evict() returns only after the release,
  unless the group was being hydrated without its future meanwhile.
* `Acknowledged`: `LeaseReleased`, assuming `WorkerShape` (at most one frame loop, at
  most one other caller, as in `worker.py`). The strengthening `Undeceived` says that
  a hydration without its future is the frame loop's own or has cost the frame loop
  its life, so nobody is left to evict and be misled. Without `WorkerShape` it is
  false: a third caller of hydrate() makes evict() return while the group is being
  hydrated.
* `Capacity`: `OverCapacityOnlyWhenBusy`, even for infinitely many groups. What induction
  needs beyond `IInv` is that only finitely many of them are ever active; then an
  activation that evicts the least recently used idle group leaves as many active as
  before (`Replacement`), and the only activation that adds one beyond the capacity finds
  all of them with tasks.

`HandoffProofs` (finitely many calls, any workers, senders and faults):

* `Serialized`: `OneWriter`. The invariant `LockInv` relates the four places where the
  lock shows: `users` is the number of calls that use it (`Counted`, whence the
  finiteness), all of them use the object in `registry` (`OneLock`), and `held` names
  exactly the call in the section (`Held`). `OneWriter` alone says nothing about the
  next call, which takes whatever object the registry has.
* `Reachable`: `WaitIsReachable`, from `LockInv` and `Pending`: an unresolved future
  is the one in `_pending_handoffs`, and there is none while a call is in the section.
* `Typing`: `TypeOK`. Versions and clean-ups stay below the number of calls, which is a
  counting argument: a clean-up that is due, like a pending handoff, is owed to a call of
  its own that has handed over (`Bounded`).
* `SupersededNeverRoutes`: `StaleNeverRoutes` with any senders and any faults, as long as
  no two calls under way have the same version (`VersionsDiffer`). `VersionInv` says whose
  number the entry of `_reassign_versions` is: the latest call's, or nobody's (`Entry`);
  and that the section and `_pending_handoffs` are the latest call's (`Reigns`).
* `NeverRoutesInOrder`, `SettlesInOrder`: `StaleNeverRoutes`, and without database faults
  `HandoffSettles`, for any number of calls, when no frame is routed and every step is
  `Orderly`: no call takes a version while a superseded handoff outlives the calls that
  superseded it. Then versions increase with the order of the calls (`Ordered`). `SettleInv`
  adds to `VersionInv` what the latest call finds and leaves at each point: the route and
  the assignment while it writes (`Writing`), while it hands over (`Reassigned`), and once
  it is over (`Settled`, of which `HandoffSettles` is the case that nobody is at work). An
  UPDATE that raises after the handoff in progress was cancelled costs `Settled` and no
  other part, so it is the only one that asks for a database without faults.
* `TwoCallsNeverStale`, `TwoCallsSettle`: the same with two calls and without `Orderly`,
  since a superseded handoff of two calls has no successor that could take its number.
* `TwoCallsReleased`: `AckMeansLetGo` for two calls, when no frame is routed, whatever
  fails and whenever the startup hydrations list and open the group. An acknowledgement
  carries no version, so the invariant `ReturnInv` follows who
  asked whom: what a worker reads or answers somebody asked it (`Asks`), a worker that
  answered and holds the group again was assigned it again by another call or is `astray`
  (`Returned`), and until the latest call is over the worker that answered it does not
  hold the group, or is astray (`Released`).

  That `Orderly` cannot be dropped is finding 10: the entry is popped when the latest call
  ends, numbers start at 1 again, and a third call gets the number of a handoff that still
  hangs. With three calls TLC finds counterexamples to `AckMeansLetGo` too, by an
  acknowledgement that comes too late. The hypotheses say in which executions the code is
  right; those of two overlapping reassigns are always among them.

`PipelineJobsProofs` (any jobs, workers, tokens and bounds):

* `Typing`, `Fencing`: `TypeOK` and `LeasesFence`, which together are the inductive
  invariant; that no two hands hold one token (`OneHand`) needs that a fresh token is in
  no hand and no row, and that the hand whose token a row has is at that row
  (`HandOfRow`).
* `Exhaustion`: `DeadMeansExhausted`, from the guard under which `fail` and `claim` end
  a job and from the fact that nothing lowers `attempt` except a reset.
* `Refinement`: `Spec => ImplementsFencedWork`. `entitled` is mapped to the workers whose
  token is in their row; each step of the code is one of `FencedWork` or a stutter, and a
  worker fenced off by a later claim can only `Drop`.

`ProjectionOutboxProofs` (any events, drains and versions):

* `Typing`: `TypeOK`, together with `CurClaimed` (a drain is between two rows, or at work
  on a row it has claimed), without which the entry `NextRow` clears is no entry at all.
* `Acknowledged`: `AckIsCurrent`, from `AckInv`: a drain that is about to complete a row
  has its version among those that landed in the index.
* `Staleness`: `StaleMeansOvertaken`, from `SoleInv`: for every row nobody was overtaken
  at, whoever has it in hand holds its lease and its current version and no write is left
  behind (`Holder`), a write left behind keeps the row leased (`Strays`), and what is
  written or completed is what the index has (`UpToDate`). An edit, or a claim of
  an expired lease, while a drain has the row in hand is what moves it to `overtaken`.

`WorkflowProofs` (any stages, gates, bots, faults and bounds; `None` is no step, the
pool is no gated stage, and the bots are finitely many):

* `Typing` and `Gates`: `TypeOK` and `GatesNeedHumans`. Neither is inductive. A
  transition is sound only if it starts from a sound state, and it starts from what a
  restart read back, so `GateInv` covers the memory, the row, and every snapshot that
  waits to be written. `Fresh` states what a transition may bring about, and one lemma
  for each of the transitions shows that it does. That a commit finds a step at all needs
  `WaitInv`: everyone at the write lock is there once, with something to write.
* `RowMemory`: `RowFollowsMemory`, from `RowInv`: the last write in the queue has the
  state of the memory (`LastWrites`), whoever else changes the live dict meanwhile, and
  nobody is at work on a group that is not served (`Quiet`).
* `Effects`: `EffectsAreDurable`, from `DurableInv`: what a step will show is no newer
  than what it commits (`Backed`), and `durable` never goes back.

`ChannelRelayProofs` (any events, bindings, tries and bounds):

* `HandedOver`: `HandOver`. What is missing for induction is that the row the relay is
  about to call forwarded is in the channel store (`HandInv`). `Hands` is what every step
  keeps: no row goes away, an event is projected only together with its rows, a row
  forwarded only from the channel store on; and bindings only leave `steady`.
* `Duplicates`: `DuplicatesExcused`, from `SendInv`: a row that may be sent again was
  shown no oftener than excused, unless the dispatcher has an answer it has not told the
  store (`Unsaid`); and nobody else moves the row it has in hand.
* `Attempts`: `AttemptsBound`, from `AttemptInv`: while a send that is counted already is
  still to come (`Due`), what is shown is less than the attempts, faults and replays.
* `Typing`: `TypeOK`.

`AgentTaskProofs` (any operators, detector retries, requests and faults):

* `Typing`: `TypeOK`, from `Types`: a retry under way has the claim, unless the row is
  gone, and is the only one (`Calls`); what the adapter holds back, it holds for that
  retry (`Dash`).
* `SingleRun`: `OneRun`, from `RunInv`: whoever has an `ABORT_REQUEST` on its way waits
  for the answer and has one such frame (`Awaited`); every start is ahead of the abort of
  a retry that waits, and no run and no start is left once it is acknowledged
  (`Cleared`); until the creation has dispatched the task nothing has happened
  (`Created`). The order of the worker's frames is what makes `Cleared` inductive. Most
  actions are `Calm`: they start nothing, ask for no abort and answer none, and one
  lemma (`CalmRuns`) serves them all.
* `OwnedRetries`: `RetriesGiveBack` under the assumption that no run ends `incomplete`:
  from a state in which `retrying` has an owner (`RetryingHasOwner`) no step leads to one
  in which it has none, except the cancellation of a detector's retry that has not heard
  of its commit. `AgentTask_incomplete` and `AgentTask_cancelled` show that neither the
  assumption nor the exception can be dropped.
* `RowTells`: `RowTellsTheRun`, from `IInv` and `TellInv`, which holds as long as no retry
  has met an abort, a removal or old news (`mixed = {}`). At rest the row is right because
  of what holds on the way there. `Ended => Over`: whatever records or is about to record
  that the task has ended (the row, a pending projection, an unread event of the last
  run, an acknowledged abort, the status a retry would restore) finds no run and no start
  on its way. A start is where that could break, so a retry has the row to itself
  (`Alone`), and its start is the first frame the worker reads, after its own abort
  (`Front`); a new run makes older events old. `Gone`: what is deleted or given up has
  ended. `Shows`: a row that says the task is under way belongs to a task that is watched,
  shown as stuck, or about to be told its end by the projector. Each step is shown to
  keep these apart from the frames (`Kept`), and most keep the frames as well
  (`CalmFront`); `Milder` says that a step only lets the calls go on.

Only model-checked: all liveness properties, which are outside the prover's reach, and
`HandoffSettles`, `StaleNeverRoutes` and `AckMeansLetGo` on instances outside the
hypotheses above, where they are not true in general. Every other property of a passing
run is a theorem, under the hypotheses named here.

## 5. Not modelled, and what is abstracted

* The contents of databases, frames and memory; prompts and messages. `Resume` in
  `Lifecycle` stands for everything between lock and activation that may spawn tasks;
  `AbortTasks` for the cleanup of in-memory state.
* `shutdown()`, which production code does not call, `touch()` outside hydrate(), and
  the background loop's retention and pruning.
* In `Handoff`: other groups of the workers, the supervision of worker processes, the
  fan-out to browsers, and writers of the assignment other than `reassign_group`. A
  cached route may be too old at any time instead of after 60 s or an hour.
* In `Workflow`: a second process; discussion stages and orchestrators; free-form chat
  runs, their sessions and those of sub-agents; worktrees; announcements; executors other
  than `tool_loop_v1` (whose units alone
  `resume_workflows` would start again); the recovery event `resume_workflows` writes. At
  most one stage is a pool, and its bots are not those of single stages. Bot names of a
  stage stand for the stage.
* In `PipelineJobs`: checkpoints and the handlers' effects on memory. In
  `ProjectionOutbox`: the order of rows (a batch is any set of claimable ones), and the
  vectors of other records that an upsert deletes (`delete_ids`, `chroma.py` 44-46).
* In `ChannelRelay`: inbound messages, the event filter of a binding, `next_attempt_at`
  (a retry may come at any time), account administration, and the renewal of a
  delivery's lease: with one dispatcher a lease matters only after a crash.
* In `AgentTask`: the idempotent creation of tasks (`reserve_request`), the periodic
  reconciler, back-pressure of the projector, `paused`. A claim is assumed stale only
  after its owner is gone (120 s against about 10 s), and the detector's time-out longer
  than any unread event.
* Losing or reordering frames on a live connection: the sockets do not.
* Event bus, permissions, MCP bridge, scheduler, and everything `PROJECT.json` lists as
  I/O: HTTP, framing, tools, editing, model client, files, schema, retrieval, connectors.

## 6. Findings

Each is a configuration TLC ends with a counterexample. The first eight contradict a text
of the repository; `PROJECT.json` has the first three, with the text, the others name it.

1. `GroupLock_split`: release() unlocks, closes, then unlinks by name; between the two
   another process can lock the old inode, and a third one a new file.
2. `AgentTask_incomplete`: a task that ended `incomplete` may be retried, but
   `restore_retry_claim` does not take that status back; when such a retry fails, row
   and claim stay `retrying` and nobody is at work.
3. `Workflow_barrier`: `_do_evict` saves the state outside any group binding, so the
   save goes to the central database; the abort that follows cancels the transition that
   was waiting to be committed, and the next worker resumes the state before it. If the
   save reached the group's row the property would hold.
4. `Handoff_startup`: a worker lists its groups at startup and opens them one by one while
   its frame loop runs. It acknowledges the `RELEASE_LEASE` of a group it has not opened
   yet, and then opens it, although the group is being routed to another worker
   (`nuke_collaborator_system_diagram.md` 309: "a clean transfer instead of two workers
   racing for the same DB").
5. `ProjectionOutbox_overtaken`: a delivery slower than its 30 s lease (which covers a
   whole batch and is not renewed), or one whose drain was cancelled, lands after a newer
   one was acknowledged; the index stays stale although
   `docs/decisions/MEMORY-SYSTEM-DESIGN.md` (186-187) says that a later drain removes it.
6. `ChannelRelay_resent`: a connector runs in a process of its own, and what it says of an
   error does not include whether the message may have been shown; an error after the
   platform has accepted is retried like a refusal
   (`docs/channels-feishu-wechat-deployment.md` 142: no automatic resend).
7. `AgentTask_cancelled`: between the commit of a claim and `mark_retrying` the adapter
   takes the end of the old run for that of the task; the stuck detector then cancels its
   own retry, and the claim it has just committed stays (`progress.py` 154-155: such
   events are ignored while a retry holds the claim).
8. `Workflow_resumed`: `resume_workflows` leaves the units to `recover_all`, which looks
   for running sessions; a unit that had none yet is resumed by neither
   (`docs/ARCHITECTURE.md` 297: the trigger chain of the active unit is restored).
9. `Lifecycle_tasks`: `_do_evict` cancels a group's tasks and releases the lock
   without waiting for them.
10. `Handoff_stale`: version numbers restart when the entry is popped; a reassign whose
   send hung takes a later one's number for its own and undoes its route.
11. `Handoff_lookup`: a route read before a reassign is cached after it.
12. `Handoff_reacquire`: frames that follow `RELEASE_LEASE` to the old worker make it
   hydrate the group again before the acknowledgement is acted upon.
13. `Handoff_leak`: a disconnect during the UPDATE, followed by a lookup, leaves a
   handoff in `_pending_handoffs` for ever.

Met while modelling, and excepted or excluded by name in the models:

* *Lifecycle, Handoff*: with a third caller of hydrate() the error handler of one call
  would pop the future of another (line 613); a handler's group can be evicted under it;
  `LEASE_RELEASED` has no version; a failing UPDATE leaves the handoff it cancelled
  unrouted.
* *Workflow*: a recovered run is observed as text outside the run lock, and its signals
  are dropped, although a live run's text moves nothing (`declarative.py` 217,
  265) and `recovery.py` 308 says "exactly as live dispatch does". A unit of an
  earlier stage completes the stage the workflow is in. The `gate_id` of a redone stage
  is the old one, so an old card approves the new gate. `_rewind` may go forward. An
  executor that raises deletes the row and keeps the memory. `PoolStage.observe` drops
  the observations of the advance it makes. The `_state` a worker keeps after an eviction
  comes back to life when the group does and the row is gone by then.
* *AgentTask*: `abort_task` and the creation take no claim, so a retry may dispatch
  meanwhile and its run go on under an aborted row; the end of an old run is taken for
  that of the new one; a pending projection overwrites `retrying`; a task that a crash
  leaves in `created` can only be aborted.
* *PipelineJobs*: new input for a job that is running or dead is not noticed
  (`experience_distillation.py` 197-205). *ChannelRelay*: relay and projection attempts
  count only failures, so a crash loop never becomes a dead letter; a replayed dead letter
  keeps its attempts.

## 7. Plan

Done: the lease, the lifecycle, the hand-over; the jobs, the outbox and the channel
relay; agent tasks; the workflow. Left, in this order:

1. `GroupOwnership`: several groups and workers; composes the lease, `Lifecycle`'s
   contract and `Handoff`'s routing. Direct reassigns without a cached route,
   `RefuseFrame` ending all groups of a worker, late acknowledgements, the assignment
   written outside the reassign lock. Abstract specification: a group has one server,
   and it is the assigned one when quiet.
2. A second process in `Workflow`: recovered runs and tasks that outlive the lease.
3. `Permissions`, `Bus`, `McpBridge`: one small module each.
4. Theorems: `TakeoverIsCurrent` for a `Workflow` whose eviction saves to the group's row;
   what a third reassign may and may not break.
