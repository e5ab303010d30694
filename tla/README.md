# A TLA+ model of the laogu agent platform

The repository is a control plane for browser automation. A FastAPI **server** keeps users,
workspaces, agents, profiles, tasks and commands in a SQL database. On each operator's machine an
**agent** (usually embedded in the desktop application) registers with the server, pulls work,
drives local browser profiles and reports results. This directory models the part of that system
whose correctness depends on interleavings, retries, lost messages and restarts, checks the models
with TLC, and proves their central properties with TLAPS.

| file | what it is |
| --- | --- |
| `CommandLifecycle.tla`, `TaskLifecycle.tla`, `ProfileRunner.tla`, `LeaseLock.tla`, `ProfileSlot.tla` | abstract specifications: what a component promises |
| `CommandChannel.tla` | the remote command channel: server handlers, WebSocket handler, both agent threads |
| `TaskPipeline.tla` | the task pipeline: task table, service loop, outbox |
| `TaskManager.tla` | how the agent runs tasks and serves profile commands: pools, futures, profile locks, profile workers |
| `TargetLease.tla` | the outreach lease of a target: the server's row, the client, the engine's steps around it |
| `AutomationRuns.tla` | the automation of a profile in the desktop controller: runs, schedule, timer and watchdog, pause and cancel |
| `MetricSync.tla` | the counters of automation runs: local table, flush, the server's insert |
| `MC*.tla` and 12 `.cfg` | instances of these modules for TLC |
| `*Proofs.tla` | theorems about each of the six modules |
| `PROJECT.json` | components, runs, mutants, source map, findings, hazards, theorems |

To check a run: `tlc -config PipelineSafety.cfg MCTaskPipeline`. To check the proofs:
`tlapm TaskPipelineProofs.tla`.

## 1. Inventory

### Components, their state, operations and interactions

**Remote command channel** (`server/command_api.py`, `server/main.py:216-279`,
`agent/server_client.py`, `agent/agent_service.py`). State: the `commands` table; per server thread
an ORM session; per WebSocket the frames in flight; in the agent the command-channel thread, the
service loop and the flag `_websocket_connected` they share. Operations: create, cancel, pull, ack
and result over HTTP; poll, deliver, receive on the WebSocket; dispatch in the agent. Hard: two
transports serve one table; handlers decide on rows they loaded earlier and never lock; a request is
sent a second time over the system proxy while the first copy is still alive. Correct when a settled
command keeps its outcome and is not dispatched again, success is only claimed of dispatched
commands, and commands settle.

**Task pipeline** (`server/main.py:1289-1360`, `server/script_api.py`, `agent/agent_service.py`,
`agent/task_service.py`). State: the `tasks` and `activities` tables; in the agent the cycle of the
service loop and the SQLite outbox `processed_tasks`. Operations: create, cancel, pull with a 60 s
lease, script fetch, result; flush, resend, prepare, run, save, upload. It shares the service loop
with the command channel (`cycle_once`: flush, pull, execute, then commands). Hard: the agent may end
between execution, save and upload; the lease may run out under a running batch; any failing request
ends the cycle. Correct when a task with a recorded result is never executed again, the server shows
that result, and every task settles.

**Task manager and profile workers** (`agent/task_manager.py`, `agent/profile_worker.py`). State:
futures, per-profile locks, one thread pool per call of `run_concurrent`; per profile a worker that
remembers whether its browser is up. Called by the service loop and by commands on the channel thread.
Hard: two pools meet at the profile locks only; a cancellation races the pool that picks the task up and
the caller that collects it; workers answer from memory. Correct when a profile runs one task at a time,
a task whose cancellation was confirmed never runs, callers are told what was recorded, a worker's
IDLE or STOPPED is true, and every call returns. `max_workers` bounds one call, not the process.

**Outreach deduplication lease** (`server/dedup_api.py`, `agent/cloud_dedup.py`,
`agent/x_automation_engine.py`). State: one row per workspace and target with a lease id, an owner and
an expiry; in the engine the leases it believes to hold; per account the history pool. Operations:
claim (upsert if expired), confirm, prune; in the engine claim, visit, follow, confirm. Hard: the
client fails open after 0.8 s while its claim may still be committed; the lease runs out during the
visit; a confirmation is lost. Correct when the row is an exclusive lease, and a confirmed contact keeps
others away that had to ask.

**Desktop controller, automation of a profile** (`desktop/controller.py`, `agent/automation_safety.py`).
State: `_RUN_STATES` (the run that holds the profile, its engine and guard), the schedule in the config
file, its timer and token, the risk state of the account. Operations: start now, schedule, cancel the
schedule, pause, resume, cancel, the timer, the watchdog tick, the completion callback, the restore
after a restart. Called by the GUI thread, remote commands, timers and executor threads at once. Correct
when one engine at a time works in a browser, a reported challenge keeps engines off the account, the
profile is given back after every failure, and a schedule is never forgotten.

**Automation statistics and metric sync** (`agent/automation_statistics.py`,
`agent/agent_service.py:172-187`, `server/main.py:1208-1256`). State: a row per run with an uploaded
flag; the server's row, unique per run. A second outbox, flushed by the service loop and by completion
callbacks. Correct when a run is counted once, no counters are dropped, and all runs are reported.

**Rotation scheduler** (`agent/rotation_scheduler.py`). State per group: status, stop event, worker
thread, cooldowns, skips. Called from the GUI; calls the desktop controller, and cannot run today (section 7).

**Agent credentials and offline access** (`server/main.py:523-582, 1009-1155`,
`agent/offline_access.py`). State: agent tokens, device binding, the cached offline grant. Correct
when a revoked token is not accepted and the grant ends with it.

**Agent service lifecycle** (`agent/agent_service.py:367-384`): start and stop of the two threads with
a join timeout; `stop` is only called when the process is about to end. **Task proposals**
(`server/task_proposal_api.py`): draft, confirm, reject. **Group manager and history pool**, **script
registry**, **updaters**, **AI and translation services**, **Telegram and licence services**, **the X
automation engine**, **the browser fork**, **the web console** and **deployment** are listed in
`PROJECT.json` with what is modelled of them or the reason why they are left out.

### Hazards

`PROJECT.json` lists each at its line. Covered by properties: stale and unlocked reads in the handlers,
the second route of a timed-out request, lost replies and expired leases, restarts of either side
between any two steps, half-open WebSockets, a thread that dies with its flag set, a rejected result or
counter at the head of an outbox, a claim that fails open, comes late or expires during the visit, four
kinds of callers that start one profile, a start that fails after the reservation, a challenge reported
during a start, a watchdog that acts on what it saw, a crash between claim and re-arm of a schedule,
concurrent metric uploads, two pools on one profile, a cancellation that races its task, the remembered
state of a profile worker. The others have a note: what happens on SQLite, two executions of a schedule,
a cancellation stored after a challenge, a lost proxy, double confirmation of proposals, concurrent token
rotation.

## 2. Plan

| order | module | abstract specification | runs | theorems | state |
| --- | --- | --- | --- | --- | --- |
| 1 | `CommandChannel` | `CommandLifecycle` | safety and liveness in one run; three disagreements | type, invariant, success, one dispatch per delivery, refinement | done |
| 2 | `TaskPipeline` | `TaskLifecycle` | safety with restarts and migration; liveness; one disagreement | type, invariant, outcome, executions, refinement | done |
| 3 | `TargetLease` | `LeaseLock` | two accounts, one target, expiry between any two steps, lost answers | invariant, confirmed contact, refinement | done |
| 4 | `AutomationRuns` | `ProfileSlot` | safety and liveness in one run | invariant, challenge, waiting schedule, refinement | done |
| 5 | `MetricSync` | none: `CountedOnce` is the promise | safety and liveness in one run; one disagreement | invariant, counted once | done |
| 6 | `TaskManager` | `ProfileRunner` | safety and liveness in one run | two invariants, cancellation, reports, workers, refinement | done |
| 7 | credentials, proposals | a token is valid until revoked; a draft is confirmed once | if they earn a run | | open |

`CommandChannel` and `TaskPipeline` have the service loop in common, `AutomationRuns` and `TargetLease`
the engine, `AutomationRuns` and `MetricSync` the completion callback. A module that composes two of
them is worth writing only if a property relates the two, and none does today: they meet only in the
order of one cycle or one callback.

## 3. The models

The server's models describe a handler the way the ORM executes it. `view[s]` holds the rows a session has
loaded; a handler loads, decides on what it loaded, and commits later, and other handlers run in
between, because no row is locked. The ORM writes an attribute only if it differs from the loaded
value, hence `Written`. After the commit the objects keep their values (`expire_on_commit=False` in
`server/database.py`), so a WebSocket session goes on seeing what it saw.

### CommandChannel

| state | code |
| --- | --- |
| `status`, `expired`, `deliveries` | `commands.status`, age of the delivery lease, committed deliveries (ghost) |
| `view`, `req` | ORM session and request of each HTTP server thread; `view[w]` the session of a WebSocket handler |
| `wsPc`, `wsOut`, `wsMsg`, `down`, `up` | the WebSocket handler, its batch, its message, frames in flight each way |
| `cPc`, `cCmd`, `cConn`, `wsFlag` | the command-channel thread and `_websocket_connected` |
| `hPc`, `hCmd`, `hQueue`, `hSlot` | the service loop in `process_commands_once` |
| `blocked` | the parts of `cycle_once` before it (heartbeat, account sync, metrics, tasks) fail in every cycle |
| `dispatches` | calls of `command_dispatcher.dispatch` (ghost) |

`Ws*` actions are the steps of `agent_command_socket`; `C*` those of `run_command_socket` and
`_command_loop`; `H*` those of `process_commands_once`; `HttpLoad`, `PullCommit` and `CommandCommit`
are the two halves of every HTTP handler. `HResend` is the second route of `_request`. Faults: a TCP
connection is cut, a request times out, either process restarts, or the cycles begin to end before the
pull (`CycleBlocked`), for a while or, as in finding 4 or with a refused token, for good. A verdict that
no request carries any more is reset, which the code has no need to do.

### TaskPipeline

| state | code |
| --- | --- |
| `status`, `expired`, `activities` | `tasks.status`, age of `pulled_at`, the tasks that have rows in `activities` |
| `view`, `req`, `asked` | sessions and requests of the server threads; tasks a user has cancelled |
| `stored`, `uploaded` | the outbox `processed_tasks`, which survives the agent |
| `aPc`, `aSlot`, `aTask`, `aRetried` | the service loop in `pull_and_execute_once` and the request it waits for |
| `outbox`, `queue`, `prepared`, `outcome` | the loop's local variables: results to flush, pulled tasks, prepared tasks, what they ended with |
| `executions`, `restarts` | executions of each task, restarts of the agent process (ghosts) |

One cycle is `ABegin`, then `AFlush` and `ASent` per waiting result, `APull` and `APulled`, for each
pulled task `AResend` (it has a recorded result), `AFetch`/`AFetched` (a script) or `APrepare`, then
`ARunBatch`, `AExecute` in any order, `ABatchDone`, and for each task `ASave`, `AUpload`, `ASent`.
`AbortCycle` is the exception that `cycle_once` catches: what was pulled and prepared is dropped, the
outbox is not. `Migrate` stands for the two ways in which the server forgets an agent's tasks: a move
to a host without the old database, and `delete_agent` followed by a new registration.

### TaskManager

| state | code |
| --- | --- |
| `item` | the work item and future of a task: queued, cancelled, waiting for the lock, executing, storing, or ended with a result, an exception or a cancellation the pool has seen |
| `status`, `registered`, `locked` | `Task.status`, keys of `_futures`, locks held in `_profile_locks` |
| `pc`, `at`, `batch`, `left`, `collected` | a calling thread in `run_concurrent` or `cancel_task`: its tasks, those not submitted, those `as_completed` has yielded |
| `executions`, `logged`, `reported`, `confirmed` | executions, the record in the task store, what the caller reads, cancellations answered with success (ghosts of what others see) |
| `worker`, `on`, `open`, `touched` | `ProfileWorker.state`, the worker lock a thread holds, the browser, whether others have used it since |

`Begin`, `Submit`, `Register`, `Collect` and `Return` are `run_concurrent`; `PickUp`, `Acquire`, `Finish`
and `Store` are `_run_task` on a thread of the pool; `Cancel` and `Confirm` are the two halves of
`cancel_task`, which holds `_lock` between them, so that a registration waits (`LockFree`). The short
critical section of `_profile_lock` under the same `_lock` only delays a pool thread and is left out.
`StartProfile`, `StopProfile` and `RefreshProfile` take the worker's lock and answer at once from its
state; then the browser answers (`BrowserStarts`, `BrowserStops`, `BrowserTells`), possibly after an
effect that is reported as a failure, and `WorkerDone` writes the state and gives the lock back.

### TargetLease

| state | code |
| --- | --- |
| `row` | the row of the target in `studio_visited_targets`: status, `lease_id`, `expires_at` |
| `lock`, `net`, `now` | the row lock of a confirmation, requests the server has not finished, the database clock |
| `pc`, `tries`, `kind`, `reply` | a worker: where it stands, its attempts, why it believes it may visit, the answer |
| `visited` | the target is in the history pool of the worker's account |
| `granted`, `grantAt`, `termEnd`, `confirmed`, `follows` | what was committed and what X has seen (ghosts) |

`ClaimTarget` is the upsert of `build_claim_statement` with the answer of `claim_in_transaction`;
`ConfirmRead` and `ConfirmWrite` are the two statements of `confirm_in_transaction`. The worker's actions
follow the loops of the engine: claim, visit, `Follow` (verified or not), `OnlyLike`, `AlreadyFollowing`,
`Abandon` (profile not reachable, filtered, refused, stopped), `Confirm`. `HopWithoutClaim` is
the classic chain hop. An attempt is one engine session: its leases are forgotten afterwards.

`RowLocks = TRUE` is PostgreSQL, which the deployment documents prescribe. With `RowLocks = FALSE`
(SQLite) `LeaseInv`, `ConfirmedContactIsKept` and the refinement are all violated: the update of a
confirmation is by row id and meets the row of the next lease.

### AutomationRuns

| state | code |
| --- | --- |
| `slot`, `fut`, `guards`, `cancelled`, `paused` | `_RUN_STATES`: the run that holds the profile, its engine, its guard and the guard's events |
| `risk`, `challenge` | `automation_safety_risks.status`; a challenge nobody has dealt with (ghost) |
| `mode`, `type`, `status`, `due`, `rounds` | the schedule in the profile's config |
| `timer`, `fresh` | `_scheduled_timers` and `_scheduled_tokens` |
| `pc`, `own`, `cap`, `tries` | threads of users, timers, watchdog and executor: step, run, captured config, attempt |

Each action is one critical section, one write of a store or one external call. `Reserve`, `BeginRun`,
`SetGuard`, `Submit` and `StartFails` are `_start_automation_now`; `ClaimExecution`, `Execute`,
`ExecutionStarted`, `ExecutionFailed` the scheduled execution; `EngineBegins` to `RunEnds` the engine
thread with its callback; `UserCancels`/`CancelIsStored` and their likes the two halves of cancel, pause
and resume, which take the guard first and write the store later.

### MetricSync

| state | code |
| --- | --- |
| `local`, `uploaded`, `time` | `finished_at` of each row of `automation_runs`, its uploaded flag, the clock of the upserts |
| `synced`, `stored` | runs whose profile and X account the server knows; what it stored of each run |
| `batch`, `row`, `call`, `fallback` | a flushing thread: pending rows, the row it sends, the request, whether it is on its second route |
| `late` | requests whose client has given up on them and which the server may still execute |

`Lookup` and `Insert` are the two halves of `sync_automation_metric`. `Foreign` runs belong to an X
account that the profile may never show again: they may be refused for good.

### What is abstracted

- Payloads, names, audit rows, redaction, paging, timestamps. A lease is a flag that the clock may
  set at any time after the delivery.
- Authorisation: tokens are valid. Workspaces and profiles are left out; one agent is modelled, since
  handlers only touch rows of their own agent.
- Idempotency keys of command creation: one creation is one insert. The script endpoint creates the
  tasks of several profiles in one commit; the model creates them one by one, which allows more.
- The verdict of a dispatch or an execution is any allowed one. In particular an execution may end
  `CANCELLED` at any time: `_run_task` classifies by the text of the error, and the poll of the task
  status (`cancel_check`) only influences which verdict it is.
- The outbox is flushed in any order, which covers the row order of the code. The other parts of a
  cycle (heartbeat, engine update, account sync, metrics) can only end the cycle before it begins.
- In TaskPipeline a batch runs in any order and ends as a whole; TaskManager is the detail behind it. How
  many Activity rows a task has is not modelled: `task_result` (`server/main.py:1352`) checks and inserts
  without a lock or a unique constraint, so two copies of one result may leave two.
- A user cancels a command or task once; the second cancellation finds a terminal row.
- TargetLease has one target, since every statement names it; an answer is allowed, refused or an error.
- AutomationRuns has one profile; others share only the browser start lock and the executor. The config
  is its schedule fields. `RATE_LIMITED` and `NOT_LOGGED_IN` behave as ready and as a challenge.
- In MetricSync a payload is its time. A row of more than 100 pending ones is left out.

## 4. What the runs check

Twelve runs, each with its own question.

| run | instance | what it shows |
| --- | --- | --- |
| `channel_liveness` | 1 command, 1 HTTP thread, 1 WebSocket, 1 fault, a live delivery overtaken once (`MaxDeliveries = 2`), `FairSpec` | `ChannelInv`; `SuccessWasDispatched`; `OneDispatchPerDelivery`; the channel implements `CommandLifecycle`; `CommandsSettle`, redelivered commands included, as long as one channel serves in the end, and unless the result is lost after the acknowledgement |
| `pipeline_safety` | 2 tasks (one a script), 2 threads, batches of 2, 1 fault, 1 migration | `PipelineInv`; `OutcomeIsTheRecordedResult`; `OneExecutionPerProcess`; the pipeline implements `TaskLifecycle` |
| `pipeline_liveness` | 2 tasks, 2 threads, batches of 1, 1 fault, no migration, `FairSpec` | `TasksSettle`, through timeouts and restarts |
| `manager_checks` | 2 tasks of one profile, 2 calling threads, pools of 1, `FairSpec` | `ManagerInv`; `CancelledIsNeverRun`; `ReportIsTrue`; `WorkersInv`; `WorkerTellsTheTruth`; the manager implements `ProfileRunner`; `EveryCallReturns` |
| `lease_safety` | 2 accounts (one with unclaimed hops), 1 attempt each, clock to 5 | `LeaseInv`; `ConfirmedContactIsKept`; the row implements `LeaseLock` |
| `automation_safety` | 1 user thread, 1 scheduler thread, 2 run ids, both schedule types, `FairSpec` | `AutomationInv`; `ChallengeStopsEngines`; `WaitingIsArmed`; the controller implements `ProfileSlot`; `RunsAreReleased`, unless paused; `DueIsDecided` |
| `metric_safety` | 2 runs (one foreign), the loop and a callback, 2 upserts, `FairSpec` | `MetricInv`; `CountedOnce`; `RunsAreReported`: some payload of each run arrives, unless an older foreign row blocks the queue |
| `terminal_kept` | finding 1 | a WebSocket ack revives a cancelled command |
| `interrupted_recovered` | finding 2, `FairSpec` | an acknowledged command whose result is lost stays RUNNING for ever |
| `pull_held_back` | finding 3 | a failing send kills the channel thread and leaves HTTP pull off |
| `outbox_blocked` | finding 4, `FairSpec` | a result the server rejects blocks all later work |
| `metric_lost` | finding 5 | the server keeps the zero counters of a run's first snapshot |

Every property of a passing run has a mutant in `PROJECT.json`: a plausible bug in a mapped definition
under which TLC finds that property violated.

**Bounds.** The sets are the smallest for which every action fires and two actors meet on one row: one
command with two transports; two tasks, so that a batch has a rest to drop, with two threads, so that a
first copy and a retry overlap, or a result and a cancellation; two tasks of one profile, so that they meet
in the queue of one pool or, from two pools, at the profile lock; two accounts on one target; two run ids,
so that a thread still refers to a run when the next has begun; two runs in the metric queue, so that one
can be ahead of the other. `MaxDeliveries` bounds timing, not recovery: only below it does a lease run out
while the delivery is still alive (`Alive`: a session, a frame, a thread or an unanswered request carries
it), and only up to it does a cut connection swallow deliveries unnoticed; the lease of a delivery that is
lost runs out at any count, so every redelivered command is followed to its end. In the lease, a claim lasts
one tick, a confirmation two, and the clock reaches 5, so that a row can be claimed, confirmed, expire, be
pruned and claimed again. `MaxTime = 2` in MetricSync gives one run two payloads, or each run one. Batches
of commands, overlapping requests about one command and a second fault are beyond what one run of the
channel can hold together with liveness; the theorems cover them, since they hold for all values. Two
scheduler threads and a third attempt at a start are likewise left to the theorems about AutomationRuns. In
the pipeline an execution ends `SUCCESS`; a result that differs from an earlier one is the `CANCELLED` of a
refused script, and the theorems hold for all verdicts. `MaxFaults` and `MaxMigrations` bound faults only.
Server threads are interchangeable, so the safety run of the pipeline uses symmetry; the liveness runs do
not.

**Deadlock.** Checked in every run except three. In `channel_liveness` and `pull_held_back`, which contain
a WebSocket and a fault, the system really stops once the channel thread has died with
`_websocket_connected` set and the users and faults are exhausted (finding 3). In `lease_safety` it stops
when the attempts and the clock are at their bounds.

**Fairness.** A server handler that has begun goes on (weak fairness of load and commit): uvicorn runs each
request to its end. The service loop and the channel thread are `while` loops without other exits, their
waits have timeouts, so each loop is weakly fair as a whole. That is no promise that a cycle reaches the
command pull, which comes last: while `blocked` holds the pull is not enabled, and `CommandsSettle` is
stated under the condition `ChannelServes` instead: in the end the socket has a living thread or, without
one, the cycles get through. Without that condition TLC shows the blocked loop starving a command. Sending
needs a free server thread; users act boundedly often, so weak fairness is enough. The pipeline model has no
such flag: `TasksSettle` assumes that heartbeat and account sync do not fail for ever, and its run has no
migration, after which finding 4 refutes it. Receiving on a WebSocket is strongly fair since timeouts
compete with it. The clock runs, so leases expire. In AutomationRuns every thread goes on, an engine ends
unless it is paused (it waits in `_check_run_control`), the timer and the GUI's tick are strongly fair
because other calls may keep the threads busy. In TaskManager pool threads and calls go on, since executions
and browser calls have timeouts; a registration that waits for `_lock` is strongly fair, because the other
thread could otherwise take that lock again and again with STOP_TASK. In MetricSync the steps of the service
loop are strongly fair, since a network that fails now and then does not fail for ever; the callbacks, which
flush once, owe nothing. Users, faults, restarts and dropped requests are never obliged.

## 5. What is proved

For all values of the constants that satisfy the modules' assumptions (disjoint kinds of sessions and
threads, natural bounds, a claim no longer than a confirmation), so for any number of commands, tasks,
server threads, connections, accounts, runs, faults and migrations:

| theorem | statement |
| --- | --- |
| `TypeCorrect`, `PipelineTypeCorrect` | the variables keep their types |
| `InvariantHolds`, `PipelineInvariantHolds`, `AutomationInvariant`, `MetricInvariant` | `Spec => []ChannelInv`, `[]PipelineInv`, `[]AutomationInv`, `[]MetricInv` |
| `ManagerInvariant`, `WorkersInvariant` | `Spec => []ManagerInv`, `Spec => []WorkersInv` |
| `LeaseInvariant` | `Spec => []LeaseInv`, if `RowLocks` |
| `SuccessIsDispatched` | `Spec => []SuccessWasDispatched` |
| `DispatchNeedsDelivery` | `Spec => []OneDispatchPerDelivery` |
| `OutcomeIsRecorded` | `Spec => []OutcomeIsTheRecordedResult` |
| `OneExecutionEachProcess` | `Spec => []OneExecutionPerProcess` |
| `CancelledTasksNeverRun`, `ReportsAreTrue` | `Spec => []CancelledIsNeverRun`, `Spec => []ReportIsTrue` |
| `WorkersTellTheTruth` | `Spec => []WorkerTellsTheTruth` |
| `ContactIsKept` | `Spec => []ConfirmedContactIsKept`, if `RowLocks` |
| `ChallengeIsRespected`, `WaitingHasTimer` | `Spec => []ChallengeStopsEngines`, `Spec => []WaitingIsArmed` |
| `RunCountedOnce` | `Spec => CountedOnce` |
| `ChannelImplementsLifecycle`, `PipelineImplementsLifecycle` | `Spec => ImplementsLifecycle`, `Spec => ImplementsTaskLifecycle` |
| `ManagerImplementsRunner` | `Spec => ImplementsProfileRunner` |
| `LeaseImplementsLock`, `AutomationImplementsSlot` | `Spec => ImplementsLeaseLock`, if `RowLocks`; `Spec => ImplementsProfileSlot` |

**The channel's invariant** has three parts besides the types. `NamesAreCreated`: whatever names a
command names one that exists. `SuccessIsEvidence`: not only a row but every session, request and frame
that says SUCCESS says it of a dispatched command; the property about rows alone is not inductive, since
a row takes its value from a request, which took it from a thread. `SessionsHoldWhatTheyLoad`: a pull
session holds deliverable rows only, an ack or result handler holds the row it decides on, and the
service loop waits for the request it sent.

`OneDispatchPerDelivery` compares two counters, so its invariant counts: every copy of a command that may
still be dispatched, in frames of the connection the agent listens to, in the reply it waits for or in
its hands, stands for a delivery that has not been dispatched (`DispatchesAreDelivered`). Cuts, timeouts
and restarts only take copies away; `OnlySendersHoldCopies` says that nobody else makes any.

**The pipeline's invariant** has five parts. `NamesAreCreated` as above. `ResultsAreRecorded`: rows, sessions,
requests and the loop state no result but the one in the outbox. It needs `WorkIsFresh`: what the loop
is about to execute has no recorded result, and no task is both queued and prepared; this is what makes
the second `save` of a task impossible, so a stored result never changes. `SessionsHoldWhatTheyLoad`
ties sessions to their requests and says that nobody holds a task the server has lost.
`ExecutionsAreCounted` pays for each execution: by a restart, by an outcome the loop still holds, by the
recorded result, or by the loss of the task. It needs the other half, that an outcome without a record
belongs to the batch that is being run or reported: no exception of `cycle_once` can drop it there, and a
new batch only forgets outcomes that were saved. `OneExecutionPerProcess` follows, which says that
neither an expired lease nor a retry nor a lost reply repeats a task, only the end of the process.

**The manager's invariant** follows a work item from the queue to its end. The two batches are apart, and
what is in a pool is in a batch (`BatchesAreApart`), so a thread only collects and reports what ends in its
own call. `LocksAreHeld` says that the held profile locks are exactly those of executing tasks, one each:
from it follows that a profile runs one task at a time, although the locks are taken by threads of different
pools. `StatusesFit` ties status, executions and record to the place of the item, which makes the two
writers of a cancelled task harmless: its item can only be cancelled or seen as cancelled, so `PENDING`,
`CANCELLED` and `FAILED` are all it can show, and `CANCELLED` or `FAILED` once it is collected.

**The workers' invariant.** `WorkerTellsTheTruth` speaks of workers nobody holds; for the others the
invariant says that one thread holds each, that this thread is in a call, and that the answer it was given
is still so (`AnswerIsTrue`).

**The lease's invariant.** Terms of different leases never overlap (`RowInv`): a row only changes hands
when its expiry has passed, and the clock only goes forward. For that, a confirmation past its check must
still own the row when it writes (`OwnsRow`), which is what the row lock gives and SQLite does not.
`FollowInv` keeps what was true when a follow was made, so that `ConfirmedContactIsKept` follows from the
order of two terms.

**The invariant of the runs** says who may know what of the slot: an engine and a starting thread
belong to the run that holds it (`EnginesHold`, `StartersHold`), there is one starter (`OneStarter`), and a
guard and its events belong to a run somebody still refers to. `ChallengeStopsEngines` needs it: a challenge
is reported by the run that holds the slot, so no other start can have passed the safety store.

**The invariant of the metrics** relates the uploaded flag to the server through every place a row passes:
an accepted call implies a stored run, and nothing ever unstores one.

**The refinements** of the channel and the pipeline map a row to `open` while anybody may still write it or work on it (`Exposed`) and
to its status afterwards. The central lemma is that an unexposed terminal row stays as it is
(`UnexposedStays` in the pipeline, its counterpart in the channel): no session can overwrite it, no poll
selects it, the agent never gets it again. A step then either creates, dispatches or executes, records,
loses, or settles the set of rows that are exposed no longer.

That the mapping waits for `~Exposed` is the point: the row itself does change after it was terminal
(finding 1 shows it). The theorems say how far this goes: only while somebody who read the
row earlier has not finished.

The lease maps to its holder: the row's lease while it has not expired or is locked by a confirmation.
The controller maps to the slot and the engines that are queued or running, the task manager to the
executing tasks, their counts, the confirmed cancellations and the reports: `Acquire` runs a task, `Finish`
ends it, `Confirm` refuses it, `Return` reports a batch, and every other step stutters.

**Model-checked only.** `CommandsSettle`, `TasksSettle`, `EveryCallReturns`, `RunsAreReleased`, `DueIsDecided`
and `RunsAreReported`, since liveness under fairness and ENABLED are outside the prover.

## 6. Findings

1. `terminal_kept`: the WebSocket handler judges an ack on the row its own poll left in the identity map
   (`server/main.py:264`); a command cancelled meanwhile goes back to RUNNING. `STAGE10C5_DEPLOY_ZH_CN.md:9`
   says repeated acks and results leave a terminal result as it is.
2. `interrupted_recovered`: after the ack no poll selects the command again and a result whose upload
   fails is dropped (`agent/agent_service.py:299`). `STAGE10C2_DEPLOY_ZH_CN.md:43` says an interrupted
   command can be delivered again when its lease has expired.
3. `pull_held_back`: `socket.send` outside the `try` (`agent/server_client.py:274`) ends the channel
   thread with the connected flag set. `STAGE10C4_DEPLOY_ZH_CN.md:5` promises the HTTP fallback.
4. `outbox_blocked`: a 404 in `flush_results` (`agent/agent_service.py:167`) ends every cycle before the
   pull. `SERVER_MIGRATION_ZH_CN.md:78` says that registering again is what the agent needs after a
   migration without the old database.
5. `metric_lost`: the server answers a run it has with success and never updates it
   (`server/main.py:1222`); the first snapshot, with zero counters (`desktop/controller.py:1174`), is often
   the only one. `agent/agent_service.py:173` says counters are uploaded, or retained.

Not given a run of their own: `_claim_scheduled_execution` (`desktop/controller.py:1296`) promises that a
single thread executes a schedule; with two scheduler threads the watchdog can claim what the user has
cancelled after the timer claimed it. Only one of the two executions gets the profile
(`ImplementsProfileSlot`).

## 7. Not modelled, and why

See the components of `PROJECT.json`. The rotation scheduler is left out because it cannot run: its
`_validate_controller` (`agent/rotation_scheduler.py:278`) asks for `is_profile_running`, which
`DesktopController` does not have, so the worker ends with an error;
`desktop/tests/test_controller.py:949` only looks at the status set before that. Credentials and proposals are small and listed with their
hazards; they come next in the plan. A stop of the agent service is followed by the end of its process, so
a stop and start within one process is not modelled. Most of
`x_automation_engine.py` and `main_window.py` is heuristics on web pages and widgets: what they do to the
shared state (claims, follows, run control, the schedule's tick) is modelled, how they find a button is
not. AI services, Telegram, licences and updaters are calls to systems outside the repository, with little
state of their own. The browser fork is a separate application. The safety policy, script validation and
encryption are pure functions over text.
