# PlowWhip: a TLA+ verification project

PlowWhip is a local control plane that drives coding CLIs. A web container keeps
tasks, workers and leases in SQLite and decides what runs; a *host bridge*, a small
HTTP server outside the container, starts the CLI processes and records their
fate. The two may crash, restart and lose sight of each other, and the processes
outlive both. The question the project asks is whether work can be lost, run twice,
or be taken for finished while it still runs.

Paths below are relative to `src/backend/plow_whip_web/` unless they start with `src/`.

## 1. Inventory

| Component | State | Operations | Talks to |
|---|---|---|---|
| Task store (`store/task_repository.py`, `host_job_repository.py`, `resilience_repository.py`, `runtime/recovery.py`) | rows of `tasks`, `task_attempts`, `task_runs`, `workers`, `task_leases`, `resource_locks`, `recovery_checkpoints`, `host_jobs` | claim, prepare, mark_verifying, finish, finalize_host_fault, cancel, recover, suspend, resume, amend, escalate, ... Each is one `BEGIN IMMEDIATE` transaction | everything else, through the database |
| Task service (`runtime/task_service.py`) | the place of its threads: drivers, the reconciler, an operator's cancellation | drive, reconcile_host_jobs, suspend_active_provider_jobs, control | store; host bridge over HTTP |
| Host bridge (`host_bridge.py`) | `<job id>.json`, `_processes`, one monitor thread per process, threads that enforce cancellations | start, status, cancel, recovery at start | task service; the operating system |
| Scheduler lease and cron (`store/scheduler_repository.py`, `runtime/scheduler.py`, `runtime/cron.py`) | `scheduler_state`: owner, lease, fencing token, last slot, last report | run_due, acquire, finish, claim_cron_slot | calls all of the tick's phases |
| Execution episodes (`runtime/execution_episode.py`, part of `host_job_repository.py`) | `execution_episodes`: deadlines, wall clocks, counters of processes, faults and recoveries per task | prepare, observe_episode, terminate_episode, complete_episode | reconciler, store |
| Resilience (`store/resilience_repository.py`, `provider_repository.py`, `providers/pool.py`) | network zones, provider health and circuits, incidents, grants | record_network, record_provider_health, probe_all, route_task, grants | tick, store |
| Goals (`store/goal_repository.py`, `runtime/goal_reducer.py`, `orchestration.py`, `sizing.py`, `execution_policy.py`) | goals, their plan and their work items | plan_goal, create_with_plan, advance (unblock, replan, invalidate, complete, block) | tick, store, Butler |
| Ledgers (`runtime/model_call_ledger.py`, `token_ledger.py`) | receipts of model calls, what they are charged | prepare, dispatched, settle, recovery's unknown | Butler, service |
| Role instances (`store/role_instance_repository.py`) | instances, session bindings and generations | ensure, rotate, replace, require_dispatchable | service, store |
| Butler (`runtime/butler.py`, `butler_planner.py`, `store/butler_repository.py`, part of `api/app.py`) | the conversation of a project, its draft, the global conversation | start, append, answer, plan, suspend, apply, confirm, dispatch, global reply | goals, ledgers, host bridge |
| Settings, conventions, projects, permissions, audit, outbox, health | their own tables | single-transaction CRUD | API |
| Context, rules, behaviour packs, journal, sizing, execution policy, verification, evidence | none, or files | pure text and file work | service |

What is hard, and where:

* **Concurrency.** Drives run in a thread pool of the tick, HTTP threads cancel and
  amend, the cron thread reconciles; they share the database and nothing else.
  The reconciler reads a task, polls over HTTP and acts on what it read.
* **Failure.** Either side may die between any two steps. The bridge may have
  started a process whose pid is nowhere; the control plane may have finished a
  run whose job is not consumed.
* **Ordering.** A start whose client gave up can still be accepted. A cancellation
  is acknowledged before the process is gone.
* **Words that become work.** A person writes while a model plans what was written
  before; a proposal may be handed over by two paths; a crash forgets which model
  calls went out, but not what they cost.
* **Decisions from stale evidence.** A tick reads every task of a goal and decides;
  operators amend, retry, continue and cancel the same tasks at the same time.
* **Time.** Task leases, the scheduler lease, reconciliation deadlines, timeouts of
  processes, grace periods of kills.

`PROJECT.json` lists every hazard at its line, with the properties about it.

What makes each part correct: the store keeps locks exclusive, gives a role's worker
one task, resumes a checkpoint once, bounds the tasks in flight and leaves terminal
statuses alone; the host starts a job at most once and calls it final only
when its process is gone; the service never has two processes at work on a task or
a resource, frees a worker only when its process is gone, and settles every run;
the scheduler ticks once at a time and once per minute; a circuit is probed by one
thread, heals, and its tasks resume; a goal is replanned
a bounded number of times, and is complete only on a verification no older than what was
built; the Butler hands over only what was read, loses no turn, and charges all
that was used.

## 2. Modules

| Module | Models | Built on |
|---|---|---|
| `TaskStore` | the tables, one action per transaction | |
| `HostJob` | what the host promises about one job: started once, final means gone | |
| `HostBridge` | `HostJobManager`: its threads, crashes and restarts | implements `HostJob` |
| `TaskService` | drivers, reconciler, cancellation, suspension, crashes, outages, the host | EXTENDS `TaskStore`; its host is `HostJob` per run; implements `StoreSpec` |
| `Sessions` | the role instance, the binding and the session of each task of a role, and the worker they share | fills in the sessions that `TaskService` leaves out |
| `SchedulerLease` | `scheduler_state`, cron threads, API ticks | |
| `ExecutionEpisode` | the episodes of one task, the watchdog that bounds them, the recovery ladder | computes what "watchdog" leaves open in `TaskService` |
| `Resilience` | the tick's view of zones, providers, circuits, incidents, suspended tasks | fills in "suspended" and the routes of `TaskStore` |
| `GoalPlan` | sizing, routing and planning: from a request to the items of a goal, as operators | |
| `Goals` | one goal over the states of its items: `create_with_plan`, `advance`, operators | EXTENDS `GoalPlan` |
| `Intake` | gates, defaults and the contract of a proposal, as operators | EXTENDS `GoalPlan` |
| `ModelCalls` | what the ledger promises: settled once, all usage charged | |
| `Butler` | the conversations, their threads, calls and crashes | EXTENDS `Intake`, `ModelCalls`; implements `LedgerSpec` |
| `TaskServiceProofs`, `HostBridgeProofs`, `SessionsProofs`, `ExecutionEpisodeProofs`, `ButlerProofs`, `GoalsProofs` | theorems about the module they name and those it is built on | TLAPS |
| `TickProofs` | theorems about `SchedulerLease` and `Resilience` | TLAPS |
| `GoalPlanProofs` | lemmas about the operators of `GoalPlan`, for `ButlerProofs` and `GoalsProofs` | TLAPS |
| `MC*` | small instances | |

### TaskStore

A variable is a column, or the rows of a table, as its comment says. `Claim` is
`claim`: it needs a ready task, an attempt that is left or a checkpoint to resume, a slot,
the idle worker of the role and the resource; it deletes the expired rows of other
tasks, as `_acquire_worker_and_lock` does. `Finish`, `HostFault`, `PreDispatchFault`
and `FinalizeCancel` end a run; `FaultTarget` is the table of statuses in
`finalize_host_fault`. `ReplaceSpec` is amendment, retry and restart. `Recover` is
the whole of `RecoveryService.reconcile`, which takes every stale task in one
transaction. `Advance` is what `GoalRepository.advance` writes to `tasks`: it replans or exhausts
`needs_human` items, withdraws completions whose evidence no longer stands, gates what is ready or
paused, and cancels the pending items of a goal that is lost. `Items` are the tasks that belong to goals.
What decides between these outcomes is in `Goals`; here any item that qualifies may get any of them.

Abstracted: time (a lease is live or expired, `Expire` is the clock); revisions, as
an operation with an old one changes nothing; contents; the identity of idempotency
keys, which become the guards of the steps they make harmless. `Overridable` names
the tasks whose status may be overwritten by the two operations that do not look at
it properly: `escalate`, and a `suspend_task` whose task moved on since it was listed.

### HostJob and HostBridge

`HostBridge` is one job id. Every block under `self._lock` is one action, and what a
thread does between two blocks is in its program counter: `start` looks, validates,
marks the record `dispatching`, calls Popen and records the pid (`StartCheck`,
`StartMark`, `Popen`, `StartRecord`); `cancel` marks and starts a thread that kills
and, without a Popen handle, settles (`Cancel`, `EnforceKill`, `EnforceSettle`);
`_monitor` settles what this bridge started. `Crash` forgets threads and handles but
neither the file nor the process; `Restart` is `_recover_records`. `Faults` turns on
what the environment may do beyond that: ps failing, a crash between Popen and the
record of the pid, a crash during a cancellation, a kill that takes longer than five
seconds.

A cancellation that meets a record without a pid marks it and raises (`int(None)`);
`StartRecord` then overwrites the mark. So `CancelKept` is about cancellations of a
record with a pid.

### TaskService

The steps of `drive` for host providers are `DriveClaim`, `DrivePrepare` (or
`DriveAbort`, `DriveDeadline`), `DriveSend`, and `DriveReply`, `DriveUnavailable` or
`DriveRejected`. The reconciler `rc` walks the unconsumed jobs: `ReadTask`, `PollHost`,
then what the record calls for, each transaction a step, then `TickRecovers`, and `TickAdvances`
before and after the drivers that the tick dispatches. What raises ends the tick (`rc' = Idle`).
`CancelTask` and `CancelJob` are the two halves
of `control(cancel)`. The host accepts, loses, starts, exits and settles as
`HostJob` allows, and gives the verdict that `FaultPolicy` makes of the final record.

There is one reconciler: two at once need two ticks at once, which is the subject of
`SchedulerLease`. Deadlines and watchdog bounds are switches in `Parts`: when on, any
tick may find them passed. With "late_tick", a lease of an open job may expire before it is
renewed; with "slow_driver", a driver may outlive its lease; with "torn_end", the control plane
may die between the end of a run and the consumption of its job.

### Sessions

The tasks of one permanent role, which share its worker. A task has an instance with its binding, a
row of `task_sessions`, a driver and a caller (the scheduler that falls back, or an operator with
a grant); each transaction is a step, and whoever takes several may stop between them.
`Ensure` is `ensure_for_task`, `Claim` and `Prepare` write the worker and the generation of a
job, `Start` hands over the external session, `Taken` is what `record` compares before it takes
a report, `Replace` and `HostFaultRotates` raise a generation. A generation and the external
session a job opened are values, not strings.

### SchedulerLease

A tick is `Acquire`, then `Finish` or `Fail` (it raises and nothing releases the
lease) or a crash. Time is a minute, for the cron slot and the lease alike. `Timely`
are the tickers whose ticks end before their lease does; nothing in the code sees to
that, as no tick renews its lease, so the tickers of the command line (`__main__.py`)
are left out of it. `OwnerOf` is the name a ticker acquires with; all requests to
`/api/scheduler/tick` have one (`api/app.py:883`), and a lease is not busy for its own owner. The cron expression is a set of
minutes, with `catch_up_once` in `Due`.

### ExecutionEpisode

`episodes` are the rows of `execution_episodes` of one task, `watch` the columns that
only the watchdog writes, of the latest of them. `Prepare` is `_episode_for_process`:
the hard deadline and the circuit are looked at, the active episode is continued
or a new one inserted one step up the ladder, and a process is reserved. `Observe` reads
the task and the host's answer, calls `observe_episode` (`ObserveEpisode`, with
`Bounded` for `ExecutionEpisodeWatchdog.evaluate`) and chooses what to do; `Terminate`,
`Finalize`, `Finish`, `Complete`, `Consume` are the transactions that follow, one
step each. `Suspend`, `GiveUp`, `Cancel`, `OperatorResume` and `ReplaceSpec` are
everybody else who ends episodes or restarts the task.

`TaskService` already interleaves the threads of a task, and lets the watchdog strike at
any time. Here the rest of it is coarser, so that the watchdog can be computed: a
process and its host are the answers they give (an ended one keeps its answer), a claim without
a job is found by recovery at once, "running" stands for verifying too. Time is what
is left of each deadline. Faults have two classes, since the watchdog compares a class
with the one before it. An episode that is no longer the latest keeps no `watch`:
whether it is found bounded is left open. `zero_progress_rounds` is left out:
`_observe_episode` always passes `no_progress_seconds`, which turns it off.

### Resilience

One action per transaction of the tick: `RecordNetwork` (thresholds, the incidents of
zones, and the one of the whole network that replaces them), `ProbeAll`,
`RecordProviderHealth`, `SuspendActive`, `SwitchSuspended`, `ResumeSuspended`,
`RouteReady`, `Dispatch`. A probe is three steps (`ProbeAllowed` reserves,
`CallBridge`, `RecordProbe`), since a tick probes by a thread per provider and people and
drivers probe the same providers at any time. What an operation finds changed since the tick
listed it raises, and ends the tick, as in the code. `Reconcile` stands for the three calls between
`SuspendActive` and the suspended tasks (`scheduler.py:128-130`); it raises, in every tick, once the job
of a stopping task ended interrupted (`Wedge`, see `service_stop`). Counters stop at their threshold, a
cool-down is a moment (`CoolDownEnds`), and it is longer than a probe. `Torn` allows a crash in a
half-open probe.

Left out: the DNS, TLS and HTTP checks of a zone (one answer per check), latencies and quotas,
the mail of an incident.

### GoalPlan and Goals

`GoalPlan` has no state: `Score`, `SizeClass`, `Budget`, `Route`, `ChildSizing`, the lanes, the
serial order of roles that write to one worktree, the appended verification and
`validate_goal_plan`. `Planned` says whether `plan_goal` accepts a request, `Items` what it
makes of it.

`Goals` is one goal. `Create` is `create_with_plan`; a run of an item is claimed and ends (`Claim`,
`Pass`, `Fail`, `HostFault`, `PreDispatchFault`, `EvidenceRefused`, `Recover`), which is what
`TaskStore` and `TaskService` do in detail; operators pause, continue, amend, cancel and
escalate. `Advance` is the whole of `advance`: it reads the rows once, replans or exhausts what
is stuck, invalidates completions whose evidence is older than what they depend on, gates
what is ready or paused, cascades a cancellation and reduces the status of the goal. An evidence
manifest is a number that grows. `Claim` looks at the row of the task only, as `claim` does, so that an
item may run before what it waits for. `wedged` are the stopping tasks whose job ended interrupted,
0 for one outside the goal: as long as there is one, no tick comes to recovery or `Advance` (`Ticks`).

### ModelCalls, Intake and Butler

`ModelCalls` is the abstract ledger: a receipt per idempotency key, one counter per session that
providers report cumulatively, and what the session was charged (`_settle_session_delta`). `Butler`
implements it, with its own rules for keys: the revision a thread has read and, for the repair of
a reply, a second one.

`Intake` holds the pure functions of a draft: the semantic gate, what is asked next, the
defaults of a draft that an owner structured, the contract of a proposal and
automatic eligibility. A text is its length, lines and marks. A proposal has `keys`: which of the keys
it may leave out it has, as `apply_planner_proposal` merges key by key (`Merged`), and what a
proposal does not mention stays as it was (`Stay`). Whether the words ask for a file is decided when the
draft is planned, from the words it has then (`WantsFile`).

`Butler` has a thread per request. A conversation row is one record (`conv`); each
transaction is a step, and so is the call between two of them: `StartConversation`,
`AppendConversational`, `PostField`, `PreparePlannerResume`, then `PlanCall`, `Executes` or
`ExecuteRaises`, `SettleCall`, `BindSession`, `ApplyPlannerProposal` or `SuspendPlanner`,
`AutoDispatch`, and by a person `ReadProposal`, `Confirm`, `MarkDispatched`. The global
conversation is `StartGlobal`, `PostGlobalMessage`, `AppendGlobalReply`. `Crash` ends every thread
and closes open receipts, as the recovery of the first tick does. A draft carries the revision
that wrote it, which stands for its hash.

## 3. Runs

Deadlock is checked in the runs of the store, the bridge, the service and the lease. The
others may stop: a task is settled, a goal decided, a conversation over, the world as it
stays. All runs finish within five minutes on two cores.

| Run | Instance | Shows |
|---|---|---|
| `store` | 3 tasks: 2 of two roles on one resource, one of them waiting for the other, and 2 of one role; 2 slots, 2 runs each, two of the tasks items of a goal, three claims and one edit of a specification among them all (1,641,388 states) | `TypeOK`, `ResourceExclusion` with expired rows, `ResumedOnce`, `WorkerServesOne`, `InFlightBound`, `TerminalUnlessOverridden` |
| `bridge_job` | 2 starts, 2 cancellations, 2 crashes, fair threads | `OneProcess`, `FinalMeansGone`, `KeepsPromise` (the bridge implements `HostJob`), `VerdictStays`, `CancelKept`, `JobSettles` |
| `service` | 1 task, 2 attempts, 2 runs, watchdog, suspension, late ticks, a crash or outage | `OneWorking`, `LiveHasRow`, `CancelConfirmed`, `UsesStore` (the service implements `StoreSpec`) |
| `service_run_ends` | 2 tasks with a worker and a resource each, one of them stopped while the other runs, fair threads, reconciliation deadlines, crashes between finish and consume | `RunEnds` |
| `lease_ticks` | cron, two API requests of one owner name and the command line, a restart, overruns of the command line | `OneTick` of the timely ones, `NewestKeeps`, `ReportsInOrder`, `SlotsAdvance` |
| `episode` | 2 specs of 1 attempt, 1 process per episode, 2 equal faults, a grant or a crash, fair | `EpisodeTypeOK`, `OneActive`, `DeadlineInherited`, `ReadyMayStart`, `SpendBounded`, `LadderEnds` |
| `resilience_runs` | 2 providers behind 2 zones, a pinned task and one with a fallback, 2 changes of the world, 1 operation or crash, fair | `OneHalfOpenProbe`, `CircuitHeals`, `SuspensionEnds` |
| `goal_runs` | the plans of 7,832 requests; one goal of two lanes and a verification, 2 failures, 2 acts of operators, fair | `GoalTypeOK`, `PlansSound`, `ReplanBudget`, `VerdictNotOlder`, `GoalSettles` |
| `butler_runs` | 2 threads, 3 requests, a crash or an unavailable provider, 3 revisions, 13 replies of the model | `UsageCovered`, `ProposalDispatches`, `AnswersInOrder`, `DispatchStands` |

Three more runs show where the code does something else than its documentation,
comments or messages say. Each checks one property and finds it violated; the quoted
lines are in `PROJECT.json` under "findings".

| Run | What happens |
|---|---|
| `service_stop` | a stopping task whose job is interrupted makes every tick raise, and never leaves `stopping` |
| `butler_turns` | a turn that arrives while the planner works is overwritten by the proposal made without it: binding the session returns the newer revision, under which the old proposal is written |
| `session_reports` | a task whose session is replaced before its first claim runs a generation ahead of the worker of its role, and every report of its job is refused |

**The tick that raises for ever.** What `service_stop` finds is a premise of three liveness properties.
A tick reconciles the jobs of all tasks first, and `finalize_host_fault` raises for a job that failed, was
interrupted or was given up while its task is neither running nor verifying
(`task_repository.py:1322`). Nobody consumes that job, so every later tick raises at the same
place: no run of any task is recovered, no goal advances, no suspended task is switched or resumed.
`RunEnds` therefore supposes that again and again no open job is of that kind (`Poison`), `GoalSettles`
and `SuspensionEnds` that no tick raises so (`Ticks`, `wedged`). The runs do contain it:
without the premise TLC finds each of the three violated, `RunEnds` with two tasks, of which one was stopped
and interrupted while the driver of the other died.

**Where a property needs its premise.** The passing runs leave out what the following
instances were found to reach; most can be seen again by changing one constant.

Store, bridge, service, lease:

* `TerminalUnlessOverridden` for an `Overridable` task: `escalate` guards terminal tasks with
  the names "completed", "failed" and "cancelled" (`worker_help_repository.py:114`), but no
  task has the status "failed": a terminally failed task is paused under the same
  specification, and a resume makes it ready.
* A completed item does leave its status under an unchanged specification: `advance` withdraws a
  completion whose evidence is older than that of a dependency, or whose dependency was reopened
  (`goal_repository.py:583`). `TerminalUnlessOverridden` names that (`Withdrawn`): the item depends on
  another, and its evidence goes with its status.
* `FinalMeansGone` with "ps_fails": `_process_identity` returns None when ps times out, which
  counts as another process, and a live orphan is recorded as interrupted.
  `src/docs/ARCHITECTURE.md:66` asks for a hold there.
* `OneTick` for tickers that share their owner: every request to `/api/scheduler/tick` ticks as
  `web-api` (`api/app.py:883`), and a lease is not busy for its own owner. Two requests tick at once;
  and when the newer of them ends, it ends the lease for both, so that a third scheduler acquires it
  beside the older one. `OneTick` says that only these threads are overtaken.
* `OneTick` with a ticker that is not in `Timely`: a tick outlives its lease, and
  another container ticks beside it.
* `FinalMeansGone` with "crash_at_spawn": the bridge dies between Popen and the record
  of the pid. The restart makes that a hold without an identity, and the next restart
  an interrupted job, while its process lives. `OneProcess` holds even so.
* `JobSettles` with "crash_in_cancel" or "slow_kill": a
  cancellation that lost its thread, or whose kill took too long, leaves an orphan's
  record in `cancelling`, which `_refresh` does not look at. Somebody has to cancel
  again. The safety properties hold with both, which is proved (section 4).
* Two processes may work on one resource: with "late_tick", a claim deletes the expired row of
  a task whose process lives. `ResourceExclusion` is about rows; no property speaks of
  processes of two tasks.
* `OneWorking` with "give_up": a passed deadline frees the worker of a process that was
  never told to stop.
* `OneWorking`, `CancelConfirmed` and `UsesStore` with "torn_end": after a crash between finish and
  consume, a request to drive the task (`api/app.py:1503`) may claim its next run while the job of
  the finished one is unconsumed. `finalize_host_fault` and `finalize_running_cancel` know the
  task only (`task_repository.py:1270`), so the old job settles the newer run or confirms its
  cancellation, and the process of the newer run is left without a run.
* The same with "slow_driver": a driver that stalls for longer than its lease, between claim and
  prepare, while recovery requeues the task and another driver claims it. Nothing in prepare
  compares the run, so the first driver prepares a job for the run of the second, and both
  start a process.
* The same with a task in `Overridable`, whose status `escalate` or a late suspension takes out of
  a run.
* A suspended task may still have a live process: `suspend_active_provider_jobs`
  settles it when the host has accepted the cancellation. `OneWorking` says that this
  process was told to stop.
* `operator_resume` looks at no dependencies, and neither does `claim`, so no property
  of the store, or of goals, says that a task runs on completed dependencies only.
* Two cron runners may both claim a minute when one stalls between its clock and its claim
  (`scheduler_repository.py:122`).

Sessions:

* Replacing an instance and changing the task are two transactions (`switch_provider`,
  `task_service.py:752`, and grants). A caller that stops between them leaves a binding whose
  provider is not that of the task: `ensure_for_task` keeps an instance of the same specification
  and `require_dispatchable` refuses it, until an amendment. The first of the two looks at
  no status, so the job of a task that runs may become stale, and its reports are refused.
* Neither of them forgets the external session in `task_sessions`, and the worker of the role
  follows by `worker_id` only, which a fault or recovery has cleared: a job of the new provider may
  be started with the session that the old one opened.
* `finalize_host_fault` writes the session that the job reported to `task_sessions` and to the
  worker, of whatever generation it is. `src/docs/ARCHITECTURE.md:62` says that the job of an old
  generation cannot restore its session after a rotation.

Episodes:

* The first process of a new specification starts in the still active episode of the old one
  (`host_job_repository.py:759`), and with its wall clock and deadline; the comment at line 751
  speaks of a revision that authorizes more time.
* `ReadyMayStart` with `CrashInFinish`: a control plane that dies between finish and
  consume leaves the episode of the finished run active. If the verdict was a retry and the
  episode is full, the new attempts are refused at prepare until there are none left.
* A process may be refused although its task was made ready: by a suspension that was the
  fourth step of the ladder (the outage ends, the circuit stays open), by a
  continue-once after an open circuit, by a missing evidence baseline at the last step.
  The attempt is spent without a process (`execution_episode.py:113`), and so are those that
  the bridge refuses (`task_service.py:118`). A new specification after a terminated
  episode continues its ladder. A crash between the observation of a fault
  and its settlement counts the fault twice. A hold restarts the deadline of
  reconciliation (`host_job_repository.py:647`).

Goals, by a name in `Parts`:

* "escalate_candidate": an escalated candidate is paused whoever runs on top of it.
* "no_attempts": an item that is made ready without attempts is claimed by nobody, and its
  goal stays running.
* "again_exhausted": the event of an exhausted replan has the key
  `goal-replan-exhausted:{task}` and not one per revision, so its second writing violates UNIQUE and
  every later advance fails; `src/docs/WEB_V2_DESIGN.zh-CN.md:462` counts replans per goal.
* `operator_resume` sets `manual_override`, and the next advance pauses the item again, until
  somebody resumes it otherwise (`goal_repository.py:627`). `GoalSettles` therefore excludes goals with
  an overridden item. `src/docs/SYSTEM_FLOW.md:76` has it run.
* Items do start out of order. Between a step that reopens an item and the next advance, an item that
  waits for it may be claimed, and in a serial chain of three the first lane may be amended while the
  third runs, as `_replace_spec` refuses only for running direct dependents
  (`task_repository.py:1834`); `advance` gates an item by the statuses it has read
  (`goal_repository.py:421`), before the same transaction withdraws what that item depends on
  (`goal_repository.py:583`). So a verification may start before amended work has passed again, and a
  goal may be completed in the transaction that withdraws the completion of one of its lanes, since a
  valid verification vouches for the lanes it covers. `src/docs/SYSTEM_FLOW.md:36` has
  a goal complete on a new, independent verification only. What holds for every plan is that the
  verdict which completes a goal has evidence no older than that of anything it is about
  (`VerdictNotOlder`).
* A replan leaves a pending checkpoint of the older specification in place
  (`goal_repository.py:508`); the next run resumes it, and its evidence is refused
  (`EvidenceRefused`).

Butler:

* A stale hand-over creates a goal before `mark_dispatched` refuses it, and the goal of a key is made
  once (`goal_repository.py:114`). The automatic path and the confirmation have a key each
  (`GoalKey`), so that a conversation may create two goals; and a hand-over of version 3 may find, and record,
  the goal that was made of version 2, whose mark was refused or lost.
  `src/docs/BUTLER_ARCHITECTURE.md:54` has an older confirmation lapse with every revision, and 57 no goal
  made before the confirmation.
  `DispatchStands` says what holds: who marks has read the present proposal, and the goal was made of it
  or of an earlier one, never of later words.
* `suspend_planner` has no look at the status: a late failure suspends a dispatched conversation.
  What was handed over stays.
* A provider that answers in another session is refused by `bind_provider_session` for ever.
* `ProposalDispatches` names four cases that get through the contract and that `plan_goal` refuses at
  every hand-over: six lanes without a verification, or one that is not last; words that ask for a file when
  none is declared (a proposal that keeps the acceptance of the draft before it, or an answer to a
  field, `orchestration.py:63`); a file declared before, which no item of a proposal without
  that key produces (`butler_repository.py:698`); and the files of a draft that an owner structured,
  as every default lane, its verification too, is given all of them: such a draft with artifacts and no
  items of its own can never become a goal.
* `UsageCovered` is a lower bound. A call that fails without a report sets the counter of its session to
  zero, and the next one is charged from there: the ledger may charge too much.
* A retry after a crash that hit between settling and writing is answered "duplicate", and the
  answer is lost; two requests with one key at a time both call the model.

Resilience:

* `SuspensionEnds` asks for the network a task requires. `resume_suspended` looks at the
  requirement of the task, by default none, and not at the zone of its provider: a task that was
  suspended because of its zone is resumed by the next tick and suspended again, as long
  as the zone is down (`resilience_repository.py:304`).
* With `Torn`, a crash in a half-open probe leaves the circuit half open for ever: nobody may
  reserve again. So does `ProviderSuccesses` above 1, as the success that does not close the
  circuit leaves it half open.
* With `Batch` below the number of suspended tasks, those that cannot resume keep the places of those that
  can; `SuspensionEnds` has the premise that the batch is not smaller than the number of tasks.
* A late success of an older probe closes an open circuit. The incident of a disabled provider
  is not resolved: it is not probed. A task that was claimed since the tick listed it as
  ready may be suspended while it runs.

**Why these bounds are enough.** Every property is about pairs: two tasks over a lock,
an old and a new run, two requests, two tickers, two threads. Two of each, with the third task in
`store` to separate "worker" from "resource", and four tickers in `lease_ticks`, of which two share a
name and one overruns, show the pairs. Two runs per task
let an old run meet a new one; two specs let an amendment happen between (`service` has one, as
its state is that of `store` times all places of the threads; it also passes with two, in
3.2 million states, and the theorems cover any number); two crashes of the bridge
let a crash hit what the first one left. The service runs have one crash or outage, as
each one adds all places of all threads to the state.
`service_run_ends` has two tasks because one may block the other; its constraints (`MCTaskService`) keep the
second one to what can: it was stopped and settled by the host while the first runs (`StoppedBeside`),
only the first has a second run and trouble comes before that (`FewRuns`), and operators neither pause
nor cancel what has not run (`Unattended`). They cut claims, operators and faults only, never a
step that fairness asks for, so no lasso is lost within them.
The ladder has four steps, so `MaxEpisodes` is 5: a whole ladder and the first episode
after it, where an ignored circuit, a restarted clock or an old episode would show; a deadline of 2
and a wall clock, extension and idle time of 1 let each be the one that ends an episode; two
equal faults tell the watchdog's count from prepare's. The run has one process per episode;
the theorems about episodes cover any number.
The requests of `goal_runs` are all structured plans of up to three items over four roles,
some of five and six, and sizes on both sides of every class; two lanes and their verification are
the smallest goal with a chain, and two failures and two acts let one undo what
the other did. Three revisions of a conversation are a request, a proposal and a
turn between them; `butler_turns` needs a fourth. A provider that flips twice
fails and comes back; its threshold of two failures tells one from several, and the zone's two
successes do the same.
What is proved (section 4) needs no bounds at all.

The bounds that appear in guards are `MaxRuns`, `MaxSpec` (`TaskStore`), `MaxSpec`, `MaxGen`
(`Sessions`), `MaxCrashes`
(`HostBridge`), `MaxTrouble` (`TaskService`, `Goals`), `MaxMinute`, `MaxFence` and `MaxCrashes`
(`SchedulerLease`, where `Rest` stutters once a bound is reached), `MaxSpec`, `MaxEpisodes`
and `MaxUpsets` (`ExecutionEpisode`), `MaxActs` (`Goals`), `MaxRev`, `MaxRequests`, `MaxFaults`
and `MaxCount` (`Butler`), `MaxFlips` and `MaxOps` (`Resilience`).

**Fairness.** `BridgeFairness`: threads that can run do run; launchd has KeepAlive, so a
bridge that died starts again (`src/scripts/plow_whip_ops.py:901`); a process that got
SIGKILL ends; the control plane polls as long as the job is open. Nobody has to cancel.
`ServiceFairness`: cron starts ticks and `compose.yaml` restarts the container;
drivers and the second half of a cancellation run; a process ends, because `_monitor`
kills it at its timeout (`host_bridge.py:398`); leases expire; outages end.
`GiveUp` is strongly fair: the deadline, once passed, stays passed, so a job that is
unknown again and again is given up. The flip-flop of `hold` and `record` that restarts the
deadline is listed as a hazard and excluded by that assumption.

`Fairness` of `ExecutionEpisode`: time passes, drivers and ticks run, every open job has its
turn, leases expire, and outages end, so that a cancellation that is tried again and
again reaches the host. Nothing is assumed of the processes: one that never ends
and shows progress for ever is the case `LadderEnds` is about.

`GoalFairness`: ticks advance the goal and claim what is ready, a run ends, a
suspension ends, a stopped process goes, as long as no tick raises for ever (`Ticks` guards all of
these); what they mean in detail is `RunEnds` and `SuspensionEnds`. `ResilienceFairSpec`: ticks come again
and again, threads go on, cool-downs pass.
Nothing is assumed of the world or of people. The Butler has no liveness
property: what its people and models do is not the code's.

## 4. Proofs

All theorems hold for every value of the constants that the named assumptions allow,
for any number of tasks, threads and crashes.

| Theorem | Says | Argument |
|---|---|---|
| `TypeCorrect` | `StoreSpec => []TypeOK` | inductive as it stands; one lemma says what every step does to runs (`RunStep`) or only to an idle status (`MovesToIdle`), which halves the cases |
| `ResourcesExclusive` | `[]ResourceExclusion` | a lease row appears only in a claim (`LeasedByClaim`), which removed the expired rows of the resource and found no live one |
| `WorkersServeOne` | `[]WorkerServesOne` | a task becomes active only by a claim (`ActivatedByClaim`), and a worker is freed only with the task it serves |
| `CheckpointsResumedOnce` | `[]ResumedOnce` | a checkpoint is written only by steps that end the run |
| `ParallelismBounded` | `[]InFlightBound` | only a claim adds to the tasks in flight (`InFlightByClaim`), and by one task |
| `TerminalsStay` | `StoreSpec => TerminalUnlessOverridden` | step by step from `TypeOK`: of the steps that move a terminal task, all but escalation, late suspension and a withdrawn completion raise its specification revision; `advance` moves no active task and withdraws only what has evidence and depends on something (`AdvanceActs`) |
| `ServiceTypeCorrect` | `ServiceSpec => []ServiceTypeOK` | `Typed`: the attempts and runs that threads and jobs name exist |
| `LiveRunHasRow` | `[]LiveHasRow`, if no reconciliation is given up | `RowsInv`: a run that the host may still start, or runs, has a row until it is told to stop (`RunOK`), and what the reconciler heard of the host is still so or has become final (`RcHost`) |
| `OneProcessPerTask`, `CancellationConfirmed` | `[]OneWorking`, `CancelConfirmed`, under `Calm` | `CalmInv`: an active task has one open job, of its latest run, or a driver with a live lease that has claimed that run and not prepared its job, or neither; and the reconciler's jobs are unconsumed or their processes gone. Who consumes a job has seen its process end |
| `ServiceImplementsStore` | `ServiceSpec => UsesStore`, that is `StoreSpec`, under `Calm` | every step of a thread is a step of the store or leaves it; `CalmInv` makes the run that a tick settles the active one, which is what the guards of `StoreSpec` ask for |
| `ServiceKeepsStore` | so `ResourceExclusion`, `WorkerServesOne`, `ResumedOnce` and `InFlightBound` of `ServiceSpec` | from the refinement and the theorems about the store |
| `SessionsTyped`, `BindingsFollow`, `SessionsStayOwned`, `StaleForEver` | types; a binding has the generation of its session; no job resumes, and no row of a task keeps, another task's session; a job that has fallen behind stays behind | `SessionInv`: the next generation is counted from the binding, which agrees with the session, so generations grow and no job is ahead of its task (`JobNotAhead`) |
| `BridgeTypeCorrect`, `OneProcessStarted` | types; at most one process | `Marked`: one start thread is past the marker, and only it makes a record open without a pid |
| `FinalIsGone` | `Reliable => []FinalMeansGone` | `Known`: if ps answers and no crash hits the spawn, a living process is known by its identity or by the thread that started it |
| `CancellationsKept` | `BridgeSpec => CancelKept`, whatever fails | `Marked`: who writes a fresh record has found none with a pid |
| `VerdictsStay` | `Reliable => VerdictStays`, with slow kills and crashes during cancellations | `Served`: a monitor and the thread that settles an orphan's cancellation never serve one record together, and with `Known` two of the latter agree |
| `BridgeKeepsPromise` | `Reliable => (BridgeSpec => HostJob)` | every step is one of the four steps of `HostJob` or a stutter, under `Marked` and `Known` |
| `LeaseTypeCorrect`, `NewestIsFenced`, `ReportsAdvance` | types; older ticks neither cut the newest lease short nor overwrite its report | `Fenced`: a token is given out once and never exceeds the one in the row |
| `OneTickAtOnce` | `LeaseSpec => []OneTick`, for any owner names | `Holds`: a timely ticker that ticks and has its owner name to itself owns a lease that has not ended, with its token |
| `SlotsClaimedOnce` | `OneRunner => SlotsAdvance` | `SlotPassed`: a minute that the cron thread found due has come, and no later one has been claimed. `OneRunner` is one cron thread: with two, one may claim a minute that the other has passed |
| `OnlyLatestActive`, `DeadlineIsInherited` | `Spec => []OneActive`, `Spec => []DeadlineInherited` | `EpisodeInv`: the two together, with `WithinDeadline`. A new episode gets the least deadline of its specification, which is everybody's (`FirstIsShared`), and no update touches an episode that is not active (`RowsKept`), so nothing has to be known of jobs and threads |
| `EpisodeTypeCorrect` | `Spec => []EpisodeTypeOK` | needs `EpisodeInv`: only because a fresh episode inherits its deadline does it stay within that of a specification |
| `ReadyTaskMayStart` | `~CrashInFinish => []ReadyMayStart` | `StartInv`: whoever works on the task is one job (`OneJob`); an active episode without room is that of a job that is open, or whose verdict was just recorded (`FullInUse`); and a job that is settled without a termination leaves room (`SettledHasRoom`), as the watchdog would have bounded it |
| `SpecificationCostBounded` | `~CrashInFinish => []SpendBounded` | `LadderInv`: of two episodes of a specification the later stands on a higher rung, or one was completed from the earlier one on (`Climbs`); and the completed episodes, one about to be completed and one that is worked on never exceed the attempts used (`Paid`). So the number of completed episodes before it, its rung and the number in it tell a process from all others: an injection into `MaxAttempts` times 4 times `MaxProcesses` |
| `PlansAreSound` | `GoalSpec => []PlansSound` | `PlanInv`: the plan is what `plan_goal` made of the request, for good; the rest is lemmas about its operators (`GoalPlanProofs`): the serial order keeps the lanes valid, the verification depends on all that is built, a share never exceeds the whole |
| `VerdictsAreNotOlder` | `GoalSpec => VerdictNotOlder` | a goal is completed only if every lane is proven or vouched for by a proven verification, the plan ends in a verification that depends on all lanes (`PlanInv`), and what is proven is no older than what it depends on (`Stands`) |
| `GoalTypeCorrect`, `ReplansBounded` | `[]GoalTypeOK`, `[]ReplanBudget` | `GoalInv`: a row has an attempt just while it runs (`RowOK`), through all of `advance`; and `Budgeted`: a specification number is paid for by an operator's act or the replan that is marked in the row |
| `ResilienceTypeCorrect`, `OneProbeAtATime` | types; one reserved probe per provider | `ReservedBars`: who holds a reserved probe keeps the circuit from being reserved again, be it half open, closed or cooling down by then |
| `LedgerTypeCorrect`, `UsageIsCovered`, `ReceiptsSettleOnce` | types; sessions are charged what they report; a receipt is settled once | `SnapshotCovered`: a session is charged at least its last counter, and its largest report |
| `ButlerUsesLedger` | `ButlerSpec => LedgerSpec` | every step of the Butler is a step of the ledger or leaves it; `ButlerInv` (rows have their shape, callers a key) makes the calls well-formed |
| `ButlerIsCharged` | `ButlerSpec => []UsageCovered` | from the two above |
| `DispatchesStand` | `ButlerSpec => DispatchStands` | `ReadAt`: who has read the present revision has read its turns and its draft, as every writer raises the revision; `MadeInv`: the goal of a key exists once its maker goes on to the mark, and was made of a version that is not newer than the conversation |
| `AnswersFollowMessages` | `ButlerSpec => []AnswersInOrder` | `LogInv`: the log is as long as its revision says, and a thread that waits with an answer for the present revision was the last to say something (`AskedLast`) |
| `ProposalsDispatch` | `ButlerSpec => []ProposalDispatches`, for owners and models as below | `DraftsInv`: whatever was written to the draft `Makes` a plan if the checks of the confirmation pass, because every item of a proposal met the contract, the merge keeps the items, and every default of `Normalized` is a plan that `validate_goal_plan` accepts |

**What the theorems assume.** Of the constants: `StoreAssumption` (finite tasks, total functions),
`PartsAssumption`, `BridgeAssumption`, `LeaseAssumption`, `EpisodeAssumption`, those of
`Resilience`, `ModelCalls` and `Butler`, `GoalAssumption` (bounds are numbers, at least one attempt),
and `RequestAssumption`: sizes are not negative
(`api/schemas.py:61-73`), an execution policy allows two to six milestones
(`execution_policy.py:43`), and roles, kinds and dependencies are names and numbers. The
rest are hypotheses of the theorems that need them, each with the instance that breaks the
property without it in section 3:

* `Reliable` (bridge): ps answers, and no crash hits the spawn.
* `OneRunner` (lease): one cron thread.
* `Calm` (service): no driver stalls beyond its lease, no reconciliation is given up, the control
  plane does not die between the end of a run and the consumption of its job, no task is in
  `Overridable`. Crashes anywhere else, outages, lost replies, late ticks, suspensions and
  watchdogs are all in.
* `~CrashInFinish` (episodes): the same crash. `SpendBounded` was found to hold with it on a small
  instance (5.9 million states) too, but the argument above does not cover it: then an attempt is
  completed twice, or not at all.
* `ProposalsDispatch`: an owner who gives sizing inputs gives gates and structure as well, and a plan
  of their own, which nobody looks at before the goal is made, is valid; a model's reply is
  structured; the policy of the project allows six milestones.

SQLite's immediate transactions are taken as atomic, `self._lock` as a lock.

**Only model-checked.** Liveness under fairness (`JobSettles`, `RunEnds`, `LadderEnds`, `GoalSettles`,
`CircuitHeals`, `SuspensionEnds`), which is outside the prover's reach, like ENABLED. Every other
property of a passing run is a theorem.
`BindingFollows`, `SessionsOwned` and `StaleStaysStale` are proved only, and no run lists them.

## 5. Not modelled

Text work (context, rules, prompts, the estimate of a size from words), HTTP wiring and validation, the
web interface, operator scripts, migrations and backups have no protocol to check: they
are sequential, or pure I/O. Projects, permissions, audit and outbox are single transactions that
no other actor waits for. Inside the modelled parts, left out: the local
command path of `drive`, the ledger of worker runs, token burn rates, the parser of cron expressions, output
segments and artifact actions of the bridge, deletion of tasks, bundles of evidence, calibration
from history, the router's own receipt.

## 6. Plan

1. For goals, an order of starts that does hold, under the premise that nobody amends or continues an
   item whose indirect dependents run.
2. The local path of `drive` in `TaskService`; two reconcilers, by composing it with
   `SchedulerLease`; `Sessions` composed with `TaskService`, so that a refused report ends a tick.
3. `SpendBounded` with a crash between finish and consume.
4. Settings precedence, cron expressions and the reduction of checks to a verdict, as operators checked
   against definitions; the routing of worker help.
