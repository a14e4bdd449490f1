------------------------------ MODULE TaskStore ------------------------------
(***************************************************************************)
(* The task tables of the control plane: tasks, attempts, runs, worker and *)
(* resource leases, recovery checkpoints and the unconsumed rows of        *)
(* host_jobs.  Every write of the repositories is one BEGIN IMMEDIATE      *)
(* transaction of SQLite, so every operation below is one atomic action.   *)
(*                                                                         *)
(* StoreSpec lets the transactions happen in any order the guards of the   *)
(* repositories admit, whoever calls them; TaskService says which threads  *)
(* call them when, and refines StoreSpec.                                  *)
(*                                                                         *)
(* What is abstracted.                                                     *)
(*  - A lease is "live" or "expired", and time is the action Expire.  The  *)
(*    rows of task_leases and resource_locks of a task are written,        *)
(*    renewed, expired and deleted together, so one variable holds both.   *)
(*  - expected_revision: an operation whose caller read an older revision  *)
(*    changes nothing, and is not a step.  TaskService models the callers  *)
(*    that keep a revision across steps.                                   *)
(*  - The content of specifications, results and events.  Every task is    *)
(*    bound to a project and a role, and each role has one worker.         *)
(***************************************************************************)
EXTENDS Integers, FiniteSets, Sequences

CONSTANTS
  Tasks,          \* the task ids
  Roles,          \* the (project, role) pairs: one worker each
  Resources,      \* the resource keys
  NoTask,         \* what a worker that is idle works on
  RoleOf,         \* RoleOf[t]: the role of task t
  ResourceOf,     \* ResourceOf[t]: the resource key of task t
  DependsOn,      \* DependsOn[t]: the tasks that t depends on
  Items,          \* the work items of Goals
  Candidates,     \* those of them that implement
  Overridable,    \* tasks that escalate, or a suspend_task that lost a race,
                  \* may take out of whatever status they have
  MaxAttempts,    \* attempt budget of a specification
  MaxSameFailure, \* repeated failures that are retried
  MaxParallel,    \* max_parallel_workers
  MaxRuns,        \* bound of the model: claims of one task
  MaxSpec         \* bound of the model: specification revisions of one task

ASSUME StoreAssumption ==
  /\ IsFiniteSet(Tasks) /\ NoTask \notin Tasks
  /\ RoleOf \in [Tasks -> Roles]
  /\ ResourceOf \in [Tasks -> Resources]
  /\ DependsOn \in [Tasks -> SUBSET Tasks]
  /\ Candidates \subseteq Items /\ Items \subseteq Tasks
  /\ Overridable \subseteq Tasks
  /\ MaxAttempts \in Nat /\ MaxSameFailure \in Nat /\ MaxParallel \in Nat
  /\ MaxRuns \in Nat \ {0} /\ MaxSpec \in Nat \ {0}

VARIABLES
  status,      \* tasks.status
  spec,        \* tasks.current_spec_revision
  attempts,    \* tasks.attempts_used
  failures,    \* tasks.same_failure_count
  proven,      \* last_evidence_hash names a passing manifest of the current spec
  attemptSpec, \* attemptSpec[t][a]: spec revision that attempt a was made for
  run,         \* the number of runs of t
  checkpoint,  \* the attempt its pending recovery checkpoint resumes, or 0
  lease,       \* the row of task_leases and of resource_locks
  worker,      \* the task each role's worker is busy with
  jobs         \* the unconsumed rows of host_jobs

taskVars  == <<status, spec, attempts, failures, proven>>
storeVars == <<taskVars, attemptSpec, run, checkpoint, lease, worker, jobs>>

Active    == {"running", "verifying", "stopping"}
Suspended == {"network_suspended", "provider_suspended"}
Done      == {"completed", "terminal_failed", "cancelled"}
Status    == Active \cup Suspended \cup Done
               \cup {"ready", "candidate_ready", "needs_human", "paused"}

Job == [task : Tasks, run : 1..MaxRuns, attempt : 1..MaxRuns, spec : 1..MaxSpec]

-----------------------------------------------------------------------------
(* Reading the tables.                                                     *)

HasJob(t) == \E j \in jobs : j.task = t

InFlight == {t \in Tasks : status[t] \in Active \/ HasJob(t)}

DependenciesSatisfied(t) ==
  \A d \in DependsOn[t] : status[d] = "completed" /\ proven[d]

ActiveDependent(t) == \E d \in Tasks : t \in DependsOn[d] /\ status[d] \in Active

ReadyOrBlocked(t) == IF DependenciesSatisfied(t) THEN "ready" ELSE "paused"

(* What claim() needs beyond a ready task: an attempt or a checkpoint, a   *)
(* free slot, the role's worker idle and the resource unlocked.            *)
ClaimAcrossLocks(t) ==          \* a mutant of CanClaim: no look at resource_locks
  /\ status[t] = "ready"
  /\ checkpoint[t] # 0 \/ attempts[t] < MaxAttempts
  /\ Cardinality(InFlight) < MaxParallel
  /\ worker[RoleOf[t]] = NoTask
  /\ lease[t] # "live"

ClaimOfBusyWorker(t) ==         \* a mutant of CanClaim: any worker will do
  /\ status[t] = "ready"
  /\ checkpoint[t] # 0 \/ attempts[t] < MaxAttempts
  /\ Cardinality(InFlight) < MaxParallel
  /\ \A u \in Tasks : lease[u] = "live" => ResourceOf[u] # ResourceOf[t]

ClaimCountingStatuses(t) ==     \* a mutant of CanClaim: no UNION with host_jobs
  /\ status[t] = "ready"
  /\ checkpoint[t] # 0 \/ attempts[t] < MaxAttempts
  /\ Cardinality({u \in Tasks : status[u] \in Active}) < MaxParallel
  /\ worker[RoleOf[t]] = NoTask
  /\ \A u \in Tasks : lease[u] = "live" => ResourceOf[u] # ResourceOf[t]

CanClaim(t) ==
  /\ status[t] = "ready"
  /\ checkpoint[t] # 0 \/ attempts[t] < MaxAttempts
  /\ Cardinality(InFlight) < MaxParallel
  /\ worker[RoleOf[t]] = NoTask
  /\ \A u \in Tasks : lease[u] = "live" => ResourceOf[u] # ResourceOf[t]

StaleLate ==                    \* a mutant of Stale: only once the work is verified
  {t \in Tasks : status[t] \in Active \ {"running"} /\ lease[t] # "live" /\ ~HasJob(t)}

(* The tasks generic recovery takes: active, without a lease that is good, *)
(* and without a Host Job whose fate is not settled.                       *)
Stale == {t \in Tasks : status[t] \in Active /\ lease[t] # "live" /\ ~HasJob(t)}

-----------------------------------------------------------------------------
(* Parts of transactions.                                                  *)

SetStatus(t, s) == status' = [status EXCEPT ![t] = s]

(* _release_worker_and_lock, for the worker that works on t.               *)
Release(t) ==
  /\ lease' = [lease EXCEPT ![t] = "none"]
  /\ worker' = [r \in Roles |-> IF worker[r] = t THEN NoTask ELSE worker[r]]

CheckpointKept(t) == checkpoint         \* a mutant of Consumed: it stays pending
Consumed(t)       == [checkpoint EXCEPT ![t] = 0]

KeepHistory == UNCHANGED <<attemptSpec, run, checkpoint>>
KeepHolds   == UNCHANGED <<lease, worker, jobs>>

-----------------------------------------------------------------------------
(* Dispatch.                                                               *)

Claim(t) ==
  /\ CanClaim(t)
  /\ run[t] < MaxRuns
  /\ SetStatus(t, "running")
  /\ attempts' = [attempts EXCEPT ![t] = IF checkpoint[t] = 0 THEN @ + 1 ELSE @]
  /\ attemptSpec' = [attemptSpec EXCEPT ![t] =
                       IF checkpoint[t] = 0 THEN Append(@, spec[t]) ELSE @]
  /\ run' = [run EXCEPT ![t] = @ + 1]
  /\ checkpoint' = Consumed(t)
  /\ lease' = [u \in Tasks |-> IF u = t THEN "live"
                               ELSE IF lease[u] = "expired" THEN "none" ELSE lease[u]]
  /\ worker' = [worker EXCEPT ![RoleOf[t]] = t]
  /\ UNCHANGED <<spec, failures, proven, jobs>>

(* The attempt and run a claim made are bound to the current specification. *)
Bound(t, a) == attemptSpec[t][a] = spec[t]

(* HostJobRepository.prepare for run n of attempt a: it does not look at   *)
(* the status of the task or at its lease.                                 *)
Prepare(t, a, n) ==
  /\ Bound(t, a)
  /\ \A j \in jobs : ~(j.task = t /\ j.attempt = a)
  /\ jobs' = jobs \cup {[task |-> t, run |-> n, attempt |-> a, spec |-> spec[t]]}
  /\ UNCHANGED <<taskVars, lease, worker>>
  /\ KeepHistory

PreDispatchFault(t) ==
  /\ status[t] = "running"
  /\ SetStatus(t, "needs_human")
  /\ Release(t)
  /\ UNCHANGED <<spec, attempts, failures, proven, jobs>>
  /\ KeepHistory

-----------------------------------------------------------------------------
(* The end of a run.                                                       *)

MarkVerifying(t) ==
  /\ status[t] = "running"
  /\ SetStatus(t, "verifying")
  /\ UNCHANGED <<spec, attempts, failures, proven>>
  /\ KeepHistory
  /\ KeepHolds

FinishAsFailed(t, passed, count) ==     \* a mutant of FinishTarget: another name
  IF passed THEN IF t \in Candidates THEN "candidate_ready" ELSE "completed"
  ELSE IF attempts[t] < MaxAttempts /\ count <= MaxSameFailure THEN "ready"
  ELSE "failed"

FinishTarget(t, passed, count) ==
  IF passed THEN IF t \in Candidates THEN "candidate_ready" ELSE "completed"
  ELSE IF attempts[t] < MaxAttempts /\ count <= MaxSameFailure THEN "ready"
  ELSE "terminal_failed"

(* finish() with the manifest of attempt a; again: the failure fingerprint *)
(* is that of the failure before.                                          *)
Finish(t, a, passed, again) ==
  LET count == IF passed THEN 0 ELSE IF again THEN failures[t] + 1 ELSE 1
  IN /\ status[t] = "verifying"
     /\ Bound(t, a)
     /\ again => failures[t] > 0
     /\ SetStatus(t, FinishTarget(t, passed, count))
     /\ failures' = [failures EXCEPT ![t] = count]
     /\ proven' = [proven EXCEPT ![t] = passed]
     /\ Release(t)
     /\ UNCHANGED <<spec, attempts, jobs>>
     /\ KeepHistory

Consume(j) ==
  /\ j \in jobs
  /\ jobs' = jobs \ {j}
  /\ UNCHANGED <<taskVars, lease, worker>>
  /\ KeepHistory

FaultTarget == [defer |-> "ready", resume |-> "ready", needs_human |-> "needs_human",
                network_suspended |-> "network_suspended",
                provider_suspended |-> "provider_suspended"]

(* finalize_host_fault: it settles whatever run the task has, for job j,   *)
(* and frees the worker of the task without asking what it works on.       *)
HostFault(j, action) ==
  LET t == j.task
  IN /\ j \in jobs
     /\ status[t] \in {"running", "verifying"}
     /\ SetStatus(t, FaultTarget[action])
     /\ lease' = [lease EXCEPT ![t] = "none"]
     /\ worker' = [worker EXCEPT ![RoleOf[t]] = NoTask]
     /\ checkpoint' = [checkpoint EXCEPT ![t] = j.attempt]
     /\ jobs' = jobs \ {j}
     /\ UNCHANGED <<spec, attempts, failures, proven, attemptSpec, run>>

RequestCancel(t) ==
  /\ status[t] \in {"running", "verifying"}
  /\ SetStatus(t, "stopping")
  /\ UNCHANGED <<spec, attempts, failures, proven>>
  /\ KeepHistory
  /\ KeepHolds

FinalizeCancel(t) ==
  /\ status[t] = "stopping"
  /\ SetStatus(t, "cancelled")
  /\ Release(t)
  /\ UNCHANGED <<spec, attempts, failures, proven, jobs>>
  /\ KeepHistory

(* RecoveryService.reconcile, one transaction over all tasks and workers.  *)
Recover ==
  LET settled == [t \in Tasks |->
        IF t \in Stale
        THEN IF attempts[t] < MaxAttempts THEN "ready" ELSE "needs_human"
        ELSE status[t]]
  IN /\ status' = settled
     /\ lease' = [t \in Tasks |-> IF t \in Stale THEN "none" ELSE lease[t]]
     /\ worker' = [r \in Roles |->
          IF worker[r] \in Tasks /\ settled[worker[r]] \in Active
          THEN worker[r] ELSE NoTask]
     /\ UNCHANGED <<spec, attempts, failures, proven, jobs>>
     /\ KeepHistory

(* GoalRepository.advance, one transaction over the items of all Goals.     *)
(* Which of them it moves is left open here: it depends on the order of     *)
(* evidence, on pauses of operators and on the verdict (see module Goals).  *)
Replans(t, s) ==
  status[t] = "needs_human" /\ spec[t] < MaxSpec /\ s \in {"ready", "paused", "cancelled"}

Exhausts(t, s) == status[t] = "needs_human" /\ spec[t] > 1 /\ s = "terminal_failed"

Invalidates(t, s) ==
  /\ status[t] \in {"completed", "candidate_ready"} /\ proven[t]
  /\ DependsOn[t] # {} /\ s \in {"paused", "cancelled"}

Gates(t, s) == status[t] \in {"ready", "paused"} /\ s \in {"ready", "paused", "cancelled"}

DependenciesDone(t) ==
  \A d \in DependsOn[t] : status[d] \in {"completed", "candidate_ready"}

AdvanceItems(moved, to) ==
  LET replanned == {t \in moved : Replans(t, to[t])}
      reset     == replanned \cup {t \in moved : Invalidates(t, to[t])}
  IN /\ \A t \in moved :
          /\ \/ Replans(t, to[t]) \/ Exhausts(t, to[t])
             \/ Invalidates(t, to[t]) \/ Gates(t, to[t])
          /\ to[t] = "ready" => DependenciesDone(t)
     /\ status' = [t \in Tasks |-> IF t \in moved THEN to[t] ELSE status[t]]
     /\ spec' = [t \in Tasks |-> IF t \in replanned THEN spec[t] + 1 ELSE spec[t]]
     /\ attempts' = [t \in Tasks |-> IF t \in reset THEN 0 ELSE attempts[t]]
     /\ failures' = [t \in Tasks |-> IF t \in replanned THEN 0 ELSE failures[t]]
     /\ proven' = [t \in Tasks |-> proven[t] /\ t \notin reset]
     /\ KeepHistory
     /\ KeepHolds

Advance ==
  \E moved \in SUBSET Items :
    \E to \in [moved -> {"ready", "paused", "terminal_failed", "cancelled"}] :
      AdvanceItems(moved, to)

-----------------------------------------------------------------------------
(* Operators and suspension: each moves a status between sets.             *)

Move(t, from, to) ==
  /\ status[t] \in from
  /\ SetStatus(t, to)
  /\ UNCHANGED <<spec, attempts, failures, proven>>
  /\ KeepHistory
  /\ KeepHolds

Pause(t)      == Move(t, {"ready", "needs_human"}, "paused")
Resume(t)     == Move(t, {"paused", "needs_human"}, ReadyOrBlocked(t))
AskHuman(t)   == Move(t, {"ready", "paused"}, "needs_human")
CancelAnyIdle(t) == Move(t, Status \ Active, "cancelled")  \* a mutant of CancelIdle
CancelIdle(t) == Move(t, {"ready", "paused", "needs_human"} \cup Suspended, "cancelled")

(* control(retry | restart) and amend_spec: a new specification revision.  *)
ReplaceSpec(t) ==
  /\ status[t] \notin Active
  /\ ~ActiveDependent(t)
  /\ spec[t] < MaxSpec
  /\ SetStatus(t, ReadyOrBlocked(t))
  /\ spec' = [spec EXCEPT ![t] = @ + 1]
  /\ attempts' = [attempts EXCEPT ![t] = 0]
  /\ failures' = [failures EXCEPT ![t] = 0]
  /\ proven' = [proven EXCEPT ![t] = FALSE]
  /\ checkpoint' = Consumed(t)
  /\ UNCHANGED <<attemptSpec, run>>
  /\ KeepHolds

(* suspend_task has no expected_revision: the scheduler read a ready task, *)
(* and by now it may run.                                                  *)
Suspend(t, kind) ==
  /\ t \in Overridable \/ status[t] = "ready"
  /\ Move(t, {"ready", "running", "verifying"}, kind)

ResumeSuspended(t) == Move(t, Suspended, "ready")
OperatorResume(t)  == Move(t, {"needs_human", "paused"} \cup Suspended, "ready")
SwitchProvider(t)  == Move(t, {"ready", "needs_human"} \cup Suspended, "ready")

(* WorkerHelpRepository.escalate: it refuses 'completed', 'cancelled' and a *)
(* status 'failed' that no task has.                                       *)
Escalate(t) ==
  /\ t \in Overridable
  /\ Move(t, Status \ {"completed", "cancelled"}, "paused")

-----------------------------------------------------------------------------
(* Time, and the renewal of a lease that still exists.                     *)

Expire(t) ==
  /\ lease[t] = "live"
  /\ lease' = [lease EXCEPT ![t] = "expired"]
  /\ UNCHANGED <<taskVars, worker, jobs>>
  /\ KeepHistory

Renew(t) ==
  /\ lease[t] # "none"
  /\ lease' = [lease EXCEPT ![t] = "live"]
  /\ UNCHANGED <<taskVars, worker, jobs>>
  /\ KeepHistory

-----------------------------------------------------------------------------
StoreInit ==
  /\ status = [t \in Tasks |-> IF DependsOn[t] = {} THEN "ready" ELSE "paused"]
  /\ spec = [t \in Tasks |-> 1]
  /\ attempts = [t \in Tasks |-> 0]
  /\ failures = [t \in Tasks |-> 0]
  /\ proven = [t \in Tasks |-> FALSE]
  /\ attemptSpec = [t \in Tasks |-> <<>>]
  /\ run = [t \in Tasks |-> 0]
  /\ checkpoint = [t \in Tasks |-> 0]
  /\ lease = [t \in Tasks |-> "none"]
  /\ worker = [r \in Roles |-> NoTask]
  /\ jobs = {}

(* A driver prepares the Host Job of the run it has just claimed, while    *)
(* the task is still active (it may be stopping by now): StoreSpec assumes *)
(* that no driver stalls for longer than its lease (TaskService has the    *)
(* runs without that assumption).                                          *)
PrepareByHolder(t) ==
  /\ status[t] \in Active
  /\ \E a \in 1..Len(attemptSpec[t]) : Prepare(t, a, run[t])

StoreNext ==
  \/ \E t \in Tasks :
       \/ Claim(t) \/ PrepareByHolder(t) \/ PreDispatchFault(t)
       \/ MarkVerifying(t) \/ RequestCancel(t) \/ FinalizeCancel(t)
       \/ \E a \in 1..Len(attemptSpec[t]), passed, again \in BOOLEAN :
            Finish(t, a, passed, again)
       \/ Pause(t) \/ Resume(t) \/ AskHuman(t) \/ CancelIdle(t) \/ ReplaceSpec(t)
       \/ \E kind \in Suspended : Suspend(t, kind)
       \/ ResumeSuspended(t) \/ OperatorResume(t) \/ SwitchProvider(t) \/ Escalate(t)
       \/ Expire(t) \/ Renew(t)
  \/ \E j \in jobs : Consume(j) \/ \E action \in DOMAIN FaultTarget : HostFault(j, action)
  \/ Recover \/ Advance

StoreSpec == StoreInit /\ [][StoreNext]_storeVars

-----------------------------------------------------------------------------
(* Properties.                                                             *)

TypeOK ==
  /\ status \in [Tasks -> Status]
  /\ spec \in [Tasks -> 1..MaxSpec]
  /\ attempts \in [Tasks -> Nat]
  /\ failures \in [Tasks -> Nat]
  /\ proven \in [Tasks -> BOOLEAN]
  /\ attemptSpec \in [Tasks -> Seq(1..MaxSpec)]
  /\ run \in [Tasks -> 0..MaxRuns]
  /\ \A t \in Tasks : Len(attemptSpec[t]) <= run[t]
  /\ checkpoint \in [Tasks -> 0..MaxRuns]
  /\ lease \in [Tasks -> {"none", "live", "expired"}]
  /\ worker \in [Roles -> Tasks \cup {NoTask}]
  /\ jobs \subseteq Job

(* resource_locks: two tasks never hold a row for the same resource key,    *)
(* expired rows included, although claim deletes the expired rows of others *)
(* and renew revives whatever row the task still has.                       *)
ResourceExclusion ==
  \A t, u \in Tasks :
    t # u /\ lease[t] # "none" /\ lease[u] # "none" => ResourceOf[t] # ResourceOf[u]

(* The worker of a role is busy with the active task of that role, so a     *)
(* role runs one task at a time, whichever resources its tasks use: no      *)
(* fault of one task frees the worker under another, and recovery resets    *)
(* only workers whose task stopped.                                         *)
WorkerServesOne == \A t \in Tasks : status[t] \in Active => worker[RoleOf[t]] = t

(* A task that runs, verifies or stops has no pending checkpoint: an        *)
(* interrupted attempt is resumed once, and no second claim can resume it.  *)
ResumedOnce == \A t \in Tasks : status[t] \in Active => checkpoint[t] = 0

(* max_parallel_workers bounds the tasks in flight, counting a task whose   *)
(* Host Job is not settled although its status moved on.                    *)
InFlightBound == Cardinality(InFlight) <= MaxParallel

(* A Goal withdraws the completion of an item, and the evidence with it.    *)
Withdrawn(t) ==
  /\ t \in Items /\ DependsOn[t] # {} /\ status[t] = "completed"
  /\ status'[t] \in {"paused", "cancelled"} /\ proven[t] /\ ~proven'[t]

(* A task that no escalation or late suspension touches leaves a terminal   *)
(* status only with a new specification revision (retry, restart or        *)
(* amendment) or because its Goal withdraws a completion that depends on    *)
(* another item: no late fault, cancellation, gate or recovery revives it, *)
(* and what failed or was cancelled stays so.                              *)
TerminalUnlessOverridden ==
  [][\A t \in Tasks \ Overridable : status[t] \in Done /\ status'[t] # status[t]
                        => spec'[t] > spec[t] \/ Withdrawn(t)]_storeVars
=============================================================================
