----------------------------- MODULE TaskService -----------------------------
(***************************************************************************)
(* The control plane at work: the threads that drive, reconcile and cancel *)
(* tasks, and the host that runs their processes.                          *)
(*                                                                         *)
(*  - A driver (drive) claims a run of a task, prepares its Host Job, asks *)
(*    the host to start it and waits for the reply.                        *)
(*  - The reconciler (reconcile_host_jobs, then recovery) walks the jobs   *)
(*    that are not consumed.  It reads the task, polls the host, and acts  *)
(*    on what it read, which others may have changed meanwhile.            *)
(*  - control(cancel) marks a running task as stopping, then asks the host *)
(*    to cancel its job.                                                   *)
(*  - The host keeps the promise of HostJob for every run.                 *)
(*                                                                         *)
(* A transaction of TaskStore is one step.  A thread that dies with the    *)
(* control plane, or that raises, forgets where it was; the tables stay.   *)
(***************************************************************************)
EXTENDS TaskStore

CONSTANTS
  Parts,       \* the boundaries that are switched on: see PartsAssumption
  MaxTrouble   \* bound of the model: outages of the bridge and crashes

(* "slow_driver": a driver may stall for longer than its lease.            *)
(* "late_tick": no tick renews the lease of an open job in time.           *)
(* "give_up": a reconciliation deadline passes.                            *)
(* "torn_end": the control plane dies between the end of a run and the     *)
(* consumption of its job.                                                 *)
(* "watchdog": an execution episode reaches a bound while its process runs. *)
(* "suspension": the network zone of a provider goes down.                 *)
ASSUME PartsAssumption ==
  /\ Parts \subseteq {"slow_driver", "late_tick", "give_up", "torn_end", "watchdog",
                      "suspension"}
  /\ MaxTrouble \in Nat

Runs == Tasks \X (1..MaxRuns)

VARIABLES
  host,     \* what the host has of a run: its request, its job, or a verdict
  proc,     \* the process of a run
  asked,    \* the host was asked to cancel the job of a run
  unsure,   \* the row says recovery_hold, or its dispatch outcome is unknown
  settled,  \* the events written for a job: none, "verifying" or "finished"
  driver,   \* where the driver of a run is
  tries,    \* the attempt a run belongs to
  rc,       \* the reconciler
  cancels,  \* the run whose job control(cancel) is about to cancel, or 0
  link,     \* the bridge can be reached
  trouble

hostVars    == <<host, proc, asked>>
rowVars     == <<unsure, settled>>
threadVars  == <<driver, tries, rc, cancels>>
envVars     == <<link, trouble>>
serviceVars == <<storeVars, hostVars, rowVars, threadVars, envVars>>

(* What FaultPolicy makes of a final record, which never changes: the work  *)
(* to verify ("completed"), a fault although the process ran to its end    *)
(* ("failed"), or a process that was cancelled or lost.                    *)
Verdicts == {"completed", "failed", "cancelled", "interrupted"}
RunOf(j) == <<j.task, j.run>>

Idle == [pc |-> "idle", queue |-> {}, job |-> <<>>, seen |-> "none", run |-> 0,
         poll |-> "none"]

-----------------------------------------------------------------------------
(* The host: HostJob for every run, with the verdict of a final record.    *)

HostAccepts(r) ==
  /\ host[r] = "sent"
  /\ host' = [host EXCEPT ![r] = "open"]
  /\ UNCHANGED <<storeVars, proc, asked, rowVars, threadVars, envVars>>

HostLoses(r) ==
  /\ host[r] = "sent"
  /\ host' = [host EXCEPT ![r] = "absent"]
  /\ UNCHANGED <<storeVars, proc, asked, rowVars, threadVars, envVars>>

HostStarts(r) ==
  /\ host[r] = "open" /\ proc[r] = "none"
  /\ proc' = [proc EXCEPT ![r] = "alive"]
  /\ UNCHANGED <<storeVars, host, asked, rowVars, threadVars, envVars>>

HostExits(r) ==
  /\ proc[r] = "alive"
  /\ proc' = [proc EXCEPT ![r] = "dead"]
  /\ UNCHANGED <<storeVars, host, asked, rowVars, threadVars, envVars>>

HostSettles(r, verdict) ==
  /\ host[r] = "open" /\ proc[r] # "alive"
  /\ verdict \in Verdicts \ {IF asked[r] THEN "interrupted" ELSE "cancelled"}
  /\ host' = [host EXCEPT ![r] = verdict]
  /\ UNCHANGED <<storeVars, proc, asked, rowVars, threadVars, envVars>>

(* A cancellation that reaches the host.                                   *)
Ask(r) == asked' = [asked EXCEPT ![r] = @ \/ host[r] = "open"]

Answers(r) == link /\ host[r] \notin {"absent", "sent"}

-----------------------------------------------------------------------------
(* Rows of host_jobs.                                                      *)

Certain(r) == unsure' = [unsure EXCEPT ![r] = FALSE]

(* hold, then renew: the row of the lease is revived if it still exists.   *)
HoldAndLease(r) ==              \* a mutant of HoldAndRenew: the row is written anew
  /\ unsure' = [unsure EXCEPT ![r] = TRUE]
  /\ lease' = [lease EXCEPT ![r[1]] = "live"]
  /\ UNCHANGED <<taskVars, attemptSpec, run, checkpoint, worker, jobs>>

HoldAndRenew(r) ==
  /\ unsure' = [unsure EXCEPT ![r] = TRUE]
  /\ lease' = [lease EXCEPT ![r[1]] = IF @ = "none" THEN @ ELSE "live"]
  /\ UNCHANGED <<taskVars, attemptSpec, run, checkpoint, worker, jobs>>

-----------------------------------------------------------------------------
(* drive.                                                                  *)

DriverTo(r, pc) == driver' = [driver EXCEPT ![r] = pc]

DriveClaim(t) ==
  LET r == <<t, run[t] + 1>>
  IN /\ Claim(t)
     /\ DriverTo(r, "claimed")
     /\ tries' = [tries EXCEPT ![r] =
                    IF checkpoint[t] = 0 THEN Len(attemptSpec[t]) + 1 ELSE checkpoint[t]]
     /\ UNCHANGED <<hostVars, rowVars, rc, cancels, envVars>>

(* The evidence snapshot and the baseline succeed, and so does prepare.    *)
DrivePrepare(r) ==
  /\ driver[r] = "claimed" /\ link
  /\ Prepare(r[1], tries[r], r[2])
  /\ unsure' = [unsure EXCEPT ![r] = TRUE]
  /\ DriverTo(r, "prepared")
  /\ UNCHANGED <<hostVars, settled, tries, rc, cancels, envVars>>

(* The bridge is down, or the specification changed, or prepare refuses:   *)
(* the driver raises, and the task keeps its claim until its lease ends.   *)
DriveAbort(r) ==
  /\ driver[r] = "claimed"
  /\ DriverTo(r, "none")
  /\ UNCHANGED <<storeVars, hostVars, rowVars, tries, rc, cancels, envVars>>

(* The hard deadline of the task is spent.                                 *)
DriveDeadline(r) ==
  /\ driver[r] = "claimed" /\ link
  /\ PreDispatchFault(r[1])
  /\ DriverTo(r, "none")
  /\ UNCHANGED <<hostVars, rowVars, tries, rc, cancels, envVars>>

DriveSend(r) ==
  /\ driver[r] = "prepared" /\ link
  /\ host' = [host EXCEPT ![r] = "sent"]
  /\ DriverTo(r, "waiting")
  /\ UNCHANGED <<storeVars, proc, asked, rowVars, tries, rc, cancels, envVars>>

DriveReply(r) ==
  /\ driver[r] = "waiting" /\ Answers(r)
  /\ Certain(r)
  /\ DriverTo(r, "none")
  /\ UNCHANGED <<storeVars, hostVars, settled, tries, rc, cancels, envVars>>

DriveForgets(r) ==              \* a mutant of DriveUnavailable: no answer, no job
  /\ driver[r] = "waiting" \/ (driver[r] = "prepared" /\ ~link)
  /\ jobs' = {j \in jobs : RunOf(j) # r}
  /\ DriverTo(r, "none")
  /\ UNCHANGED <<taskVars, attemptSpec, run, checkpoint, lease, worker>>
  /\ UNCHANGED <<hostVars, rowVars, tries, rc, cancels, envVars>>

(* No connection, or no answer in time: the outcome is unknown.            *)
DriveUnavailable(r) ==
  /\ driver[r] = "waiting" \/ (driver[r] = "prepared" /\ ~link)
  /\ HoldAndRenew(r)
  /\ DriverTo(r, "none")
  /\ UNCHANGED <<hostVars, settled, tries, rc, cancels, envVars>>

(* 4xx: the host refuses before it writes a record.                        *)
DriveRejected(r) ==
  /\ driver[r] = "waiting" /\ host[r] = "sent" /\ link
  /\ host' = [host EXCEPT ![r] = "absent"]
  /\ Certain(r)
  /\ DriverTo(r, "rejected")
  /\ UNCHANGED <<storeVars, proc, asked, settled, tries, rc, cancels, envVars>>

DriveFault(r) ==
  /\ driver[r] = "rejected"
  /\ \/ \E j \in jobs : RunOf(j) = r /\ HostFault(j, "needs_human")
     \/ /\ status[r[1]] \notin {"running", "verifying"} \/ ~\E j \in jobs : RunOf(j) = r
        /\ UNCHANGED storeVars
  /\ DriverTo(r, "none")
  /\ UNCHANGED <<hostVars, rowVars, tries, rc, cancels, envVars>>

-----------------------------------------------------------------------------
(* reconcile_host_jobs.  rc.seen and rc.run are what the reconciler read of *)
(* the task; its revision is still good if they are.                       *)

Job1     == rc.job
Task1    == rc.job.task
Run1     == RunOf(rc.job)
RcTo(pc) == rc' = [rc EXCEPT !.pc = pc]
NextJob  == rc' = [Idle EXCEPT !.pc = "list", !.queue = rc.queue \ {rc.job}]
Fresh    == status[Task1] = rc.seen /\ run[Task1] = rc.run

KeepRest == UNCHANGED <<hostVars, driver, tries, cancels, envVars>>

TickStart ==
  /\ rc.pc = "idle"
  /\ rc' = [Idle EXCEPT !.pc = "list", !.queue = jobs]
  /\ UNCHANGED <<storeVars, rowVars>> /\ KeepRest

ReadTask(j) ==
  /\ rc.pc = "list" /\ j \in rc.queue
  /\ rc' = [rc EXCEPT !.pc = "poll", !.job = j, !.seen = status[j.task],
                      !.run = run[j.task]]
  /\ UNCHANGED <<storeVars, rowVars>> /\ KeepRest

(* The host does not answer, or answers with a recovery_hold of its own.   *)
PollHost ==
  /\ rc.pc = "poll"
  /\ \/ /\ Answers(Run1) /\ Certain(Run1) /\ UNCHANGED storeVars
        /\ rc' = [rc EXCEPT !.pc = "act", !.poll = host[Run1]]
     \/ /\ ~Answers(Run1) \/ host[Run1] = "open"
        /\ HoldAndRenew(Run1)
        /\ rc' = [rc EXCEPT !.pc = "act", !.poll = "unknown"]
  /\ UNCHANGED settled /\ KeepRest

(* _finalize_host_fault raises when the task is neither running nor        *)
(* verifying, and does nothing when the fault of the job is settled; what  *)
(* raises ends the tick, before recovery and dispatch.                     *)
Fault(action) ==
  IF Job1 \notin jobs THEN NextJob /\ UNCHANGED storeVars
  ELSE IF status[Task1] \in {"running", "verifying"} THEN HostFault(Job1, action) /\ NextJob
  ELSE rc' = Idle /\ UNCHANGED storeVars

HoldJob ==
  /\ rc.pc = "act" /\ rc.poll = "unknown"
  /\ NextJob
  /\ UNCHANGED <<storeVars, rowVars>> /\ KeepRest

(* reconciliation_expired: terminate_episode, and the task needs a human.  *)
GiveUp ==
  /\ rc.pc = "act" /\ rc.poll = "unknown" /\ "give_up" \in Parts
  /\ Fault("needs_human")
  /\ UNCHANGED rowVars /\ KeepRest

RenewJob ==
  /\ rc.pc = "act" /\ rc.poll = "open"
  /\ IF lease[Task1] = "none" THEN UNCHANGED storeVars ELSE Renew(Task1)
  /\ NextJob
  /\ UNCHANGED rowVars /\ KeepRest

BoundUncancelled ==             \* a mutant of BoundJob: the process is not told
  /\ rc.pc = "act" /\ rc.poll = "open" /\ "watchdog" \in Parts
  /\ RcTo("boundary")
  /\ UNCHANGED <<storeVars, unsure, asked>>
  /\ UNCHANGED <<host, proc, settled, driver, tries, cancels, envVars>>

(* The watchdog found the episode bounded: cancel, and settle the task at   *)
(* once, with whatever the host answered.                                  *)
BoundJob ==
  /\ rc.pc = "act" /\ rc.poll = "open" /\ "watchdog" \in Parts
  /\ IF link THEN Ask(Run1) /\ RcTo("boundary") /\ UNCHANGED <<storeVars, unsure>>
     ELSE HoldAndRenew(Run1) /\ NextJob /\ UNCHANGED asked
  /\ UNCHANGED <<host, proc, settled, driver, tries, cancels, envVars>>

SettleBound ==
  /\ rc.pc = "boundary"
  /\ \E action \in {"resume", "needs_human"} : Fault(action)
  /\ UNCHANGED rowVars /\ KeepRest

(* A final record that is no work to verify: a fault of the process.       *)
SettleFault ==
  /\ rc.pc = "act"
  /\ \/ rc.poll = "interrupted"
     \/ rc.poll \in {"failed", "cancelled"} /\ rc.seen # "stopping"
  /\ \E action \in {"resume", "needs_human"} : Fault(action)
  /\ UNCHANGED rowVars /\ KeepRest

ConfirmAtOnce ==                \* a mutant of ConfirmCancel: an accepted request will do
  /\ rc.pc = "act" /\ rc.poll \in Verdicts \cup {"open"} /\ rc.seen = "stopping"
  /\ CASE status[Task1] = "stopping"  -> FinalizeCancel(Task1) /\ RcTo("consume")
       [] status[Task1] = "cancelled" -> RcTo("consume") /\ UNCHANGED storeVars
       [] OTHER                       -> rc' = Idle /\ UNCHANGED storeVars
  /\ UNCHANGED rowVars /\ KeepRest

(* The host confirmed that the job of a stopping task is over.             *)
ConfirmCancel ==
  /\ rc.pc = "act" /\ rc.poll \in Verdicts \ {"interrupted"} /\ rc.seen = "stopping"
  /\ CASE status[Task1] = "stopping"  -> FinalizeCancel(Task1) /\ RcTo("consume")
       [] status[Task1] = "cancelled" -> RcTo("consume") /\ UNCHANGED storeVars
       [] OTHER                       -> rc' = Idle /\ UNCHANGED storeVars
  /\ UNCHANGED rowVars /\ KeepRest

(* verify_host_task: the bridge may be gone again, which may be the last    *)
(* fault that the watchdog tolerates.                                      *)
VerifyHeld ==
  /\ rc.pc = "act" /\ rc.poll = "completed" /\ rc.seen \in {"running", "verifying"}
  /\ ~link
  /\ HoldAndRenew(Run1) /\ NextJob
  /\ UNCHANGED settled /\ KeepRest

VerifyBound ==
  /\ rc.pc = "act" /\ rc.poll = "completed" /\ rc.seen \in {"running", "verifying"}
  /\ ~link /\ "watchdog" \in Parts
  /\ \E action \in {"defer", "needs_human"} : Fault(action)
  /\ UNCHANGED rowVars /\ KeepRest

MarkNow(j) == settled' = [settled EXCEPT ![RunOf(j)] = "verifying"]

(* mark_verifying with the revision that was read; a second call for the   *)
(* same job only reads.  A DomainError becomes a fault.                    *)
VerifyStarts ==
  /\ rc.pc = "act" /\ rc.poll = "completed" /\ rc.seen \in {"running", "verifying"}
  /\ link
  /\ IF settled[Run1] # "none" THEN RcTo("finish") /\ UNCHANGED <<storeVars, settled>>
     ELSE IF Fresh /\ status[Task1] = "running"
     THEN MarkVerifying(Task1) /\ MarkNow(Job1) /\ RcTo("finish")
     ELSE RcTo("contract") /\ UNCHANGED <<storeVars, settled>>
  /\ UNCHANGED unsure /\ KeepRest

FinishJob ==
  /\ rc.pc = "finish"
  /\ IF settled[Run1] = "finished" THEN RcTo("consume") /\ UNCHANGED <<storeVars, settled>>
     ELSE IF status[Task1] = "verifying" /\ Bound(Task1, Job1.attempt)
     THEN /\ \E passed, again \in BOOLEAN : Finish(Task1, Job1.attempt, passed, again)
          /\ settled' = [settled EXCEPT ![Run1] = "finished"]
          /\ RcTo("consume")
     ELSE RcTo("contract") /\ UNCHANGED <<storeVars, settled>>
  /\ UNCHANGED unsure /\ KeepRest

BreaksContract ==
  /\ rc.pc = "contract"
  /\ Fault("needs_human")
  /\ UNCHANGED rowVars /\ KeepRest

(* Nobody waits for the result of this job any more.                       *)
DropResult ==
  /\ rc.pc = "act" /\ rc.poll = "completed"
  /\ rc.seen \notin {"running", "verifying", "stopping"}
  /\ RcTo("consume")
  /\ UNCHANGED <<storeVars, rowVars>> /\ KeepRest

ConsumeJob ==
  /\ rc.pc = "consume"
  /\ IF Job1 \in jobs THEN Consume(Job1) ELSE UNCHANGED storeVars
  /\ NextJob
  /\ UNCHANGED rowVars /\ KeepRest

TickRecovers ==
  /\ rc.pc = "list" /\ rc.queue = {}
  /\ Recover
  /\ rc' = [Idle EXCEPT !.pc = "advance"]
  /\ UNCHANGED rowVars /\ KeepRest

(* Before the tick dispatches its drivers, and again when they are back.   *)
TickAdvances ==
  /\ rc.pc \in {"advance", "dispatch"}
  /\ Advance
  /\ rc' = IF rc.pc = "advance" THEN [Idle EXCEPT !.pc = "dispatch"] ELSE Idle
  /\ UNCHANGED rowVars /\ KeepRest

(* suspend_active_provider_jobs, at the start of a tick.                   *)
SuspendJob(j) ==
  /\ rc.pc = "idle" /\ "suspension" \in Parts /\ link
  /\ j \in jobs /\ status[j.task] \in {"running", "verifying"} /\ Answers(RunOf(j))
  /\ Ask(RunOf(j)) /\ Certain(RunOf(j))
  /\ rc' = [Idle EXCEPT !.pc = "suspend", !.job = j]
  /\ UNCHANGED <<storeVars, host, proc, settled, driver, tries, cancels, envVars>>

SettleSuspended ==
  /\ rc.pc = "suspend"
  /\ IF Job1 \in jobs /\ status[Task1] \in {"running", "verifying"}
     THEN HostFault(Job1, "network_suspended") ELSE UNCHANGED storeVars
  /\ rc' = Idle
  /\ UNCHANGED rowVars /\ KeepRest

-----------------------------------------------------------------------------
(* control(cancel).                                                        *)

LastJob(t) == CHOOSE j \in jobs :
  j.task = t /\ \A k \in jobs : k.task = t => k.run <= j.run

CancelTask(t) ==
  /\ cancels[t] = 0 /\ HasJob(t)
  /\ IF status[t] = "stopping" THEN UNCHANGED storeVars ELSE RequestCancel(t)
  /\ cancels' = [cancels EXCEPT ![t] = LastJob(t).run]
  /\ UNCHANGED <<hostVars, rowVars, driver, tries, rc, envVars>>

CancelJob(t) ==
  /\ cancels[t] # 0
  /\ LET r == <<t, cancels[t]>>
     IN IF Answers(r) THEN Ask(r) /\ Certain(r) /\ UNCHANGED storeVars
        ELSE HoldAndRenew(r) /\ UNCHANGED asked
  /\ cancels' = [cancels EXCEPT ![t] = 0]
  /\ UNCHANGED <<host, proc, settled, driver, tries, rc, envVars>>

-----------------------------------------------------------------------------
(* Operators, time and trouble.                                            *)

Operate(t) ==
  /\ \/ Pause(t) \/ Resume(t) \/ AskHuman(t) \/ CancelIdle(t) \/ ReplaceSpec(t)
     \/ OperatorResume(t) \/ ResumeSuspended(t) \/ SwitchProvider(t) \/ Escalate(t)
     \/ \E kind \in Suspended : Suspend(t, kind)
  /\ UNCHANGED <<hostVars, rowVars, threadVars, envVars>>

Driving(t) == \E n \in 1..MaxRuns : driver[<<t, n>>] # "none"

LeaseExpires(t) ==
  /\ Driving(t) => "slow_driver" \in Parts
  /\ HasJob(t) => "late_tick" \in Parts
  /\ Expire(t)
  /\ UNCHANGED <<hostVars, rowVars, threadVars, envVars>>

LinkFails ==
  /\ link /\ trouble < MaxTrouble
  /\ link' = FALSE /\ trouble' = trouble + 1
  /\ UNCHANGED <<storeVars, hostVars, rowVars, threadVars>>

LinkReturns ==
  /\ ~link /\ link' = TRUE
  /\ UNCHANGED <<storeVars, hostVars, rowVars, threadVars, trouble>>

Crash ==
  /\ rc.pc = "consume" => "torn_end" \in Parts
  /\ trouble < MaxTrouble /\ trouble' = trouble + 1
  /\ driver' = [r \in Runs |-> "none"]
  /\ rc' = Idle
  /\ cancels' = [t \in Tasks |-> 0]
  /\ UNCHANGED <<storeVars, hostVars, rowVars, tries, link>>

-----------------------------------------------------------------------------
ServiceInit ==
  /\ StoreInit
  /\ host = [r \in Runs |-> "absent"] /\ proc = [r \in Runs |-> "none"]
  /\ asked = [r \in Runs |-> FALSE]
  /\ unsure = [r \in Runs |-> FALSE] /\ settled = [r \in Runs |-> "none"]
  /\ driver = [r \in Runs |-> "none"] /\ tries = [r \in Runs |-> 0]
  /\ rc = Idle /\ cancels = [t \in Tasks |-> 0]
  /\ link = TRUE /\ trouble = 0

Host(r) == HostAccepts(r) \/ HostStarts(r) \/ HostExits(r)
             \/ \E verdict \in Verdicts : HostSettles(r, verdict)

Drive(r) == DrivePrepare(r) \/ DriveAbort(r) \/ DriveDeadline(r) \/ DriveSend(r)
              \/ DriveReply(r) \/ DriveUnavailable(r) \/ DriveRejected(r) \/ DriveFault(r)

Tick == \/ TickStart \/ PollHost \/ HoldJob \/ GiveUp \/ RenewJob \/ BoundJob
        \/ SettleBound \/ SettleFault \/ ConfirmCancel \/ VerifyHeld \/ VerifyBound
        \/ VerifyStarts \/ FinishJob \/ BreaksContract \/ DropResult \/ ConsumeJob \/ TickRecovers
        \/ TickAdvances \/ SettleSuspended
        \/ \E j \in jobs \cup rc.queue : ReadTask(j) \/ SuspendJob(j)

ServiceNext ==
  \/ \E r \in Runs : Host(r) \/ HostLoses(r) \/ Drive(r)
  \/ \E t \in Tasks : DriveClaim(t) \/ CancelTask(t) \/ CancelJob(t) \/ Operate(t)
                        \/ LeaseExpires(t)
  \/ Tick \/ LinkFails \/ LinkReturns \/ Crash

ServiceSpec == ServiceInit /\ [][ServiceNext]_serviceVars

(* Cron starts a tick per slot and the container is restarted, threads run, *)
(* the host settles what it accepted (a process that exceeds its timeout is *)
(* killed), leases and deadlines pass, and outages end.                    *)
ServiceFairness ==
  /\ \A r \in Runs :
       /\ WF_serviceVars(HostAccepts(r) \/ HostLoses(r))
       /\ WF_serviceVars(HostStarts(r)) /\ WF_serviceVars(HostExits(r))
       /\ WF_serviceVars(\E verdict \in Verdicts : HostSettles(r, verdict))
       /\ WF_serviceVars(Drive(r))
  /\ \A t \in Tasks : WF_serviceVars(CancelJob(t)) /\ WF_serviceVars(LeaseExpires(t))
  /\ WF_serviceVars(Tick) /\ SF_serviceVars(GiveUp) /\ WF_serviceVars(LinkReturns)

FairServiceSpec == ServiceSpec /\ ServiceFairness

-----------------------------------------------------------------------------
(* Properties.                                                             *)

ServiceTypeOK ==
  /\ TypeOK
  /\ host \in [Runs -> {"absent", "sent", "open"} \cup Verdicts]
  /\ proc \in [Runs -> {"none", "alive", "dead"}]
  /\ asked \in [Runs -> BOOLEAN] /\ unsure \in [Runs -> BOOLEAN]
  /\ settled \in [Runs -> {"none", "verifying", "finished"}]
  /\ driver \in [Runs -> {"none", "claimed", "prepared", "waiting", "rejected"}]
  /\ tries \in [Runs -> 0..MaxRuns]
  /\ rc \in [pc : {"idle", "list", "poll", "act", "boundary", "suspend", "finish",
                   "contract", "consume", "advance", "dispatch"},
            queue : SUBSET Job, job : Job \cup {<<>>}, seen : Status \cup {"none"},
            run : 0..MaxRuns, poll : {"none", "unknown", "open"} \cup Verdicts]
  /\ rc.pc \notin {"idle", "list", "advance", "dispatch"} => rc.job \in Job
  /\ cancels \in [Tasks -> 0..MaxRuns]
  /\ link \in BOOLEAN /\ trouble \in 0..MaxTrouble

Alive(t) == {n \in 1..MaxRuns : proc[<<t, n>>] = "alive"}

(* No two processes work on one task: an older process that still lives was *)
(* told to stop.                                                           *)
OneWorking ==
  \A t \in Tasks : \A n, m \in Alive(t) : n < m => asked[<<t, n>>]

(* A living process has an open row, which keeps generic recovery away from *)
(* its task and counts it as in flight, unless it was told to stop.        *)
LiveHasRow ==
  \A r \in Runs : proc[r] = "alive" => asked[r] \/ \E j \in jobs : RunOf(j) = r

(* A stopping task is cancelled when the host has confirmed it: its run is  *)
(* gone then, and what still lives of older runs was told to stop.         *)
CancelConfirmed ==
  [][\A t \in Tasks : status[t] = "stopping" /\ status'[t] = "cancelled"
       => \A n \in Alive(t) : n # run[t] /\ asked[<<t, n>>]]_serviceVars

(* A job of which reconcile_host_jobs will make a fault, of a task that is  *)
(* no longer running or verifying: finalize_host_fault raises, and so does *)
(* every tick, before it comes to recovery.                                *)
Poison(j) ==
  /\ status[j.task] \notin {"running", "verifying"}
  /\ \/ host[RunOf(j)] = "interrupted"
     \/ host[RunOf(j)] \in {"failed", "cancelled"} /\ status[j.task] # "stopping"
     \/ host[RunOf(j)] = "absent" /\ driver[RunOf(j)] = "none" /\ "give_up" \in Parts

(* A run ends: no crash, lost reply, lost request or outage leaves a task   *)
(* running, with its worker and its resource, for ever, unless the job of  *)
(* another task raises in every tick from some point on.                   *)
RunEnds ==
  []<>(\A j \in jobs : ~Poison(j)) =>
    \A t \in Tasks : status[t] \in {"running", "verifying"}
                        ~> status[t] \notin {"running", "verifying"}

(* A cancellation ends.                                                    *)
StopSettles == \A t \in Tasks : status[t] = "stopping" ~> status[t] # "stopping"

(* The threads use the store as StoreSpec allows.                          *)
UsesStore == StoreSpec
=============================================================================
