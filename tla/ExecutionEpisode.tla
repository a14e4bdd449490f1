--------------------------- MODULE ExecutionEpisode ---------------------------
(***************************************************************************)
(* The execution episodes of one task, and the watchdog that bounds them.  *)
(*                                                                         *)
(* Every Host process of a task runs inside an episode.  The reconciler    *)
(* observes the episode of an open job; when it reaches a bound (deadline, *)
(* wall clock, number of processes, repeated fault, no progress) the       *)
(* process is cancelled, the episode terminated, and the next process      *)
(* starts one step up the ladder: execute, resume, replan, replacement.    *)
(* Beyond the last step the circuit opens, and the task needs a human.     *)
(*                                                                         *)
(* TaskService lets the watchdog strike at any time; here it is computed.  *)
(* Each transaction is a step: the reconciler (rc) and the driver may be   *)
(* interrupted between two of them by each other, an operator or a crash.  *)
(* Times are what is left of them: a deadline of 0 has passed.             *)
(***************************************************************************)
EXTENDS Integers, Sequences, FiniteSetsExt, Functions

CONSTANTS
  Deadline,       \* hard_seconds of every specification
  WallLimit,      \* episode_wall_limit_seconds
  Extension,      \* progress_extension_seconds
  NoProgress,     \* no_progress_seconds
  MaxProcesses,   \* max_host_processes of an episode
  SameFaults,     \* max_same_failure, as the watchdog uses it
  MaxAttempts,    \* attempts per specification
  CrashInFinish,  \* the control plane may crash between finish and consume
  MaxSpec, MaxEpisodes,
  MaxUpsets        \* bounds of the model: grants of people and crashes

ASSUME EpisodeAssumption ==
  /\ {Deadline, WallLimit, NoProgress, MaxProcesses, SameFaults, MaxAttempts,
      MaxSpec, MaxEpisodes} \subseteq Nat \ {0}
  /\ {Extension, MaxUpsets} \subseteq Nat
  /\ CrashInFinish \in BOOLEAN

VARIABLES
  task,        \* "running" stands for verifying too
  spec, used,  \* the current specification, and the attempts it has used
  checkpoint,  \* the attempt of the pending recovery checkpoint, or 0
  episodes,    \* the rows of execution_episodes, in the order of their ordinals
  watch,       \* what the watchdog keeps in the latest of them
  job,         \* the unconsumed Host Job of each attempt
  driver,      \* the attempt that a driver has claimed and not prepared yet, or 0
  rc,          \* where the reconciler is
  upsets

taskVars == <<task, spec, used, checkpoint>>
vars     == <<taskVars, episodes, watch, job, driver, rc, upsets>>

(* What FaultPolicy says of a snapshot: the work is to be verified, a human *)
(* is needed, or a fault that a process may recover from.                  *)
Faults   == {"transient_transport", "no_progress"}
Verdicts == Faults \cup {"verify", "human"}
Attempts == 1..(MaxSpec * MaxAttempts)

SpecOf(a) == (a - 1) \div MaxAttempts + 1
Attempt   == (spec - 1) * MaxAttempts + used
NoJob     == [episode |-> 0, says |-> "running", done |-> FALSE]
Idle      == [pc |-> "idle", job |-> 0, act |-> "none", force |-> FALSE]
Open(a)   == job[a].episode # 0
Least(x, y) == IF x <= y THEN x ELSE y
NotNegative(x) == IF x < 0 THEN 0 ELSE x

-----------------------------------------------------------------------------
(* Episodes.                                                               *)

Latest        == episodes[Len(episodes)]
EpisodesOf(s) == {i \in DOMAIN episodes : episodes[i].spec = s}

(* The deadline of a specification is that of its first episode.           *)
FirstDeadline(s) == Min({episodes[i].deadline : i \in EpisodesOf(s)})

DeadlineSpent == EpisodesOf(spec) # {} /\ FirstDeadline(spec) = 0

CircuitIgnored == FALSE         \* a mutant of CircuitOpen: prepare does not look
CircuitOpen   == episodes # <<>> /\ Latest.status = "circuit_open" /\ Latest.spec = spec

ContinuesInTime ==              \* a mutant of Continues: no end of an episode that ran out
  episodes # <<>> /\ Latest.status = "active" /\ watch.wall > 0

Continues     == episodes # <<>> /\ Latest.status = "active"

NextRecovery ==
  IF episodes # <<>> /\ Latest.status = "terminated" THEN Latest.recovery + 1 ELSE 0

RestartedEpisode ==             \* a mutant of FreshEpisode: a recovery restarts the clock
  [spec |-> spec, status |-> "active", recovery |-> NextRecovery, processes |-> 0,
   deadline |-> Deadline]

FreshEpisode ==
  [spec |-> spec, status |-> "active", recovery |-> NextRecovery, processes |-> 0,
   deadline |-> IF EpisodesOf(spec) = {} THEN Deadline ELSE FirstDeadline(spec)]

FreshWatch(e) == [wall |-> Least(e.deadline, WallLimit), idle |-> 0, fault |-> "none", same |-> 0]

(* An active episode never outlives the first deadline of its              *)
(* specification: older releases gave every recovery a deadline of its own. *)
ClampedRow(e)   == IF e.status # "active" THEN e
                   ELSE [e EXCEPT !.deadline = Least(@, FirstDeadline(e.spec))]
ClampedWatch(e) == IF e.status # "active" THEN watch
                   ELSE [watch EXCEPT !.wall = Least(@, FirstDeadline(e.spec))]

(* Only an active episode is ever updated.                                 *)
EndEpisode(i, how) ==
  episodes' = [episodes EXCEPT ![i].status = IF @ = "active" THEN how ELSE @]

-----------------------------------------------------------------------------
(* The driver: claim, then prepare.                                        *)

Claim ==
  /\ task = "ready" /\ driver = 0
  /\ \/ checkpoint # 0 /\ driver' = checkpoint /\ used' = used
     \/ checkpoint = 0 /\ used < MaxAttempts /\ driver' = Attempt + 1 /\ used' = used + 1
  /\ task' = "running" /\ checkpoint' = 0
  /\ UNCHANGED <<spec, episodes, watch, job, rc, upsets>>

(* _episode_for_process reserves a process, in the active episode if there *)
(* is one, of whatever specification.                                      *)
Prepare ==
  LET rows == IF ~Continues THEN Append(episodes, FreshEpisode)
              ELSE IF Latest.spec # spec THEN episodes
              ELSE [episodes EXCEPT ![Len(episodes)] = ClampedRow(@)]
      n    == Len(rows)
  IN /\ driver # 0 /\ ~Open(driver)
     /\ ~DeadlineSpent /\ ~CircuitOpen
     /\ n <= MaxEpisodes /\ rows[n].recovery <= 3
     /\ rows[n].processes < MaxProcesses
     /\ episodes' = [rows EXCEPT ![n].processes = @ + 1]
     /\ watch' = IF ~Continues THEN FreshWatch(rows[n])
                 ELSE IF Latest.spec # spec THEN watch ELSE ClampedWatch(Latest)
     /\ job' = [job EXCEPT ![driver] = [NoJob EXCEPT !.episode = n]]
     /\ driver' = 0
     /\ UNCHANGED <<taskVars, rc, upsets>>

(* finalize_pre_dispatch_fault: more time takes a new specification.       *)
HardDeadline ==
  /\ driver # 0 /\ DeadlineSpent
  /\ task = "running" /\ task' = "human" /\ driver' = 0
  /\ UNCHANGED <<spec, used, checkpoint, episodes, watch, job, rc, upsets>>

(* prepare refuses, or something before it raises: the claim is left to    *)
(* generic recovery.                                                       *)
Refused ==
  /\ driver # 0 /\ driver' = 0
  /\ UNCHANGED <<taskVars, episodes, watch, job, rc, upsets>>

(* RecoveryService: a claim without a job whose lease ran out.             *)
Recover ==
  /\ task \in {"running", "stopping"} /\ driver = 0 /\ \A a \in Attempts : ~Open(a)
  /\ task' = IF used < MaxAttempts THEN "ready" ELSE "human"
  /\ UNCHANGED <<spec, used, checkpoint, episodes, watch, job, driver, rc, upsets>>

-----------------------------------------------------------------------------
(* ExecutionEpisodeWatchdog.                                               *)

(* Beyond its limit the count of equal faults makes no difference.         *)
SameCount(fault, running) ==
  IF fault = "none" THEN IF running THEN 0 ELSE watch.same
  ELSE IF fault = watch.fault THEN Least(watch.same + 1, SameFaults) ELSE 1

BoundedLate(e, wall, fault, same) ==    \* a mutant of Bounded: one process too many
  \/ e.deadline = 0 \/ wall = 0
  \/ fault # "none" /\ (e.processes > MaxProcesses \/ same >= SameFaults)
  \/ watch.idle >= NoProgress

BoundedByFaults(e, wall, fault, same) ==        \* a mutant of Bounded: no clock
  fault # "none" /\ (e.processes >= MaxProcesses \/ same >= SameFaults)

Bounded(e, wall, fault, same) ==
  \/ e.deadline = 0 \/ wall = 0
  \/ fault # "none" /\ (e.processes >= MaxProcesses \/ same >= SameFaults)
  \/ watch.idle >= NoProgress

ExtendedFreely(e, wall) == wall + Extension     \* a mutant of ExtendedWall: no MIN
ExtendedWall(e, wall) == Least(e.deadline, wall + Extension)

(* observe_episode sees a fault, and progress or none, in episode i, and    *)
(* decides whether it is bounded.  Only an active episode is updated.  What *)
(* an episode counted before the latest one began is forgotten here: the   *)
(* decision about it may be either.                                        *)
ObserveEpisode(i, fault, running, progressed, bounded) ==
  LET e    == ClampedRow(episodes[i])
      wall == ClampedWatch(e).wall
      same == SameCount(fault, running)
  IN /\ i \in DOMAIN episodes
     /\ episodes' = [episodes EXCEPT ![i] = e]
     /\ IF i # Len(episodes) THEN UNCHANGED watch
        ELSE
          /\ bounded = Bounded(e, wall, fault, same)
          /\ watch' = IF e.status # "active" THEN watch
                      ELSE [wall  |-> IF progressed THEN ExtendedWall(e, wall) ELSE wall,
                            idle  |-> IF progressed THEN 0 ELSE watch.idle,
                            fault |-> IF fault = "none" /\ ~running THEN watch.fault ELSE fault,
                            same  |-> same]

-----------------------------------------------------------------------------
(* The reconciler.                                                         *)

RcTo(pc)       == rc' = [rc EXCEPT !.pc = pc]
Goes(a, pc)    == [Idle EXCEPT !.pc = pc, !.job = a]
Settles(a)     == [Goes(a, "finalize") EXCEPT !.act = "ready"]
Ends(a, act, force) == [Goes(a, "terminate") EXCEPT !.act = act, !.force = force]

(* What a tick does about job a, once it has read the task and the verdict *)
(* and observed the episode.  A process that was interrupted is a fault    *)
(* even if the task is to stop.                                            *)
Reactions(a, says, bounded) ==
  CASE says = "running" -> {IF bounded THEN Goes(a, "cancel") ELSE Idle}
    [] says = "verify" /\ task # "stopping" ->
         {Goes(a, IF task = "running" THEN "verify" ELSE "consume")}
    [] says = "verify" /\ task = "stopping" -> {Goes(a, "confirm")}
    [] OTHER ->
         (IF task = "stopping" THEN {Goes(a, "confirm")} ELSE {}) \cup
         {IF says = "human" THEN Ends(a, "human", TRUE)
          ELSE IF bounded THEN Ends(a, "bounded", FALSE) ELSE Settles(a)}

FaultsSeen(says) ==
  CASE says = "running" -> {"none", "no_progress"}
    [] says = "verify"  -> {"none"}
    [] OTHER            -> {says}

(* The host answers: the process works, or has ended.                      *)
Answers(a) == IF job[a].says = "running" THEN Verdicts \cup {"running"} ELSE {job[a].says}

Observe(a) ==
  /\ rc.pc = "idle" /\ Open(a)
  /\ \E says \in Answers(a) : \E fault \in FaultsSeen(says), progressed, bounded \in BOOLEAN :
       /\ ObserveEpisode(job[a].episode, fault, says = "running", progressed, bounded)
       /\ job' = [job EXCEPT ![a].says = says]
       /\ rc' \in Reactions(a, says, bounded)
  /\ UNCHANGED <<taskVars, driver, upsets>>

(* The host does not answer, and the reconciliation deadline has passed.   *)
GiveUp(a) ==
  /\ rc.pc = "idle" /\ Open(a)
  /\ rc' = Ends(a, "human", TRUE)
  /\ UNCHANGED <<taskVars, episodes, watch, job, driver, upsets>>

(* suspend_active_provider_jobs: the host has confirmed the cancellation.  *)
Suspend(a) ==
  /\ rc.pc = "idle" /\ Open(a) /\ task = "running"
  /\ rc' = Ends(a, "suspended", FALSE)
  /\ UNCHANGED <<taskVars, episodes, watch, job, driver, upsets>>

CancelReaches ==
  /\ rc.pc = "cancel"
  /\ rc' = [rc EXCEPT !.pc = "terminate", !.act = "bounded"]
  /\ UNCHANGED <<taskVars, episodes, watch, job, driver, upsets>>

CancelFails ==
  /\ rc.pc = "cancel" /\ rc' = Idle
  /\ UNCHANGED <<taskVars, episodes, watch, job, driver, upsets>>

Opens(e) == rc.force \/ e.recovery = 3    \* next_recovery_action

Terminate ==
  LET i == job[rc.job].episode
      opens == Opens(episodes[i])
  IN /\ rc.pc = "terminate"
     /\ EndEpisode(i, IF opens THEN "circuit_open" ELSE "terminated")
     /\ UNCHANGED watch
     /\ rc' = [rc EXCEPT !.pc = "finalize",
                         !.act = IF @ # "bounded" THEN @
                                 ELSE IF opens THEN "human" ELSE "ready"]
     /\ UNCHANGED <<taskVars, job, driver, upsets>>

(* finalize_host_fault; it raises if the task is not running any more.     *)
Finalize ==
  /\ rc.pc = "finalize" /\ rc' = Idle
  /\ IF task = "running"
     THEN /\ task' = rc.act /\ checkpoint' = rc.job
          /\ job' = [job EXCEPT ![rc.job] = NoJob]
     ELSE UNCHANGED <<task, checkpoint, job>>
  /\ UNCHANGED <<spec, used, episodes, watch, driver, upsets>>

(* mark_verifying and finish: the verdict is recorded once.                *)
Finish ==
  /\ rc.pc = "verify" /\ (job[rc.job].done \/ (task = "running" /\ SpecOf(rc.job) = spec))
  /\ IF job[rc.job].done THEN UNCHANGED <<task, job>>
     ELSE /\ task' \in {"over"} \cup (IF used < MaxAttempts THEN {"ready"} ELSE {})
          /\ job' = [job EXCEPT ![rc.job].done = TRUE]
  /\ RcTo("complete")
  /\ UNCHANGED <<spec, used, checkpoint, episodes, watch, driver, upsets>>

(* The bridge went away before the verification: one more transport fault. *)
VerifyFails ==
  /\ rc.pc = "verify"
  /\ \E bounded \in BOOLEAN :
       /\ ObserveEpisode(job[rc.job].episode, "transient_transport", FALSE, FALSE, bounded)
       /\ rc' = IF bounded THEN Ends(rc.job, "bounded", FALSE) ELSE Idle
  /\ UNCHANGED <<taskVars, job, driver, upsets>>

(* A DomainError, as when the task changed meanwhile, or the evidence      *)
(* baseline of the run is missing.                                         *)
EvidenceRefused ==
  /\ rc.pc = "verify"
  /\ \E act \in {"human", "ready"} : rc' = [rc EXCEPT !.pc = "terminate", !.act = act]
  /\ UNCHANGED <<taskVars, episodes, watch, job, driver, upsets>>

(* finalize_running_cancel.                                                *)
ConfirmCancel ==
  /\ rc.pc = "confirm"
  /\ IF task \in {"stopping", "over"} THEN task' = "over" /\ RcTo("complete")
     ELSE rc' = Idle /\ UNCHANGED task
  /\ UNCHANGED <<spec, used, checkpoint, episodes, watch, job, driver, upsets>>

Complete ==
  /\ rc.pc = "complete"
  /\ EndEpisode(job[rc.job].episode, "completed")
  /\ UNCHANGED watch
  /\ RcTo("consume")
  /\ UNCHANGED <<taskVars, job, driver, upsets>>

Consume ==
  /\ rc.pc = "consume" /\ rc' = Idle
  /\ job' = [job EXCEPT ![rc.job] = NoJob]
  /\ UNCHANGED <<taskVars, episodes, watch, driver, upsets>>

-----------------------------------------------------------------------------
(* Operators, time and crashes.                                            *)

Cancel ==
  /\ \/ task = "running" /\ (\E a \in Attempts : Open(a)) /\ task' = "stopping"
     \/ task \in {"ready", "human", "suspended"} /\ task' = "over"
  /\ UNCHANGED <<spec, used, checkpoint, episodes, watch, job, driver, rc, upsets>>

ResumeSuspended ==
  /\ task = "suspended" /\ task' = "ready"
  /\ UNCHANGED <<spec, used, checkpoint, episodes, watch, job, driver, rc, upsets>>

OperatorResume ==
  /\ task \in {"human", "suspended"} /\ upsets < MaxUpsets
  /\ task' = "ready" /\ upsets' = upsets + 1
  /\ UNCHANGED <<spec, used, checkpoint, episodes, watch, job, driver, rc>>

ReplaceSpec ==
  /\ task \notin {"running", "stopping"} /\ spec < MaxSpec
  /\ task' = "ready" /\ spec' = spec + 1 /\ used' = 0 /\ checkpoint' = 0
  /\ UNCHANGED <<episodes, watch, job, driver, rc, upsets>>

Elapse ==
  /\ episodes' = [i \in DOMAIN episodes |->
                    [episodes[i] EXCEPT !.deadline = NotNegative(@ - 1)]]
  /\ watch' = [watch EXCEPT !.wall = NotNegative(@ - 1), !.idle = Least(@ + 1, NoProgress)]
  /\ <<episodes', watch'>> # <<episodes, watch>>
  /\ UNCHANGED <<taskVars, job, driver, rc, upsets>>

Crash ==
  /\ upsets < MaxUpsets /\ upsets' = upsets + 1
  /\ rc.pc \in {"complete", "consume"} => CrashInFinish
  /\ rc' = Idle /\ driver' = 0
  /\ UNCHANGED <<taskVars, episodes, watch, job>>

-----------------------------------------------------------------------------
Init ==
  /\ task = "ready" /\ spec = 1 /\ used = 0 /\ checkpoint = 0
  /\ episodes = <<>> /\ watch = [wall |-> 0, idle |-> 0, fault |-> "none", same |-> 0]
  /\ job = [a \in Attempts |-> NoJob]
  /\ driver = 0 /\ rc = Idle /\ upsets = 0

Drive == Prepare \/ HardDeadline \/ Refused
Settle == \/ Terminate \/ Finalize \/ Finish \/ VerifyFails \/ EvidenceRefused
          \/ ConfirmCancel \/ Complete \/ Consume
Operate == Cancel \/ ResumeSuspended \/ OperatorResume \/ ReplaceSpec

Next ==
  \/ Claim \/ Drive \/ Recover \/ Settle \/ CancelReaches \/ CancelFails
  \/ \E a \in Attempts : Observe(a) \/ GiveUp(a) \/ Suspend(a)
  \/ Operate \/ Elapse \/ Crash

Spec == Init /\ [][Next]_vars

(* Time passes, drivers and ticks run, every open job has its turn, leases *)
(* expire, and outages end.  Nothing is assumed of the processes.          *)
Fairness ==
  /\ WF_vars(Elapse) /\ WF_vars(Drive) /\ WF_vars(Recover) /\ WF_vars(Settle)
  /\ SF_vars(CancelReaches)
  /\ \A a \in Attempts : SF_vars(Observe(a))

FairSpec == Spec /\ Fairness

-----------------------------------------------------------------------------
(* Properties.                                                             *)

EpisodeRow ==
  [spec : 1..MaxSpec, status : {"active", "terminated", "completed", "circuit_open"},
   recovery : 0..3, deadline : 0..Deadline, processes : 0..MaxProcesses]

EpisodeTypeOK ==
  /\ task \in {"ready", "running", "stopping", "human", "suspended", "over"}
  /\ spec \in 1..MaxSpec /\ used \in 0..MaxAttempts /\ checkpoint \in 0..(MaxSpec * MaxAttempts)
  /\ episodes \in Seq(EpisodeRow)
  /\ watch \in [wall : 0..Deadline, idle : 0..NoProgress, fault : Faults \cup {"none", "human"}, same : 0..SameFaults]
  /\ job \in [Attempts -> [episode : 0..MaxEpisodes, says : Verdicts \cup {"running"},
                           done : BOOLEAN]]
  /\ driver \in 0..(MaxSpec * MaxAttempts) /\ upsets \in 0..MaxUpsets

(* An episode that is not the latest is over: prepare, which looks only at *)
(* the latest, never leaves a process in an episode nobody bounds.         *)
OneActive == \A i \in DOMAIN episodes : episodes[i].status = "active" => i = Len(episodes)

(* No recovery and no extension gives a specification more time: all its   *)
(* episodes share one deadline, and the wall clock ends before it.         *)
DeadlineInherited ==
  /\ episodes # <<>> => watch.wall <= Latest.deadline
  /\ \A i, k \in DOMAIN episodes :
       episodes[i].spec = episodes[k].spec => episodes[i].deadline = episodes[k].deadline

(* However often faults, outages, crashes and operators restart it, one    *)
(* specification costs at most a full ladder of processes per attempt.     *)
ProcessesOf(s) == UNION {{i} \X (1..episodes[i].processes) : i \in EpisodesOf(s)}
SpendBounded ==
  \A s \in 1..spec : Cardinality(ProcessesOf(s)) <= MaxAttempts * 4 * MaxProcesses

(* A task that recovery or a verdict made ready is not stuck: an episode   *)
(* that goes on has room for one more process.                             *)
ReadyMayStart ==
  task = "ready" /\ rc.pc # "complete" /\ Continues => Latest.processes < MaxProcesses

(* A task does not run for ever: even if its processes never end, the      *)
(* ladder does.                                                            *)
LadderEnds == <>[](task # "running")
=============================================================================
