-------------------------- MODULE TaskServiceProofs --------------------------
(***************************************************************************)
(* Proofs about TaskStore and about TaskService, which drives it, for any   *)
(* finite set of tasks, any roles, resources and limits.                    *)
(*                                                                         *)
(* The store first.  Most operator actions move the status of one task out  *)
(* of the active ones and touch no lease, worker or job: MoveStep settles   *)
(* them at once, and each theorem then looks at the actions that are left.  *)
(*                                                                         *)
(* Then the service, in three layers, each of which uses the one before:    *)
(* Typed, with which every attempt and run that a thread names exists;      *)
(* RowsInv, who has which row of a run while its process may live; CalmInv, *)
(* that a driver, a reconciler and an unconsumed job speak of the run that  *)
(* is active, unless one of the premises of Calm fails.                     *)
(***************************************************************************)
EXTENDS TaskService, FiniteSetTheorems, TLAPS


IdleStatus == Status \ Active

(* The steps that only take one task out of the active statuses.            *)
MovesToIdle ==
  \E t \in Tasks, to \in IdleStatus : Move(t, Status, to)

(* The transactions of a run, of recovery and of time.                      *)
RunStep ==
  \/ \E t \in Tasks : Claim(t)
  \/ \E t \in Tasks : PrepareByHolder(t)
  \/ \E t \in Tasks : PreDispatchFault(t)
  \/ \E t \in Tasks : MarkVerifying(t)
  \/ \E t \in Tasks : RequestCancel(t)
  \/ \E t \in Tasks : FinalizeCancel(t)
  \/ \E t \in Tasks : \E a \in 1..Len(attemptSpec[t]), passed, again \in BOOLEAN :
       Finish(t, a, passed, again)
  \/ \E t \in Tasks : ReplaceSpec(t)
  \/ \E t \in Tasks : Expire(t)
  \/ \E t \in Tasks : Renew(t)
  \/ \E j \in jobs : Consume(j)
  \/ \E j \in jobs, action \in DOMAIN FaultTarget : HostFault(j, action)
  \/ Recover

(* The actions of operators and suspension are moves to an idle status, and *)
(* what is left is the transaction of the Goals.                           *)
LEMMA StepKinds == TypeOK /\ StoreNext => RunStep \/ MovesToIdle \/ Advance
<1> SUFFICES ASSUME TypeOK, StoreNext PROVE RunStep \/ MovesToIdle \/ Advance
  OBVIOUS
<1> USE DEF TypeOK, IdleStatus, Status, Active, Suspended, Done
<1>1. ASSUME NEW t \in Tasks,
             \/ Pause(t) \/ Resume(t) \/ AskHuman(t) \/ CancelIdle(t)
             \/ \E kind \in Suspended : Suspend(t, kind)
             \/ ResumeSuspended(t) \/ OperatorResume(t) \/ SwitchProvider(t)
             \/ Escalate(t)
      PROVE  MovesToIdle
  <2>1. \E to \in IdleStatus, from \in SUBSET Status : Move(t, from, to)
    <3>1. ReadyOrBlocked(t) \in IdleStatus
      BY DEF ReadyOrBlocked
    <3>2. CASE Pause(t) BY <3>2 DEF Pause
    <3>3. CASE Resume(t) BY <3>1, <3>3 DEF Resume
    <3>4. CASE AskHuman(t) BY <3>4 DEF AskHuman
    <3>5. CASE CancelIdle(t) BY <3>5 DEF CancelIdle
    <3>6. CASE \E kind \in Suspended : Suspend(t, kind) BY <3>6 DEF Suspend
    <3>7. CASE ResumeSuspended(t) BY <3>7 DEF ResumeSuspended
    <3>8. CASE OperatorResume(t) BY <3>8 DEF OperatorResume
    <3>9. CASE SwitchProvider(t) BY <3>9 DEF SwitchProvider
    <3>10. CASE Escalate(t) BY <3>10 DEF Escalate
    <3> QED BY <1>1, <3>2, <3>3, <3>4, <3>5, <3>6, <3>7, <3>8, <3>9, <3>10
  <2>2. PICK to \in IdleStatus, from \in SUBSET Status : Move(t, from, to)
    BY <2>1
  <2>3. Move(t, Status, to)
    BY <2>2 DEF Move
  <2> QED BY <2>3 DEF MovesToIdle
<1> QED BY <1>1 DEF StoreNext, RunStep

(* What advance does to a task: it moves idle items to idle statuses, and   *)
(* raises the specification of those it replans.                           *)
LEMMA AdvanceActs ==
  ASSUME TypeOK, Advance
  PROVE  /\ UNCHANGED <<attemptSpec, run, checkpoint, lease, worker, jobs>>
         /\ status' \in [Tasks -> Status] /\ spec' \in [Tasks -> 1..MaxSpec]
         /\ attempts' \in [Tasks -> Nat] /\ failures' \in [Tasks -> Nat]
         /\ proven' \in [Tasks -> BOOLEAN]
         /\ \A t \in Tasks :
              /\ status'[t] # status[t] => status[t] \notin Active /\ status'[t] \notin Active
              /\ status[t] \in Active => spec'[t] = spec[t]
              /\ status[t] \in Done /\ status'[t] # status[t] => Withdrawn(t)
<1> USE DEF TypeOK, Active, Done
<1>0. PICK moved \in SUBSET Items :
        \E to \in [moved -> {"ready", "paused", "terminal_failed", "cancelled"}] :
          AdvanceItems(moved, to)
  BY DEF Advance
<1>1. PICK to \in [moved -> {"ready", "paused", "terminal_failed", "cancelled"}] :
        AdvanceItems(moved, to)
  BY <1>0
<1> DEFINE replanned == {t \in moved : Replans(t, to[t])}
           reset     == replanned \cup {t \in moved : Invalidates(t, to[t])}
<1>2. UNCHANGED <<attemptSpec, run, checkpoint, lease, worker, jobs>>
  BY <1>1 DEF AdvanceItems, KeepHistory, KeepHolds
<1>3. status' = [t \in Tasks |-> IF t \in moved THEN to[t] ELSE status[t]]
  BY <1>1 DEF AdvanceItems
<1>4. spec' = [t \in Tasks |-> IF t \in replanned THEN spec[t] + 1 ELSE spec[t]]
  BY <1>1 DEF AdvanceItems
<1>5. /\ attempts' = [t \in Tasks |-> IF t \in reset THEN 0 ELSE attempts[t]]
      /\ failures' = [t \in Tasks |-> IF t \in replanned THEN 0 ELSE failures[t]]
      /\ proven' = [t \in Tasks |-> proven[t] /\ t \notin reset]
  BY <1>1 DEF AdvanceItems
<1>6. \A t \in moved : Replans(t, to[t]) \/ Exhausts(t, to[t]) \/ Invalidates(t, to[t])
                         \/ Gates(t, to[t])
  BY <1>1 DEF AdvanceItems
<1> HIDE DEF replanned, reset
<1>7. status' \in [Tasks -> Status]
  BY <1>3 DEF Status
<1>8. spec' \in [Tasks -> 1..MaxSpec]
  <2>1. ASSUME NEW t \in Tasks, t \in replanned PROVE spec[t] + 1 \in 1..MaxSpec
    BY <2>1, StoreAssumption DEF replanned, Replans
  <2> QED BY <1>4, <2>1
<1>9. /\ attempts' \in [Tasks -> Nat] /\ failures' \in [Tasks -> Nat]
      /\ proven' \in [Tasks -> BOOLEAN]
  BY <1>5
<1>10. ASSUME NEW t \in Tasks, t \notin moved
       PROVE  status'[t] = status[t] /\ spec'[t] = spec[t]
  BY <1>3, <1>4, <1>10 DEF replanned
<1>11. ASSUME NEW t \in Tasks, t \in moved
       PROVE  /\ status[t] \notin Active /\ status'[t] \notin Active
              /\ status[t] \in Done => Withdrawn(t)
  <2>1. status'[t] = to[t] /\ t \in Items
    BY <1>3, <1>11
  <2>2. CASE Replans(t, to[t])
    BY <2>1, <2>2 DEF Replans
  <2>3. CASE Exhausts(t, to[t])
    BY <2>1, <2>3 DEF Exhausts
  <2>4. CASE Gates(t, to[t])
    BY <2>1, <2>4 DEF Gates
  <2>5. CASE Invalidates(t, to[t])
    <3>1. t \in reset
      BY <1>11, <2>5 DEF reset
    <3>2. ~proven'[t]
      BY <1>5, <3>1
    <3> QED BY <2>1, <2>5, <3>2 DEF Invalidates, Withdrawn
  <2> QED BY <1>6, <1>11, <2>2, <2>3, <2>4, <2>5
<1> QED BY <1>2, <1>7, <1>8, <1>9, <1>10, <1>11

-----------------------------------------------------------------------------
(* TypeOK.                                                                 *)

(* A step keeps every variable in its type, and a task has no more attempts *)
(* than runs, so that the attempt of a job or of a checkpoint is a number   *)
(* of the table of attempts.                                                *)
LEMMA TypeStep == TypeOK /\ [StoreNext]_storeVars => TypeOK'
<1> SUFFICES ASSUME TypeOK, [StoreNext]_storeVars PROVE TypeOK'
  OBVIOUS
<1> USE StoreAssumption DEF TypeOK
<1>1. CASE UNCHANGED storeVars
  BY <1>1 DEF storeVars, taskVars
<1>2. CASE MovesToIdle
  BY <1>2 DEF MovesToIdle, Move, SetStatus, KeepHistory, KeepHolds, IdleStatus
<1>3. CASE RunStep
  <2>1. ASSUME NEW t \in Tasks, Claim(t) PROVE TypeOK'
    <3>1. Append(attemptSpec[t], spec[t]) \in Seq(1..MaxSpec)
          /\ Len(Append(attemptSpec[t], spec[t])) = Len(attemptSpec[t]) + 1
      OBVIOUS
    <3>2. run[t] + 1 \in 0..MaxRuns
      BY <2>1 DEF Claim
    <3>3. attemptSpec' \in [Tasks -> Seq(1..MaxSpec)] /\ run' \in [Tasks -> 0..MaxRuns]
      BY <2>1, <3>1, <3>2 DEF Claim
    <3>4. \A u \in Tasks : Len(attemptSpec'[u]) <= run'[u]
      <4>1. ASSUME NEW u \in Tasks, u # t PROVE Len(attemptSpec'[u]) <= run'[u]
        BY <2>1, <4>1 DEF Claim
      <4>2. Len(attemptSpec'[t]) <= run'[t]
        <5>1. run'[t] = run[t] + 1
          BY <2>1 DEF Claim
        <5>2. attemptSpec'[t] \in {attemptSpec[t], Append(attemptSpec[t], spec[t])}
          BY <2>1 DEF Claim
        <5> QED BY <3>1, <5>1, <5>2
      <4> QED BY <4>1, <4>2
    <3>5. status' \in [Tasks -> Status]
      BY <2>1 DEF Claim, SetStatus, Status, Active
    <3>6. /\ attempts' \in [Tasks -> Nat]
          /\ checkpoint' \in [Tasks -> 0..MaxRuns]
          /\ lease' \in [Tasks -> {"none", "live", "expired"}]
          /\ worker' \in [Roles -> Tasks \cup {NoTask}]
      BY <2>1 DEF Claim, Consumed
    <3> QED BY <2>1, <3>3, <3>4, <3>5, <3>6 DEF Claim
  <2>2. ASSUME NEW t \in Tasks, PrepareByHolder(t) PROVE TypeOK'
    <3>1. PICK a \in 1..Len(attemptSpec[t]) : Prepare(t, a, run[t])
      BY <2>2 DEF PrepareByHolder
    <3>2. a \in 1..MaxRuns /\ run[t] \in 1..MaxRuns
      OBVIOUS
    <3>3. jobs' \subseteq Job
      BY <3>1, <3>2 DEF Prepare, Job
    <3> QED BY <3>1, <3>3 DEF Prepare, KeepHistory, taskVars
  <2>3. ASSUME NEW t \in Tasks, PreDispatchFault(t) PROVE TypeOK'
    BY <2>3 DEF PreDispatchFault, SetStatus, Release, KeepHistory, Status
  <2>4. ASSUME NEW t \in Tasks, MarkVerifying(t) PROVE TypeOK'
    BY <2>4 DEF MarkVerifying, SetStatus, KeepHistory, KeepHolds, Status, Active
  <2>5. ASSUME NEW t \in Tasks, RequestCancel(t) PROVE TypeOK'
    BY <2>5 DEF RequestCancel, SetStatus, KeepHistory, KeepHolds, Status, Active
  <2>6. ASSUME NEW t \in Tasks, FinalizeCancel(t) PROVE TypeOK'
    BY <2>6 DEF FinalizeCancel, SetStatus, Release, KeepHistory, Status, Done
  <2>7. ASSUME NEW t \in Tasks,
               \E a \in 1..Len(attemptSpec[t]), passed, again \in BOOLEAN :
                 Finish(t, a, passed, again)
        PROVE  TypeOK'
    <3>0. PICK a \in 1..Len(attemptSpec[t]), passed \in BOOLEAN, again \in BOOLEAN :
                 Finish(t, a, passed, again)
      BY <2>7
    <3> DEFINE count == IF passed THEN 0 ELSE IF again THEN failures[t] + 1 ELSE 1
    <3>1. count \in Nat
      OBVIOUS
    <3>2. FinishTarget(t, passed, count) \in Status
      BY DEF FinishTarget, Status, Done
    <3> QED BY <3>0, <3>1, <3>2 DEF Finish, SetStatus, Release, KeepHistory
  <2>8. ASSUME NEW t \in Tasks, ReplaceSpec(t) PROVE TypeOK'
    <3>1. spec[t] + 1 \in 1..MaxSpec
      BY <2>8 DEF ReplaceSpec
    <3>2. ReadyOrBlocked(t) \in Status
      BY DEF ReadyOrBlocked, Status
    <3> QED BY <2>8, <3>1, <3>2 DEF ReplaceSpec, SetStatus, Consumed, KeepHolds
  <2>9. ASSUME NEW t \in Tasks, Expire(t) \/ Renew(t) PROVE TypeOK'
    BY <2>9 DEF Expire, Renew, KeepHistory, taskVars
  <2>10. ASSUME NEW j \in jobs, Consume(j) PROVE TypeOK'
    BY <2>10 DEF Consume, KeepHistory, taskVars
  <2>11. ASSUME NEW j \in jobs, NEW action \in DOMAIN FaultTarget, HostFault(j, action)
         PROVE  TypeOK'
    <3>1. FaultTarget[action] \in Status
      BY DEF FaultTarget, Status, Suspended
    <3>2. j.task \in Tasks /\ j.attempt \in 0..MaxRuns
      BY DEF Job
    <3> QED BY <2>11, <3>1, <3>2 DEF HostFault, SetStatus
  <2>12. ASSUME Recover PROVE TypeOK'
    <3>1. status' \in [Tasks -> Status]
      BY <2>12 DEF Recover, Status
    <3>2. lease' \in [Tasks -> {"none", "live", "expired"}]
      BY <2>12 DEF Recover
    <3>3. worker' \in [Roles -> Tasks \cup {NoTask}]
      BY <2>12 DEF Recover
    <3> QED BY <2>12, <3>1, <3>2, <3>3 DEF Recover, KeepHistory
  <2> QED BY <1>3, <2>1, <2>2, <2>3, <2>4, <2>5, <2>6, <2>7, <2>8, <2>9, <2>10,
             <2>11, <2>12 DEF RunStep
<1>4. CASE Advance
  BY <1>4, AdvanceActs
<1> QED BY <1>1, <1>2, <1>3, <1>4, StepKinds

(* Every reachable state of the store is well typed.                        *)
THEOREM TypeCorrect == StoreSpec => []TypeOK
<1>1. StoreInit => TypeOK
  BY StoreAssumption DEF StoreInit, TypeOK, Status
<1> QED BY <1>1, TypeStep, PTL DEF StoreSpec

-----------------------------------------------------------------------------
(* What the invariants below need to know of a step.                       *)

(* A move to an idle status makes no task active and leaves every hold.     *)
LEMMA MoveStep ==
  TypeOK /\ (MovesToIdle \/ Advance) =>
    /\ UNCHANGED <<lease, worker, jobs, checkpoint>>
    /\ \A t \in Tasks : status'[t] \in Active => status[t] \in Active
<1>1. TypeOK /\ MovesToIdle =>
        /\ UNCHANGED <<lease, worker, jobs, checkpoint>>
        /\ \A t \in Tasks : status'[t] \in Active => status[t] \in Active
  BY DEF TypeOK, MovesToIdle, Move, SetStatus, KeepHistory, KeepHolds, IdleStatus
<1> QED BY <1>1, AdvanceActs

(* The status a fault leaves is idle.                                       *)
LEMMA FaultsEndRuns == \A action \in DOMAIN FaultTarget : FaultTarget[action] \notin Active
BY DEF FaultTarget, Active

(* Only a claim makes an idle task active.                                  *)
LEMMA ActivatedByClaim ==
  ASSUME TypeOK, RunStep, NEW t \in Tasks, ~Claim(t), status'[t] \in Active
  PROVE  status[t] \in Active
<1> USE DEF TypeOK, Active
<1>1. ASSUME NEW u \in Tasks, Claim(u) PROVE status[t] \in Active
  BY <1>1 DEF Claim, SetStatus
<1>2. ASSUME NEW u \in Tasks,
             \/ PrepareByHolder(u) \/ PreDispatchFault(u) \/ MarkVerifying(u)
             \/ RequestCancel(u) \/ FinalizeCancel(u) \/ Expire(u) \/ Renew(u)
      PROVE  status[t] \in Active
  BY <1>2 DEF PrepareByHolder, Prepare, PreDispatchFault, MarkVerifying, RequestCancel,
              FinalizeCancel, Expire, Renew, SetStatus, taskVars
<1>3. ASSUME NEW u \in Tasks,
             \E a \in 1..Len(attemptSpec[u]), passed, again \in BOOLEAN :
               Finish(u, a, passed, again)
      PROVE  status[t] \in Active
  BY <1>3 DEF Finish, SetStatus
<1>4. ASSUME NEW u \in Tasks, ReplaceSpec(u) PROVE status[t] \in Active
  BY <1>4 DEF ReplaceSpec, SetStatus, ReadyOrBlocked
<1>5. ASSUME NEW j \in jobs, Consume(j) PROVE status[t] \in Active
  BY <1>5 DEF Consume, taskVars
<1>6. ASSUME NEW j \in jobs, NEW action \in DOMAIN FaultTarget, HostFault(j, action)
      PROVE  status[t] \in Active
  BY <1>6, FaultsEndRuns DEF HostFault, SetStatus
<1>7. ASSUME Recover PROVE status[t] \in Active
  BY <1>7 DEF Recover
<1> QED BY <1>1, <1>2, <1>3, <1>4, <1>5, <1>6, <1>7 DEF RunStep

(* Only a claim takes a row of the lease tables, and renewal never makes    *)
(* one: every other step keeps or drops the rows there are.                 *)
LEMMA LeasedByClaim ==
  ASSUME TypeOK, RunStep, NEW t \in Tasks, ~Claim(t), lease'[t] # "none"
  PROVE  lease[t] # "none"
<1> USE DEF TypeOK
<1>1. ASSUME NEW u \in Tasks, Claim(u) PROVE lease[t] # "none"
  BY <1>1 DEF Claim
<1>2. ASSUME NEW u \in Tasks,
             \/ PrepareByHolder(u) \/ PreDispatchFault(u) \/ MarkVerifying(u)
             \/ RequestCancel(u) \/ FinalizeCancel(u) \/ Expire(u) \/ Renew(u)
             \/ ReplaceSpec(u)
      PROVE  lease[t] # "none"
  BY <1>2 DEF PrepareByHolder, Prepare, PreDispatchFault, MarkVerifying, RequestCancel,
              FinalizeCancel, Expire, Renew, ReplaceSpec, Release, KeepHolds
<1>3. ASSUME NEW u \in Tasks,
             \E a \in 1..Len(attemptSpec[u]), passed, again \in BOOLEAN :
               Finish(u, a, passed, again)
      PROVE  lease[t] # "none"
  BY <1>3 DEF Finish, Release
<1>4. ASSUME NEW j \in jobs, Consume(j) PROVE lease[t] # "none"
  BY <1>4 DEF Consume
<1>5. ASSUME NEW j \in jobs, NEW action \in DOMAIN FaultTarget, HostFault(j, action)
      PROVE  lease[t] # "none"
  BY <1>5 DEF HostFault
<1>6. ASSUME Recover PROVE lease[t] # "none"
  BY <1>6 DEF Recover
<1> QED BY <1>1, <1>2, <1>3, <1>4, <1>5, <1>6 DEF RunStep

-----------------------------------------------------------------------------
(* The lease tables.                                                       *)

LEMMA ResourceExclusionStep ==
  TypeOK /\ ResourceExclusion /\ [StoreNext]_storeVars => ResourceExclusion'
<1> SUFFICES ASSUME TypeOK, ResourceExclusion, [StoreNext]_storeVars,
                    NEW t \in Tasks, NEW u \in Tasks, t # u,
                    lease'[t] # "none", lease'[u] # "none"
             PROVE  ResourceOf[t] # ResourceOf[u]
  BY DEF ResourceExclusion
<1>1. CASE lease[t] # "none" /\ lease[u] # "none"
  BY <1>1 DEF ResourceExclusion
<1>2. CASE RunStep
  <2>1. ASSUME Claim(t) PROVE ResourceOf[t] # ResourceOf[u]
    <3>1. lease[u] = "live"
      BY <2>1 DEF Claim, TypeOK
    <3> QED BY <2>1, <3>1 DEF Claim, CanClaim
  <2>2. ASSUME Claim(u) PROVE ResourceOf[t] # ResourceOf[u]
    <3>1. lease[t] = "live"
      BY <2>2 DEF Claim, TypeOK
    <3> QED BY <2>2, <3>1 DEF Claim, CanClaim
  <2> QED BY <1>1, <1>2, <2>1, <2>2, LeasedByClaim
<1>3. CASE MovesToIdle \/ Advance \/ UNCHANGED storeVars
  BY <1>1, <1>3, MoveStep DEF storeVars
<1> QED BY <1>2, <1>3, StepKinds

(* No resource key is ever locked by two tasks, for any tasks, roles and    *)
(* resources and whatever threads call the repositories.                    *)
THEOREM ResourcesExclusive == StoreSpec => []ResourceExclusion
<1>1. StoreInit => ResourceExclusion
  BY DEF StoreInit, ResourceExclusion
<1> QED BY <1>1, TypeCorrect, ResourceExclusionStep, PTL DEF StoreSpec

-----------------------------------------------------------------------------
(* Workers.                                                                *)

LEMMA WorkerServesOneStep ==
  TypeOK /\ WorkerServesOne /\ [StoreNext]_storeVars => WorkerServesOne'
<1> SUFFICES ASSUME TypeOK, WorkerServesOne, [StoreNext]_storeVars,
                    NEW t \in Tasks, status'[t] \in Active
             PROVE  worker'[RoleOf[t]] = t
  BY DEF WorkerServesOne
<1> USE StoreAssumption
<1> DEFINE r == RoleOf[t]
<1>1. r \in Roles
  OBVIOUS
<1>2. CASE RunStep
  <2>1. ASSUME Claim(t) PROVE worker'[r] = t
    BY <1>1, <2>1 DEF Claim, TypeOK
  <2>2. ASSUME ~Claim(t) PROVE worker'[r] = t
    <3>1. status[t] \in Active /\ worker[r] = t
      BY <1>2, <2>2, ActivatedByClaim DEF WorkerServesOne
    <3>2. t # NoTask
      OBVIOUS
    <3>3. ASSUME NEW u \in Tasks, Claim(u) PROVE worker'[r] = t
      <4>1. RoleOf[u] # r
        BY <3>1, <3>2, <3>3 DEF Claim, CanClaim
      <4> QED BY <1>1, <3>1, <3>3, <4>1 DEF Claim, TypeOK
    <3>4. ASSUME NEW u \in Tasks, Release(u), status'[u] \notin Active PROVE worker'[r] = t
      BY <1>1, <3>1, <3>4 DEF Release
    <3>5. ASSUME NEW u \in Tasks, PreDispatchFault(u) \/ FinalizeCancel(u)
          PROVE  worker'[r] = t
      BY <3>4, <3>5 DEF PreDispatchFault, FinalizeCancel, SetStatus, TypeOK, Active
    <3>6. ASSUME NEW u \in Tasks,
                 \E a \in 1..Len(attemptSpec[u]), passed, again \in BOOLEAN :
                   Finish(u, a, passed, again)
          PROVE  worker'[r] = t
      BY <3>4, <3>6 DEF Finish, FinishTarget, SetStatus, TypeOK, Active
    <3>7. ASSUME NEW u \in Tasks,
                 \/ PrepareByHolder(u) \/ MarkVerifying(u) \/ RequestCancel(u)
                 \/ Expire(u) \/ Renew(u) \/ ReplaceSpec(u)
          PROVE  worker'[r] = t
      BY <3>1, <3>7 DEF PrepareByHolder, Prepare, MarkVerifying, RequestCancel, Expire,
                        Renew, ReplaceSpec, KeepHolds
    <3>8. ASSUME NEW j \in jobs, Consume(j) PROVE worker'[r] = t
      BY <3>1, <3>8 DEF Consume
    <3>9. ASSUME NEW j \in jobs, NEW action \in DOMAIN FaultTarget, HostFault(j, action)
          PROVE  worker'[r] = t
      <4>1. j.task \in Tasks
        BY DEF TypeOK, Job
      <4>2. j.task # t
        BY <3>9, FaultsEndRuns, <4>1 DEF HostFault, SetStatus, TypeOK
      <4>3. worker[RoleOf[j.task]] = j.task
        BY <3>9, <4>1 DEF HostFault, WorkerServesOne, Active
      <4>4. RoleOf[j.task] # r
        BY <3>1, <4>2, <4>3
      <4> QED BY <1>1, <3>1, <3>9, <4>4 DEF HostFault, TypeOK
    <3>10. ASSUME Recover PROVE worker'[r] = t
      BY <1>1, <3>1, <3>10 DEF Recover
    <3> QED BY <1>2, <3>3, <3>5, <3>6, <3>7, <3>8, <3>9, <3>10 DEF RunStep
  <2> QED BY <2>1, <2>2
<1>3. CASE MovesToIdle \/ Advance \/ UNCHANGED storeVars
  BY <1>3, MoveStep DEF storeVars, taskVars, WorkerServesOne
<1> QED BY <1>2, <1>3, StepKinds

(* The worker of a role is busy with the active task of that role, so that  *)
(* a role never runs two tasks at once.                                     *)
THEOREM WorkersServeOne == StoreSpec => []WorkerServesOne
<1>1. StoreInit => WorkerServesOne
  BY DEF StoreInit, WorkerServesOne, Active
<1> QED BY <1>1, TypeCorrect, WorkerServesOneStep, PTL DEF StoreSpec

-----------------------------------------------------------------------------
(* Checkpoints.                                                            *)

LEMMA ResumedOnceStep ==
  TypeOK /\ ResumedOnce /\ [StoreNext]_storeVars => ResumedOnce'
<1> SUFFICES ASSUME TypeOK, ResumedOnce, [StoreNext]_storeVars,
                    NEW t \in Tasks, status'[t] \in Active
             PROVE  checkpoint'[t] = 0
  BY DEF ResumedOnce
<1>1. CASE RunStep
  <2>1. ASSUME Claim(t) PROVE checkpoint'[t] = 0
    BY <2>1 DEF Claim, Consumed, TypeOK
  <2>2. ASSUME ~Claim(t) PROVE checkpoint'[t] = 0
    <3>1. checkpoint[t] = 0
      BY <1>1, <2>2, ActivatedByClaim DEF ResumedOnce
    <3>2. ASSUME NEW u \in Tasks, Claim(u) \/ ReplaceSpec(u) PROVE checkpoint'[t] = 0
      BY <3>1, <3>2 DEF Claim, ReplaceSpec, Consumed, TypeOK
    <3>3. ASSUME NEW u \in Tasks,
                 \/ PrepareByHolder(u) \/ PreDispatchFault(u) \/ MarkVerifying(u)
                 \/ RequestCancel(u) \/ FinalizeCancel(u) \/ Expire(u) \/ Renew(u)
          PROVE  checkpoint'[t] = 0
      BY <3>1, <3>3 DEF PrepareByHolder, Prepare, PreDispatchFault, MarkVerifying,
                        RequestCancel, FinalizeCancel, Expire, Renew, KeepHistory
    <3>4. ASSUME NEW u \in Tasks,
                 \E a \in 1..Len(attemptSpec[u]), passed, again \in BOOLEAN :
                   Finish(u, a, passed, again)
          PROVE  checkpoint'[t] = 0
      BY <3>1, <3>4 DEF Finish, KeepHistory
    <3>5. ASSUME NEW j \in jobs, Consume(j) PROVE checkpoint'[t] = 0
      BY <3>1, <3>5 DEF Consume, KeepHistory
    <3>6. ASSUME NEW j \in jobs, NEW action \in DOMAIN FaultTarget, HostFault(j, action)
          PROVE  checkpoint'[t] = 0
      <4>1. j.task \in Tasks
        BY DEF TypeOK, Job
      <4>2. j.task # t
        BY <3>6, <4>1, FaultsEndRuns DEF HostFault, SetStatus, TypeOK
      <4> QED BY <3>1, <3>6, <4>2 DEF HostFault, TypeOK
    <3>7. ASSUME Recover PROVE checkpoint'[t] = 0
      BY <3>1, <3>7 DEF Recover, KeepHistory
    <3> QED BY <1>1, <3>2, <3>3, <3>4, <3>5, <3>6, <3>7 DEF RunStep
  <2> QED BY <2>1, <2>2
<1>2. CASE MovesToIdle \/ Advance \/ UNCHANGED storeVars
  BY <1>2, MoveStep DEF storeVars, taskVars, ResumedOnce
<1> QED BY <1>1, <1>2, StepKinds

(* While a task is in flight no checkpoint of it is pending: what a fault   *)
(* saved is resumed by one claim.                                           *)
THEOREM CheckpointsResumedOnce == StoreSpec => []ResumedOnce
<1>1. StoreInit => ResumedOnce
  BY DEF StoreInit, ResumedOnce
<1> QED BY <1>1, TypeCorrect, ResumedOnceStep, PTL DEF StoreSpec

-----------------------------------------------------------------------------
(* The system-wide limit.                                                  *)

(* Only a claim brings a task in flight: a Host Job is prepared for a task  *)
(* that already is.                                                         *)
LEMMA InFlightByClaim ==
  ASSUME TypeOK, RunStep, \A t \in Tasks : ~Claim(t)
  PROVE  InFlight' \subseteq InFlight
<1> SUFFICES ASSUME NEW t \in Tasks, t \in InFlight' PROVE t \in InFlight
  BY DEF InFlight
<1>1. CASE status'[t] \in Active
  BY <1>1, ActivatedByClaim DEF InFlight
<1>2. CASE HasJob(t)'
  <2>1. PICK j \in jobs' : j.task = t
    BY <1>2 DEF HasJob
  <2>2. CASE j \in jobs
    BY <2>1, <2>2 DEF InFlight, HasJob
  <2>3. CASE j \notin jobs
    <3>1. ASSUME NEW u \in Tasks, PrepareByHolder(u) PROVE t \in InFlight
      <4>1. u = t
        BY <2>1, <2>3, <3>1 DEF PrepareByHolder, Prepare
      <4> QED BY <3>1, <4>1 DEF PrepareByHolder, InFlight, Active
    <3>2. ASSUME \A u \in Tasks : ~PrepareByHolder(u) PROVE jobs' \subseteq jobs
      <4>1. ASSUME NEW u \in Tasks,
                   \/ PreDispatchFault(u) \/ MarkVerifying(u) \/ RequestCancel(u)
                   \/ FinalizeCancel(u) \/ Expire(u) \/ Renew(u) \/ ReplaceSpec(u)
            PROVE  jobs' \subseteq jobs
        BY <4>1 DEF PreDispatchFault, MarkVerifying, RequestCancel, FinalizeCancel,
                    Expire, Renew, ReplaceSpec, KeepHolds
      <4>2. ASSUME NEW u \in Tasks,
                   \E a \in 1..Len(attemptSpec[u]), passed, again \in BOOLEAN :
                     Finish(u, a, passed, again)
            PROVE  jobs' \subseteq jobs
        BY <4>2 DEF Finish
      <4>3. ASSUME NEW k \in jobs, Consume(k) PROVE jobs' \subseteq jobs
        BY <4>3 DEF Consume
      <4>4. ASSUME NEW k \in jobs, NEW action \in DOMAIN FaultTarget, HostFault(k, action)
            PROVE  jobs' \subseteq jobs
        BY <4>4 DEF HostFault
      <4>5. ASSUME Recover PROVE jobs' \subseteq jobs
        BY <4>5 DEF Recover
      <4> QED BY <3>2, <4>1, <4>2, <4>3, <4>4, <4>5 DEF RunStep
    <3> QED BY <2>1, <2>3, <3>1, <3>2
  <2> QED BY <2>2, <2>3
<1> QED BY <1>1, <1>2 DEF InFlight

LEMMA InFlightBoundStep ==
  TypeOK /\ InFlightBound /\ [StoreNext]_storeVars => InFlightBound'
<1> SUFFICES ASSUME TypeOK, InFlightBound, [StoreNext]_storeVars PROVE InFlightBound'
  OBVIOUS
<1> USE StoreAssumption
<1>1. IsFiniteSet(InFlight) /\ Cardinality(InFlight) \in Nat
  BY FS_Subset, FS_CardinalityType DEF InFlight
<1>2. CASE InFlight' \subseteq InFlight
  BY <1>1, <1>2, FS_Subset, FS_CardinalityType DEF InFlightBound
<1>3. CASE \E t \in Tasks : Claim(t)
  <2>1. PICK t \in Tasks : Claim(t)
    BY <1>3
  <2>2. Cardinality(InFlight) < MaxParallel
    BY <2>1 DEF Claim, CanClaim
  <2>3. InFlight' \subseteq InFlight \cup {t}
    BY <2>1 DEF Claim, SetStatus, InFlight, HasJob, TypeOK
  <2>4. /\ IsFiniteSet(InFlight \cup {t})
        /\ Cardinality(InFlight \cup {t}) <= Cardinality(InFlight) + 1
        /\ Cardinality(InFlight \cup {t}) \in Nat
    <3>1. /\ IsFiniteSet(InFlight \cup {t})
          /\ Cardinality(InFlight \cup {t}) =
               IF t \in InFlight THEN Cardinality(InFlight) ELSE Cardinality(InFlight) + 1
      BY <1>1, FS_AddElement
    <3> QED BY <1>1, <3>1
  <2>5. IsFiniteSet(InFlight') /\ Cardinality(InFlight') <= Cardinality(InFlight \cup {t})
    BY <2>3, <2>4, FS_Subset
  <2>6. Cardinality(InFlight') \in Nat
    BY <2>5, FS_CardinalityType
  <2>7. Cardinality(InFlight') <= MaxParallel
    BY <1>1, <2>2, <2>4, <2>5, <2>6
  <2> QED BY <2>7 DEF InFlightBound
<1>4. CASE MovesToIdle \/ Advance \/ UNCHANGED storeVars
  <2>1. InFlight' \subseteq InFlight
    BY <1>4, MoveStep DEF storeVars, taskVars, InFlight, HasJob
  <2> QED BY <1>2, <2>1
<1> QED BY <1>2, <1>3, <1>4, InFlightByClaim, StepKinds

(* max_parallel_workers is never exceeded, whatever its value: the claim    *)
(* transaction is a sufficient guard.                                       *)
THEOREM ParallelismBounded == StoreSpec => []InFlightBound
<1>1. StoreInit => InFlightBound
  <2>1. ASSUME StoreInit PROVE InFlight = {}
    BY <2>1 DEF StoreInit, InFlight, HasJob, Active
  <2>2. Cardinality({}) = 0
    BY FS_EmptySet
  <2>3. ASSUME InFlight = {} PROVE Cardinality(InFlight) <= MaxParallel
    BY <2>2, <2>3, StoreAssumption
  <2> QED BY <2>1, <2>3 DEF InFlightBound
<1> QED BY <1>1, TypeCorrect, InFlightBoundStep, PTL DEF StoreSpec

-----------------------------------------------------------------------------
(* Terminal statuses.                                                      *)

(* A terminal task whose status nobody overrides keeps it until a new       *)
(* specification revision replaces it or its Goal withdraws the completion  *)
(* and its evidence: no late fault, finish, cancellation, suspension, gate  *)
(* or recovery revives it or renames its end.                              *)
THEOREM TerminalsStay == StoreSpec => TerminalUnlessOverridden
<1> DEFINE Step == \A t \in Tasks \ Overridable :
                     status[t] \in Done /\ status'[t] # status[t]
                       => spec'[t] > spec[t] \/ Withdrawn(t)
<1>1. TypeOK /\ [StoreNext]_storeVars => Step
  <2> SUFFICES ASSUME TypeOK, StoreNext, NEW t \in Tasks \ Overridable,
                      status[t] \in Done, status'[t] # status[t]
               PROVE  spec'[t] > spec[t] \/ Withdrawn(t)
    BY DEF storeVars, taskVars
  <2> USE DEF TypeOK, Done, Active, Suspended
  <2>1. ASSUME NEW u \in Tasks, ReplaceSpec(u) PROVE spec'[t] > spec[t]
    BY <2>1 DEF ReplaceSpec, SetStatus
  <2>2. ASSUME NEW u \in Tasks,
               \/ Claim(u) \/ PreDispatchFault(u) \/ MarkVerifying(u)
               \/ RequestCancel(u) \/ FinalizeCancel(u)
        PROVE  FALSE
    BY <2>2 DEF Claim, CanClaim, PreDispatchFault, MarkVerifying, RequestCancel,
                FinalizeCancel, SetStatus
  <2>3. ASSUME NEW u \in Tasks,
               \E a \in 1..Len(attemptSpec[u]), passed, again \in BOOLEAN :
                 Finish(u, a, passed, again)
        PROVE  FALSE
    BY <2>3 DEF Finish, SetStatus
  <2>4. ASSUME NEW u \in Tasks,
               \/ Pause(u) \/ Resume(u) \/ AskHuman(u) \/ CancelIdle(u)
               \/ \E kind \in Suspended : Suspend(u, kind)
               \/ ResumeSuspended(u) \/ OperatorResume(u) \/ SwitchProvider(u)
               \/ Escalate(u)
        PROVE  FALSE
    BY <2>4 DEF Pause, Resume, AskHuman, CancelIdle, Suspend, ResumeSuspended,
                OperatorResume, SwitchProvider, Escalate, Move, SetStatus
  <2>5. ASSUME NEW u \in Tasks, PrepareByHolder(u) \/ Expire(u) \/ Renew(u) PROVE FALSE
    BY <2>5 DEF PrepareByHolder, Prepare, Expire, Renew, taskVars
  <2>6. ASSUME NEW j \in jobs, Consume(j) PROVE FALSE
    BY <2>6 DEF Consume, taskVars
  <2>7. ASSUME NEW j \in jobs, NEW action \in DOMAIN FaultTarget, HostFault(j, action)
        PROVE  FALSE
    BY <2>7 DEF HostFault, SetStatus
  <2>8. ASSUME Recover PROVE FALSE
    BY <2>8 DEF Recover, Stale
  <2>9. ASSUME Advance PROVE Withdrawn(t)
    BY <2>9, AdvanceActs
  <2> QED BY <2>1, <2>2, <2>3, <2>4, <2>5, <2>6, <2>7, <2>8, <2>9 DEF StoreNext
<1> QED BY <1>1, TypeCorrect, PTL DEF StoreSpec, TerminalUnlessOverridden


-----------------------------------------------------------------------------
(* Types.                                                                  *)

(* The attempts that rows, checkpoints and threads name are attempts that   *)
(* the task has made, and their runs are runs it has had.                   *)
InRange(j) ==
  j \in Job /\ j.attempt <= Len(attemptSpec[j.task]) /\ j.run <= run[j.task]

StoreRanges ==
  /\ \A t \in Tasks : checkpoint[t] <= Len(attemptSpec[t])
  /\ \A j \in jobs : InRange(j)

DriverRanges ==
  \A r \in Runs :
    /\ driver[r] # "none" => r[2] <= run[r[1]]
    /\ driver[r] = "claimed" => tries[r] \in 1..Len(attemptSpec[r[1]])

RcRanges ==
  /\ \A j \in rc.queue : InRange(j)
  /\ rc.pc \notin {"idle", "list", "advance", "dispatch"} => InRange(rc.job)

Typed == ServiceTypeOK /\ StoreRanges /\ DriverRanges /\ RcRanges

(* What a step does to the store: what StoreSpec allows, or the job of an   *)
(* older run that a late driver prepares.                                   *)
PrepareByDriver ==
  \E t \in Tasks : \E a \in 1..Len(attemptSpec[t]), n \in 1..run[t] :
    driver[<<t, n>>] = "claimed" /\ Prepare(t, a, n)

StoreAct == StoreNext \/ PrepareByDriver \/ UNCHANGED storeVars

(* Attempts and runs are only added.                                       *)
Grows ==
  \A t \in Tasks : Len(attemptSpec[t]) <= Len(attemptSpec'[t]) /\ run[t] <= run'[t]

(* Where the driver, and where the reconciler, can go without new ranges.   *)
DriverMoves ==
  /\ UNCHANGED tries
  /\ driver' \in [Runs -> {"none", "claimed", "prepared", "waiting", "rejected"}]
  /\ \A r \in Runs : \/ driver'[r] = driver[r] \/ driver'[r] = "none"
                     \/ driver[r] # "none" /\ driver'[r] # "claimed"

RcMoves ==
  \/ UNCHANGED rc \/ rc' = Idle \/ NextJob
  \/ \E pc \in {"advance", "dispatch"} : rc' = [Idle EXCEPT !.pc = pc]
  \/ /\ rc.pc \notin {"idle", "list", "advance", "dispatch"}
     /\ \E pc \in {"boundary", "finish", "contract", "consume"} : RcTo(pc)

(* The variables that are neither of the store nor of these threads.        *)
PlainTypes ==
  /\ host \in [Runs -> {"absent", "sent", "open"} \cup Verdicts]
  /\ proc \in [Runs -> {"none", "alive", "dead"}]
  /\ asked \in [Runs -> BOOLEAN] /\ unsure \in [Runs -> BOOLEAN]
  /\ settled \in [Runs -> {"none", "verifying", "finished"}]
  /\ cancels \in [Tasks -> 0..MaxRuns]
  /\ link \in BOOLEAN /\ trouble \in 0..MaxTrouble

-----------------------------------------------------------------------------
(* A bounded set of numbers has a largest one.                             *)
LEMMA LargestOf ==
  ASSUME NEW S, NEW top \in Nat, S \subseteq 1..top, S # {}
  PROVE  \E n \in S : \A k \in S : k <= n
<1> DEFINE Less == OpToRel(<, Nat)
           Gaps == {top - n : n \in S}
<1>1. IsWellFoundedOn(Less, Nat)
  BY NatLessThanWellFounded
<1>2. \A x, y \in Nat : y < x => <<y, x>> \in Less
  BY DEF OpToRel
<1> HIDE DEF Less
<1>3. Gaps \subseteq Nat /\ Gaps # {}
  <2>1. \A n \in S : n \in 1..top /\ top - n \in Nat
    OBVIOUS
  <2>2. PICK m \in S : TRUE
    OBVIOUS
  <2>3. top - m \in Gaps
    OBVIOUS
  <2> QED BY <2>1, <2>3
<1>4. PICK x \in Gaps : \A y \in Gaps : <<y, x>> \notin Less
  <2> HIDE DEF Gaps
  <2> QED BY <1>1, <1>3, WFMin
<1>5. PICK n \in S : x = top - n
  OBVIOUS
<1>6. ASSUME NEW k \in S PROVE k <= n
  <2>1. top - k \in Gaps
    OBVIOUS
  <2>2. ~(top - k < x)
    BY <1>3, <1>2, <1>4, <2>1
  <2> QED BY <1>5, <2>2
<1> QED BY <1>6

(* The job that control(cancel) finds is a job of its task.                *)
LEMMA LastJobFound ==
  ASSUME TypeOK, NEW t \in Tasks, HasJob(t)
  PROVE  LastJob(t) \in jobs /\ LastJob(t).task = t
<1> DEFINE S == {j.run : j \in {k \in jobs : k.task = t}}
<1>1. S \subseteq 1..MaxRuns /\ S # {} /\ MaxRuns \in Nat
  BY SMTT(30), StoreAssumption DEF HasJob, TypeOK, Job
<1>2. PICK n \in S : \A k \in S : k <= n
  BY <1>1, LargestOf
<1>3. PICK j \in jobs : j.task = t /\ j.run = n
  OBVIOUS
<1>4. \A k \in jobs : k.task = t => k.run <= j.run
  BY <1>2, <1>3
<1>5. \E k \in jobs : k.task = t /\ \A m \in jobs : m.task = t => m.run <= k.run
  BY <1>3, <1>4
<1> QED BY <1>5 DEF LastJob

-----------------------------------------------------------------------------
(* The store keeps its type and its ranges.                                *)
LEMMA StoreGrows ==
  ASSUME TypeOK, StoreRanges, StoreAct
  PROVE  /\ Grows
         /\ \A t \in Tasks : checkpoint'[t] <= Len(attemptSpec[t])
         /\ \A j \in jobs' : j \in jobs \/ InRange(j)
<1> DEFINE Goal == /\ Grows
                   /\ \A t \in Tasks : checkpoint'[t] <= Len(attemptSpec[t])
                   /\ \A j \in jobs' : j \in jobs \/ InRange(j)
<1> USE StoreAssumption DEF TypeOK, StoreRanges, Grows
<1>1. \A t \in Tasks : Len(attemptSpec[t]) \in Nat /\ run[t] \in 0..MaxRuns
                        /\ checkpoint[t] \in 0..MaxRuns
  OBVIOUS
<1>2. ASSUME UNCHANGED <<attemptSpec, run, checkpoint>>, jobs' \subseteq jobs PROVE Goal
  BY <1>1, <1>2
<1>3. ASSUME NEW t \in Tasks, NEW a \in 1..Len(attemptSpec[t]), NEW n \in 1..run[t],
             Prepare(t, a, n)
      PROVE  Goal
  <2> DEFINE j == [task |-> t, run |-> n, attempt |-> a, spec |-> spec[t]]
  <2>1. j \in Job
    <3>1. a \in 1..MaxRuns /\ n \in 1..MaxRuns /\ spec[t] \in 1..MaxSpec
      BY <1>1
    <3> QED BY <3>1 DEF Job
  <2>2. jobs' = jobs \cup {j} /\ UNCHANGED <<attemptSpec, run, checkpoint>>
    BY <1>3 DEF Prepare, KeepHistory
  <2>3. j.task = t /\ j.attempt = a /\ j.run = n
    OBVIOUS
  <2> HIDE DEF j
  <2> QED BY <1>1, <2>1, <2>2, <2>3 DEF InRange
<1>4. CASE PrepareByDriver
  BY <1>3, <1>4 DEF PrepareByDriver
<1>5. CASE UNCHANGED storeVars
  BY <1>2, <1>5 DEF storeVars
<1>6. CASE MovesToIdle
  BY <1>2, <1>6, MoveStep DEF MovesToIdle, Move, KeepHistory
<1>8. CASE Advance
  BY <1>2, <1>8, AdvanceActs
<1>7. CASE RunStep
  <2>1. ASSUME NEW t \in Tasks, Claim(t) PROVE Goal
    <3>1. Len(Append(attemptSpec[t], spec[t])) = Len(attemptSpec[t]) + 1
      OBVIOUS
    <3>2. attemptSpec'[t] \in {attemptSpec[t], Append(attemptSpec[t], spec[t])}
      BY <2>1 DEF Claim
    <3>3. run'[t] = run[t] + 1 /\ checkpoint'[t] = 0 /\ jobs' = jobs
      BY <2>1 DEF Claim, Consumed
    <3>4. \A u \in Tasks : u # t => /\ attemptSpec'[u] = attemptSpec[u] /\ run'[u] = run[u]
                                    /\ checkpoint'[u] = checkpoint[u]
      BY <2>1 DEF Claim, Consumed
    <3>5. ASSUME NEW u \in Tasks
          PROVE  /\ Len(attemptSpec[u]) <= Len(attemptSpec'[u]) /\ run[u] <= run'[u]
                 /\ checkpoint'[u] <= Len(attemptSpec[u])
      <4>1. CASE u = t
        BY <1>1, <3>1, <3>2, <3>3, <4>1
      <4>2. CASE u # t
        BY SMTT(30), <1>1, <3>4, <4>2
      <4> QED BY <4>1, <4>2
    <3> QED BY <3>3, <3>5
  <2>2. ASSUME NEW t \in Tasks, PrepareByHolder(t) PROVE Goal
    <3>1. PICK a \in 1..Len(attemptSpec[t]) : Prepare(t, a, run[t])
      BY <2>2 DEF PrepareByHolder
    <3>2. run[t] \in 1..run[t]
      BY <1>1
    <3> QED BY <1>3, <3>1, <3>2
  <2>3. ASSUME NEW t \in Tasks,
               \/ PreDispatchFault(t) \/ MarkVerifying(t) \/ RequestCancel(t)
               \/ FinalizeCancel(t) \/ Expire(t) \/ Renew(t)
        PROVE  Goal
    BY <1>2, <2>3 DEF PreDispatchFault, MarkVerifying, RequestCancel, FinalizeCancel,
                      Expire, Renew, KeepHistory, KeepHolds
  <2>4. ASSUME NEW t \in Tasks,
               \E a \in 1..Len(attemptSpec[t]), passed, again \in BOOLEAN :
                 Finish(t, a, passed, again)
        PROVE  Goal
    BY <1>2, <2>4 DEF Finish, KeepHistory
  <2>5. ASSUME NEW t \in Tasks, ReplaceSpec(t) PROVE Goal
    BY SMTT(30), <1>1, <2>5 DEF ReplaceSpec, Consumed, KeepHolds
  <2>6. ASSUME NEW j \in jobs, Consume(j) PROVE Goal
    BY <1>2, <2>6 DEF Consume, KeepHistory
  <2>7. ASSUME NEW j \in jobs, NEW action \in DOMAIN FaultTarget, HostFault(j, action)
        PROVE  Goal
    <3>1. j.task \in Tasks /\ j.attempt <= Len(attemptSpec[j.task])
      BY DEF InRange, Job
    <3> QED BY <1>1, <2>7, <3>1 DEF HostFault
  <2>8. ASSUME Recover PROVE Goal
    BY <1>2, <2>8 DEF Recover, KeepHistory
  <2> QED BY <1>7, <2>1, <2>2, <2>3, <2>4, <2>5, <2>6, <2>7, <2>8 DEF RunStep
<1> QED BY <1>4, <1>5, <1>6, <1>7, <1>8, StepKinds DEF StoreAct

LEMMA GrowsAt ==
  ASSUME TypeOK, TypeOK', Grows, NEW t \in Tasks
  PROVE  /\ run[t] \in Nat /\ run'[t] \in Nat /\ run[t] <= run'[t]
         /\ Len(attemptSpec[t]) \in Nat /\ Len(attemptSpec'[t]) \in Nat
         /\ Len(attemptSpec[t]) <= Len(attemptSpec'[t])
<1>1. run[t] \in Nat /\ run'[t] \in Nat
  BY DEF TypeOK
<1>2. attemptSpec[t] \in Seq(1..MaxSpec) /\ attemptSpec'[t] \in Seq(1..MaxSpec)
  BY DEF TypeOK
<1>3. Len(attemptSpec[t]) \in Nat /\ Len(attemptSpec'[t]) \in Nat
  BY <1>2
<1> QED BY <1>1, <1>3 DEF Grows

(* What is in range stays in range.                                        *)
LEMMA StaysInRange ==
  ASSUME TypeOK, Grows, TypeOK', NEW j, InRange(j)
  PROVE  InRange(j)'
<1>1. j \in Job /\ j.task \in Tasks /\ j.attempt \in Nat /\ j.run \in Nat
  BY DEF InRange, Job
<1> QED BY <1>1, GrowsAt DEF InRange

LEMMA StoreTyped ==
  ASSUME TypeOK, StoreRanges, StoreAct
  PROVE  TypeOK' /\ StoreRanges' /\ Grows
<1>1. Grows
  BY StoreGrows
<1>2. TypeOK'
  <2>1. CASE StoreNext \/ UNCHANGED storeVars
    BY <2>1, TypeStep
  <2>2. CASE PrepareByDriver
    <3>1. PICK t \in Tasks : \E a \in 1..Len(attemptSpec[t]), n \in 1..run[t] :
                               Prepare(t, a, n)
      BY <2>2 DEF PrepareByDriver
    <3>2. jobs' \subseteq Job
      BY StoreGrows DEF InRange, TypeOK
    <3> QED BY <3>1, <3>2 DEF Prepare, KeepHistory, taskVars, TypeOK
  <2> QED BY <2>1, <2>2 DEF StoreAct
<1>3. StoreRanges'
  <2>1. \A j \in jobs' : InRange(j)
    BY StoreGrows DEF StoreRanges
  <2>2. \A j \in jobs' : InRange(j)'
    BY <1>1, <1>2, <2>1, StaysInRange
  <2>3. ASSUME NEW t \in Tasks PROVE checkpoint'[t] <= Len(attemptSpec'[t])
    <3>1. /\ checkpoint'[t] <= Len(attemptSpec[t])
          /\ Len(attemptSpec[t]) <= Len(attemptSpec'[t])
      BY StoreGrows DEF Grows
    <3>2. /\ checkpoint'[t] \in Nat /\ Len(attemptSpec[t]) \in Nat
          /\ Len(attemptSpec'[t]) \in Nat
      BY <1>2 DEF TypeOK
    <3> QED BY <3>1, <3>2
  <2> QED BY <2>2, <2>3 DEF StoreRanges
<1> QED BY <1>1, <1>2, <1>3

-----------------------------------------------------------------------------
(* The service keeps its type.                                             *)
LEMMA Carried ==
  ASSUME Typed, StoreAct, DriverMoves, RcMoves, PlainTypes' PROVE Typed'
<1>1. TypeOK' /\ StoreRanges' /\ Grows
  BY StoreTyped DEF Typed, ServiceTypeOK
<1>2. \A j : InRange(j) => InRange(j)'
  BY <1>1, StaysInRange DEF Typed, ServiceTypeOK
<1>3. DriverRanges'
  <2>1. ASSUME NEW r \in Runs, driver'[r] # "none" PROVE r[2] <= run'[r[1]]
    <3>1. r[1] \in Tasks /\ r[2] \in Nat
      BY DEF Runs
    <3>2. driver[r] # "none"
      BY <2>1 DEF DriverMoves
    <3>3. r[2] <= run[r[1]]
      BY <3>2 DEF Typed, DriverRanges
    <3>4. run[r[1]] \in Nat /\ run'[r[1]] \in Nat /\ run[r[1]] <= run'[r[1]]
      BY <1>1, <3>1, GrowsAt DEF Typed, ServiceTypeOK
    <3> QED BY <3>1, <3>3, <3>4
  <2>2. ASSUME NEW r \in Runs, driver'[r] = "claimed"
        PROVE  tries'[r] \in 1..Len(attemptSpec'[r[1]])
    <3>1. r[1] \in Tasks
      BY DEF Runs
    <3>2. tries'[r] \in 1..Len(attemptSpec[r[1]])
      BY <2>2 DEF DriverMoves, Typed, DriverRanges
    <3>3. /\ Len(attemptSpec[r[1]]) \in Nat /\ Len(attemptSpec'[r[1]]) \in Nat
          /\ Len(attemptSpec[r[1]]) <= Len(attemptSpec'[r[1]])
      BY <1>1, <3>1, GrowsAt DEF Typed, ServiceTypeOK
    <3> QED BY <3>2, <3>3
  <2> QED BY <2>1, <2>2 DEF DriverRanges
<1>4. /\ rc' \in [pc : {"idle", "list", "poll", "act", "boundary", "suspend", "finish",
                        "contract", "consume", "advance", "dispatch"},
                  queue : SUBSET Job, job : Job \cup {<<>>}, seen : Status \cup {"none"},
                  run : 0..MaxRuns, poll : {"none", "unknown", "open"} \cup Verdicts]
      /\ rc'.pc \notin {"idle", "list", "advance", "dispatch"} =>
           rc'.job = rc.job /\ rc.pc \notin {"idle", "list", "advance", "dispatch"}
      /\ rc'.queue \subseteq rc.queue
  <2> USE DEF Typed, ServiceTypeOK
  <2>1. 0 \in 0..MaxRuns
    BY StoreAssumption
  <2>2. CASE UNCHANGED rc
    BY <2>2
  <2>3. CASE rc' = Idle
    BY <2>1, <2>3 DEF Idle
  <2>4. CASE NextJob
    BY <2>1, <2>4 DEF NextJob, Idle
  <2>5. CASE /\ rc.pc \notin {"idle", "list", "advance", "dispatch"}
             /\ \E pc \in {"boundary", "finish", "contract", "consume"} : RcTo(pc)
    <3>1. PICK pc \in {"boundary", "finish", "contract", "consume"} : rc' = [rc EXCEPT !.pc = pc]
      BY <2>5 DEF RcTo
    <3>2. /\ rc'.queue = rc.queue /\ rc'.job = rc.job /\ rc'.pc = pc
      BY <3>1
    <3>3. rc' \in [pc : {"idle", "list", "poll", "act", "boundary", "suspend", "finish",
                         "contract", "consume", "advance", "dispatch"},
                   queue : SUBSET Job, job : Job \cup {<<>>}, seen : Status \cup {"none"},
                   run : 0..MaxRuns, poll : {"none", "unknown", "open"} \cup Verdicts]
      BY <3>1
    <3> QED BY <2>5, <3>2, <3>3
  <2>6. ASSUME NEW pc \in {"advance", "dispatch"}, rc' = [Idle EXCEPT !.pc = pc]
        PROVE  /\ rc' \in [pc : {"idle", "list", "poll", "act", "boundary", "suspend", "finish",
                                "contract", "consume", "advance", "dispatch"},
                          queue : SUBSET Job, job : Job \cup {<<>>}, seen : Status \cup {"none"},
                          run : 0..MaxRuns, poll : {"none", "unknown", "open"} \cup Verdicts]
               /\ rc'.pc = pc /\ rc'.queue = {}
    <3>1. Idle \in [pc : {"idle", "list", "poll", "act", "boundary", "suspend", "finish",
                          "contract", "consume", "advance", "dispatch"},
                    queue : SUBSET Job, job : Job \cup {<<>>}, seen : Status \cup {"none"},
                    run : 0..MaxRuns, poll : {"none", "unknown", "open"} \cup Verdicts]
          /\ Idle.queue = {}
      BY <2>1 DEF Idle
    <3> HIDE DEF Idle
    <3> QED BY <2>6, <3>1
  <2>7. CASE \E pc \in {"advance", "dispatch"} : rc' = [Idle EXCEPT !.pc = pc]
    BY <2>1, <2>6, <2>7
  <2> QED BY <2>2, <2>3, <2>4, <2>5, <2>7 DEF RcMoves
<1>5. RcRanges'
  BY <1>2, <1>4 DEF Typed, RcRanges
<1>6. tries' \in [Runs -> 0..MaxRuns]
  BY DEF DriverMoves, Typed, ServiceTypeOK
<1>7. rc'.pc \notin {"idle", "list", "advance", "dispatch"} => rc'.job \in Job
  BY <1>4 DEF Typed, ServiceTypeOK
<1> QED BY <1>1, <1>3, <1>4, <1>5, <1>6, <1>7
       DEF Typed, ServiceTypeOK, PlainTypes, DriverMoves

LEMMA PlainTyped == Typed => PlainTypes
BY DEF Typed, ServiceTypeOK, PlainTypes

(* A row that is held has its lease renewed, or keeps having none.          *)
LEMMA HoldRenews ==
  ASSUME Typed, NEW r \in Runs, HoldAndRenew(r)
  PROVE  /\ StoreAct /\ UNCHANGED <<taskVars, attemptSpec, run, checkpoint, worker, jobs>>
         /\ unsure' \in [Runs -> BOOLEAN]
<1> r[1] \in Tasks
  BY DEF Runs
<1> lease \in [Tasks -> {"none", "live", "expired"}]
  BY DEF Typed, ServiceTypeOK, TypeOK
<1>1. CASE lease[r[1]] = "none"
  <2>1. UNCHANGED lease
    BY <1>1 DEF HoldAndRenew
  <2> QED BY <2>1 DEF HoldAndRenew, StoreAct, storeVars, Typed, ServiceTypeOK
<1>2. CASE lease[r[1]] # "none"
  <2>1. Renew(r[1])
    BY <1>2 DEF HoldAndRenew, Renew, KeepHistory
  <2> QED BY <2>1 DEF HoldAndRenew, StoreAct, StoreNext, Typed, ServiceTypeOK
<1> QED BY <1>1, <1>2

(* A fault settles the job, or finds that there is nothing to settle.       *)
LEMMA FaultActs ==
  ASSUME NEW action \in DOMAIN FaultTarget, Fault(action)
  PROVE  StoreAct /\ RcMoves /\ (HostFault(Job1, action) \/ UNCHANGED storeVars)
<1>1. CASE HostFault(Job1, action) /\ NextJob
  BY <1>1 DEF StoreAct, StoreNext, RcMoves, HostFault
<1>2. CASE UNCHANGED storeVars /\ (NextJob \/ rc' = Idle)
  BY <1>2 DEF StoreAct, RcMoves
<1> QED BY <1>1, <1>2 DEF Fault

LEMMA HostTyped ==
  ASSUME Typed, NEW r \in Runs, Host(r) \/ HostLoses(r) PROVE Typed' /\ StoreAct
<1>1. UNCHANGED <<storeVars, rowVars, threadVars, envVars>> /\ UNCHANGED asked
  BY DEF Host, HostAccepts, HostLoses, HostStarts, HostExits, HostSettles
<1>2. StoreAct /\ DriverMoves /\ RcMoves
  BY <1>1 DEF StoreAct, DriverMoves, RcMoves, threadVars, Typed, ServiceTypeOK
<1>3. /\ host' \in [Runs -> {"absent", "sent", "open"} \cup Verdicts]
      /\ proc' \in [Runs -> {"none", "alive", "dead"}]
  BY PlainTyped DEF PlainTypes, Host, HostAccepts, HostLoses, HostStarts, HostExits,
                    HostSettles
<1>4. PlainTypes'
  BY <1>1, <1>3, PlainTyped DEF PlainTypes, rowVars, threadVars, envVars
<1> QED BY <1>2, <1>4, Carried

LEMMA DriveTyped ==
  ASSUME Typed, NEW r \in Runs, Drive(r) PROVE Typed' /\ StoreAct
<1> r[1] \in Tasks /\ r[2] \in 1..MaxRuns
  BY DEF Runs
<1>1. RcMoves
  BY DEF Drive, DrivePrepare, DriveAbort, DriveDeadline, DriveSend, DriveReply,
         DriveUnavailable, DriveRejected, DriveFault, RcMoves
<1>2. DriverMoves
  BY ZenonT(60) DEF Drive, DrivePrepare, DriveAbort, DriveDeadline, DriveSend, DriveReply,
         DriveUnavailable, DriveRejected, DriveFault, DriverTo, DriverMoves, Typed,
         ServiceTypeOK
<1>3. StoreAct /\ unsure' \in [Runs -> BOOLEAN]
  <2> USE PlainTyped DEF PlainTypes
  <2>1. CASE DrivePrepare(r)
    <3>1. driver[r] = "claimed" /\ Prepare(r[1], tries[r], r[2])
      BY <2>1 DEF DrivePrepare
    <3>2. tries[r] \in 1..Len(attemptSpec[r[1]]) /\ r[2] <= run[r[1]]
      BY <3>1 DEF Typed, DriverRanges
    <3>3. run[r[1]] \in Nat
      BY DEF Typed, ServiceTypeOK, TypeOK
    <3>4. r[2] \in 1..run[r[1]]
      BY <3>2, <3>3, StoreAssumption
    <3>5. r = <<r[1], r[2]>>
      BY DEF Runs
    <3>6. PrepareByDriver
      BY <3>1, <3>2, <3>4, <3>5 DEF PrepareByDriver
    <3> QED BY <2>1, <3>6 DEF DrivePrepare, StoreAct
  <2>2. CASE DriveAbort(r) \/ DriveSend(r) \/ DriveReply(r) \/ DriveRejected(r)
    BY <2>2 DEF DriveAbort, DriveSend, DriveReply, DriveRejected, Certain, StoreAct,
                rowVars
  <2>3. CASE DriveDeadline(r)
    BY <2>3 DEF DriveDeadline, StoreAct, StoreNext, rowVars
  <2>4. CASE DriveUnavailable(r)
    BY <2>4, HoldRenews DEF DriveUnavailable
  <2>5. CASE DriveFault(r)
    <3>1. (\E j \in jobs : HostFault(j, "needs_human")) \/ UNCHANGED storeVars
      BY <2>5 DEF DriveFault
    <3>2. "needs_human" \in DOMAIN FaultTarget
      BY DEF FaultTarget
    <3> QED BY <2>5, <3>1, <3>2 DEF DriveFault, StoreAct, StoreNext, rowVars
  <2> QED BY <2>1, <2>2, <2>3, <2>4, <2>5 DEF Drive
<1>4. PlainTypes'
  <2>1. host' \in [Runs -> {"absent", "sent", "open"} \cup Verdicts]
    BY PlainTyped DEF PlainTypes, Drive, DrivePrepare, DriveAbort, DriveDeadline, DriveSend,
           DriveReply, DriveUnavailable, DriveRejected, DriveFault, hostVars
  <2>2. UNCHANGED <<proc, asked, settled, cancels, envVars>>
    BY DEF Drive, DrivePrepare, DriveAbort, DriveDeadline, DriveSend, DriveReply,
           DriveUnavailable, DriveRejected, DriveFault, hostVars, rowVars
  <2> QED BY <1>3, <2>1, <2>2, PlainTyped DEF PlainTypes, envVars
<1> QED BY <1>1, <1>2, <1>3, <1>4, Carried

LEMMA ClaimTyped ==
  ASSUME Typed, NEW t \in Tasks, DriveClaim(t) PROVE Typed' /\ StoreAct
<1> DEFINE r == <<t, run[t] + 1>>
           attempt == IF checkpoint[t] = 0 THEN Len(attemptSpec[t]) + 1 ELSE checkpoint[t]
<1>1. /\ Claim(t) /\ driver' = [driver EXCEPT ![r] = "claimed"]
      /\ tries' = [tries EXCEPT ![r] = attempt]
      /\ UNCHANGED <<hostVars, rowVars, rc, cancels, envVars>>
  BY DEF DriveClaim, DriverTo
<1>2. StoreAct
  BY <1>1 DEF StoreAct, StoreNext
<1>3. TypeOK' /\ StoreRanges' /\ Grows
  BY <1>2, StoreTyped DEF Typed, ServiceTypeOK
<1>4. /\ Len(attemptSpec[t]) \in Nat /\ run[t] \in Nat /\ checkpoint[t] \in Nat
      /\ Len(attemptSpec[t]) <= run[t] /\ run[t] < MaxRuns /\ MaxRuns \in Nat
      /\ checkpoint[t] <= Len(attemptSpec[t])
  BY <1>1, StoreAssumption DEF Typed, ServiceTypeOK, TypeOK, StoreRanges, Claim
<1>5. r \in Runs /\ r[1] = t /\ r[2] = run[t] + 1 /\ run'[t] = run[t] + 1
  BY SMTT(30), <1>1, <1>4 DEF Runs, Typed, ServiceTypeOK, TypeOK, Claim
<1>6. attempt \in 1..Len(attemptSpec'[t]) /\ attempt \in 0..MaxRuns
  <2>1. CASE checkpoint[t] = 0
    <3>1. attemptSpec'[t] = Append(attemptSpec[t], spec[t])
      BY <1>1, <2>1 DEF Claim, Typed, ServiceTypeOK, TypeOK
    <3>2. Len(attemptSpec'[t]) = Len(attemptSpec[t]) + 1
      BY <3>1 DEF Typed, ServiceTypeOK, TypeOK
    <3> QED BY <1>4, <2>1, <3>2
  <2>2. CASE checkpoint[t] # 0
    <3>1. attemptSpec'[t] = attemptSpec[t]
      BY <1>1, <2>2 DEF Claim, Typed, ServiceTypeOK, TypeOK
    <3> QED BY <1>4, <2>2, <3>1
  <2> QED BY <2>1, <2>2
<1> HIDE DEF r, attempt
<1>7. DriverRanges'
  <2>1. ASSUME NEW d \in Runs, d # r
        PROVE  /\ driver'[d] # "none" => d[2] <= run'[d[1]]
               /\ driver'[d] = "claimed" => tries'[d] \in 1..Len(attemptSpec'[d[1]])
    <3>1. driver'[d] = driver[d] /\ tries'[d] = tries[d] /\ d[1] \in Tasks /\ d[2] \in Nat
      BY <1>1, <2>1 DEF Typed, ServiceTypeOK, Runs
    <3>2. /\ run[d[1]] <= run'[d[1]] /\ run[d[1]] \in Nat /\ run'[d[1]] \in Nat
          /\ Len(attemptSpec[d[1]]) <= Len(attemptSpec'[d[1]])
          /\ Len(attemptSpec[d[1]]) \in Nat /\ Len(attemptSpec'[d[1]]) \in Nat
      BY <1>3, <3>1, GrowsAt DEF Typed, ServiceTypeOK
    <3>3. /\ driver[d] # "none" => d[2] <= run[d[1]]
          /\ driver[d] = "claimed" => tries[d] \in 1..Len(attemptSpec[d[1]])
      BY DEF Typed, DriverRanges
    <3> QED BY <3>1, <3>2, <3>3
  <2>2. r[2] <= run'[r[1]] /\ tries'[r] \in 1..Len(attemptSpec'[r[1]])
    <3>1. tries'[r] = attempt
      BY <1>1, <1>5 DEF Typed, ServiceTypeOK
    <3> QED BY <1>4, <1>5, <1>6, <3>1
  <2> QED BY <2>1, <2>2 DEF DriverRanges
<1>8. RcRanges'
  BY <1>1, <1>3, StaysInRange DEF Typed, ServiceTypeOK, RcRanges
<1>9. /\ driver' \in [Runs -> {"none", "claimed", "prepared", "waiting", "rejected"}]
      /\ tries' \in [Runs -> 0..MaxRuns]
  BY <1>1, <1>5, <1>6 DEF Typed, ServiceTypeOK
<1> QED BY <1>1, <1>2, <1>3, <1>7, <1>8, <1>9
       DEF Typed, ServiceTypeOK, hostVars, rowVars, envVars

(* control(cancel), operators and time.                                    *)
LEMMA TaskTyped ==
  ASSUME Typed, NEW t \in Tasks, CancelTask(t) \/ CancelJob(t) \/ Operate(t) \/ LeaseExpires(t)
  PROVE  Typed' /\ StoreAct
<1>1. RcMoves /\ DriverMoves /\ UNCHANGED <<host, proc, settled, envVars>>
  BY DEF CancelTask, CancelJob, Operate, LeaseExpires, RcMoves, DriverMoves, threadVars,
         rowVars, hostVars, Typed, ServiceTypeOK
<1>2. StoreAct /\ PlainTypes'
  <2> USE PlainTyped DEF PlainTypes, envVars
  <2>1. CASE CancelTask(t)
    <3>1. LastJob(t).run \in 0..MaxRuns
      <4>1. LastJob(t) \in Job
        BY <2>1, LastJobFound DEF CancelTask, Typed, ServiceTypeOK, TypeOK
      <4> QED BY <4>1, StoreAssumption DEF Job
    <3>2. RequestCancel(t) \/ UNCHANGED storeVars
      BY <2>1 DEF CancelTask
    <3>3. PlainTypes'
      BY <1>1, <2>1, <3>1 DEF CancelTask, hostVars, rowVars
    <3> QED BY <3>2, <3>3 DEF StoreAct, StoreNext
  <2>2. CASE CancelJob(t)
    <3> DEFINE r == <<t, cancels[t]>>
    <3>1. r \in Runs /\ 0 \in 0..MaxRuns
      BY <2>2, StoreAssumption DEF CancelJob, Runs
    <3>2. /\ (Ask(r) /\ Certain(r) /\ UNCHANGED storeVars) \/ (HoldAndRenew(r) /\ UNCHANGED asked)
          /\ cancels' = [cancels EXCEPT ![t] = 0]
      BY <2>2 DEF CancelJob
    <3> HIDE DEF r
    <3>3. asked' \in [Runs -> BOOLEAN] /\ unsure' \in [Runs -> BOOLEAN] /\ StoreAct
      BY <3>1, <3>2, HoldRenews DEF Ask, Certain, StoreAct
    <3> QED BY <1>1, <3>1, <3>2, <3>3
  <2>3. CASE Operate(t)
    <3>1. StoreNext
      BY <2>3 DEF Operate, StoreNext
    <3> QED BY <2>3, <3>1 DEF Operate, StoreAct, hostVars, rowVars, threadVars
  <2>4. CASE LeaseExpires(t)
    <3>1. StoreNext
      BY <2>4 DEF LeaseExpires, StoreNext
    <3> QED BY <2>4, <3>1 DEF LeaseExpires, StoreAct, hostVars, rowVars, threadVars
  <2> QED BY <2>1, <2>2, <2>3, <2>4
<1> QED BY <1>1, <1>2, Carried

LEMMA TroubleTyped ==
  ASSUME Typed, LinkFails \/ LinkReturns \/ Crash PROVE Typed' /\ StoreAct
<1>1. StoreAct /\ RcMoves /\ DriverMoves
  BY DEF LinkFails, LinkReturns, Crash, StoreAct, RcMoves, DriverMoves, threadVars, Typed,
         ServiceTypeOK
<1>2. UNCHANGED <<host, proc, asked, unsure, settled>>
  BY DEF LinkFails, LinkReturns, Crash, hostVars, rowVars
<1>3. cancels' \in [Tasks -> 0..MaxRuns] /\ link' \in BOOLEAN
  <2>1. [t \in Tasks |-> 0] \in [Tasks -> 0..MaxRuns]
    BY StoreAssumption
  <2>2. UNCHANGED cancels \/ cancels' = [t \in Tasks |-> 0]
    BY DEF LinkFails, LinkReturns, Crash, threadVars
  <2>3. link' \in {link, FALSE, TRUE}
    BY DEF LinkFails, LinkReturns, Crash
  <2> QED BY <2>1, <2>2, <2>3 DEF Typed, ServiceTypeOK
<1>4. trouble' \in 0..MaxTrouble
  BY PartsAssumption DEF LinkFails, LinkReturns, Crash, Typed, ServiceTypeOK
<1> QED BY <1>1, <1>2, <1>3, <1>4, PlainTyped, Carried DEF PlainTypes

(* The reconciler's steps that only move it on, by what they write.         *)
TickActs ==
  \/ HoldJob \/ GiveUp \/ RenewJob \/ BoundJob \/ SettleBound \/ SettleFault \/ ConfirmCancel
  \/ VerifyHeld \/ VerifyBound \/ VerifyStarts \/ FinishJob \/ BreaksContract \/ DropResult
  \/ ConsumeJob \/ TickRecovers \/ TickAdvances \/ SettleSuspended

LEMMA TickActsTyped ==
  ASSUME Typed, TickActs PROVE Typed' /\ StoreAct
<1> DEFINE Goal == StoreAct /\ RcMoves /\ unsure' \in [Runs -> BOOLEAN]
                   /\ settled' \in [Runs -> {"none", "verifying", "finished"}]
                   /\ asked' \in [Runs -> BOOLEAN]
<1>1. UNCHANGED <<host, proc, driver, tries, cancels, envVars>>
  BY DEF TickActs, HoldJob, GiveUp, RenewJob, BoundJob, SettleBound, SettleFault,
         ConfirmCancel, VerifyHeld, VerifyBound, VerifyStarts, FinishJob, BreaksContract,
         DropResult, ConsumeJob, TickRecovers, TickAdvances, SettleSuspended, KeepRest, hostVars
<1> SUFFICES Goal
  <2>1. DriverMoves /\ (Goal => PlainTypes')
    BY <1>1, PlainTyped DEF DriverMoves, PlainTypes, envVars, Typed, ServiceTypeOK
  <2> QED BY <2>1, Carried
<1>2. /\ unsure \in [Runs -> BOOLEAN] /\ asked \in [Runs -> BOOLEAN]
      /\ settled \in [Runs -> {"none", "verifying", "finished"}]
  BY DEF Typed, ServiceTypeOK
<1>3. rc.pc \notin {"idle", "list", "advance", "dispatch"} => Job1 \in Job /\ Task1 \in Tasks /\ Run1 \in Runs
                                       /\ Run1[1] = Task1
                                       /\ Job1.attempt \in 1..Len(attemptSpec[Task1])
  <2> SUFFICES ASSUME rc.pc \notin {"idle", "list", "advance", "dispatch"}
               PROVE  /\ Job1 \in Job /\ Task1 \in Tasks /\ Run1 \in Runs /\ Run1[1] = Task1
                      /\ Job1.attempt \in 1..Len(attemptSpec[Task1])
    OBVIOUS
  <2>1. Job1 \in Job /\ Job1.attempt <= Len(attemptSpec[Task1])
    BY DEF Typed, RcRanges, InRange, Job1, Task1
  <2>2. /\ Task1 \in Tasks /\ Job1.run \in 1..MaxRuns /\ Job1.attempt \in Nat
        /\ 1 <= Job1.attempt
    BY <2>1, StoreAssumption DEF Job, Job1, Task1
  <2>3. Len(attemptSpec[Task1]) \in Nat
    <3>1. attemptSpec[Task1] \in Seq(1..MaxSpec)
      BY <2>2 DEF Typed, ServiceTypeOK, TypeOK
    <3> QED BY <3>1
  <2>4. Run1 \in Runs /\ Run1[1] = Task1
    BY <2>2 DEF Runs, Run1, RunOf, Job1, Task1
  <2> QED BY <2>1, <2>2, <2>3, <2>4
<1>4. {"resume", "needs_human", "defer", "network_suspended"} \subseteq DOMAIN FaultTarget
  BY DEF FaultTarget
<1>5. CASE HoldJob
  BY <1>2, <1>5 DEF HoldJob, KeepRest, hostVars, rowVars, StoreAct, RcMoves
<1>6. CASE GiveUp \/ BreaksContract \/ SettleBound \/ SettleFault \/ VerifyBound
  <2>1. \E action \in DOMAIN FaultTarget : Fault(action)
    BY <1>4, <1>6 DEF GiveUp, BreaksContract, SettleBound, SettleFault, VerifyBound
  <2>2. UNCHANGED <<unsure, settled, asked>>
    BY <1>6 DEF GiveUp, BreaksContract, SettleBound, SettleFault, VerifyBound, KeepRest,
                hostVars, rowVars
  <2> QED BY <1>2, <2>1, <2>2, FaultActs
<1>7. CASE RenewJob
  <2>1. StoreAct
    BY <1>3, <1>7 DEF RenewJob, StoreAct, StoreNext
  <2> QED BY <1>2, <1>7, <2>1 DEF RenewJob, KeepRest, hostVars, rowVars, RcMoves
<1>8. CASE BoundJob
  <2>1. CASE link
    BY <1>2, <1>8, <2>1 DEF BoundJob, Ask, StoreAct, RcMoves
  <2>2. CASE ~link
    <3>1. HoldAndRenew(Run1) /\ NextJob /\ UNCHANGED <<asked, settled>> /\ Run1 \in Runs
      BY <1>3, <1>8, <2>2 DEF BoundJob
    <3> QED BY <1>2, <3>1, HoldRenews DEF RcMoves
  <2> QED BY <2>1, <2>2
<1>9. CASE ConfirmCancel
  <2>1. rc.pc = "act" /\ (FinalizeCancel(Task1) \/ UNCHANGED storeVars)
    BY <1>9 DEF ConfirmCancel
  <2>2. StoreAct
    BY <1>3, <2>1 DEF StoreAct, StoreNext
  <2>3. RcMoves
    BY <1>9 DEF ConfirmCancel, RcMoves
  <2> QED BY <1>2, <1>9, <2>2, <2>3 DEF ConfirmCancel, KeepRest, hostVars, rowVars
<1>10. CASE VerifyHeld
  <2>1. HoldAndRenew(Run1) /\ NextJob /\ UNCHANGED <<asked, settled>> /\ Run1 \in Runs
    BY <1>3, <1>10 DEF VerifyHeld, KeepRest, hostVars
  <2> QED BY <1>2, <2>1, HoldRenews DEF RcMoves
<1>11. CASE VerifyStarts
  <2>1. /\ rc.pc = "act" /\ (MarkVerifying(Task1) \/ UNCHANGED storeVars)
        /\ MarkNow(Job1) \/ UNCHANGED settled
        /\ RcTo("finish") \/ RcTo("contract")
        /\ UNCHANGED <<unsure, asked>>
    BY <1>11 DEF VerifyStarts, KeepRest, hostVars
  <2>2. StoreAct
    BY <1>3, <2>1 DEF StoreAct, StoreNext
  <2> QED BY <1>2, <2>1, <2>2 DEF MarkNow, RcMoves
<1>12. CASE FinishJob
  <2>1. /\ rc.pc = "finish"
        /\ (\E passed, again \in BOOLEAN : Finish(Task1, Job1.attempt, passed, again))
             \/ UNCHANGED storeVars
        /\ settled' = [settled EXCEPT ![Run1] = "finished"] \/ UNCHANGED settled
        /\ RcTo("consume") \/ RcTo("contract")
        /\ UNCHANGED <<unsure, asked>>
    BY <1>12 DEF FinishJob, KeepRest, hostVars
  <2>2. StoreAct
    BY <1>3, <2>1 DEF StoreAct, StoreNext
  <2> QED BY <1>2, <2>1, <2>2 DEF RcMoves
<1>13. CASE DropResult
  BY <1>2, <1>13 DEF DropResult, KeepRest, hostVars, rowVars, StoreAct, RcMoves
<1>14. CASE ConsumeJob
  BY <1>2, <1>14 DEF ConsumeJob, KeepRest, hostVars, rowVars, StoreAct, StoreNext, RcMoves
<1>15. CASE TickRecovers
  BY <1>2, <1>15 DEF TickRecovers, KeepRest, hostVars, rowVars, StoreAct, StoreNext, RcMoves
<1>17. CASE TickAdvances
  BY <1>2, <1>17 DEF TickAdvances, KeepRest, hostVars, rowVars, StoreAct, StoreNext, RcMoves
<1>16. CASE SettleSuspended
  BY <1>2, <1>4, <1>16 DEF SettleSuspended, KeepRest, hostVars, rowVars, StoreAct, StoreNext,
                           RcMoves
<1> QED
  BY <1>5, <1>6, <1>7, <1>8, <1>9, <1>10, <1>11, <1>12, <1>13, <1>14, <1>15, <1>16, <1>17
     DEF TickActs

(* The steps that look: at the table, at a task, at the host.               *)
TickLooks ==
  TickStart \/ PollHost \/ \E j \in jobs \cup rc.queue : ReadTask(j) \/ SuspendJob(j)

LEMMA TickLooksTyped ==
  ASSUME Typed, TickLooks PROVE Typed' /\ StoreAct
<1> DEFINE RcType == [pc : {"idle", "list", "poll", "act", "boundary", "suspend", "finish",
                            "contract", "consume", "advance", "dispatch"},
                      queue : SUBSET Job, job : Job \cup {<<>>}, seen : Status \cup {"none"},
                      run : 0..MaxRuns, poll : {"none", "unknown", "open"} \cup Verdicts]
           Goal == /\ rc' \in RcType
                   /\ rc'.pc \notin {"idle", "list", "advance", "dispatch"} => InRange(rc'.job)
                   /\ \A j \in rc'.queue : InRange(j)
                   /\ StoreAct /\ unsure' \in [Runs -> BOOLEAN]
                   /\ asked' \in [Runs -> BOOLEAN]
<1>1. UNCHANGED <<host, proc, settled, driver, tries, cancels, envVars>>
  BY DEF TickLooks, TickStart, PollHost, ReadTask, SuspendJob, KeepRest, hostVars, rowVars
<1> SUFFICES Goal
  <2> SUFFICES ASSUME Goal PROVE Typed' /\ StoreAct
    OBVIOUS
  <2>1. TypeOK' /\ StoreRanges' /\ Grows
    BY StoreTyped DEF Typed, ServiceTypeOK
  <2>2. RcRanges'
    BY <2>1, StaysInRange DEF Typed, ServiceTypeOK, RcRanges
  <2>3. DriverRanges'
    <3>1. ASSUME NEW r \in Runs
          PROVE  /\ driver'[r] # "none" => r[2] <= run'[r[1]]
                 /\ driver'[r] = "claimed" => tries'[r] \in 1..Len(attemptSpec'[r[1]])
      <4>1. driver'[r] = driver[r] /\ tries'[r] = tries[r] /\ r[1] \in Tasks /\ r[2] \in Nat
        BY <1>1 DEF Runs
      <4>2. /\ run[r[1]] <= run'[r[1]] /\ run[r[1]] \in Nat /\ run'[r[1]] \in Nat
            /\ Len(attemptSpec[r[1]]) <= Len(attemptSpec'[r[1]])
            /\ Len(attemptSpec[r[1]]) \in Nat /\ Len(attemptSpec'[r[1]]) \in Nat
        BY <2>1, <4>1, GrowsAt DEF Typed, ServiceTypeOK
      <4>3. /\ driver[r] # "none" => r[2] <= run[r[1]]
            /\ driver[r] = "claimed" => tries[r] \in 1..Len(attemptSpec[r[1]])
        BY DEF Typed, DriverRanges
      <4> QED BY <4>1, <4>2, <4>3
    <3> QED BY <3>1 DEF DriverRanges
  <2>4. rc'.pc \notin {"idle", "list", "advance", "dispatch"} => rc'.job \in Job
    BY DEF InRange
  <2> QED BY <1>1, <2>1, <2>2, <2>3, <2>4 DEF Typed, ServiceTypeOK, envVars
<1> USE DEF Typed, ServiceTypeOK
<1>2. 0 \in 0..MaxRuns /\ Idle \in RcType
  <2>1. 0 \in 0..MaxRuns
    BY StoreAssumption
  <2> QED BY <2>1 DEF Idle
<1>3. CASE TickStart
  <2>1. rc' = [Idle EXCEPT !.pc = "list", !.queue = jobs] /\ UNCHANGED <<storeVars, unsure, asked>>
    BY <1>3 DEF TickStart, KeepRest, hostVars, rowVars
  <2>2. rc' \in RcType /\ rc'.pc = "list" /\ rc'.queue = jobs
    BY <1>2, <2>1 DEF TypeOK, Idle
  <2> QED BY <2>1, <2>2 DEF StoreRanges, StoreAct
<1>4. ASSUME NEW j \in jobs \cup rc.queue, ReadTask(j) PROVE Goal
  <2>1. /\ rc' = [rc EXCEPT !.pc = "poll", !.job = j, !.seen = status[j.task], !.run = run[j.task]]
        /\ UNCHANGED <<storeVars, unsure, asked>>
    BY <1>4 DEF ReadTask, KeepRest, hostVars, rowVars
  <2>2. InRange(j) /\ j \in Job /\ j.task \in Tasks
    BY DEF StoreRanges, RcRanges, InRange, Job
  <2>3. status[j.task] \in Status /\ run[j.task] \in 0..MaxRuns
    BY <2>2 DEF TypeOK
  <2>4. rc' \in RcType /\ rc'.job = j /\ rc'.queue = rc.queue
    BY <2>1, <2>2, <2>3
  <2> QED BY <2>1, <2>2, <2>4 DEF RcRanges, StoreAct
<1>5. CASE PollHost
  <2>1. rc.pc = "poll" /\ UNCHANGED asked
    BY <1>5 DEF PollHost, KeepRest, hostVars
  <2>2. InRange(rc.job) /\ Run1 \in Runs
    <3>1. InRange(rc.job)
      BY <2>1 DEF RcRanges
    <3> QED BY <3>1 DEF InRange, Job, Run1, RunOf, Job1, Runs
  <2>3. CASE /\ Answers(Run1) /\ Certain(Run1) /\ UNCHANGED storeVars
             /\ rc' = [rc EXCEPT !.pc = "act", !.poll = host[Run1]]
    <3>1. host[Run1] \in {"open"} \cup Verdicts
      BY <2>2, <2>3 DEF Answers
    <3>2. rc' \in RcType /\ rc'.job = rc.job /\ rc'.queue = rc.queue
      BY <2>3, <3>1
    <3> QED BY <2>1, <2>2, <2>3, <3>2 DEF RcRanges, StoreAct, Certain
  <2>4. CASE HoldAndRenew(Run1) /\ rc' = [rc EXCEPT !.pc = "act", !.poll = "unknown"]
    <3>1. rc' \in RcType /\ rc'.job = rc.job /\ rc'.queue = rc.queue
      BY <2>4
    <3>2. StoreAct /\ unsure' \in [Runs -> BOOLEAN]
      BY <2>2, <2>4, HoldRenews
    <3> QED BY <2>1, <2>2, <3>1, <3>2 DEF RcRanges
  <2> QED BY <1>5, <2>3, <2>4 DEF PollHost
<1>6. ASSUME NEW j \in jobs \cup rc.queue, SuspendJob(j) PROVE Goal
  <2>1. /\ rc' = [Idle EXCEPT !.pc = "suspend", !.job = j] /\ UNCHANGED storeVars
        /\ Ask(RunOf(j)) /\ Certain(RunOf(j))
    BY <1>6 DEF SuspendJob
  <2>2. InRange(j) /\ j \in Job
    BY DEF StoreRanges, RcRanges, InRange
  <2>3. rc' \in RcType /\ rc'.job = j /\ rc'.queue = {}
    BY <1>2, <2>1, <2>2 DEF Idle
  <2> QED BY <2>1, <2>2, <2>3 DEF StoreAct, Ask, Certain
<1> QED BY <1>3, <1>4, <1>5, <1>6 DEF TickLooks

LEMMA TypedStep == Typed /\ [ServiceNext]_serviceVars => Typed' /\ StoreAct
<1> SUFFICES ASSUME Typed, [ServiceNext]_serviceVars PROVE Typed' /\ StoreAct
  OBVIOUS
<1>1. ASSUME NEW r \in Runs, Host(r) \/ HostLoses(r) \/ Drive(r) PROVE Typed' /\ StoreAct
  BY <1>1, HostTyped, DriveTyped
<1>2. ASSUME NEW t \in Tasks,
             \/ DriveClaim(t) \/ CancelTask(t) \/ CancelJob(t) \/ Operate(t)
             \/ LeaseExpires(t)
      PROVE  Typed' /\ StoreAct
  BY <1>2, ClaimTyped, TaskTyped
<1>3. CASE Tick
  BY <1>3, TickActsTyped, TickLooksTyped DEF Tick, TickActs, TickLooks
<1>4. CASE LinkFails \/ LinkReturns \/ Crash
  BY <1>4, TroubleTyped
<1>5. CASE UNCHANGED serviceVars
  BY <1>5 DEF serviceVars, storeVars, taskVars, hostVars, rowVars, threadVars, envVars, Typed,
              ServiceTypeOK, TypeOK, StoreRanges, DriverRanges, RcRanges, InRange, StoreAct
<1> QED BY <1>1, <1>2, <1>3, <1>4, <1>5 DEF ServiceNext

LEMMA TypedHolds == ServiceSpec => []Typed
<1>1. ServiceInit => Typed
  <2> SUFFICES ASSUME ServiceInit PROVE Typed
    OBVIOUS
  <2>1. TypeOK
    BY StoreAssumption DEF ServiceInit, StoreInit, TypeOK, Status
  <2>2. 0 \in 0..MaxRuns /\ 0 \in 0..MaxTrouble
    BY StoreAssumption, PartsAssumption
  <2>3. ServiceTypeOK
    BY <2>1, <2>2 DEF ServiceInit, ServiceTypeOK, Idle
  <2>4. StoreRanges
    BY DEF ServiceInit, StoreInit, StoreRanges
  <2> QED BY <2>3, <2>4 DEF ServiceInit, Typed, DriverRanges, RcRanges, Idle
<1> QED BY <1>1, TypedStep, PTL DEF ServiceSpec

(* Every variable of the service keeps its type, with every boundary        *)
(* switched on: the store's too, although late drivers prepare jobs of old  *)
(* runs, which StoreSpec excludes.                                         *)
THEOREM ServiceTypeCorrect == ServiceSpec => []ServiceTypeOK
<1>1. Typed => ServiceTypeOK
  BY DEF Typed
<1> QED BY <1>1, TypedHolds, PTL

-----------------------------------------------------------------------------
(* Rows and processes, when no reconciliation deadline passes.              *)

HasRow(r) == \E j \in jobs : RunOf(j) = r

(* A run that the host may still start, or runs, has a row until it is told *)
(* to stop; a driver that has not sent its request knows that the host has  *)
(* nothing of the run.                                                     *)
RunOK(r) ==
  /\ proc[r] = "alive" => host[r] = "open"
  /\ driver[r] \in {"claimed", "prepared", "rejected"} => host[r] = "absent"
  /\ r[2] > run[r[1]] => driver[r] = "none" /\ host[r] = "absent"
  /\ host[r] \in {"sent", "open"} \/ driver[r] = "prepared" => asked[r] \/ HasRow(r)

(* What the reconciler heard of the host is still so, or has become final.  *)
RcHost ==
  /\ rc.pc = "act" /\ rc.poll # "unknown" =>
       \/ rc.poll \in Verdicts /\ host[Run1] = rc.poll
       \/ rc.poll = "open" /\ host[Run1] \in {"open"} \cup Verdicts
  /\ rc.pc \in {"finish", "contract", "consume"} => host[Run1] \in Verdicts
  /\ rc.pc \in {"boundary", "suspend"} => host[Run1] \in Verdicts \/ asked[Run1]

RowsInv == (\A r \in Runs : RunOK(r)) /\ RcHost

(* What the host accepted stays, and ends in a verdict that stays.          *)
HostLater ==
  \A r \in Runs :
    /\ host[r] \in Verdicts => host'[r] = host[r]
    /\ host[r] = "open" => host'[r] \in {"open"} \cup Verdicts
    /\ asked[r] => asked'[r]

LEMMA RcRun ==
  ASSUME Typed, rc.pc \notin {"idle", "list", "advance", "dispatch"} PROVE Run1 \in Runs
<1>1. Job1 \in Job
  BY DEF Typed, ServiceTypeOK, Job1
<1>2. Job1.task \in Tasks /\ Job1.run \in 1..MaxRuns
  BY <1>1 DEF Job
<1> QED BY <1>2 DEF Job1, Run1, RunOf, Runs

LEMMA RcHostKept ==
  ASSUME Typed, RcHost, HostLater, UNCHANGED rc PROVE RcHost'
<1>1. rc'.pc \notin {"idle", "list", "advance", "dispatch"} => Run1 \in Runs /\ Run1' = Run1
  BY RcRun DEF Run1, RunOf, Job1
<1>2. CASE rc.pc \in {"idle", "list", "advance", "dispatch", "poll"}
  BY <1>2 DEF RcHost
<1>3. CASE rc.pc \in {"act", "boundary", "suspend", "finish", "contract", "consume"}
  <2>1. Run1' = Run1 /\ Run1 \in Runs
    BY <1>1, <1>3
  <2>2. /\ host[Run1] \in Verdicts => host'[Run1] = host[Run1]
        /\ host[Run1] = "open" => host'[Run1] \in {"open"} \cup Verdicts
        /\ asked[Run1] => asked'[Run1]
    BY <2>1 DEF HostLater
  <2> QED BY <1>3, <2>1, <2>2 DEF RcHost
<1> QED BY <1>2, <1>3 DEF Typed, ServiceTypeOK

(* A run that a step leaves alone, or whose driver stops.                   *)
LEMMA RunKept ==
  ASSUME NEW r \in Runs, RunOK(r), host'[r] = host[r], proc'[r] = proc[r],
         asked[r] => asked'[r], driver'[r] \in {driver[r], "none"},
         run'[r[1]] = run[r[1]],
         HasRow(r) /\ (host[r] \in {"sent", "open"} \/ driver'[r] = "prepared")
           => asked'[r] \/ HasRow(r)'
  PROVE  RunOK(r)'
BY DEF RunOK

LEMMA RowStays ==
  ASSUME NEW r \in Runs, jobs \subseteq jobs', HasRow(r) PROVE HasRow(r)'
BY DEF HasRow

-----------------------------------------------------------------------------
LEMMA HostRows ==
  ASSUME Typed, RowsInv, NEW r \in Runs, Host(r) \/ HostLoses(r) PROVE RowsInv' /\ HostLater
<1>1. UNCHANGED <<storeVars, asked, threadVars>>
  BY DEF Host, HostAccepts, HostLoses, HostStarts, HostExits, HostSettles
<1>2. UNCHANGED <<run, jobs, driver, rc>>
  BY <1>1 DEF storeVars, threadVars
<1>3. \A q \in Runs : HasRow(q)' = HasRow(q)
  BY <1>2 DEF HasRow
<1>4. \A q \in Runs : q # r => host'[q] = host[q] /\ proc'[q] = proc[q]
  BY DEF Host, HostAccepts, HostLoses, HostStarts, HostExits, HostSettles, Typed, ServiceTypeOK
<1>5. RunOK(r)
  BY DEF RowsInv
<1>6. RunOK(r)' /\ (host[r] \in Verdicts => host'[r] = host[r])
        /\ (host[r] = "open" => host'[r] \in {"open"} \cup Verdicts)
  <2> USE DEF RunOK, Typed, ServiceTypeOK, Verdicts
  <2>1. CASE HostAccepts(r)
    BY <1>1, <1>2, <1>3, <1>5, <2>1 DEF HostAccepts
  <2>2. CASE HostLoses(r)
    BY <1>1, <1>2, <1>3, <1>5, <2>2 DEF HostLoses
  <2>3. CASE HostStarts(r)
    BY <1>1, <1>2, <1>3, <1>5, <2>3 DEF HostStarts
  <2>4. CASE HostExits(r)
    BY <1>1, <1>2, <1>3, <1>5, <2>4 DEF HostExits
  <2>5. ASSUME NEW verdict \in Verdicts, HostSettles(r, verdict)
        PROVE  RunOK(r)' /\ (host[r] \in Verdicts => host'[r] = host[r])
                 /\ (host[r] = "open" => host'[r] \in {"open"} \cup Verdicts)
    BY <1>1, <1>2, <1>3, <1>5, <2>5 DEF HostSettles
  <2> QED BY <2>1, <2>2, <2>3, <2>4, <2>5 DEF Host
<1>7. ASSUME NEW q \in Runs, q # r PROVE RunOK(q)'
  BY <1>1, <1>2, <1>3, <1>4, <1>7, RunKept DEF RowsInv
<1>8. HostLater
  BY <1>1, <1>4, <1>6 DEF HostLater
<1> QED BY <1>2, <1>6, <1>7, <1>8, RcHostKept DEF RowsInv

LEMMA DriveRows ==
  ASSUME Typed, RowsInv, NEW r \in Runs, Drive(r) PROVE RowsInv' /\ HostLater
<1>1. UNCHANGED <<proc, asked, rc>>
  BY DEF Drive, DrivePrepare, DriveAbort, DriveDeadline, DriveSend, DriveReply,
         DriveUnavailable, DriveRejected, DriveFault, hostVars
<1>2. UNCHANGED run
  BY DEF Drive, DrivePrepare, DriveAbort, DriveDeadline, DriveSend, DriveReply,
         DriveUnavailable, DriveRejected, DriveFault, storeVars, HoldAndRenew, Prepare,
         PreDispatchFault, HostFault, KeepHistory
<1>3. \A q \in Runs : q # r => driver'[q] = driver[q] /\ host'[q] = host[q]
  BY DEF Drive, DrivePrepare, DriveAbort, DriveDeadline, DriveSend, DriveReply,
         DriveUnavailable, DriveRejected, DriveFault, DriverTo, hostVars, Typed, ServiceTypeOK
<1>4. RunOK(r)
  BY DEF RowsInv
<1>5. /\ RunOK(r)'
      /\ \A q \in Runs : q # r /\ HasRow(q) => HasRow(q)'
      /\ host[r] \in Verdicts \cup {"open"} => host'[r] = host[r]
  <2> DEFINE Goal == /\ RunOK(r)'
                     /\ \A q \in Runs : q # r /\ HasRow(q) => HasRow(q)'
                     /\ host[r] \in Verdicts \cup {"open"} => host'[r] = host[r]
  <2>0. driver \in [Runs -> {"none", "claimed", "prepared", "waiting", "rejected"}]
        /\ host \in [Runs -> {"absent", "sent", "open"} \cup Verdicts]
    BY DEF Typed, ServiceTypeOK
  <2>1. CASE DrivePrepare(r)
    <3>1. /\ driver[r] = "claimed" /\ driver'[r] = "prepared" /\ UNCHANGED host
          /\ Prepare(r[1], tries[r], r[2])
      BY <2>0, <2>1 DEF DrivePrepare, DriverTo, hostVars
    <3> DEFINE j == [task |-> r[1], run |-> r[2], attempt |-> tries[r], spec |-> spec[r[1]]]
    <3>2. jobs' = jobs \cup {j} /\ RunOf(j) = r
      BY <3>1 DEF Prepare, RunOf, Runs
    <3> HIDE DEF j
    <3>3. HasRow(r)' /\ jobs \subseteq jobs'
      BY <3>2 DEF HasRow
    <3>4. driver[r] # "none" /\ RunOK(r)'
      BY <1>1, <1>2, <1>4, <3>1, <3>3 DEF RunOK
    <3> QED BY <3>1, <3>3, <3>4, RowStays
  <2>2. CASE DriveAbort(r) \/ DriveReply(r) \/ DriveDeadline(r) \/ DriveUnavailable(r)
    <3>1. UNCHANGED <<host, jobs>> /\ driver'[r] = "none"
      BY <2>0, <2>2 DEF DriveAbort, DriveReply, DriveDeadline, DriveUnavailable, DriverTo,
             hostVars, storeVars, PreDispatchFault, HoldAndRenew
    <3>2. \A q \in Runs : HasRow(q)' = HasRow(q)
      BY <3>1 DEF HasRow
    <3>3. RunOK(r)'
      BY <1>1, <1>2, <1>4, <3>1, <3>2, RunKept
    <3> QED BY <3>1, <3>2, <3>3
  <2>3. CASE DriveSend(r)
    <3>1. /\ driver[r] = "prepared" /\ driver'[r] = "waiting" /\ host'[r] = "sent"
          /\ UNCHANGED jobs
      BY <2>0, <2>3 DEF DriveSend, DriverTo, storeVars
    <3>2. \A q \in Runs : HasRow(q)' = HasRow(q)
      BY <3>1 DEF HasRow
    <3> QED BY <1>1, <1>2, <1>4, <3>1, <3>2 DEF RunOK, Verdicts
  <2>4. CASE DriveRejected(r)
    <3>1. /\ host[r] = "sent" /\ driver'[r] = "rejected" /\ host'[r] = "absent"
          /\ UNCHANGED jobs
      BY <2>0, <2>4 DEF DriveRejected, DriverTo, storeVars
    <3>2. \A q \in Runs : HasRow(q)' = HasRow(q)
      BY <3>1 DEF HasRow
    <3> QED BY <1>1, <1>2, <1>4, <3>1, <3>2 DEF RunOK, Verdicts
  <2>5. CASE DriveFault(r)
    <3>1. /\ driver[r] = "rejected" /\ driver'[r] = "none" /\ UNCHANGED host
          /\ host[r] = "absent"
      BY <1>4, <2>0, <2>5 DEF DriveFault, DriverTo, hostVars, RunOK
    <3>2. \A j \in jobs : RunOf(j) # r => j \in jobs'
      BY <2>5 DEF DriveFault, HostFault, storeVars
    <3>3. RunOK(r)'
      BY <1>1, <1>2, <1>4, <3>1 DEF RunOK
    <3> QED BY <3>1, <3>2, <3>3 DEF HasRow
  <2> QED BY <2>1, <2>2, <2>3, <2>4, <2>5 DEF Drive
<1>6. ASSUME NEW q \in Runs, q # r PROVE RunOK(q)'
  BY <1>1, <1>2, <1>3, <1>5, <1>6, RunKept DEF RowsInv
<1>7. HostLater
  BY <1>1, <1>3, <1>5 DEF HostLater
<1> QED BY <1>1, <1>5, <1>6, <1>7, RcHostKept DEF RowsInv

LEMMA ClaimRows ==
  ASSUME Typed, RowsInv, NEW t \in Tasks, DriveClaim(t) PROVE RowsInv' /\ HostLater
<1> DEFINE r == <<t, run[t] + 1>>
<1>1. /\ UNCHANGED <<host, proc, asked, rc, jobs>>
      /\ driver' = [driver EXCEPT ![r] = "claimed"] /\ run' = [run EXCEPT ![t] = @ + 1]
  BY DEF DriveClaim, DriverTo, Claim, hostVars
<1>2. r[1] = t /\ r[2] = run[t] + 1 /\ run[t] \in Nat /\ run'[t] = run[t] + 1
  BY <1>1 DEF Typed, ServiceTypeOK, TypeOK
<1> HIDE DEF r
<1>3. \A q \in Runs : HasRow(q)' = HasRow(q)
  BY <1>1 DEF HasRow
<1>4. ASSUME NEW q \in Runs PROVE RunOK(q)'
  <2>1. RunOK(q) /\ q[1] \in Tasks /\ q[2] \in Nat /\ run[q[1]] \in Nat
    BY DEF RowsInv, Runs, Typed, ServiceTypeOK, TypeOK
  <2>2. run'[q[1]] \in {run[q[1]], run[q[1]] + 1}
    BY <1>1, <2>1 DEF Typed, ServiceTypeOK, TypeOK
  <2>3. q[2] > run'[q[1]] => q[2] > run[q[1]]
    BY <2>1, <2>2
  <2>4. CASE q = r
    <3>1. driver'[q] = "claimed" /\ q[2] > run[q[1]] /\ ~(q[2] > run'[q[1]])
      BY <1>1, <1>2, <2>4 DEF Typed, ServiceTypeOK
    <3> QED BY <1>1, <1>3, <2>1, <3>1 DEF RunOK
  <2>5. CASE q # r
    <3>1. driver'[q] = driver[q]
      BY <1>1, <2>5 DEF Typed, ServiceTypeOK
    <3> QED BY <1>1, <1>3, <2>1, <2>3, <3>1 DEF RunOK
  <2> QED BY <2>4, <2>5
<1>5. HostLater
  BY <1>1 DEF HostLater
<1> QED BY <1>1, <1>4, <1>5, RcHostKept DEF RowsInv

(* Operators, cancellations, time and crashes leave the host and the rows   *)
(* alone, except for what is asked.                                        *)
LEMMA OperateKeepsRows ==
  ASSUME NEW t, Operate(t)
  PROVE  UNCHANGED <<run, jobs, attemptSpec, worker, lease, hostVars, rowVars, threadVars>>
BY DEF Operate, Pause, Resume, AskHuman, CancelIdle, ReplaceSpec, OperatorResume,
       ResumeSuspended, SwitchProvider, Escalate, Suspend, Move, KeepHolds, KeepHistory

LEMMA TaskRows ==
  ASSUME Typed, RowsInv,
         \/ \E t \in Tasks : CancelTask(t) \/ CancelJob(t) \/ Operate(t) \/ LeaseExpires(t)
         \/ LinkFails \/ LinkReturns \/ Crash
  PROVE  RowsInv' /\ HostLater
<1> DEFINE Goal ==
      /\ UNCHANGED <<run, jobs, host, proc>>
      /\ \A r \in Runs : driver'[r] \in {driver[r], "none"} /\ (asked[r] => asked'[r])
      /\ UNCHANGED rc \/ rc' = Idle
<1>1. Goal
  <2>1. ASSUME NEW t \in Tasks, CancelTask(t) PROVE Goal
    BY <2>1 DEF CancelTask, RequestCancel, KeepHistory, KeepHolds, storeVars, hostVars
  <2>2. ASSUME NEW t \in Tasks, CancelJob(t) PROVE Goal
    <3>1. UNCHANGED <<run, jobs, host, proc, driver, rc>>
      BY <2>2 DEF CancelJob, storeVars, HoldAndRenew
    <3>2. \A r \in Runs : asked[r] => asked'[r]
      BY ZenonT(60), <2>2 DEF CancelJob, Ask, Typed, ServiceTypeOK
    <3> QED BY <3>1, <3>2
  <2>3. ASSUME NEW t \in Tasks, Operate(t) PROVE Goal
    BY <2>3, OperateKeepsRows DEF hostVars, threadVars
  <2>4. ASSUME NEW t \in Tasks, LeaseExpires(t) PROVE Goal
    BY <2>4 DEF LeaseExpires, Expire, KeepHistory, hostVars, threadVars
  <2>5. CASE LinkFails \/ LinkReturns \/ Crash
    BY <2>5 DEF LinkFails, LinkReturns, Crash, storeVars, hostVars, threadVars
  <2> QED BY <2>1, <2>2, <2>3, <2>4, <2>5
<1>2. \A q \in Runs : HasRow(q)' = HasRow(q)
  BY <1>1 DEF HasRow
<1>3. \A q \in Runs : RunOK(q)'
  BY <1>1, <1>2, RunKept DEF RowsInv
<1>4. HostLater
  BY <1>1 DEF HostLater
<1>5. RcHost'
  <2>1. CASE UNCHANGED rc
    BY <1>4, <2>1, RcHostKept DEF RowsInv
  <2>2. CASE rc' = Idle
    BY <2>2 DEF RcHost, Idle
  <2> QED BY <1>1, <2>1, <2>2
<1> QED BY <1>3, <1>4, <1>5 DEF RowsInv

(* A tick removes the row of a run only if the host has finished with it or *)
(* was told to stop it.                                                    *)
LEMMA TickKeeps ==
  ASSUME Typed, RowsInv, UNCHANGED <<run, host, proc, driver>>,
         \A r \in Runs : asked[r] => asked'[r],
         \A j \in jobs : j \in jobs' \/ host[RunOf(j)] \in Verdicts \/ asked[RunOf(j)],
         RcHost'
  PROVE  RowsInv' /\ HostLater
<1>1. HostLater
  BY DEF HostLater
<1>2. ASSUME NEW r \in Runs PROVE RunOK(r)'
  <2>1. RunOK(r)
    BY DEF RowsInv
  <2>2. HasRow(r) => HasRow(r)' \/ host[r] \in Verdicts \/ asked[r]
    BY DEF HasRow
  <2>3. host[r] \in Verdicts => host[r] \notin {"sent", "open"} /\ driver[r] # "prepared"
    BY <2>1 DEF RunOK, Verdicts
  <2> QED BY <2>1, <2>2, <2>3, RunKept
<1> QED BY <1>1, <1>2 DEF RowsInv

LEMMA RcLists ==
  ASSUME NextJob \/ rc' = Idle \/ \E pc \in {"advance", "dispatch"} : rc' = [Idle EXCEPT !.pc = pc]
  PROVE  rc'.pc \in {"idle", "list", "advance", "dispatch"}
<1>1. ASSUME NextJob PROVE rc'.pc = "list"
  BY <1>1 DEF NextJob, Idle
<1>2. ASSUME rc' = Idle PROVE rc'.pc = "idle"
  BY <1>2 DEF Idle
<1>3. ASSUME NEW pc \in {"advance", "dispatch"}, rc' = [Idle EXCEPT !.pc = pc]
      PROVE  rc'.pc = pc
  BY <1>3 DEF Idle
<1> QED BY <1>1, <1>2, <1>3

(* The rows that the reconciler removes, and how its step leaves it, when   *)
(* the host has finished with the run it looks at or was told to stop it.  *)
LEMMA FaultRows ==
  ASSUME Typed, NEW action \in DOMAIN FaultTarget, Fault(action),
         rc.pc \notin {"idle", "list", "advance", "dispatch"},
         host[Run1] \in Verdicts \/ asked[Run1]
  PROVE  /\ \A j \in jobs : j \in jobs' \/ host[RunOf(j)] \in Verdicts \/ asked[RunOf(j)]
         /\ UNCHANGED run /\ rc'.pc \in {"idle", "list", "advance", "dispatch"}
<1>1. rc'.pc \in {"idle", "list", "advance", "dispatch"}
  <2>1. NextJob \/ rc' = Idle
    BY DEF Fault
  <2> QED BY <2>1, RcLists
<1>2. UNCHANGED run /\ (UNCHANGED jobs \/ jobs' = jobs \ {Job1})
  BY DEF Fault, HostFault, storeVars
<1> QED BY <1>1, <1>2 DEF Run1, Job1

LEMMA RcEnds ==
  ASSUME rc'.pc \in {"idle", "list", "advance", "dispatch"} PROVE RcHost'
BY DEF RcHost

LEMMA RcAdvances ==
  ASSUME Typed, UNCHANGED host, host[Run1] \in Verdicts,
         NEW pc \in {"finish", "contract", "consume"}, RcTo(pc)
  PROVE  RcHost'
<1>1. rc'.pc = pc /\ Run1' = Run1
  BY DEF RcTo, Run1, RunOf, Typed, ServiceTypeOK
<1> QED BY <1>1 DEF RcHost

LEMMA TickActsRows ==
  ASSUME Typed, RowsInv, "give_up" \notin Parts, TickActs PROVE RowsInv' /\ HostLater
<1> DEFINE Settled(j) == j \in jobs' \/ host[RunOf(j)] \in Verdicts \/ asked[RunOf(j)]
           Goal == /\ UNCHANGED run /\ RcHost'
                   /\ \A r \in Runs : asked[r] => asked'[r]
                   /\ \A j \in jobs : Settled(j)
<1>1. UNCHANGED <<host, proc, driver>>
  BY DEF TickActs, HoldJob, GiveUp, RenewJob, BoundJob, SettleBound, SettleFault,
         ConfirmCancel, VerifyHeld, VerifyBound, VerifyStarts, FinishJob, BreaksContract,
         DropResult, ConsumeJob, TickRecovers, TickAdvances, SettleSuspended, KeepRest, hostVars
<1> SUFFICES Goal
  BY <1>1, TickKeeps
<1>2. RcHost
  BY DEF RowsInv
<1>3. rc.pc \notin {"idle", "list", "advance", "dispatch"} => Run1 \in Runs
  BY RcRun
<1>4. rc.poll \in Verdicts => rc.poll # "unknown" /\ rc.poll # "open"
  BY DEF Verdicts
<1>5. UNCHANGED asked \/ BoundJob
  BY DEF TickActs, HoldJob, GiveUp, RenewJob, BoundJob, SettleBound, SettleFault,
         ConfirmCancel, VerifyHeld, VerifyBound, VerifyStarts, FinishJob, BreaksContract,
         DropResult, ConsumeJob, TickRecovers, TickAdvances, SettleSuspended, KeepRest, hostVars
<1>6. CASE HoldJob \/ RenewJob \/ TickRecovers \/ TickAdvances \/ VerifyHeld
  <2>1. /\ UNCHANGED asked
        /\ \/ NextJob \/ rc' = Idle
           \/ \E pc \in {"advance", "dispatch"} : rc' = [Idle EXCEPT !.pc = pc]
    BY <1>6 DEF HoldJob, RenewJob, TickRecovers, TickAdvances, VerifyHeld, KeepRest, hostVars
  <2>2. HoldJob \/ TickRecovers \/ TickAdvances => UNCHANGED <<run, jobs>>
    BY AdvanceActs
       DEF HoldJob, TickRecovers, TickAdvances, storeVars, Recover, KeepHistory, Typed,
           ServiceTypeOK
  <2>3. RenewJob \/ VerifyHeld => UNCHANGED <<run, jobs>>
    BY DEF RenewJob, VerifyHeld, storeVars, Renew, KeepHistory, HoldAndRenew
  <2>4. UNCHANGED <<run, jobs>>
    BY <1>6, <2>2, <2>3
  <2>5. rc'.pc \in {"idle", "list", "advance", "dispatch"}
    BY <2>1, RcLists
  <2> QED BY <2>1, <2>4, <2>5, RcEnds
<1>7. CASE SettleFault \/ VerifyBound \/ BreaksContract \/ SettleBound
  <2>1. PICK action \in DOMAIN FaultTarget : Fault(action)
    BY <1>7 DEF BreaksContract, SettleBound, SettleFault, VerifyBound, FaultTarget
  <2>2. /\ rc.pc \notin {"idle", "list", "advance", "dispatch"}
        /\ host[Run1] \in Verdicts \/ asked[Run1]
    <3>1. CASE SettleFault \/ VerifyBound
      <4>1. rc.pc = "act" /\ rc.poll \in Verdicts
        BY <3>1 DEF SettleFault, VerifyBound, Verdicts
      <4> QED BY <1>2, <1>4, <4>1 DEF RcHost
    <3>2. CASE BreaksContract \/ SettleBound
      BY <1>2, <3>2 DEF RcHost, BreaksContract, SettleBound
    <3> QED BY <1>7, <3>1, <3>2
  <2>3. ~BoundJob
    BY <1>7 DEF BoundJob, SettleFault, VerifyBound, BreaksContract, SettleBound
  <2> QED BY <1>5, <2>1, <2>2, <2>3, FaultRows, RcEnds
<1>8. CASE SettleSuspended
  <2>1. /\ rc.pc = "suspend" /\ rc' = Idle /\ UNCHANGED <<run, asked>>
        /\ UNCHANGED jobs \/ jobs' = jobs \ {Job1}
    BY <1>8 DEF SettleSuspended, HostFault, storeVars, KeepRest, hostVars
  <2>2. host[Run1] \in Verdicts \/ asked[Run1]
    BY <1>2, <2>1 DEF RcHost
  <2>3. \A j \in jobs : Settled(j)
    BY <2>1, <2>2 DEF Run1, Job1
  <2> QED BY <2>1, <2>3, RcEnds DEF Idle
<1>9. CASE ConsumeJob
  <2>1. /\ rc.pc = "consume" /\ NextJob /\ UNCHANGED <<run, asked>>
        /\ UNCHANGED jobs \/ jobs' = jobs \ {Job1}
    BY <1>9 DEF ConsumeJob, Consume, storeVars, KeepRest, KeepHistory, hostVars
  <2>2. host[Run1] \in Verdicts
    BY <1>2, <2>1 DEF RcHost
  <2>3. \A j \in jobs : Settled(j)
    BY <2>1, <2>2 DEF Run1, Job1
  <2> QED BY <2>1, <2>3, RcEnds DEF NextJob, Idle
<1>10. CASE ConfirmCancel \/ DropResult \/ VerifyStarts \/ FinishJob
  <2>1. UNCHANGED <<run, asked, jobs>>
    BY <1>10 DEF ConfirmCancel, DropResult, VerifyStarts, FinishJob, FinalizeCancel,
           MarkVerifying, Finish, KeepHistory, KeepHolds, KeepRest, hostVars, storeVars
  <2>2. host[Run1] \in Verdicts
    <3>1. CASE ConfirmCancel \/ DropResult \/ VerifyStarts
      <4>1. rc.pc = "act" /\ rc.poll \in Verdicts
        BY <3>1 DEF ConfirmCancel, DropResult, VerifyStarts, Verdicts
      <4> QED BY <1>2, <1>4, <4>1 DEF RcHost
    <3>2. CASE FinishJob
      BY <1>2, <3>2 DEF RcHost, FinishJob
    <3> QED BY <1>10, <3>1, <3>2
  <2>3. rc' = Idle \/ RcTo("finish") \/ RcTo("contract") \/ RcTo("consume")
    BY <1>10 DEF ConfirmCancel, DropResult, VerifyStarts, FinishJob
  <2>4. RcHost'
    BY <1>1, <2>2, <2>3, RcAdvances, RcEnds DEF Idle
  <2> QED BY <2>1, <2>4
<1>11. CASE BoundJob
  <2>1. rc.pc = "act" /\ rc.poll = "open" /\ Run1 \in Runs
    BY <1>3, <1>11 DEF BoundJob
  <2>2. CASE link
    <3>1. Ask(Run1) /\ RcTo("boundary") /\ UNCHANGED <<run, jobs>>
      BY <1>11, <2>2 DEF BoundJob, storeVars
    <3>2. host[Run1] \in {"open"} \cup Verdicts
      BY <1>2, <2>1 DEF RcHost
    <3>3. rc'.pc = "boundary" /\ Run1' = Run1
      BY <3>1 DEF RcTo, Run1, RunOf, Typed, ServiceTypeOK
    <3>4. asked' = [asked EXCEPT ![Run1] = @ \/ host[Run1] = "open"]
      BY <3>1 DEF Ask
    <3>5. asked \in [Runs -> BOOLEAN]
      BY DEF Typed, ServiceTypeOK
    <3>6. /\ asked'[Run1] = (asked[Run1] \/ host[Run1] = "open")
          /\ \A r \in Runs : asked[r] => asked'[r]
      BY <2>1, <3>4, <3>5, Zenon
    <3>7. RcHost'
      BY <1>1, <3>2, <3>3, <3>6 DEF RcHost
    <3> QED BY <3>1, <3>6, <3>7
  <2>3. CASE ~link
    <3>1. UNCHANGED <<run, jobs, asked>> /\ rc'.pc \in {"idle", "list", "advance", "dispatch"}
      BY <1>11, <2>3 DEF BoundJob, HoldAndRenew, NextJob, Idle
    <3> QED BY <3>1, RcEnds
  <2> QED BY <2>2, <2>3
<1>12. ~GiveUp
  BY DEF GiveUp
<1> QED
  BY <1>6, <1>7, <1>8, <1>9, <1>10, <1>11, <1>12 DEF TickActs

LEMMA TickLooksRows ==
  ASSUME Typed, RowsInv, TickLooks PROVE RowsInv' /\ HostLater
<1> DEFINE Goal == /\ UNCHANGED <<run, jobs>> /\ RcHost'
                   /\ \A r \in Runs : asked[r] => asked'[r]
<1>1. UNCHANGED <<host, proc, driver>>
  BY DEF TickLooks, TickStart, PollHost, ReadTask, SuspendJob, KeepRest, hostVars
<1> SUFFICES Goal
  BY <1>1, TickKeeps
<1>2. UNCHANGED <<run, jobs>>
  BY DEF TickLooks, TickStart, PollHost, ReadTask, SuspendJob, HoldAndRenew, storeVars
<1>3. CASE TickStart \/ \E j \in jobs \cup rc.queue : ReadTask(j)
  <2>1. UNCHANGED asked /\ rc'.pc \in {"list", "poll"}
    BY <1>3 DEF TickStart, ReadTask, KeepRest, hostVars, Idle, Typed, ServiceTypeOK
  <2> QED BY <1>2, <2>1 DEF RcHost
<1>4. CASE PollHost
  <2>1. UNCHANGED asked /\ rc'.pc = "act" /\ Run1' = Run1 /\ Run1 \in Runs
    BY <1>4, RcRun DEF PollHost, KeepRest, hostVars, Run1, RunOf, Typed, ServiceTypeOK
  <2>2. \/ rc'.poll = "unknown"
        \/ rc'.poll = host[Run1] /\ host[Run1] \notin {"absent", "sent"}
    BY <1>4 DEF PollHost, Answers, Typed, ServiceTypeOK
  <2>3. host[Run1] \in {"absent", "sent", "open"} \cup Verdicts
    BY <2>1 DEF Typed, ServiceTypeOK
  <2> QED BY <1>1, <1>2, <2>1, <2>2, <2>3 DEF RcHost
<1>5. ASSUME NEW j \in jobs \cup rc.queue, SuspendJob(j) PROVE Goal
  <2>1. /\ rc'.pc = "suspend" /\ rc'.job = j /\ Ask(RunOf(j)) /\ Answers(RunOf(j)) /\ j \in Job
    BY <1>5 DEF SuspendJob, Idle, Typed, ServiceTypeOK, TypeOK
  <2>2. RunOf(j) \in Runs /\ Run1' = RunOf(j)
    <3>1. j.task \in Tasks /\ j.run \in 1..MaxRuns
      BY <2>1 DEF Job
    <3> QED BY <2>1, <3>1 DEF RunOf, Runs, Run1
  <2>3. host[RunOf(j)] \in {"open"} \cup Verdicts
    BY <2>1, <2>2 DEF Answers, Typed, ServiceTypeOK
  <2>4. asked \in [Runs -> BOOLEAN]
    BY DEF Typed, ServiceTypeOK
  <2>5. asked' = [asked EXCEPT ![RunOf(j)] = @ \/ host[RunOf(j)] = "open"]
    BY <2>1 DEF Ask
  <2>6. /\ asked'[RunOf(j)] = (asked[RunOf(j)] \/ host[RunOf(j)] = "open")
        /\ \A r \in Runs : asked[r] => asked'[r]
    BY <2>2, <2>4, <2>5, Zenon
  <2>7. RcHost'
    BY <1>1, <2>1, <2>2, <2>3, <2>6 DEF RcHost
  <2> QED BY <1>2, <2>6, <2>7
<1> QED BY <1>3, <1>4, <1>5 DEF TickLooks

LEMMA RowsStep ==
  ASSUME Typed, RowsInv, "give_up" \notin Parts, [ServiceNext]_serviceVars
  PROVE  RowsInv' /\ HostLater
<1> DEFINE Goal == RowsInv' /\ HostLater
<1> SUFFICES Goal
  OBVIOUS
<1>1. ASSUME NEW r \in Runs, Host(r) \/ HostLoses(r) \/ Drive(r) PROVE Goal
  BY <1>1, HostRows, DriveRows
<1>2. ASSUME NEW t \in Tasks, DriveClaim(t) PROVE Goal
  BY <1>2, ClaimRows
<1>3. CASE \/ \E t \in Tasks : CancelTask(t) \/ CancelJob(t) \/ Operate(t) \/ LeaseExpires(t)
           \/ LinkFails \/ LinkReturns \/ Crash
  BY <1>3, TaskRows
<1>4. CASE Tick
  BY <1>4, TickActsRows, TickLooksRows DEF Tick, TickActs, TickLooks
<1>5. CASE UNCHANGED serviceVars
  <2>1. UNCHANGED <<run, jobs, host, proc, asked, driver, rc>>
    BY <1>5 DEF serviceVars, storeVars, hostVars, threadVars
  <2>2. HostLater
    BY <2>1 DEF HostLater
  <2>3. RcHost'
    BY <2>1, <2>2, RcHostKept DEF RowsInv
  <2> QED BY <2>1, <2>3, TickKeeps
<1> QED BY <1>1, <1>2, <1>3, <1>4, <1>5 DEF ServiceNext

LEMMA RowsHold ==
  ASSUME "give_up" \notin Parts PROVE ServiceSpec => [](Typed /\ RowsInv)
<1>1. ServiceInit => RowsInv
  BY StoreAssumption DEF ServiceInit, StoreInit, RowsInv, RunOK, RcHost, Idle, Runs
<1>2. Typed /\ RowsInv /\ [ServiceNext]_serviceVars => RowsInv'
  BY RowsStep
<1> QED BY <1>1, <1>2, TypedHolds, PTL DEF ServiceSpec

(* A living process has an open row until it is told to stop, whatever      *)
(* crashes, stalls, lost replies and outages happen: generic recovery never *)
(* requeues its task, and dispatch counts it.  Only the reconciliation      *)
(* deadline takes the row of a process that nobody stopped.                *)
THEOREM LiveRunHasRow ==
  ASSUME "give_up" \notin Parts PROVE ServiceSpec => []LiveHasRow
<1>1. RowsInv => LiveHasRow
  BY DEF RowsInv, RunOK, LiveHasRow, HasRow
<1> QED BY <1>1, RowsHold, PTL

-----------------------------------------------------------------------------
(* One run of a task at a time.  The promise needs drivers that prepare     *)
(* within their lease, no reconciliation deadline, and no crash between the *)
(* end of a run and the consumption of its job.                            *)

Calm == Parts \cap {"give_up", "slow_driver", "torn_end"} = {} /\ Overridable = {}

(* The job of a run that is over, before its row is consumed.               *)
Ending(j)   == rc.pc = "consume" /\ j = rc.job
OpenJobs(t) == {j \in jobs : j.task = t /\ ~Ending(j)}

(* The jobs that the reconciler still has to look at.                       *)
RcJobs  == rc.queue \cup {j \in {rc.job} : rc.pc \notin {"idle", "list", "advance", "dispatch"}}
Gone(j) == host[RunOf(j)] = "absent" /\ driver[RunOf(j)] = "none"

Unclaimed(t) == \A n \in 1..MaxRuns : driver[<<t, n>>] # "claimed"

(* An active task has one open job, of its latest run, or a driver that has *)
(* claimed that run and not prepared its job, or neither.                   *)
CalmTask(t) ==
  /\ OpenJobs(t) # {} => status[t] \in Active
  /\ \A j, k \in OpenJobs(t) : j = k /\ j.run = run[t]
  /\ \A n \in 1..MaxRuns : driver[<<t, n>>] = "claimed" =>
       n = run[t] /\ status[t] \in Active /\ lease[t] = "live" /\ OpenJobs(t) = {}

RcSound == \A j \in RcJobs : j \in jobs \/ Gone(j)

CalmInv == (\A t \in Tasks : CalmTask(t)) /\ RcSound

(* How a step treats the jobs of the reconciler.                            *)
RcCares ==
  /\ \A j \in RcJobs' : j \in RcJobs \/ j \in jobs'
  /\ \A j \in jobs : j \in jobs' \/ j \notin RcJobs' \/ Gone(j)'

-----------------------------------------------------------------------------
LEMMA CalmKept ==
  ASSUME NEW t \in Tasks, CalmTask(t), run'[t] = run[t], OpenJobs(t)' \subseteq OpenJobs(t),
         \A n \in 1..MaxRuns : driver'[<<t, n>>] = "claimed" => driver[<<t, n>>] = "claimed",
         lease[t] = "live" => lease'[t] = "live" \/ Unclaimed(t)',
         status[t] \in Active =>
           status'[t] \in Active \/ (OpenJobs(t)' = {} /\ Unclaimed(t)')
  PROVE  CalmTask(t)'
<1>1. OpenJobs(t)' # {} => status'[t] \in Active
  BY DEF CalmTask
<1>2. \A j, k \in OpenJobs(t)' : j = k /\ j.run = run'[t]
  BY DEF CalmTask
<1>3. ASSUME NEW n \in 1..MaxRuns, driver'[<<t, n>>] = "claimed"
      PROVE  n = run'[t] /\ status'[t] \in Active /\ lease'[t] = "live" /\ OpenJobs(t)' = {}
  BY <1>3 DEF CalmTask, Unclaimed
<1> QED BY <1>1, <1>2, <1>3 DEF CalmTask

LEMMA OpenShrinks ==
  ASSUME jobs' \subseteq jobs, \A j \in jobs' : Ending(j) => Ending(j)', NEW t
  PROVE  OpenJobs(t)' \subseteq OpenJobs(t)
BY DEF OpenJobs

LEMMA EndingStays ==
  ASSUME rc.pc # "consume" \/ UNCHANGED rc, NEW j, Ending(j) PROVE Ending(j)'
BY DEF Ending

(* A step that leaves the rows alone, and takes no active task with a row   *)
(* or a claim out of its status or its lease.                               *)
LEMMA QuietCalm ==
  ASSUME CalmInv, UNCHANGED <<run, jobs>>, rc.pc # "consume" \/ UNCHANGED rc,
         \A r \in Runs : driver'[r] = "claimed" => driver[r] = "claimed",
         \A t \in Tasks : lease[t] = "live" => lease'[t] = "live" \/ Unclaimed(t)',
         \A t \in Tasks : status[t] \in Active =>
           status'[t] \in Active \/ (OpenJobs(t) = {} /\ Unclaimed(t)')
  PROVE  \A t \in Tasks : CalmTask(t)'
<1>1. TAKE t \in Tasks
<1>2. OpenJobs(t)' \subseteq OpenJobs(t)
  BY OpenShrinks, EndingStays
<1>3. \A n \in 1..MaxRuns : driver'[<<t, n>>] = "claimed" => driver[<<t, n>>] = "claimed"
  BY DEF Runs
<1>4. CalmTask(t)
  BY DEF CalmInv
<1> QED BY <1>2, <1>3, <1>4, CalmKept

(* The task of an open job may leave its status with its job.               *)
LEMMA SettleCalm ==
  ASSUME CalmInv, NEW j \in jobs, j.task \in Tasks, ~Ending(j), jobs' \subseteq jobs,
         rc.pc # "consume" \/ UNCHANGED rc, j \notin jobs' \/ Ending(j)', UNCHANGED run,
         \A r \in Runs : driver'[r] = "claimed" => driver[r] = "claimed",
         \A t \in Tasks \ {j.task} : status'[t] = status[t] /\ lease'[t] = lease[t]
  PROVE  \A t \in Tasks : CalmTask(t)'
<1>1. TAKE t \in Tasks
<1>2. OpenJobs(t)' \subseteq OpenJobs(t)
  BY OpenShrinks, EndingStays
<1>3. \A n \in 1..MaxRuns : driver'[<<t, n>>] = "claimed" => driver[<<t, n>>] = "claimed"
  BY DEF Runs
<1>4. CalmTask(t)
  BY DEF CalmInv
<1>5. CASE t = j.task
  <2>1. j \in OpenJobs(t) /\ j \notin OpenJobs(t)'
    BY <1>5 DEF OpenJobs
  <2>2. OpenJobs(t)' = {}
    BY <1>2, <1>4, <2>1 DEF CalmTask
  <2>3. Unclaimed(t)'
    BY <1>3, <1>4, <2>1 DEF CalmTask, Unclaimed
  <2> QED BY <1>2, <1>3, <1>4, <2>2, <2>3, CalmKept
<1>6. CASE t # j.task
  BY <1>2, <1>3, <1>4, <1>6, CalmKept
<1> QED BY <1>5, <1>6

(* What is gone stays gone: only the driver of a run asks for its job.      *)
LEMMA GoneStays ==
  ASSUME Typed, [ServiceNext]_serviceVars, NEW j, InRange(j), Gone(j) PROVE Gone(j)'
<1> DEFINE q == RunOf(j)
<1>1. q \in Runs /\ host[q] = "absent" /\ driver[q] = "none" /\ q[1] \in Tasks
        /\ q[2] <= run[q[1]] /\ q[2] \in Nat /\ run[q[1]] \in Nat
  <2>1. j.task \in Tasks /\ j.run \in 1..MaxRuns /\ j.run <= run[j.task]
    BY DEF InRange, Job
  <2>2. run[j.task] \in Nat
    BY <2>1 DEF Typed, ServiceTypeOK, TypeOK
  <2> QED BY <2>1, <2>2 DEF RunOf, Runs, Gone
<1> HIDE DEF q
<1> SUFFICES host'[q] = "absent" /\ driver'[q] = "none"
  BY DEF q, Gone
<1> DEFINE Goal == host'[q] = "absent" /\ driver'[q] = "none"
<1>2. ASSUME NEW r \in Runs, Host(r) \/ HostLoses(r) PROVE Goal
  BY <1>1, <1>2 DEF Host, HostAccepts, HostLoses, HostStarts, HostExits, HostSettles,
                    threadVars, Typed, ServiceTypeOK
<1>3. ASSUME NEW r \in Runs, Drive(r) PROVE Goal
  <2>1. driver[r] # "none"
    BY <1>3 DEF Drive, DrivePrepare, DriveAbort, DriveDeadline, DriveSend, DriveReply,
           DriveUnavailable, DriveRejected, DriveFault
  <2>2. r # q
    BY <1>1, <2>1
  <2>3. host'[q] = host[q] /\ driver'[q] = driver[q]
    BY <1>1, <1>3, <2>2 DEF Drive, DrivePrepare, DriveAbort, DriveDeadline, DriveSend,
           DriveReply, DriveUnavailable, DriveRejected, DriveFault, DriverTo, hostVars, Typed,
           ServiceTypeOK
  <2> QED BY <1>1, <2>3
<1>4. ASSUME NEW t \in Tasks, DriveClaim(t) PROVE Goal
  <2> DEFINE r == <<t, run[t] + 1>>
  <2>1. driver' = [driver EXCEPT ![r] = "claimed"] /\ UNCHANGED host
    BY <1>4 DEF DriveClaim, DriverTo, hostVars
  <2>2. r # q
    BY <1>1
  <2> HIDE DEF r
  <2> QED BY <1>1, <2>1, <2>2 DEF Typed, ServiceTypeOK
<1>5. ASSUME UNCHANGED host, UNCHANGED driver \/ driver' = [r \in Runs |-> "none"] PROVE Goal
  BY <1>1, <1>5
<1>6. CASE \/ \E t \in Tasks : CancelTask(t) \/ CancelJob(t) \/ Operate(t) \/ LeaseExpires(t)
           \/ LinkFails \/ LinkReturns \/ Crash
  BY <1>5, <1>6 DEF CancelTask, CancelJob, Operate, LeaseExpires, LinkFails, LinkReturns,
         Crash, hostVars, threadVars
<1>7. CASE Tick
  <2>1. UNCHANGED <<host, driver>>
    BY <1>7 DEF Tick, TickStart, PollHost, ReadTask, SuspendJob, HoldJob, GiveUp, RenewJob,
           BoundJob, SettleBound, SettleFault, ConfirmCancel, VerifyHeld, VerifyBound,
           VerifyStarts, FinishJob, BreaksContract, DropResult, ConsumeJob, TickRecovers,
           TickAdvances, SettleSuspended, KeepRest, hostVars
  <2> QED BY <1>5, <2>1
<1>8. CASE UNCHANGED serviceVars
  BY <1>5, <1>8 DEF serviceVars, hostVars, threadVars
<1> QED BY <1>2, <1>3, <1>4, <1>6, <1>7, <1>8 DEF ServiceNext

LEMMA RcSoundKept ==
  ASSUME Typed, RcSound, RcCares, [ServiceNext]_serviceVars PROVE RcSound'
<1>1. ASSUME NEW j \in RcJobs', j \notin jobs' PROVE Gone(j)'
  <2>1. j \in RcJobs
    BY <1>1 DEF RcCares
  <2>2. InRange(j)
    BY <2>1 DEF RcJobs, Typed, RcRanges
  <2>3. CASE j \in jobs
    BY <1>1, <2>3 DEF RcCares
  <2>4. CASE j \notin jobs
    BY <2>1, <2>2, <2>4, GoneStays DEF RcSound
  <2> QED BY <2>3, <2>4
<1> QED BY <1>1 DEF RcSound

-----------------------------------------------------------------------------
(* What every step must show.                                              *)
CalmGoal == (\A t \in Tasks : CalmTask(t)') /\ RcCares

LEMMA RcWaits ==
  ASSUME UNCHANGED <<rc, jobs>> PROVE RcCares
BY DEF RcCares, RcJobs

(* A run that the host knows about is not gone.                             *)
LEMMA Heard ==
  ASSUME Typed, CalmInv, rc.pc \notin {"idle", "list", "advance", "dispatch"},
         host[Run1] # "absent"
  PROVE  Job1 \in jobs /\ Task1 \in Tasks /\ Run1 \in Runs
<1>1. Job1 \in RcJobs /\ Run1 \in Runs /\ Task1 \in Tasks
  BY RcRun DEF RcJobs, Job1, Task1, Typed, ServiceTypeOK, Job
<1> QED BY <1>1 DEF CalmInv, RcSound, Gone, Run1, Job1

LEMMA HostCalm ==
  ASSUME CalmInv, NEW r \in Runs, Host(r) \/ HostLoses(r) PROVE CalmGoal
<1>1. UNCHANGED <<run, jobs, status, lease, driver, rc>>
  BY DEF Host, HostAccepts, HostLoses, HostStarts, HostExits, HostSettles, storeVars,
         taskVars, threadVars
<1> QED BY <1>1, QuietCalm, RcWaits DEF CalmGoal

(* A driver's claim is good for its task, and for that task only.           *)
LEMMA PrepareCalm ==
  ASSUME Typed, CalmInv, NEW r \in Runs, DrivePrepare(r) PROVE CalmGoal
<1> DEFINE t == r[1]
           j == [task |-> r[1], run |-> r[2], attempt |-> tries[r], spec |-> spec[r[1]]]
<1>1. t \in Tasks /\ r[2] \in 1..MaxRuns /\ r = <<t, r[2]>>
  BY DEF Runs
<1>2. driver[<<t, r[2]>>] = "claimed"
  BY <1>1 DEF DrivePrepare
<1>3. CalmTask(t)
  BY <1>1 DEF CalmInv
<1>4. r[2] = run[t] /\ status[t] \in Active /\ lease[t] = "live" /\ OpenJobs(t) = {}
  BY <1>1, <1>2, <1>3 DEF CalmTask
<1>5. /\ jobs' = jobs \cup {j} /\ UNCHANGED <<status, lease, run, rc>>
      /\ driver' = [driver EXCEPT ![r] = "prepared"]
  BY DEF DrivePrepare, Prepare, DriverTo, taskVars, KeepHistory
<1>6. j.task = t /\ j.run = run[t]
  BY <1>4
<1> HIDE DEF j
<1>7. \A k : Ending(k)' = Ending(k)
  BY <1>5 DEF Ending
<1>8. ASSUME NEW u \in Tasks, u # t PROVE CalmTask(u)'
  <2>1. OpenJobs(u)' = OpenJobs(u)
    BY <1>5, <1>6, <1>7, <1>8 DEF OpenJobs
  <2>2. \A n \in 1..MaxRuns : driver'[<<u, n>>] = driver[<<u, n>>]
    <3>1. \A n \in 1..MaxRuns : <<u, n>> # r /\ <<u, n>> \in Runs
      BY <1>8 DEF Runs
    <3> QED BY <1>5, <3>1 DEF Typed, ServiceTypeOK
  <2> QED BY <1>5, <2>1, <2>2, CalmKept DEF CalmInv
<1>9. CalmTask(t)'
  <2>1. OpenJobs(t)' \subseteq {j}
    BY <1>4, <1>5, <1>7 DEF OpenJobs
  <2>2. Unclaimed(t)'
    <3>1. ASSUME NEW n \in 1..MaxRuns PROVE driver'[<<t, n>>] # "claimed"
      <4>1. <<t, n>> \in Runs
        BY <1>1 DEF Runs
      <4>2. CASE <<t, n>> = r
        BY <1>5, <4>1, <4>2 DEF Typed, ServiceTypeOK
      <4>3. CASE <<t, n>> # r
        <5>1. driver[<<t, n>>] # "claimed"
          BY <1>1, <1>3, <1>4, <4>3 DEF CalmTask
        <5>2. driver'[<<t, n>>] = driver[<<t, n>>]
          BY <1>5, <4>1, <4>3 DEF Typed, ServiceTypeOK
        <5> QED BY <5>1, <5>2
      <4> QED BY <4>2, <4>3
    <3> QED BY <3>1 DEF Unclaimed
  <2>3. status'[t] \in Active /\ run'[t] = run[t]
    BY <1>4, <1>5
  <2> QED BY <1>6, <2>1, <2>2, <2>3 DEF CalmTask, Unclaimed
<1>10. RcCares
  BY <1>5 DEF RcCares, RcJobs
<1> QED BY <1>8, <1>9, <1>10 DEF CalmGoal

LEMMA DeadlineCalm ==
  ASSUME Typed, CalmInv, NEW r \in Runs, DriveDeadline(r) PROVE CalmGoal
<1> DEFINE t == r[1]
<1>1. t \in Tasks /\ r[2] \in 1..MaxRuns /\ r = <<t, r[2]>>
  BY DEF Runs
<1>2. driver[<<t, r[2]>>] = "claimed"
  BY <1>1 DEF DriveDeadline
<1>3. CalmTask(t)
  BY <1>1 DEF CalmInv
<1>4. r[2] = run[t] /\ OpenJobs(t) = {}
  BY <1>1, <1>2, <1>3 DEF CalmTask
<1>5. /\ UNCHANGED <<run, jobs, rc>>
      /\ \A u \in Tasks : u # t => status'[u] = status[u] /\ lease'[u] = lease[u]
      /\ driver' = [driver EXCEPT ![r] = "none"]
  BY <1>1 DEF DriveDeadline, PreDispatchFault, Release, SetStatus, DriverTo, KeepHistory,
         Typed, ServiceTypeOK, TypeOK
<1>6. \A q \in Runs : driver'[q] = "claimed" => driver[q] = "claimed"
  BY <1>5 DEF Typed, ServiceTypeOK
<1>7. Unclaimed(t)'
  <2>1. ASSUME NEW n \in 1..MaxRuns PROVE driver'[<<t, n>>] # "claimed"
    <3>1. <<t, n>> \in Runs
      BY <1>1 DEF Runs
    <3>2. CASE <<t, n>> = r
      BY <1>5, <3>1, <3>2 DEF Typed, ServiceTypeOK
    <3>3. CASE <<t, n>> # r
      BY <1>1, <1>3, <1>4, <1>6, <3>1, <3>3 DEF CalmTask
    <3> QED BY <3>2, <3>3
  <2> QED BY <2>1 DEF Unclaimed
<1> HIDE DEF t
<1>8. \A u \in Tasks : lease[u] = "live" => lease'[u] = "live" \/ Unclaimed(u)'
  BY <1>5, <1>7
<1>9. \A u \in Tasks : status[u] \in Active =>
        status'[u] \in Active \/ (OpenJobs(u) = {} /\ Unclaimed(u)')
  BY <1>4, <1>5, <1>7
<1> QED BY <1>5, <1>6, <1>8, <1>9, QuietCalm, RcWaits DEF CalmGoal

(* What a fault does to its task, and leaves alone.                         *)
LEMMA FaultTouches ==
  ASSUME Typed, NEW j \in jobs, NEW action, HostFault(j, action)
  PROVE  /\ j.task \in Tasks /\ jobs' = jobs \ {j} /\ UNCHANGED run
         /\ \A t \in Tasks \ {j.task} : status'[t] = status[t] /\ lease'[t] = lease[t]
<1>1. j.task \in Tasks
  BY DEF Typed, ServiceTypeOK, TypeOK, Job
<1> QED BY <1>1 DEF HostFault, SetStatus, Typed, ServiceTypeOK, TypeOK

LEMMA DriveCalm ==
  ASSUME Typed, RowsInv, CalmInv, NEW r \in Runs, Drive(r) PROVE CalmGoal
<1>1. CASE DrivePrepare(r)
  BY <1>1, PrepareCalm
<1>2. CASE DriveDeadline(r)
  BY <1>2, DeadlineCalm
<1>3. CASE DriveAbort(r) \/ DriveSend(r) \/ DriveReply(r) \/ DriveRejected(r)
            \/ DriveUnavailable(r)
  <2>1. UNCHANGED <<run, jobs, status, rc>>
    BY <1>3 DEF DriveAbort, DriveSend, DriveReply, DriveRejected, DriveUnavailable, storeVars,
           taskVars, HoldAndRenew
  <2>2. \A q \in Runs : driver'[q] = "claimed" => driver[q] = "claimed"
    BY <1>3 DEF DriveAbort, DriveSend, DriveReply, DriveRejected, DriveUnavailable, DriverTo,
           Typed, ServiceTypeOK
  <2>3. \A u \in Tasks : lease[u] = "live" => lease'[u] = "live"
    BY <1>3 DEF DriveAbort, DriveSend, DriveReply, DriveRejected, DriveUnavailable, storeVars,
           HoldAndRenew, Typed, ServiceTypeOK, TypeOK
  <2> QED BY <2>1, <2>2, <2>3, QuietCalm, RcWaits DEF CalmGoal
<1>4. CASE DriveFault(r)
  <2>1. /\ driver[r] = "rejected" /\ driver' = [driver EXCEPT ![r] = "none"]
        /\ UNCHANGED <<host, rc>>
    BY <1>4 DEF DriveFault, DriverTo, hostVars
  <2>2. host[r] = "absent"
    BY <2>1 DEF RowsInv, RunOK
  <2>3. \A q \in Runs : driver'[q] = "claimed" => driver[q] = "claimed"
    BY <2>1 DEF Typed, ServiceTypeOK
  <2>4. ASSUME NEW j \in jobs, RunOf(j) = r, HostFault(j, "needs_human") PROVE CalmGoal
    <3>1. ~Ending(j)
      <4>1. Ending(j) => host[RunOf(j)] \in Verdicts
        BY DEF Ending, RowsInv, RcHost, Run1
      <4> QED BY <2>2, <2>4, <4>1 DEF Verdicts
    <3>2. /\ j.task \in Tasks /\ jobs' = jobs \ {j} /\ UNCHANGED run
          /\ \A t \in Tasks \ {j.task} : status'[t] = status[t] /\ lease'[t] = lease[t]
      BY <2>4, FaultTouches
    <3>3. \A t \in Tasks : CalmTask(t)'
      BY <2>1, <2>3, <3>1, <3>2, SettleCalm
    <3>4. Gone(j)'
      BY <2>1, <2>2, <2>4 DEF Gone, RunOf, Typed, ServiceTypeOK
    <3>5. RcCares
      BY <2>1, <3>2, <3>4 DEF RcCares, RcJobs
    <3> QED BY <3>3, <3>5 DEF CalmGoal
  <2>5. ASSUME UNCHANGED storeVars PROVE CalmGoal
    <3>1. UNCHANGED <<run, jobs, status, lease>>
      BY <2>5 DEF storeVars, taskVars
    <3> QED BY <2>1, <2>3, <3>1, QuietCalm, RcWaits DEF CalmGoal
  <2> QED BY <1>4, <2>4, <2>5 DEF DriveFault
<1> QED BY <1>1, <1>2, <1>3, <1>4 DEF Drive

(* A claim finds no open job and no other claim of its task.                *)
LEMMA ClaimCalm ==
  ASSUME Typed, CalmInv, NEW t \in Tasks, DriveClaim(t) PROVE CalmGoal
<1> DEFINE r == <<t, run[t] + 1>>
<1>1. /\ status[t] = "ready" /\ status' = [status EXCEPT ![t] = "running"]
      /\ UNCHANGED <<jobs, rc>> /\ run' = [run EXCEPT ![t] = @ + 1]
      /\ driver' = [driver EXCEPT ![r] = "claimed"]
      /\ lease' = [u \in Tasks |-> IF u = t THEN "live"
                                   ELSE IF lease[u] = "expired" THEN "none" ELSE lease[u]]
  BY DEF DriveClaim, DriverTo, Claim, CanClaim, SetStatus
<1>2. /\ run'[t] = run[t] + 1 /\ status'[t] = "running" /\ lease'[t] = "live"
      /\ \A u \in Tasks : u # t => /\ run'[u] = run[u] /\ status'[u] = status[u]
                                   /\ lease[u] = "live" => lease'[u] = "live"
  BY <1>1 DEF Typed, ServiceTypeOK, TypeOK
<1>3. \A u : OpenJobs(u)' = OpenJobs(u)
  BY <1>1 DEF OpenJobs, Ending
<1>4. ASSUME NEW u \in Tasks, u # t PROVE CalmTask(u)'
  <2>1. \A n \in 1..MaxRuns : driver'[<<u, n>>] = driver[<<u, n>>]
    <3>1. \A n \in 1..MaxRuns : <<u, n>> # r /\ <<u, n>> \in Runs
      BY <1>4 DEF Runs
    <3> HIDE DEF r
    <3> QED BY <1>1, <3>1 DEF Typed, ServiceTypeOK
  <2> QED BY <1>2, <1>3, <1>4, <2>1, CalmKept DEF CalmInv
<1>5. CalmTask(t)'
  <2>1. CalmTask(t) /\ status[t] \notin Active
    BY <1>1 DEF CalmInv, Active
  <2>2. OpenJobs(t) = {} /\ Unclaimed(t)
    BY <2>1 DEF CalmTask, Unclaimed
  <2>3. ASSUME NEW n \in 1..MaxRuns, driver'[<<t, n>>] = "claimed" PROVE n = run[t] + 1
    <3>1. CASE <<t, n>> = r
      BY <3>1
    <3>2. CASE <<t, n>> # r
      <4>1. <<t, n>> \in Runs
        BY DEF Runs
      <4> HIDE DEF r
      <4>2. driver'[<<t, n>>] = driver[<<t, n>>]
        BY <1>1, <3>2, <4>1 DEF Typed, ServiceTypeOK
      <4> QED BY <2>2, <2>3, <4>2 DEF Unclaimed
    <3> QED BY <3>1, <3>2
  <2> QED BY <1>2, <1>3, <2>2, <2>3 DEF CalmTask, Active
<1> QED BY <1>1, <1>4, <1>5, RcWaits DEF CalmGoal

(* Operators do not touch an active task, and a cancellation only marks it. *)
LEMMA OperateCalm ==
  ASSUME Calm, Typed, NEW t \in Tasks, Operate(t)
  PROVE  \A u \in Tasks : status[u] \in Active => status'[u] \in Active
<1>1. status[t] \notin Active
  BY DEF Operate, Pause, Resume, AskHuman, CancelIdle, ReplaceSpec, OperatorResume,
         ResumeSuspended, SwitchProvider, Escalate, Suspend, Move, Active, Suspended, Calm
<1>2. \A u \in Tasks : u # t => status'[u] = status[u]
  BY SMTT(30) DEF Operate, Pause, Resume, AskHuman, CancelIdle, ReplaceSpec, OperatorResume,
         ResumeSuspended, SwitchProvider, Escalate, Suspend, Move, SetStatus, Typed,
         ServiceTypeOK, TypeOK
<1> QED BY <1>1, <1>2

LEMMA TaskCalm ==
  ASSUME Calm, Typed, CalmInv, NEW t \in Tasks,
         CancelTask(t) \/ CancelJob(t) \/ Operate(t) \/ LeaseExpires(t)
  PROVE  CalmGoal
<1> DEFINE Goal ==
      /\ UNCHANGED <<run, jobs, rc, driver>>
      /\ \A u \in Tasks : status[u] \in Active => status'[u] \in Active
      /\ \A u \in Tasks : lease[u] = "live" => lease'[u] = "live" \/ Unclaimed(u)'
<1> SUFFICES Goal
  BY QuietCalm, RcWaits DEF CalmGoal
<1>1. CASE CancelTask(t)
  <2>1. UNCHANGED storeVars \/ RequestCancel(t)
    BY <1>1 DEF CancelTask
  <2>2. UNCHANGED <<run, jobs, lease>>
    BY <2>1 DEF storeVars, RequestCancel, KeepHistory, KeepHolds
  <2>3. \A u \in Tasks : status[u] \in Active => status'[u] \in Active
    BY SMTT(30), <2>1
       DEF storeVars, taskVars, RequestCancel, SetStatus, Active, Typed, ServiceTypeOK, TypeOK
  <2> QED BY <1>1, <2>2, <2>3 DEF CancelTask
<1>2. CASE CancelJob(t)
  <2>1. UNCHANGED <<rc, driver>>
    BY <1>2 DEF CancelJob
  <2>2. UNCHANGED storeVars \/ \E r \in Runs : HoldAndRenew(r)
    <3>1. <<t, cancels[t]>> \in Runs
      BY <1>2 DEF CancelJob, Runs, Typed, ServiceTypeOK
    <3> QED BY <1>2, <3>1 DEF CancelJob
  <2>3. UNCHANGED <<run, jobs, status>>
    BY <2>2 DEF storeVars, taskVars, HoldAndRenew
  <2>4. \A u \in Tasks : lease[u] = "live" => lease'[u] = "live"
    BY ZenonT(60), <2>2 DEF storeVars, HoldAndRenew, Typed, ServiceTypeOK, TypeOK
  <2> QED BY <2>1, <2>3, <2>4
<1>3. CASE Operate(t)
  <2>1. UNCHANGED <<run, jobs, lease, rc, driver>>
    BY <1>3, OperateKeepsRows DEF threadVars
  <2> QED BY <1>3, <2>1, OperateCalm
<1>4. CASE LeaseExpires(t)
  <2>1. /\ UNCHANGED <<run, jobs, status, rc, driver>>
        /\ lease' = [lease EXCEPT ![t] = "expired"] /\ ~Driving(t)
    BY <1>4 DEF LeaseExpires, Expire, KeepHistory, taskVars, threadVars, Calm
  <2>2. Unclaimed(t)'
    BY <2>1 DEF Driving, Unclaimed
  <2>3. \A u \in Tasks : u # t => lease'[u] = lease[u]
    BY <2>1 DEF Typed, ServiceTypeOK, TypeOK
  <2> QED BY <2>1, <2>2, <2>3
<1> QED BY <1>1, <1>2, <1>3, <1>4

LEMMA TroubleCalm ==
  ASSUME Calm, CalmInv, LinkFails \/ LinkReturns \/ Crash PROVE CalmGoal
<1>1. UNCHANGED <<run, jobs, status, lease>>
  BY DEF LinkFails, LinkReturns, Crash, storeVars, taskVars
<1>2. \A r \in Runs : driver'[r] = "claimed" => driver[r] = "claimed"
  BY DEF LinkFails, LinkReturns, Crash, threadVars
<1>3. UNCHANGED rc \/ (rc.pc # "consume" /\ rc' = Idle)
  BY DEF LinkFails, LinkReturns, Crash, threadVars, Calm
<1>4. RcCares
  <2>1. ASSUME rc' = Idle PROVE RcJobs' = {}
    BY <2>1 DEF RcJobs, Idle
  <2> QED BY <1>1, <1>3, <2>1, RcWaits DEF RcCares
<1> QED BY <1>1, <1>2, <1>3, <1>4, QuietCalm DEF CalmGoal

-----------------------------------------------------------------------------
(* Where the reconciler goes, and what it still has to look at then.        *)
LEMMA RcGoes ==
  ASSUME Typed
  PROVE  /\ rc' = Idle => RcJobs' = {}
         /\ \A pc \in {"advance", "dispatch"} : rc' = [Idle EXCEPT !.pc = pc] => RcJobs' = {}
         /\ NextJob => RcJobs' \subseteq RcJobs /\ Job1 \notin RcJobs'
         /\ rc.pc \notin {"idle", "list", "advance", "dispatch"} =>
              \A pc \in {"boundary", "finish", "contract", "consume"} :
                RcTo(pc) => RcJobs' = RcJobs /\ rc'.pc = pc /\ rc'.job = rc.job
<1>1. ASSUME rc' = Idle PROVE RcJobs' = {}
  BY <1>1 DEF RcJobs, Idle
<1>2. ASSUME NextJob PROVE RcJobs' \subseteq RcJobs /\ Job1 \notin RcJobs'
  <2>1. rc'.pc = "list" /\ rc'.queue = rc.queue \ {rc.job}
    BY <1>2 DEF NextJob, Idle
  <2> QED BY <2>1 DEF RcJobs, Job1
<1>3. ASSUME rc.pc \notin {"idle", "list", "advance", "dispatch"},
             NEW pc \in {"boundary", "finish", "contract", "consume"}, RcTo(pc)
      PROVE  RcJobs' = RcJobs /\ rc'.pc = pc /\ rc'.job = rc.job
  <2>1. rc'.pc = pc /\ rc'.queue = rc.queue /\ rc'.job = rc.job
    BY <1>3 DEF RcTo, Typed, ServiceTypeOK
  <2> QED BY <1>3, <2>1 DEF RcJobs
<1>4. ASSUME NEW pc \in {"advance", "dispatch"}, rc' = [Idle EXCEPT !.pc = pc]
      PROVE  RcJobs' = {}
  <2>1. rc'.pc = pc /\ rc'.queue = {}
    BY <1>4 DEF Idle
  <2> QED BY <2>1 DEF RcJobs
<1> QED BY <1>1, <1>2, <1>3, <1>4

LEMMA RcMovesOn ==
  ASSUME Typed, UNCHANGED jobs,
         \/ UNCHANGED rc \/ rc' = Idle \/ NextJob
         \/ \E pc \in {"advance", "dispatch"} : rc' = [Idle EXCEPT !.pc = pc]
         \/ /\ rc.pc \notin {"idle", "list", "advance", "dispatch"}
            /\ \E pc \in {"boundary", "finish", "contract", "consume"} : RcTo(pc)
  PROVE  RcCares
<1>1. CASE UNCHANGED rc
  BY <1>1, RcWaits
<1>2. CASE ~UNCHANGED rc
  BY <1>2, RcGoes DEF RcCares
<1> QED BY <1>1, <1>2

(* The reconciler ends the run of the job it looks at: the job is removed,  *)
(* or about to be.                                                         *)
LEMMA EndCalm ==
  ASSUME Typed, CalmInv, Job1 \in jobs,
         rc.pc \notin {"idle", "list", "advance", "dispatch", "consume"},
         UNCHANGED <<run, driver>>,
         \/ jobs' = jobs \ {Job1} /\ (NextJob \/ rc' = Idle)
         \/ UNCHANGED jobs /\ RcTo("consume"),
         \A t \in Tasks \ {Task1} : status'[t] = status[t] /\ lease'[t] = lease[t]
  PROVE  CalmGoal
<1>1. PICK j \in jobs : j = Job1
  OBVIOUS
<1>2. j.task \in Tasks /\ Task1 = j.task /\ ~Ending(j)
  BY <1>1 DEF Job1, Task1, Typed, ServiceTypeOK, TypeOK, Job, Ending
<1>3. jobs' \subseteq jobs /\ (j \notin jobs' \/ Ending(j)')
  BY <1>1, RcGoes DEF Ending, Job1
<1>4. \A t \in Tasks : CalmTask(t)'
  BY <1>2, <1>3, SettleCalm
<1>5. RcCares
  BY <1>1, RcGoes DEF RcCares
<1> QED BY <1>4, <1>5 DEF CalmGoal

LEMMA FaultCalm ==
  ASSUME Typed, CalmInv, NEW action, Fault(action), UNCHANGED driver,
         rc.pc \notin {"idle", "list", "advance", "dispatch", "consume"}
  PROVE  CalmGoal
<1>1. CASE UNCHANGED storeVars /\ (NextJob \/ rc' = Idle)
  <2>1. UNCHANGED <<run, jobs, status, lease>>
    BY <1>1 DEF storeVars, taskVars
  <2> QED BY <1>1, <2>1, QuietCalm, RcMovesOn DEF CalmGoal
<1>2. CASE Job1 \in jobs /\ HostFault(Job1, action) /\ NextJob
  <2>1. /\ jobs' = jobs \ {Job1} /\ UNCHANGED run
        /\ \A t \in Tasks \ {Task1} : status'[t] = status[t] /\ lease'[t] = lease[t]
    BY <1>2, FaultTouches DEF Job1, Task1
  <2> QED BY <1>2, <2>1, EndCalm
<1> QED BY <1>1, <1>2 DEF Fault

LEMMA TickActsCalm ==
  ASSUME Calm, Typed, RowsInv, CalmInv, TickActs PROVE CalmGoal
<1>1. UNCHANGED <<host, driver>>
  BY DEF TickActs, HoldJob, GiveUp, RenewJob, BoundJob, SettleBound, SettleFault,
         ConfirmCancel, VerifyHeld, VerifyBound, VerifyStarts, FinishJob, BreaksContract,
         DropResult, ConsumeJob, TickRecovers, TickAdvances, SettleSuspended, KeepRest, hostVars
<1>2. rc.pc \notin {"idle", "list", "advance", "dispatch"} => Task1 \in Tasks /\ Run1 \in Runs
  <2> SUFFICES ASSUME rc.pc \notin {"idle", "list", "advance", "dispatch"}
               PROVE  Task1 \in Tasks /\ Run1 \in Runs
    OBVIOUS
  <2>1. rc.job \in Job
    BY DEF Typed, ServiceTypeOK
  <2> QED BY <2>1, RcRun DEF Task1, Job
<1> DEFINE Quiet ==
      /\ UNCHANGED <<run, jobs>> /\ rc.pc # "consume"
      /\ \/ rc' = Idle \/ NextJob
         \/ \E pc \in {"advance", "dispatch"} : rc' = [Idle EXCEPT !.pc = pc]
         \/ /\ rc.pc \notin {"idle", "list", "advance", "dispatch"}
            /\ \E pc \in {"boundary", "finish", "contract", "consume"} : RcTo(pc)
      /\ \A u \in Tasks : status[u] \in Active => status'[u] \in Active
      /\ \A u \in Tasks : lease[u] = "live" => lease'[u] = "live"
<1>3. Quiet => CalmGoal
  BY <1>1, QuietCalm, RcMovesOn DEF CalmGoal
<1>4. UNCHANGED storeVars => /\ UNCHANGED <<run, jobs, status, lease>>
  BY DEF storeVars, taskVars
<1>5. ASSUME NEW r \in Runs, HoldAndRenew(r)
      PROVE  /\ UNCHANGED <<run, jobs, status>>
             /\ \A u \in Tasks : lease[u] = "live" => lease'[u] = "live"
  BY <1>5 DEF HoldAndRenew, taskVars, Typed, ServiceTypeOK, TypeOK
<1>6. CASE HoldJob \/ DropResult
  BY <1>3, <1>4, <1>6 DEF HoldJob, DropResult
<1>7. CASE RenewJob
  <2>1. UNCHANGED storeVars \/ Renew(Task1)
    BY <1>7 DEF RenewJob
  <2>2. UNCHANGED <<run, jobs, status>>
    BY <2>1 DEF storeVars, taskVars, Renew, KeepHistory
  <2>3. \A u \in Tasks : lease[u] = "live" => lease'[u] = "live"
    BY <1>4, <2>1 DEF Renew, Typed, ServiceTypeOK, TypeOK
  <2> QED BY <1>3, <1>7, <2>2, <2>3 DEF RenewJob
<1>8. CASE BoundJob
  BY <1>2, <1>3, <1>4, <1>5, <1>8 DEF BoundJob
<1>9. CASE VerifyHeld
  BY <1>2, <1>3, <1>5, <1>9 DEF VerifyHeld
<1>10. CASE SettleBound \/ SettleFault \/ VerifyBound \/ BreaksContract
  <2>1. (\E action : Fault(action)) /\ rc.pc \in {"act", "boundary", "contract"}
    BY <1>10 DEF SettleBound, SettleFault, VerifyBound, BreaksContract
  <2> QED BY <1>1, <2>1, FaultCalm
<1>11. CASE VerifyStarts
  <2>1. rc.pc = "act" /\ (RcTo("finish") \/ RcTo("contract"))
        /\ (UNCHANGED storeVars \/ MarkVerifying(Task1))
    BY <1>11 DEF VerifyStarts
  <2>2. UNCHANGED <<run, jobs, lease>>
    BY <1>4, <2>1 DEF MarkVerifying, KeepHistory, KeepHolds
  <2>3. \A u \in Tasks : status[u] \in Active => status'[u] \in Active
    BY SMTT(30), <1>4, <2>1 DEF MarkVerifying, SetStatus, Active, Typed, ServiceTypeOK, TypeOK
  <2> QED BY <1>3, <2>1, <2>2, <2>3
<1>12. CASE FinishJob
  <2>1. rc.pc = "finish"
    BY <1>12 DEF FinishJob
  <2>2. CASE UNCHANGED storeVars
    BY <1>3, <1>4, <1>12, <2>1, <2>2 DEF FinishJob
  <2>3. ASSUME NEW passed \in BOOLEAN, NEW again \in BOOLEAN,
               Finish(Task1, Job1.attempt, passed, again), RcTo("consume")
        PROVE  CalmGoal
    <3>1. host[Run1] # "absent"
      BY <2>1 DEF RowsInv, RcHost, Verdicts
    <3>2. Job1 \in jobs
      BY <2>1, <3>1, Heard
    <3>3. /\ UNCHANGED <<run, jobs>>
          /\ \A t \in Tasks \ {Task1} : status'[t] = status[t] /\ lease'[t] = lease[t]
      BY <1>2, <2>1, <2>3 DEF Finish, KeepHistory, SetStatus, Release, Typed, ServiceTypeOK,
             TypeOK
    <3> QED BY <1>1, <2>1, <2>3, <3>2, <3>3, EndCalm
  <2> QED BY <1>12, <2>2, <2>3 DEF FinishJob
<1>13. CASE ConfirmCancel
  <2>1. rc.pc = "act" /\ rc.poll \in Verdicts
    BY <1>13 DEF ConfirmCancel
  <2>2. CASE UNCHANGED storeVars /\ (RcTo("consume") \/ rc' = Idle)
    BY <1>3, <1>4, <2>1, <2>2
  <2>3. CASE FinalizeCancel(Task1) /\ RcTo("consume")
    <3>1. host[Run1] # "absent"
      BY <2>1 DEF RowsInv, RcHost, Verdicts
    <3>2. Job1 \in jobs
      BY <2>1, <3>1, Heard
    <3>3. /\ UNCHANGED <<run, jobs>>
          /\ \A t \in Tasks \ {Task1} : status'[t] = status[t] /\ lease'[t] = lease[t]
      BY <1>2, <2>1, <2>3 DEF FinalizeCancel, KeepHistory, SetStatus, Release, Typed,
             ServiceTypeOK, TypeOK
    <3> QED BY <1>1, <2>1, <2>3, <3>2, <3>3, EndCalm
  <2> QED BY <1>13, <2>2, <2>3 DEF ConfirmCancel
<1>14. CASE ConsumeJob
  <2>1. /\ rc.pc = "consume" /\ NextJob /\ UNCHANGED <<run, status, lease>>
        /\ jobs' = jobs \ {Job1}
    BY <1>4, <1>14 DEF ConsumeJob, Consume, KeepHistory, taskVars
  <2>2. \A j \in jobs' : ~Ending(j)
    BY <2>1 DEF Ending, Job1
  <2>3. ASSUME NEW t \in Tasks PROVE CalmTask(t)'
    <3>1. OpenJobs(t)' \subseteq OpenJobs(t)
      BY <2>1, <2>2, OpenShrinks
    <3> QED BY <1>1, <2>1, <3>1, CalmKept DEF CalmInv
  <2>4. RcCares
    BY <2>1, RcGoes DEF RcCares
  <2> QED BY <2>3, <2>4 DEF CalmGoal
<1>15. CASE TickRecovers
  <2>1. rc.pc = "list" /\ rc' = [Idle EXCEPT !.pc = "advance"] /\ Recover
    BY <1>15 DEF TickRecovers
  <2>2. /\ UNCHANGED <<run, jobs>>
        /\ \A u \in Tasks : u \notin Stale => status'[u] = status[u] /\ lease'[u] = lease[u]
    BY <2>1 DEF Recover, KeepHistory
  <2>3. \A u \in Stale : lease[u] # "live" /\ OpenJobs(u) = {}
    BY DEF Stale, HasJob, OpenJobs
  <2>4. \A u \in Stale : Unclaimed(u)'
    BY <1>1, <2>3 DEF Unclaimed, CalmInv, CalmTask, Stale
  <2>5. \A u \in Tasks : lease[u] = "live" => lease'[u] = "live" \/ Unclaimed(u)'
    BY <2>2, <2>4
  <2>6. \A u \in Tasks : status[u] \in Active =>
          status'[u] \in Active \/ (OpenJobs(u) = {} /\ Unclaimed(u)')
    BY <2>2, <2>3, <2>4
  <2> QED BY <1>1, <2>1, <2>2, <2>5, <2>6, QuietCalm, RcMovesOn DEF CalmGoal
<1>16. CASE SettleSuspended
  <2>1. rc.pc = "suspend" /\ rc' = Idle
    BY <1>16 DEF SettleSuspended
  <2>2. CASE UNCHANGED storeVars
    BY <1>3, <1>4, <2>1, <2>2
  <2>3. CASE Job1 \in jobs /\ HostFault(Job1, "network_suspended")
    <3>1. /\ jobs' = jobs \ {Job1} /\ UNCHANGED run
          /\ \A t \in Tasks \ {Task1} : status'[t] = status[t] /\ lease'[t] = lease[t]
      BY <2>3, FaultTouches DEF Job1, Task1
    <3> QED BY <1>1, <2>1, <2>3, <3>1, EndCalm
  <2> QED BY <1>16, <2>2, <2>3 DEF SettleSuspended
<1>17. ~GiveUp
  BY DEF GiveUp, Calm
<1>18. CASE TickAdvances
  <2>1. /\ Advance /\ rc.pc \in {"advance", "dispatch"}
        /\ rc' = Idle \/ rc' = [Idle EXCEPT !.pc = "dispatch"]
    BY <1>18 DEF TickAdvances
  <2>2. /\ UNCHANGED <<run, jobs, lease>>
        /\ \A u \in Tasks : status'[u] # status[u] => status[u] \notin Active
    BY <2>1, AdvanceActs DEF Typed, ServiceTypeOK
  <2>3. \A u \in Tasks : status[u] \in Active => status'[u] \in Active
    BY <2>2
  <2> QED BY <1>3, <2>1, <2>2, <2>3
<1> QED
  BY <1>6, <1>7, <1>8, <1>9, <1>10, <1>11, <1>12, <1>13, <1>14, <1>15, <1>16, <1>17, <1>18
     DEF TickActs

LEMMA TickLooksCalm ==
  ASSUME Typed, CalmInv, TickLooks PROVE CalmGoal
<1>1. UNCHANGED <<driver, run, jobs, status>> /\ rc.pc # "consume"
  BY DEF TickLooks, TickStart, PollHost, ReadTask, SuspendJob, KeepRest, HoldAndRenew,
         storeVars, taskVars
<1>2. \A u \in Tasks : lease[u] = "live" => lease'[u] = "live"
  <2>1. CASE UNCHANGED storeVars
    BY <2>1 DEF storeVars
  <2>2. ASSUME HoldAndRenew(Run1), rc.pc = "poll"
        PROVE  \A u \in Tasks : lease[u] = "live" => lease'[u] = "live"
    BY <2>2 DEF HoldAndRenew, Typed, ServiceTypeOK, TypeOK
  <2> QED BY <2>1, <2>2 DEF TickLooks, TickStart, PollHost, ReadTask, SuspendJob
<1>3. RcJobs' \subseteq RcJobs \cup jobs'
  <2>1. CASE TickStart
    <3>1. rc'.pc = "list" /\ rc'.queue = jobs
      BY <2>1 DEF TickStart, Idle
    <3> QED BY <1>1, <3>1 DEF RcJobs
  <2>2. CASE PollHost
    <3>1. rc'.queue = rc.queue /\ rc'.job = rc.job /\ rc.pc = "poll"
      BY <2>2 DEF PollHost, Typed, ServiceTypeOK
    <3> QED BY <3>1 DEF RcJobs
  <2>3. ASSUME NEW j \in jobs \cup rc.queue, ReadTask(j)
        PROVE  RcJobs' \subseteq RcJobs \cup jobs'
    <3>1. rc'.queue = rc.queue /\ rc'.job = j /\ j \in rc.queue
      BY <2>3 DEF ReadTask, Typed, ServiceTypeOK
    <3> QED BY <3>1 DEF RcJobs
  <2>4. ASSUME NEW j \in jobs \cup rc.queue, SuspendJob(j)
        PROVE  RcJobs' \subseteq RcJobs \cup jobs'
    <3>1. rc'.queue = {} /\ rc'.job = j /\ j \in jobs
      BY <2>4 DEF SuspendJob, Idle
    <3> QED BY <1>1, <3>1 DEF RcJobs
  <2> QED BY <2>1, <2>2, <2>3, <2>4 DEF TickLooks
<1>4. RcCares
  BY <1>1, <1>3 DEF RcCares
<1> QED BY <1>1, <1>2, <1>4, QuietCalm DEF CalmGoal

LEMMA CalmStep ==
  ASSUME Calm, Typed, RowsInv, CalmInv, [ServiceNext]_serviceVars PROVE CalmInv'
<1> SUFFICES CalmGoal
  BY RcSoundKept DEF CalmGoal, CalmInv
<1>1. ASSUME NEW r \in Runs, Host(r) \/ HostLoses(r) \/ Drive(r) PROVE CalmGoal
  BY <1>1, HostCalm, DriveCalm
<1>2. ASSUME NEW t \in Tasks,
             \/ DriveClaim(t) \/ CancelTask(t) \/ CancelJob(t) \/ Operate(t)
             \/ LeaseExpires(t)
      PROVE  CalmGoal
  BY <1>2, ClaimCalm, TaskCalm
<1>3. CASE Tick
  BY <1>3, TickActsCalm, TickLooksCalm DEF Tick, TickActs, TickLooks
<1>4. CASE LinkFails \/ LinkReturns \/ Crash
  BY <1>4, TroubleCalm
<1>5. CASE UNCHANGED serviceVars
  <2>1. UNCHANGED <<run, jobs, status, lease, driver, rc>>
    BY <1>5 DEF serviceVars, storeVars, taskVars, threadVars
  <2> QED BY <2>1, QuietCalm, RcWaits DEF CalmGoal
<1> QED BY <1>1, <1>2, <1>3, <1>4, <1>5 DEF ServiceNext

LEMMA CalmHolds ==
  ASSUME Calm PROVE ServiceSpec => [](Typed /\ RowsInv /\ CalmInv)
<1>1. ServiceInit => CalmInv
  BY DEF ServiceInit, StoreInit, CalmInv, CalmTask, RcSound, RcJobs, OpenJobs, Idle, Runs
<1>2. Typed /\ RowsInv /\ CalmInv /\ [ServiceNext]_serviceVars => CalmInv'
  BY CalmStep
<1>3. "give_up" \notin Parts
  BY DEF Calm
<1> QED BY <1>1, <1>2, <1>3, RowsHold, PTL DEF ServiceSpec

-----------------------------------------------------------------------------
(* A process that was not told to stop has a row, which is that of the      *)
(* latest run of its task; a later run of the task has not started.         *)
LEMMA CalmOneWorking == Typed /\ RowsInv /\ CalmInv => OneWorking
<1> SUFFICES ASSUME Typed, RowsInv, CalmInv, NEW t \in Tasks,
                    NEW n \in Alive(t), NEW m \in Alive(t), n < m, ~asked[<<t, n>>]
             PROVE  FALSE
  BY DEF OneWorking
<1>1. n \in 1..MaxRuns /\ m \in 1..MaxRuns /\ <<t, n>> \in Runs /\ <<t, m>> \in Runs
  BY DEF Alive, Runs
<1>2. RunOK(<<t, n>>) /\ RunOK(<<t, m>>) /\ proc[<<t, n>>] = "alive" /\ proc[<<t, m>>] = "alive"
  BY <1>1 DEF RowsInv, Alive
<1>3. host[<<t, n>>] = "open" /\ host[<<t, m>>] = "open"
  BY <1>2 DEF RunOK
<1>4. PICK j \in jobs : j.task = t /\ j.run = n
  BY <1>2, <1>3 DEF RunOK, HasRow, RunOf
<1>5. ~Ending(j)
  BY <1>3, <1>4 DEF Ending, RowsInv, RcHost, Run1, RunOf, Verdicts
<1>6. n = run[t]
  BY <1>4, <1>5 DEF CalmInv, CalmTask, OpenJobs
<1>7. ~(m > run[t])
  BY <1>2, <1>3 DEF RunOK
<1> QED BY <1>1, <1>6, <1>7

(* At most one process works on a task that was not told to stop, whichever *)
(* crashes, lost replies, outages, watchdog and network cancellations       *)
(* happen: a second run needs the row of the first to be settled.          *)
THEOREM OneProcessPerTask ==
  ASSUME Calm PROVE ServiceSpec => []OneWorking
BY CalmHolds, CalmOneWorking, PTL

(* Only the reconciler turns a stopping task into a cancelled one.          *)
LEMMA CancelsInTick ==
  ASSUME Typed, [ServiceNext]_serviceVars, NEW t \in Tasks,
         status[t] = "stopping", status'[t] = "cancelled"
  PROVE  t = Task1 /\ rc.pc = "act" /\ rc.poll \in Verdicts
<1> DEFINE Goal == t = Task1 /\ rc.pc = "act" /\ rc.poll \in Verdicts
<1>1. ASSUME UNCHANGED status PROVE Goal
  BY <1>1
<1>2. ASSUME NEW j \in jobs, NEW action \in DOMAIN FaultTarget, HostFault(j, action) PROVE Goal
  <2>1. /\ status' = [status EXCEPT ![j.task] = FaultTarget[action]]
        /\ status[j.task] \in {"running", "verifying"}
    BY <1>2 DEF HostFault, SetStatus
  <2> QED BY <2>1 DEF Typed, ServiceTypeOK, TypeOK
<1>3. ASSUME NEW action \in DOMAIN FaultTarget, Fault(action) PROVE Goal
  <2>1. UNCHANGED status \/ (Job1 \in jobs /\ HostFault(Job1, action))
    BY <1>3 DEF Fault, storeVars, taskVars
  <2> QED BY <1>1, <1>2, <2>1
<1>4. {"resume", "needs_human", "defer", "network_suspended"} \subseteq DOMAIN FaultTarget
  BY DEF FaultTarget
<1>5. ASSUME NEW r \in Runs, Host(r) \/ HostLoses(r) PROVE Goal
  BY <1>1, <1>5 DEF Host, HostAccepts, HostLoses, HostStarts, HostExits, HostSettles,
                    storeVars, taskVars
<1>6. ASSUME NEW r \in Runs, Drive(r) PROVE Goal
  <2>1. CASE DriveDeadline(r)
    <3>1. /\ r[1] \in Tasks /\ status[r[1]] = "running"
          /\ status' = [status EXCEPT ![r[1]] = "needs_human"]
      BY <2>1 DEF DriveDeadline, PreDispatchFault, SetStatus, Runs
    <3> QED BY <3>1 DEF Typed, ServiceTypeOK, TypeOK
  <2>2. CASE DriveFault(r)
    <3>1. UNCHANGED status \/ \E j \in jobs : HostFault(j, "needs_human")
      BY <2>2 DEF DriveFault, storeVars, taskVars
    <3> QED BY <1>1, <1>2, <1>4, <3>1
  <2>3. CASE \/ DrivePrepare(r) \/ DriveAbort(r) \/ DriveSend(r) \/ DriveReply(r)
             \/ DriveUnavailable(r) \/ DriveRejected(r)
    BY <1>1, <2>3 DEF DrivePrepare, DriveAbort, DriveSend, DriveReply, DriveUnavailable,
           DriveRejected, Prepare, HoldAndRenew, storeVars, taskVars
  <2> QED BY <1>6, <2>1, <2>2, <2>3 DEF Drive
<1>7. ASSUME NEW u \in Tasks,
             \/ DriveClaim(u) \/ CancelTask(u) \/ CancelJob(u) \/ Operate(u)
             \/ LeaseExpires(u)
      PROVE  Goal
  <2>1. CASE DriveClaim(u)
    BY <2>1 DEF DriveClaim, Claim, CanClaim, SetStatus, Typed, ServiceTypeOK, TypeOK
  <2>2. CASE CancelTask(u)
    <3>1. UNCHANGED status \/ status' = [status EXCEPT ![u] = "stopping"]
      BY <2>2 DEF CancelTask, RequestCancel, SetStatus, storeVars, taskVars
    <3> QED BY <3>1 DEF Typed, ServiceTypeOK, TypeOK
  <2>3. CASE CancelJob(u)
    BY <1>1, <2>3 DEF CancelJob, HoldAndRenew, storeVars, taskVars
  <2>4. CASE Operate(u)
    BY ZenonT(60), <2>4
       DEF Operate, Pause, Resume, AskHuman, CancelIdle, ReplaceSpec, OperatorResume,
           ResumeSuspended, SwitchProvider, Escalate, Suspend, Suspended, Move, SetStatus,
           ReadyOrBlocked, Typed, ServiceTypeOK, TypeOK
  <2>5. CASE LeaseExpires(u)
    BY <1>1, <2>5 DEF LeaseExpires, Expire, taskVars
  <2> QED BY <1>7, <2>1, <2>2, <2>3, <2>4, <2>5
<1>8. CASE TickActs
  <2>1. CASE HoldJob \/ RenewJob \/ BoundJob \/ VerifyHeld \/ DropResult \/ ConsumeJob
    BY <1>1, <2>1 DEF HoldJob, RenewJob, BoundJob, VerifyHeld, DropResult, ConsumeJob, Consume,
           Renew, HoldAndRenew, storeVars, taskVars
  <2>2. CASE GiveUp \/ SettleBound \/ SettleFault \/ VerifyBound \/ BreaksContract
    BY <1>3, <1>4, <2>2 DEF GiveUp, SettleBound, SettleFault, VerifyBound, BreaksContract
  <2>3. CASE SettleSuspended
    <3>1. UNCHANGED status \/ (Job1 \in jobs /\ HostFault(Job1, "network_suspended"))
      BY <2>3 DEF SettleSuspended, storeVars, taskVars
    <3> QED BY <1>1, <1>2, <1>4, <3>1
  <2>4. CASE TickRecovers
    BY <2>4 DEF TickRecovers, Recover
  <2>5. CASE VerifyStarts \/ FinishJob
    <3>1. rc.pc \notin {"idle", "list", "advance", "dispatch"} /\ rc.job \in Job
      BY <2>5 DEF VerifyStarts, FinishJob, Typed, ServiceTypeOK
    <3>2. Task1 \in Tasks
      BY <3>1 DEF Task1, Job
    <3>3. \/ UNCHANGED status
          \/ /\ status[Task1] \in {"running", "verifying"}
             /\ \E s : status' = [status EXCEPT ![Task1] = s]
      BY <2>5 DEF VerifyStarts, FinishJob, MarkVerifying, Finish, SetStatus, storeVars, taskVars
    <3> QED BY <3>2, <3>3 DEF Typed, ServiceTypeOK, TypeOK
  <2>6. CASE ConfirmCancel
    <3>1. /\ rc.pc = "act" /\ rc.poll \in Verdicts
          /\ UNCHANGED status \/ status' = [status EXCEPT ![Task1] = "cancelled"]
      BY <2>6 DEF ConfirmCancel, FinalizeCancel, SetStatus, storeVars, taskVars
    <3> QED BY <3>1 DEF Typed, ServiceTypeOK, TypeOK
  <2>7. CASE TickAdvances
    <3>1. status'[t] # status[t] => status[t] \notin Active
      BY <2>7, AdvanceActs DEF TickAdvances, Typed, ServiceTypeOK
    <3> QED BY <3>1 DEF Active
  <2> QED BY <1>8, <2>1, <2>2, <2>3, <2>4, <2>5, <2>6, <2>7 DEF TickActs
<1>9. CASE TickLooks
  BY <1>1, <1>9 DEF TickLooks, TickStart, PollHost, ReadTask, SuspendJob, HoldAndRenew,
         storeVars, taskVars
<1>10. CASE LinkFails \/ LinkReturns \/ Crash
  BY <1>1, <1>10 DEF LinkFails, LinkReturns, Crash, storeVars, taskVars
<1>11. CASE UNCHANGED serviceVars
  BY <1>1, <1>11 DEF serviceVars, storeVars, taskVars
<1> QED BY <1>5, <1>6, <1>7, <1>8, <1>9, <1>10, <1>11
       DEF ServiceNext, Tick, TickActs, TickLooks

(* When the reconciler looks at the last word of the host on a job that is  *)
(* still open, it is the latest run of the task that is over.              *)
LEMMA CancelStep ==
  ASSUME Typed, RowsInv, CalmInv, [ServiceNext]_serviceVars, NEW t \in Tasks,
         status[t] = "stopping", status'[t] = "cancelled", NEW n \in Alive(t)
  PROVE  n # run[t] /\ asked[<<t, n>>]
<1>1. t = Task1 /\ rc.pc = "act" /\ rc.poll \in Verdicts
  BY CancelsInTick
<1>2. host[Run1] \in Verdicts
  BY <1>1 DEF RowsInv, RcHost, Verdicts
<1>3. Job1 \in jobs /\ Job1.task = t
  <2>1. host[Run1] # "absent"
    BY <1>2 DEF Verdicts
  <2> QED BY <1>1, <2>1, Heard DEF Task1, Job1
<1>4. Job1 \in OpenJobs(t) /\ CalmTask(t)
  BY <1>1, <1>3 DEF OpenJobs, Ending, CalmInv
<1>5. <<t, n>> \in Runs /\ host[<<t, n>>] = "open"
  BY DEF Alive, Runs, RowsInv, RunOK
<1>6. Run1 = <<t, run[t]>>
  BY <1>3, <1>4 DEF CalmTask, Run1, RunOf, Job1
<1>7. n # run[t]
  BY <1>2, <1>5, <1>6 DEF Verdicts
<1>8. ~HasRow(<<t, n>>)
  <2>1. ASSUME NEW j \in jobs, RunOf(j) = <<t, n>> PROVE FALSE
    <3>1. j.task = t /\ j.run = n
      BY <2>1 DEF RunOf
    <3>2. j \in OpenJobs(t)
      BY <1>1, <3>1 DEF OpenJobs, Ending
    <3> QED BY <1>4, <1>7, <3>1, <3>2 DEF CalmTask
  <2> QED BY <2>1 DEF HasRow
<1> QED BY <1>5, <1>7, <1>8 DEF RowsInv, RunOK

(* A cancelled task does no work: the run it had is over, and what still    *)
(* lives of older runs was told to stop before.                            *)
THEOREM CancellationConfirmed ==
  ASSUME Calm PROVE ServiceSpec => CancelConfirmed
<1>1. /\ Typed /\ RowsInv /\ CalmInv /\ [ServiceNext]_serviceVars
      => [\A t \in Tasks : status[t] = "stopping" /\ status'[t] = "cancelled"
            => \A n \in Alive(t) : n # run[t] /\ asked[<<t, n>>]]_serviceVars
  BY CancelStep
<1> QED BY <1>1, CalmHolds, PTL DEF ServiceSpec, CancelConfirmed

-----------------------------------------------------------------------------
(* Every step of the service is a step of the store, or leaves it alone: a  *)
(* driver that prepares holds the latest run of an active task.             *)
LEMMA StoreStep ==
  ASSUME Typed, CalmInv, [ServiceNext]_serviceVars PROVE [StoreNext]_storeVars
<1>1. StoreAct
  BY TypedStep
<1>2. ASSUME NEW t \in Tasks, NEW a \in 1..Len(attemptSpec[t]), NEW n \in 1..run[t],
             driver[<<t, n>>] = "claimed", Prepare(t, a, n)
      PROVE  StoreNext
  <2>1. n \in 1..MaxRuns
    BY StoreAssumption DEF Typed, ServiceTypeOK, TypeOK
  <2>2. n = run[t] /\ status[t] \in Active
    BY <1>2, <2>1 DEF CalmInv, CalmTask
  <2>3. PrepareByHolder(t)
    BY <1>2, <2>2 DEF PrepareByHolder
  <2> QED BY <2>3 DEF StoreNext
<1> QED BY <1>1, <1>2 DEF StoreAct, PrepareByDriver

(* The threads of the control plane and the host together implement the     *)
(* store's specification, so that what is proved of the tables holds of     *)
(* every interleaving of the threads.                                      *)
THEOREM ServiceImplementsStore ==
  ASSUME Calm PROVE ServiceSpec => UsesStore
<1>1. ServiceInit => StoreInit
  BY DEF ServiceInit
<1>2. Typed /\ CalmInv /\ [ServiceNext]_serviceVars => [StoreNext]_storeVars
  BY StoreStep
<1> QED BY <1>1, <1>2, CalmHolds, PTL DEF ServiceSpec, StoreSpec, UsesStore

(* Resource locks exclude, each worker serves one active task, an attempt   *)
(* is resumed once and the tasks in flight are bounded, whatever the        *)
(* drivers, the reconciler, cancellations, crashes and the host do.         *)
THEOREM ServiceKeepsStore ==
  ASSUME Calm
  PROVE  ServiceSpec => /\ []ResourceExclusion /\ []WorkerServesOne
                        /\ []ResumedOnce /\ []InFlightBound
BY ServiceImplementsStore, ResourcesExclusive, WorkersServeOne, CheckpointsResumedOnce,
   ParallelismBounded, PTL DEF UsesStore
=============================================================================
