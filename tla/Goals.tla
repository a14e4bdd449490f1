------------------------------- MODULE Goals -------------------------------
(***************************************************************************)
(* One goal: its plan, the tasks of its work items, and advance(), the     *)
(* transaction of every tick that unblocks, blocks, replans and            *)
(* invalidates the items and derives the status of the goal.               *)
(*                                                                         *)
(* What is abstracted.                                                     *)
(*  - The store, host and service of a run: TaskStore and TaskService.  A  *)
(*    run here is claimed and ends, and whatever an operator or a fault    *)
(*    does to the row of a task is one action.                             *)
(*  - The rowid of an evidence manifest: a new one is greater than those   *)
(*    the rows name.  The manifest of a row is there and uncorrupted, and  *)
(*    so are the specifications.                                           *)
(*  - Handoffs, reasons and events, but for the idempotency key that may   *)
(*    be written once in the life of a task (exhausted).                   *)
(***************************************************************************)
EXTENDS GoalPlan

CONSTANTS
  Names, Files, \* what a request may call a role, a kind or an artifact
  Requests,     \* what the API may be asked to create
  Worked,       \* bound of the model: the requests whose goal is worked on
  MaxAttempts,  \* attempt budget of a specification
  MaxTrouble,   \* bound of the model: failures and faults of runs
  MaxActs,      \* bound of the model: acts of operators
  Parts         \* what is switched on: see below

(* "escalate_candidate": escalate takes a candidate, whoever depends on it. *)
(* "no_attempts": an operator resumes, continues, switches or escalates a  *)
(*     task that has no attempt left: it is ready, and no claim takes it.  *)
(* "again_exhausted": a task exhausts its replan a second time.            *)
PartNames == {"escalate_candidate", "no_attempts", "again_exhausted"}

ASSUME GoalAssumption ==
  /\ Worked \subseteq Requests
  /\ MaxAttempts \in Nat \ {0} /\ MaxTrouble \in Nat /\ MaxActs \in Nat
  /\ Parts \subseteq PartNames

(* What the schema of a request and the execution policy let through.       *)
ASSUME RequestAssumption ==
  /\ RoleKinds \cup Kinds \subseteq Names
  /\ \A q \in Requests :
       /\ q.sizing \in SizingInputs
       /\ q.items \in Seq([role : Names, kind : Names, deps : SUBSET Int,
                           artifacts : SUBSET Files])
       /\ q.artifacts \in SUBSET Files
       /\ q.milestones \in 2..MaxItems
       /\ {q.structured, q.file, q.gates} \subseteq BOOLEAN

VARIABLES
  asked,    \* the request that create_with_plan gets
  plan,     \* plan_json: <<>> if the request was refused
  goal,     \* goals.status, or "none", or "refused"
  item,     \* the rows of tasks, by ordinal
  wedged,   \* whose Host Job no reconciliation settles: see Wedge
  trouble,  \* failures and faults so far
  acts      \* acts of operators so far

goalVars == <<asked, plan, goal, item, wedged, trouble, acts>>

Running   == {"running", "stopping"}       \* verifying is a part of running
Suspended == {"network_suspended", "provider_suspended"}
Done      == {"completed", "candidate_ready"}
Dead      == {"terminal_failed", "cancelled"}
Status    == Running \cup Suspended \cup Done \cup Dead \cup {"ready", "paused", "needs_human"}

Ordinals == 1..MaxItems
At(i, S) == i \in DOMAIN item /\ item[i].status \in S

(* A new row, and the fields that come with a new specification.           *)
NewRow(s) ==
  [status |-> s, spec |-> 1, replanned |-> FALSE, exhausted |-> FALSE,
   evidence |-> 0, override |-> FALSE, blocker |-> FALSE,
   attempts |-> 0, checkpoint |-> 0, attempt |-> 0]

Set(i, row) == item' = [item EXCEPT ![i] = row]

Newest == LET S == {item[i].evidence : i \in DOMAIN item} IN LastOf(S)

-----------------------------------------------------------------------------
(* create_with_plan.  Its idempotency key makes a repeated call a reply.   *)

Create ==
  /\ goal = "none"
  /\ IF Planned(asked)
     THEN /\ plan' = Items(asked)
          /\ goal' = "running"
          /\ item' = [i \in DOMAIN Items(asked) |->
                        NewRow(IF Items(asked)[i].deps = {} THEN "ready" ELSE "paused")]
     ELSE /\ goal' = "refused"
          /\ UNCHANGED <<plan, item>>
  /\ UNCHANGED <<asked, wedged, trouble, acts>>

-----------------------------------------------------------------------------
(* The runs of the items.                                                  *)

RunStep == UNCHANGED <<asked, plan, goal, acts>>
Smooth  == UNCHANGED <<wedged, trouble>>
Fault   == trouble < MaxTrouble /\ trouble' = trouble + 1
Trouble == Fault /\ UNCHANGED wedged

(* A tick reconciles the Host Jobs first.  A job that ended interrupted    *)
(* while its task was stopping is refused by finalize_host_fault and not   *)
(* taken for a confirmed cancellation: reconciliation raises, in this tick *)
(* and in every later one, and nothing after it is done.  The task may be  *)
(* an item, which stays stopping, or, as 0, one outside the goal.          *)
Ticks == wedged = {}

Wedge(i) ==
  /\ i = 0 \/ At(i, {"stopping"})
  /\ i \notin wedged
  /\ Fault
  /\ wedged' = wedged \cup {i}
  /\ RunStep /\ UNCHANGED item

(* claim looks at the row of the task, not at what the task waits for.     *)
Claim(i) ==
  /\ At(i, {"ready"})
  /\ item[i].checkpoint # 0 \/ item[i].attempts < MaxAttempts
  /\ Set(i, [item[i] EXCEPT
       !.status = "running", !.checkpoint = 0,
       !.attempt  = IF item[i].checkpoint = 0 THEN item[i].spec ELSE item[i].checkpoint,
       !.attempts = IF item[i].checkpoint = 0 THEN @ + 1 ELSE @])
  /\ RunStep /\ Smooth

PassTarget(i) == IF plan[i].kind = "implementation" THEN "candidate_ready" ELSE "completed"

Pass(i) ==
  /\ At(i, {"running"})
  /\ item[i].attempt = item[i].spec
  /\ Set(i, [item[i] EXCEPT !.status = PassTarget(i), !.evidence = Newest + 1, !.attempt = 0,
                            !.blocker = FALSE])
  /\ RunStep /\ Smooth

(* A failure may be the same as the one before, which is not retried.      *)
Fail(i) ==
  /\ At(i, {"running"})
  /\ item[i].attempt = item[i].spec
  /\ Trouble
  /\ \E s \in {"terminal_failed"} \cup (IF item[i].attempts < MaxAttempts THEN {"ready"} ELSE {}) :
       Set(i, [item[i] EXCEPT !.status = s, !.evidence = 0, !.attempt = 0,
                                 !.blocker = FALSE])
  /\ RunStep

(* finish() refuses the manifest of an attempt that was made for an older  *)
(* specification, and the service stops the task with its checkpoint.      *)
EvidenceRefused(i) ==
  /\ At(i, {"running"})
  /\ item[i].attempt # item[i].spec
  /\ Set(i, [item[i] EXCEPT !.status = "needs_human", !.blocker = FALSE,
                            !.checkpoint = item[i].attempt, !.attempt = 0])
  /\ RunStep /\ Smooth

(* finalize_host_fault: deferred, for a human, or suspended.               *)
HostFault(i) ==
  /\ At(i, {"running"})
  /\ Trouble
  /\ \E s \in {"ready", "needs_human"} \cup Suspended, b \in BOOLEAN :
       /\ b => s = "needs_human"
       /\ Set(i, [item[i] EXCEPT !.status = s, !.blocker = b,
                                 !.checkpoint = item[i].attempt, !.attempt = 0])
  /\ RunStep

(* Before a process there is nothing to resume.                            *)
PreDispatchFault(i) ==
  /\ At(i, {"running"})
  /\ Trouble
  /\ Set(i, [item[i] EXCEPT !.status = "needs_human", !.attempt = 0,
                            !.blocker = FALSE])
  /\ RunStep

(* Recovery of a run whose driver died.                                    *)
RecoverInPlace(i) ==            \* a mutant of Recover: current_attempt_id stays
  /\ Ticks
  /\ At(i, Running)
  /\ Trouble
  /\ Set(i, [item[i] EXCEPT !.status = "ready"])
  /\ RunStep

Recover(i) ==
  /\ Ticks
  /\ At(i, Running)
  /\ Trouble
  /\ Set(i, [item[i] EXCEPT
       !.status = IF item[i].attempts < MaxAttempts THEN "ready" ELSE "needs_human",
       !.attempt = 0, !.blocker = FALSE])
  /\ RunStep

ResumeSuspended(i) ==
  /\ Ticks
  /\ At(i, Suspended)
  /\ Set(i, [item[i] EXCEPT !.status = "ready"])
  /\ RunStep /\ Smooth

ConfirmCancel(i) ==
  /\ At(i, {"stopping"})
  /\ i \notin wedged
  /\ Set(i, [item[i] EXCEPT !.status = "cancelled", !.attempt = 0])
  /\ RunStep /\ Smooth

-----------------------------------------------------------------------------
(* Operators.                                                              *)

Act == /\ acts < MaxActs /\ acts' = acts + 1
       /\ UNCHANGED <<asked, plan, goal, wedged, trouble>>

Move(i, from, to, override) ==
  /\ At(i, from)
  /\ Set(i, [item[i] EXCEPT !.status = to, !.override = override])
  /\ Act

DependenciesSatisfied(i) == \A d \in plan[i].deps : item[d].status = "completed"

HasAttempts(i) == item[i].checkpoint # 0 \/ item[i].attempts < MaxAttempts

Pause(i) == Move(i, {"ready", "needs_human"}, "paused", TRUE)

Resume(i) ==
  /\ i \in DOMAIN item
  /\ HasAttempts(i) \/ "no_attempts" \in Parts
  /\ Move(i, {"paused", "needs_human"},
          IF DependenciesSatisfied(i) THEN "ready" ELSE "paused", FALSE)

AskHuman(i)   == Move(i, {"ready", "paused"}, "needs_human", FALSE)

CancelIdle(i) ==
  /\ i \in DOMAIN item
  /\ Move(i, {"ready", "paused", "needs_human"} \cup Suspended, "cancelled",
          item[i].override)

RequestCancel(i) ==
  /\ At(i, {"running"})
  /\ Set(i, [item[i] EXCEPT !.status = "stopping"])
  /\ Act

(* amend_spec, control(retry) and control(restart).                        *)
ActiveDependent(i) == \E d \in DOMAIN item : i \in plan[d].deps /\ At(d, Running)

MayReplace(i) == At(i, Status \ Running) /\ ~ActiveDependent(i)

ReplaceSpec(i) ==
  /\ MayReplace(i)
  /\ item[i].exhausted => "again_exhausted" \in Parts
  /\ Set(i, [item[i] EXCEPT
       !.status = IF DependenciesSatisfied(i) THEN "ready" ELSE "paused",
       !.spec = @ + 1, !.replanned = FALSE, !.evidence = 0,
       !.override = FALSE, !.blocker = FALSE, !.attempts = 0, !.checkpoint = 0])
  /\ Act

(* operator_resume and switch_provider make a task ready whatever it waits *)
(* for.  The first sets manual_override, and advance pauses the task again. *)
Continue(i) ==
  /\ At(i, {"needs_human", "paused"} \cup Suspended)
  /\ \/ Set(i, [item[i] EXCEPT !.status = "ready", !.override = TRUE, !.blocker = FALSE])
     \/ At(i, {"needs_human"} \cup Suspended) /\ Set(i, [item[i] EXCEPT !.status = "ready"])
  /\ HasAttempts(i) \/ "no_attempts" \in Parts
  /\ Act

(* escalate asks nothing of a terminally failed or a verified candidate    *)
(* (nor of a running task: see TaskStore).                                 *)
Escalate(i) ==
  /\ At(i, Status \ (Running \cup {"completed", "cancelled"}))
  /\ item[i].status = "candidate_ready" => "escalate_candidate" \in Parts
  /\ HasAttempts(i) \/ "no_attempts" \in Parts
  /\ Set(i, [item[i] EXCEPT !.status = "paused"])
  /\ Act

-----------------------------------------------------------------------------
(* advance().  It reads the rows once; what it finds of a child is a fact  *)
(* of that reading, whatever it writes meanwhile.                          *)

StateDone(rows, i) == \A d \in plan[i].deps : rows[d].status \in Done

Ageless(rows, i) ==             \* a mutant of Stands: any evidence will do
  /\ rows[i].status \in Done /\ rows[i].evidence # 0
  /\ plan[i].kind = "verification" => StateDone(rows, i)

(* Done, with evidence, and with evidence that is no older than that of    *)
(* anything it depends on.                                                 *)
Stands(rows, i) ==
  /\ rows[i].status \in Done /\ rows[i].evidence # 0
  /\ \A d \in plan[i].deps : rows[d].evidence <= rows[i].evidence
  /\ plan[i].kind = "verification" => StateDone(rows, i)

(* valid_completion: what stands, and, unless it is a verification, has    *)
(* only dependencies that are valid.  As dependencies come before the item *)
(* the largest such set is what the loop over the children computes.       *)
Proven(rows) ==
  UNION {S \in SUBSET DOMAIN rows :
           \A i \in S : /\ Stands(rows, i)
                        /\ plan[i].kind # "verification" => plan[i].deps \subseteq S}

(* dependencies_complete                                                   *)
Unblocked(rows, i) ==
  IF plan[i].kind = "verification" THEN StateDone(rows, i)
                                   ELSE \A d \in plan[i].deps : d \in Proven(rows)

Stuck(row) == row.status = "needs_human" /\ ~row.blocker

ReplanForEver(rows, i) ==       \* a mutant of Replan: no prior_replan
  [rows[i] EXCEPT
     !.status = IF Unblocked(rows, i) THEN "ready" ELSE "paused",
     !.spec = @ + 1, !.attempts = 0, !.evidence = 0, !.override = FALSE]

(* One new specification per specification an operator wrote.  A pending   *)
(* checkpoint stays.                                                       *)
Replan(rows, i) ==
  IF rows[i].replanned
  THEN [rows[i] EXCEPT !.status = "terminal_failed", !.exhausted = TRUE]
  ELSE [rows[i] EXCEPT
          !.status = IF Unblocked(rows, i) THEN "ready" ELSE "paused",
          !.spec = @ + 1, !.replanned = TRUE, !.attempts = 0, !.evidence = 0,
          !.override = FALSE]

Invalidate(rows, i) ==
  [rows[i] EXCEPT !.status = "paused", !.attempts = 0, !.evidence = 0]

GateBlocks(rows, i) ==          \* a mutant of Gate: a paused item is never ready again
  IF Unblocked(rows, i) THEN rows[i] ELSE [rows[i] EXCEPT !.status = "paused"]

Gate(rows, i) ==
  [rows[i] EXCEPT !.status = IF Unblocked(rows, i) /\ ~rows[i].override
                             THEN "ready" ELSE "paused"]

Advanced(rows) ==
  [i \in DOMAIN rows |->
     IF Stuck(rows[i]) THEN Replan(rows, i)
     ELSE IF rows[i].status \in Done /\ rows[i].evidence # 0 /\ i \notin Proven(rows)
     THEN Invalidate(rows, i)
     ELSE IF rows[i].status \in {"ready", "paused"} THEN Gate(rows, i)
     ELSE rows[i]]

(* _cancel_pending_children *)
Cascade(rows, s) ==
  IF s \in Dead
  THEN [i \in DOMAIN rows |->
          IF rows[i].status \in {"ready", "paused"}
          THEN [rows[i] EXCEPT !.status = "cancelled"] ELSE rows[i]]
  ELSE rows

(* What valid verifications vouch for: an implementation they depend on    *)
(* counts as complete although its own evidence does not stand.            *)
Vouched(rows) ==
  UNION {Ancestors(plan)[v] : v \in Proven(rows) \cap Of(plan, "verification")}

(* reduce_goal_status.  A replanned task counts with its new status.       *)
Reduced(rows) ==
  LET status(i) == IF Stuck(rows[i]) THEN Replan(rows, i).status ELSE rows[i].status
      statuses  == {status(i) : i \in DOMAIN rows}
  IN  IF \E i \in DOMAIN rows : rows[i].status = "needs_human" /\ rows[i].blocker
      THEN "needs_human"
      ELSE IF "terminal_failed" \in statuses THEN "terminal_failed"
      ELSE IF "cancelled" \in statuses THEN "cancelled"
      ELSE IF \A i \in DOMAIN rows :
                \/ i \in Proven(rows)
                \/ plan[i].kind = "implementation" /\ i \in Vouched(rows)
      THEN "completed" ELSE "running"

(* The second event goal-replan-exhausted of a task violates UNIQUE: the   *)
(* transaction, and with it the tick, fails.                               *)
Raises(rows) ==
  \E i \in DOMAIN rows : Stuck(rows[i]) /\ rows[i].replanned /\ rows[i].exhausted

Advance ==
  LET rows == Cascade(item, goal)
      next == IF goal \in Dead THEN goal ELSE Reduced(rows)
  IN  /\ Ticks
      /\ goal \notin {"none", "refused"}
      /\ ~Raises(rows)
      /\ item' = Cascade(Advanced(rows), next)
      /\ goal' = next
      /\ UNCHANGED <<asked, plan, wedged, trouble, acts>>

-----------------------------------------------------------------------------
GoalInit ==
  /\ asked \in Requests /\ plan = <<>> /\ goal = "none" /\ item = <<>>
  /\ wedged = {} /\ trouble = 0 /\ acts = 0

RunEnds(i) == Pass(i) \/ Fail(i) \/ EvidenceRefused(i)

Works(i) ==
  \/ Claim(i) \/ RunEnds(i) \/ HostFault(i) \/ PreDispatchFault(i) \/ Recover(i)
  \/ ResumeSuspended(i) \/ ConfirmCancel(i)

Operates(i) ==
  \/ Pause(i) \/ Resume(i) \/ AskHuman(i) \/ CancelIdle(i) \/ RequestCancel(i)
  \/ ReplaceSpec(i) \/ Continue(i) \/ Escalate(i)

GoalNext ==
  \/ Create
  \/ /\ asked \in Worked
     /\ \/ Advance
        \/ \E i \in Ordinals : Works(i) \/ Operates(i)
        \/ \E i \in Ordinals \cup {0} : Wedge(i)

GoalSpec == GoalInit /\ [][GoalNext]_goalVars

(* As long as none raises, ticks reconcile what has ended, advance, end    *)
(* suspensions and claim; a run ends, and a cancelled process goes.        *)
Goes(i) == Claim(i) \/ RunEnds(i) \/ ResumeSuspended(i) \/ ConfirmCancel(i)

GoalFairness ==
  /\ WF_goalVars(asked \in Worked /\ Advance)
  /\ \A i \in Ordinals :
       WF_goalVars(asked \in Worked /\ Ticks /\ Goes(i))

GoalFairSpec == GoalSpec /\ GoalFairness

-----------------------------------------------------------------------------
(* Properties of plans.                                                    *)

(* Whatever order and dependencies a request gives its items, two items     *)
(* that write to the shared worktree are never free to run at once: the     *)
(* later one waits for the earlier, directly or through others.             *)
PlanSerial ==
  \A i, j \in DOMAIN plan :
    i < j /\ plan[i].role \in SerialRoles /\ plan[j].role \in SerialRoles
      => i \in Ancestors(plan)[j]

(* A plan that builds something ends in a verification that follows, and    *)
(* waits for, everything that is built.                                     *)
PlanVerified ==
  LET builds == Of(plan, "implementation")
  IN  builds # {} => \E v \in Of(plan, "verification") :
                       /\ builds \subseteq plan[v].deps
                       /\ \A i \in DOMAIN plan : i <= v

(* A request without structured items whose gates are answered is never     *)
(* refused: the default lanes leave room for the verification.              *)
DefaultsPlanned ==
  goal = "refused" /\ ~asked.structured
    => ~asked.gates \/ (asked.file /\ asked.artifacts = {})

(* No work item gets more time or more attempts than the size of the whole  *)
(* goal deserves, as long as the request counts at least one layer,         *)
(* component and file.                                                      *)
ChildNoLarger ==
  asked.sizing.layers > 0 /\ asked.sizing.components > 0 /\ asked.sizing.files > 0
    => \A i \in DOMAIN plan :
         LET child == Budget(ChildSizing(asked.sizing, plan[i], Len(plan)))
         IN  /\ child.hard <= Budget(asked.sizing).hard
             /\ child.attempts <= Budget(asked.sizing).attempts

PlansSound == PlanSerial /\ PlanVerified /\ DefaultsPlanned /\ ChildNoLarger

-----------------------------------------------------------------------------
(* Properties of goals.                                                    *)

GoalTypeOK ==
  /\ goal \in {"none", "refused", "running", "needs_human", "completed"} \cup Dead
  /\ DOMAIN item = DOMAIN plan
  /\ \A i \in DOMAIN item :
       /\ item[i] \in [status : Status, spec : Nat \ {0}, replanned : BOOLEAN,
                        exhausted : BOOLEAN, evidence : Nat,
                        override : BOOLEAN, blocker : BOOLEAN, attempts : Nat,
                        checkpoint : Nat, attempt : Nat]
       /\ (item[i].attempt # 0) = (item[i].status \in Running)
       /\ item[i].attempt <= item[i].spec /\ item[i].checkpoint <= item[i].spec
  /\ wedged \subseteq Ordinals \cup {0} /\ trouble \in 0..MaxTrouble /\ acts \in 0..MaxActs

(* When a goal becomes completed, advance has read of everything the goal   *)
(* builds that it is done, with evidence, and of a verification that it has *)
(* passed, with evidence no older than any of that: whatever was amended,   *)
(* run again or made ready out of its order, no old verdict completes it.   *)
VerdictNotOlder ==
  [][goal # "completed" /\ goal' = "completed" =>
       LET builds == Of(plan, "implementation")
       IN  builds # {} => \E v \in Of(plan, "verification") :
             /\ item[v].status = "completed"
             /\ \A i \in builds : /\ item[i].status \in Done
                                 /\ 0 < item[i].evidence
                                 /\ item[i].evidence <= item[v].evidence]_goalVars

(* On its own the control plane replaces a specification once: it replans   *)
(* at most once per specification an operator wrote.                        *)
ReplanBudget == \A i \in DOMAIN item : item[i].spec <= 2 + 2 * acts

(* A running goal is decided, or waits for an operator who paused it, or    *)
(* for ticks that raise because a cancelled run, of the goal or not, ended  *)
(* interrupted: no failure, fault, suspension, replan, invalidation or      *)
(* claim out of order leaves it running with nothing left to run.           *)
GoalSettles ==
  (goal = "running" /\ asked \in Worked)
    ~> (goal # "running" \/ ~Ticks \/ \E i \in DOMAIN item : item[i].override)
=============================================================================
