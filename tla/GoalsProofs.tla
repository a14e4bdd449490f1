----------------------------- MODULE GoalsProofs -----------------------------
(***************************************************************************)
(* Theorems about Goals, for any requests that the API and the execution   *)
(* policy let through, and any number of failures and acts of people.      *)
(*                                                                         *)
(* The plan of a goal is what plan_goal makes of its request (PlanInv), so *)
(* what GoalPlanProofs says of plans holds of it for ever.  An item has an *)
(* attempt just while it runs (RowOK), whatever advance makes of the rows   *)
(* that do not run.  And a specification is replaced once by the control    *)
(* plane for every one an operator wrote, because replanned is set by the   *)
(* replan and cleared by an operator only (Budgeted).  And a verdict rests *)
(* on PlanVerified: what completes a goal waited for all that is built.    *)
(***************************************************************************)
EXTENDS Goals, GoalPlanProofs

USE GoalAssumption

-----------------------------------------------------------------------------
(* Plans.                                                                  *)

PlanInv ==
  /\ asked \in Requests
  /\ \/ goal \in {"none", "refused"} /\ plan = <<>> /\ item = <<>>
     \/ goal \notin {"none", "refused"} /\ Planned(asked) /\ plan = Items(asked)
  /\ goal = "refused" => ~Planned(asked)

LEMMA PlanInvHolds == GoalSpec => []PlanInv
<1>1. GoalInit => PlanInv
  BY DEF GoalInit, PlanInv
<1>2. PlanInv /\ [GoalNext]_goalVars => PlanInv'
  <2> SUFFICES ASSUME PlanInv, [GoalNext]_goalVars PROVE PlanInv'
    OBVIOUS
  <2>1. CASE Create
    BY <2>1 DEF Create, PlanInv
  <2>2. CASE Advance
    <3>1. /\ goal \notin {"none", "refused"} /\ goal' \notin {"none", "refused"}
          /\ UNCHANGED <<asked, plan>>
      BY <2>2 DEF Advance, Reduced, Dead
    <3> QED BY <3>1 DEF PlanInv
  <2>3. ASSUME NEW i \in Ordinals, Works(i) \/ Operates(i) PROVE PlanInv'
    <3>1. UNCHANGED <<asked, plan, goal>> /\ i \in DOMAIN item
      BY <2>3 DEF Works, Operates, RunEnds, Claim, Pass, Fail, EvidenceRefused, HostFault,
         PreDispatchFault, Recover, ResumeSuspended, ConfirmCancel, Pause, Resume, AskHuman,
         CancelIdle, RequestCancel, ReplaceSpec, MayReplace, Continue, Escalate, Move, At,
         RunStep, Act
    <3>2. item # <<>>
      BY <3>1
    <3> QED BY <3>1, <3>2 DEF PlanInv
  <2>4. ASSUME NEW i \in Ordinals \cup {0}, Wedge(i) PROVE PlanInv'
    BY <2>4 DEF Wedge, RunStep, PlanInv
  <2>5. CASE UNCHANGED goalVars
    BY <2>5 DEF goalVars, PlanInv
  <2> QED BY <2>1, <2>2, <2>3, <2>4, <2>5 DEF GoalNext
<1> QED BY <1>1, <1>2, PTL DEF GoalSpec

(* What is planned for a request.                                           *)
LEMMA AskedFacts ==
  ASSUME NEW q \in Requests, Planned(q)
  PROVE  /\ Len(Items(q)) \in 1..MaxItems /\ DOMAIN Items(q) = 1..Len(Items(q))
         /\ Verified(Items(q)) /\ Serially(Items(q))
         /\ \A i \in DOMAIN Items(q) : Items(q)[i].kind \in Kinds
<1>1. Known(Names)
  BY RequestAssumption DEF Known
<1>2. WellAsked(Names, Files, q)
  <2>1. q.milestones \in 1..MaxItems
    BY RequestAssumption DEF MaxItems
  <2> QED BY <2>1, RequestAssumption DEF WellAsked, WorkItem
<1>3. /\ Items(q) \in Seq(WorkItem(Names, Files)) /\ Len(Items(q)) \in 1..MaxItems
      /\ Valid(Items(q), q.artifacts) /\ Verified(Items(q)) /\ Serially(Items(q))
  BY <1>1, <1>2, PlannedItems
<1> QED BY <1>3, LenProperties DEF Valid

LEMMA PlanFacts ==
  ASSUME PlanInv
  PROVE  \/ plan = <<>>
         \/ /\ Len(plan) \in 1..MaxItems /\ DOMAIN plan = 1..Len(plan)
            /\ Verified(plan) /\ Serially(plan)
            /\ \A i \in DOMAIN plan : plan[i].kind \in Kinds
BY AskedFacts DEF PlanInv

(* Lanes that share the worktree wait for each other, what is built is      *)
(* verified last, a request that leaves the plan to the control plane gets  *)
(* one, and no work item deserves more than its goal.                      *)
THEOREM PlansAreSound == GoalSpec => []PlansSound
<1>1. PlanInv => PlansSound
  <2> SUFFICES ASSUME PlanInv PROVE PlansSound
    OBVIOUS
  <2>1. PlanSerial
    <3> SUFFICES ASSUME NEW i \in DOMAIN plan, NEW j \in DOMAIN plan, i < j,
                        plan[i].role \in SerialRoles, plan[j].role \in SerialRoles
                 PROVE  i \in Ancestors(plan)[j]
      BY DEF PlanSerial
    <3>1. plan # <<>>
      OBVIOUS
    <3>2. Len(plan) \in 1..MaxItems /\ DOMAIN plan = 1..Len(plan) /\ Serially(plan)
      BY <3>1, PlanFacts
    <3> QED BY <3>2, SerialAncestors
  <2>2. PlanVerified
    <3>1. CASE plan = <<>>
      BY <3>1 DEF PlanVerified, Of
    <3>2. CASE plan # <<>>
      BY <3>2, PlanFacts DEF PlanVerified, Verified
    <3> QED BY <3>1, <3>2
  <2>3. DefaultsPlanned
    <3> SUFFICES ASSUME goal = "refused", ~asked.structured, asked.gates,
                        ~(asked.file /\ asked.artifacts = {})
                 PROVE  FALSE
      BY DEF DefaultsPlanned
    <3>1. asked \in Requests /\ ~Planned(asked)
      BY DEF PlanInv
    <3>2. asked.milestones \in 1..MaxItems
      BY <3>1, RequestAssumption DEF MaxItems
    <3> QED BY <3>1, <3>2, DefaultsPlan
  <2>4. ChildNoLarger
    <3> SUFFICES ASSUME asked.sizing.layers > 0, asked.sizing.components > 0,
                        asked.sizing.files > 0, NEW i \in DOMAIN plan
                 PROVE  LET child == Budget(ChildSizing(asked.sizing, plan[i], Len(plan)))
                        IN  /\ child.hard <= Budget(asked.sizing).hard
                            /\ child.attempts <= Budget(asked.sizing).attempts
      BY DEF ChildNoLarger
    <3>1. asked.sizing \in SizingInputs
      BY RequestAssumption DEF PlanInv
    <3>2. Len(plan) \in 1..MaxItems
      BY PlanFacts
    <3> QED BY <3>1, <3>2, ChildIsSmaller
  <2> QED BY <2>1, <2>2, <2>3, <2>4 DEF PlansSound
<1> QED BY <1>1, PlanInvHolds, PTL

-----------------------------------------------------------------------------
(* The rows.                                                               *)

Row == [status : Status, spec : Nat \ {0}, replanned : BOOLEAN, exhausted : BOOLEAN,
        evidence : Nat, override : BOOLEAN, blocker : BOOLEAN, attempts : Nat,
        checkpoint : Nat, attempt : Nat]

RowOK(row) ==
  /\ row \in Row
  /\ (row.attempt # 0) = (row.status \in Running)
  /\ row.attempt <= row.spec /\ row.checkpoint <= row.spec

(* An operator's new specification pays for a replan of it.                 *)
RowBudgeted(row, n) == row.spec <= (IF row.replanned THEN 2 ELSE 1) + 2 * n

Budgeted == \A i \in DOMAIN item : RowBudgeted(item[i], acts)

GoalInv ==
  /\ GoalTypeOK /\ Budgeted
  /\ DOMAIN item = {} \/ \E n \in 1..MaxItems : DOMAIN item = 1..n

LEMMA InvParts ==
  GoalInv <=>
    /\ goal \in {"none", "refused", "running", "needs_human", "completed"} \cup Dead
    /\ DOMAIN item = DOMAIN plan
    /\ \A i \in DOMAIN item : RowOK(item[i]) /\ RowBudgeted(item[i], acts)
    /\ wedged \subseteq Ordinals \cup {0} /\ trouble \in 0..MaxTrouble /\ acts \in 0..MaxActs
    /\ DOMAIN item = {} \/ \E n \in 1..MaxItems : DOMAIN item = 1..n
BY DEF GoalInv, GoalTypeOK, Budgeted, RowOK, Row

(* The newest evidence is found, since there are few items.                 *)
LEMMA NewestIsNumber ==
  ASSUME GoalInv, NEW i \in DOMAIN item
  PROVE  Newest \in Nat
<1>1. PICK n \in 1..MaxItems : DOMAIN item = 1..n
  BY DEF GoalInv
<1> DEFINE e(k) == item[k].evidence
           P(m) == \E k \in 1..m : \A j \in 1..m : e(j) <= e(k)
<1>2. \A k \in 1..n : e(k) \in Nat
  BY <1>1, InvParts DEF RowOK, Row
<1> HIDE DEF e
<1>3. n \in {1, 2, 3, 4, 5, 6}
  BY DEF MaxItems
<1>4. P(1)
  BY <1>2, <1>3
<1>5. ASSUME NEW m \in 1..5, P(m), m < n PROVE P(m + 1)
  <2>1. PICK k \in 1..m : \A j \in 1..m : e(j) <= e(k)
    BY <1>5
  <2>2. /\ e(k) \in Nat /\ e(m + 1) \in Nat /\ \A j \in 1..m : e(j) \in Nat
        /\ k \in 1..(m + 1) /\ m + 1 \in 1..(m + 1)
        /\ \A j \in 1..(m + 1) : j \in 1..m \/ j = m + 1
    BY <1>2, <1>3, <1>5
  <2>3. CASE e(m + 1) <= e(k)
    BY <2>1, <2>2, <2>3
  <2>4. CASE e(k) <= e(m + 1)
    BY <2>1, <2>2, <2>4
  <2> QED BY <2>2, <2>3, <2>4
<1> HIDE DEF P
<1>6. P(n)
  <2>2. n > 1 => P(2)
    BY <1>4, <1>5
  <2>3. n > 2 => P(3)
    BY <1>3, <1>5, <2>2
  <2>4. n > 3 => P(4)
    BY <1>3, <1>5, <2>3
  <2>5. n > 4 => P(5)
    BY <1>3, <1>5, <2>4
  <2>6. n > 5 => P(6)
    BY <1>3, <1>5, <2>5
  <2> QED BY <1>3, <1>4, <2>2, <2>3, <2>4, <2>5, <2>6
<1> DEFINE S == {item[k].evidence : k \in DOMAIN item}
<1>7. \E m \in S : \A j \in S : j <= m
  BY <1>1, <1>6 DEF P, e
<1>8. S \subseteq Nat
  BY <1>1, <1>2 DEF e
<1>9. Newest = CHOOSE m \in S : \A j \in S : j <= m
  BY DEF Newest, LastOf
<1> HIDE DEF S
<1> QED BY <1>7, <1>8, <1>9

LEMMA SetKeeps ==
  ASSUME GoalInv, NEW i \in DOMAIN item, NEW row, RowOK(row), Set(i, row),
         UNCHANGED <<plan, goal>>, wedged' \subseteq Ordinals \cup {0}, trouble' \in 0..MaxTrouble,
         acts' \in 0..MaxActs, acts' >= acts, RowBudgeted(row, acts')
  PROVE  GoalInv'
<1>1. DOMAIN item' = DOMAIN item /\ \A k \in DOMAIN item : item'[k] = IF k = i THEN row ELSE item[k]
  BY DEF Set
<1>2. \A k \in DOMAIN item : RowOK(item[k]) /\ RowBudgeted(item[k], acts) /\ acts \in Nat /\ acts' \in Nat
  BY InvParts
<1>3. \A k \in DOMAIN item : RowBudgeted(item[k], acts')
  BY <1>2 DEF RowBudgeted, RowOK, Row
<1>4. \A k \in DOMAIN item' : RowOK(item'[k]) /\ RowBudgeted(item'[k], acts')
  BY <1>1, <1>2, <1>3
<1>5. /\ goal' \in {"none", "refused", "running", "needs_human", "completed"} \cup Dead
      /\ DOMAIN item' = DOMAIN plan'
      /\ DOMAIN item' = {} \/ \E n \in 1..MaxItems : DOMAIN item' = 1..n
  BY <1>1, InvParts
<1>6. GoalInv' <=>
        /\ goal' \in {"none", "refused", "running", "needs_human", "completed"} \cup Dead
        /\ DOMAIN item' = DOMAIN plan'
        /\ \A k \in DOMAIN item' : RowOK(item'[k]) /\ RowBudgeted(item'[k], acts')
        /\ wedged' \subseteq Ordinals \cup {0} /\ trouble' \in 0..MaxTrouble /\ acts' \in 0..MaxActs
        /\ DOMAIN item' = {} \/ \E n \in 1..MaxItems : DOMAIN item' = 1..n
  BY DEF GoalInv, GoalTypeOK, Budgeted, RowOK, Row
<1> QED BY <1>4, <1>5, <1>6

-----------------------------------------------------------------------------
(* Rows that change.                                                       *)

LEMMA RowFacts ==
  ASSUME GoalInv, NEW i \in DOMAIN item
  PROVE  /\ RowOK(item[i]) /\ RowBudgeted(item[i], acts)
         /\ acts \in 0..MaxActs /\ acts \in Nat /\ trouble \in 0..MaxTrouble /\ wedged \subseteq Ordinals \cup {0}
BY InvParts

(* A row with the specification it had costs nothing.                       *)
LEMMA SameSpec ==
  ASSUME NEW row, NEW new, NEW n \in Nat, NEW m \in Nat, n <= m, RowOK(row),
         RowBudgeted(row, n), new.spec = row.spec, new.replanned = row.replanned
  PROVE  RowBudgeted(new, m)
BY DEF RowBudgeted, RowOK, Row

LEMMA TroubleCounts ==
  ASSUME GoalInv, Trouble, DOMAIN item # {}
  PROVE  wedged' \subseteq Ordinals \cup {0} /\ trouble' \in 0..MaxTrouble
BY InvParts DEF Trouble, Fault

LEMMA WedgeKeeps ==
  ASSUME GoalInv, NEW i \in Ordinals \cup {0}, Wedge(i)
  PROVE  GoalInv'
<1>1. UNCHANGED <<plan, goal, acts, item>> /\ wedged' = wedged \cup {i} /\ Fault
  BY DEF Wedge, RunStep
<1>2. wedged' \subseteq Ordinals \cup {0} /\ trouble' \in 0..MaxTrouble
  BY <1>1, InvParts DEF Fault
<1> QED BY <1>1, <1>2 DEF GoalInv, GoalTypeOK, Budgeted

LEMMA WorksKeep ==
  ASSUME GoalInv, NEW i \in Ordinals, Works(i)
  PROVE  GoalInv'
<1>1. i \in DOMAIN item /\ UNCHANGED <<plan, goal, acts>>
  BY DEF Works, RunEnds, Claim, Pass, Fail, EvidenceRefused, HostFault, PreDispatchFault,
     Recover, ResumeSuspended, ConfirmCancel, At, RunStep
<1>2. /\ RowOK(item[i]) /\ RowBudgeted(item[i], acts)
      /\ acts \in 0..MaxActs /\ acts \in Nat /\ trouble \in 0..MaxTrouble /\ wedged \subseteq Ordinals \cup {0}
  BY <1>1, RowFacts
<1>3. wedged' \subseteq Ordinals \cup {0} /\ trouble' \in 0..MaxTrouble /\ acts' \in 0..MaxActs /\ acts' >= acts
  <2>1. (wedged' \subseteq Ordinals \cup {0} /\ trouble' \in 0..MaxTrouble)
    <3>1. CASE Trouble
      BY <1>1, <3>1, TroubleCounts
    <3>2. CASE trouble' = trouble /\ wedged' \subseteq Ordinals \cup {0}
      BY <1>2, <3>2
    <3> QED
      BY <1>2, <3>1, <3>2 DEF Works, RunEnds, Claim, Pass, Fail, EvidenceRefused, HostFault,
         PreDispatchFault, Recover, ResumeSuspended, ConfirmCancel, Smooth
  <2>2. acts' = acts
    BY <1>1
  <2> QED BY <1>2, <2>1, <2>2
<1>4. ASSUME NEW row, Set(i, row), RowOK(row), row.spec = item[i].spec,
             row.replanned = item[i].replanned
      PROVE  GoalInv'
  <2>1. RowBudgeted(row, acts')
    BY <1>1, <1>2, <1>4, SameSpec
  <2> QED BY <1>1, <1>3, <1>4, <2>1, SetKeeps
<1> DEFINE old == item[i]
<1>5. old \in Row /\ (old.attempt # 0) = (old.status \in Running)
      /\ old.attempt <= old.spec /\ old.checkpoint <= old.spec
  BY <1>2 DEF RowOK
<1> DEFINE Fine(row) == RowOK(row) /\ row.spec = old.spec /\ row.replanned = old.replanned
           (* what an attempt that is over leaves *)
           Over(s, e, c, b) ==
             [old EXCEPT !.status = s, !.evidence = e, !.attempt = 0,
                         !.checkpoint = c, !.blocker = b]
<1>6. ASSUME NEW s \in Status \ Running, NEW e \in Nat, NEW c \in {old.attempt, old.checkpoint},
             NEW b \in BOOLEAN
      PROVE  Fine(Over(s, e, c, b))
  <2> HIDE DEF old
  <2>1. c \in Nat /\ c <= old.spec /\ old \in Row
    BY <1>5 DEF Row
  <2> DEFINE row == Over(s, e, c, b)
  <2>2. /\ row \in Row /\ row.attempt = 0 /\ row.status = s /\ row.spec = old.spec
        /\ row.checkpoint = c /\ row.replanned = old.replanned
    BY <2>1 DEF Row
  <2> HIDE DEF row
  <2>3. row.attempt <= row.spec
    BY <2>2 DEF Row
  <2>4. Fine(row)
    BY <2>1, <2>2, <2>3 DEF RowOK
  <2> QED BY <2>4 DEF row
<1>7. CASE Claim(i)
  <2> DEFINE a == IF old.checkpoint = 0 THEN old.spec ELSE old.checkpoint
             t == IF old.checkpoint = 0 THEN old.attempts + 1 ELSE old.attempts
             row == [old EXCEPT !.status = "running", !.checkpoint = 0,
                                !.attempt = a, !.attempts = t]
  <2>1. Newest \in Nat
    BY <1>1, NewestIsNumber
  <2>2. Set(i, row)
    <3>1. Set(i, [old EXCEPT !.status = "running", !.checkpoint = 0,
                    !.attempt = a, !.attempts = IF old.checkpoint = 0 THEN @ + 1 ELSE @])
      BY <1>7 DEF Claim
    <3> QED BY <3>1
  <2> HIDE DEF old
  <2>3. a \in Nat \ {0} /\ a <= old.spec /\ t \in Nat
    BY <1>5 DEF Row
  <2> HIDE DEF a, t
  <2>4. /\ row \in Row /\ row.attempt = a /\ row.status = "running" /\ row.spec = old.spec
        /\ row.checkpoint = 0 /\ row.replanned = old.replanned
    BY <1>5, <2>1, <2>3 DEF Row, Status, Running
  <2> HIDE DEF row
  <2>5. 0 <= row.spec
    BY <2>4 DEF Row
  <2>6. Fine(row)
    BY <2>3, <2>4, <2>5 DEF RowOK, Running
  <2> QED BY <1>4, <2>2, <2>6 DEF old
<1>8. CASE Pass(i)
  <2>1. Newest + 1 \in Nat
    BY <1>1, NewestIsNumber
  <2>2. PassTarget(i) \in Status \ Running
    BY DEF PassTarget, Status, Running, Done
  <2>3. Set(i, [old EXCEPT !.status = PassTarget(i), !.evidence = Newest + 1, !.attempt = 0,
                           !.blocker = FALSE])
    BY <1>8 DEF Pass
  <2> DEFINE s == PassTarget(i)
             e == Newest + 1
  <2> HIDE DEF s, e
  <2>4. [old EXCEPT !.status = s, !.evidence = e, !.attempt = 0, !.blocker = FALSE]
          = Over(s, e, old.checkpoint, FALSE)
    <3> HIDE DEF old
    <3> QED BY <1>5 DEF Row
  <2>5. s \in Status \ Running /\ e \in Nat
    <3> HIDE DEF old
    <3> QED BY <1>5, <2>1, <2>2 DEF Row, s, e
  <2> HIDE DEF Over
  <2>6. Set(i, Over(s, e, old.checkpoint, FALSE))
    BY <2>3, <2>4 DEF s, e
  <2> QED BY <1>4, <1>6, <2>5, <2>6
<1>9. /\ old.evidence \in Nat /\ old.checkpoint \in Nat /\ old.attempt \in Nat
       /\ old.blocker \in BOOLEAN
       /\ old = [f \in DOMAIN old |-> old[f]]
       /\ DOMAIN old = {"status", "spec", "replanned", "exhausted", "evidence",
                        "override", "blocker", "attempts", "checkpoint", "attempt"}
  <2> HIDE DEF old
  <2> QED BY <1>5 DEF Row
<1>11. CASE Fail(i)
  <2>1. PICK s \in {"terminal_failed", "ready"} :
          Set(i, [old EXCEPT !.status = s, !.evidence = 0, !.attempt = 0,
                             !.blocker = FALSE])
    BY <1>11 DEF Fail
  <2>2. s \in Status \ Running
    BY DEF Status, Running, Dead
  <2>3. [old EXCEPT !.status = s, !.evidence = 0, !.attempt = 0, !.blocker = FALSE]
          = Over(s, 0, old.checkpoint, FALSE)
    <3> HIDE DEF old
    <3> QED BY <1>9
  <2> HIDE DEF Over
  <2>4. Set(i, Over(s, 0, old.checkpoint, FALSE))
    BY <2>1, <2>3
  <2> HIDE DEF old
  <2> QED BY <1>4, <1>6, <1>9, <2>2, <2>4 DEF old
<1>12. CASE EvidenceRefused(i)
  <2>1. Set(i, [old EXCEPT !.status = "needs_human", !.blocker = FALSE,
                           !.checkpoint = old.attempt, !.attempt = 0])
    BY <1>12 DEF EvidenceRefused
  <2>2. "needs_human" \in Status \ Running
    BY DEF Status, Running
  <2>3. [old EXCEPT !.status = "needs_human", !.blocker = FALSE,
                    !.checkpoint = old.attempt, !.attempt = 0]
          = Over("needs_human", old.evidence, old.attempt, FALSE)
    <3> HIDE DEF old
    <3> QED BY <1>9
  <2> HIDE DEF Over
  <2>4. Set(i, Over("needs_human", old.evidence, old.attempt, FALSE))
    BY <2>1, <2>3
  <2> HIDE DEF old
  <2> QED BY <1>4, <1>6, <1>9, <2>2, <2>4 DEF old
<1>13. CASE HostFault(i)
  <2>1. PICK s \in {"ready", "needs_human"} \cup Suspended, b \in BOOLEAN :
          Set(i, [old EXCEPT !.status = s, !.blocker = b,
                             !.checkpoint = old.attempt, !.attempt = 0])
    BY <1>13 DEF HostFault
  <2>2. s \in Status \ Running
    BY DEF Status, Running, Suspended
  <2>3. [old EXCEPT !.status = s, !.blocker = b, !.checkpoint = old.attempt,
                    !.attempt = 0]
          = Over(s, old.evidence, old.attempt, b)
    <3> HIDE DEF old
    <3> QED BY <1>9
  <2> HIDE DEF Over
  <2>4. Set(i, Over(s, old.evidence, old.attempt, b))
    BY <2>1, <2>3
  <2> HIDE DEF old
  <2> QED BY <1>4, <1>6, <1>9, <2>2, <2>4 DEF old
<1>14. CASE PreDispatchFault(i)
  <2>1. Set(i, [old EXCEPT !.status = "needs_human", !.attempt = 0,
                           !.blocker = FALSE])
    BY <1>14 DEF PreDispatchFault
  <2>2. "needs_human" \in Status \ Running
    BY DEF Status, Running
  <2>3. [old EXCEPT !.status = "needs_human", !.attempt = 0, !.blocker = FALSE]
          = Over("needs_human", old.evidence, old.checkpoint, FALSE)
    <3> HIDE DEF old
    <3> QED BY <1>9
  <2> HIDE DEF Over
  <2>4. Set(i, Over("needs_human", old.evidence, old.checkpoint, FALSE))
    BY <2>1, <2>3
  <2> HIDE DEF old
  <2> QED BY <1>4, <1>6, <1>9, <2>2, <2>4 DEF old
<1>15. CASE Recover(i)
  <2> DEFINE s == IF old.attempts < MaxAttempts THEN "ready" ELSE "needs_human"
  <2>1. Set(i, [old EXCEPT !.status = s, !.attempt = 0, !.blocker = FALSE])
    BY <1>15 DEF Recover
  <2>2. s \in Status \ Running
    BY DEF Status, Running
  <2> HIDE DEF s
  <2>3. [old EXCEPT !.status = s, !.attempt = 0, !.blocker = FALSE]
          = Over(s, old.evidence, old.checkpoint, FALSE)
    <3> HIDE DEF old
    <3> QED BY <1>9
  <2> HIDE DEF Over
  <2>4. Set(i, Over(s, old.evidence, old.checkpoint, FALSE))
    BY <2>1, <2>3
  <2> HIDE DEF old
  <2> QED BY <1>4, <1>6, <1>9, <2>2, <2>4 DEF old
<1>16. CASE ResumeSuspended(i)
  <2>1. Set(i, [old EXCEPT !.status = "ready"]) /\ old.status \in Suspended
    BY <1>16 DEF ResumeSuspended, At
  <2>2. "ready" \in Status \ Running
    BY DEF Status, Running
  <2>3. old.attempt = 0
    <3> HIDE DEF old
    <3> QED BY <1>5, <2>1 DEF Suspended, Running
  <2>4. [old EXCEPT !.status = "ready"]
          = Over("ready", old.evidence, old.checkpoint, old.blocker)
    <3> HIDE DEF old
    <3> QED BY <1>9, <2>3
  <2> HIDE DEF Over
  <2>5. Set(i, Over("ready", old.evidence, old.checkpoint, old.blocker))
    BY <2>1, <2>4
  <2> HIDE DEF old
  <2> QED BY <1>4, <1>6, <1>9, <2>2, <2>5 DEF old
<1>17. CASE ConfirmCancel(i)
  <2>1. Set(i, [old EXCEPT !.status = "cancelled", !.attempt = 0])
    BY <1>17 DEF ConfirmCancel
  <2>2. "cancelled" \in Status \ Running
    BY DEF Status, Running, Dead
  <2>3. [old EXCEPT !.status = "cancelled", !.attempt = 0]
          = Over("cancelled", old.evidence, old.checkpoint, old.blocker)
    <3> HIDE DEF old
    <3> QED BY <1>9
  <2> HIDE DEF Over
  <2>4. Set(i, Over("cancelled", old.evidence, old.checkpoint, old.blocker))
    BY <2>1, <2>3
  <2> HIDE DEF old
  <2> QED BY <1>4, <1>6, <1>9, <2>2, <2>4 DEF old
<1> QED BY <1>7, <1>8, <1>11, <1>12, <1>13, <1>14, <1>15, <1>16, <1>17 DEF Works, RunEnds

-----------------------------------------------------------------------------
(* Rows that do not run.                                                   *)

(* Status, flags and numbers of an idle row may change as they like: it has *)
(* no attempt, and at most the checkpoint it had.                           *)
LEMMA IdleRow ==
  ASSUME NEW row, RowOK(row), row.status \notin Running,
         NEW new \in Row, new.status \notin Running, new.attempt = row.attempt,
         new.spec >= row.spec, new.checkpoint \in {0, row.checkpoint}
  PROVE  RowOK(new)
<1>1. /\ row.attempt = 0 /\ row.spec \in Nat \ {0} /\ row.checkpoint \in Nat
      /\ row.checkpoint <= row.spec /\ new.spec \in Nat \ {0}
  BY DEF RowOK, Row
<1>2. new.attempt <= new.spec /\ new.checkpoint <= new.spec
  BY <1>1
<1> QED BY <1>1, <1>2 DEF RowOK

(* The operators of a goal.                                                 *)
LEMMA OperatesKeep ==
  ASSUME GoalInv, NEW i \in Ordinals, Operates(i)
  PROVE  GoalInv'
<1>1. i \in DOMAIN item /\ UNCHANGED <<plan, goal, trouble>> /\ Act
  BY DEF Operates, Pause, Resume, AskHuman, CancelIdle, RequestCancel, ReplaceSpec, MayReplace,
     Continue, Escalate, Move, At, Act
<1>2. /\ RowOK(item[i]) /\ RowBudgeted(item[i], acts)
      /\ acts \in 0..MaxActs /\ acts \in Nat /\ trouble \in 0..MaxTrouble /\ wedged \subseteq Ordinals \cup {0}
  BY <1>1, RowFacts
<1>3. wedged' \subseteq Ordinals \cup {0} /\ trouble' \in 0..MaxTrouble /\ acts' = acts + 1
      /\ acts' \in 0..MaxActs /\ acts' >= acts /\ acts' \in Nat
  <2>1. acts < MaxActs /\ acts' = acts + 1
    BY <1>1 DEF Act
  <2>2. wedged' \subseteq Ordinals \cup {0}
    BY <1>1, <1>2 DEF Act
  <2> QED BY <1>1, <1>2, <2>1, <2>2
<1>4. ASSUME NEW row, Set(i, row), RowOK(row), RowBudgeted(row, acts')
      PROVE  GoalInv'
  BY <1>1, <1>3, <1>4, SetKeeps
<1>5. ASSUME NEW row, Set(i, row), RowOK(row), row.spec = item[i].spec,
             row.replanned = item[i].replanned
      PROVE  GoalInv'
  <2>1. RowBudgeted(row, acts')
    BY <1>2, <1>3, <1>5, SameSpec
  <2> QED BY <1>4, <1>5, <2>1
<1> DEFINE old == item[i]
<1>6. old \in Row /\ RowOK(old) /\ RowBudgeted(old, acts)
  BY <1>2 DEF RowOK
<1>7. /\ old = [f \in DOMAIN old |-> old[f]]
      /\ DOMAIN old = {"status", "spec", "replanned", "exhausted", "evidence",
                        "override", "blocker", "attempts", "checkpoint", "attempt"}
      /\ old.override \in BOOLEAN /\ old.blocker \in BOOLEAN
  <2> HIDE DEF old
  <2> QED BY <1>6 DEF Row
<1> DEFINE Moved(s, o, b) == [old EXCEPT !.status = s, !.override = o, !.blocker = b]
<1>8. ASSUME NEW s \in Status \ Running, NEW o \in BOOLEAN, NEW b \in BOOLEAN,
             old.status \notin Running, Set(i, Moved(s, o, b))
      PROVE  GoalInv'
  <2> DEFINE row == Moved(s, o, b)
  <2>1. Set(i, row)
    BY <1>8
  <2> HIDE DEF old
  <2>2. /\ row \in Row /\ row.status = s /\ row.attempt = old.attempt /\ row.spec = old.spec
        /\ row.checkpoint = old.checkpoint /\ row.replanned = old.replanned
    BY <1>6 DEF Row
  <2> HIDE DEF row
  <2>3. old.spec \in Nat
    BY <1>6 DEF Row
  <2>4. row.spec >= old.spec
    BY <2>2, <2>3
  <2>5. RowOK(row)
    BY <1>6, <1>8, <2>2, <2>4, IdleRow
  <2> QED BY <1>5, <2>1, <2>2, <2>5 DEF old
<1>9. ASSUME NEW from, NEW to \in Status \ Running, NEW o \in BOOLEAN, Move(i, from, to, o),
             from \cap Running = {}
      PROVE  GoalInv'
  <2>1. Set(i, [old EXCEPT !.status = to, !.override = o]) /\ old.status \notin Running
    BY <1>9 DEF Move, At
  <2>2. [old EXCEPT !.status = to, !.override = o] = Moved(to, o, old.blocker)
    <3> HIDE DEF old
    <3> QED BY <1>7
  <2> HIDE DEF Moved
  <2>3. Set(i, Moved(to, o, old.blocker))
    BY <2>1, <2>2
  <2> QED BY <1>7, <1>8, <2>1, <2>3
<1>11. CASE Pause(i) \/ AskHuman(i)
  <2>1. "paused" \in Status \ Running /\ "needs_human" \in Status \ Running
    BY DEF Status, Running
  <2> QED BY <1>9, <1>11, <2>1 DEF Pause, AskHuman, Running
<1>12. CASE Resume(i)
  <2>1. "paused" \in Status \ Running /\ "ready" \in Status \ Running
    BY DEF Status, Running
  <2> DEFINE to == IF DependenciesSatisfied(i) THEN "ready" ELSE "paused"
  <2>2. to \in Status \ Running /\ Move(i, {"paused", "needs_human"}, to, FALSE)
    BY <1>12, <2>1 DEF Resume
  <2> HIDE DEF to
  <2> QED BY <1>9, <2>2 DEF Running
<1>13. CASE CancelIdle(i)
  <2> DEFINE from == {"ready", "paused", "needs_human"} \cup Suspended
  <2>1. "cancelled" \in Status \ Running /\ from \cap Running = {}
    BY DEF Status, Running, Dead, Suspended
  <2>2. Move(i, from, "cancelled", old.override)
    BY <1>13 DEF CancelIdle
  <2> HIDE DEF from
  <2> QED BY <1>7, <1>9, <2>1, <2>2
<1>14. CASE RequestCancel(i)
  <2> DEFINE row == [old EXCEPT !.status = "stopping"]
  <2>1. Set(i, row) /\ old.status = "running"
    BY <1>14 DEF RequestCancel, At
  <2> HIDE DEF old
  <2>2. /\ row \in Row /\ row.status = "stopping" /\ row.attempt = old.attempt
        /\ row.spec = old.spec /\ row.checkpoint = old.checkpoint
        /\ row.replanned = old.replanned
    BY <1>6 DEF Row, Status, Running
  <2> HIDE DEF row
  <2>3. RowOK(row)
    BY <1>6, <2>1, <2>2 DEF RowOK, Running
  <2> QED BY <1>5, <2>1, <2>2, <2>3 DEF old
<1>15. CASE ReplaceSpec(i)
  <2> DEFINE s == IF DependenciesSatisfied(i) THEN "ready" ELSE "paused"
             row == [old EXCEPT !.status = s, !.spec = old.spec + 1, !.replanned = FALSE,
                                !.evidence = 0, !.override = FALSE,
                                !.blocker = FALSE, !.attempts = 0, !.checkpoint = 0]
  <2>1. Set(i, row) /\ old.status \notin Running
    BY <1>15 DEF ReplaceSpec, MayReplace, At
  <2>2. s \in Status \ Running
    BY DEF Status, Running
  <2> HIDE DEF old, s
  <2>3. old.spec \in Nat \ {0} /\ old.spec + 1 \in Nat \ {0}
    BY <1>6 DEF Row
  <2>4. /\ row \in Row /\ row.status = s /\ row.attempt = old.attempt
        /\ row.spec = old.spec + 1 /\ row.checkpoint = 0 /\ row.replanned = FALSE
    BY <1>6, <2>2, <2>3 DEF Row
  <2> HIDE DEF row
  <2>5. RowOK(row)
    BY <1>6, <2>1, <2>2, <2>3, <2>4, IdleRow
  <2>6. RowBudgeted(row, acts')
    <3>1. old.spec <= 2 + 2 * acts
      BY <1>2, <1>6, <2>3 DEF RowBudgeted
    <3>2. old.spec + 1 <= 1 + 2 * (acts + 1)
      BY <1>2, <2>3, <3>1
    <3> QED BY <1>3, <2>4, <3>2 DEF RowBudgeted
  <2> QED BY <1>4, <2>1, <2>5, <2>6
<1>16. CASE Continue(i)
  <2>1. "ready" \in Status \ Running
    BY DEF Status, Running
  <2>2. old.status \notin Running
    BY <1>16 DEF Continue, At, Suspended, Running
  <2>3. \/ Set(i, [old EXCEPT !.status = "ready", !.override = TRUE, !.blocker = FALSE])
        \/ Set(i, [old EXCEPT !.status = "ready"])
    BY <1>16 DEF Continue
  <2>4. [old EXCEPT !.status = "ready"] = Moved("ready", old.override, old.blocker)
    <3> HIDE DEF old
    <3> QED BY <1>7
  <2>5. Set(i, Moved("ready", TRUE, FALSE)) \/ Set(i, Moved("ready", old.override, old.blocker))
    BY <2>3, <2>4
  <2> HIDE DEF Moved
  <2> QED BY <1>7, <1>8, <2>1, <2>2, <2>5
<1>17. CASE Escalate(i)
  <2>1. "paused" \in Status \ Running
    BY DEF Status, Running
  <2>2. old.status \notin Running /\ Set(i, [old EXCEPT !.status = "paused"])
    BY <1>17 DEF Escalate, At
  <2>3. [old EXCEPT !.status = "paused"] = Moved("paused", old.override, old.blocker)
    <3> HIDE DEF old
    <3> QED BY <1>7
  <2> HIDE DEF Moved
  <2>4. Set(i, Moved("paused", old.override, old.blocker))
    BY <2>2, <2>3
  <2> QED BY <1>7, <1>8, <2>1, <2>2, <2>4
<1> QED BY <1>11, <1>12, <1>13, <1>14, <1>15, <1>16, <1>17 DEF Operates

-----------------------------------------------------------------------------
(* create_with_plan, and advance.                                          *)

LEMMA CreateKeeps ==
  ASSUME PlanInv, GoalInv, Create
  PROVE  GoalInv'
<1>1. CASE Planned(asked)
  <2> DEFINE n == Len(Items(asked))
             s(i) == IF Items(asked)[i].deps = {} THEN "ready" ELSE "paused"
  <2>1. n \in 1..MaxItems /\ DOMAIN Items(asked) = 1..n
    BY <1>1, AskedFacts DEF PlanInv
  <2>2. /\ plan' = Items(asked) /\ goal' = "running" /\ UNCHANGED <<wedged, trouble, acts>>
        /\ item' = [i \in 1..n |-> NewRow(s(i))]
    BY <1>1, <2>1 DEF Create
  <2>3. \A i \in 1..n : s(i) \in {"ready", "paused"}
    OBVIOUS
  <2> HIDE DEF s
  <2>4. ASSUME NEW st \in {"ready", "paused"}
        PROVE  RowOK(NewRow(st)) /\ RowBudgeted(NewRow(st), acts)
    <3>1. acts \in Nat
      BY InvParts
    <3>2. /\ NewRow(st) \in Row /\ NewRow(st).status = st /\ NewRow(st).attempt = 0
          /\ NewRow(st).spec = 1 /\ NewRow(st).checkpoint = 0 /\ NewRow(st).replanned = FALSE
      BY DEF NewRow, Row, Status
    <3> QED BY <3>1, <3>2 DEF RowOK, RowBudgeted, Running
  <2>5. \A i \in DOMAIN item' : RowOK(item'[i]) /\ RowBudgeted(item'[i], acts')
    BY <2>2, <2>3, <2>4
  <2>6. DOMAIN plan' = 1..n /\ DOMAIN item' = 1..n
    BY <2>1, <2>2
  <2>7. wedged' \subseteq Ordinals \cup {0} /\ trouble' \in 0..MaxTrouble /\ acts' \in 0..MaxActs
    BY <2>2, InvParts
  <2> HIDE DEF n
  <2> QED BY <2>1, <2>2, <2>5, <2>6, <2>7 DEF GoalInv, GoalTypeOK, Budgeted, RowOK, Row
<1>2. CASE ~Planned(asked)
  <2>1. goal' = "refused" /\ UNCHANGED <<plan, item, wedged, trouble, acts>>
    BY <1>2 DEF Create
  <2> QED BY <2>1 DEF GoalInv, GoalTypeOK, Budgeted
<1> QED BY <1>1, <1>2

RowsFine(rows) == \A i \in DOMAIN rows : RowOK(rows[i]) /\ RowBudgeted(rows[i], acts)

LEMMA CascadeFine ==
  ASSUME NEW rows, NEW s, RowsFine(rows), acts \in Nat, rows = [i \in DOMAIN rows |-> rows[i]]
  PROVE  /\ RowsFine(Cascade(rows, s)) /\ DOMAIN Cascade(rows, s) = DOMAIN rows
         /\ Cascade(rows, s) = [i \in DOMAIN rows |-> Cascade(rows, s)[i]]
<1>1. CASE s \notin Dead
  BY <1>1 DEF Cascade
<1>2. CASE s \in Dead
  <2> DEFINE new == Cascade(rows, s)
             out(row) == [row EXCEPT !.status = "cancelled"]
  <2>1. new = [i \in DOMAIN rows |-> IF rows[i].status \in {"ready", "paused"}
                                     THEN out(rows[i]) ELSE rows[i]]
    BY <1>2 DEF Cascade
  <2> HIDE DEF new
  <2>2. ASSUME NEW row, RowOK(row), RowBudgeted(row, acts), row.status \in {"ready", "paused"}
        PROVE  RowOK(out(row)) /\ RowBudgeted(out(row), acts)
    <3>1. row \in Row /\ row.spec \in Nat
      BY <2>2 DEF RowOK, Row
    <3>2. /\ out(row) \in Row /\ out(row).status = "cancelled" /\ out(row).spec = row.spec
          /\ out(row).attempt = row.attempt /\ out(row).checkpoint = row.checkpoint
          /\ out(row).replanned = row.replanned
      BY <3>1 DEF Row, Status, Dead
    <3> HIDE DEF out
    <3>3. RowOK(out(row))
      BY <2>2, <3>1, <3>2, IdleRow DEF Running
    <3>4. RowBudgeted(out(row), acts)
      BY <2>2, <3>2, SameSpec
    <3> QED BY <3>3, <3>4
  <2> HIDE DEF out
  <2>3. DOMAIN new = DOMAIN rows /\ new = [i \in DOMAIN rows |-> new[i]]
    BY <2>1
  <2>4. \A i \in DOMAIN rows : RowOK(new[i]) /\ RowBudgeted(new[i], acts)
    BY <2>1, <2>2 DEF RowsFine
  <2>5. RowsFine(new)
    BY <2>3, <2>4 DEF RowsFine
  <2> QED BY <2>3, <2>5 DEF new
<1> QED BY <1>1, <1>2

(* What advance makes of one row.                                           *)
LEMMA ReplanFine ==
  ASSUME NEW rows, NEW i, RowOK(rows[i]), RowBudgeted(rows[i], acts), acts \in Nat,
         Stuck(rows[i])
  PROVE  RowOK(Replan(rows, i)) /\ RowBudgeted(Replan(rows, i), acts)
<1> DEFINE old == rows[i]
           new == Replan(rows, i)
           s   == IF Unblocked(rows, i) THEN "ready" ELSE "paused"
<1>1. RowOK(old) /\ RowBudgeted(old, acts) /\ old.status \notin Running /\ old \in Row
  BY DEF Stuck, Running, RowOK
<1>2. CASE old.replanned
  <2>1. new = [old EXCEPT !.status = "terminal_failed", !.exhausted = TRUE]
    BY <1>2 DEF Replan
  <2> HIDE DEF new, old
  <2>2. /\ new \in Row /\ new.status \notin Running /\ new.attempt = old.attempt
        /\ new.spec = old.spec /\ new.checkpoint = old.checkpoint
        /\ new.replanned = old.replanned /\ old.spec \in Nat
    BY <1>1, <2>1 DEF Row, Status, Running, Dead
  <2>3. RowOK(new)
    BY <1>1, <2>2, IdleRow
  <2>4. RowBudgeted(new, acts)
    BY <1>1, <2>2, SameSpec
  <2> QED BY <2>3, <2>4 DEF new
<1>3. CASE ~old.replanned
  <2>1. new = [old EXCEPT !.status = s, !.spec = old.spec + 1, !.replanned = TRUE,
                          !.attempts = 0, !.evidence = 0, !.override = FALSE]
    BY <1>3 DEF Replan
  <2>2. s \in {"ready", "paused"}
    OBVIOUS
  <2> HIDE DEF new, old, s
  <2>3. old.spec \in Nat \ {0} /\ old.spec + 1 \in Nat \ {0} /\ old.replanned \in BOOLEAN
    BY <1>1 DEF Row
  <2>4. /\ new \in Row /\ new.status \notin Running /\ new.attempt = old.attempt
        /\ new.spec = old.spec + 1 /\ new.checkpoint = old.checkpoint /\ new.replanned = TRUE
    BY <1>1, <2>1, <2>2, <2>3 DEF Row, Status, Running
  <2>5. RowOK(new)
    BY <1>1, <2>3, <2>4, IdleRow
  <2>6. RowBudgeted(new, acts)
    <3>1. old.spec <= 1 + 2 * acts
      BY <1>1, <1>3, <2>3 DEF RowBudgeted
    <3> QED BY <2>3, <2>4, <3>1 DEF RowBudgeted
  <2> QED BY <2>5, <2>6 DEF new
<1> QED BY <1>2, <1>3

LEMMA IdleSame ==
  ASSUME NEW row, RowOK(row), NEW n \in Nat, RowBudgeted(row, n), row.status \notin Running,
         NEW new \in Row, new.status \notin Running, new.attempt = row.attempt,
         new.spec = row.spec, new.checkpoint = row.checkpoint, new.replanned = row.replanned
  PROVE  RowOK(new) /\ RowBudgeted(new, n)
<1>1. row.spec \in Nat
  BY DEF RowOK, Row
<1>2. new.spec >= row.spec
  BY <1>1
<1> QED BY <1>2, IdleRow, SameSpec

LEMMA InvalidateFine ==
  ASSUME NEW old, RowOK(old), RowBudgeted(old, acts), acts \in Nat, old.status \notin Running
  PROVE  LET new == [old EXCEPT !.status = "paused", !.attempts = 0, !.evidence = 0]
         IN  RowOK(new) /\ RowBudgeted(new, acts)
<1> DEFINE new == [old EXCEPT !.status = "paused", !.attempts = 0, !.evidence = 0]
<1>1. /\ new \in Row /\ new.status \notin Running /\ new.attempt = old.attempt
      /\ new.spec = old.spec /\ new.checkpoint = old.checkpoint
      /\ new.replanned = old.replanned
  BY DEF RowOK, Row, Status, Running
<1> HIDE DEF new
<1>2. RowOK(new) /\ RowBudgeted(new, acts)
  BY <1>1, IdleSame
<1> QED BY <1>2 DEF new

LEMMA GateFine ==
  ASSUME NEW old, RowOK(old), RowBudgeted(old, acts), acts \in Nat, old.status \notin Running,
         NEW s \in {"ready", "paused"}
  PROVE  RowOK([old EXCEPT !.status = s]) /\ RowBudgeted([old EXCEPT !.status = s], acts)
<1> DEFINE new == [old EXCEPT !.status = s]
<1>1. /\ new \in Row /\ new.status \notin Running /\ new.attempt = old.attempt
      /\ new.spec = old.spec /\ new.checkpoint = old.checkpoint
      /\ new.replanned = old.replanned
  BY DEF RowOK, Row, Status, Running
<1> HIDE DEF new
<1>2. RowOK(new) /\ RowBudgeted(new, acts)
  BY <1>1, IdleSame
<1> QED BY <1>2 DEF new

LEMMA AdvancedFine ==
  ASSUME NEW rows, RowsFine(rows), acts \in Nat
  PROVE  /\ RowsFine(Advanced(rows)) /\ DOMAIN Advanced(rows) = DOMAIN rows
         /\ Advanced(rows) = [i \in DOMAIN rows |-> Advanced(rows)[i]]
<1> DEFINE new == Advanced(rows)
<1>1. /\ DOMAIN new = DOMAIN rows /\ new = [i \in DOMAIN rows |-> new[i]]
      /\ \A i \in DOMAIN rows :
           new[i] = IF Stuck(rows[i]) THEN Replan(rows, i)
                    ELSE IF rows[i].status \in Done /\ rows[i].evidence # 0 /\ i \notin Proven(rows)
                    THEN Invalidate(rows, i)
                    ELSE IF rows[i].status \in {"ready", "paused"} THEN Gate(rows, i)
                    ELSE rows[i]
  BY DEF Advanced
<1> HIDE DEF new
<1>2. ASSUME NEW i \in DOMAIN rows PROVE RowOK(new[i]) /\ RowBudgeted(new[i], acts)
  <2>1. RowOK(rows[i]) /\ RowBudgeted(rows[i], acts)
    BY DEF RowsFine
  <2>2. CASE Stuck(rows[i])
    BY <1>1, <2>1, <2>2, ReplanFine
  <2>3. CASE ~Stuck(rows[i]) /\ rows[i].status \in Done /\ rows[i].evidence # 0
             /\ i \notin Proven(rows)
    <3>1. rows[i].status \notin Running /\ new[i] = Invalidate(rows, i)
      BY <1>1, <2>3 DEF Done, Running
    <3> QED BY <2>1, <3>1, InvalidateFine DEF Invalidate
  <2>4. CASE ~Stuck(rows[i]) /\ rows[i].status \in {"ready", "paused"}
    <3> DEFINE s == IF Unblocked(rows, i) /\ ~rows[i].override THEN "ready" ELSE "paused"
    <3>1. /\ rows[i].status \notin Running /\ s \in {"ready", "paused"}
          /\ new[i] = [rows[i] EXCEPT !.status = s]
      BY <1>1, <2>4 DEF Done, Running, Gate
    <3> HIDE DEF s
    <3> DEFINE old == rows[i]
    <3>2. RowOK(old) /\ RowBudgeted(old, acts) /\ old.status \notin Running
      BY <2>1, <3>1
    <3> HIDE DEF old
    <3>3. RowOK([old EXCEPT !.status = s]) /\ RowBudgeted([old EXCEPT !.status = s], acts)
      BY <3>1, <3>2, GateFine
    <3> QED BY <3>1, <3>3 DEF old
  <2>5. CASE new[i] = rows[i]
    BY <2>1, <2>5
  <2> QED BY <1>1, <2>2, <2>3, <2>4, <2>5
<1>3. RowsFine(new)
  BY <1>1, <1>2 DEF RowsFine
<1> QED BY <1>1, <1>3 DEF new

LEMMA AdvanceKeeps ==
  ASSUME GoalInv, item = [i \in DOMAIN item |-> item[i]], Advance
  PROVE  GoalInv'
<1> DEFINE rows == Cascade(item, goal)
           next == IF goal \in Dead THEN goal ELSE Reduced(rows)
           new  == Cascade(Advanced(rows), next)
<1>1. /\ item' = new /\ goal' = next /\ wedged' = wedged /\ UNCHANGED <<plan, trouble, acts>>
  BY DEF Advance
<1>2. RowsFine(item) /\ acts \in Nat
  BY InvParts DEF RowsFine
<1>3. RowsFine(rows) /\ DOMAIN rows = DOMAIN item
  BY <1>2, CascadeFine
<1>4. next \in {"running", "needs_human", "completed"} \cup Dead
  BY DEF Reduced, Dead
<1> HIDE DEF rows, next
<1>5. /\ RowsFine(Advanced(rows)) /\ DOMAIN Advanced(rows) = DOMAIN rows
      /\ Advanced(rows) = [i \in DOMAIN rows |-> Advanced(rows)[i]]
  BY <1>2, <1>3, AdvancedFine
<1> DEFINE mid == Advanced(rows)
<1>6. RowsFine(mid) /\ DOMAIN mid = DOMAIN item /\ mid = [i \in DOMAIN mid |-> mid[i]]
  BY <1>3, <1>5
<1> HIDE DEF mid
<1>7. RowsFine(Cascade(mid, next)) /\ DOMAIN Cascade(mid, next) = DOMAIN item
  BY <1>2, <1>6, CascadeFine
<1>8. RowsFine(new) /\ DOMAIN new = DOMAIN item
  BY <1>7 DEF mid
<1> HIDE DEF new
<1>9. \A i \in DOMAIN item' : RowOK(item'[i]) /\ RowBudgeted(item'[i], acts')
  BY <1>1, <1>8 DEF RowsFine
<1>11. /\ DOMAIN item' = DOMAIN plan' /\ wedged' \subseteq Ordinals \cup {0} /\ trouble' \in 0..MaxTrouble
       /\ acts' \in 0..MaxActs /\ DOMAIN item' = DOMAIN item
       /\ DOMAIN item = {} \/ \E n \in 1..MaxItems : DOMAIN item = 1..n
  BY <1>1, <1>8, InvParts
<1> QED BY <1>1, <1>4, <1>9, <1>11 DEF GoalInv, GoalTypeOK, Budgeted, RowOK, Row

-----------------------------------------------------------------------------
(* The rows are a function, as advance takes them to be.                    *)
RowsAreFunction == item = [i \in DOMAIN item |-> item[i]]

LEMMA GoalInvHolds == GoalSpec => [](PlanInv /\ GoalInv /\ RowsAreFunction)
<1>1. GoalInit => GoalInv /\ RowsAreFunction
  <2> SUFFICES ASSUME GoalInit PROVE GoalInv /\ RowsAreFunction
    OBVIOUS
  <2>1. DOMAIN item = {} /\ DOMAIN plan = {} /\ RowsAreFunction
    BY DEF GoalInit, RowsAreFunction
  <2>2. GoalInv
    <3>1. goal = "none" /\ wedged \subseteq Ordinals \cup {0}
      BY DEF GoalInit
    <3>2. trouble \in 0..MaxTrouble /\ acts \in 0..MaxActs
      <4>1. trouble = 0 /\ acts = 0
        BY DEF GoalInit
      <4> QED BY <4>1
    <3> QED BY <2>1, <3>1, <3>2, InvParts
  <2> QED BY <2>1, <2>2
<1>2. PlanInv /\ GoalInv /\ RowsAreFunction /\ [GoalNext]_goalVars => GoalInv' /\ RowsAreFunction'
  <2> SUFFICES ASSUME PlanInv, GoalInv, RowsAreFunction, [GoalNext]_goalVars
               PROVE  GoalInv' /\ RowsAreFunction'
    OBVIOUS
  <2>1. CASE Create
    <3>1. RowsAreFunction'
      BY <2>1 DEF Create, RowsAreFunction
    <3> QED BY <2>1, <3>1, CreateKeeps
  <2>2. CASE Advance
    <3>1. GoalInv'
      BY <2>2, AdvanceKeeps DEF RowsAreFunction
    <3>2. RowsAreFunction'
      <4> DEFINE mid == Advanced(Cascade(item, goal))
      <4>1. item' = Cascade(mid, goal')
        BY <2>2 DEF Advance
      <4>2. mid = [i \in DOMAIN mid |-> mid[i]]
        BY DEF Advanced
      <4> HIDE DEF mid
      <4> QED BY <4>1, <4>2 DEF Cascade, RowsAreFunction
    <3> QED BY <3>1, <3>2
  <2>3. ASSUME NEW i \in Ordinals, Works(i) PROVE GoalInv' /\ RowsAreFunction'
    <3>1. \E row : Set(i, row)
      BY <2>3 DEF Works, RunEnds, Claim, Pass, Fail, EvidenceRefused, HostFault,
         PreDispatchFault, Recover, ResumeSuspended, ConfirmCancel
    <3>2. RowsAreFunction'
      BY <3>1 DEF Set, RowsAreFunction
    <3> QED BY <2>3, <3>2, WorksKeep
  <2>4. ASSUME NEW i \in Ordinals, Operates(i) PROVE GoalInv' /\ RowsAreFunction'
    <3>1. \E row : Set(i, row)
      BY <2>4 DEF Operates, Pause, Resume, AskHuman, CancelIdle, RequestCancel, ReplaceSpec,
         Continue, Escalate, Move
    <3>2. RowsAreFunction'
      BY <3>1 DEF Set, RowsAreFunction
    <3> QED BY <2>4, <3>2, OperatesKeep
  <2>5. ASSUME NEW i \in Ordinals \cup {0}, Wedge(i) PROVE GoalInv' /\ RowsAreFunction'
    <3>1. UNCHANGED item
      BY <2>5 DEF Wedge
    <3> QED BY <2>5, <3>1, WedgeKeeps DEF RowsAreFunction
  <2>6. CASE UNCHANGED goalVars
    BY <2>6 DEF goalVars, GoalInv, GoalTypeOK, Budgeted, RowsAreFunction
  <2> QED BY <2>1, <2>2, <2>3, <2>4, <2>5, <2>6 DEF GoalNext
<1> QED BY <1>1, <1>2, PlanInvHolds, PTL DEF GoalSpec

(* Every item of the plan has a row, an item has an attempt just while it   *)
(* runs, and neither an attempt nor a checkpoint is of a specification that *)
(* the item does not have yet.                                              *)
THEOREM GoalTypeCorrect == GoalSpec => []GoalTypeOK
<1>1. GoalInv => GoalTypeOK
  BY DEF GoalInv
<1> QED BY <1>1, GoalInvHolds, PTL

(* However runs fail, and whatever advance makes of them, the control plane *)
(* replaces a specification once for each that an operator wrote.           *)
THEOREM ReplansBounded == GoalSpec => []ReplanBudget
<1>1. GoalInv => ReplanBudget
  <2> SUFFICES ASSUME GoalInv, NEW i \in DOMAIN item PROVE item[i].spec <= 2 + 2 * acts
    BY DEF ReplanBudget
  <2>1. RowOK(item[i]) /\ RowBudgeted(item[i], acts) /\ acts \in Nat
    BY RowFacts
  <2>2. item[i].spec \in Nat
    BY <2>1 DEF RowOK, Row
  <2> QED BY <2>1, <2>2 DEF RowBudgeted
<1> QED BY <1>1, GoalInvHolds, PTL

-----------------------------------------------------------------------------
(* Verdicts.                                                               *)

(* What is done has evidence, and only an implementation is a candidate.    *)
DoneRow(i, row) ==
  /\ row.status \in Done => row.evidence # 0
  /\ row.status = "candidate_ready" => plan[i].kind = "implementation"

DoneInv == \A i \in DOMAIN item : DoneRow(i, item[i])

LEMMA SetDone ==
  ASSUME DoneInv, NEW i \in DOMAIN item, NEW row, Set(i, row), UNCHANGED plan,
         DoneRow(i, row)
  PROVE  DoneInv'
<1>1. DOMAIN item' = DOMAIN item /\ \A k \in DOMAIN item : item'[k] = IF k = i THEN row ELSE item[k]
  BY DEF Set
<1> QED BY <1>1 DEF DoneInv, DoneRow

LEMMA IdleDone ==
  ASSUME DoneInv, NEW i \in DOMAIN item, NEW row, Set(i, row), UNCHANGED plan,
         row.status \notin Done
  PROVE  DoneInv'
<1>1. DoneRow(i, row)
  BY DEF DoneRow, Done
<1> QED BY <1>1, SetDone

LEMMA PassDone ==
  ASSUME GoalInv, DoneInv, NEW i \in Ordinals, Pass(i)
  PROVE  DoneInv'
<1> DEFINE row == [item[i] EXCEPT !.status = PassTarget(i), !.evidence = Newest + 1,
                                  !.attempt = 0, !.blocker = FALSE]
<1>1. i \in DOMAIN item /\ Set(i, row) /\ UNCHANGED plan
  BY DEF Pass, At, RunStep
<1>2. item[i] \in Row /\ Newest \in Nat
  BY <1>1, RowFacts, NewestIsNumber DEF RowOK
<1>3. row.status = PassTarget(i) /\ row.evidence = Newest + 1
  BY <1>2 DEF Row
<1> HIDE DEF row
<1>4. row.evidence # 0
  BY <1>2, <1>3
<1>5. DoneRow(i, row)
  BY <1>3, <1>4 DEF DoneRow, PassTarget
<1> QED BY <1>1, <1>5, SetDone

(* Whatever else an item or an operator does, nothing gets done by it.      *)
LEMMA OthersDone ==
  ASSUME GoalInv, DoneInv, NEW i \in Ordinals, Works(i) \/ Operates(i), ~Pass(i)
  PROVE  DoneInv'
<1> DEFINE old == item[i]
           D == {"status", "spec", "replanned", "exhausted", "evidence", "override",
                 "blocker", "attempts", "checkpoint", "attempt"}
<1>1. i \in DOMAIN item /\ UNCHANGED plan
  BY DEF Works, Operates, RunEnds, Claim, Pass, Fail, EvidenceRefused, HostFault,
     PreDispatchFault, Recover, ResumeSuspended, ConfirmCancel, Pause, Resume, AskHuman,
     CancelIdle, RequestCancel, ReplaceSpec, MayReplace, Continue, Escalate, Move, At,
     RunStep, Act
<1>2. old \in Row
  BY <1>1, RowFacts DEF RowOK
<1>3. DOMAIN old = D
  <2> HIDE DEF old
  <2> QED BY <1>2 DEF Row
<1>4. ASSUME NEW row, Set(i, row), row.status \notin Done PROVE DoneInv'
  BY <1>1, <1>4, IdleDone
<1>5. CASE Works(i)
  <2>1. CASE Claim(i)
    BY <1>3, <1>4, <2>1 DEF Claim, Done
  <2>2. CASE Fail(i)
    BY <1>3, <1>4, <2>2 DEF Fail, Done
  <2>3. CASE EvidenceRefused(i)
    BY <1>3, <1>4, <2>3 DEF EvidenceRefused, Done
  <2>4. CASE HostFault(i)
    BY <1>3, <1>4, <2>4 DEF HostFault, Suspended, Done
  <2>5. CASE PreDispatchFault(i)
    BY <1>3, <1>4, <2>5 DEF PreDispatchFault, Done
  <2>6. CASE Recover(i)
    BY <1>3, <1>4, <2>6 DEF Recover, Done
  <2>7. CASE ResumeSuspended(i)
    BY <1>3, <1>4, <2>7 DEF ResumeSuspended, Done
  <2>8. CASE ConfirmCancel(i)
    BY <1>3, <1>4, <2>8 DEF ConfirmCancel, Done
  <2> QED BY <1>5, <2>1, <2>2, <2>3, <2>4, <2>5, <2>6, <2>7, <2>8 DEF Works, RunEnds
<1>6. CASE Operates(i)
  <2>1. ASSUME NEW from, NEW to, NEW override, Move(i, from, to, override), to \notin Done
        PROVE  DoneInv'
    <3> DEFINE row == [old EXCEPT !.status = to, !.override = override]
    <3>1. Set(i, row)
      BY <2>1 DEF Move
    <3> HIDE DEF old
    <3>2. row.status = to
      BY <1>3
    <3> HIDE DEF row
    <3> QED BY <1>4, <2>1, <3>1, <3>2
  <2>2. CASE Pause(i) \/ Resume(i) \/ AskHuman(i) \/ CancelIdle(i)
    <3>1. CASE Pause(i)
      <4>1. Move(i, {"ready", "needs_human"}, "paused", TRUE) /\ "paused" \notin Done
        BY <3>1 DEF Pause, Done
      <4> QED BY <2>1, <4>1
    <3>2. CASE Resume(i)
      <4> DEFINE to == IF DependenciesSatisfied(i) THEN "ready" ELSE "paused"
      <4>1. Move(i, {"paused", "needs_human"}, to, FALSE) /\ to \notin Done
        BY <3>2 DEF Resume, Done
      <4> QED BY <2>1, <4>1
    <3>3. CASE AskHuman(i)
      <4>1. Move(i, {"ready", "paused"}, "needs_human", FALSE) /\ "needs_human" \notin Done
        BY <3>3 DEF AskHuman, Done
      <4> QED BY <2>1, <4>1
    <3>4. CASE CancelIdle(i)
      BY <2>1, <3>4 DEF CancelIdle, Done
    <3> QED BY <2>2, <3>1, <3>2, <3>3, <3>4
  <2>3. CASE RequestCancel(i)
    BY <1>3, <1>4, <2>3 DEF RequestCancel, Done
  <2>4. CASE ReplaceSpec(i)
    BY <1>3, <1>4, <2>4 DEF ReplaceSpec, Done
  <2>5. CASE Continue(i)
    BY <1>3, <1>4, <2>5 DEF Continue, Done
  <2>6. CASE Escalate(i)
    BY <1>3, <1>4, <2>6 DEF Escalate, Done
  <2> QED BY <1>6, <2>2, <2>3, <2>4, <2>5, <2>6 DEF Operates
<1> QED BY <1>5, <1>6

(* The rows that advance leaves done are rows that it leaves as they are.   *)
LEMMA AdvanceDone ==
  ASSUME GoalInv, DoneInv, Advance
  PROVE  DoneInv'
<1> DEFINE rows == Cascade(item, goal)
           mid  == Advanced(rows)
           Calm(new, from) == /\ DOMAIN new = DOMAIN from
                              /\ \A i \in DOMAIN new : new[i].status \in Done => new[i] = from[i]
<1>1. ASSUME NEW from, NEW s, \A i \in DOMAIN from : from[i] \in Row
      PROVE  Calm(Cascade(from, s), from)
  <2>1. CASE s \notin Dead
    BY <2>1 DEF Cascade
  <2>2. CASE s \in Dead
    <3>1. Cascade(from, s) = [i \in DOMAIN from |->
            IF from[i].status \in {"ready", "paused"}
            THEN [from[i] EXCEPT !.status = "cancelled"] ELSE from[i]]
      BY <2>2 DEF Cascade
    <3>2. ASSUME NEW i \in DOMAIN from, from[i].status \in {"ready", "paused"}
          PROVE  Cascade(from, s)[i].status = "cancelled"
      BY <1>1, <3>1, <3>2 DEF Row
    <3> QED BY <3>1, <3>2 DEF Done
  <2> QED BY <2>1, <2>2
<1>4. \A i \in DOMAIN item : item[i] \in Row
  BY InvParts DEF RowOK
<1>5. Calm(rows, item)
  BY <1>1, <1>4
<1>6. \A i \in DOMAIN rows : rows[i] \in Row
  <2>1. CASE goal \notin Dead
    BY <1>4, <2>1 DEF Cascade
  <2>2. CASE goal \in Dead
    <3>1. rows = [i \in DOMAIN item |-> IF item[i].status \in {"ready", "paused"}
                      THEN [item[i] EXCEPT !.status = "cancelled"] ELSE item[i]]
      BY <2>2 DEF Cascade
    <3>2. "cancelled" \in Status
      BY DEF Status, Dead
    <3>3. ASSUME NEW row \in Row PROVE [row EXCEPT !.status = "cancelled"] \in Row
      BY <3>2 DEF Row
    <3> HIDE DEF rows
    <3> QED BY <1>4, <3>1, <3>3
  <2> QED BY <2>1, <2>2
<1> HIDE DEF rows
<1>7. Calm(mid, rows) /\ \A i \in DOMAIN mid : mid[i] \in Row
  <2>1. /\ DOMAIN mid = DOMAIN rows
        /\ \A i \in DOMAIN rows :
             mid[i] = IF Stuck(rows[i]) THEN Replan(rows, i)
                      ELSE IF rows[i].status \in Done /\ rows[i].evidence # 0 /\ i \notin Proven(rows)
                      THEN Invalidate(rows, i)
                      ELSE IF rows[i].status \in {"ready", "paused"} THEN Gate(rows, i)
                      ELSE rows[i]
    BY DEF Advanced
  <2> HIDE DEF mid
  <2>2. ASSUME NEW i \in DOMAIN rows
        PROVE  (mid[i].status \in Done => mid[i] = rows[i]) /\ mid[i] \in Row
    <3>1. rows[i] \in Row
      BY <1>6
    <3> DEFINE row == rows[i]
               new == mid[i]
               s   == IF Unblocked(rows, i) THEN "ready" ELSE "paused"
               g   == IF Unblocked(rows, i) /\ ~row.override THEN "ready" ELSE "paused"
    <3>2. CASE new = Replan(rows, i)
      <4>1. new = IF row.replanned
                  THEN [row EXCEPT !.status = "terminal_failed", !.exhausted = TRUE]
                  ELSE [row EXCEPT !.status = s, !.spec = row.spec + 1, !.replanned = TRUE,
                                   !.attempts = 0, !.evidence = 0, !.override = FALSE]
        BY <3>2 DEF Replan
      <4>2. s \in {"ready", "paused"}
        OBVIOUS
      <4> HIDE DEF new, row, s
      <4>3. row.spec + 1 \in Nat \ {0} /\ {"ready", "paused", "terminal_failed"} \subseteq Status
        BY <3>1 DEF Row, Status, Dead, row
      <4>4. new \in Row /\ new.status \in {"ready", "paused", "terminal_failed"}
        <5>1. row \in Row
          BY <3>1 DEF row
        <5>2. CASE row.replanned
          BY <4>1, <4>3, <5>1, <5>2 DEF Row
        <5>3. CASE ~row.replanned
          BY <4>1, <4>2, <4>3, <5>1, <5>3 DEF Row
        <5> QED BY <5>2, <5>3
      <4> QED BY <4>4 DEF new, Done
    <3>3. CASE new = Invalidate(rows, i) \/ new = Gate(rows, i)
      <4>1. \/ new = [row EXCEPT !.status = "paused", !.attempts = 0, !.evidence = 0]
            \/ new = [row EXCEPT !.status = g]
        BY <3>3 DEF Invalidate, Gate
      <4>2. g \in {"ready", "paused"} /\ {"ready", "paused"} \subseteq Status
        BY DEF Status
      <4> HIDE DEF new, row, g
      <4>3. new \in Row /\ new.status \in {"ready", "paused"}
        <5>1. row \in Row
          BY <3>1 DEF row
        <5>2. CASE new = [row EXCEPT !.status = "paused", !.attempts = 0, !.evidence = 0]
          BY <4>2, <5>1, <5>2 DEF Row
        <5>3. CASE new = [row EXCEPT !.status = g]
          BY <4>2, <5>1, <5>3 DEF Row
        <5> QED BY <4>1, <5>2, <5>3
      <4> QED BY <4>3 DEF new, Done
    <3>4. CASE mid[i] = rows[i]
      BY <3>1, <3>4
    <3> QED BY <2>1, <3>2, <3>3, <3>4
  <2> QED BY <2>1, <2>2
<1>8. item' = Cascade(mid, goal') /\ UNCHANGED plan
  BY DEF Advance, rows
<1> HIDE DEF mid
<1>9. Calm(item', mid)
  BY <1>1, <1>7, <1>8
<1>10. ASSUME NEW i \in DOMAIN item'
       PROVE  /\ item'[i].status \in Done => item'[i].evidence # 0
              /\ item'[i].status = "candidate_ready" => plan'[i].kind = "implementation"
  <2>1. i \in DOMAIN item /\ (item'[i].status \in Done => item'[i] = item[i])
    BY <1>5, <1>7, <1>9
  <2> QED BY <1>8, <2>1 DEF DoneInv, DoneRow, Done
<1> QED BY <1>10 DEF DoneInv, DoneRow

GoalsInv == PlanInv /\ GoalInv /\ RowsAreFunction /\ DoneInv

LEMMA DoneInvHolds == GoalSpec => []GoalsInv
<1>1. GoalInit => DoneInv
  BY DEF GoalInit, DoneInv
<1>2. PlanInv /\ GoalInv /\ DoneInv /\ [GoalNext]_goalVars => DoneInv'
  <2> SUFFICES ASSUME PlanInv, GoalInv, DoneInv, [GoalNext]_goalVars PROVE DoneInv'
    OBVIOUS
  <2>1. CASE Create
    <3>1. CASE Planned(asked)
      <4>1. item' = [i \in DOMAIN Items(asked) |->
                       NewRow(IF Items(asked)[i].deps = {} THEN "ready" ELSE "paused")]
        BY <2>1, <3>1 DEF Create
      <4>2. \A s : NewRow(s).status = s
        BY DEF NewRow
      <4>3. \A i \in DOMAIN item' : item'[i].status \in {"ready", "paused"}
        BY <4>1, <4>2
      <4> QED BY <4>3 DEF DoneInv, DoneRow, Done
    <3>2. CASE ~Planned(asked)
      BY <2>1, <3>2 DEF Create, DoneInv, DoneRow
    <3> QED BY <3>1, <3>2
  <2>2. CASE Advance
    BY <2>2, AdvanceDone
  <2>3. ASSUME NEW i \in Ordinals, Works(i) \/ Operates(i) PROVE DoneInv'
    BY <2>3, PassDone, OthersDone
  <2>4. ASSUME NEW i \in Ordinals \cup {0}, Wedge(i) PROVE DoneInv'
    BY <2>4 DEF Wedge, RunStep, DoneInv, DoneRow
  <2>5. CASE UNCHANGED goalVars
    BY <2>5 DEF goalVars, DoneInv, DoneRow
  <2> QED BY <2>1, <2>2, <2>3, <2>4, <2>5 DEF GoalNext
<1> QED BY <1>1, <1>2, GoalInvHolds, PTL DEF GoalSpec, GoalsInv

LEMMA ProvenStands ==
  ASSUME NEW rows, NEW i \in Proven(rows)
  PROVE  Stands(rows, i)
BY DEF Proven

(* What completes a goal that builds something is a verification that       *)
(* waited for everything that is built (PlanVerified), and that stands:     *)
(* what it waited for is done, and its evidence is no newer.                *)
THEOREM VerdictsAreNotOlder == GoalSpec => VerdictNotOlder
<1> DEFINE Builds == Of(plan, "implementation")
           Judges(v) == /\ item[v].status = "completed"
                        /\ \A i \in Builds : /\ item[i].status \in Done
                                             /\ 0 < item[i].evidence
                                             /\ item[i].evidence <= item[v].evidence
<1>1. GoalsInv /\ PlanVerified /\ [GoalNext]_goalVars
        => [goal # "completed" /\ goal' = "completed" =>
              LET builds == Of(plan, "implementation")
              IN  builds # {} => \E v \in Of(plan, "verification") :
                    /\ item[v].status = "completed"
                    /\ \A i \in builds : /\ item[i].status \in Done
                                        /\ 0 < item[i].evidence
                                        /\ item[i].evidence <= item[v].evidence]_goalVars
  <2> SUFFICES ASSUME GoalsInv, PlanVerified, GoalNext, goal # "completed",
                      goal' = "completed", Builds # {}
               PROVE  \E v \in Of(plan, "verification") : Judges(v)
    OBVIOUS
  <2>1. Advance
    <3>1. ~Create
      BY DEF Create
    <3>2. \A i \in Ordinals : ~(Works(i) \/ Operates(i))
      BY DEF Works, Operates, RunEnds, Claim, Pass, Fail, EvidenceRefused, HostFault,
         PreDispatchFault, Recover, ResumeSuspended, ConfirmCancel, Pause, Resume, AskHuman,
         CancelIdle, RequestCancel, ReplaceSpec, MayReplace, Continue, Escalate, Move, At,
         RunStep, Act
    <3>3. \A i \in Ordinals \cup {0} : ~Wedge(i)
      BY DEF Wedge, RunStep
    <3> QED BY <3>1, <3>2, <3>3 DEF GoalNext
  <2>2. goal \notin Dead /\ Reduced(item) = "completed"
    <3>1. goal' = IF goal \in Dead THEN goal ELSE Reduced(Cascade(item, goal))
      BY <2>1 DEF Advance
    <3> QED BY <3>1 DEF Dead, Cascade
  <2>3. \A i \in DOMAIN item :
          i \in Proven(item) \/ plan[i].kind = "implementation"
    BY <2>2 DEF Reduced
  <2>4. PICK v \in Of(plan, "verification") : Builds \subseteq plan[v].deps
    BY DEF PlanVerified
  <2>5. v \in DOMAIN item /\ plan[v].kind = "verification" /\ Builds \subseteq DOMAIN item
    BY <2>4 DEF Of, GoalsInv, GoalInv, GoalTypeOK
  <2>6. Stands(item, v)
    BY <2>3, <2>5, ProvenStands
  <2>7. item[v].status = "completed"
    BY <2>5, <2>6 DEF Stands, Done, GoalsInv, DoneInv, DoneRow
  <2>8. ASSUME NEW i \in Builds
        PROVE  /\ item[i].status \in Done /\ 0 < item[i].evidence
               /\ item[i].evidence <= item[v].evidence
    <3>1. item[i].status \in Done /\ item[i].evidence <= item[v].evidence
      BY <2>4, <2>5, <2>6 DEF Stands, StateDone
    <3>2. item[i].evidence # 0 /\ item[i].evidence \in Nat
      BY <2>5, <3>1 DEF GoalsInv, DoneInv, DoneRow, GoalInv, GoalTypeOK
    <3> QED BY <3>1, <3>2
  <2> QED BY <2>7, <2>8
<1>2. GoalSpec => []PlanVerified
  <2>1. PlansSound => PlanVerified
    BY DEF PlansSound
  <2> QED BY <2>1, PlansAreSound, PTL
<1> QED BY <1>1, <1>2, DoneInvHolds, PTL DEF GoalSpec, VerdictNotOlder
=============================================================================
