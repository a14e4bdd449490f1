------------------------------ MODULE GoalPlan ------------------------------
(***************************************************************************)
(* How a request becomes the work items of a goal: the size class and its  *)
(* budget, the route, the default or the structured items, the lanes that  *)
(* share a worktree, the independent verification, and the validation.     *)
(* Everything here is a pure function of the request.                      *)
(*                                                                         *)
(* A plan is a sequence of items; the ordinal of an item is its position   *)
(* (validate_goal_plan refuses any other numbering).  Titles, objectives,  *)
(* acceptance texts and providers of items are left out.                   *)
(***************************************************************************)
EXTENDS Integers, Sequences, FiniteSets

SerialRoles == {"backend", "frontend", "devops_sre"}
RoleKinds   == SerialRoles \cup {"fullstack", "ui", "verification", "web3"}
Kinds       == {"implementation", "verification"}
MaxItems    == 6

AtLeast1(n) == IF n < 1 THEN 1 ELSE n
AtMost2(n)  == IF n > 2 THEN 2 ELSE n
LastOf(S)   == CHOOSE i \in S : \A j \in S : j <= i

-----------------------------------------------------------------------------
(* Sizing: a score of the inputs, a class of the score, a budget per class. *)

RiskPoints == [low |-> 0, medium |-> 15, high |-> 30]

SizingInputs ==
  [layers : Nat, components : Nat, files : Nat, migration : BOOLEAN, deploy : BOOLEAN,
   commands : Nat, seconds : Nat, dependencies : Nat, risk : DOMAIN RiskPoints]

Score(in) ==
  8 * in.layers + 5 * in.components + 3 * in.files
    + (IF in.migration THEN 12 ELSE 0) + (IF in.deploy THEN 10 ELSE 0)
    + 4 * in.commands + in.seconds \div 30 + 6 * in.dependencies
    + RiskPoints[in.risk]

SizeClass(score) ==
  CASE score < 25             -> "XS"
    [] score \in 25..59        -> "S"
    [] score \in 60..119       -> "M"
    [] score \in 120..199      -> "L"
    [] score >= 200            -> "XL"

Tier == [XS |-> [hard |-> 300,  attempts |-> 2],
         S  |-> [hard |-> 600,  attempts |-> 2],
         M  |-> [hard |-> 1200, attempts |-> 3],
         L  |-> [hard |-> 2400, attempts |-> 3],
         XL |-> [hard |-> 4800, attempts |-> 4]]

Budget(in) == Tier[SizeClass(Score(in))]

Route(in) == IF SizeClass(Score(in)) \in {"L", "XL"}
             THEN "capability-milestones" ELSE "ephemeral-fullstack"

(* What a work item inherits of the sizing of its goal.                    *)
ChildSizing(in, item, total) ==
  IF item.kind = "verification"
  THEN [in EXCEPT !.layers     = AtLeast1(AtMost2(@)),
                  !.components = AtLeast1(AtMost2(@)),
                  !.files      = AtLeast1(AtMost2(@)),
                  !.migration = FALSE, !.deploy = FALSE,
                  !.risk = IF @ = "low" THEN "low" ELSE "medium"]
  ELSE [in EXCEPT !.layers     = AtLeast1((@ + total - 1) \div total),
                  !.components = AtLeast1((@ + total - 1) \div total),
                  !.files      = AtLeast1((@ + total - 1) \div total)]

-----------------------------------------------------------------------------
(* The items.                                                              *)

Item(role, kind, deps, artifacts) ==
  [role |-> role, kind |-> kind, deps |-> deps, artifacts |-> artifacts]

Of(items, kind) == {i \in DOMAIN items : items[i].kind = kind}

(* The last item before i that writes to the shared worktree: none or one. *)
SerialBefore(items, i) ==
  {j \in 1..(i - 1) : /\ items[j].role \in SerialRoles
                      /\ \A k \in (j + 1)..(i - 1) : items[k].role \notin SerialRoles}

NeighboursOnly(items) ==        \* a mutant of EnforceSerial: only the item before
  [i \in DOMAIN items |->
     IF i > 1 /\ items[i].role \in SerialRoles /\ items[i - 1].role \in SerialRoles
     THEN [items[i] EXCEPT !.deps = @ \cup {i - 1}]
     ELSE items[i]]

EnforceSerial(items) ==
  [i \in DOMAIN items |->
     IF items[i].role \in SerialRoles
     THEN [items[i] EXCEPT !.deps = @ \cup SerialBefore(items, i)]
     ELSE items[i]]

(* The lanes of a plan that nobody structured.                             *)
Lanes(in) == <<"backend">>
               \o (IF in.layers >= 2 THEN <<"frontend">> ELSE <<>>)
               \o (IF in.components >= 3 THEN <<"ui">> ELSE <<>>)
               \o (IF in.deploy \/ in.migration THEN <<"devops_sre">> ELSE <<>>)

DefaultItems(in, milestones) ==
  LET lanes == IF Route(in) = "ephemeral-fullstack" THEN <<"fullstack">> ELSE Lanes(in)
      count == IF Len(lanes) < milestones THEN Len(lanes) ELSE milestones
  IN  EnforceSerial([i \in 1..count |-> Item(lanes[i], "implementation", {}, {})])

-----------------------------------------------------------------------------
(* The independent verification: appended when nobody asked for one, else  *)
(* the last one asked for must follow, and depend on, every implementation. *)

Unverifiable(items) ==
  LET builds == Of(items, "implementation")
      checks == Of(items, "verification")
  IN  /\ builds # {}
      /\ IF checks = {} THEN Len(items) >= MaxItems
                        ELSE LastOf(checks) <= LastOf(builds)

WithVerification(items) ==
  LET builds == Of(items, "implementation")
      checks == Of(items, "verification")
  IN  IF builds = {} THEN items
      ELSE IF checks = {}
           THEN Append(items, Item("verification", "verification", builds, {}))
           ELSE [items EXCEPT ![LastOf(checks)].deps = @ \cup builds]

(* The artifacts of a goal without structured items: its last implementation. *)
WithArtifacts(items, declared) ==
  LET builds == Of(items, "implementation")
  IN  IF declared = {} THEN items
      ELSE [items EXCEPT ![LastOf(builds)].artifacts = declared]

Valid(items, declared) ==
  /\ Len(items) \in 1..MaxItems
  /\ \A i \in DOMAIN items :
       /\ items[i].role \in RoleKinds
       /\ items[i].kind \in Kinds
       /\ (items[i].role = "verification") = (items[i].kind = "verification")
       /\ items[i].kind = "verification" => items[i].artifacts = {}
       /\ items[i].artifacts \subseteq declared
       /\ items[i].deps \subseteq 1..(i - 1)
  /\ \A f \in declared : Cardinality({i \in DOMAIN items : f \in items[i].artifacts}) = 1

-----------------------------------------------------------------------------
(* A request: the sizing inputs and whether its gates are answered, the    *)
(* structured items if it has any, max_milestones of the project's policy, *)
(* the declared artifacts, and whether its text asks for a file.           *)

Items(q) ==
  LET lanes == IF q.structured THEN EnforceSerial(q.items)
               ELSE DefaultItems(q.sizing, q.milestones)
      whole == WithVerification(lanes)
  IN  IF q.structured THEN whole ELSE WithArtifacts(whole, q.artifacts)

Planned(q) ==
  /\ ~(q.file /\ q.artifacts = {})
  /\ q.gates
  /\ q.structured => Len(q.items) \in 1..q.milestones
  /\ ~Unverifiable(IF q.structured THEN q.items ELSE DefaultItems(q.sizing, q.milestones))
  /\ Valid(Items(q), q.artifacts)

(* What an item waits for, directly or not: what is in every set of items  *)
(* that holds its dependencies, and those of its members.                  *)
Ancestors(items) ==
  LET closed == {S \in SUBSET DOMAIN items : \A d \in S : items[d].deps \subseteq S}
  IN  [i \in DOMAIN items |->
         {a \in DOMAIN items : \A S \in closed : items[i].deps \subseteq S => a \in S}]
=============================================================================
