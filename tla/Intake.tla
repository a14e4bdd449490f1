------------------------------- MODULE Intake -------------------------------
(***************************************************************************)
(* What the Butler makes of words: the semantic gate over the three fields *)
(* of a draft, the defaults of a draft that an owner structured, the       *)
(* contract a model's proposal must meet, and whether a draft may go to    *)
(* execution without a confirmation.  Pure functions of a draft.           *)
(*                                                                         *)
(* A text is reduced to what is looked at: its length, its lines, whether  *)
(* it holds one of the field's marker words, whether it reads like a slogan *)
(* and whether it speaks of a file to deliver.  A draft has such a text per *)
(* field, the request that GoalPlan plans (file is set when it is planned), *)
(*   sized   whether it has sizing inputs,                                 *)
(*   hints   the kinds of work its words name, parts how many components,  *)
(*   roles   whether the owner named providers of roles,                   *)
(*   refs    whether its providers, templates and rules are the catalogue's,*)
(*   keys    of a proposal, which keys it has of those it may leave out.    *)
(***************************************************************************)
EXTENDS GoalPlan

Fields == <<"objective", "boundaries", "acceptance">>

NoText == [chars |-> 0, lines |-> 0, marked |-> FALSE, slogan |-> FALSE, file |-> FALSE]

-----------------------------------------------------------------------------
(* The semantic gate.                                                      *)

Vague(text) == text.chars < 8 \/ text.slogan

Sufficient(field, text) ==
  /\ ~Vague(text)
  /\ IF field = "objective"
     THEN text.chars >= 16 \/ text.marked
     ELSE \/ text.lines >= 2 /\ text.chars >= 16
          \/ text.marked /\ text.chars >= 12

Gaps(draft) == {i \in 1..3 : ~Sufficient(Fields[i], draft.text[Fields[i]])}
Ready(draft) == Gaps(draft) = {}

(* The one question asked: the first gap of the fixed order.               *)
NextGap(draft) == Fields[CHOOSE i \in Gaps(draft) : \A j \in Gaps(draft) : i <= j]

Missing(draft)    == {f \in {Fields[i] : i \in 1..3} : draft.text[f].chars = 0}
Structured(draft) == Missing(draft) = {}

-----------------------------------------------------------------------------
(* The defaults of a structured draft: sizing from the kinds of work its    *)
(* words name, and one lane per kind, each behind the one before it.        *)

Count(b) == IF b THEN 1 ELSE 0

DefaultSizing(draft) ==
  LET named  == draft.hints
      layers == AtLeast1(Cardinality(named \cap {"backend", "frontend", "deploy"}))
      parts  == AtLeast1(draft.parts + Cardinality(named \cap {"backend", "frontend"}))
      deep   == {"deploy", "migration"} \subseteq named
  IN  [layers |-> layers, components |-> parts, files |-> 2 * parts,
       migration |-> "migration" \in named, deploy |-> "deploy" \in named,
       commands |-> 1, seconds |-> 60, dependencies |-> 0,
       risk |-> IF deep THEN "high" ELSE IF layers >= 2 THEN "medium" ELSE "low"]

DefaultRoles(hints) ==
  (IF "backend" \in hints \/ "frontend" \notin hints THEN <<"backend">> ELSE <<>>)
    \o (IF "frontend" \in hints THEN <<"frontend">> ELSE <<>>)
    \o (IF "deploy" \in hints THEN <<"devops_sre">> ELSE <<>>)
    \o <<"verification">>

(* Every lane is given all the files, its verification too.                *)
DefaultLanes(hints, artifacts) ==
  LET roles == DefaultRoles(hints)
  IN  [i \in DOMAIN roles |->
         Item(roles[i],
              IF roles[i] = "verification" THEN "verification" ELSE "implementation",
              IF i = 1 THEN {} ELSE {i - 1}, artifacts)]

Defaulted(draft) ==
  LET lanes == ~draft.request.structured /\ ~draft.roles
  IN  [draft EXCEPT
        !.sized = TRUE,
        !.request.sizing     = IF draft.sized THEN @ ELSE DefaultSizing(draft),
        !.request.gates      = IF draft.sized THEN @ ELSE TRUE,
        !.request.structured = @ \/ lanes,
        !.request.items      = IF lanes THEN DefaultLanes(draft.hints, draft.request.artifacts)
                                        ELSE @]

Normalized(draft) == IF Structured(draft) THEN Defaulted(draft) ELSE draft

-----------------------------------------------------------------------------
(* The words ask for a file: decided anew whenever a draft is planned.      *)
WantsFile(draft) == draft.text["objective"].file \/ draft.text["acceptance"].file

(* The contract of a model's proposal.                                     *)

Optional == {"boundaries", "acceptance", "artifacts"}

PlannerRoles == RoleKinds \ {"web3"}
Followers    == {"frontend", "devops_sre", "verification"}

(* The files a proposal should have declared: those its items do, or one    *)
(* that the last implementation is to write.                                *)
AnyFile == "report"

Materialized(p) ==
  LET builds == Of(p.request.items, "implementation")
      named  == UNION {p.request.items[i].artifacts : i \in builds}
      keys   == p.keys \cup {"artifacts"}
  IN  IF ~WantsFile(p) \/ p.request.artifacts # {} THEN p
      ELSE IF named # {} THEN [p EXCEPT !.request.artifacts = named, !.keys = keys]
      ELSE IF builds = {} THEN p
      ELSE [p EXCEPT !.request.artifacts = {AnyFile}, !.keys = keys,
                     !.request.items[LastOf(builds)].artifacts = {AnyFile}]

ProducedSomewhere(items, declared) ==      \* a mutant of ProducedOnce
  \A f \in declared : \E i \in DOMAIN items : f \in items[i].artifacts

ProducedOnce(items, declared) ==
  \A f \in declared : Cardinality({i \in DOMAIN items : f \in items[i].artifacts}) = 1

InContract(p) ==
  LET items == p.request.items
  IN  /\ p.refs
      /\ Cardinality(Missing(p)) <= 1
      /\ WantsFile(p) => p.request.artifacts # {}
      /\ p.sized /\ p.request.gates
      /\ Len(items) \in 1..MaxItems
      /\ \A i \in DOMAIN items :
           /\ items[i].role \in PlannerRoles
           /\ items[i].kind \in Kinds
           /\ (items[i].role = "verification") = (items[i].kind = "verification")
           /\ items[i].deps \subseteq 1..(i - 1)
           /\ i > 1 /\ items[i].role \in Followers => i - 1 \in items[i].deps
           /\ items[i].kind = "verification" => items[i].artifacts = {}
           /\ items[i].artifacts \subseteq p.request.artifacts
      /\ ProducedOnce(items, p.request.artifacts)

-----------------------------------------------------------------------------
(* A draft may go to execution unconfirmed: an owner structured it, or it   *)
(* is small and nobody had to be asked.                                     *)
AutoEligible(draft, structured, asked) ==
  /\ Ready(draft)
  /\ structured \/ /\ asked = 0
                   /\ draft.sized
                   /\ SizeClass(Score(draft.request.sizing)) \in {"XS", "S", "M"}

(* A goal can be made of the draft.                                        *)
Asked(draft)        == [draft.request EXCEPT !.file = WantsFile(draft)]
Dispatchable(draft) == draft.sized /\ Planned(Asked(draft))
=============================================================================
