------------------------------ MODULE MCButler ------------------------------
(***************************************************************************)
(* Small instances of Butler: an instruction in plain words, one in which  *)
(* a field is vague, and drafts that an owner structured; a model that     *)
(* answers with proposals inside and outside of the contract, of which     *)
(* one is followed further.                                                *)
(***************************************************************************)
EXTENDS Butler, TLC

CONSTANTS c1, c2, s1

Clear == [NoText EXCEPT !.chars = 20, !.lines = 1, !.marked = TRUE]
Slogan == [Clear EXCEPT !.slogan = TRUE]
Filed == [Clear EXCEPT !.file = TRUE]          \* speaks of a file to deliver
MCTexts == {Clear, Filed}

Small == [layers |-> 1, components |-> 1, files |-> 1, migration |-> FALSE,
          deploy |-> FALSE, commands |-> 1, seconds |-> 60, dependencies |-> 0,
          risk |-> "low"]

Words(objective, boundaries, acceptance) ==
  [objective |-> objective, boundaries |-> boundaries, acceptance |-> acceptance]

Plain(text) == [NoDraft EXCEPT !.text = text]

Owners(text, hints, artifacts) ==
  [NoDraft EXCEPT !.text = text, !.hints = hints, !.parts = 1, !.request.artifacts = artifacts]

AllClear == Words(Clear, Clear, Clear)
AllFiled == Words(Clear, Clear, Filed)

Hints == {{}, {"frontend"}, {"backend", "frontend"}, {"backend", "frontend", "deploy", "migration"}}
MCStarts == {Plain(Words(Clear, NoText, NoText)), Plain(Words(Clear, Clear, Slogan))}
              \cup {Owners(AllClear, hints, {}) : hints \in Hints}
              \cup {Owners(AllClear, {}, {"f"}), Owners(AllFiled, {}, {}),
                    Owners(Words(Clear, NoText, NoText), {}, {"f"})}

Lane(role, deps, files) ==
  Item(role, IF role = "verification" THEN "verification" ELSE "implementation", deps, files)

Plan(text, sizing, items, artifacts) ==
  [NoDraft EXCEPT !.text = text, !.sized = TRUE, !.refs = TRUE, !.keys = Optional,
                  !.request = [sizing |-> sizing, structured |-> TRUE, items |-> items,
                               milestones |-> MaxItems, artifacts |-> artifacts,
                               file |-> FALSE, gates |-> TRUE]]

(* A proposal with every key, one that says nothing of the acceptance or of *)
(* files, and one that takes the acceptance back.                           *)
Good == Plan(AllClear, Small,
             <<Lane("backend", {}, {}), Lane("verification", {1}, {})>>, {})
Silent == [Good EXCEPT !.text.acceptance = NoText, !.keys = {"boundaries"}]
Vaguer == Plan(Words(Clear, Clear, NoText), Small, <<Lane("ui", {}, {})>>, {})

Offer(items, artifacts, file) ==
  Plan(IF file THEN AllFiled ELSE AllClear, Small, items, artifacts)

(* In and out of the contract: files without a producer or with two, a file *)
(* that nobody declared, a check that does not come last, lanes side by     *)
(* side, a check by a builder, six lanes.                                  *)
Odd == {Offer(<<>>, {}, FALSE),
        Offer(<<Lane("ui", {}, {})>>, {"f"}, TRUE),
        Offer(<<Lane("ui", {}, {"f"})>>, {"f"}, TRUE),
        Offer(<<Lane("ui", {}, {"f"})>>, {}, TRUE),
        Offer(<<Lane("ui", {}, {})>>, {}, TRUE),
        Offer(<<Lane("ui", {}, {"f"}), Lane("ui", {}, {"f"})>>, {"f"}, FALSE),
        Offer(<<Lane("backend", {}, {}), Lane("frontend", {}, {})>>, {}, FALSE),
        Offer(<<Lane("backend", {}, {}), Lane("frontend", {1}, {})>>, {}, FALSE),
        Offer(<<Lane("verification", {}, {}), Lane("ui", {1}, {})>>, {}, FALSE),
        Offer(<<Lane("ui", {}, {}), Lane("verification", {1}, {"f"})>>, {"f"}, FALSE),
        Offer([i \in 1..6 |-> Lane("ui", {}, {})], {}, FALSE)}

MCReplies == {Good, Vaguer, Silent} \cup Odd
MCWorked == {NoDraft.request, Good.request, Defaulted(Owners(AllClear, {}, {})).request}

Symmetry == Permutations(Clients) \cup Permutations(Sessions)
=============================================================================
