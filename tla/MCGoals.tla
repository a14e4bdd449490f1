------------------------------ MODULE MCGoals ------------------------------
(***************************************************************************)
(* Requests for Goals: every structured plan of up to three items from     *)
(* four roles, some longer ones, and unstructured requests of many sizes.  *)
(* Of these goals one is worked on: two lanes and their verification.      *)
(***************************************************************************)
EXTENDS Goals

Small == [layers |-> 1, components |-> 1, files |-> 1, migration |-> FALSE,
          deploy |-> FALSE, commands |-> 1, seconds |-> 60, dependencies |-> 0,
          risk |-> "low"]

Request(sizing, structured, items, milestones, artifacts, file, gates) ==
  [sizing |-> sizing, structured |-> structured, items |-> items,
   milestones |-> milestones, artifacts |-> artifacts, file |-> file, gates |-> gates]

Structured(items, artifacts) == Request(Small, TRUE, items, 6, artifacts, artifacts # {}, TRUE)

KindOf(role) == IF role = "verification" THEN "verification" ELSE "implementation"

SomeItems == {Item(r, KindOf(r), deps, {}) :
                r \in {"backend", "frontend", "ui", "verification"}, deps \in SUBSET {1, 2}}

Odd == {<<Item("backend", "verification", {}, {})>>,
        <<Item("backend", "implementation", {}, {"f"})>>,
        <<Item("backend", "implementation", {}, {"f"}), Item("ui", "implementation", {}, {"f"})>>,
        <<Item("ui", "implementation", {}, {}), Item("verification", "verification", {1}, {"f"})>>}

Full(n) == [i \in 1..n |-> Item(<<"backend", "ui", "frontend", "web3", "devops_sre", "ui">>[i],
                                "implementation", {}, {})]

Sizings == {[Small EXCEPT !.layers = l, !.components = c, !.files = f, !.migration = mi,
                          !.deploy = de, !.risk = ri] :
              l \in {0, 1, 2, 9}, c \in {1, 3, 20}, f \in {1, 3, 40},
              mi \in BOOLEAN, de \in BOOLEAN, ri \in DOMAIN RiskPoints}

TwoLanes == Structured(<<Item("backend", "implementation", {}, {}),
                         Item("frontend", "implementation", {}, {})>>, {})

MCNames  == RoleKinds \cup Kinds
MCWorked == {TwoLanes}

MCRequests ==
  {Structured(items, {}) : items \in UNION {[1..n -> SomeItems] : n \in 1..3}}
    \cup {Structured(items, {"f"}) : items \in Odd}
    \cup {Structured(Full(n), {}) : n \in 5..6}
    \cup {Structured(<<>>, {}), TwoLanes}
    \cup {Request(sizing, FALSE, <<>>, milestones, files, file, TRUE) :
            sizing \in Sizings, milestones \in {2, 6}, files \in {{}, {"f"}},
            file \in BOOLEAN}
    \cup {Request(Small, FALSE, <<>>, 6, {}, FALSE, FALSE)}
=============================================================================
