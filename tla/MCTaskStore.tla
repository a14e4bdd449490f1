---------------------------- MODULE MCTaskStore ----------------------------
(***************************************************************************)
(* A small instance of TaskStore: a and b compete for the resource x from  *)
(* two roles, a and c for the worker of the role r1 with two resources.    *)
(***************************************************************************)
EXTENDS TaskStore

CONSTANTS a, b, c, r1, r2, x, y

MCRoleOf     == [t \in Tasks |-> IF t = b THEN r2 ELSE r1]
MCResourceOf == [t \in Tasks |-> IF t = c THEN y ELSE x]

BAfterA == [t \in Tasks |-> IF t = b THEN {a} ELSE {}]

(* Bounds of the instance: three claims, or two and one edit, among all.    *)
Claims    == run[a] + run[b] + run[c]
Edits     == spec[a] + spec[b] + spec[c] - 3
FewClaims == Claims + Edits <= 3 /\ run[b] <= 1 /\ run[c] <= 1
OneEdit   == Edits <= 1
=============================================================================
