--------------------------- MODULE MCTaskService ---------------------------
(* Small instances of TaskService: a task through several runs, alone and   *)
(* beside another task with a worker and a resource of its own.            *)
EXTENDS TaskService

CONSTANTS a, b, r1, r2, x, y

MCRoleOf     == [t \in Tasks |-> IF t = b THEN r2 ELSE r1]
MCResourceOf == [t \in Tasks |-> IF t = b THEN y ELSE x]
Independent  == [t \in Tasks |-> {}]

(* Bounds of the instance with two tasks.  They cut claims, cancellations,  *)
(* operators and trouble, none of which is fair, and never a fair step.    *)

(* While both have runs, b is settled by the host and was told to stop.    *)
StoppedBeside ==
  (run[a] > 0 /\ run[b] > 0) =>
    /\ status[b] \in {"stopping", "cancelled"}
    /\ host[<<b, 1>>] \in {"completed", "interrupted"}
    /\ driver[<<b, 1>>] = "none" /\ ~unsure[<<b, 1>>] /\ cancels[b] = 0

(* Second runs are of a, and trouble comes in first ones, of one task.     *)
FewRuns ==
  /\ run[b] <= 1
  /\ (run[a] > 1 \/ trouble > 0) => (run[a] = 0 \/ run[b] = 0)
  /\ trouble > 0 => run[a] <= 1

(* Operators leave a task alone until it has run, and pause none.          *)
Unattended ==
  \A t \in Tasks :
    /\ status[t] \notin Suspended \cup {"paused"}
    /\ run[t] = 0 => status[t] = "ready"
=============================================================================
