--------------------------- MODULE MCSchedulerLease ---------------------------
(***************************************************************************)
(* Small instances of SchedulerLease: the container with its cron thread    *)
(* r1 and the API threads c1 and c2, which share the owner "web-api", and   *)
(* the command scheduler-tick, k1, a process of its own.                   *)
(***************************************************************************)
EXTENDS SchedulerLease, TLC

CONSTANTS r1, c1, c2, k1

WebApi    == "web-api"
MCOwnerOf == [x \in Tickers |-> IF x \in {c1, c2} THEN WebApi ELSE ToString(x)]
MCHomeOf  == [x \in Tickers |-> IF x = k1 THEN 2 ELSE 1]
=============================================================================
