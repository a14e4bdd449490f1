---------------------------- MODULE MCHostBridge ----------------------------
(***************************************************************************)
(* Small instances of HostBridge: two requests start one job, two threads  *)
(* enforce its cancellation.                                               *)
(***************************************************************************)
EXTENDS HostBridge

CONSTANTS s1, s2, c1, c2
=============================================================================
