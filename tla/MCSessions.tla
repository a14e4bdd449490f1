----------------------------- MODULE MCSessions -----------------------------
(* A small instance of Sessions.                                           *)
EXTENDS Sessions

CONSTANTS a, b, p, q
=============================================================================
