---------------------------- MODULE MCResilience ----------------------------
(***************************************************************************)
(* Small instances of Resilience: a provider overseas, a domestic one, a   *)
(* task that is pinned to the first and one that may use both.             *)
(***************************************************************************)
EXTENDS Resilience, TLC

CONSTANTS far, near, pinned, free, c1

MCZones  == far :> "overseas" @@ near :> "domestic"
MCNeeds  == pinned :> "none" @@ free :> "overseas"
MCOrder  == pinned :> <<>> @@ free :> <<near, far>>
MCFirst  == pinned :> far @@ free :> far
=============================================================================
