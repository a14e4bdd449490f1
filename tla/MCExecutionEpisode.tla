-------------------------- MODULE MCExecutionEpisode --------------------------
(* ExecutionEpisode for TLC.  The deadline is longer than the wall clock of *)
(* an episode and an extension, so that each of them can be the one that    *)
(* ends it.                                                                 *)
EXTENDS ExecutionEpisode
=============================================================================
