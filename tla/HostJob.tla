------------------------------- MODULE HostJob -------------------------------
(***************************************************************************)
(* What the host promises the control plane about one job id.  The record  *)
(* of the job is absent, open or final; its process is started at most     *)
(* once, only for an open record, and a final record means that no process *)
(* runs and none will: the next job of the task may be dispatched.         *)
(***************************************************************************)

VARIABLES
  view,   \* the record, as the control plane reads it
  proc    \* the process of the job: "none" before it starts

jobVars == <<view, proc>>

Accept == view = "absent" /\ view' = "open" /\ UNCHANGED proc
Start  == view = "open" /\ proc = "none" /\ proc' = "alive" /\ UNCHANGED view
Exit   == proc = "alive" /\ proc' = "dead" /\ UNCHANGED view
Settle == view = "open" /\ proc # "alive" /\ view' = "final" /\ UNCHANGED proc

JobInit == view = "absent" /\ proc = "none"
JobNext == Accept \/ Start \/ Exit \/ Settle
JobSpec == JobInit /\ [][JobNext]_jobVars
=============================================================================
