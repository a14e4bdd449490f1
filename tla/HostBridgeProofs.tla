-------------------------- MODULE HostBridgeProofs --------------------------
(***************************************************************************)
(* Proofs about HostBridge, for any number of threads and crashes.         *)
(*                                                                         *)
(* The argument: the marker written under the lock lets one start thread   *)
(* through, and a thread past the marker is the only reason for a record   *)
(* that is open without a pid (Marked).  If the bridge does not die right  *)
(* after Popen and ps answers, a living process is always known by its     *)
(* identity or to the thread that started it (Known), and whoever settles  *)
(* a record has looked at exactly that.  A verdict stays because a monitor *)
(* and the threads that settle a cancellation never serve one record       *)
(* together (Served).                                                      *)
(***************************************************************************)
EXTENDS HostBridge, TLAPS

Past(s) == starter[s] \in {"marked", "spawned"}

Marked ==
  /\ \A s, r \in Starters : Past(s) /\ Past(r) => s = r
  /\ \A s \in Starters : Past(s) =>
       /\ status \in {"dispatching", "cancelling"} /\ ~pid
       /\ starter[s] = "marked" <=> proc = "none"
  /\ spawns = IF proc = "none" THEN 0 ELSE 1
  /\ status = "absent" => proc = "none" /\ ~pid
  /\ handle => pid
  /\ \A c \in Cancels : enforcer[c] # "idle" => pid
  /\ ~up => \A s \in Starters : starter[s] = "idle"

Known ==
  /\ proc = "alive" /\ pid => identity
  /\ proc = "alive" /\ ~pid => \E s \in Starters : starter[s] = "spawned"
  /\ FinalMeansGone

Reliable == Faults \cap {"ps_fails", "crash_at_spawn"} = {}

Marks == BridgeTypeOK /\ Marked

-----------------------------------------------------------------------------
(* A refresh, as its callers see it: what it leaves and what it decides.   *)
LEMMA RefreshStep ==
  ASSUME BridgeTypeOK, NEW same \in Same
  PROVE  /\ same \in BOOLEAN
         /\ Refreshed(same) \in {"absent"} \cup Open \cup Final
         /\ ~pid => Refreshed(same) = status
         /\ status \in Final \cup {"absent", "dispatching"} => Refreshed(same) = status
         /\ status \in Open => Refreshed(same) \in Open \cup Final
         /\ status \in Open /\ Refreshed(same) \in Final => ~same /\ pid
BY DEF BridgeTypeOK, Refreshed, Seen, Same, Answers, Open, Final

(* Every variable keeps its type.                                          *)
LEMMA TypeStep ==
  ASSUME BridgeAssumption, BridgeTypeOK, [BridgeNext]_bridgeVars
  PROVE  BridgeTypeOK'
<1> USE DEF BridgeTypeOK, record, details, process, memory, bridge, Go, Write
<1>a. \A same \in Same : /\ same \in BOOLEAN
                         /\ Refreshed(same) \in {"absent"} \cup Open \cup Final
  BY RefreshStep
<1>1. ASSUME NEW s \in Starters, StartCheck(s) PROVE BridgeTypeOK'
  BY <1>a, <1>1 DEF StartCheck, Refresh
<1>2. ASSUME NEW s \in Starters, StartMark(s) PROVE BridgeTypeOK'
  BY <1>a, <1>2 DEF StartMark, Refresh, Open
<1>3. ASSUME NEW s \in Starters, Popen(s) \/ PopenFails(s) PROVE BridgeTypeOK'
  <2>1. spawns + 1 \in Nat
    OBVIOUS
  <2> QED BY <1>3, <2>1 DEF Popen, PopenFails, Final
<1>4. ASSUME NEW s \in Starters, StartRecord(s) PROVE BridgeTypeOK'
  BY <1>4 DEF StartRecord, Answers, Open
<1>5. ASSUME Poll \/ Exit \/ Settling PROVE BridgeTypeOK'
  BY <1>a, <1>5 DEF Poll, Refresh, Exit, Settling, MonitorSettles, Final
<1>6. ASSUME NEW c \in Cancels, Cancel(c) PROVE BridgeTypeOK'
  BY <1>a, <1>6 DEF Cancel, Open
<1>7. ASSUME NEW c \in Cancels, EnforceKill(c) PROVE BridgeTypeOK'
  BY <1>a, <1>7 DEF EnforceKill, Kill
<1>8. ASSUME NEW c \in Cancels, EnforceSettle(c) PROVE BridgeTypeOK'
  BY <1>a, <1>8 DEF EnforceSettle, Open, Final
<1>9. CASE Crash
  <2>1. crashes + 1 \in Nat
    OBVIOUS
  <2> QED BY <1>9, <2>1 DEF Crash
<1>10. CASE Restart
  BY <1>a, <1>10 DEF Restart, Recovered, Open, Final
<1>11. CASE UNCHANGED bridgeVars
  BY <1>11 DEF bridgeVars
<1> QED
  BY <1>1, <1>2, <1>3, <1>4, <1>5, <1>6, <1>7, <1>8, <1>9, <1>10, <1>11
  DEF BridgeNext, Starting, Enforcing

-----------------------------------------------------------------------------
(* The marker lets one start thread through, whatever fails.               *)
LEMMA MarkedStep ==
  ASSUME BridgeAssumption, BridgeTypeOK, Marked, [BridgeNext]_bridgeVars
  PROVE  Marked'
<1> USE DEF BridgeTypeOK, Marked, Past, record, details, process, memory, bridge, Go, Write
<1>a. \A same \in Same : /\ same \in BOOLEAN
                         /\ ~pid => Refreshed(same) = status
                         /\ status = "absent" <=> Refreshed(same) = "absent"
  BY RefreshStep DEF Open, Final
<1>1. ASSUME NEW s \in Starters, StartCheck(s) PROVE Marked'
  BY <1>a, <1>1 DEF StartCheck, Refresh
<1>2. ASSUME NEW s \in Starters, StartMark(s) PROVE Marked'
  BY <1>a, <1>2 DEF StartMark, Refresh
<1>3. ASSUME NEW s \in Starters, Popen(s) PROVE Marked'
  BY <1>3 DEF Popen
<1>4. ASSUME NEW s \in Starters, PopenFails(s) \/ StartRecord(s) PROVE Marked'
  BY <1>4 DEF PopenFails, StartRecord
<1>5. CASE Poll
  BY <1>a, <1>5 DEF Poll, Refresh
<1>6. CASE Exit
  BY <1>6 DEF Exit
<1>7. CASE Settling
  BY <1>7 DEF Settling, MonitorSettles
<1>8. ASSUME NEW c \in Cancels, Cancel(c) PROVE Marked'
  BY <1>a, <1>8 DEF Cancel, Open
<1>9. ASSUME NEW c \in Cancels, EnforceKill(c) PROVE Marked'
  BY <1>9 DEF EnforceKill
<1>10. ASSUME NEW c \in Cancels, EnforceSettle(c) PROVE Marked'
  BY <1>10 DEF EnforceSettle
<1>11. CASE Crash
  BY <1>11 DEF Crash
<1>12. CASE Restart
  BY <1>a, <1>12 DEF Restart, Recovered
<1>13. CASE UNCHANGED bridgeVars
  BY <1>13 DEF bridgeVars
<1> QED
  BY <1>1, <1>2, <1>3, <1>4, <1>5, <1>6, <1>7, <1>8, <1>9, <1>10, <1>11, <1>12, <1>13
  DEF BridgeNext, Starting, Enforcing

LEMMA MarksInit == BridgeAssumption /\ BridgeInit => Marks
<1> SUFFICES ASSUME BridgeAssumption, BridgeInit PROVE BridgeTypeOK /\ Marked
  BY DEF Marks
<1>1. BridgeTypeOK
  BY DEF BridgeInit, BridgeTypeOK
<1>2. Marked
  BY DEF BridgeInit, Marked, Past
<1> QED BY <1>1, <1>2

LEMMA MarksStep == BridgeAssumption /\ Marks /\ [BridgeNext]_bridgeVars => Marks'
BY TypeStep, MarkedStep DEF Marks

LEMMA AlwaysMarks == BridgeSpec => []Marks
BY BridgeAssumption, MarksInit, MarksStep, PTL DEF BridgeSpec

(* The record, the threads and the processes of a job keep their types.    *)
THEOREM BridgeTypeCorrect == BridgeSpec => []BridgeTypeOK
<1>1. Marks => BridgeTypeOK
  BY DEF Marks
<1> QED BY <1>1, AlwaysMarks, PTL

(* At most one process is started for a job id, whatever fails: the second *)
(* look under the lock and the durable marker are enough.                  *)
THEOREM OneProcessStarted == BridgeSpec => []OneProcess
<1>1. Marks => OneProcess
  BY DEF Marks, Marked, OneProcess
<1> QED BY <1>1, AlwaysMarks, PTL

-----------------------------------------------------------------------------
(* If ps answers, whoever decides that the process is gone is right.       *)
LEMMA SameIsTrue ==
  ASSUME Reliable, Marks, Known, NEW same \in Same, pid
  PROVE  same <=> proc = "alive"
BY DEF Reliable, Marks, BridgeTypeOK, Known, Same, Answers

LEMMA KnownStep ==
  ASSUME BridgeAssumption, Reliable, Marks, Known, [BridgeNext]_bridgeVars
  PROVE  Known'
<1> USE DEF Known, FinalMeansGone, record, details, process, memory, bridge, Go, Write
<1>m. /\ BridgeTypeOK
      /\ \A s, r \in Starters : Past(s) /\ Past(r) => s = r
      /\ \A s \in Starters : Past(s) =>
           /\ status \in {"dispatching", "cancelling"} /\ ~pid
           /\ starter[s] = "marked" <=> proc = "none"
      /\ status = "absent" => proc = "none" /\ ~pid
      /\ handle => pid
      /\ \A c \in Cancels : enforcer[c] # "idle" => pid
      /\ ~up => \A s \in Starters : starter[s] = "idle"
  BY DEF Marks, Marked
<1>a. \A same \in Same :
        /\ Refreshed(same) \in Final =>
             status \in Final \/ (status \in Open /\ pid /\ proc # "alive")
        /\ pid => (same <=> proc = "alive")
  <2> TAKE same \in Same
  <2>1. pid => (same <=> proc = "alive")
    BY SameIsTrue
  <2>2. Refreshed(same) \in Final =>
          status \in Final \/ (status \in Open /\ ~same /\ pid)
    BY <1>m, RefreshStep DEF Open, Final, BridgeTypeOK
  <2> QED BY <2>1, <2>2, RefreshStep, <1>m
<1> USE <1>m DEF BridgeTypeOK, Past
<1>1. ASSUME NEW s \in Starters, StartCheck(s) PROVE Known'
  BY <1>a, <1>1 DEF StartCheck, Refresh
<1>2. ASSUME NEW s \in Starters, StartMark(s) PROVE Known'
  BY <1>a, <1>2 DEF StartMark, Refresh, Final
<1>3. ASSUME NEW s \in Starters, Popen(s) PROVE Known'
  BY <1>3 DEF Popen, Final
<1>4. ASSUME NEW s \in Starters, PopenFails(s) PROVE Known'
  BY <1>4 DEF PopenFails
<1>5. ASSUME NEW s \in Starters, StartRecord(s) PROVE Known'
  <2>1. status' = "running" /\ pid' /\ UNCHANGED proc /\ (proc = "alive" => identity')
    <3>1. "ps_fails" \notin Faults
      BY DEF Reliable
    <3>2. PICK known \in Answers(proc = "alive") : Write("running", known)
      BY <1>5 DEF StartRecord
    <3>3. known = (proc = "alive")
      BY <3>1 DEF Answers
    <3> QED BY <1>5, <3>2, <3>3 DEF StartRecord
  <2> QED BY <2>1 DEF Final
<1>6. CASE Poll
  BY <1>a, <1>6 DEF Poll, Refresh
<1>7. CASE Exit
  BY <1>7 DEF Exit
<1>8. CASE Settling
  BY <1>8 DEF Settling, MonitorSettles
<1>9. ASSUME NEW c \in Cancels, Cancel(c) PROVE Known'
  BY <1>a, <1>9 DEF Cancel, Final
<1>10. ASSUME NEW c \in Cancels, EnforceKill(c) PROVE Known'
  BY <1>10 DEF EnforceKill
<1>11. ASSUME NEW c \in Cancels, EnforceSettle(c) PROVE Known'
  BY <1>a, <1>11 DEF EnforceSettle, Final
<1>12. CASE Crash
  BY <1>12 DEF Crash, Reliable
<1>13. CASE Restart
  BY <1>a, <1>13 DEF Restart, Recovered, Final, Open
<1>14. CASE UNCHANGED bridgeVars
  BY <1>14 DEF bridgeVars
<1> QED
  BY <1>1, <1>2, <1>3, <1>4, <1>5, <1>6, <1>7, <1>8, <1>9, <1>10, <1>11, <1>12, <1>13,
     <1>14
  DEF BridgeNext, Starting, Enforcing

LEMMA AlwaysKnown == Reliable => (BridgeSpec => [](Marks /\ Known))
<1> SUFFICES ASSUME Reliable PROVE BridgeSpec => [](Marks /\ Known)
  OBVIOUS
<1>1. BridgeInit => Marks /\ Known
  BY BridgeAssumption, MarksInit DEF BridgeInit, Known, FinalMeansGone, Final
<1>2. Marks /\ Known /\ [BridgeNext]_bridgeVars => (Marks /\ Known)'
  BY BridgeAssumption, MarksStep, KnownStep
<1> QED BY <1>1, <1>2, PTL DEF BridgeSpec

(* A final record means that the process is gone, if ps answers and the    *)
(* bridge does not die between Popen and the pid.                          *)
THEOREM FinalIsGone == Reliable => (BridgeSpec => []FinalMeansGone)
<1>1. Known => FinalMeansGone
  BY DEF Known
<1> QED BY <1>1, AlwaysKnown, PTL

-----------------------------------------------------------------------------
(* Every step of the bridge is a step of the promise, or leaves it alone.  *)
LEMMA PromiseStep ==
  ASSUME Reliable, Marks, Known, BridgeTypeOK', [BridgeNext]_bridgeVars
  PROVE  [Promise!JobNext]_(Promise!jobVars)
<1> USE DEF Known, FinalMeansGone, record, details, process, memory, bridge, Go, Write,
        Promise!JobNext, Promise!jobVars, Promise!Accept, Promise!Start, Promise!Exit,
        Promise!Settle, Open, Final
<1>m. /\ BridgeTypeOK
      /\ \A s \in Starters : Past(s) =>
           /\ status \in {"dispatching", "cancelling"} /\ ~pid
           /\ starter[s] = "marked" <=> proc = "none"
      /\ status = "absent" => proc = "none" /\ ~pid
      /\ handle => pid
      /\ \A c \in Cancels : enforcer[c] # "idle" => pid
      /\ ~up => \A s \in Starters : starter[s] = "idle"
  BY DEF Marks, Marked
<1>a. \A same \in Same :
        /\ status \in Final \cup {"absent"} => Refreshed(same) = status
        /\ status \in Open => Refreshed(same) \in Open \cup Final
        /\ Refreshed(same) \in Final => status \in Final \/ proc # "alive"
        /\ pid => (same <=> proc = "alive")
  <2> TAKE same \in Same
  <2>1. pid => (same <=> proc = "alive")
    BY SameIsTrue
  <2>2. /\ status \in Final \cup {"absent"} => Refreshed(same) = status
        /\ status \in Open => Refreshed(same) \in Open \cup Final
        /\ Refreshed(same) \in Final => status \in Final \/ (~same /\ pid)
    BY <1>m, RefreshStep DEF BridgeTypeOK
  <2> QED BY <2>1, <2>2, RefreshStep, <1>m
<1> USE <1>m DEF BridgeTypeOK, Past
<1>1. ASSUME Refresh, UNCHANGED proc PROVE [Promise!JobNext]_(Promise!jobVars)
  BY <1>a, <1>1 DEF Refresh
<1>2. ASSUME NEW s \in Starters, StartCheck(s) \/ StartMark(s)
      PROVE  [Promise!JobNext]_(Promise!jobVars)
  BY <1>1, <1>2 DEF StartCheck, StartMark
<1>3. ASSUME NEW s \in Starters, Popen(s) \/ PopenFails(s) \/ StartRecord(s)
      PROVE  [Promise!JobNext]_(Promise!jobVars)
  BY <1>3 DEF Popen, PopenFails, StartRecord
<1>4. CASE Poll
  BY <1>1, <1>4 DEF Poll
<1>5. CASE Exit \/ Settling
  BY <1>5 DEF Exit, Settling, MonitorSettles
<1>6. ASSUME NEW c \in Cancels, Cancel(c) PROVE [Promise!JobNext]_(Promise!jobVars)
  BY <1>a, <1>6 DEF Cancel
<1>7. ASSUME NEW c \in Cancels, Enforcing(c) PROVE [Promise!JobNext]_(Promise!jobVars)
  BY <1>a, <1>7 DEF Enforcing, EnforceKill, EnforceSettle
<1>8. CASE Crash
  BY <1>8 DEF Crash
<1>9. CASE Restart
  BY <1>a, <1>9 DEF Restart, Recovered
<1>10. CASE UNCHANGED bridgeVars
  BY <1>10 DEF bridgeVars
<1> QED
  BY <1>2, <1>3, <1>4, <1>5, <1>6, <1>7, <1>8, <1>9, <1>10 DEF BridgeNext, Starting

(* The bridge keeps the promise of HostJob: it implements it step by step. *)
THEOREM BridgeKeepsPromise == Reliable => (BridgeSpec => KeepsPromise)
<1> SUFFICES ASSUME Reliable PROVE BridgeSpec => KeepsPromise
  OBVIOUS
<1>1. BridgeInit => Promise!JobInit
  BY DEF BridgeInit, Promise!JobInit
<1>2. Marks /\ Known /\ Marks' /\ [BridgeNext]_bridgeVars
        => [Promise!JobNext]_(Promise!jobVars)
  BY PromiseStep DEF Marks
<1> QED BY <1>1, <1>2, AlwaysKnown, PTL DEF BridgeSpec, KeepsPromise, Promise!JobSpec

-----------------------------------------------------------------------------
(* No acknowledged cancellation is forgotten, whatever fails: start writes *)
(* its copy of the record only while the record has no pid.                *)
THEOREM CancellationsKept == BridgeSpec => CancelKept
<1>1. Marks /\ [BridgeNext]_bridgeVars => [cancel /\ pid => cancel']_record
  <2> SUFFICES ASSUME Marks, [BridgeNext]_bridgeVars, cancel, pid PROVE cancel'
    OBVIOUS
  <2> USE DEF record, details, process, memory, bridge, Go
  <2>m. /\ \A s \in Starters : ~Past(s)
        /\ status # "absent"
    BY DEF Marks, Marked
  <2>1. ASSUME NEW s \in Starters, Starting(s) PROVE cancel'
    BY <2>m, <2>1
    DEF Past, Starting, StartCheck, StartMark, Popen, PopenFails, StartRecord, Refresh
  <2>2. ASSUME NEW c \in Cancels, Cancel(c) \/ Enforcing(c) PROVE cancel'
    BY <2>2 DEF Cancel, Enforcing, EnforceKill, EnforceSettle
  <2>3. CASE Poll \/ Exit \/ Settling \/ Crash \/ Restart
    BY <2>3 DEF Poll, Refresh, Exit, Settling, MonitorSettles, Crash, Restart
  <2>4. CASE UNCHANGED bridgeVars
    BY <2>4 DEF bridgeVars
  <2> QED BY <2>1, <2>2, <2>3, <2>4 DEF BridgeNext
<1> QED BY <1>1, AlwaysMarks, PTL DEF BridgeSpec, CancelKept

-----------------------------------------------------------------------------
(* Who may still write a record: the monitor of a running process, or the  *)
(* enforcement of a cancellation of an orphan, which agrees with whatever  *)
(* another such thread decided.                                            *)
Detached(c) == enforcer[c] \in {"detached", "killed"}

Served ==
  /\ handle => up /\ status \in {"running", "cancelling"}
  /\ \A c \in Cancels : Detached(c) =>
       cancel /\ ~handle /\ status \in {"cancelling", "recovery_hold", "cancelled"}
  /\ ~up => \A c \in Cancels : enforcer[c] = "idle"

LEMMA ServedStep ==
  ASSUME Marks, Served, [BridgeNext]_bridgeVars
  PROVE  Served'
<1> USE DEF Served, Detached, record, details, process, memory, bridge, Go, Write
<1>m. /\ BridgeTypeOK
      /\ \A s \in Starters : Past(s) => ~pid
      /\ status = "absent" => ~pid
      /\ handle => pid
      /\ \A c \in Cancels : enforcer[c] # "idle" => pid
  BY DEF Marks, Marked
<1>a. \A same \in Same :
        /\ handle => Refreshed(same) = status
        /\ ~pid => Refreshed(same) = status
        /\ cancel => Refreshed(same) \in {status, "cancelling", "cancelled"}
  BY <1>m DEF Refreshed, Seen, BridgeTypeOK
<1> USE <1>m DEF BridgeTypeOK, Past
<1>1. ASSUME Refresh, UNCHANGED <<handle, enforcer, up>> PROVE Served'
  BY <1>a, <1>1 DEF Refresh
<1>2. ASSUME NEW s \in Starters, StartCheck(s) \/ StartMark(s) PROVE Served'
  BY <1>1, <1>2 DEF StartCheck, StartMark
<1>3. ASSUME NEW s \in Starters, Popen(s) \/ PopenFails(s) \/ StartRecord(s) PROVE Served'
  BY <1>3 DEF Popen, PopenFails, StartRecord
<1>4. CASE Poll
  BY <1>1, <1>4 DEF Poll
<1>5. CASE Exit
  BY <1>5 DEF Exit
<1>6. CASE Settling
  BY <1>6 DEF Settling, MonitorSettles
<1>7. ASSUME NEW c \in Cancels, Cancel(c) PROVE Served'
  BY <1>a, <1>7 DEF Cancel, Open
<1>8. ASSUME NEW c \in Cancels, Enforcing(c) PROVE Served'
  BY <1>8 DEF Enforcing, EnforceKill, EnforceSettle
<1>9. CASE Crash
  BY <1>9 DEF Crash
<1>10. CASE Restart
  BY <1>10 DEF Restart
<1>11. CASE UNCHANGED bridgeVars
  BY <1>11 DEF bridgeVars
<1> QED
  BY <1>2, <1>3, <1>4, <1>5, <1>6, <1>7, <1>8, <1>9, <1>10, <1>11 DEF BridgeNext, Starting

LEMMA VerdictStep ==
  ASSUME Reliable, Marks, Known, Served, [BridgeNext]_bridgeVars, status \in Final
  PROVE  UNCHANGED record
<1> USE DEF record, details, process, memory, bridge, Go
<1>m. /\ BridgeTypeOK
      /\ \A s \in Starters : ~Past(s)
      /\ ~handle
      /\ \A c \in Cancels : enforcer[c] # "idle" => pid
      /\ \A c \in Cancels : enforcer[c] = "killed" => status = "cancelled"
  BY DEF Marks, Marked, Served, Detached, Final
<1>a. \A same \in Same : Refreshed(same) = status /\ (pid => ~same)
  BY SameIsTrue, RefreshStep, <1>m DEF Known, FinalMeansGone
<1>1. ASSUME NEW s \in Starters, Starting(s) PROVE UNCHANGED record
  BY <1>a, <1>m, <1>1
  DEF Past, Starting, StartCheck, StartMark, Popen, PopenFails, StartRecord, Refresh, Final
<1>2. ASSUME NEW c \in Cancels, Cancel(c) PROVE UNCHANGED record
  BY <1>a, <1>2 DEF Cancel, Open, Final
<1>3. ASSUME NEW c \in Cancels, Enforcing(c) PROVE UNCHANGED record
  BY <1>a, <1>m, <1>3 DEF Enforcing, EnforceKill, EnforceSettle
<1>4. CASE Poll \/ Exit \/ Settling \/ Crash
  BY <1>a, <1>m, <1>4 DEF Poll, Refresh, Exit, Settling, MonitorSettles, Crash
<1>5. CASE Restart
  BY <1>5 DEF Restart, Recovered, Final
<1>6. CASE UNCHANGED bridgeVars
  BY <1>6 DEF bridgeVars
<1> QED BY <1>1, <1>2, <1>3, <1>4, <1>5, <1>6 DEF BridgeNext

(* A verdict is given once: neither a monitor, a poll, a restart nor a late *)
(* enforcement thread overwrites a final record.                            *)
THEOREM VerdictsStay == Reliable => (BridgeSpec => VerdictStays)
<1> SUFFICES ASSUME Reliable PROVE BridgeSpec => VerdictStays
  OBVIOUS
<1>1. BridgeInit => Served
  BY DEF BridgeInit, Served, Detached
<1>2. Marks /\ Served /\ [BridgeNext]_bridgeVars => Served'
  BY ServedStep
<1>3. Marks /\ Known /\ Served /\ [BridgeNext]_bridgeVars
        => [(status \in Final) => UNCHANGED record]_record
  BY VerdictStep
<1> QED BY <1>1, <1>2, <1>3, AlwaysKnown, PTL DEF BridgeSpec, VerdictStays
=============================================================================
