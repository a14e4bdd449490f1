----------------------------- MODULE HostBridge -----------------------------
(***************************************************************************)
(* HostJobManager of the host bridge, for one job id: the HTTP threads     *)
(* that start, poll and cancel the job, the monitor thread that waits for  *)
(* its process, the threads that enforce a cancellation, and crashes and   *)
(* restarts of the bridge.  The process is started in a session of its own *)
(* and outlives the bridge.                                                *)
(*                                                                         *)
(* Every block under self._lock is one action; what happens between two    *)
(* blocks of one thread is in the thread's program counter.  The content   *)
(* of the output is abstracted, and with it _read_stream: it writes back   *)
(* the record it has just read, under the lock.                            *)
(***************************************************************************)
EXTENDS Integers

CONSTANTS
  Starters,    \* the HTTP threads that serve a start of this job
  Cancels,     \* the threads that enforce a cancellation of it
  Faults,      \* what the environment may do: see BridgeAssumption
  MaxCrashes   \* bound of the model: crashes of the bridge

(* "ps_fails": ps times out or cannot run, so an identity is unknown.      *)
(* "crash_at_spawn": the bridge dies after Popen, before it records a pid. *)
(* "crash_in_cancel": the bridge dies while a cancellation is enforced.    *)
(* "slow_kill": a killed process is still there five seconds later.        *)
ASSUME BridgeAssumption ==
  /\ Faults \subseteq {"ps_fails", "crash_at_spawn", "crash_in_cancel", "slow_kill"}
  /\ MaxCrashes \in Nat

VARIABLES
  status,    \* status in <job id>.json, "absent" before the file exists
  pid,       \* the record has a pid
  identity,  \* and the identity of that process
  cancel,    \* cancel_requested
  proc,      \* the process: "none", "alive" or "dead"
  spawns,    \* how many processes this job started
  doomed,    \* SIGKILL was sent to the process
  handle,    \* _processes has the Popen object, and its monitor runs
  starter,   \* where each start thread is
  enforcer,  \* where each enforcement thread is
  up,        \* the bridge runs
  crashes

details    == <<pid, identity, cancel>>
record     == <<status, details>>
process    == <<proc, spawns, doomed>>
memory     == <<handle, starter, enforcer>>
bridge     == <<up, crashes>>
bridgeVars == <<record, process, memory, bridge>>

Open  == {"dispatching", "running", "orphan_running", "cancelling", "recovery_hold"}
Final == {"completed", "cancelled", "interrupted"}

-----------------------------------------------------------------------------
(* _process_identity and _same_process: what ps may answer.                *)
Answers(truth) == IF "ps_fails" \in Faults THEN {truth, FALSE} ELSE {truth}
Same           == Answers(pid /\ identity /\ proc = "alive")

(* The status _refresh leaves, with same the answer of _same_process.      *)
Seen(same) == IF same THEN IF cancel THEN "cancelling" ELSE "orphan_running"
              ELSE IF cancel THEN "cancelled" ELSE "interrupted"

RefreshAnyway(same) ==          \* a mutant of Refreshed: handles are not asked
  IF status \in {"running", "orphan_running", "recovery_hold"} /\ pid
  THEN Seen(same) ELSE status

RefreshOwned(same) ==           \* a mutant of Refreshed: orphans are left alone
  IF status = "running" /\ pid /\ ~handle THEN Seen(same) ELSE status

Refreshed(same) ==
  IF status \in {"running", "orphan_running", "recovery_hold"} /\ pid /\ ~handle
  THEN Seen(same) ELSE status

Refresh == (\E same \in Same : status' = Refreshed(same)) /\ UNCHANGED details

-----------------------------------------------------------------------------
(* start.                                                                  *)

Go(s, pc) == starter' = [starter EXCEPT ![s] = pc]

(* The first look at the record, before the payload is validated.          *)
StartCheck(s) ==
  /\ up /\ starter[s] = "idle"
  /\ IF status = "absent" THEN Go(s, "validated") /\ UNCHANGED record
     ELSE Refresh /\ UNCHANGED starter
  /\ UNCHANGED <<process, handle, enforcer, bridge>>

(* start writes its own copy of the record, whatever the file holds now.   *)
Write(s, known) ==
  /\ status' = s
  /\ pid' = (s = "running") /\ identity' = known /\ cancel' = FALSE

MarkUnseen(s) ==                \* a mutant of StartMark: no second look
  /\ up /\ starter[s] = "validated"
  /\ Write("dispatching", FALSE) /\ Go(s, "marked")
  /\ UNCHANGED <<process, handle, enforcer, bridge>>

(* The second look, and the durable marker "dispatching".                  *)
StartMark(s) ==
  /\ up /\ starter[s] = "validated"
  /\ IF status = "absent" THEN Write("dispatching", FALSE) /\ Go(s, "marked")
     ELSE Refresh /\ Go(s, "idle")
  /\ UNCHANGED <<process, handle, enforcer, bridge>>

Popen(s) ==
  /\ up /\ starter[s] = "marked"
  /\ proc' = "alive" /\ spawns' = spawns + 1
  /\ Go(s, "spawned")
  /\ UNCHANGED <<record, doomed, handle, enforcer, bridge>>

(* OSError: there is no process.                                           *)
PopenFails(s) ==
  /\ up /\ starter[s] = "marked"
  /\ Write("completed", FALSE) /\ Go(s, "idle")
  /\ UNCHANGED <<process, handle, enforcer, bridge>>

StartRecord(s) ==
  /\ up /\ starter[s] = "spawned"
  /\ \E known \in Answers(proc = "alive") : Write("running", known)
  /\ handle' = TRUE
  /\ Go(s, "idle")
  /\ UNCHANGED <<process, enforcer, bridge>>

-----------------------------------------------------------------------------
(* status, and the process itself.                                         *)

Poll ==
  /\ up /\ status # "absent"
  /\ Refresh
  /\ UNCHANGED <<process, memory, bridge>>

Exit ==
  /\ proc = "alive"
  /\ proc' = "dead"
  /\ UNCHANGED <<record, spawns, doomed, memory, bridge>>

(* _monitor ends: the process is gone, or its timeout passed and it was    *)
(* killed.  A timeout is recorded as completed, even during a cancellation. *)
MonitorSettles(timedOut) ==
  /\ up /\ handle /\ proc = "dead"
  /\ status' = IF cancel /\ ~timedOut THEN "cancelled" ELSE "completed"
  /\ handle' = FALSE
  /\ UNCHANGED <<details, process, starter, enforcer, bridge>>

-----------------------------------------------------------------------------
(* cancel and _enforce_cancel.                                             *)

(* A record without a pid becomes "cancelling" before int(None) raises.    *)
Cancel(c) ==
  /\ up /\ status # "absent" /\ enforcer[c] = "idle"
  /\ \E same \in Same :
       IF Refreshed(same) \in Open
       THEN /\ status' = "cancelling" /\ cancel' = TRUE
            /\ enforcer' = IF ~pid THEN enforcer
                 ELSE [enforcer EXCEPT ![c] = IF handle THEN "attached" ELSE "detached"]
       ELSE status' = Refreshed(same) /\ UNCHANGED <<cancel, enforcer>>
  /\ UNCHANGED <<pid, identity, process, handle, starter, bridge>>

(* SIGKILL, if the process is known to be the one of this job.             *)
Kill(c) ==
  \E same \in Same :
    doomed' = (doomed \/ (proc = "alive" /\ (enforcer[c] = "attached" \/ same)))

KillOnly(c) ==                  \* a mutant of EnforceKill: a monitor will settle it
  /\ up /\ enforcer[c] \in {"attached", "detached"}
  /\ Kill(c)
  /\ enforcer' = [enforcer EXCEPT ![c] = "idle"]
  /\ UNCHANGED <<record, proc, spawns, handle, starter, bridge>>

(* The grace period is over, or the process is gone.                       *)
EnforceKill(c) ==
  /\ up /\ enforcer[c] \in {"attached", "detached"}
  /\ Kill(c)
  /\ enforcer' = [enforcer EXCEPT ![c] = IF @ = "attached" THEN "idle" ELSE "killed"]
  /\ UNCHANGED <<record, proc, spawns, handle, starter, bridge>>

(* Without a handle there is no monitor: this thread settles the record.   *)
EnforceSettle(c) ==
  /\ up /\ enforcer[c] = "killed"
  /\ doomed /\ proc = "alive" => "slow_kill" \in Faults
  /\ \E same \in Same : status' = IF same THEN "recovery_hold" ELSE "cancelled"
  /\ enforcer' = [enforcer EXCEPT ![c] = "idle"]
  /\ UNCHANGED <<details, process, handle, starter, bridge>>

-----------------------------------------------------------------------------
(* Crash, and _recover_records at the next start of the bridge.            *)

Crash ==
  /\ up /\ crashes < MaxCrashes
  /\ (\E s \in Starters : starter[s] = "spawned") => "crash_at_spawn" \in Faults
  /\ status = "cancelling" => "crash_in_cancel" \in Faults
  /\ up' = FALSE /\ crashes' = crashes + 1
  /\ handle' = FALSE
  /\ starter' = [s \in Starters |-> "idle"]
  /\ enforcer' = [c \in Cancels |-> "idle"]
  /\ UNCHANGED <<record, process>>

(* A hold without a pid has no identity: a second restart interrupts it.   *)
Recovered(same) ==
  IF status = "dispatching" THEN "recovery_hold"
  ELSE IF status \in {"running", "orphan_running", "recovery_hold"}
  THEN IF same THEN "orphan_running" ELSE "interrupted"
  ELSE IF status = "cancelling" /\ ~same THEN "cancelled"
  ELSE status

Restart ==
  /\ ~up
  /\ up' = TRUE
  /\ \E same \in Same : status' = Recovered(same)
  /\ UNCHANGED <<details, process, memory, crashes>>

-----------------------------------------------------------------------------
BridgeInit ==
  /\ status = "absent" /\ pid = FALSE /\ identity = FALSE /\ cancel = FALSE
  /\ proc = "none" /\ spawns = 0 /\ doomed = FALSE
  /\ handle = FALSE
  /\ starter = [s \in Starters |-> "idle"]
  /\ enforcer = [c \in Cancels |-> "idle"]
  /\ up = TRUE /\ crashes = 0

Starting(s)  == StartCheck(s) \/ StartMark(s) \/ Popen(s) \/ PopenFails(s) \/ StartRecord(s)
Enforcing(c) == EnforceKill(c) \/ EnforceSettle(c)
Settling     == \E timedOut \in BOOLEAN : MonitorSettles(timedOut)

BridgeNext ==
  \/ \E s \in Starters : Starting(s)
  \/ \E c \in Cancels : Cancel(c) \/ Enforcing(c)
  \/ Poll \/ Exit \/ Settling \/ Crash \/ Restart

BridgeSpec == BridgeInit /\ [][BridgeNext]_bridgeVars

(* The threads of a bridge that runs are scheduled, a killed process ends,  *)
(* the control plane keeps polling, and launchd (KeepAlive) starts a bridge *)
(* that died again.  Nobody has to cancel, and a process need not end by    *)
(* itself.                                                                  *)
BridgeFairness ==
  /\ \A c \in Cancels : WF_bridgeVars(Enforcing(c))
  /\ \A s \in Starters : WF_bridgeVars(starter[s] # "idle" /\ Starting(s))
  /\ WF_bridgeVars(Settling)
  /\ WF_bridgeVars(Poll)
  /\ WF_bridgeVars(Restart)
  /\ WF_bridgeVars(doomed /\ Exit)

FairBridgeSpec == BridgeSpec /\ BridgeFairness

-----------------------------------------------------------------------------
(* Properties.                                                             *)

BridgeTypeOK ==
  /\ status \in {"absent"} \cup Open \cup Final
  /\ pid \in BOOLEAN /\ identity \in BOOLEAN /\ cancel \in BOOLEAN
  /\ proc \in {"none", "alive", "dead"}
  /\ spawns \in Nat
  /\ doomed \in BOOLEAN
  /\ handle \in BOOLEAN
  /\ starter \in [Starters -> {"idle", "validated", "marked", "spawned"}]
  /\ enforcer \in [Cancels -> {"idle", "attached", "detached", "killed"}]
  /\ up \in BOOLEAN
  /\ crashes \in Nat

(* At most one process is ever started for a job id, however many requests  *)
(* to start it race and however often the bridge crashes between the marker *)
(* and the pid.                                                             *)
OneProcess == spawns <= 1

(* A final record means that no process of the job runs, nor will: the      *)
(* control plane may dispatch the next job of the task.                     *)
FinalMeansGone ==
  status \in Final =>
    /\ proc # "alive"
    /\ \A s \in Starters : starter[s] \notin {"marked", "spawned"}

(* The record implements the promise of the host to the control plane.      *)
Promise == INSTANCE HostJob WITH
  view <- IF status = "absent" THEN "absent"
          ELSE IF status \in Open THEN "open" ELSE "final"

KeepsPromise == Promise!JobSpec

(* A verdict is given once: the monitor, the refresh of a poll, a restart   *)
(* and any number of enforcement threads never overwrite a final record.    *)
VerdictStays == [][(status \in Final) => UNCHANGED record]_record

(* A cancellation that was acknowledged with a pid is not forgotten.        *)
CancelKept == [][cancel /\ pid => cancel']_record

(* When a cancellation was acknowledged with a pid, or the process of a job *)
(* is gone, the record becomes final, so its task goes on: whether or not   *)
(* the process obeys SIGTERM, and for an orphan of an earlier bridge too.   *)
JobSettles == pid /\ (cancel \/ proc = "dead") ~> status \in Final
=============================================================================
