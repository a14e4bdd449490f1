------------------------------ MODULE Sessions ------------------------------
(***************************************************************************)
(* Whose session a run resumes, and whose report is taken: the tasks of    *)
(* one role, which share its worker.                                       *)
(*                                                                         *)
(*  - A task has an active role instance, bound to its physical session by *)
(*    a session binding, and a row of task_sessions.  Each has a           *)
(*    generation; so has the worker of the role.                           *)
(*  - A driver makes sure of the instance, looks whether the task may be   *)
(*    dispatched, claims, prepares the Host Job with the generation of the *)
(*    task, and starts it with the external session of the task.           *)
(*  - A caller (the scheduler that falls back to another provider, or an   *)
(*    operator that uses a grant) replaces the instance, and then switches *)
(*    the provider or resumes the task.                                    *)
(*  - A report of the host is recorded only if the worker, the task and    *)
(*    the binding have the generation of its job.                          *)
(*                                                                         *)
(* Every transaction is a step, and whoever takes several may stop between *)
(* them.  The role is permanent, so its worker and its bindings are never  *)
(* archived, and a driver keeps its lease while it works.                  *)
(***************************************************************************)
EXTENDS Naturals

CONSTANTS
  Tasks,      \* tasks of the role
  Providers,
  MaxSpec,    \* bound of the model: specification revisions of one task
  MaxGen      \* bound of the model: generations

VARIABLES
  task,       \* rows of tasks; "running": active, "stopped": suspended or for a
              \* person, "done": terminal; bound: worker_id names the worker
  reads,      \* those whose read of a task still has its revision
  instance,   \* the active instance with its binding; generation 0: none
  session,    \* rows of task_sessions; generation 0: none
  worker,     \* the worker of the role and whom it serves; generation 0: none
  driver,     \* what the driver of a task read of it
  caller,     \* who replaces the session of a task, for the provider "to"
  job         \* the Host Job of a task that is not consumed

sessionVars == <<task, reads, instance, session, worker, driver, caller, job>>

None   == <<>>                               \* no external session
Opened == Tasks \X Nat \X Providers          \* by a job of a task, of a generation

NoDriver == [pc |-> "idle", spec |-> 0, provider |-> {}]
NoCaller == [pc |-> "idle", spec |-> 0, to |-> {}]
NoJob    == [pc |-> "none", gen |-> 0, provider |-> {}, external |-> None, known |-> None]

(* Columns that a COALESCE keeps.                                          *)
Coalesce(new, old) == IF new = None THEN old ELSE new

-----------------------------------------------------------------------------
(* The instance of a task.                                                 *)

(* create_for_task and bind_session; the row of task_sessions is made, or  *)
(* gets the generation, and its external session stays.                    *)
Bind(t, spec, provider, gen) ==
  /\ instance' = [instance EXCEPT ![t] =
                    [spec |-> spec, provider |-> provider, gen |-> gen, external |-> None]]
  /\ session' = [session EXCEPT ![t].gen = gen]

(* replace_instance_for_amend: the worker that the task had last gets the  *)
(* generation of the task, whomever it serves.                             *)
Replace(t, spec, provider) ==
  LET gen == instance[t].gen + 1
  IN /\ gen <= MaxGen
     /\ Bind(t, spec, provider, gen)
     /\ worker' = IF session[t].held THEN [worker EXCEPT !.gen = gen, !.external = None]
                  ELSE worker

Release(t) == worker.serves \ {t}

(* A new revision of the task: nobody's read is good any longer.           *)
Revised(t, row) ==
  /\ task' = [task EXCEPT ![t] = row]
  /\ reads' = [reads EXCEPT ![t] = {}]

-----------------------------------------------------------------------------
(* drive.                                                                  *)

DriverReads(t) ==
  /\ driver[t].pc = "idle" /\ task[t].status = "ready"
  /\ driver' = [driver EXCEPT ![t] =
                  [pc |-> "read", spec |-> task[t].spec, provider |-> {task[t].provider}]]
  /\ reads' = [reads EXCEPT ![t] = @ \cup {"driver"}]
  /\ UNCHANGED <<task, instance, session, worker, caller, job>>

DriverTo(t, pc) == driver' = [driver EXCEPT ![t].pc = pc]

(* ensure_for_task, with the revision that was read.                       *)
Ensure(t) ==
  /\ driver[t].pc = "read"
  /\ \E p \in driver[t].provider :
       \/ /\ instance[t].gen = 0
          /\ Bind(t, driver[t].spec, p, 1) /\ UNCHANGED worker
       \/ /\ instance[t].gen # 0 /\ instance[t].spec # driver[t].spec
          /\ Replace(t, driver[t].spec, p)
       \/ /\ instance[t].gen # 0 /\ instance[t].spec = driver[t].spec
          /\ UNCHANGED <<instance, session, worker>>
  /\ DriverTo(t, "ensured")
  /\ UNCHANGED <<task, reads, caller, job>>

RequireDispatchable(t) ==
  /\ driver[t].pc = "ensured"
  /\ instance[t].spec = driver[t].spec /\ {instance[t].provider} = driver[t].provider
  /\ DriverTo(t, "checked")
  /\ UNCHANGED <<task, reads, instance, session, worker, caller, job>>

(* The worker of the role is made by the first claim.                      *)
Claim(t) ==
  /\ driver[t].pc = "checked" /\ "driver" \in reads[t] /\ task[t].status = "ready"
  /\ \/ worker.gen = 0
     \/ worker.serves = {} /\ worker.provider = task[t].provider
  /\ worker' = IF worker.gen = 0
               THEN [gen |-> 1, provider |-> task[t].provider, external |-> None, serves |-> {t}]
               ELSE [worker EXCEPT !.serves = {t}]
  /\ session' = [session EXCEPT ![t].held = TRUE]
  /\ Revised(t, [task[t] EXCEPT !.status = "running", !.bound = TRUE])
  /\ DriverTo(t, "claimed")
  /\ UNCHANGED <<instance, caller, job>>

Prepare(t) ==
  /\ driver[t].pc = "claimed" /\ job[t].pc = "none"
  /\ job' = [job EXCEPT ![t] = [NoJob EXCEPT !.pc = "prepared", !.gen = session[t].gen,
                                             !.provider = driver[t].provider]]
  /\ DriverTo(t, "prepared")
  /\ UNCHANGED <<task, reads, instance, session, worker, caller>>

(* start_task_job: the process resumes the session of the task, or opens   *)
(* one of its own.                                                         *)
Start(t) ==
  /\ driver[t].pc = "prepared" /\ job[t].pc = "prepared"
  /\ \E p \in job[t].provider :
       job' = [job EXCEPT ![t].pc = "started",
                 ![t].external = Coalesce(session[t].external, <<t, job[t].gen, p>>)]
  /\ driver' = [driver EXCEPT ![t] = NoDriver]
  /\ UNCHANGED <<task, reads, instance, session, worker, caller>>

(* The driver is refused, or dies; a task that it has claimed stays so.    *)
DriverStops(t) ==
  /\ driver[t].pc # "idle"
  /\ driver' = [driver EXCEPT ![t] = NoDriver]
  /\ UNCHANGED <<task, reads, instance, session, worker, caller, job>>

-----------------------------------------------------------------------------
(* The reports of the host, and the end of a run.                          *)

(* record writes when every row has the generation of the job.             *)
Taken(t, known) ==
  /\ worker.gen = job[t].gen /\ session[t].gen = job[t].gen
  /\ known # None => instance[t].gen = job[t].gen

Record(t) ==
  /\ job[t].pc = "started"
  /\ \E known \in {None, job[t].external} :
       /\ Taken(t, known)
       /\ job' = [job EXCEPT ![t].known = Coalesce(known, @)]
       /\ worker' = [worker EXCEPT !.external = Coalesce(known, @)]
       /\ session' = [session EXCEPT ![t].external = Coalesce(known, @), ![t].held = TRUE]
       /\ instance' = [instance EXCEPT ![t].external = Coalesce(known, @)]
  /\ UNCHANGED <<task, reads, driver, caller>>

EndRun(t, targets, bound) ==
  /\ \E s \in targets :
       Revised(t, [task[t] EXCEPT !.status = s, !.bound = bound])
  /\ job' = [job EXCEPT ![t] = NoJob]
  /\ UNCHANGED <<driver, caller>>

(* finish, of work that is verified: the last report was taken.            *)
Finish(t) ==
  /\ job[t].pc = "started" /\ task[t].status = "running" /\ Taken(t, job[t].external)
  /\ worker' = [worker EXCEPT !.serves = Release(t)]
  /\ EndRun(t, {"ready", "stopped", "done"}, TRUE)
  /\ UNCHANGED <<instance, session>>

(* finalize_host_fault: the last report was taken, or the host gave none   *)
(* until the deadline, or refused the job.  The session that is known is   *)
(* kept, of whatever generation.                                           *)
HostFault(t) ==
  /\ job[t].pc # "none" /\ task[t].status = "running" /\ driver[t].pc = "idle"
  /\ \E known \in {job[t].known} \cup {e \in {job[t].external} : Taken(t, e)} :
       /\ session' = [session EXCEPT ![t].external = Coalesce(known, @)]
       /\ worker' = [worker EXCEPT !.external = Coalesce(known, @), !.serves = Release(t)]
  /\ EndRun(t, {"ready", "stopped"}, FALSE)
  /\ UNCHANGED instance

(* The same with a replacement: _rotate_task_session, which misses the     *)
(* worker that has just been released, then rotate_worker_in_transaction.  *)
HostFaultRotates(t) ==
  /\ job[t].pc = "started" /\ task[t].status = "running" /\ Taken(t, job[t].external)
  /\ session[t].gen < MaxGen /\ worker.gen < MaxGen
  /\ session' = [session EXCEPT ![t].gen = @ + 1, ![t].external = None]
  /\ instance' = [instance EXCEPT ![t].gen = session[t].gen + 1, ![t].external = None]
  /\ worker' = [worker EXCEPT !.gen = @ + 1, !.external = None, !.serves = Release(t)]
  /\ EndRun(t, {"ready", "stopped"}, FALSE)

(* Recovery takes a claimed task that has no driver and no job.            *)
Recover(t) ==
  /\ task[t].status = "running" /\ driver[t].pc = "idle" /\ job[t].pc = "none"
  /\ worker' = [worker EXCEPT !.serves = Release(t)]
  /\ EndRun(t, {"ready", "stopped"}, FALSE)
  /\ UNCHANGED <<instance, session>>

-----------------------------------------------------------------------------
(* Operators and the scheduler.                                            *)

Amend(t) ==
  /\ task[t].status # "running" /\ task[t].spec < MaxSpec
  /\ Revised(t, [task[t] EXCEPT !.status = "ready", !.spec = @ + 1])
  /\ UNCHANGED <<instance, session, worker, driver, caller, job>>

(* A switch to provider p, or a new session of the provider of the task,   *)
(* whatever its status.                                                    *)
CallerReads(t, p) ==
  /\ caller[t].pc = "idle"
  /\ caller' = [caller EXCEPT ![t] = [pc |-> "read", spec |-> task[t].spec, to |-> {p}]]
  /\ reads' = [reads EXCEPT ![t] = @ \cup {"caller"}]
  /\ UNCHANGED <<task, instance, session, worker, driver, job>>

CallerReplaces(t) ==
  /\ caller[t].pc = "read" /\ instance[t].gen # 0
  /\ \E p \in caller[t].to : Replace(t, caller[t].spec, p)
  /\ caller' = [caller EXCEPT ![t].pc = "replaced"]
  /\ UNCHANGED <<task, reads, driver, job>>

MayChange(t) ==
  /\ caller[t].pc = "replaced" \/ (caller[t].pc = "read" /\ instance[t].gen = 0)
  /\ "caller" \in reads[t] /\ task[t].status \in {"ready", "stopped"}
  /\ caller' = [caller EXCEPT ![t] = NoCaller]

(* switch_provider of the repository: the worker follows if the task still *)
(* names it.                                                               *)
CallerSwitches(t) ==
  /\ MayChange(t) /\ caller[t].to # {task[t].provider}
  /\ \E p \in caller[t].to :
       /\ Revised(t, [task[t] EXCEPT !.provider = p, !.status = "ready"])
       /\ worker' = IF task[t].bound THEN [worker EXCEPT !.provider = p, !.external = None]
                    ELSE worker
  /\ UNCHANGED <<instance, session, driver, job>>

CallerResumes(t) ==
  /\ MayChange(t) /\ caller[t].pc = "replaced"
  /\ caller[t].to = {task[t].provider} /\ task[t].status = "stopped"
  /\ Revised(t, [task[t] EXCEPT !.status = "ready"])
  /\ UNCHANGED <<instance, session, worker, driver, job>>

CallerStops(t) ==
  /\ caller[t].pc # "idle"
  /\ caller' = [caller EXCEPT ![t] = NoCaller]
  /\ UNCHANGED <<task, reads, instance, session, worker, driver, job>>

(* rotate_worker, and rebind_worker to another provider, of an idle worker. *)
RotateWorker(p) ==
  /\ worker.gen \in 1..(MaxGen - 1) /\ worker.serves = {}
  /\ worker' = [worker EXCEPT !.gen = @ + 1, !.provider = p, !.external = None]
  /\ UNCHANGED <<task, reads, instance, session, driver, caller, job>>

-----------------------------------------------------------------------------
SessionInit ==
  /\ task \in [Tasks -> [status : {"ready"}, spec : {1}, provider : Providers, bound : {FALSE}]]
  /\ reads = [t \in Tasks |-> {}]
  /\ instance \in [Tasks -> [spec : {0}, provider : Providers, gen : {0}, external : {None}]]
  /\ session = [t \in Tasks |-> [gen |-> 0, external |-> None, held |-> FALSE]]
  /\ worker \in [gen : {0}, provider : Providers, external : {None}, serves : {{}}]
  /\ driver = [t \in Tasks |-> NoDriver] /\ caller = [t \in Tasks |-> NoCaller]
  /\ job = [t \in Tasks |-> NoJob]

SessionNext ==
  \/ \E t \in Tasks :
       \/ DriverReads(t) \/ Ensure(t) \/ RequireDispatchable(t) \/ Claim(t)
       \/ Prepare(t) \/ Start(t) \/ DriverStops(t)
       \/ Record(t) \/ Finish(t) \/ HostFault(t) \/ HostFaultRotates(t) \/ Recover(t)
       \/ Amend(t) \/ CallerReplaces(t) \/ CallerSwitches(t) \/ CallerResumes(t)
       \/ CallerStops(t) \/ \E p \in Providers : CallerReads(t, p)
  \/ \E p \in Providers : RotateWorker(p)

SessionSpec == SessionInit /\ [][SessionNext]_sessionVars

-----------------------------------------------------------------------------
(* Properties.                                                             *)

SessionTypeOK ==
  /\ task \in [Tasks -> [status : {"ready", "running", "stopped", "done"}, spec : Nat,
                         provider : Providers, bound : BOOLEAN]]
  /\ reads \in [Tasks -> SUBSET {"driver", "caller"}]
  /\ instance \in [Tasks -> [spec : Nat, provider : Providers, gen : Nat,
                             external : Opened \cup {None}]]
  /\ session \in [Tasks -> [gen : Nat, external : Opened \cup {None}, held : BOOLEAN]]
  /\ worker \in [gen : Nat, provider : Providers, external : Opened \cup {None},
                 serves : SUBSET Tasks]
  /\ driver \in [Tasks -> [pc : {"idle", "read", "ensured", "checked", "claimed", "prepared"},
                           spec : Nat, provider : SUBSET Providers]]
  /\ caller \in [Tasks -> [pc : {"idle", "read", "replaced"}, spec : Nat,
                           to : SUBSET Providers]]
  /\ job \in [Tasks -> [pc : {"none", "prepared", "started"}, gen : Nat,
                        provider : SUBSET Providers,
                        external : Opened \cup {None}, known : Opened \cup {None}]]

(* The binding of a task has the generation of its row in task_sessions,   *)
(* whatever replaced or rotated it: otherwise record would take the report *)
(* and then raise at the binding.                                          *)
BindingFollows == \A t \in Tasks : instance[t].gen = session[t].gen

(* No run resumes the session of another task, although the tasks of a     *)
(* role share its worker, on which the last external session is written.   *)
SessionsOwned ==
  \A t \in Tasks :
    \A e \in {session[t].external, instance[t].external, job[t].external, job[t].known} :
      e # None => e[1] = t

(* A report that is stale stays stale: no replacement, rotation, amendment  *)
(* or fault brings back the generation of an older job.                    *)
StaleStaysStale ==
  [][\A t \in Tasks :
       job[t].pc # "none" /\ job'[t].pc # "none" /\ job[t].gen # session[t].gen
         => job'[t].gen # session'[t].gen]_sessionVars

(* After a rotation the successor takes over: what the host reports of a   *)
(* job of the current generation of its task is recorded.                  *)
SuccessorTakesOver ==
  \A t \in Tasks :
    job[t].pc = "started" /\ job[t].gen = session[t].gen => Taken(t, job[t].external)
=============================================================================
