--------------------------- MODULE SessionsProofs ---------------------------
(***************************************************************************)
(* What holds of the sessions of a role, for any tasks and providers and   *)
(* any number of generations.                                              *)
(*                                                                         *)
(* A generation only grows, because the next one is counted from the       *)
(* binding, and the binding has the generation of the task session.  A job *)
(* takes the generation of its time, so it is never ahead of its task; one *)
(* that has fallen behind stays behind.                                    *)
(***************************************************************************)
EXTENDS Sessions, TLAPS

External    == Opened \cup {None}
TaskRow     == [status : {"ready", "running", "stopped", "done"}, spec : Nat,
                provider : Providers, bound : BOOLEAN]
InstanceRow == [spec : Nat, provider : Providers, gen : Nat, external : External]
SessionRow  == [gen : Nat, external : External, held : BOOLEAN]
WorkerRow   == [gen : Nat, provider : Providers, external : External, serves : SUBSET Tasks]
DriverRow   == [pc : {"idle", "read", "ensured", "checked", "claimed", "prepared"},
                spec : Nat, provider : SUBSET Providers]
CallerRow   == [pc : {"idle", "read", "replaced"}, spec : Nat, to : SUBSET Providers]
JobRow      == [pc : {"none", "prepared", "started"}, gen : Nat, provider : SUBSET Providers,
                external : External, known : External]

(* No job is ahead of the session of its task.                             *)
JobNotAhead == \A t \in Tasks : job[t].pc # "none" => job[t].gen <= session[t].gen

SessionInv == SessionTypeOK /\ BindingFollows /\ SessionsOwned /\ JobNotAhead

(* A session that a task may know.                                         *)
OwnedBy(t) == {e \in External : e # None => e[1] = t}

-----------------------------------------------------------------------------
LEMMA OwnedTyped ==
  ASSUME NEW t \in Tasks
  PROVE  /\ None \in OwnedBy(t)
         /\ \A g \in Nat, p \in Providers : <<t, g, p>> \in OwnedBy(t)
         /\ \A e, f \in OwnedBy(t) : Coalesce(e, f) \in OwnedBy(t)
         /\ OwnedBy(t) \subseteq External
  BY DEF OwnedBy, External, Opened, None, Coalesce

(* What the invariant says of the rows of one task.                        *)
Sound(t) ==
  /\ instance[t].gen = session[t].gen
  /\ {session[t].external, instance[t].external, job[t].external, job[t].known}
       \subseteq OwnedBy(t)
  /\ job[t].pc # "none" => job[t].gen <= session[t].gen

Typed ==
  /\ task \in [Tasks -> TaskRow] /\ reads \in [Tasks -> SUBSET {"driver", "caller"}]
  /\ instance \in [Tasks -> InstanceRow] /\ session \in [Tasks -> SessionRow]
  /\ worker \in WorkerRow
  /\ driver \in [Tasks -> DriverRow] /\ caller \in [Tasks -> CallerRow]
  /\ job \in [Tasks -> JobRow]

LEMMA InvRows == SessionInv <=> Typed /\ \A t \in Tasks : Sound(t)
  BY DEF SessionInv, SessionTypeOK, BindingFollows, SessionsOwned, JobNotAhead, Typed, Sound,
         OwnedBy, External, TaskRow, InstanceRow, SessionRow, WorkerRow, DriverRow, CallerRow, JobRow

LEMMA InvRowsNext == SessionInv' <=> Typed' /\ \A t \in Tasks : Sound(t)'
  BY DEF SessionInv, SessionTypeOK, BindingFollows, SessionsOwned, JobNotAhead, Typed, Sound,
         OwnedBy, External, TaskRow, InstanceRow, SessionRow, WorkerRow, DriverRow, CallerRow, JobRow

LEMMA NoneTyped == None \in External  BY DEF External

(* The rows of the other tasks stay as they are.                           *)
Others(t) ==
  \A u \in Tasks \ {t} :
    instance'[u] = instance[u] /\ session'[u] = session[u] /\ job'[u] = job[u]

LEMMA OneTask ==
  ASSUME SessionInv, NEW t \in Tasks, Typed', Sound(t)', Others(t)
  PROVE  SessionInv'
<1>1. ASSUME NEW u \in Tasks PROVE Sound(u)'
  <2>1. CASE u = t  BY <2>1
  <2>2. CASE u # t  BY <2>2, InvRows DEF Others, Sound, OwnedBy
  <2> QED BY <2>1, <2>2
<1> QED BY <1>1, InvRowsNext

LEMMA SessionStarts == SessionInit => SessionInv
<1> SUFFICES ASSUME SessionInit PROVE Typed /\ \A t \in Tasks : Sound(t)
  BY InvRows
<1>1. Typed
  <2>1. task \in [Tasks -> TaskRow] /\ reads \in [Tasks -> SUBSET {"driver", "caller"}]
    <3> DEFINE Statuses == {"ready", "running", "stopped", "done"}
               Rows == [status : {"ready"}, spec : {1}, provider : Providers, bound : {FALSE}]
    <3>1. Rows \subseteq TaskRow
      <4>1. {FALSE} \subseteq BOOLEAN /\ {1} \subseteq Nat /\ {"ready"} \subseteq Statuses  OBVIOUS
      <4> QED BY <4>1, Zenon DEF TaskRow
    <3>2. task \in [Tasks -> Rows] /\ reads = [t \in Tasks |-> {}]  BY DEF SessionInit
    <3> HIDE DEF Rows
    <3> QED BY <3>1, <3>2
  <2>2. instance \in [Tasks -> InstanceRow]  BY NoneTyped DEF SessionInit, InstanceRow
  <2>3. session \in [Tasks -> SessionRow]  BY NoneTyped DEF SessionInit, SessionRow
  <2>4. worker \in WorkerRow  BY NoneTyped DEF SessionInit, WorkerRow
  <2>5. driver \in [Tasks -> DriverRow] /\ caller \in [Tasks -> CallerRow]
    BY DEF SessionInit, NoDriver, NoCaller, DriverRow, CallerRow
  <2>6. job \in [Tasks -> JobRow]  BY NoneTyped DEF SessionInit, NoJob, JobRow
  <2> QED BY <2>1, <2>2, <2>3, <2>4, <2>5, <2>6 DEF Typed
<1>2. ASSUME NEW t \in Tasks PROVE Sound(t)
  BY OwnedTyped DEF SessionInit, Sound, NoJob
<1> QED BY <1>1, <1>2

-----------------------------------------------------------------------------
(* Steps that leave the instances, the task sessions and the jobs alone.   *)
LEMMA OtherStep ==
  ASSUME SessionInv, UNCHANGED <<instance, session, job>>,
         task' \in [Tasks -> TaskRow], reads' \in [Tasks -> SUBSET {"driver", "caller"}],
         worker' \in WorkerRow, driver' \in [Tasks -> DriverRow],
         caller' \in [Tasks -> CallerRow]
  PROVE  SessionInv'
<1>1. Typed' /\ \A t \in Tasks : Sound(t)'  BY InvRows DEF Typed, Sound, OwnedBy
<1> QED BY <1>1, InvRowsNext

(* Bind and Replace give the task a generation that is not smaller.        *)
LEMMA BindStep ==
  ASSUME SessionInv, NEW t \in Tasks, NEW n \in Nat, NEW p \in Providers, NEW g \in Nat,
         Bind(t, n, p, g), session[t].gen <= g,
         worker' \in WorkerRow, driver' \in [Tasks -> DriverRow],
         caller' \in [Tasks -> CallerRow], UNCHANGED <<task, reads, job>>
  PROVE  SessionInv'
<1>0. Typed /\ Sound(t)  BY InvRows
<1>1. Typed'
  BY <1>0, OwnedTyped DEF Bind, Typed, InstanceRow, SessionRow
<1>2. Sound(t)'
  BY <1>0, OwnedTyped DEF Bind, Typed, Sound, InstanceRow, SessionRow, JobRow, OwnedBy
<1>3. Others(t)  BY <1>0 DEF Bind, Others, Typed
<1> QED BY <1>1, <1>2, <1>3, OneTask

LEMMA ReplaceStep ==
  ASSUME SessionInv, NEW t \in Tasks, NEW n \in Nat, NEW p \in Providers, Replace(t, n, p),
         driver' \in [Tasks -> DriverRow], caller' \in [Tasks -> CallerRow],
         UNCHANGED <<task, reads, job>>
  PROVE  SessionInv'
<1>0. Typed /\ Sound(t)  BY InvRows
<1>1. session[t].gen \in Nat /\ instance[t].gen = session[t].gen
  BY <1>0 DEF Typed, Sound, SessionRow
<1> DEFINE g == instance[t].gen + 1
           new == [worker EXCEPT !.gen = g, !.external = None]
<1>a. worker' = new \/ worker' = worker  BY DEF Replace
<1>b. g \in Nat /\ worker \in WorkerRow  BY <1>0, <1>1 DEF Typed
<1> HIDE DEF g
<1>c. new \in WorkerRow  BY <1>b, NoneTyped DEF WorkerRow
<1> USE DEF g
<1>2. worker' \in WorkerRow  BY <1>a, <1>b, <1>c
<1>3. Bind(t, n, p, instance[t].gen + 1)  BY DEF Replace
<1> QED BY <1>1, <1>2, <1>3, BindStep

-----------------------------------------------------------------------------
(* The driver.                                                             *)
LEMMA DriverStep ==
  ASSUME SessionInv, NEW t \in Tasks,
         \/ DriverReads(t) \/ Ensure(t) \/ RequireDispatchable(t) \/ Claim(t)
         \/ Prepare(t) \/ Start(t) \/ DriverStops(t)
  PROVE  SessionInv'
<1>0. Typed /\ Sound(t)  BY InvRows
<1>1. CASE DriverReads(t)
  <2>1. driver' \in [Tasks -> DriverRow]
    BY <1>0, <1>1 DEF DriverReads, Typed, DriverRow, TaskRow
  <2> QED BY <1>0, <1>1, <2>1, OtherStep DEF DriverReads, Typed
<1>2. CASE Ensure(t)
  <2>1. driver' \in [Tasks -> DriverRow]
    BY <1>0, <1>2 DEF Ensure, DriverTo, Typed, DriverRow
  <2>2. driver[t].spec \in Nat /\ driver[t].provider \subseteq Providers
    BY <1>0 DEF Typed, DriverRow
  <2>3. UNCHANGED <<task, reads, caller, job>>  BY <1>2 DEF Ensure
  <2>4. PICK p \in driver[t].provider :
          \/ /\ instance[t].gen = 0
             /\ Bind(t, driver[t].spec, p, 1) /\ UNCHANGED worker
          \/ Replace(t, driver[t].spec, p)
          \/ UNCHANGED <<instance, session, worker>>
    BY <1>2 DEF Ensure
  <2>5. CASE instance[t].gen = 0 /\ Bind(t, driver[t].spec, p, 1) /\ UNCHANGED worker
    <3>1. session[t].gen <= 1  BY <1>0, <2>5 DEF Sound
    <3>2. caller' \in [Tasks -> CallerRow] /\ worker' \in WorkerRow
      BY <1>0, <2>3, <2>5 DEF Typed
    <3> QED BY <2>1, <2>2, <2>3, <2>5, <3>1, <3>2, BindStep
  <2>6. CASE Replace(t, driver[t].spec, p)
    BY <1>0, <2>1, <2>2, <2>3, <2>6, ReplaceStep DEF Typed
  <2>7. CASE UNCHANGED <<instance, session, worker>>
    BY <1>0, <2>1, <2>3, <2>7, OtherStep DEF Typed
  <2> QED BY <2>4, <2>5, <2>6, <2>7
<1>3. CASE RequireDispatchable(t) \/ DriverStops(t)
  <2>1. PICK row \in DriverRow : driver' = [driver EXCEPT ![t] = row]
    <3>1. CASE RequireDispatchable(t)
      <4>1. driver' = [driver EXCEPT ![t] = [driver[t] EXCEPT !.pc = "checked"]]
        BY <3>1 DEF RequireDispatchable, DriverTo
      <4>2. driver[t] \in DriverRow  BY <1>0 DEF Typed
      <4>3. [driver[t] EXCEPT !.pc = "checked"] \in DriverRow  BY <4>2 DEF DriverRow
      <4> QED BY <4>1, <4>3
    <3>2. CASE DriverStops(t)
      <4>1. driver' = [driver EXCEPT ![t] = NoDriver]  BY <3>2 DEF DriverStops
      <4>2. NoDriver \in DriverRow  BY DEF NoDriver, DriverRow
      <4> QED BY <4>1, <4>2
    <3> QED BY <1>3, <3>1, <3>2
  <2>2. driver' \in [Tasks -> DriverRow]  BY <1>0, <2>1 DEF Typed
  <2> QED BY <1>0, <1>3, <2>2, OtherStep DEF RequireDispatchable, DriverStops, Typed
<1>4. CASE Claim(t)
  <2>1. /\ session' = [session EXCEPT ![t].held = TRUE]
        /\ UNCHANGED <<instance, caller, job>>
    BY <1>4 DEF Claim
  <2>2. Typed'
    <3>1. task' \in [Tasks -> TaskRow] /\ reads' \in [Tasks -> SUBSET {"driver", "caller"}]
      BY ZenonT(60), <1>0, <1>4 DEF Claim, Revised, Typed, TaskRow
    <3>2. worker' \in WorkerRow
      BY <1>0, <1>4, OwnedTyped DEF Claim, Typed, TaskRow, WorkerRow
    <3>3. driver' \in [Tasks -> DriverRow]
      BY <1>0, <1>4 DEF Claim, DriverTo, Typed, DriverRow
    <3>4. session' \in [Tasks -> SessionRow]
      BY <1>0, <2>1 DEF Typed, SessionRow
    <3> QED BY <1>0, <2>1, <3>1, <3>2, <3>3, <3>4 DEF Typed
  <2>3. Sound(t)'  BY <1>0, <2>1 DEF Sound, Typed, SessionRow, OwnedBy
  <2>4. Others(t)  BY <1>0, <2>1 DEF Others, Typed
  <2> QED BY <2>2, <2>3, <2>4, OneTask
<1>5. CASE Prepare(t)
  <2>1. Typed'
    <3>1. job' \in [Tasks -> JobRow]
      BY <1>0, <1>5, OwnedTyped DEF Prepare, NoJob, Typed, JobRow, DriverRow, SessionRow
    <3>2. driver' \in [Tasks -> DriverRow]
      BY <1>0, <1>5 DEF Prepare, DriverTo, Typed, DriverRow
    <3> QED BY <1>0, <1>5, <3>1, <3>2 DEF Prepare, Typed
  <2>2. Sound(t)'
    BY <1>0, <1>5, OwnedTyped DEF Prepare, NoJob, Sound, Typed, SessionRow, OwnedBy
  <2>3. Others(t)  BY <1>0, <1>5 DEF Prepare, Others, Typed
  <2> QED BY <2>1, <2>2, <2>3, OneTask
<1>6. CASE Start(t)
  <2>1. PICK p \in job[t].provider :
          job' = [job EXCEPT ![t].pc = "started",
                    ![t].external = Coalesce(session[t].external, <<t, job[t].gen, p>>)]
    BY <1>6 DEF Start
  <2> DEFINE e == Coalesce(session[t].external, <<t, job[t].gen, p>>)
  <2>2. p \in Providers /\ job[t].gen \in Nat  BY <1>0 DEF Typed, JobRow
  <2>3. e \in OwnedBy(t) /\ e \in External
    BY <1>0, <2>2, OwnedTyped DEF Sound
  <2> HIDE DEF e
  <2>4. UNCHANGED <<task, reads, instance, session, worker, caller>>
        /\ driver' = [driver EXCEPT ![t] = NoDriver]
    BY <1>6 DEF Start
  <2>5. job' = [job EXCEPT ![t].pc = "started", ![t].external = e]  BY <2>1 DEF e
  <2>6. Typed'
    <3>1. job' \in [Tasks -> JobRow]  BY ZenonT(60), <1>0, <2>3, <2>5 DEF Typed, JobRow
    <3>2. driver' \in [Tasks -> DriverRow]
      BY <1>0, <2>4 DEF NoDriver, Typed, DriverRow
    <3> QED BY <1>0, <2>4, <3>1, <3>2 DEF Typed
  <2>7. job[t].pc # "none"
    BY <1>6 DEF Start
  <2>8. Sound(t)'
    BY <1>0, <2>3, <2>4, <2>5, <2>7 DEF Sound, Typed, JobRow, OwnedBy
  <2>9. Others(t)  BY <1>0, <2>4, <2>5 DEF Others, Typed
  <2> QED BY <2>6, <2>8, <2>9, OneTask
<1> QED BY <1>1, <1>2, <1>3, <1>4, <1>5, <1>6

-----------------------------------------------------------------------------
(* The reports and the ends of a run.                                      *)
LEMMA EndRunTyped ==
  ASSUME Typed, NEW t \in Tasks, NEW targets \in SUBSET {"ready", "stopped", "done"},
         NEW bound \in BOOLEAN, EndRun(t, targets, bound)
  PROVE  /\ task' \in [Tasks -> TaskRow] /\ reads' \in [Tasks -> SUBSET {"driver", "caller"}]
         /\ job' = [job EXCEPT ![t] = NoJob] /\ job' \in [Tasks -> JobRow]
         /\ UNCHANGED <<driver, caller>>
<1>1. PICK s \in targets : Revised(t, [task[t] EXCEPT !.status = s, !.bound = bound])
  BY DEF EndRun
<1>2. task' \in [Tasks -> TaskRow] /\ reads' \in [Tasks -> SUBSET {"driver", "caller"}]
  BY ZenonT(60), <1>1 DEF Revised, Typed, TaskRow
<1>3. job' \in [Tasks -> JobRow]  BY NoneTyped DEF EndRun, NoJob, Typed, JobRow
<1> QED BY <1>2, <1>3 DEF EndRun

(* The end of a run, which forgets its job and keeps the generation of the *)
(* task or counts it up.                                                   *)
LEMMA EndStep ==
  ASSUME SessionInv, NEW t \in Tasks, NEW targets \in SUBSET {"ready", "stopped", "done"},
         NEW bound \in BOOLEAN, EndRun(t, targets, bound), worker' \in WorkerRow,
         NEW old \in OwnedBy(t), NEW new \in OwnedBy(t), NEW g \in Nat,
         session' = [session EXCEPT ![t].gen = g, ![t].external = new],
         instance' = [instance EXCEPT ![t].gen = g, ![t].external = old]
  PROVE  SessionInv'
<1>0. Typed /\ Sound(t)  BY InvRows
<1>1. /\ task' \in [Tasks -> TaskRow] /\ reads' \in [Tasks -> SUBSET {"driver", "caller"}]
      /\ job' = [job EXCEPT ![t] = NoJob] /\ job' \in [Tasks -> JobRow]
      /\ UNCHANGED <<driver, caller>>
  BY <1>0, EndRunTyped
<1>2. new \in External /\ old \in External  BY OwnedTyped
<1>3. session' \in [Tasks -> SessionRow]  BY <1>0, <1>2 DEF Typed, SessionRow
<1>4. instance' \in [Tasks -> InstanceRow]  BY <1>0, <1>2 DEF Typed, InstanceRow
<1>5. Typed'  BY <1>0, <1>1, <1>3, <1>4 DEF Typed
<1>6. /\ session'[t].gen = g /\ session'[t].external = new
      /\ instance'[t].gen = g /\ instance'[t].external = old /\ job'[t] = NoJob
  BY <1>0, <1>1 DEF Typed, SessionRow, InstanceRow
<1>7. Sound(t)'
  BY <1>6, OwnedTyped DEF Sound, NoJob, OwnedBy
<1>8. Others(t)  BY <1>0, <1>1 DEF Others, Typed
<1> QED BY <1>5, <1>7, <1>8, OneTask

(* The rows of a task, written as they are.                                *)
LEMMA Unwritten ==
  ASSUME Typed, NEW t \in Tasks
  PROVE  /\ session = [session EXCEPT ![t].gen = session[t].gen,
                                      ![t].external = session[t].external]
         /\ instance = [instance EXCEPT ![t].gen = instance[t].gen,
                                        ![t].external = instance[t].external]
<1>1. session[t] = [session[t] EXCEPT !.gen = session[t].gen, !.external = session[t].external]
  BY DEF Typed, SessionRow
<1>2. instance[t] = [instance[t] EXCEPT !.gen = instance[t].gen,
                                        !.external = instance[t].external]
  BY DEF Typed, InstanceRow
<1> QED BY <1>1, <1>2 DEF Typed

LEMMA EndingsStep ==
  ASSUME SessionInv, NEW t \in Tasks,
         Finish(t) \/ HostFault(t) \/ HostFaultRotates(t) \/ Recover(t)
  PROVE  SessionInv'
<1>0. Typed /\ Sound(t)  BY InvRows
<1>1. /\ session[t].gen \in Nat /\ instance[t].gen = session[t].gen
      /\ session[t].external \in OwnedBy(t) /\ instance[t].external \in OwnedBy(t)
  BY <1>0 DEF Typed, Sound, SessionRow
<1>2. Release(t) \in SUBSET Tasks  BY <1>0 DEF Release, Typed, WorkerRow
<1>3. CASE Finish(t) \/ Recover(t)
  <2>1. worker' \in WorkerRow
    BY <1>0, <1>2, <1>3 DEF Finish, Recover, Typed, WorkerRow
  <2>2. UNCHANGED <<instance, session>>
        /\ (EndRun(t, {"ready", "stopped", "done"}, TRUE) \/ EndRun(t, {"ready", "stopped"}, FALSE))
    BY <1>3 DEF Finish, Recover
  <2>3. session' = [session EXCEPT ![t].gen = session[t].gen, ![t].external = session[t].external]
    BY <1>0, <2>2, Unwritten
  <2>4. instance' = [instance EXCEPT ![t].gen = session[t].gen,
                                     ![t].external = instance[t].external]
    BY <1>0, <1>1, <2>2, Unwritten
  <2>5. PICK targets \in SUBSET {"ready", "stopped", "done"}, bound \in BOOLEAN :
          EndRun(t, targets, bound)
    <3>1. {"ready", "stopped"} \subseteq {"ready", "stopped", "done"}  OBVIOUS
    <3> QED BY <2>2, <3>1, Zenon
  <2> QED BY <1>1, <2>1, <2>3, <2>4, <2>5, EndStep
<1>4. CASE HostFault(t)
  <2>1. PICK known \in {job[t].known} \cup {e \in {job[t].external} : Taken(t, e)} :
          /\ session' = [session EXCEPT ![t].external = Coalesce(known, @)]
          /\ worker' = [worker EXCEPT !.external = Coalesce(known, @), !.serves = Release(t)]
    BY <1>4 DEF HostFault
  <2> DEFINE new == Coalesce(known, session[t].external)
             seen == Coalesce(known, worker.external)
  <2>2. known \in OwnedBy(t)  BY <1>0 DEF Sound
  <2>3. new \in OwnedBy(t)  BY <1>1, <2>2, OwnedTyped
  <2>4. seen \in External
    BY <1>0, <2>2, OwnedTyped DEF Coalesce, Typed, WorkerRow
  <2> HIDE DEF new, seen
  <2>5. worker' \in WorkerRow
    BY <1>0, <1>2, <2>1, <2>4 DEF seen, Typed, WorkerRow
  <2>6. session' = [session EXCEPT ![t].gen = session[t].gen, ![t].external = new]
    <3>1. session' = [session EXCEPT ![t].external = new]  BY <1>0, <2>1 DEF new, Typed
    <3>2. [session[t] EXCEPT !.external = new]
            = [session[t] EXCEPT !.gen = session[t].gen, !.external = new]
      BY <1>0 DEF Typed, SessionRow
    <3> QED BY <1>0, <3>1, <3>2 DEF Typed
  <2>7. instance' = [instance EXCEPT ![t].gen = session[t].gen,
                                     ![t].external = instance[t].external]
    BY <1>0, <1>1, <1>4, Unwritten DEF HostFault
  <2>8. EndRun(t, {"ready", "stopped"}, FALSE)  BY <1>4 DEF HostFault
  <2> QED BY <1>1, <2>3, <2>5, <2>6, <2>7, <2>8, EndStep
<1>5. CASE HostFaultRotates(t)
  <2> DEFINE next == worker.gen + 1
  <2>a. next \in Nat /\ worker \in WorkerRow  BY <1>0 DEF Typed, WorkerRow
  <2>b. worker' = [worker EXCEPT !.gen = next, !.external = None, !.serves = Release(t)]
    BY <1>5 DEF HostFaultRotates
  <2> HIDE DEF next
  <2>1. worker' \in WorkerRow
    BY <1>2, <2>a, <2>b, NoneTyped DEF WorkerRow
  <2> DEFINE g == session[t].gen + 1
  <2>2. g \in Nat  BY <1>1
  <2>3. /\ session' = [session EXCEPT ![t].gen = g, ![t].external = None]
        /\ instance' = [instance EXCEPT ![t].gen = g, ![t].external = None]
    BY <1>0, <1>5 DEF HostFaultRotates, Typed
  <2>4. EndRun(t, {"ready", "stopped"}, FALSE)  BY <1>5 DEF HostFaultRotates
  <2> HIDE DEF g
  <2> QED BY <2>1, <2>2, <2>3, <2>4, OwnedTyped, EndStep
<1> QED BY <1>3, <1>4, <1>5

LEMMA RecordStep ==
  ASSUME SessionInv, NEW t \in Tasks, Record(t)
  PROVE  SessionInv'
<1>0. Typed /\ Sound(t)  BY InvRows
<1>1. PICK known \in {None, job[t].external} :
        /\ job' = [job EXCEPT ![t].known = Coalesce(known, @)]
        /\ worker' = [worker EXCEPT !.external = Coalesce(known, @)]
        /\ session' = [session EXCEPT ![t].external = Coalesce(known, @), ![t].held = TRUE]
        /\ instance' = [instance EXCEPT ![t].external = Coalesce(known, @)]
  BY DEF Record
<1>2. UNCHANGED <<task, reads, driver, caller>>  BY DEF Record
<1> DEFINE inJob      == Coalesce(known, job[t].known)
           inWorker   == Coalesce(known, worker.external)
           inSession  == Coalesce(known, session[t].external)
           inInstance == Coalesce(known, instance[t].external)
<1>3. {inJob, inSession, inInstance} \subseteq OwnedBy(t)
  <2>1. known \in OwnedBy(t)  BY <1>0, OwnedTyped DEF Sound
  <2>2. /\ job[t].known \in OwnedBy(t) /\ session[t].external \in OwnedBy(t)
        /\ instance[t].external \in OwnedBy(t)
    BY <1>0 DEF Sound
  <2> QED BY <2>1, <2>2, OwnedTyped
<1>4. inWorker \in External
  <2>1. known \in External  BY <1>0, OwnedTyped DEF Sound
  <2> QED BY <1>0, <2>1 DEF Coalesce, Typed, WorkerRow
<1>5. /\ job' = [job EXCEPT ![t].known = inJob]
      /\ worker' = [worker EXCEPT !.external = inWorker]
      /\ instance' = [instance EXCEPT ![t].external = inInstance]
      /\ session' = [session EXCEPT ![t].external = inSession, ![t].held = TRUE]
  <2>1. job' = [job EXCEPT ![t].known = inJob]  BY <1>1
  <2>2. worker' = [worker EXCEPT !.external = inWorker]  BY <1>1
  <2>3. instance' = [instance EXCEPT ![t].external = inInstance]  BY <1>1
  <2>4. session' = [session EXCEPT ![t].external = inSession, ![t].held = TRUE]
    BY <1>1
  <2> HIDE DEF inJob, inWorker, inSession, inInstance
  <2> QED BY <2>1, <2>2, <2>3, <2>4
<1> HIDE DEF inJob, inWorker, inSession, inInstance
<1>6. Typed'
  <2>1. inJob \in External /\ inSession \in External /\ inInstance \in External
    BY <1>3, OwnedTyped
  <2>2. job' \in [Tasks -> JobRow]  BY <1>0, <1>5, <2>1 DEF Typed, JobRow
  <2>3. worker' \in WorkerRow  BY <1>0, <1>4, <1>5 DEF Typed, WorkerRow
  <2>4. instance' \in [Tasks -> InstanceRow]  BY <1>0, <1>5, <2>1 DEF Typed, InstanceRow
  <2>5. session' \in [Tasks -> SessionRow]  BY <1>0, <1>5, <2>1 DEF Typed, SessionRow
  <2> QED BY <1>0, <1>2, <2>2, <2>3, <2>4, <2>5 DEF Typed
<1>7. Sound(t)'
  <2>1. /\ job'[t] = [job[t] EXCEPT !.known = inJob]
        /\ instance'[t] = [instance[t] EXCEPT !.external = inInstance]
        /\ session'[t] = [session[t] EXCEPT !.external = inSession, !.held = TRUE]
    BY <1>0, <1>5 DEF Typed
  <2>2. job[t] \in JobRow /\ instance[t] \in InstanceRow /\ session[t] \in SessionRow
    BY <1>0 DEF Typed
  <2>3. /\ job'[t].pc = job[t].pc /\ job'[t].gen = job[t].gen
        /\ job'[t].external = job[t].external /\ job'[t].known = inJob
    BY <2>1, <2>2 DEF JobRow
  <2>4. /\ instance'[t].gen = instance[t].gen /\ instance'[t].external = inInstance
        /\ session'[t].gen = session[t].gen /\ session'[t].external = inSession
    BY <2>1, <2>2 DEF InstanceRow, SessionRow
  <2> QED BY <1>0, <1>3, <2>3, <2>4 DEF Sound, OwnedBy
<1>8. Others(t)  BY <1>0, <1>5 DEF Others, Typed
<1> QED BY <1>6, <1>7, <1>8, OneTask

-----------------------------------------------------------------------------
(* Operators and the scheduler.                                            *)
LEMMA CallerStep ==
  ASSUME SessionInv, NEW t \in Tasks,
         \/ Amend(t) \/ CallerReplaces(t) \/ CallerSwitches(t) \/ CallerResumes(t)
         \/ CallerStops(t) \/ \E p \in Providers : CallerReads(t, p)
  PROVE  SessionInv'
<1>0. Typed  BY InvRows
<1>1. CASE Amend(t)
  <2> DEFINE next == task[t].spec + 1
  <2>a. next \in Nat  BY <1>0 DEF Typed, TaskRow
  <2>b. Revised(t, [task[t] EXCEPT !.status = "ready", !.spec = next])  BY <1>1 DEF Amend
  <2> HIDE DEF next
  <2>1. task' \in [Tasks -> TaskRow] /\ reads' \in [Tasks -> SUBSET {"driver", "caller"}]
    BY <1>0, <2>a, <2>b DEF Revised, Typed, TaskRow
  <2> QED BY <1>0, <1>1, <2>1, OtherStep DEF Amend, Typed
<1>2. CASE CallerReplaces(t)
  <2>1. PICK p \in caller[t].to : Replace(t, caller[t].spec, p)  BY <1>2 DEF CallerReplaces
  <2>2. caller[t].spec \in Nat /\ p \in Providers  BY <1>0 DEF Typed, CallerRow
  <2>3. caller' \in [Tasks -> CallerRow]
    BY <1>0, <1>2 DEF CallerReplaces, Typed, CallerRow
  <2>4. UNCHANGED <<task, reads, driver, job>> /\ driver' \in [Tasks -> DriverRow]
    BY <1>0, <1>2 DEF CallerReplaces, Typed
  <2> QED BY <2>1, <2>2, <2>3, <2>4, ReplaceStep
<1>3. CASE CallerSwitches(t)
  <2>1. UNCHANGED <<instance, session, driver, job>>  BY <1>3 DEF CallerSwitches
  <2>2. PICK p \in caller[t].to :
          /\ Revised(t, [task[t] EXCEPT !.provider = p, !.status = "ready"])
          /\ worker' = IF task[t].bound THEN [worker EXCEPT !.provider = p, !.external = None]
                       ELSE worker
    BY <1>3 DEF CallerSwitches
  <2>3. p \in Providers  BY <1>0 DEF Typed, CallerRow
  <2>4. task' \in [Tasks -> TaskRow] /\ reads' \in [Tasks -> SUBSET {"driver", "caller"}]
    BY <1>0, <2>2, <2>3 DEF Revised, Typed, TaskRow
  <2>5. worker' \in WorkerRow
    <3>1. [worker EXCEPT !.provider = p, !.external = None] \in WorkerRow
      BY <1>0, <2>3, NoneTyped DEF Typed, WorkerRow
    <3> QED BY <1>0, <2>2, <3>1 DEF Typed
  <2>6. caller' \in [Tasks -> CallerRow]
    BY <1>0, <1>3 DEF CallerSwitches, MayChange, NoCaller, Typed, CallerRow
  <2>7. driver' \in [Tasks -> DriverRow]  BY <1>0, <2>1 DEF Typed
  <2> QED BY <2>1, <2>4, <2>5, <2>6, <2>7, OtherStep
<1>4. CASE CallerResumes(t)
  <2>1. task' \in [Tasks -> TaskRow] /\ reads' \in [Tasks -> SUBSET {"driver", "caller"}]
    BY <1>0, <1>4 DEF CallerResumes, Revised, Typed, TaskRow
  <2>2. caller' \in [Tasks -> CallerRow]
    BY <1>0, <1>4 DEF CallerResumes, MayChange, NoCaller, Typed, CallerRow
  <2> QED BY <1>0, <1>4, <2>1, <2>2, OtherStep DEF CallerResumes, Typed
<1>5. CASE CallerStops(t)
  <2>1. caller' \in [Tasks -> CallerRow]
    BY <1>0, <1>5 DEF CallerStops, NoCaller, Typed, CallerRow
  <2> QED BY <1>0, <1>5, <2>1, OtherStep DEF CallerStops, Typed
<1>6. ASSUME NEW p \in Providers, CallerReads(t, p) PROVE SessionInv'
  <2>1. caller' \in [Tasks -> CallerRow]
    BY <1>0, <1>6 DEF CallerReads, Typed, CallerRow, TaskRow
  <2>2. reads' \in [Tasks -> SUBSET {"driver", "caller"}]
    BY <1>0, <1>6 DEF CallerReads, Typed
  <2> QED BY <1>0, <1>6, <2>1, <2>2, OtherStep DEF CallerReads, Typed
<1> QED BY <1>1, <1>2, <1>3, <1>4, <1>5, <1>6

LEMMA RotateStep ==
  ASSUME SessionInv, NEW p \in Providers, RotateWorker(p)
  PROVE  SessionInv'
<1>0. Typed  BY InvRows
<1> DEFINE next == worker.gen + 1
<1>1. next \in Nat /\ worker \in WorkerRow  BY <1>0 DEF Typed, WorkerRow
<1>2. worker' = [worker EXCEPT !.gen = next, !.provider = p, !.external = None]
  BY DEF RotateWorker
<1> HIDE DEF next
<1>3. worker' \in WorkerRow  BY <1>1, <1>2, NoneTyped DEF WorkerRow
<1> QED BY <1>0, <1>3, OtherStep DEF RotateWorker, Typed

-----------------------------------------------------------------------------
LEMMA InvStep == SessionInv /\ [SessionNext]_sessionVars => SessionInv'
<1> SUFFICES ASSUME SessionInv, [SessionNext]_sessionVars PROVE SessionInv'
  OBVIOUS
<1>1. CASE UNCHANGED sessionVars
  BY <1>1, InvRows, OtherStep DEF sessionVars, Typed
<1>2. ASSUME NEW t \in Tasks,
             \/ DriverReads(t) \/ Ensure(t) \/ RequireDispatchable(t) \/ Claim(t)
             \/ Prepare(t) \/ Start(t) \/ DriverStops(t)
      PROVE SessionInv'
  BY <1>2, DriverStep
<1>3. ASSUME NEW t \in Tasks,
             Record(t) \/ Finish(t) \/ HostFault(t) \/ HostFaultRotates(t) \/ Recover(t)
      PROVE SessionInv'
  BY <1>3, RecordStep, EndingsStep
<1>4. ASSUME NEW t \in Tasks,
             \/ Amend(t) \/ CallerReplaces(t) \/ CallerSwitches(t) \/ CallerResumes(t)
             \/ CallerStops(t) \/ \E p \in Providers : CallerReads(t, p)
      PROVE SessionInv'
  BY <1>4, CallerStep
<1>5. ASSUME NEW p \in Providers, RotateWorker(p) PROVE SessionInv'
  BY <1>5, RotateStep
<1> QED BY <1>1, <1>2, <1>3, <1>4, <1>5 DEF SessionNext

LEMMA InvHolds == SessionSpec => []SessionInv
  BY SessionStarts, InvStep, PTL DEF SessionSpec

(* The rows of a role have their types, whatever its tasks, its callers,   *)
(* its rotations and its host do.                                          *)
THEOREM SessionsTyped == SessionSpec => []SessionTypeOK
<1>1. SessionInv => SessionTypeOK  BY DEF SessionInv
<1> QED BY <1>1, InvHolds, PTL

(* The binding and the task session of every task are of one generation:   *)
(* what record accepts of a task, it writes to both.                       *)
THEOREM BindingsFollow == SessionSpec => []BindingFollows
<1>1. SessionInv => BindingFollows  BY DEF SessionInv
<1> QED BY <1>1, InvHolds, PTL

(* No run resumes the session of another task of the role.                 *)
THEOREM SessionsStayOwned == SessionSpec => []SessionsOwned
<1>1. SessionInv => SessionsOwned  BY DEF SessionInv
<1> QED BY <1>1, InvHolds, PTL

(* What a step does to the generations of a task: they grow, or stay, and  *)
(* a job that stays keeps its own.                                         *)
Grows(t) ==
  /\ session'[t].gen >= session[t].gen
  /\ job[t].pc # "none" /\ job'[t].pc # "none" => job'[t].gen = job[t].gen

LEMMA GrowsStep ==
  ASSUME SessionInv, [SessionNext]_sessionVars, NEW t \in Tasks
  PROVE  Grows(t)
<1>0. Typed /\ \A u \in Tasks : Sound(u)  BY InvRows
<1>1. session[t].gen \in Nat /\ instance[t].gen = session[t].gen
  BY <1>0 DEF Typed, Sound, SessionRow
<1>2. CASE UNCHANGED <<session, job>>  BY <1>1, <1>2 DEF Grows
<1>3. ASSUME NEW u \in Tasks, u # t, Others(u) PROVE Grows(t)
  BY <1>1, <1>3 DEF Others, Grows
<1>4. ASSUME NEW u \in Tasks, NEW n, NEW p, NEW g \in Nat, Bind(u, n, p, g),
             g >= session[u].gen, UNCHANGED job
      PROVE  Grows(t)
  BY <1>0, <1>1, <1>4 DEF Bind, Grows, Typed, SessionRow
<1>5. ASSUME NEW u \in Tasks, NEW n, NEW p, Replace(u, n, p), UNCHANGED job
      PROVE  Grows(t)
  <2>1. session[u].gen \in Nat /\ instance[u].gen = session[u].gen
    BY <1>0 DEF Typed, Sound, SessionRow
  <2> QED BY <1>4, <1>5, <2>1 DEF Replace
<1>6. ASSUME NEW u \in Tasks, Ensure(u) PROVE Grows(t)
  <2>1. PICK p \in driver[u].provider :
          \/ instance[u].gen = 0 /\ Bind(u, driver[u].spec, p, 1)
          \/ Replace(u, driver[u].spec, p)
          \/ UNCHANGED <<instance, session, worker>>
    BY <1>6 DEF Ensure
  <2>2. UNCHANGED job  BY <1>6 DEF Ensure
  <2>3. instance[u].gen = 0 => 1 >= session[u].gen  BY <1>0 DEF Sound
  <2> QED BY <1>2, <1>4, <1>5, <2>1, <2>2, <2>3
<1>7. ASSUME NEW u \in Tasks, CallerReplaces(u) PROVE Grows(t)
  BY <1>5, <1>7 DEF CallerReplaces
<1>8. ASSUME NEW u \in Tasks, Claim(u) \/ Prepare(u) \/ Start(u) \/ Record(u) PROVE Grows(t)
  <2>1. session'[t].gen = session[t].gen
    BY <1>0, <1>8 DEF Claim, Prepare, Start, Record, Typed, SessionRow
  <2>2. CASE Claim(u)  BY <1>1, <2>1, <2>2 DEF Claim, Grows
  <2>3. CASE Prepare(u)
    <3>1. job[u].pc = "none"  BY <2>3 DEF Prepare
    <3> QED BY <1>0, <1>1, <2>1, <2>3, <3>1 DEF Prepare, Grows, Typed
  <2>4. CASE Start(u)
    BY <1>0, <1>1, <2>1, <2>4 DEF Start, Grows, Typed, JobRow
  <2>5. CASE Record(u)
    BY <1>0, <1>1, <2>1, <2>5 DEF Record, Grows, Typed, JobRow
  <2> QED BY <1>8, <2>2, <2>3, <2>4, <2>5
<1>9. ASSUME NEW u \in Tasks, Finish(u) \/ HostFault(u) \/ HostFaultRotates(u) \/ Recover(u)
      PROVE  Grows(t)
  <2>1. session'[t].gen >= session[t].gen
    <3>1. CASE Finish(u) \/ Recover(u)
      <4>1. session' = session  BY <3>1 DEF Finish, Recover
      <4> QED BY <1>1, <4>1
    <3>2. CASE HostFault(u)  BY <1>0, <1>1, <3>2 DEF HostFault, Typed, SessionRow
    <3>3. CASE HostFaultRotates(u)
      BY <1>0, <1>1, <3>3 DEF HostFaultRotates, Typed, SessionRow
    <3> QED BY <1>9, <3>1, <3>2, <3>3
  <2>2. job' = [job EXCEPT ![u] = NoJob]
    BY <1>9 DEF Finish, HostFault, HostFaultRotates, Recover, EndRun
  <2> QED BY <1>0, <2>1, <2>2 DEF Grows, NoJob, Typed
<1>10. ASSUME NEW u \in Tasks,
              \/ DriverReads(u) \/ RequireDispatchable(u) \/ DriverStops(u) \/ Amend(u)
              \/ CallerSwitches(u) \/ CallerResumes(u) \/ CallerStops(u)
              \/ \E p \in Providers : CallerReads(u, p)
       PROVE  Grows(t)
  BY <1>2, <1>10 DEF DriverReads, RequireDispatchable, DriverStops, Amend, CallerSwitches,
                     CallerResumes, CallerStops, CallerReads
<1>11. ASSUME NEW p \in Providers, RotateWorker(p) PROVE Grows(t)
  BY <1>2, <1>11 DEF RotateWorker
<1>12. CASE UNCHANGED sessionVars  BY <1>2, <1>12 DEF sessionVars
<1> QED BY <1>6, <1>7, <1>8, <1>9, <1>10, <1>11, <1>12 DEF SessionNext

(* What is stale stays stale, whatever replaces, rotates or recovers: a    *)
(* late report of an older session is never taken for one of the newer.    *)
THEOREM StaleForEver == SessionSpec => StaleStaysStale
<1> DEFINE Step == \A t \in Tasks :
             job[t].pc # "none" /\ job'[t].pc # "none" /\ job[t].gen # session[t].gen
               => job'[t].gen # session'[t].gen
<1>1. SessionInv /\ [SessionNext]_sessionVars => Step
  <2> SUFFICES ASSUME SessionInv, [SessionNext]_sessionVars, NEW t \in Tasks,
                      job[t].pc # "none", job'[t].pc # "none", job[t].gen # session[t].gen
               PROVE  job'[t].gen # session'[t].gen
    OBVIOUS
  <2>1. Grows(t)  BY GrowsStep
  <2>2. job[t].gen \in Nat /\ session[t].gen \in Nat /\ session'[t].gen \in Nat
        /\ job[t].gen <= session[t].gen
    <3>1. SessionInv'  BY InvStep
    <3>2. Typed /\ Sound(t) /\ Typed'  BY <3>1, InvRows, InvRowsNext
    <3> QED BY <3>2 DEF Typed, Sound, JobRow, SessionRow
  <2> QED BY <2>1, <2>2 DEF Grows
<1> QED BY <1>1, InvHolds, PTL DEF SessionSpec, StaleStaysStale
=============================================================================
