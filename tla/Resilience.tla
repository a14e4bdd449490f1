----------------------------- MODULE Resilience -----------------------------
(***************************************************************************)
(* What a tick does about networks and providers: it checks the network    *)
(* zones, probes the providers behind a circuit breaker each, keeps one    *)
(* incident per root cause, suspends the tasks that nobody can serve,      *)
(* moves them to another provider or resumes them.  Requests of people     *)
(* probe the same providers, and people change providers and tasks, at any *)
(* time; the control plane may die between two transactions.               *)
(*                                                                         *)
(* Zones and providers come and go.  A counter of consecutive results      *)
(* stops at the threshold it is compared with.  Time is the moment when a  *)
(* circuit's cool-down is over.  Of a task the model keeps its status and  *)
(* its provider; TaskService has the rest, and SchedulerLease the lease    *)
(* under which a tick runs.                                                *)
(***************************************************************************)
EXTENDS Integers, Sequences, FiniteSets, SequencesExt

CONSTANTS
  Providers, Tasks,
  Clients,           \* threads that probe a provider for a person or a driver
  ZoneOf,            \* the zone of each provider
  Needs,             \* network_requirement of each task
  Order,             \* the providers a task may use, in the order of its policy
  First,             \* the provider a task starts with
  NoProvider,
  NetworkFailures, NetworkSuccesses,     \* thresholds of a zone
  ProviderFailures, ProviderSuccesses,   \* thresholds of a provider
  Batch,             \* resume_batch_size
  Torn,              \* premise: whether a crash may hit a half-open probe
  MaxFlips,          \* bound of the model: times that a zone or a provider changes
  MaxOps             \* bound of the model: operations of people, and crashes

Zones == {"domestic", "overseas"}

ASSUME ProviderAssumption ==
  /\ NoProvider \notin Providers
  /\ ZoneOf \in [Providers -> Zones \cup {"local"}]
ASSUME TaskAssumption ==
  /\ Needs \in [Tasks -> Zones \cup {"none", "any"}]
  /\ First \in [Tasks -> Providers]
  /\ DOMAIN Order = Tasks /\ \A t \in Tasks : Order[t] \in Seq(Providers)
ASSUME ThresholdAssumption ==
  /\ NetworkFailures \in Nat \ {0} /\ NetworkSuccesses \in Nat \ {0}
  /\ ProviderFailures \in Nat \ {0} /\ ProviderSuccesses \in Nat \ {0}
  /\ Batch \in Nat \ {0} /\ Torn \in BOOLEAN /\ MaxFlips \in Nat /\ MaxOps \in Nat

VARIABLES
  reach, up,         \* the zones that can be reached, the providers that answer
  zone,              \* the health that is recorded of each zone
  prov,              \* the row of each provider
  incidents,         \* the causes with an open incident
  probe,             \* the probe that each thread is in
  tick,              \* where the tick is and what it has read
  task,              \* the status and the provider of each task
  waiting,           \* the suspended tasks, the one that waits longest first
  wedged,            \* reconciliation raises in every tick: see Wedge
  flips, ops

world == <<reach, up, flips, wedged>>
taskVars == <<task, waiting>>
resilienceVars ==
  <<reach, up, zone, prov, incidents, probe, tick, task, waiting, wedged, flips, ops>>

Suspended == {"network_suspended", "provider_suspended"}
Status    == {"ready", "running", "done"} \cup Suspended
Probers   == Clients \cup Providers      \* a tick probes each provider by a thread

NoProbe == [pc |-> "idle", of |-> NoProvider, reserved |-> FALSE, ok |-> FALSE]
NoTick  == [pc |-> "idle", ok |-> {}, avail |-> {}, todo |-> {}, moved |-> {},
            report |-> [p \in Providers |-> "none"]]

ResilienceInit ==
  /\ reach = Zones /\ up = Providers
  /\ zone = [z \in Zones |-> [state |-> "unknown", failures |-> 0, successes |-> 0]]
  /\ prov = [p \in Providers |-> [enabled |-> TRUE, status |-> "unknown", circuit |-> "closed",
                                  failures |-> 0, successes |-> 0, due |-> TRUE]]
  /\ incidents = {}
  /\ probe = [c \in Probers |-> NoProbe]
  /\ tick = NoTick
  /\ task = [t \in Tasks |-> [status |-> "ready", provider |-> First[t]]]
  /\ waiting = <<>>
  /\ wedged = FALSE /\ flips = 0 /\ ops = 0

UpTo(n, limit) == IF n < limit THEN n ELSE limit

-----------------------------------------------------------------------------
(* The world.                                                              *)

Toggled(S, x) == IF x \in S THEN S \ {x} ELSE S \cup {x}

ZoneChanges(z) ==
  /\ flips < MaxFlips /\ flips' = flips + 1
  /\ reach' = Toggled(reach, z)
  /\ UNCHANGED <<up, wedged, zone, prov, incidents, probe, tick, taskVars, ops>>

ProviderChanges(p) ==
  /\ flips < MaxFlips /\ flips' = flips + 1
  /\ up' = Toggled(up, p)
  /\ UNCHANGED <<reach, wedged, zone, prov, incidents, probe, tick, taskVars, ops>>

(* A probe is answered or times out before a cool-down is over.            *)
CoolDownEnds(p) ==
  /\ prov[p].circuit = "open" /\ ~prov[p].due
  /\ \A c \in Probers : probe[c].pc \in {"call", "record"} => probe[c].of # p
  /\ prov' = [prov EXCEPT ![p].due = TRUE]
  /\ UNCHANGED <<world, zone, incidents, probe, tick, taskVars, ops>>

-----------------------------------------------------------------------------
(* One probe of a provider, by any thread.                                 *)

Usable(row) == row.status = "available" /\ row.circuit = "closed"

(* What the thread gives back; a tick keeps what its own threads report.    *)
Reports(c, row) ==
  /\ probe' = [probe EXCEPT ![c] = NoProbe]
  /\ tick' = IF c \in Providers
             THEN [tick EXCEPT !.report[c] = IF Usable(row) THEN "usable" ELSE "bad"]
             ELSE tick

ReserveAgain(row) ==             \* a mutant of MayReserve: half-open is good enough
  row.circuit = "half_open" \/ (row.circuit = "open" /\ row.due)

MayReserve(row) == row.circuit = "open" /\ row.due

(* probe_allowed: a closed circuit is probed by everybody, an open one by   *)
(* the one thread that finds its cool-down over and reserves the probe.     *)
ProbeAllowed(c) ==
  /\ probe[c].pc = "asked"
  /\ LET p == probe[c].of
         row == prov[p]
     IN  IF ~row.enabled
         THEN /\ probe' = [probe EXCEPT ![c].pc = "record"]
              /\ UNCHANGED <<prov, tick>>
         ELSE IF row.circuit = "closed" \/ MayReserve(row)
         THEN /\ probe' = [probe EXCEPT ![c].pc = "call", ![c].reserved = row.circuit # "closed"]
              /\ prov' = [prov EXCEPT ![p].circuit = IF @ = "open" THEN "half_open" ELSE @]
              /\ UNCHANGED tick
         ELSE Reports(c, row) /\ UNCHANGED prov
  /\ UNCHANGED <<world, zone, incidents, taskVars, ops>>

(* The bridge, or the container, is asked whether the provider is there.    *)
CallBridge(c) ==
  /\ probe[c].pc = "call"
  /\ probe' = [probe EXCEPT ![c].pc = "record", ![c].ok = probe[c].of \in up]
  /\ UNCHANGED <<world, zone, prov, incidents, tick, taskVars, ops>>

OpensClosed(row, fails) ==       \* a mutant of Opens: a half-open circuit does not
  row.circuit = "closed" /\ fails >= ProviderFailures

Opens(row, fails) == fails >= ProviderFailures

(* record_probe.  A single failure leaves the last good status alone.       *)
Probed(row, ok) ==
  LET fails   == IF ok THEN 0 ELSE UpTo(row.failures + 1, ProviderFailures)
      wins    == IF ok THEN UpTo(row.successes + 1, ProviderSuccesses) ELSE 0
      closes  == ~row.enabled \/ wins >= ProviderSuccesses
      opens   == ~closes /\ Opens(row, fails)
      circuit == IF closes THEN "closed" ELSE IF opens THEN "open"
                 ELSE IF row.circuit = "open" THEN "half_open" ELSE row.circuit
      good    == circuit = "closed" /\
                   (ok \/ (fails < ProviderFailures /\ row.status = "available"))
  IN  [row EXCEPT
        !.status    = IF ~row.enabled THEN "disabled"
                      ELSE IF good THEN "available" ELSE "unavailable",
        !.circuit   = circuit,
        !.failures  = fails,
        !.successes = wins,
        !.due       = IF opens THEN FALSE ELSE IF closes THEN TRUE ELSE @]

RecordProbe(c) ==
  /\ probe[c].pc = "record"
  /\ LET p == probe[c].of
     IN  /\ prov' = [prov EXCEPT ![p] = Probed(@, probe[c].ok)]
         /\ Reports(c, prov'[p])
  /\ UNCHANGED <<world, zone, incidents, taskVars, ops>>

(* A person, or a driver that needs the provider to be ready, asks.         *)
AskProbe(c, p) ==
  /\ probe[c].pc = "idle"
  /\ ops < MaxOps /\ ops' = ops + 1
  /\ probe' = [probe EXCEPT ![c] = [NoProbe EXCEPT !.pc = "asked", !.of = p]]
  /\ UNCHANGED <<world, zone, prov, incidents, tick, taskVars>>

-----------------------------------------------------------------------------
(* The tick, one action per transaction.                                   *)

Check ==
  /\ tick.pc = "idle"
  /\ tick' = [NoTick EXCEPT !.pc = "network", !.ok = reach]
  /\ UNCHANGED <<world, zone, prov, incidents, probe, taskVars, ops>>

Observed(row, ok) ==
  LET fails == IF ok THEN 0 ELSE UpTo(row.failures + 1, NetworkFailures)
      wins  == IF ok THEN UpTo(row.successes + 1, NetworkSuccesses) ELSE 0
  IN  [state |-> IF ~ok /\ fails >= NetworkFailures THEN "unavailable"
                 ELSE IF ok /\ wins >= NetworkSuccesses THEN "available" ELSE row.state,
       failures |-> fails, successes |-> wins]

Down(rows) == {z \in Zones : rows[z].state = "unavailable"}

(* A cause has one open incident, however often it is observed.            *)
Upserted(open, causes) == open \cup causes
Resolved(open, causes) == open \ causes

(* A zone that is down is an incident of its own, unless both are: then the *)
(* network is, and takes their place.                                      *)
NetworkIncidents(open, rows) ==
  LET causes == IF Down(rows) = Zones THEN {"global"} ELSE Down(rows)
  IN  Resolved(Upserted(open, causes), (Zones \cup {"global"}) \ causes)

(* Until a zone's health is known, the tick believes its own check.         *)
RecordNetwork ==
  /\ tick.pc = "network"
  /\ LET rows == [z \in Zones |-> Observed(zone[z], z \in tick.ok)]
     IN  /\ zone' = rows
         /\ incidents' = NetworkIncidents(incidents, rows)
         /\ tick' = [tick EXCEPT !.pc = "list", !.ok = {}, !.avail = {z \in Zones :
              rows[z].state = "available" \/ (rows[z].state = "unknown" /\ z \in tick.ok)}]
  /\ UNCHANGED <<world, prov, probe, taskVars, ops>>

Reachable(p) == ZoneOf[p] \in tick.avail \cup {"local"}

(* probe_all: the enabled providers, but not those behind a zone that is    *)
(* not available.                                                          *)
ProbeAll ==
  /\ tick.pc = "list"
  /\ LET enabled == {p \in Providers : prov[p].enabled}
     IN  /\ tick' = [tick EXCEPT !.pc = "probe", !.report = [p \in Providers |->
              IF p \in enabled /\ ~Reachable(p) THEN "skipped" ELSE "none"]]
         /\ probe' = [c \in Probers |->
              IF c \in enabled /\ Reachable(c)
              THEN [NoProbe EXCEPT !.pc = "asked", !.of = c] ELSE probe[c]]
  /\ UNCHANGED <<world, zone, prov, incidents, taskVars, ops>>

RecordProviderHealth ==
  /\ tick.pc = "probe"
  /\ \A p \in Providers : probe[p].pc = "idle"
  /\ incidents' = Resolved(Upserted(incidents, {p \in Providers : tick.report[p] = "bad"}),
                           {p \in Providers : tick.report[p] \in {"usable", "skipped"}})
  /\ tick' = [tick EXCEPT !.pc = "active"]
  /\ UNCHANGED <<world, zone, prov, probe, taskVars, ops>>

-----------------------------------------------------------------------------
(* Tasks.                                                                  *)

(* Tasks that become suspended wait behind those that already do.           *)
Becomes(new) ==
  /\ task' = new
  /\ LET Waits(t) == new[t].status \in Suspended
         stay   == SelectSeq(waiting, Waits)
         joined == {t \in Tasks : Waits(t) /\ ~Contains(waiting, t)}
     IN  \E more \in SetToSeqs(joined) : waiting' = stay \o more

Enter(pc, statuses, new) ==
  [tick EXCEPT !.pc = pc, !.moved = {}, !.todo = {t \in Tasks : new[t].status \in statuses}]

(* suspend_active_provider_jobs: the tasks that run behind a zone that is   *)
(* not available, unless the bridge cannot be told to stop them.            *)
SuspendActive ==
  /\ tick.pc = "active"
  /\ \E S \in SUBSET {t \in Tasks : /\ task[t].status = "running"
                                    /\ tick.report[task[t].provider] # "none"
                                    /\ ~Reachable(task[t].provider)} :
       LET new == [t \in Tasks |->
                     IF t \in S THEN [task[t] EXCEPT !.status = "network_suspended"] ELSE task[t]]
       IN  /\ Becomes(new)
           /\ tick' = [tick EXCEPT !.pc = "reconcile"]
  /\ UNCHANGED <<world, zone, prov, incidents, probe, ops>>

(* An operation raises if the task is not as it was listed; the tick is     *)
(* over, and what is left of its lease has to run out.                      *)
Raises == tick' = NoTick /\ UNCHANGED taskVars

(* reconcile_host_jobs, recovery and goals.advance go through the jobs,     *)
(* tasks and goals of every project: what they do to these tasks is a run   *)
(* that ends.  If one raises, as for a task whose Host Job ended            *)
(* interrupted while it was stopping, it does so in every tick, and none    *)
(* gets further.  Else the tick lists the suspended tasks.                  *)
Reconcile ==
  /\ tick.pc = "reconcile"
  /\ IF wedged THEN Raises ELSE tick' = Enter("switch", Suspended, task) /\ UNCHANGED taskVars
  /\ UNCHANGED <<world, zone, prov, incidents, probe, ops>>

(* The first provider of the task's policy that can serve it now.           *)
Serves(p) == prov[p].enabled /\ Usable(prov[p]) /\ Reachable(p)

Route(t) ==
  LET order == IF Order[t] = <<>> THEN <<task[t].provider>>
               ELSE IF Contains(Order[t], task[t].provider) THEN Order[t]
               ELSE <<task[t].provider>> \o Order[t]
      fit   == SelectSeq(order, Serves)
  IN  IF fit = <<>> THEN NoProvider ELSE fit[1]

Switches(t, p) ==
  IF t \in tick.moved THEN Raises
  ELSE /\ Becomes([task EXCEPT ![t] = [status |-> "ready", provider |-> p]])
       /\ tick' = [tick EXCEPT !.todo = @ \ {t}]

SwitchSuspended(t) ==
  /\ tick.pc = "switch" /\ t \in tick.todo
  /\ IF Route(t) \notin {NoProvider, task[t].provider}
     THEN Switches(t, Route(t))
     ELSE tick' = [tick EXCEPT !.todo = @ \ {t}] /\ UNCHANGED taskVars
  /\ UNCHANGED <<world, zone, prov, incidents, probe, ops>>

NetworkOrNothing(t) ==           \* a mutant of NetworkMet: nothing meets "none"
  Needs[t] \in tick.avail \/ (Needs[t] = "any" /\ tick.avail # {})

NetworkMet(t) ==
  \/ Needs[t] \in tick.avail \cup {"none"}
  \/ Needs[t] = "any" /\ tick.avail # {}

MayResume(t) == IF task[t].status = "network_suspended" THEN NetworkMet(t)
                ELSE tick.report[task[t].provider] = "usable"

(* resume_suspended: the tasks that wait longest, no more than a batch, and *)
(* of those the ones that may.  Then the tick lists the ready tasks.        *)
ResumeSuspended ==
  /\ tick.pc = "switch" /\ tick.todo = {}
  /\ LET batch == {waiting[i] : i \in 1..UpTo(Len(waiting), Batch)}
         new   == [t \in Tasks |-> IF t \in batch /\ MayResume(t)
                                   THEN [task[t] EXCEPT !.status = "ready"] ELSE task[t]]
     IN  /\ Becomes(new)
         /\ tick' = [Enter("ready", {"ready"}, new) EXCEPT !.report = NoTick.report]
  /\ UNCHANGED <<world, zone, prov, incidents, probe, ops>>

(* A ready task that no provider can serve is suspended, whatever became of *)
(* it since it was listed; one that another provider serves is moved.       *)
RouteReady(t) ==
  /\ tick.pc = "ready" /\ t \in tick.todo
  /\ IF Route(t) = NoProvider
     THEN IF task[t].status \in {"ready", "running"}
          THEN /\ Becomes([task EXCEPT ![t].status =
                    IF ZoneOf[task[t].provider] \notin tick.avail
                    THEN "network_suspended" ELSE "provider_suspended"])
               /\ tick' = [tick EXCEPT !.todo = @ \ {t}]
          ELSE IF task[t].status \in Suspended
          THEN tick' = [tick EXCEPT !.todo = @ \ {t}] /\ UNCHANGED taskVars
          ELSE Raises
     ELSE IF Route(t) # task[t].provider
     THEN Switches(t, Route(t))
     ELSE tick' = [tick EXCEPT !.todo = @ \ {t}] /\ UNCHANGED taskVars
  /\ UNCHANGED <<world, zone, prov, incidents, probe, ops>>

(* The tick drives some of the tasks that are ready, and is over.           *)
Dispatch ==
  /\ tick.pc = "ready" /\ tick.todo = {}
  /\ \E S \in SUBSET {t \in Tasks : task[t].status = "ready" /\ Serves(task[t].provider)} :
       Becomes([t \in Tasks |->
                  IF t \in S THEN [task[t] EXCEPT !.status = "running"] ELSE task[t]])
  /\ tick' = NoTick
  /\ UNCHANGED <<world, zone, prov, incidents, probe, ops>>

(* The tick has listed t, and t is no longer as it was listed.              *)
Outdated(t) == [tick EXCEPT !.moved = @ \cup ({t} \cap tick.todo)]

(* A run ends: the task is done, or is to be repaired.                      *)
RunEnds(t) ==
  /\ task[t].status = "running"
  /\ \E s \in {"ready", "done"} : Becomes([task EXCEPT ![t].status = s])
  /\ tick' = Outdated(t)
  /\ UNCHANGED <<world, zone, prov, incidents, probe, ops>>

-----------------------------------------------------------------------------
(* People, and the end of the control plane.                               *)

Operation == ops < MaxOps /\ ops' = ops + 1

PutProvider(p) ==
  /\ Operation
  /\ prov' = [prov EXCEPT ![p].enabled = ~@,
                          ![p].status = IF prov[p].enabled THEN "disabled" ELSE "unknown"]
  /\ UNCHANGED <<world, zone, incidents, probe, tick, taskVars>>

Operate(t, from, to) ==
  /\ Operation
  /\ task[t].status \in from
  /\ Becomes([task EXCEPT ![t].status = to])
  /\ tick' = Outdated(t)
  /\ UNCHANGED <<world, zone, prov, incidents, probe>>

OperatorResume(t) == Operate(t, Suspended, "ready")
Drive(t)          == Usable(prov[task[t].provider]) /\ Operate(t, {"ready"}, "running")

(* A person cancels a run of another task, whose process is then found to   *)
(* have been interrupted.                                                  *)
Wedge ==
  /\ Operation
  /\ ~wedged /\ wedged' = TRUE
  /\ UNCHANGED <<reach, up, flips, zone, prov, incidents, probe, tick, taskVars>>

(* Every thread of the control plane dies.  Unless Torn, none of them holds *)
(* a circuit half open.                                                    *)
Crash ==
  /\ Operation
  /\ Torn \/ \A c \in Probers : ~probe[c].reserved
  /\ probe' = [c \in Probers |-> NoProbe]
  /\ tick' = NoTick
  /\ UNCHANGED <<world, zone, prov, incidents, taskVars>>

-----------------------------------------------------------------------------
Probing(c) == ProbeAllowed(c) \/ CallBridge(c) \/ RecordProbe(c)

TickStep ==
  \/ Check \/ RecordNetwork \/ ProbeAll \/ RecordProviderHealth
  \/ SuspendActive \/ Reconcile \/ ResumeSuspended \/ Dispatch
  \/ \E t \in Tasks : SwitchSuspended(t) \/ RouteReady(t)

ResilienceNext ==
  \/ TickStep
  \/ \E c \in Probers : Probing(c)
  \/ \E c \in Clients, p \in Providers : AskProbe(c, p)
  \/ \E z \in Zones : ZoneChanges(z)
  \/ \E p \in Providers : ProviderChanges(p) \/ CoolDownEnds(p) \/ PutProvider(p)
  \/ \E t \in Tasks : RunEnds(t) \/ OperatorResume(t) \/ Drive(t)
  \/ Wedge \/ Crash

ResilienceSpec == ResilienceInit /\ [][ResilienceNext]_resilienceVars

(* Ticks come again and again, threads go on, time passes.                  *)
ResilienceFairSpec ==
  /\ ResilienceSpec
  /\ WF_resilienceVars(TickStep)
  /\ \A c \in Probers : WF_resilienceVars(Probing(c))
  /\ \A p \in Providers : WF_resilienceVars(CoolDownEnds(p))

-----------------------------------------------------------------------------
(* The types of what is recorded of zones, providers and incidents.         *)
ResilienceTypeOK ==
  /\ reach \subseteq Zones /\ up \subseteq Providers
  /\ zone \in [Zones -> [state : {"unknown", "available", "unavailable"},
                         failures : 0..NetworkFailures, successes : 0..NetworkSuccesses]]
  /\ prov \in [Providers -> [enabled : BOOLEAN,
                             status : {"unknown", "available", "unavailable", "disabled"},
                             circuit : {"closed", "open", "half_open"},
                             failures : 0..ProviderFailures,
                             successes : 0..ProviderSuccesses, due : BOOLEAN]]
  /\ incidents \subseteq Zones \cup {"global"} \cup Providers
  /\ probe \in [Probers -> [pc : {"idle", "asked", "call", "record"},
                            of : Providers \cup {NoProvider}, reserved : BOOLEAN, ok : BOOLEAN]]

(* A half-open circuit is probed by one thread: however many threads ask,   *)
(* fail, succeed late, or die, no two of them hold a reserved probe of one  *)
(* provider, as long as probes end within a cool-down.                      *)
OneHalfOpenProbe ==
  \A c, d \in Probers :
    c # d /\ probe[c].reserved /\ probe[d].reserved => probe[c].of # probe[d].of

(* A provider that is enabled, answers and can be reached for good is found *)
(* usable for good: its circuit closes and its incident is resolved.        *)
Fit(p)     == p \in up /\ prov[p].enabled /\ ZoneOf[p] \in reach \cup {"local"}
Cleared(p) == /\ Usable(prov[p])
              /\ incidents \cap {p, ZoneOf[p], "global"} = {}
CircuitHeals == \A p \in Providers : <>[]Fit(p) => <>[]Cleared(p)

(* A task that one of its providers can serve for good, over a network that *)
(* it needs for good, does not stay suspended, nor is it suspended again,   *)
(* whatever becomes of its other providers and of what runs, unless no tick *)
(* gets past the reconciliation of another task (Wedge).  A batch holds all *)
(* suspended tasks: resume_suspended takes those that wait longest, whether *)
(* they may resume or not.                                                  *)
Candidates(t) == ToSet(Order[t]) \cup {First[t]}
Served(t) == /\ \E p \in Candidates(t) : Fit(p)
             /\ Needs[t] \in reach \cup {"none", "any"}
SuspensionEnds ==
  Cardinality(Tasks) <= Batch =>
    \A t \in Tasks : <>[](Served(t) /\ ~wedged) => <>[](task[t].status \notin Suspended)
=============================================================================
