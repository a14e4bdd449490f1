------------------------------ MODULE TickProofs ------------------------------
(***************************************************************************)
(* Proofs about the tick, in two parts: the lease that keeps ticks apart    *)
(* (SchedulerLease, for any number of containers, API threads and minutes)  *)
(* and the probes that a tick and people make (Resilience, for any          *)
(* providers, zones, tasks and thresholds, and any number of threads).      *)
(*                                                                         *)
(* Fencing needs no assumption about time: a fencing token is given out    *)
(* once and never exceeds the one in the row (Fenced), so only the newest  *)
(* tick can end the lease or write a report.                               *)
(*                                                                         *)
(* That nobody overtakes a tick needs two things that the code does not     *)
(* make true by itself: the tick ends before its lease does (Timely), and   *)
(* no other thread uses its owner (Shares).  Then its thread has the newest *)
(* token and owns a lease that has not ended (Holds), for any assignment of *)
(* owners to threads.  That a minute is claimed by one cron tick needs      *)
(* that there is one cron thread: a second one may claim the minute that   *)
(* the first has claimed, after it claimed an earlier one.                 *)
(*                                                                         *)
(* A half-open circuit has one probe, because a reserved probe takes the   *)
(* circuit out of "open", and a circuit that opens again while the probe is *)
(* on its way, by the failure of an older one, is not due again before all  *)
(* of them are over.                                                       *)
(***************************************************************************)
EXTENDS SchedulerLease, Resilience, TLAPS

-----------------------------------------------------------------------------
(* The lease of the tick.                                                  *)

USE LeaseAssumption

Fenced ==
  /\ \A x \in Tickers : token[x] <= fence /\ (pc[x] = "ticking" => token[x] # 0)
  /\ \A x, y \in Tickers : token[x] = token[y] => x = y \/ token[x] = 0
  /\ result <= fence

FencedType == LeaseTypeOK /\ Fenced

-----------------------------------------------------------------------------
LEMMA TypeStep == LeaseTypeOK /\ [LeaseNext]_leaseVars => LeaseTypeOK'
<1> SUFFICES ASSUME LeaseTypeOK, [LeaseNext]_leaseVars PROVE LeaseTypeOK'
  OBVIOUS
<1> USE DEF LeaseTypeOK
<1>1. ASSUME NEW r \in Runners, Wake(r) \/ ClaimSlot(r) PROVE LeaseTypeOK'
  <2>1. r \in Tickers
    BY DEF Tickers
  <2> QED BY <1>1, <2>1 DEF Wake, ClaimSlot, clock, leaseRow, reports
<1>2. ASSUME NEW x \in Callers, Request(x) PROVE LeaseTypeOK'
  BY <1>2 DEF Request, clock, leaseRow, reports, Tickers
<1>3. ASSUME NEW x \in Tickers, Ticking(x) PROVE LeaseTypeOK'
  <2>1. CASE Acquire(x)
    BY <1>3, <2>1 DEF Acquire, clock, reports, Owners
  <2>2. CASE SkipBusy(x) \/ Fail(x)
    BY <1>3, <2>2 DEF SkipBusy, Fail, clock, leaseRow, reports
  <2>3. CASE Finish(x)
    BY <1>3, <2>3 DEF Finish, clock, reports
  <2> QED BY <1>3, <2>1, <2>2, <2>3 DEF Ticking
<1>4. ASSUME NEW c \in Containers, Restart(c) PROVE LeaseTypeOK'
  BY <1>4 DEF Restart, leaseRow, reports
<1>5. CASE Minute
  BY <1>5 DEF Minute, leaseRow, reports, threads
<1>6. CASE Rest \/ UNCHANGED leaseVars
  BY <1>6 DEF Rest, leaseVars, clock, leaseRow, reports, threads
<1> QED BY <1>1, <1>2, <1>3, <1>4, <1>5, <1>6 DEF LeaseNext

(* Type correctness: every column of scheduler_state and the place of every *)
(* thread keep their types.                                                *)
THEOREM LeaseTypeCorrect == LeaseSpec => []LeaseTypeOK
<1>1. LeaseInit => LeaseTypeOK
  BY DEF LeaseInit, LeaseTypeOK
<1> QED BY <1>1, TypeStep, PTL DEF LeaseSpec

-----------------------------------------------------------------------------
LEMMA FencedStep == LeaseTypeOK /\ Fenced /\ [LeaseNext]_leaseVars => Fenced'
<1> SUFFICES ASSUME LeaseTypeOK, Fenced, [LeaseNext]_leaseVars PROVE Fenced'
  OBVIOUS
<1> USE DEF LeaseTypeOK, Fenced
<1>1. ASSUME NEW x \in Tickers, Acquire(x) PROVE Fenced'
  BY <1>1 DEF Acquire, reports
<1>2. ASSUME NEW x \in Tickers, Finish(x) PROVE Fenced'
  BY <1>2 DEF Finish, reports
<1>3. ASSUME UNCHANGED <<fence, result, token>>,
             \A x \in Tickers : pc'[x] = "ticking" => pc[x] = "ticking"
      PROVE  Fenced'
  BY <1>3
<1>4. ASSUME NEW x \in Tickers, SkipBusy(x) \/ Fail(x) PROVE Fenced'
  BY <1>4, <1>3 DEF SkipBusy, Fail, leaseRow, reports
<1>5. ASSUME NEW r \in Runners, Wake(r) \/ ClaimSlot(r) PROVE Fenced'
  BY <1>5, <1>3 DEF Wake, ClaimSlot, leaseRow, reports
<1>6. ASSUME NEW x \in Callers, Request(x) PROVE Fenced'
  BY <1>6, <1>3 DEF Request, leaseRow, reports
<1>7. ASSUME NEW c \in Containers, Restart(c) PROVE Fenced'
  BY <1>7, <1>3 DEF Restart, leaseRow, reports
<1>8. CASE Minute \/ Rest \/ UNCHANGED leaseVars
  BY <1>8, <1>3 DEF Minute, Rest, leaseVars, leaseRow, reports, threads
<1> QED BY <1>1, <1>2, <1>4, <1>5, <1>6, <1>7, <1>8 DEF LeaseNext, Ticking

LEMMA AlwaysFenced == LeaseSpec => []FencedType
<1>1. LeaseInit => Fenced
  BY DEF LeaseInit, Fenced
<1>2. LeaseInit => LeaseTypeOK
  BY DEF LeaseInit, LeaseTypeOK
<1> QED BY <1>1, <1>2, TypeStep, FencedStep, PTL DEF LeaseSpec, FencedType

(* Fencing: whatever an older tick does, the lease of the newest tick that  *)
(* still works does not end earlier than it was granted.                   *)
THEOREM NewestIsFenced == LeaseSpec => NewestKeeps
<1>1. FencedType /\ [LeaseNext]_leaseVars
        => [\A x \in Tickers : Newest(x) /\ Newest(x)' => until' >= until]_leaseVars
  <2> SUFFICES ASSUME FencedType, LeaseNext, NEW x \in Tickers, Newest(x), Newest(x)'
               PROVE  until' >= until
    OBVIOUS
  <2> USE DEF FencedType, LeaseTypeOK
  <2>1. ASSUME NEW y \in Tickers, Acquire(y) PROVE FALSE
    <3>1. token'[x] = fence + 1
      BY <2>1 DEF Newest, Acquire
    <3>2. x = y
      BY <2>1, <3>1 DEF Newest, Acquire, Fenced
    <3> QED BY <2>1, <3>2 DEF Newest, Acquire
  <2>2. ASSUME NEW y \in Tickers, Finish(y) PROVE until' >= until
    <3>1. CASE y = x
      BY <2>2, <3>1 DEF Newest, Finish
    <3>2. CASE token[y] # fence
      BY <2>2, <3>2 DEF Finish
    <3>3. CASE y # x /\ token[y] = fence
      BY <2>2, <3>3 DEF Newest, Finish, Fenced
    <3> QED BY <3>1, <3>2, <3>3
  <2>3. ASSUME until' = until PROVE until' >= until
    BY <2>3
  <2> QED
    BY <2>1, <2>2, <2>3 DEF LeaseNext, Ticking, Wake, ClaimSlot, Request, SkipBusy, Fail,
       Restart, Minute, Rest, leaseVars, leaseRow, threads
<1> QED BY <1>1, AlwaysFenced, PTL DEF LeaseSpec, NewestKeeps

(* The report shown is that of the newest tick that finished: an older tick  *)
(* that finishes late does not overwrite it.                               *)
THEOREM ReportsAdvance == LeaseSpec => ReportsInOrder
<1>1. FencedType /\ [LeaseNext]_leaseVars => [result' >= result]_leaseVars
  <2> SUFFICES ASSUME FencedType, LeaseNext PROVE result' >= result
    OBVIOUS
  <2> USE DEF FencedType, LeaseTypeOK
  <2>1. ASSUME NEW y \in Tickers, Finish(y) PROVE result' >= result
    BY <2>1 DEF Finish, Fenced, reports
  <2>2. ASSUME result' = result PROVE result' >= result
    BY <2>2
  <2> QED
    BY <2>1, <2>2 DEF LeaseNext, Ticking, Wake, ClaimSlot, Request, Acquire, SkipBusy,
       Fail, Restart, Minute, Rest, leaseVars, reports
<1> QED BY <1>1, AlwaysFenced, PTL DEF LeaseSpec, ReportsInOrder

-----------------------------------------------------------------------------
Holds ==
  \A x \in Timely : pc[x] = "ticking" /\ ~Shares(x) =>
    owner = OwnerOf[x] /\ now < until /\ token[x] = fence

LEMMA HoldsOne == FencedType /\ Holds => OneTick
BY LeaseAssumption DEF FencedType, LeaseTypeOK, Fenced, Holds, OneTick

LEMMA HoldsStep ==
  ASSUME FencedType, Holds, [LeaseNext]_leaseVars
  PROVE  Holds'
<1> DEFINE Held(x) == owner' = OwnerOf[x] /\ now' < until' /\ token'[x] = fence'
<1> SUFFICES ASSUME NEW x \in Timely, pc'[x] = "ticking", ~Shares(x) PROVE Held(x)
  BY DEF Holds, Shares
<1>t. x \in Tickers
  BY LeaseAssumption
<1> USE <1>t DEF FencedType, LeaseTypeOK
<1>1. ASSUME NEW y \in Tickers, Acquire(y) PROVE Held(x)
  <2>1. pc[x] = "ticking" => x = y
    BY <1>1 DEF Acquire, Busy, Holds, Shares
  <2>2. x = y
    BY <1>1, <2>1 DEF Acquire
  <2> QED BY <1>1, <2>2, LeaseAssumption DEF Acquire, clock
<1>2. ASSUME NEW y \in Tickers, Finish(y) PROVE Held(x)
  <2>1. pc[x] = "ticking" /\ x # y
    BY <1>2 DEF Finish
  <2>2. token[x] = fence /\ token[y] # fence
    BY <2>1 DEF Holds, Fenced
  <2> QED BY <1>2, <2>1, <2>2 DEF Finish, Holds, clock
<1>3. ASSUME UNCHANGED <<now, owner, until, fence, token>>,
             pc'[x] = "ticking" => pc[x] = "ticking"
      PROVE  Held(x)
  BY <1>3 DEF Holds
<1>4. CASE Minute
  BY <1>4 DEF Minute, Holds, leaseRow, threads
<1>5. ASSUME NEW r \in Runners, Wake(r) \/ ClaimSlot(r) PROVE Held(x)
  BY <1>5, <1>3 DEF Wake, ClaimSlot, clock, leaseRow
<1>6. ASSUME NEW y \in Tickers, SkipBusy(y) \/ Fail(y) \/ (y \in Callers /\ Request(y))
      PROVE  Held(x)
  BY <1>6, <1>3 DEF SkipBusy, Fail, Request, clock, leaseRow
<1>7. ASSUME NEW c \in Containers, Restart(c) PROVE Held(x)
  BY <1>7, <1>3 DEF Restart, leaseRow
<1>8. CASE Rest \/ UNCHANGED leaseVars
  BY <1>8, <1>3 DEF Rest, leaseVars, clock, leaseRow, threads
<1> QED
  BY <1>1, <1>2, <1>4, <1>5, <1>6, <1>7, <1>8 DEF LeaseNext, Ticking, Tickers

(* However owners are given out, a tick that ends before its lease does is  *)
(* overtaken only if its thread shares its owner with another.             *)
THEOREM OneTickAtOnce == LeaseSpec => []OneTick
<1>1. LeaseInit => Holds
  BY LeaseAssumption DEF LeaseInit, Holds
<1>2. FencedType /\ Holds /\ [LeaseNext]_leaseVars => Holds'
  BY HoldsStep
<1>3. FencedType /\ Holds => OneTick
  BY HoldsOne
<1> QED BY <1>1, <1>2, <1>3, AlwaysFenced, PTL DEF LeaseSpec

-----------------------------------------------------------------------------
OneRunner == \A r, s \in Runners : r = s

(* A minute that the cron thread found due has come, and no later one has   *)
(* been claimed.                                                           *)
SlotPassed == slot <= now /\ \A r \in Runners : pc[r] = "due" => slot <= seen[r] /\ seen[r] <= now

LEMMA SlotStep ==
  ASSUME OneRunner, LeaseTypeOK, SlotPassed, [LeaseNext]_leaseVars
  PROVE  SlotPassed'
<1> USE DEF LeaseTypeOK, SlotPassed
<1>1. ASSUME NEW r \in Runners, Wake(r) PROVE SlotPassed'
  BY <1>1 DEF Wake, clock, Tickers, OneRunner
<1>2. ASSUME NEW r \in Runners, ClaimSlot(r) PROVE SlotPassed'
  BY <1>2 DEF ClaimSlot, clock, Tickers, OneRunner
<1>3. ASSUME UNCHANGED <<slot, seen>>, now' \in Nat, now' >= now,
             \A r \in Runners : pc'[r] = "due" => pc[r] = "due"
      PROVE  SlotPassed'
  BY <1>3
<1>4. ASSUME NEW x \in Callers, Request(x) PROVE SlotPassed'
  BY <1>4, <1>3, LeaseAssumption DEF Request, clock, Tickers
<1>5. ASSUME NEW x \in Tickers, Ticking(x) PROVE SlotPassed'
  BY <1>5, <1>3 DEF Ticking, Acquire, SkipBusy, Finish, Fail, clock, Tickers
<1>6. ASSUME NEW c \in Containers, Restart(c) PROVE SlotPassed'
  BY <1>6, <1>3 DEF Restart, Tickers
<1>7. CASE Minute
  BY <1>7, <1>3 DEF Minute, threads
<1>8. CASE Rest \/ UNCHANGED leaseVars
  BY <1>8, <1>3 DEF Rest, leaseVars, clock, threads
<1> QED BY <1>1, <1>2, <1>4, <1>5, <1>6, <1>7, <1>8 DEF LeaseNext

(* claim_cron_slot lets one cron tick have a minute, and no tick an earlier  *)
(* one, whatever restarts: as long as one thread claims.                   *)
THEOREM SlotsClaimedOnce == OneRunner => (LeaseSpec => SlotsAdvance)
<1> SUFFICES ASSUME OneRunner PROVE LeaseSpec => SlotsAdvance
  OBVIOUS
<1> DEFINE Later == /\ slot' >= slot
                    /\ (\E r \in Runners : pc[r] = "due" /\ pc'[r] = "called") => slot' > slot
<1>1. LeaseTypeOK /\ SlotPassed /\ [LeaseNext]_leaseVars => [Later]_leaseVars
  <2> SUFFICES ASSUME LeaseTypeOK, SlotPassed, LeaseNext PROVE Later
    OBVIOUS
  <2> USE DEF LeaseTypeOK, SlotPassed
  <2>1. ASSUME NEW r \in Runners, ClaimSlot(r) PROVE Later
    BY <2>1 DEF ClaimSlot, Tickers, OneRunner
  <2>2. ASSUME slot' = slot, \A r \in Runners : pc[r] = "due" => pc'[r] # "called" PROVE Later
    BY <2>2
  <2>3. ASSUME NEW r \in Runners, Wake(r) PROVE Later
    BY <2>3, <2>2 DEF Wake, Tickers
  <2>4. ASSUME NEW x \in Callers, Request(x) PROVE Later
    BY <2>4, <2>2, LeaseAssumption DEF Request, Tickers
  <2>5. ASSUME NEW x \in Tickers, Ticking(x) PROVE Later
    BY <2>5, <2>2 DEF Ticking, Acquire, SkipBusy, Finish, Fail, Tickers
  <2>6. ASSUME NEW c \in Containers, Restart(c) PROVE Later
    BY <2>6, <2>2 DEF Restart, Tickers
  <2>7. CASE Minute \/ Rest
    BY <2>7, <2>2 DEF Minute, Rest, threads, leaseVars
  <2> HIDE DEF Later
  <2> QED BY <2>1, <2>3, <2>4, <2>5, <2>6, <2>7 DEF LeaseNext
<1>2. LeaseInit => LeaseTypeOK /\ SlotPassed
  BY DEF LeaseInit, LeaseTypeOK, SlotPassed, Tickers
<1>3. LeaseTypeOK /\ SlotPassed /\ [LeaseNext]_leaseVars => (LeaseTypeOK /\ SlotPassed)'
  BY TypeStep, SlotStep
<1> QED BY <1>1, <1>2, <1>3, PTL DEF LeaseSpec, SlotsAdvance

-----------------------------------------------------------------------------
(* The probes.                                                             *)

HIDE LeaseAssumption
USE ProviderAssumption, ThresholdAssumption

(* A thread with a reserved probe calls or records, ...                     *)
ReservedCalls ==
  \A c \in Probers : probe[c].pc \notin {"call", "record"} => ~probe[c].reserved
(* ... one that probes does so with a provider, ...                        *)
ProbesProvider == \A c \in Probers : probe[c].pc # "idle" => probe[c].of \in Providers
(* ... and nobody else can reserve its provider.                           *)
ReservedBars == \A c \in Probers : probe[c].reserved => ~MayReserve(prov[probe[c].of])

ProbeInv ==
  /\ ResilienceTypeOK /\ ReservedCalls /\ ProbesProvider /\ ReservedBars /\ OneHalfOpenProbe

ProviderRow == [enabled : BOOLEAN, status : {"unknown", "available", "unavailable", "disabled"},
                circuit : {"closed", "open", "half_open"}, failures : 0..ProviderFailures,
                successes : 0..ProviderSuccesses, due : BOOLEAN]
ProbeRow == [pc : {"idle", "asked", "call", "record"}, of : Providers \cup {NoProvider},
             reserved : BOOLEAN, ok : BOOLEAN]

-----------------------------------------------------------------------------
(* record_probe keeps the type of a row, and leaves no circuit that is open *)
(* and due: the one it opens has its cool-down before it.                   *)
LEMMA ProbedRow ==
  ASSUME NEW row \in ProviderRow, NEW ok \in BOOLEAN
  PROVE  Probed(row, ok) \in ProviderRow /\ ~MayReserve(Probed(row, ok))
<1> DEFINE fails   == IF ok THEN 0 ELSE UpTo(row.failures + 1, ProviderFailures)
           wins    == IF ok THEN UpTo(row.successes + 1, ProviderSuccesses) ELSE 0
           closes  == ~row.enabled \/ wins >= ProviderSuccesses
           opens   == ~closes /\ Opens(row, fails)
           circuit == IF closes THEN "closed" ELSE IF opens THEN "open"
                      ELSE IF row.circuit = "open" THEN "half_open" ELSE row.circuit
           good    == circuit = "closed" /\
                        (ok \/ (fails < ProviderFailures /\ row.status = "available"))
           status  == IF ~row.enabled THEN "disabled"
                      ELSE IF good THEN "available" ELSE "unavailable"
           due     == IF opens THEN FALSE ELSE IF closes THEN TRUE ELSE row.due
<1>1. Probed(row, ok) = [row EXCEPT !.status = status, !.circuit = circuit,
                           !.failures = fails, !.successes = wins, !.due = due]
  BY DEF Probed
<1>2. fails \in 0..ProviderFailures /\ wins \in 0..ProviderSuccesses
  BY DEF UpTo, ProviderRow
<1>3. circuit \in {"closed", "open", "half_open"} /\ (circuit = "open" => ~due)
  BY DEF ProviderRow
<1>4. status \in {"unknown", "available", "unavailable", "disabled"} /\ due \in BOOLEAN
  BY DEF ProviderRow
<1> HIDE DEF fails, wins, closes, opens, circuit, good, status, due
<1>5. Probed(row, ok) \in ProviderRow
  BY <1>1, <1>2, <1>3, <1>4 DEF ProviderRow
<1>6. Probed(row, ok).circuit = circuit /\ Probed(row, ok).due = due
  BY <1>1 DEF ProviderRow
<1> QED BY <1>3, <1>5, <1>6 DEF MayReserve

(* Steps that touch neither a row of a provider nor a probe.                *)
LEMMA OtherStep ==
  ASSUME ProbeInv, UNCHANGED <<prov, probe>>,
         reach' \subseteq Zones, up' \subseteq Providers,
         zone' \in [Zones -> [state : {"unknown", "available", "unavailable"},
                              failures : 0..NetworkFailures, successes : 0..NetworkSuccesses]],
         incidents' \subseteq Zones \cup {"global"} \cup Providers
  PROVE  ProbeInv'
  BY DEF ProbeInv, ResilienceTypeOK, ReservedCalls, ProbesProvider, ReservedBars,
         OneHalfOpenProbe, MayReserve

LEMMA ZoneRow ==
  ASSUME NEW row \in [state : {"unknown", "available", "unavailable"},
                      failures : 0..NetworkFailures, successes : 0..NetworkSuccesses],
         NEW ok \in BOOLEAN
  PROVE  Observed(row, ok) \in [state : {"unknown", "available", "unavailable"},
                                failures : 0..NetworkFailures, successes : 0..NetworkSuccesses]
  BY DEF Observed, UpTo

-----------------------------------------------------------------------------
LEMMA ProbeAllowedStep ==
  ASSUME ProbeInv, NEW c \in Probers, ProbeAllowed(c)
  PROVE  ProbeInv'
<1> DEFINE p == probe[c].of
<1>1. probe[c].pc = "asked" /\ p \in Providers /\ ~probe[c].reserved
  BY DEF ProbeAllowed, ProbeInv, ProbesProvider, ReservedCalls
<1>2. /\ prov \in [Providers -> ProviderRow] /\ probe \in [Probers -> ProbeRow]
      /\ UNCHANGED <<reach, up, zone, incidents>>
  BY DEF ProbeInv, ResilienceTypeOK, ProbeAllowed, ProviderRow, ProbeRow, world
<1>3. CASE ~prov[p].enabled
  <2>1. probe' = [probe EXCEPT ![c].pc = "record"] /\ prov' = prov
    BY <1>3 DEF ProbeAllowed
  <2>2. probe' \in [Probers -> ProbeRow]
    BY <1>2, <2>1 DEF ProbeRow
  <2> QED BY <1>1, <1>2, <2>1, <2>2 DEF ProbeInv, ResilienceTypeOK, ReservedCalls,
           ProbesProvider, ReservedBars, OneHalfOpenProbe, MayReserve, ProbeRow
<1>4. CASE prov[p].enabled /\ (prov[p].circuit = "closed" \/ MayReserve(prov[p]))
  <2>1. /\ probe' = [probe EXCEPT ![c].pc = "call", ![c].reserved = prov[p].circuit # "closed"]
        /\ prov' = [prov EXCEPT ![p].circuit = IF @ = "open" THEN "half_open" ELSE @]
    BY <1>4 DEF ProbeAllowed
  <2>2. /\ probe' \in [Probers -> ProbeRow] /\ prov' \in [Providers -> ProviderRow]
        /\ \A q \in Providers : MayReserve(prov'[q]) => MayReserve(prov[q])
        /\ ~MayReserve(prov'[p])
    <3>1. probe' \in [Probers -> ProbeRow]
      <4> DEFINE row == [probe[c] EXCEPT !.pc = "call",
                                         !.reserved = prov[p].circuit # "closed"]
      <4>1. probe' = [probe EXCEPT ![c] = row]  BY <2>1
      <4>2. probe[c] \in ProbeRow  BY <1>2
      <4>3. row \in ProbeRow  BY <4>2 DEF ProbeRow
      <4> QED BY <1>2, <4>1, <4>3
    <3>2. prov' \in [Providers -> ProviderRow]
      BY <1>1, <1>2, <2>1 DEF ProviderRow
    <3>3. /\ \A q \in Providers : q # p => prov'[q] = prov[q]
          /\ prov'[p].circuit # "open"
      BY <1>1, <1>2, <2>1 DEF ProviderRow
    <3> QED BY <3>1, <3>2, <3>3 DEF MayReserve
  <2>3. /\ \A d \in Probers : d # c => probe'[d] = probe[d]
        /\ probe'[c].pc = "call" /\ probe'[c].of = p
        /\ probe'[c].reserved => MayReserve(prov[p])
    BY <1>1, <1>2, <1>4, <2>1 DEF ProbeRow
  <2>4. \A d \in Probers : d # c /\ probe'[c].reserved /\ probe[d].reserved => probe[d].of # p
    BY <2>3 DEF ProbeInv, ReservedBars
  <2>5. \A d \in Probers : probe[d].reserved => probe[d].of \in Providers
    BY DEF ProbeInv, ReservedCalls, ProbesProvider
  <2>6. ResilienceTypeOK'
    BY <1>2, <2>2 DEF ProbeInv, ResilienceTypeOK, ProviderRow, ProbeRow
  <2>7. ReservedCalls' /\ ProbesProvider'
    BY <1>1, <2>3 DEF ProbeInv, ReservedCalls, ProbesProvider
  <2>8. ReservedBars'
    <3> SUFFICES ASSUME NEW d \in Probers, probe'[d].reserved
                 PROVE  ~MayReserve(prov'[probe'[d].of])
      BY DEF ReservedBars, MayReserve
    <3> QED BY <2>2, <2>3, <2>5 DEF ProbeInv, ReservedBars
  <2>9. OneHalfOpenProbe'
    BY <2>3, <2>4 DEF ProbeInv, OneHalfOpenProbe
  <2> QED BY <2>6, <2>7, <2>8, <2>9 DEF ProbeInv
<1>5. CASE prov[p].enabled /\ ~(prov[p].circuit = "closed" \/ MayReserve(prov[p]))
  <2>1. probe' = [probe EXCEPT ![c] = NoProbe] /\ prov' = prov
    BY <1>5 DEF ProbeAllowed, Reports
  <2>2. probe' \in [Probers -> ProbeRow]
    BY <1>2, <2>1 DEF ProbeRow, NoProbe
  <2> QED BY <1>2, <2>1, <2>2 DEF ProbeInv, ResilienceTypeOK, ReservedCalls, NoProbe,
           ProbesProvider, ReservedBars, OneHalfOpenProbe, MayReserve, ProbeRow
<1> QED BY <1>3, <1>4, <1>5

LEMMA RecordProbeStep ==
  ASSUME ProbeInv, NEW c \in Probers, RecordProbe(c)
  PROVE  ProbeInv'
<1> DEFINE p == probe[c].of
<1>1. /\ prov \in [Providers -> ProviderRow] /\ probe \in [Probers -> ProbeRow]
      /\ UNCHANGED <<reach, up, zone, incidents>>
  BY DEF ProbeInv, ResilienceTypeOK, RecordProbe, ProviderRow, ProbeRow, world
<1>2. /\ p \in Providers
      /\ prov' = [prov EXCEPT ![p] = Probed(prov[p], probe[c].ok)]
      /\ probe' = [probe EXCEPT ![c] = NoProbe]
  BY DEF RecordProbe, Reports, ProbeInv, ProbesProvider
<1>3. /\ Probed(prov[p], probe[c].ok) \in ProviderRow
      /\ ~MayReserve(Probed(prov[p], probe[c].ok))
  BY <1>1, <1>2, ProbedRow DEF ProbeRow
<1>4. /\ prov' \in [Providers -> ProviderRow] /\ probe' \in [Probers -> ProbeRow]
      /\ \A q \in Providers : MayReserve(prov'[q]) => MayReserve(prov[q])
  <2>1. prov' \in [Providers -> ProviderRow]
    BY <1>1, <1>2, <1>3
  <2>2. probe' \in [Probers -> ProbeRow]
    BY <1>1, <1>2 DEF ProbeRow, NoProbe
  <2>3. ASSUME NEW q \in Providers, MayReserve(prov'[q]) PROVE MayReserve(prov[q])
    <3>1. q # p
      BY <1>1, <1>2, <1>3, <2>3
    <3> QED BY <1>1, <1>2, <2>3, <3>1
  <2> QED BY <2>1, <2>2, <2>3
<1>5. /\ \A d \in Probers : d # c => probe'[d] = probe[d]
      /\ probe'[c].pc = "idle" /\ ~probe'[c].reserved
  BY <1>1, <1>2 DEF NoProbe
<1>6. ResilienceTypeOK'
  BY <1>1, <1>4 DEF ProbeInv, ResilienceTypeOK, ProviderRow, ProbeRow
<1>7. ReservedCalls' /\ ProbesProvider' /\ OneHalfOpenProbe'
  BY <1>5 DEF ProbeInv, ReservedCalls, ProbesProvider, OneHalfOpenProbe
<1>8. ReservedBars'
  <2> SUFFICES ASSUME NEW d \in Probers, probe'[d].reserved
               PROVE  ~MayReserve(prov'[probe'[d].of])
    BY DEF ReservedBars, MayReserve
  <2>1. probe'[d] = probe[d] /\ probe[d].of \in Providers
    BY <1>5 DEF ProbeInv, ReservedCalls, ProbesProvider
  <2> QED BY <1>4, <2>1 DEF ProbeInv, ReservedBars
<1> QED BY <1>6, <1>7, <1>8 DEF ProbeInv

(* A step that changes probes, but not which of them are reserved.          *)
LEMMA ProbeStep ==
  ASSUME ProbeInv, UNCHANGED <<reach, up, zone, incidents, prov>>,
         probe' \in [Probers -> ProbeRow],
         \A c \in Probers : \/ probe'[c] = NoProbe
                            \/ /\ probe'[c].of = probe[c].of /\ probe'[c].pc = "record"
                               /\ probe[c].pc # "idle" /\ probe'[c].reserved = probe[c].reserved
                            \/ /\ probe'[c].of \in Providers /\ ~probe'[c].reserved
                            \/ probe'[c] = probe[c]
  PROVE  ProbeInv'
<1>1. ResilienceTypeOK'
  BY DEF ProbeInv, ResilienceTypeOK, ProbeRow
<1>2. \A c \in Probers : probe'[c].reserved => probe[c].reserved /\ probe'[c].of = probe[c].of
  BY DEF NoProbe
<1>3. ReservedCalls' /\ ProbesProvider'
  BY DEF ProbeInv, ReservedCalls, ProbesProvider, NoProbe
<1>4. ReservedBars' /\ OneHalfOpenProbe'
  BY <1>2 DEF ProbeInv, ReservedBars, OneHalfOpenProbe, MayReserve
<1> QED BY <1>1, <1>3, <1>4 DEF ProbeInv

(* A cool-down ends when no probe is on its way, and an operator changes    *)
(* neither a circuit nor its cool-down.                                     *)
LEMMA ProviderStep ==
  ASSUME ProbeInv, NEW p \in Providers, CoolDownEnds(p) \/ PutProvider(p)
  PROVE  ProbeInv'
<1>1. prov \in [Providers -> ProviderRow]
  BY DEF ProbeInv, ResilienceTypeOK, ProviderRow
<1>2. UNCHANGED <<reach, up, zone, incidents, probe>>
  BY DEF CoolDownEnds, PutProvider, world
<1>3. prov' \in [Providers -> ProviderRow]
  <2>1. CASE CoolDownEnds(p)
    <3>1. [prov[p] EXCEPT !.due = TRUE] \in ProviderRow
      BY <1>1 DEF ProviderRow
    <3>2. prov' = [prov EXCEPT ![p] = [prov[p] EXCEPT !.due = TRUE]]
      BY <1>1, <2>1 DEF CoolDownEnds
    <3> QED BY <1>1, <3>1, <3>2
  <2>2. CASE PutProvider(p)
    <3> DEFINE status == IF prov[p].enabled THEN "disabled" ELSE "unknown"
               row    == [prov[p] EXCEPT !.enabled = ~prov[p].enabled, !.status = status]
    <3>1. row \in ProviderRow
      BY ZenonT(60), <1>1 DEF ProviderRow
    <3>2. prov' = [prov EXCEPT ![p] = row]
      BY <1>1, <2>2 DEF PutProvider
    <3> HIDE DEF row
    <3> QED BY <1>1, <3>1, <3>2
  <2> QED BY <2>1, <2>2
<1>4. \A c \in Probers : probe[c].reserved => probe[c].pc \in {"call", "record"} /\ probe[c].of \in Providers
  BY DEF ProbeInv, ReservedCalls, ProbesProvider
<1>5. ASSUME NEW c \in Probers, probe[c].reserved PROVE ~MayReserve(prov'[probe[c].of])
  <2>1. ~MayReserve(prov[probe[c].of])
    BY <1>5 DEF ProbeInv, ReservedBars
  <2>2. CASE CoolDownEnds(p)
    <3>1. probe[c].of # p
      BY <1>4, <1>5, <2>2 DEF CoolDownEnds
    <3> QED BY <1>1, <1>4, <1>5, <2>1, <2>2, <3>1 DEF CoolDownEnds
  <2>3. CASE PutProvider(p)
    <3>1. /\ prov'[probe[c].of].circuit = prov[probe[c].of].circuit
          /\ prov'[probe[c].of].due = prov[probe[c].of].due
      BY <1>1, <1>4, <1>5, <2>3 DEF PutProvider, ProviderRow
    <3> QED BY <2>1, <3>1 DEF MayReserve
  <2> QED BY <2>2, <2>3
<1>6. ResilienceTypeOK'
  BY <1>2, <1>3 DEF ProbeInv, ResilienceTypeOK, ProviderRow
<1>7. ReservedCalls' /\ ProbesProvider' /\ OneHalfOpenProbe'
  BY <1>2 DEF ProbeInv, ReservedCalls, ProbesProvider, OneHalfOpenProbe
<1>8. ReservedBars'
  BY <1>2, <1>5 DEF ReservedBars, MayReserve
<1> QED BY <1>6, <1>7, <1>8 DEF ProbeInv

LEMMA ProbeInvInductive == ProbeInv /\ [ResilienceNext]_resilienceVars => ProbeInv'
<1> SUFFICES ASSUME ProbeInv, [ResilienceNext]_resilienceVars PROVE ProbeInv'
  OBVIOUS
<1> USE DEF world, taskVars
<1>t. /\ reach \subseteq Zones /\ up \subseteq Providers
      /\ zone \in [Zones -> [state : {"unknown", "available", "unavailable"},
                             failures : 0..NetworkFailures, successes : 0..NetworkSuccesses]]
      /\ incidents \subseteq Zones \cup {"global"} \cup Providers
      /\ probe \in [Probers -> ProbeRow]
  BY DEF ProbeInv, ResilienceTypeOK, ProbeRow
<1>1. CASE Check \/ SuspendActive \/ Reconcile \/ ResumeSuspended \/ Dispatch \/ Wedge
  BY <1>1, <1>t, OtherStep DEF Check, SuspendActive, Reconcile, ResumeSuspended, Dispatch, Wedge
<1>2. CASE RecordNetwork
  <2>1. zone' = [z \in Zones |-> Observed(zone[z], z \in tick.ok)]
    BY <1>2 DEF RecordNetwork
  <2>2. zone' \in [Zones -> [state : {"unknown", "available", "unavailable"},
                             failures : 0..NetworkFailures, successes : 0..NetworkSuccesses]]
    <3>1. ASSUME NEW z \in Zones
          PROVE  Observed(zone[z], z \in tick.ok)
                   \in [state : {"unknown", "available", "unavailable"},
                       failures : 0..NetworkFailures, successes : 0..NetworkSuccesses]
      <4>1. zone[z] \in [state : {"unknown", "available", "unavailable"},
                        failures : 0..NetworkFailures, successes : 0..NetworkSuccesses]
        BY <1>t
      <4> DEFINE ok == z \in tick.ok
      <4>2. ok \in BOOLEAN
        OBVIOUS
      <4> HIDE DEF ok
      <4>3. Observed(zone[z], ok)
              \in [state : {"unknown", "available", "unavailable"},
                  failures : 0..NetworkFailures, successes : 0..NetworkSuccesses]
        BY <4>1, <4>2, ZoneRow
      <4> QED BY <4>3, Zenon DEF ok
    <3> QED BY <2>1, <3>1, Zenon
  <2>3. incidents' \subseteq Zones \cup {"global"} \cup Providers
    BY <1>2, <1>t DEF RecordNetwork, NetworkIncidents, Resolved, Upserted, Down
  <2>4. UNCHANGED <<reach, up, prov, probe>>
    BY <1>2 DEF RecordNetwork
  <2> QED BY <1>t, <2>2, <2>3, <2>4, OtherStep
<1>3. CASE ProbeAll
  <2>1. UNCHANGED <<reach, up, zone, incidents, prov>>
    BY <1>3 DEF ProbeAll
  <2>2. \A c \in Probers : \/ probe'[c] = probe[c]
                           \/ c \in Providers /\ probe'[c] = [NoProbe EXCEPT !.pc = "asked", !.of = c]
    BY <1>3 DEF ProbeAll
  <2>3. probe' \in [Probers -> ProbeRow]
    <3>1. probe' = [c \in Probers |-> probe'[c]]
      BY <1>3 DEF ProbeAll
    <3>2. ASSUME NEW c \in Probers PROVE probe'[c] \in ProbeRow
      <4>1. CASE probe'[c] = probe[c]
        BY <1>t, <4>1
      <4>2. CASE c \in Providers /\ probe'[c] = [NoProbe EXCEPT !.pc = "asked", !.of = c]
        BY <4>2 DEF ProbeRow, NoProbe
      <4> QED BY <2>2, <4>1, <4>2
    <3> QED BY <3>1, <3>2
  <2> QED BY ZenonT(60), <2>1, <2>2, <2>3, ProbeStep DEF NoProbe
<1>4. CASE RecordProviderHealth
  <2>1. incidents' \subseteq Zones \cup {"global"} \cup Providers
    BY <1>4, <1>t DEF RecordProviderHealth, Resolved, Upserted
  <2> QED BY <1>4, <1>t, <2>1, OtherStep DEF RecordProviderHealth
<1>5. ASSUME NEW t \in Tasks, SwitchSuspended(t) \/ RouteReady(t) PROVE ProbeInv'
  BY <1>5, <1>t, OtherStep DEF SwitchSuspended, RouteReady
<1>6. ASSUME NEW c \in Probers, ProbeAllowed(c) PROVE ProbeInv'
  BY <1>6, ProbeAllowedStep
<1>7. ASSUME NEW c \in Probers, CallBridge(c) PROVE ProbeInv'
  <2>1. UNCHANGED <<reach, up, zone, incidents, prov>> /\ probe[c].pc = "call"
    BY <1>7 DEF CallBridge
  <2> DEFINE ok  == probe[c].of \in up
             row == [probe[c] EXCEPT !.pc = "record", !.ok = ok]
  <2>a. probe' = [probe EXCEPT ![c] = row]
    BY <1>7, <1>t DEF CallBridge
  <2>b. ok \in BOOLEAN
    OBVIOUS
  <2>c. ProbeRow = [pc : {"idle", "asked", "call", "record"},
                    of : Providers \cup {NoProvider}, reserved : BOOLEAN, ok : BOOLEAN]
    BY DEF ProbeRow
  <2>d. probe[c] \in ProbeRow
    BY <1>t
  <2> HIDE DEF ok
  <2>e. /\ row \in ProbeRow /\ row.of = probe[c].of /\ row.pc = "record"
        /\ row.reserved = probe[c].reserved
    BY <2>b, <2>c, <2>d
  <2> HIDE DEF row
  <2>2. /\ probe' \in [Probers -> ProbeRow]
        /\ \A d \in Probers : d # c => probe'[d] = probe[d]
        /\ probe'[c].of = probe[c].of /\ probe'[c].pc = "record"
        /\ probe'[c].reserved = probe[c].reserved
    BY <1>t, <2>a, <2>e
  <2> QED BY <2>1, <2>2, ProbeStep
<1>8. ASSUME NEW c \in Probers, RecordProbe(c) PROVE ProbeInv'
  BY <1>8, RecordProbeStep
<1>9. ASSUME NEW c \in Clients, NEW p \in Providers, AskProbe(c, p) PROVE ProbeInv'
  <2>1. UNCHANGED <<reach, up, zone, incidents, prov>> /\ c \in Probers
    BY <1>9 DEF AskProbe, Probers
  <2>2. probe' = [probe EXCEPT ![c] = [NoProbe EXCEPT !.pc = "asked", !.of = p]]
    BY <1>9 DEF AskProbe
  <2>3. /\ probe' \in [Probers -> ProbeRow]
        /\ \A d \in Probers : d # c => probe'[d] = probe[d]
        /\ probe'[c].of \in Providers /\ ~probe'[c].reserved
    BY <1>t, <2>1, <2>2 DEF ProbeRow, NoProbe
  <2> QED BY <2>1, <2>3, ProbeStep
<1>10. ASSUME NEW z \in Zones, ZoneChanges(z) PROVE ProbeInv'
  BY <1>10, <1>t, OtherStep DEF ZoneChanges, Toggled
<1>11. ASSUME NEW p \in Providers, ProviderChanges(p) PROVE ProbeInv'
  BY <1>11, <1>t, OtherStep DEF ProviderChanges, Toggled
<1>12. ASSUME NEW p \in Providers, CoolDownEnds(p) \/ PutProvider(p) PROVE ProbeInv'
  BY <1>12, ProviderStep
<1>13. ASSUME NEW t \in Tasks, RunEnds(t) \/ OperatorResume(t) \/ Drive(t) PROVE ProbeInv'
  BY <1>13, <1>t, OtherStep DEF RunEnds, OperatorResume, Drive, Operate
<1>14. CASE Crash
  <2>1. /\ UNCHANGED <<reach, up, zone, incidents, prov>>
        /\ probe' = [c \in Probers |-> NoProbe]
    BY <1>14 DEF Crash
  <2>2. probe' \in [Probers -> ProbeRow]
    BY <2>1 DEF ProbeRow, NoProbe
  <2> QED BY <2>1, <2>2, ProbeStep
<1>15. CASE UNCHANGED resilienceVars
  BY <1>15, <1>t, OtherStep DEF resilienceVars
<1> QED BY <1>1, <1>2, <1>3, <1>4, <1>5, <1>6, <1>7, <1>8, <1>9, <1>10, <1>11, <1>12, <1>13,
           <1>14, <1>15 DEF ResilienceNext, TickStep, Probing

LEMMA ProbeInvHolds == ResilienceSpec => []ProbeInv
<1>1. ResilienceInit => ProbeInv
  <2> SUFFICES ASSUME ResilienceInit PROVE ProbeInv
    OBVIOUS
  <2>1. ResilienceTypeOK
    BY DEF ResilienceInit, ResilienceTypeOK, NoProbe
  <2>2. \A c \in Probers : probe[c].pc = "idle" /\ ~probe[c].reserved
    BY DEF ResilienceInit, NoProbe
  <2> QED BY <2>1, <2>2 DEF ProbeInv, ReservedCalls, ProbesProvider, ReservedBars, OneHalfOpenProbe
<1> QED BY <1>1, ProbeInvInductive, PTL DEF ResilienceSpec

-----------------------------------------------------------------------------
(* What is recorded of zones, providers, probes and incidents keeps its     *)
(* type.                                                                   *)
THEOREM ResilienceTypeCorrect == ResilienceSpec => []ResilienceTypeOK
<1>1. ProbeInv => ResilienceTypeOK
  BY DEF ProbeInv
<1> QED BY <1>1, ProbeInvHolds, PTL

(* probe_allowed reserves a half-open probe for one thread at a time,       *)
(* whatever late answers, operators, outages and crashes do to the circuit. *)
THEOREM OneProbeAtATime == ResilienceSpec => []OneHalfOpenProbe
<1>1. ProbeInv => OneHalfOpenProbe
  BY DEF ProbeInv
<1> QED BY <1>1, ProbeInvHolds, PTL
=============================================================================
