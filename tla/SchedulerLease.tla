---------------------------- MODULE SchedulerLease ----------------------------
(***************************************************************************)
(* The row of scheduler_state, and those who tick: the embedded cron thread *)
(* of every container, the requests to /api/scheduler/tick and the command  *)
(* scheduler-tick.  A tick                                                  *)
(* acquires the global lease, works, and finishes; nothing renews the lease *)
(* while it works.  Every repository call is one immediate transaction.    *)
(*                                                                         *)
(* Time is a minute, for the cron slot, for lease_until and for            *)
(* last_tick_at: CURRENT_TIMESTAMP and the runner's clock are one clock.   *)
(***************************************************************************)
EXTENDS Integers, FiniteSets

CONSTANTS
  Runners,     \* the cron threads, one per container
  Callers,     \* the threads that serve /api/scheduler/tick, and commands
  OwnerOf,     \* OwnerOf[x]: the owner with which x acquires the lease
  HomeOf,      \* HomeOf[x]: the container of x
  Cron,        \* the minutes that the cron expression matches
  CatchUp,     \* cron_misfire_policy is catch_up_once
  LeaseTime,   \* scheduler_lease_seconds
  Timely,      \* the tickers whose ticks end before their lease does
  MaxMinute,   \* bound of the model: minutes
  MaxFence,    \* bound of the model: ticks
  MaxCrashes   \* bound of the model: restarts of containers

Tickers    == Runners \cup Callers
Owners     == {OwnerOf[x] : x \in Tickers}
Containers == {HomeOf[x] : x \in Tickers}

ASSUME LeaseAssumption ==
  /\ Runners \cap Callers = {}
  /\ DOMAIN OwnerOf = Tickers /\ DOMAIN HomeOf = Tickers
  /\ Cron \subseteq Nat \ {0}
  /\ CatchUp \in BOOLEAN /\ Timely \subseteq Tickers
  /\ LeaseTime \in Nat \ {0}
  /\ MaxMinute \in Nat /\ MaxFence \in Nat /\ MaxCrashes \in Nat

VARIABLES
  now,       \* the minute
  owner,     \* lease_owner
  until,     \* lease_until
  fence,     \* fencing_token, with which lease_token changes
  slot,      \* last_cron_slot, 0 if there is none
  lastTick,  \* last_tick_at, 0 if there is none
  result,    \* the fencing token of last_result_json
  pc,        \* where each ticker is
  seen,      \* the slot a runner found due
  token,     \* the fencing token a ticker works with
  crashes

clock     == <<now, crashes>>
leaseRow  == <<owner, until, fence>>
reports   == <<lastTick, result>>
threads   == <<pc, seen, token>>
leaseVars == <<clock, leaseRow, slot, reports, threads>>

-----------------------------------------------------------------------------
(* run_due.                                                                *)

Due(m) ==
  \/ m \in Cron
  \/ CatchUp /\ lastTick # 0 /\ \E k \in Cron : lastTick < k /\ k <= m

Wake(r) ==
  /\ pc[r] = "idle" /\ Due(now)
  /\ seen' = [seen EXCEPT ![r] = now]
  /\ pc' = [pc EXCEPT ![r] = "due"]
  /\ UNCHANGED <<clock, leaseRow, slot, reports, token>>

ClaimSlotAgain(r) ==            \* a mutant of ClaimSlot: it does not compare
  /\ pc[r] = "due"
  /\ slot' = seen[r] /\ pc' = [pc EXCEPT ![r] = "called"]
  /\ UNCHANGED <<clock, leaseRow, reports, seen, token>>

(* claim_cron_slot: the minute must differ from the one claimed last.      *)
ClaimSlot(r) ==
  /\ pc[r] = "due"
  /\ IF slot # seen[r]
     THEN slot' = seen[r] /\ pc' = [pc EXCEPT ![r] = "called"]
     ELSE UNCHANGED slot /\ pc' = [pc EXCEPT ![r] = "idle"]
  /\ UNCHANGED <<clock, leaseRow, reports, seen, token>>

Request(x) ==
  /\ pc[x] = "idle"
  /\ pc' = [pc EXCEPT ![x] = "called"]
  /\ UNCHANGED <<clock, leaseRow, slot, reports, seen, token>>

-----------------------------------------------------------------------------
(* tick.                                                                   *)

BusyForNobody(x) == FALSE       \* a mutant of Busy: lease_until is ignored
Busy(x) == until > now /\ owner # OwnerOf[x]

Acquire(x) ==
  /\ pc[x] = "called" /\ ~Busy(x) /\ fence < MaxFence
  /\ owner' = OwnerOf[x] /\ until' = now + LeaseTime /\ fence' = fence + 1
  /\ token' = [token EXCEPT ![x] = fence + 1]
  /\ pc' = [pc EXCEPT ![x] = "ticking"]
  /\ UNCHANGED <<clock, slot, reports, seen>>

SkipBusy(x) ==
  /\ pc[x] = "called" /\ Busy(x)
  /\ pc' = [pc EXCEPT ![x] = "idle"]
  /\ UNCHANGED <<clock, leaseRow, slot, reports, seen, token>>

FinishUnfenced(x) ==            \* a mutant of Finish: the token is not compared
  /\ pc[x] = "ticking"
  /\ pc' = [pc EXCEPT ![x] = "idle"]
  /\ until' = now /\ lastTick' = now /\ result' = token[x]
  /\ UNCHANGED <<clock, owner, fence, slot, seen, token>>

(* finish, for the lease that is still that of x.                          *)
Finish(x) ==
  /\ pc[x] = "ticking"
  /\ pc' = [pc EXCEPT ![x] = "idle"]
  /\ IF token[x] = fence THEN until' = now /\ lastTick' = now /\ result' = token[x]
                         ELSE UNCHANGED <<until, reports>>
  /\ UNCHANGED <<clock, owner, fence, slot, seen, token>>

(* The tick raises: nothing releases its lease, and the loop goes on.      *)
Fail(x) ==
  /\ pc[x] = "ticking"
  /\ pc' = [pc EXCEPT ![x] = "idle"]
  /\ UNCHANGED <<clock, leaseRow, slot, reports, seen, token>>

-----------------------------------------------------------------------------
Minute ==
  /\ now < MaxMinute
  /\ \A x \in Timely : pc[x] = "ticking" => now + 1 < until
  /\ now' = now + 1
  /\ UNCHANGED <<crashes, leaseRow, slot, reports, threads>>

(* A container dies and is restarted, with the same host name and pid.     *)
Restart(c) ==
  /\ crashes < MaxCrashes /\ crashes' = crashes + 1
  /\ pc' = [x \in Tickers |-> IF HomeOf[x] = c THEN "idle" ELSE pc[x]]
  /\ UNCHANGED <<now, leaseRow, slot, reports, seen, token>>

(* A bound of the model is reached: nothing more need happen.               *)
Rest == (now = MaxMinute \/ fence = MaxFence) /\ UNCHANGED leaseVars

LeaseInit ==
  /\ now = 1 /\ crashes = 0
  /\ owner \in Owners /\ until = 0 /\ fence = 0
  /\ slot = 0 /\ lastTick = 0 /\ result = 0
  /\ pc = [x \in Tickers |-> "idle"]
  /\ seen = [r \in Runners |-> 0]
  /\ token = [x \in Tickers |-> 0]

Ticking(x) == Acquire(x) \/ SkipBusy(x) \/ Finish(x) \/ Fail(x)

LeaseNext ==
  \/ \E r \in Runners : Wake(r) \/ ClaimSlot(r)
  \/ \E x \in Callers : Request(x)
  \/ \E x \in Tickers : Ticking(x)
  \/ \E c \in Containers : Restart(c)
  \/ Minute \/ Rest

LeaseSpec == LeaseInit /\ [][LeaseNext]_leaseVars

-----------------------------------------------------------------------------
(* Properties.                                                             *)

LeaseTypeOK ==
  /\ now \in Nat /\ crashes \in Nat
  /\ owner \in Owners /\ until \in Nat /\ fence \in Nat
  /\ slot \in Nat /\ lastTick \in Nat /\ result \in Nat
  /\ pc \in [Tickers -> {"idle", "due", "called", "ticking"}]
  /\ seen \in [Runners -> Nat] /\ token \in [Tickers -> Nat]

Newest(x) == pc[x] = "ticking" /\ token[x] = fence

(* While the newest tick works its lease is never cut short, whichever      *)
(* older ticks, that lost their lease long ago, finish meanwhile.           *)
NewestKeeps ==
  [][\A x \in Tickers : Newest(x) /\ Newest(x)' => until' >= until]_leaseVars

(* The report of a tick is never overwritten by that of an older tick.      *)
ReportsInOrder == [][result' >= result]_leaseVars

(* A tick that ends in time is overtaken by another only if it was started  *)
(* by one of several threads that tick as one owner, as all requests to     *)
(* /api/scheduler/tick do: to them the lease is not busy, and the newest of *)
(* them may end it for everybody while the others still work.  Whoever has  *)
(* an owner of its own ticks alone until it is done, whatever others do     *)
(* that outlive their lease.                                               *)
Shares(x) == \E y \in Tickers \ {x} : OwnerOf[y] = OwnerOf[x]

OneTick ==
  \A x \in Timely, y \in Tickers :
    pc[x] = "ticking" /\ pc[y] = "ticking" /\ token[x] < token[y] => Shares(x)

(* A minute is claimed by one cron tick, restarts included.                 *)
SlotsAdvance ==
  [][/\ slot' >= slot
     /\ (\E r \in Runners : pc[r] = "due" /\ pc'[r] = "called") => slot' > slot]_leaseVars
=============================================================================
