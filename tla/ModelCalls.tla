----------------------------- MODULE ModelCalls -----------------------------
(***************************************************************************)
(* The ledger of model calls: one receipt per idempotency key, settled at  *)
(* most once, and what a session's calls are charged.  A provider reports  *)
(* a counter that grows over the life of a session; a settled call is      *)
(* charged the growth since the last settled call of its session.          *)
(*                                                                         *)
(* Of the settled rows the model keeps, per session, the counter of the    *)
(* last one and the sum of the charges.  One counter stands for the three  *)
(* (input, cached and output tokens), which are treated alike.             *)
(***************************************************************************)
EXTENDS Integers

CONSTANTS
  Calls,          \* idempotency keys
  Sessions,       \* sessions of providers
  NoSession,
  MaxCount        \* bound of the model: the counter of a session

ASSUME SessionAssumption == NoSession \notin Sessions
ASSUME CountAssumption   == MaxCount \in Nat

VARIABLES
  receipt,        \* the status of the receipt of each call
  snapshot,       \* the counter at the last settled call of each session
  charged,        \* the sum of the charges of a session's calls
  reported        \* the largest counter a settled call of the session reported

ledgerVars == <<receipt, snapshot, charged, reported>>

Final == {"completed", "failed"}

LedgerInit ==
  /\ receipt = [k \in Calls |-> "none"]
  /\ snapshot = [s \in Sessions |-> 0] /\ charged = [s \in Sessions |-> 0]
  /\ reported = [s \in Sessions |-> 0]

-----------------------------------------------------------------------------
(* The receipt of a call that nobody prepared before; it is written in two  *)
(* transactions, which recovery alone could tell apart, and does not.       *)
Send(k) ==
  /\ receipt[k] = "none"
  /\ receipt' = [receipt EXCEPT ![k] = "dispatched"]
  /\ UNCHANGED <<snapshot, charged, reported>>

(* A call goes out again.  A settled receipt stays as it is.               *)
Dispatch(k) ==
  /\ receipt[k] # "none"
  /\ receipt' = [receipt EXCEPT ![k] = IF @ \in Final THEN @ ELSE "dispatched"]
  /\ UNCHANGED <<snapshot, charged, reported>>

(* The counter of a session that was closed and opened again starts over.   *)
Growth(count, base) == IF count >= base THEN count - base ELSE count

ChargeOfSuccess(count, base, outcome) ==   \* a mutant of Charge: failures are free
  IF outcome = "failed" THEN 0 ELSE Growth(count, base)

Charge(count, base, outcome) == Growth(count, base)

(* The call ended in session s, the one it was made in if the provider      *)
(* named none, and reported a counter: 0 if it failed before it could.      *)
SettleRow(k, s, count, outcome) ==
  /\ receipt' = [receipt EXCEPT ![k] = outcome]
  /\ charged' = [t \in Sessions |->
       IF t = s THEN charged[t] + Charge(count, snapshot[t], outcome) ELSE charged[t]]
  /\ snapshot' = [t \in Sessions |-> IF t = s THEN count ELSE snapshot[t]]
  /\ reported' = [t \in Sessions |->
       IF t = s /\ count > reported[t] THEN count ELSE reported[t]]

Settle(k, s, count, outcome) ==
  /\ receipt[k] # "none"
  /\ IF receipt[k] \in Final THEN UNCHANGED ledgerVars
     ELSE SettleRow(k, s, count, outcome)

(* The control plane starts again, and the recovery of its first tick       *)
(* closes what its predecessor left open.  Until then a call can go out     *)
(* again, as it can afterwards.                                            *)
CloseOpen ==
  /\ receipt' = [k \in Calls |-> IF receipt[k] = "dispatched" THEN "unknown" ELSE receipt[k]]
  /\ UNCHANGED <<snapshot, charged, reported>>

LedgerNext ==
  \/ \E k \in Calls :
       \/ Send(k) \/ Dispatch(k)
       \/ \E s \in Sessions \cup {NoSession}, count \in 0..MaxCount, outcome \in Final :
            Settle(k, s, count, outcome)
  \/ CloseOpen

LedgerSpec == LedgerInit /\ [][LedgerNext]_ledgerVars

-----------------------------------------------------------------------------
LedgerTypeOK ==
  /\ receipt \in [Calls -> {"none", "dispatched", "unknown"} \cup Final]
  /\ snapshot \in [Sessions -> 0..MaxCount]
  /\ charged \in [Sessions -> Nat]
  /\ reported \in [Sessions -> 0..MaxCount]

(* Nothing a provider reported goes uncharged: whatever the order in which  *)
(* calls settle, fail or are closed by recovery, the calls of a session are *)
(* charged at least the largest counter that one of them reported.          *)
UsageCovered == \A s \in Sessions : charged[s] >= reported[s]

(* A receipt is settled once: its outcome stays, and a session is charged   *)
(* only by a call that is settled in that step.                             *)
SettledOnce ==
  [][/\ \A k \in Calls : receipt[k] \in Final => receipt'[k] = receipt[k]
     /\ charged' # charged => \E k \in Calls : receipt[k] \notin Final /\ receipt'[k] \in Final
    ]_ledgerVars
=============================================================================
