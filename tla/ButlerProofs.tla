----------------------------- MODULE ButlerProofs -----------------------------
(***************************************************************************)
(* Proofs about the Butler, for any threads, drafts, proposals and bounds.  *)
(*                                                                         *)
(* First the ledger of its calls: what is charged covers what was reported  *)
(* because a charge starts from the counter that was settled last, and the  *)
(* charges of a session are never below that counter.  The Butler uses the  *)
(* ledger as ModelCalls allows, so that this holds of its calls.  And a     *)
(* conversation is marked as it was read: a thread that read the            *)
(* conversation at its present revision has read its present turns, for     *)
(* every turn makes a revision.  The goal that is named by then exists,     *)
(* for only a thread that created or found it gets as far as the mark, and  *)
(* no goal is made of a version that the conversation has not reached.      *)
(*                                                                         *)
(* Then the global conversation: a thread that waits with the answer to a   *)
(* message read the conversation when that message was its last, and a      *)
(* reply is refused if anything was said since.                             *)
(*                                                                         *)
(* And proposals: whatever meets the contract, and the defaults of an       *)
(* owner's draft, make a plan, because the order of the lanes and the       *)
(* verification added to them keep what validate_goal_plan accepts, and     *)
(* nothing but such a proposal or an owner's words is written to a draft.   *)
(* Only here something has to be known of drafts; before, only that rows    *)
(* are records with the fields they began with.                             *)
(***************************************************************************)
EXTENDS Butler, GoalPlanProofs

(* The charges of a session reach its last settled counter: the inductive   *)
(* strengthening of UsageCovered.                                          *)
SnapshotCovered == \A s \in Sessions : charged[s] >= snapshot[s]

LedgerInv == LedgerTypeOK /\ UsageCovered /\ SnapshotCovered

-----------------------------------------------------------------------------
(* A charge is a number, and added to what reached the base it reaches the  *)
(* counter.                                                                *)
LEMMA ChargeReaches ==
  ASSUME NEW count \in 0..MaxCount, NEW base \in 0..MaxCount,
         NEW sum \in Nat, sum >= base, NEW outcome
  PROVE  /\ Charge(count, base, outcome) \in Nat
         /\ sum + Charge(count, base, outcome) >= count
  BY CountAssumption DEF Charge, Growth

LEMMA SettleKeepsInv ==
  ASSUME LedgerInv, NEW k \in Calls, NEW r \in Sessions \cup {NoSession},
         NEW count \in 0..MaxCount, NEW outcome \in Final, SettleRow(k, r, count, outcome)
  PROVE  LedgerInv'
<1> USE DEF SettleRow, Final
<1>1. receipt' \in [Calls -> {"none", "dispatched", "unknown"} \cup Final]
  BY DEF LedgerInv, LedgerTypeOK
<1>2. \A s \in Sessions : /\ snapshot[s] \in 0..MaxCount /\ charged[s] \in Nat
                          /\ reported[s] \in 0..MaxCount
                          /\ charged[s] >= snapshot[s] /\ charged[s] >= reported[s]
  BY DEF LedgerInv, LedgerTypeOK, UsageCovered, SnapshotCovered
<1>3. ASSUME NEW s \in Sessions
      PROVE  /\ snapshot'[s] \in 0..MaxCount /\ charged'[s] \in Nat
             /\ reported'[s] \in 0..MaxCount
             /\ charged'[s] >= snapshot'[s] /\ charged'[s] >= reported'[s]
  <2>1. /\ Charge(count, snapshot[s], outcome) \in Nat
        /\ charged[s] + Charge(count, snapshot[s], outcome) >= count
    BY <1>2, ChargeReaches
  <2>2. CASE s = r
    <3>1. /\ charged'[s] = charged[s] + Charge(count, snapshot[s], outcome)
          /\ snapshot'[s] = count
          /\ reported'[s] = IF count > reported[s] THEN count ELSE reported[s]
      BY <2>2
    <3> HIDE DEF SettleRow
    <3> QED BY <1>2, <2>1, <3>1, CountAssumption
  <2>3. CASE s # r
    <3>1. charged'[s] = charged[s] /\ snapshot'[s] = snapshot[s] /\ reported'[s] = reported[s]
      BY <2>3
    <3> QED BY <1>2, <3>1
  <2> QED BY <2>2, <2>3
<1>4. /\ snapshot' \in [Sessions -> 0..MaxCount]
      /\ charged' \in [Sessions -> Nat]
      /\ reported' \in [Sessions -> 0..MaxCount]
  <2>1. /\ snapshot' = [s \in Sessions |-> snapshot'[s]]
        /\ charged' = [s \in Sessions |-> charged'[s]]
        /\ reported' = [s \in Sessions |-> reported'[s]]
    OBVIOUS
  <2> HIDE DEF SettleRow
  <2> QED BY <1>3, <2>1
<1> QED BY <1>1, <1>3, <1>4 DEF LedgerInv, LedgerTypeOK, UsageCovered, SnapshotCovered

(* What does not settle a call leaves what is counted and charged alone.    *)
LEMMA OthersKeepInv ==
  ASSUME LedgerInv, receipt' \in [Calls -> {"none", "dispatched", "unknown"} \cup Final],
         UNCHANGED <<snapshot, charged, reported>>
  PROVE  LedgerInv'
  BY DEF LedgerInv, LedgerTypeOK, UsageCovered, SnapshotCovered

LEMMA LedgerInvInductive == LedgerInv /\ [LedgerNext]_ledgerVars => LedgerInv'
<1> SUFFICES ASSUME LedgerInv, [LedgerNext]_ledgerVars PROVE LedgerInv'
  OBVIOUS
<1> receipt \in [Calls -> {"none", "dispatched", "unknown"} \cup Final]
  BY DEF LedgerInv, LedgerTypeOK
<1>1. ASSUME NEW k \in Calls, Send(k) PROVE LedgerInv'
  BY <1>1, OthersKeepInv DEF Send
<1>2. ASSUME NEW k \in Calls, Dispatch(k) PROVE LedgerInv'
  BY <1>2, OthersKeepInv DEF Dispatch
<1>3. ASSUME NEW k \in Calls, NEW s \in Sessions \cup {NoSession}, NEW count \in 0..MaxCount,
             NEW outcome \in Final, Settle(k, s, count, outcome)
      PROVE  LedgerInv'
  BY <1>3, SettleKeepsInv, OthersKeepInv DEF Settle, ledgerVars
<1>4. ASSUME CloseOpen PROVE LedgerInv'
  BY <1>4, OthersKeepInv DEF CloseOpen
<1>5. CASE UNCHANGED ledgerVars
  BY <1>5, OthersKeepInv DEF ledgerVars
<1> QED BY <1>1, <1>2, <1>3, <1>4, <1>5 DEF LedgerNext

LEMMA LedgerInvHolds == LedgerSpec => []LedgerInv
<1>1. LedgerInit => LedgerInv
  BY CountAssumption DEF LedgerInit, LedgerInv, LedgerTypeOK, UsageCovered, SnapshotCovered
<1> QED BY <1>1, LedgerInvInductive, PTL DEF LedgerSpec

-----------------------------------------------------------------------------
(* Every variable of the ledger keeps its type.                            *)
THEOREM LedgerTypeCorrect == LedgerSpec => []LedgerTypeOK
<1>1. LedgerInv => LedgerTypeOK
  BY DEF LedgerInv
<1> QED BY <1>1, LedgerInvHolds, PTL

(* settle charges at least what a provider reported, in whatever order the  *)
(* calls of a session end, and whichever of them recovery had closed.       *)
THEOREM UsageIsCovered == LedgerSpec => []UsageCovered
<1>1. LedgerInv => UsageCovered
  BY DEF LedgerInv
<1> QED BY <1>1, LedgerInvHolds, PTL

(* A receipt is settled once, however often its call is dispatched, settled *)
(* or closed again.                                                        *)
THEOREM ReceiptsSettleOnce == LedgerSpec => SettledOnce
<1> DEFINE Step ==
      /\ \A k \in Calls : receipt[k] \in Final => receipt'[k] = receipt[k]
      /\ charged' # charged => \E k \in Calls : receipt[k] \notin Final /\ receipt'[k] \in Final
<1>1. LedgerInv /\ [LedgerNext]_ledgerVars => [Step]_ledgerVars
  <2> SUFFICES ASSUME LedgerInv, LedgerNext PROVE Step
    OBVIOUS
  <2> receipt \in [Calls -> {"none", "dispatched", "unknown"} \cup Final]
    BY DEF LedgerInv, LedgerTypeOK
  <2>1. ASSUME NEW k \in Calls, Send(k) PROVE Step
    BY <2>1 DEF Send, Final
  <2>2. ASSUME NEW k \in Calls, Dispatch(k) PROVE Step
    BY <2>2 DEF Dispatch
  <2>3. ASSUME NEW k \in Calls, NEW s \in Sessions \cup {NoSession}, NEW count \in 0..MaxCount,
               NEW outcome \in Final, Settle(k, s, count, outcome)
        PROVE  Step
    <3>1. CASE receipt[k] \in Final
      BY <2>3, <3>1 DEF Settle, ledgerVars
    <3>2. CASE receipt[k] \notin Final
      BY <2>3, <3>2 DEF Settle, SettleRow
    <3> QED BY <3>1, <3>2
  <2>4. ASSUME CloseOpen PROVE Step
    BY <2>4 DEF CloseOpen, Final
  <2> QED BY <2>1, <2>2, <2>3, <2>4 DEF LedgerNext
<1> QED BY <1>1, LedgerInvHolds, PTL DEF LedgerSpec, SettledOnce

-----------------------------------------------------------------------------
(* The Butler.                                                             *)
USE ButlerAssumption, CountAssumption

AnySession == Sessions \cup {NoSession}

ConvFields == {"status", "suspended", "rev", "turns", "draft", "version", "auto", "asked",
               "structured", "planned", "session", "goal"}
ConvRow(r) ==
  /\ r = [f \in ConvFields |-> r[f]]
  /\ r.rev \in 0..(MaxRev + 1) /\ r.session \in AnySession
  /\ r.rev > MaxRev => r.status = "dispatched" /\ ~r.suspended
  /\ r.status = "none" <=> r.rev = 0
  /\ r.rev = 0 => r.turns = 0 /\ ~r.suspended

ChatRow(r) ==
  /\ r = [f \in {"rev", "log", "session"} |-> r[f]]
  /\ r.rev \in 0..MaxRev /\ r.session \in AnySession

(* A thread that calls has a key for its call.                             *)
ThreadFields == {"pc", "src", "rec", "seen", "try", "session", "reply", "draft", "count"}
ThreadRow(t) ==
  /\ t = [f \in ThreadFields |-> t[f]]
  /\ t.rec.rev \in 0..(MaxRev + 1) /\ t.try \in 0..1
  /\ t.session \in AnySession /\ t.count \in 0..MaxCount
  /\ t.pc \in {"plan", "calling", "settle"} => t.rec.rev \in 1..MaxRev
  /\ t.pc \in {"bind", "finish"} => t.rec.rev > 0
  /\ t.pc \in {"bind", "finish", "hand", "confirm", "mark"} => t.src # "chat"
  /\ t.src = "chat" => t.try = 0 /\ t.reply # "broken"

(* Who read the conversation at its present revision read its turns.        *)
ReadAt(t, rec) ==
  t.src # "chat" => /\ t.rec.rev <= rec.rev
                    /\ t.rec.rev = rec.rev => t.rec.turns = rec.turns

ButlerInv ==
  /\ ConvRow(conv) /\ ChatRow(chat)
  /\ used \in [Sessions -> 0..MaxCount]
  /\ client = [c \in Clients |-> client[c]]
  /\ \A c \in Clients : ThreadRow(client[c]) /\ ReadAt(client[c], conv)

(* The conversation goes on: to a new revision, or with the same turns.     *)
Later(new) == new.rev > conv.rev \/ (new.rev = conv.rev /\ new.turns = conv.turns)

-----------------------------------------------------------------------------
LEMMA ThreadMoves ==
  ASSUME ButlerInv, NEW c \in Clients, NEW t, Goes(c, t), ThreadRow(t), ReadAt(t, conv'),
         ConvRow(conv'), Later(conv'), ChatRow(chat'), used' \in [Sessions -> 0..MaxCount]
  PROVE  ButlerInv'
<1>1. /\ client' = [d \in Clients |-> client'[d]] /\ client'[c] = t
      /\ \A d \in Clients : d # c => client'[d] = client[d]
  BY DEF ButlerInv, Goes
<1>2. ASSUME NEW d \in Clients, d # c PROVE ReadAt(client[d], conv')
  BY DEF ButlerInv, ReadAt, Later, ConvRow, ThreadRow
<1>3. \A d \in Clients : ThreadRow(client'[d]) /\ ReadAt(client'[d], conv')
  BY <1>1, <1>2 DEF ButlerInv
<1> QED BY <1>1, <1>3 DEF ButlerInv, ReadAt, ThreadRow, ConvRow, ChatRow

(* A thread moves, and the two conversations stay as they are.              *)
LEMMA OnlyThreadMoves ==
  ASSUME ButlerInv, NEW c \in Clients, NEW t, Goes(c, t), ThreadRow(t), ReadAt(t, conv),
         UNCHANGED <<conv, chat>>, used' \in [Sessions -> 0..MaxCount]
  PROVE  ButlerInv'
<1>1. ConvRow(conv') /\ ChatRow(chat') /\ Later(conv') /\ ReadAt(t, conv')
  BY DEF ButlerInv, ConvRow, ChatRow, Later, ReadAt
<1> QED BY <1>1, ThreadMoves

(* What a handler goes on with is what the row says.                        *)
LEMMA RowRead ==
  ASSUME NEW rec, ConvRow(rec)
  PROVE  /\ View(rec).rev = rec.rev /\ View(rec).turns = rec.turns
         /\ \A src \in {"start", "route", "turn", "resume"} :
              rec.rev > 0 => ThreadRow(AfterFirst(src, rec)) /\ ReadAt(AfterFirst(src, rec), rec)
<1>1. View(rec).rev = rec.rev /\ View(rec).turns = rec.turns
  BY DEF View
<1>2. ASSUME NEW src \in {"start", "route", "turn", "resume"}, rec.rev > 0
      PROVE  ThreadRow(AfterFirst(src, rec)) /\ ReadAt(AfterFirst(src, rec), rec)
  <2> DEFINE t == AfterFirst(src, rec)
  <2>1. /\ t = [f \in ThreadFields |-> t[f]] /\ t.pc \in {"idle", "hand", "plan"} /\ t.src = src
        /\ t.pc = "plan" => Shown(rec) # "dispatched"
        /\ t.rec = View(rec) /\ t.try = 0 /\ t.session = rec.session /\ t.count = 0
    BY DEF AfterFirst, Idle, ThreadFields
  <2> HIDE DEF t
  <2>2. ThreadRow(t) /\ ReadAt(t, rec)
    BY <1>1, <1>2, <2>1 DEF ThreadRow, ReadAt, ConvRow, Shown
  <2> QED BY <2>2 DEF t
<1> QED BY <1>1, <1>2

LEMMA IdleRow ==
  ASSUME NEW rec, ConvRow(rec) PROVE ThreadRow(Idle) /\ ReadAt(Idle, rec)
<1>1. Idle = [f \in ThreadFields |-> Idle[f]]
  BY DEF Idle, ThreadFields
<1>2. /\ Idle.src = "start" /\ Idle.pc = "idle" /\ Idle.try = 0 /\ Idle.session = NoSession
      /\ Idle.count = 0 /\ Idle.rec.rev = 0 /\ Idle.rec.turns = 0
  BY DEF Idle, View, NoConv
<1> QED BY <1>1, <1>2 DEF ThreadRow, ReadAt, ConvRow, AnySession

(* A draft is written at the next revision.                                 *)
LEMMA WrittenRow ==
  ASSUME NEW rec, rec = [f \in ConvFields |-> rec[f]], NEW draft, NEW asked, NEW structured
  PROVE  LET new == Written(rec, draft, asked, structured)
         IN  /\ new = [f \in ConvFields |-> new[f]]
             /\ new.status \in {"awaiting", "clarifying"} /\ new.rev = rec.rev + 1
             /\ new.session = rec.session /\ new.version = rec.rev + 1
  BY DEF Written, ConvFields

-----------------------------------------------------------------------------
(* The first transactions.                                                  *)
LEMMA StartStep ==
  ASSUME ButlerInv, NEW c \in Clients, NEW src \in {"start", "route"}, NEW draft,
         StartConversation(c, src, draft)
  PROVE  ButlerInv'
<1>1. Goes(c, AfterFirst(src, conv')) /\ UNCHANGED <<chat, used>>
  BY DEF StartConversation, Request
<1>2. ConvRow(conv') /\ Later(conv') /\ conv'.rev > 0
  <2>1. CASE conv.status = "none"
    <3> DEFINE d    == Normalized(draft)
               row  == Written(NoConv, d, 0, Structured(draft))
               asks == ~Ready(d) /\ (src = "route" \/ Structured(draft))
    <3>1. conv' = [row EXCEPT !.turns = 1, !.structured = Structured(draft), !.asked = Count(asks)]
      BY <2>1 DEF StartConversation
    <3>2. /\ NoConv = [f \in ConvFields |-> NoConv[f]] /\ NoConv.rev = 0
          /\ NoConv.session = NoSession
      BY DEF NoConv, ConvFields
    <3>3. /\ row = [f \in ConvFields |-> row[f]] /\ row.status \in {"awaiting", "clarifying"}
          /\ row.rev = 1 /\ row.session = NoSession
      BY <3>2, WrittenRow
    <3> HIDE DEF row, asks, d
    <3>4. /\ conv' = [f \in ConvFields |-> conv'[f]] /\ conv'.status = row.status
          /\ conv'.rev = 1 /\ conv'.session = NoSession
      BY <3>1, <3>3 DEF ConvFields
    <3> QED BY <2>1, <3>3, <3>4 DEF ConvRow, Later, ButlerInv, AnySession
  <2>2. CASE conv.status # "none"
    BY <2>2 DEF StartConversation, ButlerInv, ConvRow, Later
  <2> QED BY <2>1, <2>2
<1>3. ThreadRow(AfterFirst(src, conv')) /\ ReadAt(AfterFirst(src, conv'), conv')
  BY <1>2, RowRead
<1> QED BY <1>1, <1>2, <1>3, ThreadMoves DEF ButlerInv, ChatRow

(* A turn, in words or into a field, and the resumption of the planner.     *)
LEMMA TurnStep ==
  ASSUME ButlerInv, NEW c \in Clients,
         \/ AppendConversational(c) \/ PreparePlannerResume(c)
         \/ \E field \in DOMAIN NoDraft.text, text \in Texts : PostField(c, field, text)
  PROVE  ButlerInv'
<1>1. \E src \in {"turn", "resume"} : Goes(c, AfterFirst(src, conv'))
  BY DEF AppendConversational, PreparePlannerResume, PostField
<1>2. UNCHANGED <<chat, used>> /\ conv.rev < MaxRev
  BY DEF AppendConversational, PreparePlannerResume, PostField, Request, CanWrite
<1>3. /\ conv' = [f \in ConvFields |-> conv'[f]] /\ conv'.rev = conv.rev + 1
      /\ conv'.session = conv.session /\ conv'.status # "none"
  <2>0. conv = [f \in ConvFields |-> conv[f]]
    BY DEF ButlerInv, ConvRow
  <2>1. CASE AppendConversational(c)
    <3> DEFINE turns == conv.turns + 1
    <3>1. /\ conv' = [conv EXCEPT !.rev = conv.rev + 1, !.turns = turns]
          /\ conv.status \in {"clarifying", "awaiting"}
      BY <2>1 DEF AppendConversational, Accepting
    <3> HIDE DEF turns
    <3> QED BY <2>0, <3>1 DEF ConvFields
  <2>2. CASE PreparePlannerResume(c)
    <3>1. conv' = [conv EXCEPT !.suspended = FALSE, !.rev = @ + 1]
      BY <2>2 DEF PreparePlannerResume
    <3>2. conv.status # "none"
      BY <2>2 DEF PreparePlannerResume, ButlerInv, ConvRow
    <3> QED BY <2>0, <3>1, <3>2 DEF ConvFields
  <2>3. ASSUME NEW field \in DOMAIN NoDraft.text, NEW text \in Texts, PostField(c, field, text)
        PROVE  /\ conv' = [f \in ConvFields |-> conv'[f]] /\ conv'.rev = conv.rev + 1
               /\ conv'.session = conv.session /\ conv'.status # "none"
    <3> DEFINE d   == [conv.draft EXCEPT !.text[field] = text]
               row == Written(conv, d, conv.asked, conv.structured)
               turns == row.turns + 1
               asked == row.asked + Count(conv.status = "clarifying" /\ ~Ready(d))
    <3>1. conv' = [row EXCEPT !.turns = turns, !.asked = asked]
      BY <2>3 DEF PostField
    <3>2. /\ row = [f \in ConvFields |-> row[f]] /\ row.status \in {"awaiting", "clarifying"}
          /\ row.rev = conv.rev + 1 /\ row.session = conv.session
      <4> HIDE DEF d
      <4> QED BY <2>0, WrittenRow
    <3> HIDE DEF row, d, turns, asked
    <3> QED BY <3>1, <3>2 DEF ConvFields
  <2> QED BY <2>1, <2>2, <2>3
<1>4. ConvRow(conv') /\ Later(conv') /\ conv'.rev > 0
  BY <1>2, <1>3 DEF ConvRow, Later, ButlerInv
<1>5. \E t : Goes(c, t) /\ ThreadRow(t) /\ ReadAt(t, conv')
  BY <1>1, <1>4, RowRead
<1> QED BY <1>2, <1>4, <1>5, ThreadMoves DEF ButlerInv, ChatRow

LEMMA ReadStep ==
  ASSUME ButlerInv, NEW c \in Clients, ReadProposal(c)
  PROVE  ButlerInv'
<1> DEFINE t == [Idle EXCEPT !.pc = "confirm", !.src = "confirm", !.rec = View(conv)]
<1>1. Goes(c, t) /\ UNCHANGED <<conv, chat, used>>
  BY DEF ReadProposal, Request
<1>2. /\ t = [f \in ThreadFields |-> t[f]] /\ t.pc = "confirm" /\ t.src = "confirm"
      /\ t.rec = View(conv) /\ t.try = 0 /\ t.session = NoSession /\ t.count = 0
  BY DEF Idle, ThreadFields
<1> HIDE DEF t
<1>3. ThreadRow(t) /\ ReadAt(t, conv)
  BY <1>2, RowRead DEF ThreadRow, ReadAt, ButlerInv, ConvRow, AnySession
<1> QED BY <1>1, <1>3, OnlyThreadMoves DEF ButlerInv

(* The conversation with the global Butler.                                 *)
LEMMA ChatStep ==
  ASSUME ButlerInv, NEW c \in Clients, Chats(c)
  PROVE  ButlerInv'
<1>1. UNCHANGED <<conv, used>>
  BY DEF Chats, StartGlobal, PostGlobalMessage, Request
<1>2. ChatRow(Said(chat)) \/ chat.rev = MaxRev
  <2> DEFINE log == Append(chat.log, [said |-> TRUE, rev |-> chat.rev + 1])
             new == [chat EXCEPT !.rev = chat.rev + 1, !.log = log]
  <2>1. Said(chat) = new
    BY DEF Said
  <2> HIDE DEF log
  <2>2. ChatRow(chat)
    BY DEF ButlerInv
  <2>3. /\ new = [f \in {"rev", "log", "session"} |-> new[f]]
        /\ new.rev = chat.rev + 1 /\ new.session = chat.session
    BY <2>2 DEF ChatRow
  <2> HIDE DEF new
  <2> QED BY <2>1, <2>2, <2>3 DEF ChatRow
<1>3. ChatRow(chat') /\ ((ChatCall(c, chat') /\ chat'.rev > 0) \/ Ends(c))
  <2>1. CASE StartGlobal(c)
    BY <1>2, <2>1 DEF StartGlobal, ButlerInv, ChatRow, Said
  <2>2. CASE PostGlobalMessage(c)
    BY <1>2, <2>2 DEF PostGlobalMessage, ButlerInv, ChatRow, Said
  <2> QED BY <2>1, <2>2 DEF Chats
<1>4. ThreadRow(Idle) /\ ReadAt(Idle, conv)
  BY IdleRow DEF ButlerInv
<1>5. CASE Ends(c)
  BY <1>1, <1>3, <1>4, <1>5, ThreadMoves DEF Ends, ButlerInv, ConvRow, Later, ReadAt
<1>6. CASE ChatCall(c, chat') /\ chat'.rev > 0
  <2> DEFINE t == [Idle EXCEPT !.pc = "plan", !.src = "chat", !.session = chat'.session,
                               !.rec.rev = chat'.rev]
  <2>1. Goes(c, t)
    BY <1>6 DEF ChatCall
  <2>2. /\ t = [f \in ThreadFields |-> t[f]] /\ t.pc = "plan" /\ t.src = "chat"
        /\ t.rec.rev = chat'.rev /\ t.try = 0 /\ t.session = chat'.session /\ t.count = 0
        /\ t.reply = "none"
    BY ZenonT(60) DEF Idle, View, ThreadFields
  <2> HIDE DEF t
  <2>3. ThreadRow(t) /\ ReadAt(t, conv')
    BY <1>3, <1>6, <2>2 DEF ThreadRow, ReadAt, ChatRow
  <2> QED BY <1>1, <1>3, <2>1, <2>3, ThreadMoves DEF ButlerInv, ConvRow, Later
<1> QED BY <1>3, <1>5, <1>6

-----------------------------------------------------------------------------
(* The call of the model: what a thread in a call becomes.                  *)
LEMMA AnsweredRow ==
  ASSUME ButlerInv, NEW c \in Clients, client[c].pc \in {"plan", "settle"}, NEW reply,
         client[c].src = "chat" => reply # "broken"
  PROVE  ThreadRow(Answered(c, reply)) /\ ReadAt(Answered(c, reply), conv)
<1> DEFINE t == Answered(c, reply)
<1>1. ThreadRow(client[c]) /\ ReadAt(client[c], conv)
  BY DEF ButlerInv
<1>2. /\ t = [f \in ThreadFields |-> t[f]] /\ t.reply = reply /\ t.count = 0
      /\ t.pc = IF client[c].src = "chat" THEN "answer" ELSE "bind"
      /\ t.src = client[c].src /\ t.rec = client[c].rec /\ t.try = client[c].try
      /\ t.session = client[c].session
  BY <1>1 DEF Answered, ThreadRow, ThreadFields
<1> HIDE DEF t
<1>3. ThreadRow(t) /\ ReadAt(t, conv)
  BY <1>1, <1>2 DEF ThreadRow, ReadAt
<1> QED BY <1>3 DEF t

LEMMA ReturnsStep ==
  ASSUME ButlerInv, NEW c \in Clients, NEW s \in Sessions, NEW reply, NEW draft,
         Returns(c, s, reply, draft), client[c].src = "chat" => reply # "broken"
  PROVE  ButlerInv'
<1> DEFINE n == used[s] + 1
           t == [client[c] EXCEPT !.pc = "settle", !.session = s, !.reply = reply,
                                  !.draft = draft, !.count = n]
<1>1. /\ client[c].pc = "calling" /\ Goes(c, t) /\ UNCHANGED <<conv, chat>>
      /\ n \in 0..MaxCount /\ used' = [used EXCEPT ![s] = n]
  BY DEF Returns, ButlerInv
<1>2. used' \in [Sessions -> 0..MaxCount]
  BY <1>1 DEF ButlerInv
<1>3. ThreadRow(client[c]) /\ ReadAt(client[c], conv)
  BY DEF ButlerInv
<1> HIDE DEF n
<1>4. /\ t = [f \in ThreadFields |-> t[f]] /\ t.reply = reply /\ t.count = n
      /\ t.pc = "settle" /\ t.session = s
      /\ t.src = client[c].src /\ t.rec = client[c].rec /\ t.try = client[c].try
  BY <1>3 DEF ThreadRow, ThreadFields
<1> HIDE DEF t
<1>5. ThreadRow(t) /\ ReadAt(t, conv)
  BY <1>1, <1>3, <1>4 DEF ThreadRow, ReadAt, AnySession
<1> QED BY <1>1, <1>2, <1>5, OnlyThreadMoves

LEMMA CallStep ==
  ASSUME ButlerInv, NEW c \in Clients, Calling(c)
  PROVE  ButlerInv'
<1>1. ThreadRow(client[c]) /\ ReadAt(client[c], conv) /\ used \in [Sessions -> 0..MaxCount]
  BY DEF ButlerInv
<1>2. CASE ProviderDown(c)
  BY <1>1, <1>2, AnsweredRow, OnlyThreadMoves DEF ProviderDown
<1>3. CASE PlanCall(c) /\ Goes(c, Answered(c, "duplicate"))
  BY <1>1, <1>3, AnsweredRow, OnlyThreadMoves DEF PlanCall
<1>4. CASE PlanCall(c) /\ Goes(c, [client[c] EXCEPT !.pc = "calling"])
  <2> DEFINE t == [client[c] EXCEPT !.pc = "calling"]
  <2>1. /\ t = [f \in ThreadFields |-> t[f]] /\ t.pc = "calling" /\ t.reply = client[c].reply
        /\ t.count = client[c].count /\ t.session = client[c].session
        /\ t.src = client[c].src /\ t.rec = client[c].rec /\ t.try = client[c].try
    BY <1>1 DEF ThreadRow, ThreadFields
  <2> HIDE DEF t
  <2>2. ThreadRow(t) /\ ReadAt(t, conv)
    BY <1>1, <1>4, <2>1 DEF ThreadRow, ReadAt, PlanCall
  <2>3. Goes(c, t) /\ UNCHANGED <<conv, chat, used>>
    BY <1>4 DEF PlanCall, t
  <2> QED BY <1>1, <2>2, <2>3, OnlyThreadMoves
<1>5. CASE Executes(c)
  BY <1>5, ReturnsStep DEF Executes
<1>6. CASE ExecuteRaises(c)
  <2> DEFINE t == [client[c] EXCEPT !.pc = "settle", !.reply = "failed", !.count = 0]
  <2>1. /\ t = [f \in ThreadFields |-> t[f]] /\ t.pc = "settle" /\ t.reply = "failed"
        /\ t.count = 0 /\ t.session = client[c].session
        /\ t.src = client[c].src /\ t.rec = client[c].rec /\ t.try = client[c].try
    BY <1>1 DEF ThreadRow, ThreadFields
  <2>2. Goes(c, t) /\ UNCHANGED <<conv, chat, used>> /\ client[c].pc = "calling"
    BY <1>6 DEF ExecuteRaises
  <2> HIDE DEF t
  <2>3. ThreadRow(t) /\ ReadAt(t, conv)
    BY <1>1, <2>1, <2>2 DEF ThreadRow, ReadAt
  <2> QED BY <1>1, <2>2, <2>3, OnlyThreadMoves
<1>7. CASE SettleCall(c)
  <2>1. UNCHANGED <<conv, chat, used>> /\ client[c].pc = "settle"
    BY <1>7 DEF SettleCall
  <2>2. CASE client[c].reply = "broken" /\ client[c].try = 0
    <3> DEFINE t == [client[c] EXCEPT !.pc = "plan", !.try = 1, !.draft = NoDraft]
    <3>1. Goes(c, t)
      BY <1>7, <2>2 DEF SettleCall
    <3>2. /\ t = [f \in ThreadFields |-> t[f]] /\ t.pc = "plan" /\ t.reply = "broken"
          /\ t.count = client[c].count /\ t.session = client[c].session
          /\ t.src = client[c].src /\ t.rec = client[c].rec /\ t.try = 1
      BY <1>1, <2>2 DEF ThreadRow, ThreadFields
    <3> HIDE DEF t
    <3>3. ThreadRow(t) /\ ReadAt(t, conv)
      BY <1>1, <2>1, <2>2, <3>2 DEF ThreadRow, ReadAt
    <3> QED BY <1>1, <2>1, <3>1, <3>3, OnlyThreadMoves
  <2>3. CASE ~(client[c].reply = "broken" /\ client[c].try = 0)
    <3>1. Goes(c, Answered(c, client[c].reply))
      BY <1>7, <2>3 DEF SettleCall
    <3>2. client[c].src = "chat" => client[c].reply # "broken"
      BY <1>1 DEF ThreadRow
    <3> QED BY <1>1, <2>1, <3>1, <3>2, AnsweredRow, OnlyThreadMoves
  <2> QED BY <2>2, <2>3
<1>8. PlanCall(c) => \/ Goes(c, Answered(c, "duplicate"))
                    \/ Goes(c, [client[c] EXCEPT !.pc = "calling"])
  BY DEF PlanCall
<1> QED BY <1>2, <1>3, <1>4, <1>5, <1>6, <1>7, <1>8 DEF Calling

-----------------------------------------------------------------------------
(* What comes of the call.                                                  *)
LEMMA ThreadEnds ==
  ASSUME ButlerInv, NEW c \in Clients, Ends(c), ConvRow(conv'), Later(conv'),
         ChatRow(chat'), UNCHANGED used
  PROVE  ButlerInv'
<1>1. ThreadRow(Idle) /\ ReadAt(Idle, conv')
  BY IdleRow
<1> QED BY <1>1, ThreadMoves DEF Ends, ButlerInv

LEMMA HandsOnStep ==
  ASSUME ButlerInv, NEW c \in Clients, HandsOn(c), client[c].pc = "finish",
         ConvRow(conv'), Later(conv'), UNCHANGED <<chat, used>>
  PROVE  ButlerInv'
<1>0. ChatRow(chat') /\ used' \in [Sessions -> 0..MaxCount]
  BY DEF ButlerInv, ChatRow
<1>1. CASE client[c].src = "route"
  BY <1>0, <1>1, ThreadEnds DEF HandsOn, Ends
<1>2. CASE client[c].src # "route"
  <2> DEFINE t == [Idle EXCEPT !.pc = "hand", !.src = client[c].src, !.rec = View(conv')]
  <2>1. Goes(c, t)
    BY <1>2 DEF HandsOn
  <2>2. /\ t = [f \in ThreadFields |-> t[f]] /\ t.pc = "hand" /\ t.reply = "none"
        /\ t.src = client[c].src
        /\ t.rec = View(conv') /\ t.try = 0 /\ t.session = NoSession /\ t.count = 0
    BY DEF Idle, ThreadFields
  <2> HIDE DEF t
  <2>3. ThreadRow(t) /\ ReadAt(t, conv')
    <3>1. client[c].src # "chat"
      BY DEF ButlerInv, ThreadRow
    <3> QED BY <2>2, <3>1, RowRead DEF ThreadRow, ReadAt, ConvRow, AnySession
  <2> QED BY <1>0, <2>1, <2>3, ThreadMoves
<1> QED BY <1>1, <1>2

(* A thread goes on with the row it has.                                    *)
LEMMA PlaceMoves ==
  ASSUME ButlerInv, NEW c \in Clients, NEW pc \in {"finish", "mark"},
         Goes(c, [client[c] EXCEPT !.pc = pc]),
         client[c].pc \in IF pc = "finish" THEN {"bind"} ELSE {"hand", "confirm"},
         UNCHANGED <<conv, chat, used>>
  PROVE  ButlerInv'
<1> DEFINE t == [client[c] EXCEPT !.pc = pc]
<1>1. ThreadRow(client[c]) /\ ReadAt(client[c], conv) /\ used \in [Sessions -> 0..MaxCount]
  BY DEF ButlerInv
<1>2. /\ t = [f \in ThreadFields |-> t[f]] /\ t.pc = pc /\ t.reply = client[c].reply
      /\ t.count = client[c].count /\ t.session = client[c].session
      /\ t.src = client[c].src /\ t.rec = client[c].rec /\ t.try = client[c].try
  BY <1>1 DEF ThreadRow, ThreadFields
<1>3. Goes(c, t)
  OBVIOUS
<1> HIDE DEF t
<1>4. ThreadRow(t) /\ ReadAt(t, conv)
  BY <1>1, <1>2 DEF ThreadRow, ReadAt
<1> QED BY <1>1, <1>3, <1>4, OnlyThreadMoves

LEMMA BindStep ==
  ASSUME ButlerInv, NEW c \in Clients, BindSession(c)
  PROVE  ButlerInv'
<1>1. /\ client[c].pc = "bind" /\ UNCHANGED <<chat, used>> /\ ChatRow(chat')
      /\ ThreadRow(client[c]) /\ ReadAt(client[c], conv) /\ ConvRow(conv)
  BY DEF BindSession, ButlerInv, ChatRow
<1>2. CASE UNCHANGED conv /\ Ends(c)
  BY <1>1, <1>2, ThreadEnds DEF Later
<1>3. CASE UNCHANGED conv /\ Goes(c, [client[c] EXCEPT !.pc = "finish"])
  BY <1>1, <1>3, PlaceMoves
<1>4. CASE /\ conv' = [conv EXCEPT !.session = client[c].session]
           /\ Goes(c, [client[c] EXCEPT !.pc = "finish", !.session = NoSession, !.rec = View(conv')])
  <2> DEFINE t == [client[c] EXCEPT !.pc = "finish", !.session = NoSession, !.rec = View(conv')]
  <2>1. /\ conv' = [f \in ConvFields |-> conv'[f]] /\ conv'.session = client[c].session
        /\ conv'.rev = conv.rev /\ conv'.turns = conv.turns /\ conv'.status = conv.status
        /\ conv'.suspended = conv.suspended
    BY <1>1, <1>4 DEF ConvRow, ConvFields
  <2>2. ConvRow(conv') /\ Later(conv') /\ conv'.rev > 0
    BY <1>1, <2>1 DEF ConvRow, Later, ThreadRow, ReadAt
  <2>3. Goes(c, t)
    BY <1>4
  <2>4. /\ t = [f \in ThreadFields |-> t[f]] /\ t.pc = "finish" /\ t.reply = client[c].reply
        /\ t.count = client[c].count /\ t.session = NoSession
        /\ t.src = client[c].src /\ t.rec = View(conv') /\ t.try = client[c].try
    BY <1>1 DEF ThreadRow, ThreadFields
  <2> HIDE DEF t
  <2>5. ThreadRow(t) /\ ReadAt(t, conv')
    BY <1>1, <2>2, <2>4, RowRead DEF ThreadRow, ReadAt, ConvRow, AnySession
  <2> QED BY <1>1, <2>2, <2>3, <2>5, ThreadMoves DEF ButlerInv
<1> QED BY <1>2, <1>3, <1>4 DEF BindSession

LEMMA PlannerStep ==
  ASSUME ButlerInv, NEW c \in Clients, SuspendPlanner(c) \/ ApplyPlannerProposal(c)
  PROVE  ButlerInv'
<1>1. /\ client[c].pc = "finish" /\ UNCHANGED <<chat, used>> /\ ChatRow(chat')
      /\ ThreadRow(client[c]) /\ ConvRow(conv)
  BY DEF SuspendPlanner, ApplyPlannerProposal, ButlerInv, ChatRow
<1>2. CASE Ends(c) /\ UNCHANGED conv
  BY <1>1, <1>2, ThreadEnds DEF Later
<1>3. CASE SuspendPlanner(c) /\ ~(Ends(c) /\ UNCHANGED conv)
  <2> DEFINE planned == client[c].reply # "unavailable"
  <2>1. /\ conv' = [conv EXCEPT !.suspended = TRUE, !.rev = conv.rev + 1, !.auto = FALSE,
                                !.planned = planned]
        /\ HandsOn(c) /\ Current(c) /\ CanWrite
    BY <1>3 DEF SuspendPlanner
  <2> HIDE DEF planned
  <2>2. /\ conv' = [f \in ConvFields |-> conv'[f]] /\ conv'.rev = conv.rev + 1
        /\ conv'.status = conv.status /\ conv'.session = conv.session
    BY <1>1, <2>1 DEF ConvRow, ConvFields
  <2>3. conv.rev > 0 /\ conv.rev < MaxRev
    BY <1>1, <2>1 DEF ThreadRow, Current, CanWrite
  <2>4. ConvRow(conv') /\ Later(conv')
    BY <1>1, <2>2, <2>3 DEF ConvRow, Later
  <2> QED BY <1>1, <2>1, <2>4, HandsOnStep
<1>4. CASE ApplyPlannerProposal(c) /\ ~(Ends(c) /\ UNCHANGED conv)
  <2> DEFINE d   == Merged(conv.draft, client[c].draft)
             structured == FALSE
             row == Written(conv, d, conv.asked, structured)
  <2>1. conv' = [row EXCEPT !.planned = TRUE] /\ HandsOn(c) /\ CanWrite
    BY <1>4 DEF ApplyPlannerProposal
  <2> HIDE DEF d, structured
  <2>2. /\ row = [f \in ConvFields |-> row[f]] /\ row.status \in {"awaiting", "clarifying"}
        /\ row.rev = conv.rev + 1 /\ row.session = conv.session
    <3>1. conv = [f \in ConvFields |-> conv[f]]
      BY <1>1 DEF ConvRow
    <3> QED BY <3>1, WrittenRow
  <2> HIDE DEF row
  <2>3. /\ conv' = [f \in ConvFields |-> conv'[f]] /\ conv'.rev = conv.rev + 1
        /\ conv'.status = row.status /\ conv'.session = conv.session
    BY <2>1, <2>2 DEF ConvFields
  <2>4. ConvRow(conv') /\ Later(conv')
    BY <1>1, <2>1, <2>2, <2>3 DEF ConvRow, Later, CanWrite
  <2> QED BY <1>1, <2>1, <2>4, HandsOnStep
<1> QED BY <1>2, <1>3, <1>4

LEMMA HandStep ==
  ASSUME ButlerInv, NEW c \in Clients, AutoDispatch(c) \/ Confirm(c)
  PROVE  ButlerInv'
<1>1. /\ UNCHANGED <<conv, chat, used>> /\ ChatRow(chat') /\ ConvRow(conv') /\ Later(conv')
      /\ Ends(c) \/ Goes(c, [client[c] EXCEPT !.pc = "mark"])
      /\ client[c].pc \in {"hand", "confirm"}
  BY DEF AutoDispatch, Confirm, ButlerInv, ChatRow, ConvRow, Later
<1> QED BY <1>1, ThreadEnds, PlaceMoves

LEMMA MarkStep ==
  ASSUME ButlerInv, NEW c \in Clients, MarkDispatched(c)
  PROVE  ButlerInv'
<1>1. Ends(c) /\ UNCHANGED <<chat, used>> /\ ChatRow(chat') /\ ConvRow(conv)
  BY DEF MarkDispatched, ButlerInv, ChatRow
<1>2. CASE UNCHANGED conv
  BY <1>1, <1>2, ThreadEnds DEF Later
<1>3. CASE MayMark(c)
  <2> DEFINE key == GoalKey(c)
  <2>1. conv' = [conv EXCEPT !.status = "dispatched", !.rev = conv.rev + 1, !.goal = key]
    BY <1>3 DEF MarkDispatched
  <2> HIDE DEF key
  <2>2. /\ conv' = [f \in ConvFields |-> conv'[f]] /\ conv'.rev = conv.rev + 1
        /\ conv'.status = "dispatched" /\ conv'.session = conv.session
        /\ conv'.suspended = conv.suspended
    BY <1>1, <2>1 DEF ConvRow, ConvFields
  <2>3. ConvRow(conv') /\ Later(conv')
    BY <1>1, <1>3, <2>2 DEF ConvRow, Later, MayMark
  <2> QED BY <1>1, <2>3, ThreadEnds
<1> QED BY <1>2, <1>3 DEF MarkDispatched

LEMMA ReplyStep ==
  ASSUME ButlerInv, NEW c \in Clients, AppendGlobalReply(c)
  PROVE  ButlerInv'
<1>1. /\ Ends(c) /\ UNCHANGED <<conv, used>> /\ ConvRow(conv') /\ Later(conv')
      /\ ChatRow(chat) /\ ThreadRow(client[c])
  BY DEF AppendGlobalReply, ButlerInv, ConvRow, Later
<1>2. CASE UNCHANGED chat
  BY <1>1, <1>2, ThreadEnds DEF ChatRow
<1>3. CASE MayReply(c)
  <2> DEFINE s   == IF client[c].session = NoSession THEN chat.session ELSE client[c].session
             log == Append(chat.log, [said |-> FALSE, rev |-> client[c].rec.rev])
  <2>1. chat' = [chat EXCEPT !.rev = chat.rev + 1, !.session = s, !.log = log] /\ chat.rev < MaxRev
    BY <1>3 DEF AppendGlobalReply
  <2>2. s \in AnySession
    BY <1>1 DEF ChatRow, ThreadRow
  <2> HIDE DEF s, log
  <2>3. ChatRow(chat')
    <3>1. /\ chat' = [f \in {"rev", "log", "session"} |-> chat'[f]]
          /\ chat'.rev = chat.rev + 1 /\ chat'.session = s
      BY <1>1, <2>1 DEF ChatRow
    <3> QED BY <1>1, <2>1, <2>2, <3>1 DEF ChatRow
  <2> QED BY <1>1, <2>3, ThreadEnds
<1> QED BY <1>2, <1>3 DEF AppendGlobalReply

LEMMA CrashStep ==
  ASSUME ButlerInv, Crash PROVE ButlerInv'
<1>1. /\ UNCHANGED <<conv, chat, used>>
      /\ client' = [c \in Clients |-> IF client[c].pc = "confirm" THEN client[c] ELSE Idle]
  BY DEF Crash
<1>2. ThreadRow(Idle) /\ ReadAt(Idle, conv)
  BY IdleRow DEF ButlerInv
<1>3. \A c \in Clients : ThreadRow(client'[c]) /\ ReadAt(client'[c], conv)
  BY <1>1, <1>2 DEF ButlerInv
<1>4. client' = [c \in Clients |-> client'[c]]
  BY <1>1
<1> QED BY <1>1, <1>3, <1>4 DEF ButlerInv, ConvRow, ChatRow, ThreadRow, ReadAt

LEMMA ButlerInvInductive == ButlerInv /\ [ButlerNext]_butlerVars => ButlerInv'
<1> SUFFICES ASSUME ButlerInv, [ButlerNext]_butlerVars PROVE ButlerInv'
  OBVIOUS
<1>1. ASSUME NEW c \in Clients, Asks(c) PROVE ButlerInv'
  BY <1>1, StartStep, TurnStep, ReadStep DEF Asks
<1>2. ASSUME NEW c \in Clients, Concludes(c) PROVE ButlerInv'
  BY <1>2, BindStep, PlannerStep, HandStep, MarkStep, ReplyStep DEF Concludes
<1>3. CASE UNCHANGED butlerVars
  BY <1>3 DEF butlerVars, ButlerInv, ConvRow, ChatRow, ThreadRow, ReadAt
<1> QED BY <1>1, <1>2, <1>3, ChatStep, CallStep, CrashStep DEF ButlerNext

LEMMA ButlerInvHolds == ButlerSpec => []ButlerInv
<1>1. ButlerInit => ButlerInv
  <2> SUFFICES ASSUME ButlerInit PROVE ButlerInv
    OBVIOUS
  <2>1. ConvRow(conv)
    BY DEF ButlerInit, NoConv, ConvRow, ConvFields, AnySession
  <2>2. ChatRow(chat)
    BY DEF ButlerInit, ChatRow, AnySession
  <2>3. ThreadRow(Idle) /\ ReadAt(Idle, conv)
    BY <2>1, IdleRow
  <2> QED BY <2>1, <2>2, <2>3 DEF ButlerInit, ButlerInv
<1> QED BY <1>1, ButlerInvInductive, PTL DEF ButlerSpec

-----------------------------------------------------------------------------
(* The ledger.                                                             *)
LEMMA CallHasKey ==
  ASSUME ButlerInv, NEW c \in Clients, client[c].pc \in {"plan", "calling", "settle"}
  PROVE  Key(c) \in Calls
<1>1. /\ client[c].rec.rev \in 1..MaxRev /\ client[c].try \in 0..1
      /\ client[c].src = "chat" => client[c].try = 0
  BY DEF ButlerInv, ThreadRow
<1>2. Key(c) \in CallKeys
  BY <1>1 DEF Key, KeySource, CallKeys
<1> QED BY <1>2, KeyAssumption

LEMMA LedgerStep == ButlerInv /\ [ButlerNext]_butlerVars => [LedgerNext]_ledgerVars
<1> SUFFICES ASSUME ButlerInv, [ButlerNext]_butlerVars PROVE [LedgerNext]_ledgerVars
  OBVIOUS
<1>1. ASSUME NEW c \in Clients, PlanCall(c) PROVE [LedgerNext]_ledgerVars
  <2>1. Key(c) \in Calls
    BY <1>1, CallHasKey DEF PlanCall
  <2> QED BY <1>1, <2>1 DEF PlanCall, LedgerNext
<1>2. ASSUME NEW c \in Clients, SettleCall(c) PROVE [LedgerNext]_ledgerVars
  <2>1. Key(c) \in Calls
    BY <1>2, CallHasKey DEF SettleCall
  <2>2. client[c].session \in AnySession /\ client[c].count \in 0..MaxCount
    BY DEF ButlerInv, ThreadRow
  <2>3. \E outcome \in Final : Settle(Key(c), client[c].session, client[c].count, outcome)
    BY <1>2 DEF SettleCall, Final
  <2> QED BY <2>1, <2>2, <2>3 DEF LedgerNext, AnySession
<1>3. ASSUME NEW c \in Clients, Asks(c) \/ Chats(c) \/ Concludes(c) PROVE UNCHANGED ledgerVars
  BY <1>3 DEF Asks, Chats, Concludes, StartConversation, AppendConversational, PostField,
              PreparePlannerResume, ReadProposal, StartGlobal, PostGlobalMessage, Request,
              BindSession, SuspendPlanner, ApplyPlannerProposal, AutoDispatch, Confirm,
              MarkDispatched, AppendGlobalReply
<1>4. ASSUME NEW c \in Clients, ProviderDown(c) \/ Executes(c) \/ ExecuteRaises(c)
      PROVE  UNCHANGED ledgerVars
  BY <1>4 DEF ProviderDown, Executes, ExecuteRaises, Returns
<1>5. CASE Crash
  BY <1>5 DEF Crash, LedgerNext
<1>6. CASE UNCHANGED butlerVars
  BY <1>6 DEF butlerVars
<1> QED BY <1>1, <1>2, <1>3, <1>4, <1>5, <1>6 DEF ButlerNext, Calling

(* Whatever the threads of the Butler and the crashes do, it prepares,      *)
(* dispatches, settles and closes calls as the ledger allows.               *)
THEOREM ButlerUsesLedger == ButlerSpec => UsesLedger
<1>1. ButlerInit => LedgerInit
  BY DEF ButlerInit
<1> QED BY <1>1, LedgerStep, ButlerInvHolds, PTL DEF ButlerSpec, UsesLedger, LedgerSpec

(* What the models of the Butler report of a session is charged to it.      *)
THEOREM ButlerIsCharged == ButlerSpec => []UsageCovered
<1>1. LedgerInv => UsageCovered
  BY DEF LedgerInv
<1> QED BY <1>1, ButlerUsesLedger, LedgerInvHolds, PTL DEF UsesLedger

-----------------------------------------------------------------------------
(* A conversation that is not handed over in a step is not handed over by   *)
(* it, and one that was handed over says what it said.  A step that writes  *)
(* a draft gives it the number of its revision.                            *)
Kept == /\ conv'.status = "dispatched" => conv.status = "dispatched"
        /\ conv.status = "dispatched" => /\ conv'.status = "dispatched"
                                         /\ conv'.goal = conv.goal /\ conv'.draft = conv.draft
        /\ \/ /\ conv'.version = conv.version /\ conv'.rev \in {conv.rev, conv.rev + 1}
              /\ conv'.status = "none" <=> conv.status = "none"
           \/ conv'.version = conv.rev + 1 /\ conv'.rev = conv.rev + 1

LEMMA AsksKeep ==
  ASSUME ButlerInv, NEW c \in Clients, Asks(c) PROVE Kept
<1>0. conv = [f \in ConvFields |-> conv[f]]
  BY DEF ButlerInv, ConvRow
<1>1. ASSUME NEW src \in {"start", "route"}, NEW draft, StartConversation(c, src, draft) PROVE Kept
  <2>1. CASE conv.status = "none"
    <3> DEFINE d   == Normalized(draft)
               row == Written(NoConv, d, 0, Structured(draft))
               asked == Count(~Ready(d) /\ (src = "route" \/ Structured(draft)))
               structured == Structured(draft)
    <3>1. conv' = [row EXCEPT !.turns = 1, !.structured = structured, !.asked = asked]
      BY <1>1, <2>1 DEF StartConversation
    <3>2. NoConv = [f \in ConvFields |-> NoConv[f]] /\ NoConv.rev = 0
      BY DEF NoConv, ConvFields
    <3>3. /\ row = [f \in ConvFields |-> row[f]] /\ row.status \in {"awaiting", "clarifying"}
          /\ row.rev = 1 /\ row.version = 1
      BY <3>2, WrittenRow
    <3>4. conv.rev = 0
      BY <2>1 DEF ButlerInv, ConvRow
    <3> HIDE DEF row, asked, structured, d
    <3> QED BY <2>1, <3>1, <3>3, <3>4 DEF Kept, ConvFields
  <2>2. CASE conv.status # "none"
    BY <1>1, <2>2 DEF StartConversation, Kept
  <2> QED BY <2>1, <2>2
<1>2. CASE AppendConversational(c)
  <2> DEFINE turns == conv.turns + 1
  <2>1. /\ conv' = [conv EXCEPT !.rev = conv.rev + 1, !.turns = turns]
        /\ conv.status \in {"clarifying", "awaiting"}
    BY <1>2 DEF AppendConversational, Accepting
  <2> HIDE DEF turns
  <2> QED BY <1>0, <2>1 DEF Kept, ConvFields
<1>3. CASE PreparePlannerResume(c)
  <2>1. conv' = [conv EXCEPT !.suspended = FALSE, !.rev = conv.rev + 1]
    BY <1>3 DEF PreparePlannerResume
  <2> QED BY <1>0, <2>1 DEF Kept, ConvFields
<1>4. ASSUME NEW field \in DOMAIN NoDraft.text, NEW text \in Texts, PostField(c, field, text)
      PROVE  Kept
  <2> DEFINE d   == [conv.draft EXCEPT !.text[field] = text]
             row == Written(conv, d, conv.asked, conv.structured)
             turns == row.turns + 1
             asked == row.asked + Count(conv.status = "clarifying" /\ ~Ready(d))
  <2>1. /\ conv' = [row EXCEPT !.turns = turns, !.asked = asked]
        /\ conv.status \in {"clarifying", "awaiting"}
    BY <1>4 DEF PostField, Accepting
  <2>2. /\ row = [f \in ConvFields |-> row[f]] /\ row.status \in {"awaiting", "clarifying"}
        /\ row.rev = conv.rev + 1 /\ row.version = conv.rev + 1
    <3> HIDE DEF d
    <3> QED BY <1>0, WrittenRow
  <2> HIDE DEF row, d, turns, asked
  <2> QED BY <2>1, <2>2 DEF Kept, ConvFields
<1>5. CASE ReadProposal(c)
  BY <1>5 DEF ReadProposal, Kept
<1> QED BY <1>1, <1>2, <1>3, <1>4, <1>5 DEF Asks

LEMMA ConcludesKeeps ==
  ASSUME ButlerInv, NEW c \in Clients, Concludes(c), ~(MarkDispatched(c) /\ MayMark(c))
  PROVE  Kept
<1>0. conv = [f \in ConvFields |-> conv[f]]
  BY DEF ButlerInv, ConvRow
<1>1. CASE UNCHANGED conv
  BY <1>1 DEF Kept
<1>2. CASE BindSession(c)
  BY <1>0, <1>2 DEF BindSession, Kept, ConvFields
<1>3. CASE SuspendPlanner(c) /\ ~UNCHANGED conv
  <2> DEFINE planned == client[c].reply # "unavailable"
  <2>1. conv' = [conv EXCEPT !.suspended = TRUE, !.rev = conv.rev + 1, !.auto = FALSE,
                             !.planned = planned]
    BY <1>3 DEF SuspendPlanner
  <2> HIDE DEF planned
  <2> QED BY <1>0, <2>1 DEF Kept, ConvFields
<1>4. CASE ApplyPlannerProposal(c) /\ ~UNCHANGED conv
  <2> DEFINE d   == Merged(conv.draft, client[c].draft)
             structured == FALSE
             row == Written(conv, d, conv.asked, structured)
  <2>1. conv' = [row EXCEPT !.planned = TRUE] /\ conv.status \in {"clarifying", "awaiting"}
    BY <1>4 DEF ApplyPlannerProposal, MayApply, Accepting
  <2> HIDE DEF d, structured
  <2>2. /\ row = [f \in ConvFields |-> row[f]] /\ row.status \in {"awaiting", "clarifying"}
        /\ row.rev = conv.rev + 1 /\ row.version = conv.rev + 1
    BY <1>0, WrittenRow
  <2> HIDE DEF row
  <2> QED BY <2>1, <2>2 DEF Kept, ConvFields
<1>5. CASE AutoDispatch(c) \/ Confirm(c) \/ AppendGlobalReply(c)
  BY <1>1, <1>5 DEF AutoDispatch, Confirm, AppendGlobalReply
<1>6. CASE MarkDispatched(c)
  BY <1>1, <1>6 DEF MarkDispatched
<1> QED BY <1>1, <1>2, <1>3, <1>4, <1>5, <1>6 DEF Concludes

(* What a goal was made of has been written by then, and so has what a      *)
(* thread goes on with; a thread that is to mark the conversation has a     *)
(* goal to name.                                                           *)
Numbered(rec) == rec.version \in 0..rec.rev /\ (rec.status # "none" => rec.version >= 1)

GoalKeys == {"auto", "confirm"}

MadeBy(t, version, made) ==
  /\ t.rec.version \in 0..version
  /\ t.rec.auto => t.rec.version >= 1
  /\ t.pc = "confirm" => t.src = "confirm" /\ t.rec.version >= 1
  /\ t.src = "confirm" => t.pc \in {"confirm", "mark"}
  /\ t.pc = "mark" => made[IF t.src = "confirm" THEN "confirm" ELSE "auto"] >= 1

MadeInv ==
  /\ Numbered(conv)
  /\ goalOf \in [GoalKeys -> 0..conv.version]
  /\ \A c \in Clients : MadeBy(client[c], conv.version, goalOf)
  /\ conv.status = "dispatched" => conv.goal \in GoalKeys /\ goalOf[conv.goal] >= 1

LEMMA MadeTypes ==
  ASSUME ButlerInv, MadeInv
  PROVE  /\ conv = [f \in ConvFields |-> conv[f]]
         /\ conv.rev \in Nat /\ conv.version \in 0..conv.rev /\ conv.version \in Nat
         /\ \A c \in Clients : client[c] = [f \in ThreadFields |-> client[c][f]]
<1>1. conv = [f \in ConvFields |-> conv[f]] /\ conv.rev \in Nat
  BY DEF ButlerInv, ConvRow
<1>2. conv.version \in 0..conv.rev
  BY DEF MadeInv, Numbered
<1>3. \A c \in Clients : client[c] = [f \in ThreadFields |-> client[c][f]]
  BY DEF ButlerInv, ThreadRow
<1> QED BY <1>1, <1>2, <1>3

(* A thread moves, the conversation keeps or writes its draft, and no goal  *)
(* is made.                                                                *)
LEMMA KeptNumbered ==
  ASSUME ButlerInv, MadeInv, Kept
  PROVE  Numbered(conv') /\ conv'.version >= conv.version
<1>1. conv.version \in 0..conv.rev /\ conv.rev \in Nat /\ (conv.status # "none" => conv.version >= 1)
  BY DEF MadeInv, Numbered, ButlerInv, ConvRow
<1>2. CASE conv'.version = conv.version /\ conv'.rev \in {conv.rev, conv.rev + 1}
           /\ (conv'.status = "none" <=> conv.status = "none")
  BY <1>1, <1>2 DEF Numbered
<1>3. CASE conv'.version = conv.rev + 1 /\ conv'.rev = conv.rev + 1
  BY <1>1, <1>3 DEF Numbered
<1> QED BY <1>2, <1>3 DEF Kept

LEMMA MadeMoves ==
  ASSUME ButlerInv, MadeInv, NEW c \in Clients, NEW t, Goes(c, t), Kept, UNCHANGED goalOf,
         MadeBy(t, conv'.version, goalOf)
  PROVE  MadeInv'
<1>1. Numbered(conv') /\ conv'.version >= conv.version
  BY KeptNumbered
<1>2. conv.version \in Nat /\ conv'.version \in Nat
  <2>1. conv.version \in Nat
    BY DEF MadeInv, Numbered, ButlerInv, ConvRow
  <2> QED BY <1>1, <2>1 DEF Numbered
<1>3. \A d \in Clients : client'[d] = t \/ client'[d] = client[d]
  BY DEF Goes, ButlerInv
<1>4. \A d \in Clients : MadeBy(client[d], conv'.version, goalOf)
  BY <1>1, <1>2 DEF MadeInv, MadeBy
<1>5. \A d \in Clients : MadeBy(client'[d], conv'.version, goalOf)
  BY <1>3, <1>4
<1>6. goalOf' \in [GoalKeys -> 0..conv'.version]
  BY <1>1, <1>2 DEF MadeInv
<1>7. conv'.status = "dispatched" => conv'.goal \in GoalKeys /\ goalOf'[conv'.goal] >= 1
  BY DEF Kept, MadeInv
<1> QED BY <1>1, <1>5, <1>6, <1>7 DEF MadeInv, MadeBy, Numbered

(* What is read of a row was written.                                      *)
LEMMA ViewNumbered ==
  ASSUME NEW rec, Numbered(rec), NEW t, t.rec = View(rec), t.pc # "mark",
         t.pc = "confirm" <=> t.src = "confirm",
         t.pc = "confirm" => Shown(rec) = "awaiting", NEW made
  PROVE  MadeBy(t, rec.version, made)
<1>1. View(rec).version = rec.version /\ (View(rec).auto => Shown(rec) = "awaiting")
  BY DEF View
<1>2. Shown(rec) = "awaiting" => rec.status = "awaiting"
  BY DEF Shown
<1>3. rec.version \in 0..rec.version /\ (rec.status = "awaiting" => rec.version >= 1)
  BY DEF Numbered
<1> QED BY <1>1, <1>2, <1>3 DEF MadeBy

LEMMA IdleMade ==
  ASSUME NEW version \in Nat, NEW made PROVE MadeBy(Idle, version, made)
<1>1. Idle.rec.version = 0 /\ ~Idle.rec.auto /\ Idle.pc = "idle" /\ Idle.src = "start"
  BY DEF Idle, View, NoConv
<1> QED BY <1>1 DEF MadeBy

LEMMA AsksKeepMade ==
  ASSUME ButlerInv, MadeInv, NEW c \in Clients, Asks(c) PROVE MadeInv'
<1>1. Kept /\ UNCHANGED goalOf
  BY AsksKeep DEF Asks, StartConversation, AppendConversational, PostField, PreparePlannerResume,
                  ReadProposal
<1>2. Numbered(conv')
  BY <1>1, KeptNumbered
<1>3. ASSUME NEW src, src # "confirm", Goes(c, AfterFirst(src, conv')) PROVE MadeInv'
  <2> DEFINE t == AfterFirst(src, conv')
  <2>1. t.rec = View(conv') /\ t.pc \in {"idle", "hand", "plan"} /\ t.src = src
    BY DEF AfterFirst, Idle
  <2>2. Goes(c, t)
    BY <1>3
  <2> HIDE DEF t
  <2> QED BY <1>1, <1>2, <1>3, <2>1, <2>2, ViewNumbered, MadeMoves
<1>4. CASE ReadProposal(c)
  <2> DEFINE t == [Idle EXCEPT !.pc = "confirm", !.src = "confirm", !.rec = View(conv)]
  <2>1. t.rec = View(conv') /\ t.pc = "confirm" /\ t.src = "confirm" /\ Goes(c, t)
    BY <1>4 DEF ReadProposal, Idle
  <2>2. Shown(conv') = "awaiting"
    BY <1>4 DEF ReadProposal
  <2> HIDE DEF t
  <2> QED BY <1>1, <1>2, <2>1, <2>2, ViewNumbered, MadeMoves
<1> QED BY <1>3, <1>4 DEF Asks, StartConversation, AppendConversational, PostField,
                          PreparePlannerResume

LEMMA CallsKeepMade ==
  ASSUME ButlerInv, MadeInv, NEW c \in Clients, Chats(c) \/ Calling(c) PROVE MadeInv'
<1>1. UNCHANGED <<conv, goalOf>>
  BY DEF Chats, StartGlobal, PostGlobalMessage, Calling, ProviderDown, PlanCall, Executes, Returns,
         ExecuteRaises, SettleCall
<1>2. Kept /\ conv.version \in Nat
  BY <1>1 DEF Kept, MadeInv, Numbered, ButlerInv, ConvRow
<1>3. ASSUME NEW t, Goes(c, t), t.rec = client[c].rec, t.src = client[c].src,
             t.pc \notin {"confirm", "mark"}, client[c].pc \notin {"confirm", "mark"}
      PROVE  MadeInv'
  <2>1. MadeBy(client[c], conv.version, goalOf)
    BY DEF MadeInv
  <2>2. MadeBy(t, conv'.version, goalOf)
    BY <1>1, <1>3, <2>1 DEF MadeBy
  <2> QED BY <1>1, <1>2, <1>3, <2>2, MadeMoves
<1>4. client[c] = [f \in ThreadFields |-> client[c][f]]
  BY DEF ButlerInv, ThreadRow
<1>5. ASSUME NEW reply, Goes(c, Answered(c, reply)), client[c].pc \notin {"confirm", "mark"}
      PROVE  MadeInv'
  <2> DEFINE t == Answered(c, reply)
  <2>1. t.rec = client[c].rec /\ t.src = client[c].src /\ t.pc \notin {"confirm", "mark"}
    BY <1>4 DEF Answered, ThreadFields
  <2> HIDE DEF t
  <2> QED BY <1>3, <1>5, <2>1 DEF t
<1>6. CASE Chats(c)
  <2>1. ASSUME NEW rec, ChatCall(c, rec) PROVE MadeInv'
    <3> DEFINE t == [Idle EXCEPT !.pc = "plan", !.src = "chat", !.session = rec.session,
                                 !.rec.rev = rec.rev]
    <3>1. Goes(c, t) /\ t.rec.version = 0 /\ ~t.rec.auto /\ t.pc = "plan" /\ t.src = "chat"
      BY ZenonT(60), <2>1 DEF ChatCall, Idle, View, NoConv
    <3> HIDE DEF t
    <3>2. MadeBy(t, conv'.version, goalOf)
      BY <1>1, <1>2, <3>1 DEF MadeBy
    <3> QED BY <1>1, <1>2, <3>1, <3>2, MadeMoves
  <2>2. Ends(c) => MadeInv'
    BY <1>1, <1>2, IdleMade, MadeMoves DEF Ends
  <2> QED BY <1>6, <2>1, <2>2 DEF Chats, StartGlobal, PostGlobalMessage
<1>7. CASE ProviderDown(c)
  BY <1>5, <1>7 DEF ProviderDown
<1>8. CASE PlanCall(c)
  <2> DEFINE t == [client[c] EXCEPT !.pc = "calling"]
  <2>1. t.rec = client[c].rec /\ t.src = client[c].src /\ t.pc = "calling"
    BY <1>4 DEF ThreadFields
  <2>2. Goes(c, t) \/ Goes(c, Answered(c, "duplicate"))
    BY <1>8 DEF PlanCall
  <2>3. client[c].pc = "plan"
    BY <1>8 DEF PlanCall
  <2> HIDE DEF t
  <2> QED BY <1>3, <1>5, <2>1, <2>2, <2>3
<1>9. ASSUME NEW s, NEW reply, NEW draft, Returns(c, s, reply, draft) PROVE MadeInv'
  <2> DEFINE n == used[s] + 1
             t == [client[c] EXCEPT !.pc = "settle", !.session = s, !.reply = reply,
                                    !.draft = draft, !.count = n]
  <2>1. Goes(c, t) /\ client[c].pc = "calling"
    BY <1>9 DEF Returns
  <2> HIDE DEF n
  <2>2. t.rec = client[c].rec /\ t.src = client[c].src /\ t.pc = "settle"
    BY <1>4 DEF ThreadFields
  <2> HIDE DEF t
  <2> QED BY <1>3, <2>1, <2>2
<1>10. CASE Executes(c)
  BY <1>9, <1>10 DEF Executes
<1>11. CASE ExecuteRaises(c)
  <2> DEFINE t == [client[c] EXCEPT !.pc = "settle", !.reply = "failed", !.count = 0]
  <2>1. t.rec = client[c].rec /\ t.src = client[c].src /\ t.pc = "settle" /\ Goes(c, t)
    BY <1>4, <1>11 DEF ThreadFields, ExecuteRaises
  <2>2. client[c].pc = "calling"
    BY <1>11 DEF ExecuteRaises
  <2> HIDE DEF t
  <2> QED BY <1>3, <2>1, <2>2
<1>12. CASE SettleCall(c)
  <2> DEFINE t == [client[c] EXCEPT !.pc = "plan", !.try = 1, !.draft = NoDraft]
  <2>1. t.rec = client[c].rec /\ t.src = client[c].src /\ t.pc = "plan"
    BY <1>4 DEF ThreadFields
  <2>2. Goes(c, t) \/ Goes(c, Answered(c, client[c].reply))
    BY <1>12 DEF SettleCall
  <2>3. client[c].pc = "settle"
    BY <1>12 DEF SettleCall
  <2> HIDE DEF t
  <2> QED BY <1>3, <1>5, <2>1, <2>2, <2>3
<1> QED BY <1>6, <1>7, <1>8, <1>10, <1>11, <1>12 DEF Calling

(* The hand-over: the goal is made, or found, of what the thread read or of *)
(* what the conversation says, and then there is one to name.               *)
LEMMA HandKeepsMade ==
  ASSUME ButlerInv, MadeInv, NEW c \in Clients, AutoDispatch(c) \/ Confirm(c) PROVE MadeInv'
<1>1. /\ UNCHANGED conv /\ conv.version \in Nat /\ Kept
      /\ client[c] = [f \in ThreadFields |-> client[c][f]]
      /\ goalOf \in [GoalKeys -> 0..conv.version]
      /\ \A d \in Clients : MadeBy(client[d], conv.version, goalOf)
  <2>1. UNCHANGED conv
    BY DEF AutoDispatch, Confirm
  <2>2. Kept
    BY <2>1, MadeTypes DEF Kept
  <2> QED BY <2>1, <2>2, MadeTypes DEF MadeInv
<1>2. CASE Ends(c) /\ UNCHANGED goalOf
  BY <1>1, <1>2, IdleMade, MadeMoves DEF Ends
<1>3. ASSUME NEW key \in GoalKeys, NEW version \in 1..conv.version,
             goalOf' = [goalOf EXCEPT ![key] = IF goalOf[key] = 0 THEN version ELSE goalOf[key]],
             Goes(c, [client[c] EXCEPT !.pc = "mark"]),
             key = IF client[c].src = "confirm" THEN "confirm" ELSE "auto"
      PROVE  MadeInv'
  <2> DEFINE t == [client[c] EXCEPT !.pc = "mark"]
  <2>1. t.rec = client[c].rec /\ t.src = client[c].src /\ t.pc = "mark"
    BY <1>1 DEF ThreadFields
  <2>2. /\ goalOf' \in [GoalKeys -> 0..conv.version] /\ goalOf'[key] >= 1
        /\ \A k \in GoalKeys : goalOf[k] >= 1 => goalOf'[k] >= 1
    BY <1>1, <1>3
  <2>3. Goes(c, t)
    BY <1>3
  <2> HIDE DEF t
  <2>4. \A d \in Clients : client'[d] = t \/ client'[d] = client[d]
    BY <2>3 DEF Goes, ButlerInv
  <2>5. \A d \in Clients : MadeBy(client[d], conv.version, goalOf')
    BY <1>1, <2>2 DEF MadeBy, GoalKeys
  <2>6. MadeBy(t, conv.version, goalOf')
    BY <1>1, <1>3, <2>1, <2>2 DEF MadeBy
  <2>7. \A d \in Clients : MadeBy(client'[d], conv.version, goalOf')
    BY <2>4, <2>5, <2>6
  <2>8. Numbered(conv) /\ (conv.status = "dispatched" => conv.goal \in GoalKeys /\ goalOf'[conv.goal] >= 1)
    BY <2>2 DEF MadeInv
  <2> QED BY <1>1, <2>2, <2>7, <2>8 DEF MadeInv, MadeBy, Numbered
<1>4. CASE AutoDispatch(c) /\ ~(Ends(c) /\ UNCHANGED goalOf)
  <2>1. /\ client[c].rec.auto /\ client[c].pc = "hand"
        /\ goalOf' = [goalOf EXCEPT !["auto"] = IF goalOf["auto"] = 0 THEN client[c].rec.version
                                                ELSE goalOf["auto"]]
        /\ Goes(c, [client[c] EXCEPT !.pc = "mark"])
    BY <1>4 DEF AutoDispatch, CreateGoal
  <2>2. client[c].rec.version \in 1..conv.version
    BY <1>1, <2>1 DEF MadeBy
  <2>3. client[c].src # "confirm"
    BY <1>1, <2>1 DEF MadeBy
  <2> QED BY <1>3, <2>1, <2>2, <2>3 DEF GoalKeys
<1>5. CASE Confirm(c) /\ ~(Ends(c) /\ UNCHANGED goalOf)
  <2>1. /\ client[c].pc = "confirm"
        /\ goalOf' = [goalOf EXCEPT !["confirm"] = IF goalOf["confirm"] = 0 THEN conv.version
                                                   ELSE goalOf["confirm"]]
        /\ Goes(c, [client[c] EXCEPT !.pc = "mark"])
    BY <1>5 DEF Confirm, CreateGoal
  <2>2. conv.version \in 1..conv.version
    BY <1>1, <2>1 DEF MadeBy
  <2>3. client[c].src = "confirm"
    BY <1>1, <2>1 DEF MadeBy
  <2> QED BY <1>3, <2>1, <2>2, <2>3 DEF GoalKeys
<1> QED BY <1>2, <1>4, <1>5

LEMMA ConcludesKeepMade ==
  ASSUME ButlerInv, MadeInv, NEW c \in Clients, Concludes(c) PROVE MadeInv'
<1>1. /\ client[c] = [f \in ThreadFields |-> client[c][f]] /\ conv.version \in Nat
      /\ conv = [f \in ConvFields |-> conv[f]]
      /\ MadeBy(client[c], conv.version, goalOf)
  BY MadeTypes DEF MadeInv
<1>2. CASE AutoDispatch(c) \/ Confirm(c)
  BY <1>2, HandKeepsMade
<1>3. CASE MarkDispatched(c) /\ MayMark(c)
  <2> DEFINE key == GoalKey(c)
  <2>1. /\ conv' = [conv EXCEPT !.status = "dispatched", !.rev = conv.rev + 1, !.goal = key]
        /\ UNCHANGED goalOf /\ Goes(c, Idle) /\ client[c].pc = "mark"
    BY <1>3 DEF MarkDispatched, Ends
  <2>2. key \in GoalKeys /\ goalOf[key] >= 1
    BY <1>1, <2>1 DEF MadeBy, GoalKey, GoalKeys
  <2> HIDE DEF key
  <2>3. /\ conv'.version = conv.version /\ conv'.rev = conv.rev + 1 /\ conv'.goal = key
        /\ conv'.status = "dispatched"
    BY <1>1, <2>1 DEF ConvFields
  <2>4. Numbered(conv')
    <3>1. Numbered(conv) /\ conv.rev \in Nat /\ conv.status = "awaiting"
      BY <1>3 DEF MadeInv, MayMark, ButlerInv, ConvRow
    <3> QED BY <2>3, <3>1 DEF Numbered
  <2>5. \A d \in Clients : client'[d] = Idle \/ client'[d] = client[d]
    BY <2>1 DEF Goes, ButlerInv
  <2>6. \A d \in Clients : MadeBy(client'[d], conv.version, goalOf)
    BY <1>1, <2>5, IdleMade DEF MadeInv
  <2> QED BY <2>1, <2>2, <2>3, <2>4, <2>6 DEF MadeInv, MadeBy, Numbered
<1>4. ASSUME ~(AutoDispatch(c) \/ Confirm(c)), ~(MarkDispatched(c) /\ MayMark(c)) PROVE MadeInv'
  <2>1. Kept /\ UNCHANGED goalOf
    BY <1>4, ConcludesKeeps DEF Concludes, BindSession, SuspendPlanner, ApplyPlannerProposal,
                                MarkDispatched, AppendGlobalReply
  <2>2. Numbered(conv') /\ conv'.version >= conv.version /\ conv'.version \in Nat
    <3>1. Numbered(conv') /\ conv'.version >= conv.version
      BY <2>1, KeptNumbered
    <3>2. conv'.version \in Nat
      BY <1>1, <2>1, <3>1 DEF Kept, ButlerInv, ConvRow
    <3> QED BY <3>1, <3>2
  <2>3. Ends(c) => MadeInv'
    BY <2>1, <2>2, IdleMade, MadeMoves DEF Ends
  <2>4. ASSUME client[c].pc = "finish", HandsOn(c) PROVE MadeInv'
    <3> DEFINE t == [Idle EXCEPT !.pc = "hand", !.src = client[c].src, !.rec = View(conv')]
    <3>1. t.rec = View(conv') /\ t.pc = "hand" /\ t.src = client[c].src
      BY DEF Idle
    <3>2. client[c].src # "confirm"
      BY <1>1, <2>4 DEF MadeBy
    <3>3. Goes(c, t) \/ Ends(c)
      BY <2>4 DEF HandsOn, Ends
    <3> HIDE DEF t
    <3> QED BY <2>1, <2>2, <2>3, <3>1, <3>2, <3>3, ViewNumbered, MadeMoves
  <2>5. CASE BindSession(c)
    <3> DEFINE t == [client[c] EXCEPT !.pc = "finish"]
               u == [client[c] EXCEPT !.pc = "finish", !.session = NoSession, !.rec = View(conv')]
    <3>1. /\ t.rec = client[c].rec /\ t.src = client[c].src /\ t.pc = "finish"
          /\ u.rec = View(conv') /\ u.src = client[c].src /\ u.pc = "finish"
      BY <1>1 DEF ThreadFields
    <3>2. client[c].pc = "bind" /\ ((Goes(c, t) /\ UNCHANGED conv) \/ Goes(c, u) \/ Ends(c))
      BY <2>5 DEF BindSession
    <3> HIDE DEF t, u
    <3>3. client[c].src # "confirm"
      BY <1>1, <3>2 DEF MadeBy
    <3>4. UNCHANGED conv => MadeBy(t, conv'.version, goalOf)
      BY <1>1, <3>1, <3>3 DEF MadeBy
    <3>5. MadeBy(u, conv'.version, goalOf)
      BY <2>2, <3>1, <3>3, ViewNumbered
    <3> QED BY <2>1, <2>3, <3>2, <3>4, <3>5, MadeMoves
  <2>6. CASE SuspendPlanner(c)
    BY <2>3, <2>4, <2>6 DEF SuspendPlanner
  <2>7. CASE ApplyPlannerProposal(c)
    BY <2>3, <2>4, <2>7 DEF ApplyPlannerProposal
  <2>8. CASE MarkDispatched(c) \/ AppendGlobalReply(c)
    BY <2>3, <2>8 DEF MarkDispatched, AppendGlobalReply
  <2> QED BY <1>4, <2>5, <2>6, <2>7, <2>8 DEF Concludes
<1> QED BY <1>2, <1>3, <1>4

LEMMA MadeInvInductive == ButlerInv /\ MadeInv /\ [ButlerNext]_butlerVars => MadeInv'
<1> SUFFICES ASSUME ButlerInv, MadeInv, [ButlerNext]_butlerVars PROVE MadeInv'
  OBVIOUS
<1>1. ASSUME NEW c \in Clients, Asks(c) \/ Chats(c) \/ Calling(c) \/ Concludes(c) PROVE MadeInv'
  BY <1>1, AsksKeepMade, CallsKeepMade, ConcludesKeepMade
<1>2. CASE Crash
  <2>1. /\ UNCHANGED <<conv, goalOf>> /\ conv.version \in Nat
        /\ \A c \in Clients : client'[c] = client[c] \/ client'[c] = Idle
    BY <1>2 DEF Crash, MadeInv, Numbered, ButlerInv, ConvRow
  <2>2. \A c \in Clients : MadeBy(client'[c], conv.version, goalOf)
    BY <2>1, IdleMade DEF MadeInv
  <2> QED BY <2>1, <2>2 DEF MadeInv, MadeBy, Numbered
<1>3. CASE UNCHANGED butlerVars
  BY <1>3 DEF butlerVars, MadeInv, MadeBy, Numbered
<1> QED BY <1>1, <1>2, <1>3 DEF ButlerNext

LEMMA MadeInvHolds == ButlerSpec => []MadeInv
<1>1. ButlerInit => MadeInv
  <2> SUFFICES ASSUME ButlerInit PROVE MadeInv
    OBVIOUS
  <2>1. conv.version = 0 /\ conv.rev = 0 /\ conv.status = "none"
    BY DEF ButlerInit, NoConv
  <2>2. \A c \in Clients : MadeBy(client[c], conv.version, goalOf)
    BY <2>1, IdleMade DEF ButlerInit
  <2> QED BY <2>1, <2>2 DEF ButlerInit, MadeInv, Numbered, GoalKeys
<1> QED BY <1>1, MadeInvInductive, ButlerInvHolds, PTL DEF ButlerSpec

(* mark_dispatched records what its thread judged, or its person read:      *)
(* whatever turns, proposals and suspensions come between, the version and  *)
(* the turns are those that were read.  The goal it names exists and was    *)
(* made of that version or an earlier one, and nothing of it changes after. *)
THEOREM DispatchesStand == ButlerSpec => DispatchStands
<1> DEFINE Stands ==
      /\ conv.status # "dispatched" /\ conv'.status = "dispatched" =>
           /\ \E c \in Clients : /\ client[c].pc = "mark" /\ client'[c].pc = "idle"
                                 /\ client[c].rec.version = conv.version
                                 /\ client[c].rec.turns = conv.turns
           /\ goalOf'[conv'.goal] \in 1..conv.version
      /\ conv.status = "dispatched" =>
           /\ conv'.status = "dispatched" /\ conv'.goal = conv.goal
           /\ conv'.draft = conv.draft
           /\ goalOf'[conv.goal] = goalOf[conv.goal]
<1>1. ButlerInv /\ MadeInv /\ MadeInv' /\ [ButlerNext]_butlerVars => [Stands]_butlerVars
  <2> SUFFICES ASSUME ButlerInv, MadeInv, MadeInv', ButlerNext PROVE Stands
    OBVIOUS
  <2>0. /\ goalOf \in [GoalKeys -> 0..conv.version]
        /\ conv.status = "dispatched" => conv.goal \in GoalKeys /\ goalOf[conv.goal] >= 1
        /\ conv.version \in Nat
    BY DEF MadeInv, Numbered, ButlerInv, ConvRow
  <2>1. conv.status = "dispatched" => goalOf'[conv.goal] = goalOf[conv.goal]
    <3>1. ASSUME NEW key, NEW version,
                 goalOf' = [goalOf EXCEPT ![key] = IF goalOf[key] = 0 THEN version ELSE goalOf[key]]
          PROVE  conv.status = "dispatched" => goalOf'[conv.goal] = goalOf[conv.goal]
      BY <2>0, <3>1
    <3>2. ASSUME NEW c \in Clients, AutoDispatch(c) \/ Confirm(c)
          PROVE  conv.status = "dispatched" => goalOf'[conv.goal] = goalOf[conv.goal]
      BY <3>1, <3>2 DEF AutoDispatch, Confirm, CreateGoal
    <3>3. ASSUME NEW c \in Clients, ~(AutoDispatch(c) \/ Confirm(c)),
                 Asks(c) \/ Chats(c) \/ Calling(c) \/ Concludes(c)
          PROVE  UNCHANGED goalOf
      BY <3>3 DEF Asks, StartConversation, AppendConversational, PostField, PreparePlannerResume,
              ReadProposal, Chats, StartGlobal, PostGlobalMessage, Calling, ProviderDown, PlanCall,
              Executes, Returns, ExecuteRaises, SettleCall, Concludes, BindSession, SuspendPlanner,
              ApplyPlannerProposal, MarkDispatched, AppendGlobalReply
    <3>4. Crash => UNCHANGED goalOf
      BY DEF Crash
    <3> QED BY <3>2, <3>3, <3>4 DEF ButlerNext
  <2>2. Kept => Stands
    BY <2>1 DEF Kept
  <2>3. ASSUME NEW c \in Clients, MarkDispatched(c), MayMark(c) PROVE Stands
    <3>1. /\ client[c].pc = "mark" /\ client[c].rec.version = conv.version
          /\ client[c].rec.rev = conv.rev /\ conv.status = "awaiting"
      BY <2>3 DEF MarkDispatched, MayMark, Current
    <3>2. client[c].src # "chat"
      BY <3>1 DEF ButlerInv, ThreadRow
    <3>3. client[c].rec.turns = conv.turns
      BY <3>1, <3>2 DEF ButlerInv, ReadAt
    <3>4. client'[c].pc = "idle"
      BY <2>3 DEF MarkDispatched, Ends, Goes, ButlerInv, Idle
    <3>5. conv'.goal = GoalKey(c) /\ UNCHANGED goalOf
      <4>1. conv = [f \in ConvFields |-> conv[f]]
        BY DEF ButlerInv, ConvRow
      <4> QED BY <2>3, <4>1 DEF MarkDispatched, ConvFields
    <3>6. GoalKey(c) \in GoalKeys /\ goalOf[GoalKey(c)] >= 1
      BY <3>1 DEF MadeInv, MadeBy, GoalKey, GoalKeys
    <3>7. goalOf'[conv'.goal] \in 1..conv.version
      BY <2>0, <3>5, <3>6
    <3> QED BY <3>1, <3>3, <3>4, <3>7
  <2>4. ASSUME NEW c \in Clients, Chats(c) \/ Calling(c) PROVE UNCHANGED conv
    BY <2>4 DEF Chats, StartGlobal, PostGlobalMessage, Calling, ProviderDown, PlanCall,
                Executes, Returns, ExecuteRaises, SettleCall
  <2>5. Crash => UNCHANGED conv
    BY DEF Crash
  <2>6. UNCHANGED conv => Kept
    BY <2>0 DEF Kept, ButlerInv, ConvRow
  <2> QED BY <2>2, <2>3, <2>4, <2>5, <2>6, AsksKeep, ConcludesKeeps DEF ButlerNext
<1> QED BY <1>1, ButlerInvHolds, MadeInvHolds, PTL DEF ButlerSpec, DispatchStands

-----------------------------------------------------------------------------
(* The conversation with the global Butler.                                 *)
(*                                                                          *)
(* The log has one entry per revision.  A thread that was asked by the      *)
(* message of the present revision finds that message at the end of the     *)
(* log, for whatever was said since would have made a revision.             *)
Entry == [said : BOOLEAN, rev : Nat]

(* An answer stands behind its message.                                     *)
Placed(log, i) ==
  /\ log[i].said => log[i].rev = i
  /\ ~log[i].said => i > 1 /\ log[i - 1] = [said |-> TRUE, rev |-> log[i].rev]

AskedLast(t, rec) ==
  /\ t.pc = "answer" => t.src = "chat"
  /\ t.src = "chat" => t.rec.rev \in 1..rec.rev /\ (t.rec.rev = rec.rev => rec.log[rec.rev].said)

LogInv ==
  /\ chat.log \in Seq(Entry) /\ Len(chat.log) = chat.rev
  /\ \A i \in 1..chat.rev : Placed(chat.log, i)
  /\ \A c \in Clients : AskedLast(client[c], chat)

(* A message or an answer is appended; who asked before is not last any more. *)
LEMMA LogGrows ==
  ASSUME ButlerInv, LogInv, NEW c \in Clients, NEW t, NEW e \in Entry, Goes(c, t),
         chat'.log = Append(chat.log, e), chat'.rev = chat.rev + 1,
         e.said => e.rev = chat.rev + 1,
         ~e.said => chat.rev > 0 /\ chat.log[chat.rev] = [said |-> TRUE, rev |-> e.rev],
         t.pc = "answer" => t.src = "chat",
         t.src = "chat" => t.rec.rev = chat.rev + 1 /\ e.said
  PROVE  LogInv'
<1> DEFINE n == chat.rev
<1>0. n \in Nat /\ chat.log \in Seq(Entry) /\ Len(chat.log) = n
  BY DEF ButlerInv, ChatRow, LogInv
<1>1. /\ chat'.log \in Seq(Entry) /\ Len(chat'.log) = n + 1 /\ chat'.log[n + 1] = e
      /\ \A i \in 1..n : chat'.log[i] = chat.log[i]
  BY <1>0, AppendProperties
<1>2. ASSUME NEW i \in 1..(n + 1) PROVE Placed(chat'.log, i)
  <2>1. CASE i = n + 1
    <3>1. ~e.said => chat'.log[n] = [said |-> TRUE, rev |-> e.rev]
      BY <1>0, <1>1
    <3>2. i - 1 = n /\ (n > 0 => i > 1) /\ chat'.log[i] = e
      BY <1>0, <1>1, <2>1
    <3>3. e.said => chat'.log[i].rev = i
      BY <2>1, <3>2
    <3>4. ~e.said => i > 1 /\ chat'.log[i - 1] = [said |-> TRUE, rev |-> e.rev]
      BY <3>1, <3>2
    <3> HIDE DEF n
    <3> QED BY <3>2, <3>3, <3>4 DEF Placed
  <2>2. CASE i \in 1..n
    <3>1. Placed(chat.log, i)
      BY <2>2 DEF LogInv
    <3>2. chat'.log[i] = chat.log[i] /\ (i > 1 => chat'.log[i - 1] = chat.log[i - 1])
      BY <1>0, <1>1, <2>2
    <3> QED BY <3>1, <3>2 DEF Placed
  <2> QED BY <1>0, <2>1, <2>2
<1>3. /\ client'[c] = t /\ \A d \in Clients : d # c => client'[d] = client[d]
  BY DEF ButlerInv, Goes
<1>4. ASSUME NEW d \in Clients PROVE AskedLast(client'[d], chat')
  <2>1. CASE d = c
    BY <1>0, <1>1, <1>3, <2>1 DEF AskedLast
  <2>2. CASE d # c
    BY <1>0, <1>3, <2>2 DEF LogInv, AskedLast
  <2> QED BY <2>1, <2>2
<1>5. \A d \in Clients : AskedLast(client[d], chat)'
  BY <1>4 DEF AskedLast
<1>6. \A i \in 1..chat'.rev : Placed(chat.log, i)'
  BY <1>2 DEF Placed
<1> QED BY <1>1, <1>5, <1>6 DEF LogInv

(* The threads go on with what they were asked.                             *)
LEMMA LogStays ==
  ASSUME LogInv, UNCHANGED chat,
         \A d \in Clients : \/ /\ client'[d].src = client[d].src
                               /\ client'[d].rec.rev = client[d].rec.rev
                               /\ client'[d].pc = "answer" =>
                                    client[d].pc = "answer" \/ client[d].src = "chat"
                            \/ client'[d].src # "chat" /\ client'[d].pc # "answer"
  PROVE  LogInv'
BY DEF LogInv, Placed, AskedLast

(* A thread that is not answering the global Butler, and then is not.       *)
LEMMA LogApart ==
  ASSUME ButlerInv, LogInv, UNCHANGED chat, NEW c \in Clients, NEW t, Goes(c, t),
         \/ t.src # "chat" /\ t.pc # "answer"
         \/ /\ t.src = client[c].src /\ t.rec = client[c].rec
            /\ t.pc = "answer" => client[c].pc = "answer" \/ client[c].src = "chat"
  PROVE  LogInv'
<1>1. /\ client'[c] = t /\ \A d \in Clients : d # c => client'[d] = client[d]
  BY DEF ButlerInv, Goes
<1> QED BY <1>1, LogStays

LEMMA ChatsKeepLog ==
  ASSUME ButlerInv, LogInv, NEW c \in Clients, Chats(c) PROVE LogInv'
<1> DEFINE e == [said |-> TRUE, rev |-> chat.rev + 1]
           t == [Idle EXCEPT !.pc = "plan", !.src = "chat", !.session = chat'.session,
                             !.rec.rev = chat'.rev]
<1>0. chat.rev \in Nat /\ chat = [f \in {"rev", "log", "session"} |-> chat[f]] /\ e \in Entry
      /\ e.said /\ e.rev = chat.rev + 1
  BY DEF ButlerInv, ChatRow, Entry
<1>1. t.pc = "plan" /\ t.src = "chat" /\ t.rec.rev = chat'.rev
  BY DEF Idle, View
<1>2. Idle.pc = "idle" /\ Idle.src = "start"
  BY DEF Idle
<1>3. ChatCall(c, chat') => Goes(c, t)
  BY DEF ChatCall
<1>4. ASSUME chat' = Said(chat) PROVE chat'.log = Append(chat.log, e) /\ chat'.rev = chat.rev + 1
  BY <1>0, <1>4 DEF Said
<1> HIDE DEF t, e
<1>5. CASE chat' = Said(chat) /\ ChatCall(c, chat')
  BY <1>0, <1>1, <1>3, <1>4, <1>5, LogGrows
<1>6. CASE chat' = Said(chat) /\ Ends(c)
  BY <1>0, <1>2, <1>4, <1>6, LogGrows DEF Ends
<1>7. CASE chat' = chat /\ Ends(c)
  BY <1>2, <1>7, LogApart DEF Ends
<1>8. CASE chat' = chat /\ ChatCall(c, chat') /\ chat.rev # 0 /\ Len(chat.log) = 1
  <2>1. chat.rev = 1 /\ Placed(chat.log, 1)
    BY <1>8 DEF LogInv
  <2>2. chat.log[1].said
    BY <2>1 DEF Placed
  <2>3. AskedLast(t, chat)
    BY <1>1, <1>8, <2>1, <2>2 DEF AskedLast
  <2>4. client'[c] = t /\ \A d \in Clients : d # c => client'[d] = client[d]
    BY <1>3, <1>8 DEF ButlerInv, Goes
  <2>5. \A d \in Clients : AskedLast(client'[d], chat)
    BY <2>3, <2>4 DEF LogInv
  <2> QED BY <1>8, <2>5 DEF LogInv, Placed, AskedLast
<1> QED BY <1>5, <1>6, <1>7, <1>8 DEF Chats, StartGlobal, PostGlobalMessage

LEMMA RequestsKeepLog ==
  ASSUME ButlerInv, LogInv, NEW c \in Clients, Asks(c) PROVE LogInv'
<1>1. ASSUME NEW src \in {"start", "route", "turn", "resume"}, Goes(c, AfterFirst(src, conv')),
             UNCHANGED chat
      PROVE  LogInv'
  <2> DEFINE t == AfterFirst(src, conv')
  <2>1. t.src = src /\ t.pc \in {"idle", "hand", "plan"}
    BY DEF AfterFirst, Idle
  <2> HIDE DEF t
  <2>2. Goes(c, t)
    BY <1>1 DEF t
  <2> QED BY <1>1, <2>1, <2>2, LogApart
<1>2. ASSUME NEW src \in {"start", "route"}, NEW draft, StartConversation(c, src, draft)
      PROVE  LogInv'
  BY <1>1, <1>2 DEF StartConversation
<1>3. CASE AppendConversational(c)
  BY <1>1, <1>3 DEF AppendConversational
<1>4. CASE PreparePlannerResume(c)
  BY <1>1, <1>4 DEF PreparePlannerResume
<1>5. ASSUME NEW field \in DOMAIN NoDraft.text, NEW text \in Texts, PostField(c, field, text)
      PROVE  LogInv'
  BY <1>1, <1>5 DEF PostField
<1>6. CASE ReadProposal(c)
  <2> DEFINE t == [Idle EXCEPT !.pc = "confirm", !.src = "confirm", !.rec = View(conv)]
  <2>1. t.src = "confirm" /\ t.pc = "confirm"
    BY DEF Idle
  <2>2. Goes(c, t) /\ UNCHANGED chat
    BY <1>6 DEF ReadProposal
  <2> HIDE DEF t
  <2> QED BY <2>1, <2>2, LogApart
<1> QED BY <1>2, <1>3, <1>4, <1>5, <1>6 DEF Asks

LEMMA CallsKeepLog ==
  ASSUME ButlerInv, LogInv, NEW c \in Clients, Calling(c) PROVE LogInv'
<1>0. UNCHANGED chat
  BY DEF Calling, ProviderDown, PlanCall, Executes, Returns, ExecuteRaises, SettleCall
<1>1. client[c] = [f \in ThreadFields |-> client[c][f]]
  BY DEF ButlerInv, ThreadRow
<1>2. ASSUME NEW t, Goes(c, t), t.src = client[c].src, t.rec = client[c].rec,
             t.pc = "answer" => client[c].src = "chat"
      PROVE  LogInv'
  BY <1>0, <1>2, LogApart
<1>3. ASSUME NEW reply, Goes(c, Answered(c, reply)) PROVE LogInv'
  <2> DEFINE t == Answered(c, reply)
  <2>1. /\ t.src = client[c].src /\ t.rec = client[c].rec
        /\ t.pc = "answer" => client[c].src = "chat"
    BY <1>1 DEF Answered, ThreadFields
  <2> HIDE DEF t
  <2>2. Goes(c, t)
    BY <1>3 DEF t
  <2> QED BY <1>2, <2>1, <2>2
<1>4. CASE ProviderDown(c)
  BY <1>3, <1>4 DEF ProviderDown
<1>5. CASE PlanCall(c)
  <2> DEFINE t == [client[c] EXCEPT !.pc = "calling"]
  <2>1. t.src = client[c].src /\ t.rec = client[c].rec /\ t.src = client[c].src /\ t.pc = "calling"
    BY <1>1 DEF ThreadFields
  <2>2. Goes(c, t) \/ Goes(c, Answered(c, "duplicate"))
    BY <1>5 DEF PlanCall
  <2> HIDE DEF t
  <2> QED BY <1>2, <1>3, <2>1, <2>2
<1>6. ASSUME NEW s \in Sessions, NEW reply, NEW draft, Returns(c, s, reply, draft) PROVE LogInv'
  <2> DEFINE n == used[s] + 1
             t == [client[c] EXCEPT !.pc = "settle", !.session = s, !.reply = reply,
                                    !.draft = draft, !.count = n]
  <2>1. Goes(c, t)
    BY <1>6 DEF Returns
  <2> HIDE DEF n
  <2>2. t.src = client[c].src /\ t.rec = client[c].rec /\ t.src = client[c].src /\ t.pc = "settle"
    BY <1>1 DEF ThreadFields
  <2> HIDE DEF t
  <2> QED BY <1>2, <2>1, <2>2
<1>7. CASE ExecuteRaises(c)
  <2> DEFINE t == [client[c] EXCEPT !.pc = "settle", !.reply = "failed", !.count = 0]
  <2>1. t.src = client[c].src /\ t.rec = client[c].rec /\ t.pc = "settle" /\ Goes(c, t)
    BY <1>1, <1>7 DEF ThreadFields, ExecuteRaises
  <2> HIDE DEF t
  <2> QED BY <1>2, <2>1
<1>8. CASE SettleCall(c)
  <2> DEFINE t == [client[c] EXCEPT !.pc = "plan", !.try = 1, !.draft = NoDraft]
  <2>1. t.src = client[c].src /\ t.rec = client[c].rec /\ t.pc = "plan"
    BY <1>1 DEF ThreadFields
  <2>2. Goes(c, t) \/ Goes(c, Answered(c, client[c].reply))
    BY <1>8 DEF SettleCall
  <2> HIDE DEF t
  <2> QED BY <1>2, <1>3, <2>1, <2>2
<1> QED BY <1>4, <1>5, <1>6, <1>7, <1>8 DEF Calling, Executes

LEMMA ConcludesKeepLog ==
  ASSUME ButlerInv, LogInv, NEW c \in Clients, Concludes(c) PROVE LogInv'
<1>0. ThreadRow(client[c]) /\ client[c] = [f \in ThreadFields |-> client[c][f]]
  BY DEF ButlerInv, ThreadRow
<1>1. ASSUME UNCHANGED chat, NEW t, Goes(c, t), t.src # "chat", t.pc # "answer" PROVE LogInv'
  BY <1>1, LogApart
<1>2. ASSUME UNCHANGED chat, Ends(c) PROVE LogInv'
  <2>1. Idle.src # "chat" /\ Idle.pc # "answer"
    BY DEF Idle
  <2> QED BY <1>1, <1>2, <2>1 DEF Ends
<1>3. ASSUME UNCHANGED chat, HandsOn(c), client[c].src # "chat" PROVE LogInv'
  <2> DEFINE t == [Idle EXCEPT !.pc = "hand", !.src = client[c].src, !.rec = View(conv')]
  <2>1. t.src = client[c].src /\ t.pc = "hand"
    BY DEF Idle
  <2>2. Goes(c, t) \/ Ends(c)
    BY <1>3 DEF HandsOn, Ends
  <2> HIDE DEF t
  <2> QED BY <1>1, <1>2, <1>3, <2>1, <2>2
<1>4. CASE BindSession(c)
  <2> DEFINE t == [client[c] EXCEPT !.pc = "finish"]
             u == [client[c] EXCEPT !.pc = "finish", !.session = NoSession, !.rec = View(conv')]
  <2>1. t.src = client[c].src /\ t.pc = "finish" /\ u.src = client[c].src /\ u.pc = "finish"
    BY <1>0 DEF ThreadFields
  <2>2. Goes(c, t) \/ Goes(c, u) \/ Ends(c)
    BY <1>4 DEF BindSession
  <2>3. UNCHANGED chat /\ client[c].src # "chat"
    BY <1>0, <1>4 DEF BindSession, ThreadRow
  <2> HIDE DEF t, u
  <2> QED BY <1>1, <1>2, <2>1, <2>2, <2>3
<1>5. CASE SuspendPlanner(c) \/ ApplyPlannerProposal(c)
  <2>1. UNCHANGED chat /\ client[c].src # "chat" /\ (HandsOn(c) \/ Ends(c))
    BY <1>0, <1>5 DEF SuspendPlanner, ApplyPlannerProposal, ThreadRow
  <2> QED BY <1>2, <1>3, <2>1
<1>6. CASE AutoDispatch(c) \/ Confirm(c) \/ MarkDispatched(c)
  <2> DEFINE t == [client[c] EXCEPT !.pc = "mark"]
  <2>1. t.src = client[c].src /\ t.pc = "mark"
    BY <1>0 DEF ThreadFields
  <2>2. Goes(c, t) \/ Ends(c)
    BY <1>6 DEF AutoDispatch, Confirm, MarkDispatched
  <2>3. UNCHANGED chat /\ client[c].src # "chat"
    BY <1>0, <1>6 DEF AutoDispatch, Confirm, MarkDispatched, ThreadRow
  <2> HIDE DEF t
  <2> QED BY <1>1, <1>2, <2>1, <2>2, <2>3
<1>7. CASE AppendGlobalReply(c)
  <2>1. CASE UNCHANGED chat
    BY <1>2, <1>7, <2>1 DEF AppendGlobalReply
  <2>2. CASE MayReply(c)
    <3> DEFINE e   == [said |-> FALSE, rev |-> client[c].rec.rev]
               s   == IF client[c].session = NoSession THEN chat.session ELSE client[c].session
               log == Append(chat.log, e)
    <3>1. /\ chat' = [chat EXCEPT !.rev = chat.rev + 1, !.session = s, !.log = log]
          /\ Goes(c, Idle)
      BY <1>7, <2>2 DEF AppendGlobalReply, Ends
    <3>2. /\ client[c].rec.rev = chat.rev /\ chat.rev \in Nat /\ chat.rev > 0
          /\ Placed(chat.log, chat.rev) /\ chat.log[chat.rev].said
          /\ chat.log[chat.rev] \in Entry
      <4>1. client[c].src = "chat"
        BY <1>7 DEF AppendGlobalReply, LogInv, AskedLast
      <4>2. client[c].rec.rev = chat.rev /\ chat.rev \in 1..chat.rev /\ chat.log[chat.rev].said
        BY <2>2, <4>1 DEF MayReply, LogInv, AskedLast
      <4>3. chat.rev \in Nat /\ chat.log \in Seq(Entry) /\ Len(chat.log) = chat.rev
        BY DEF ButlerInv, ChatRow, LogInv
      <4>4. Placed(chat.log, chat.rev)
        BY <4>2 DEF LogInv
      <4> QED BY <4>2, <4>3, <4>4, ElementOfSeq
    <3>3. chat.log[chat.rev] = [said |-> TRUE, rev |-> client[c].rec.rev]
      BY <3>2 DEF Placed, Entry
    <3>4. e \in Entry /\ ~e.said /\ e.rev = client[c].rec.rev
      BY <3>2 DEF Entry
    <3>5. Idle.src # "chat" /\ Idle.pc # "answer"
      BY DEF Idle
    <3>6. chat = [f \in {"rev", "log", "session"} |-> chat[f]]
      BY DEF ButlerInv, ChatRow
    <3> HIDE DEF e, s
    <3>7. chat'.log = Append(chat.log, e) /\ chat'.rev = chat.rev + 1
      <4> HIDE DEF log
      <4>1. chat'.log = log /\ chat'.rev = chat.rev + 1
        BY <3>1, <3>6
      <4> QED BY <4>1 DEF log
    <3> QED BY <3>1, <3>2, <3>3, <3>4, <3>5, <3>7, LogGrows
  <2> QED BY <1>7, <2>1, <2>2 DEF AppendGlobalReply
<1> QED BY <1>4, <1>5, <1>6, <1>7 DEF Concludes

LEMMA LogInvInductive == ButlerInv /\ LogInv /\ [ButlerNext]_butlerVars => LogInv'
<1> SUFFICES ASSUME ButlerInv, LogInv, [ButlerNext]_butlerVars PROVE LogInv'
  OBVIOUS
<1>1. CASE Crash
  <2>1. Idle.src # "chat" /\ Idle.pc # "answer"
    BY DEF Idle
  <2>2. /\ UNCHANGED chat
        /\ \A d \in Clients : client'[d] = client[d] \/ client'[d] = Idle
    BY <1>1 DEF Crash
  <2> QED BY <2>1, <2>2, LogStays
<1>2. CASE UNCHANGED butlerVars
  BY <1>2, LogStays DEF butlerVars
<1> QED BY <1>1, <1>2, ChatsKeepLog, RequestsKeepLog, CallsKeepLog, ConcludesKeepLog
        DEF ButlerNext

(* However many people, retries and crashes there are, and however late a   *)
(* model answers: append_global_reply puts an answer right behind the       *)
(* message it answers, or nowhere.                                          *)
THEOREM AnswersFollowMessages == ButlerSpec => []AnswersInOrder
<1>1. ButlerInit => LogInv
  <2> SUFFICES ASSUME ButlerInit PROVE LogInv
    OBVIOUS
  <2>1. Idle.src = "start" /\ Idle.pc = "idle"
    BY DEF Idle
  <2>2. chat.log \in Seq(Entry) /\ Len(chat.log) = 0 /\ chat.rev = 0
    BY EmptySeq DEF ButlerInit
  <2> QED BY <2>1, <2>2 DEF ButlerInit, LogInv, AskedLast
<1>2. LogInv => AnswersInOrder
  <2> SUFFICES ASSUME LogInv PROVE AnswersInOrder
    OBVIOUS
  <2>1. DOMAIN chat.log = 1..chat.rev
    BY LenProperties DEF LogInv
  <2> QED BY <2>1 DEF LogInv, Placed, AnswersInOrder
<1> QED BY <1>1, <1>2, LogInvInductive, ButlerInvHolds, PTL DEF ButlerSpec

-----------------------------------------------------------------------------
(* Proposals and goals.                                                     *)
(*                                                                          *)
(* A proposal that meets the contract, and the defaults of an owner's       *)
(* draft, make a valid plan.                                                *)

DraftFields   == {"text", "request", "sized", "hints", "parts", "roles", "refs", "keys"}
RequestFields == {"sizing", "structured", "items", "milestones", "artifacts", "file", "gates"}

(* The items of a proposal that meets the contract make a plan, if no file  *)
(* is asked for or one is declared.                                        *)
LEMMA ContractPlans ==
  ASSUME NEW Names, Known(Names), NEW Files, NEW p, NEW q,
         \A f \in RequestFields \ {"file"} : q[f] = p.request[f],
         p.request.items \in Seq(WorkItem(Names, Files)), p.request.structured,
         p.request.milestones = MaxItems, InContract(p), ~Unverifiable(p.request.items),
         q.file => q.artifacts # {}
  PROVE  Planned(q)
<1>0. /\ q.items = p.request.items /\ q.artifacts = p.request.artifacts
      /\ q.structured = p.request.structured /\ q.milestones = p.request.milestones
      /\ q.gates = p.request.gates
  BY DEF RequestFields
<1>1. /\ q.gates /\ ~(q.file /\ q.artifacts = {}) /\ Len(q.items) \in 1..MaxItems
      /\ \A f \in q.artifacts : Cardinality({i \in DOMAIN q.items : f \in q.items[i].artifacts}) = 1
  <2>1. p.request.gates /\ Len(p.request.items) \in 1..MaxItems
        /\ ProducedOnce(p.request.items, p.request.artifacts)
    BY DEF InContract
  <2>2. \A f \in q.artifacts : Cardinality({i \in DOMAIN q.items : f \in q.items[i].artifacts}) = 1
    BY <1>0, <2>1 DEF ProducedOnce
  <2>3. q.gates /\ Len(q.items) \in 1..MaxItems
    BY <1>0, <2>1
  <2> QED BY <2>2, <2>3
<1>2. \A i \in DOMAIN q.items : Fit(q.items[i], i, q.artifacts)
  BY <1>0 DEF InContract, Fit, PlannerRoles
<1>3. Valid(q.items, q.artifacts)
  BY <1>1, <1>2, ValidParts
<1>4. /\ q.items \in Seq(WorkItem(Names, Files)) /\ q.structured /\ q.milestones = MaxItems
      /\ ~Unverifiable(q.items)
  BY <1>0
<1> QED BY <1>1, <1>3, <1>4, StructuredPlans

(* The lanes that a structured draft without files gets are valid.          *)
LEMMA DefaultLanesValid ==
  ASSUME NEW Names, Known(Names), NEW Files, NEW hints
  PROVE  DefaultLanes(hints, {}) \in Seq(WorkItem(Names, Files)) /\ Valid(DefaultLanes(hints, {}), {})
<1> DEFINE S == {"backend", "frontend", "devops_sre", "verification"}
           a == IF "backend" \in hints \/ "frontend" \notin hints THEN <<"backend">> ELSE <<>>
           b == IF "frontend" \in hints THEN <<"frontend">> ELSE <<>>
           c == IF "deploy" \in hints THEN <<"devops_sre">> ELSE <<>>
           d == <<"verification">>
           roles == DefaultRoles(hints)
           kind(i) == IF roles[i] = "verification" THEN "verification" ELSE "implementation"
           deps(i) == IF i = 1 THEN {} ELSE {i - 1}
           items == DefaultLanes(hints, {})
<1>1. /\ <<"backend">> \in Seq(S) /\ <<"frontend">> \in Seq(S) /\ <<"devops_sre">> \in Seq(S)
      /\ d \in Seq(S) /\ <<>> \in Seq(S) /\ Len(<<"backend">>) = 1 /\ Len(<<"frontend">>) = 1
      /\ Len(<<"devops_sre">>) = 1 /\ Len(d) = 1 /\ Len(<<>>) = 0
  BY EmptySeq
<1>2. a \in Seq(S) /\ b \in Seq(S) /\ c \in Seq(S) /\ d \in Seq(S)
      /\ Len(a) \in 0..1 /\ Len(b) \in 0..1 /\ Len(c) \in 0..1 /\ Len(d) \in 0..1 /\ Len(d) = 1
  <2> HIDE DEF S
  <2> QED BY <1>1
<1>3. roles = a \o b \o c \o d
  BY DEF DefaultRoles
<1> HIDE DEF a, b, c, d, S, roles
<1>4. roles \in Seq(S) /\ Len(roles) \in 1..4
  BY <1>2, <1>3, FewLanes
<1> DEFINE n == Len(roles)
<1>5. n \in 1..MaxItems /\ DOMAIN roles = 1..n /\ \A i \in 1..n : roles[i] \in S
  BY <1>4, LenProperties, ElementOfSeq DEF MaxItems
<1>6. items = [i \in DOMAIN roles |-> Item(roles[i], kind(i), deps(i), {})]
  BY DEF DefaultLanes, roles
<1> HIDE DEF items, n
<1>7. ASSUME NEW i \in 1..n
      PROVE  \E role \in RoleKinds, k \in Kinds, e \in SUBSET (1..(i - 1)) :
               /\ items[i] = Item(role, k, e, {}) /\ (role = "verification") = (k = "verification")
  <2>1. items[i] = Item(roles[i], kind(i), deps(i), {})
    BY <1>5, <1>6
  <2>2. roles[i] \in RoleKinds
    BY <1>5 DEF S, RoleKinds, SerialRoles
  <2>3. kind(i) \in Kinds /\ (roles[i] = "verification") = (kind(i) = "verification")
    BY DEF Kinds
  <2>4. deps(i) \in SUBSET (1..(i - 1))
    <3>1. i \in Nat /\ i >= 1
      BY <1>5 DEF MaxItems
    <3> QED BY <3>1
  <2> HIDE DEF kind, deps
  <2> QED BY <2>1, <2>2, <2>3, <2>4
<1>8. items = [i \in 1..n |-> items[i]]
  BY <1>5, <1>6
<1>9. items \in Seq(WorkItem(Names, Files)) /\ Valid(items, {})
  BY <1>5, <1>7, <1>8, LanesValid
<1> QED BY <1>9 DEF items

-----------------------------------------------------------------------------
(* The drafts of the conversation.                                          *)
DraftRow(Names, Files, d) ==
  /\ d = [f \in DraftFields |-> d[f]]
  /\ d.request = [f \in RequestFields |-> d.request[f]]
  /\ d.request.items \in Seq(WorkItem(Names, Files))
  /\ d.request.milestones = MaxItems

(* An owner writes words, and may add sizing inputs with gates, the roles   *)
(* of lanes, or a plan, which nobody looks at before the goal is made: here *)
(* a valid one.  A model offers items, right or wrong, and what it has no   *)
(* key for is empty.  The project's policy allows MaxItems of them.         *)
OwnersDraft(Names, Files, d) ==
  /\ DraftRow(Names, Files, d)
  /\ d.sized => Structured(d) /\ d.request.gates
  /\ d.request.structured => Valid(d.request.items, d.request.artifacts)

Offer(Names, Files, p) ==
  /\ DraftRow(Names, Files, p) /\ p.request.structured
  /\ "artifacts" \notin p.keys => p.request.artifacts = {}

(* Whatever words the draft is given, a plan can be made of its request if  *)
(* they do not ask for a file that is not declared.                        *)
Makes(d, structured) ==
  /\ d.sized /\ ~Unverifiable(d.request.items)
  /\ ProducedSomewhere(d.request.items, d.request.artifacts)
  /\ structured => d.request.artifacts = {}
  => \A q : /\ \A f \in RequestFields \ {"file"} : q[f] = d.request[f]
            /\ q.file => q.artifacts # {}
            => Planned(q)

(* The conversation's draft; only its request matters further on.           *)
OfConv(d, structured) ==
  /\ d = [f \in DraftFields |-> d[f]]
  /\ d.request = [f \in RequestFields |-> d.request[f]]
  /\ Makes(d, structured)

LEMMA WordsMake ==
  ASSUME NEW Names, Known(Names), NEW Files, NEW draft, OwnersDraft(Names, Files, draft)
  PROVE  OfConv(Normalized(draft), Structured(draft))
<1>1. CASE ~Structured(draft)
  BY <1>1 DEF Normalized, OwnersDraft, DraftRow, OfConv, Makes
<1>2. CASE Structured(draft)
  <2> DEFINE sizing == IF draft.sized THEN draft.request.sizing ELSE DefaultSizing(draft)
             gates  == IF draft.sized THEN draft.request.gates ELSE TRUE
             lanes  == ~draft.request.structured /\ ~draft.roles
             given  == draft.request.structured \/ lanes
             items  == IF lanes THEN DefaultLanes(draft.hints, draft.request.artifacts)
                                ELSE draft.request.items
             r == [draft.request EXCEPT !.sizing = sizing, !.gates = gates,
                                        !.structured = given, !.items = items]
             d == [draft EXCEPT !.sized = TRUE, !.request = r]
  <2>0. /\ draft = [f \in DraftFields |-> draft[f]]
        /\ draft.request = [f \in RequestFields |-> draft.request[f]]
        /\ draft.request.items \in Seq(WorkItem(Names, Files))
        /\ draft.request.milestones = MaxItems
        /\ draft.sized => draft.request.gates
        /\ draft.request.structured => Valid(draft.request.items, draft.request.artifacts)
    BY DEF OwnersDraft, DraftRow
  <2>1. Normalized(draft) = d
    BY ZenonT(60), <1>2, <2>0 DEF Normalized, Defaulted, DraftFields, RequestFields
  <2>2. DefaultLanes(draft.hints, {}) \in Seq(WorkItem(Names, Files))
        /\ Valid(DefaultLanes(draft.hints, {}), {})
    BY DefaultLanesValid
  <2>3. gates = TRUE \/ gates
    BY <2>0
  <2> HIDE DEF sizing, gates
  <2>4. draft.request.artifacts = {} => items \in Seq(WorkItem(Names, Files))
    BY <2>0, <2>2
  <2>5. given /\ draft.request.artifacts = {} => Valid(items, {})
    BY <2>0, <2>2
  <2> HIDE DEF items, given
  <2>6. /\ r = [f \in RequestFields |-> r[f]] /\ r.gates = gates /\ r.structured = given
        /\ r.items = items /\ r.milestones = MaxItems /\ r.artifacts = draft.request.artifacts
    BY <2>0 DEF RequestFields
  <2> HIDE DEF r
  <2>7. d = [f \in DraftFields |-> d[f]] /\ d.sized /\ d.request = r
    BY <2>0 DEF DraftFields
  <2> HIDE DEF d
  <2>8. Makes(d, TRUE)
    <3> SUFFICES ASSUME ~Unverifiable(r.items), r.artifacts = {},
                        NEW q, \A f \in RequestFields \ {"file"} : q[f] = r[f],
                        q.file => q.artifacts # {}
                 PROVE  Planned(q)
      BY <2>7 DEF Makes
    <3>0. /\ q.items = items /\ q.artifacts = {} /\ q.structured = given
          /\ q.milestones = MaxItems /\ q.gates = gates /\ ~q.file
      BY <2>6 DEF RequestFields
    <3>1. CASE given
      BY <2>3, <2>4, <2>5, <2>6, <3>0, <3>1, StructuredPlans
    <3>2. CASE ~given
      <4> DEFINE its == DefaultItems(q.sizing, MaxItems)
      <4>1. its \in Seq(WorkItem(Names, Files)) /\ Valid(its, {}) /\ ~Unverifiable(its)
        <5>1. MaxItems \in Nat \ {0}
          BY DEF MaxItems
        <5> QED BY <5>1, DefaultItemsValid
      <4>2. ~q.structured
        BY <3>0, <3>2
      <4>3. Valid(WithVerification(its), {})
        BY <4>1, VerificationValid
      <4>4. Items(q) = WithVerification(its)
        BY <3>0, <4>2 DEF Items, WithArtifacts
      <4> HIDE DEF its
      <4>5. ~Unverifiable(IF q.structured THEN q.items ELSE DefaultItems(q.sizing, q.milestones))
        BY <3>0, <4>1, <4>2 DEF its
      <4> QED BY <2>3, <3>0, <4>2, <4>3, <4>4, <4>5 DEF Planned
    <3> QED BY <3>1, <3>2
  <2> QED BY <1>2, <2>1, <2>6, <2>7, <2>8 DEF OfConv
<1> QED BY <1>1, <1>2

(* The artifacts that a proposal is given are files of its items.           *)
LEMMA OffersMaterialize ==
  ASSUME NEW Names, NEW Files, AnyFile \in Files, NEW p, Offer(Names, Files, p)
  PROVE  Offer(Names, Files, Materialized(p))
<1> DEFINE builds == Of(p.request.items, "implementation")
           named  == UNION {p.request.items[i].artifacts : i \in builds}
           k      == LastOf(builds)
           its    == [p.request.items EXCEPT ![k].artifacts = {AnyFile}]
           keys   == p.keys \cup {"artifacts"}
           one    == [p EXCEPT !.request.artifacts = named, !.keys = keys]
           two    == [p EXCEPT !.request.artifacts = {AnyFile}, !.keys = keys,
                               !.request.items[k].artifacts = {AnyFile}]
<1>1. Materialized(p) \in {p, one, two}
  BY DEF Materialized
<1>2. /\ p = [f \in DraftFields |-> p[f]] /\ p.request = [f \in RequestFields |-> p.request[f]]
      /\ p.request.items \in Seq(WorkItem(Names, Files))
      /\ p.request.milestones = MaxItems /\ p.request.structured /\ "artifacts" \in keys
  BY DEF Offer, DraftRow
<1> HIDE DEF named, k, builds, keys
<1>3. Offer(Names, Files, one)
  <2>1. /\ one.request = [p.request EXCEPT !.artifacts = named] /\ one.keys = keys
        /\ one = [f \in DraftFields |-> one[f]]
    BY <1>2 DEF DraftFields
  <2> HIDE DEF one
  <2>2. /\ one.request = [f \in RequestFields |-> one.request[f]]
        /\ one.request.items = p.request.items
        /\ one.request.milestones = MaxItems /\ one.request.structured
    BY <1>2, <2>1 DEF RequestFields
  <2> QED BY <1>2, <2>1, <2>2 DEF Offer, DraftRow
<1>4. its \in Seq(WorkItem(Names, Files))
  <2> DEFINE W == WorkItem(Names, Files)
             items == p.request.items
  <2>1. items \in Seq(W) /\ DOMAIN items = 1..Len(items) /\ Len(items) \in Nat
    BY <1>2, LenProperties
  <2>2. ASSUME NEW w \in W PROVE [w EXCEPT !.artifacts = {AnyFile}] \in W
    BY DEF WorkItem
  <2>3. its = [i \in DOMAIN items |->
                 IF i = k THEN [items[i] EXCEPT !.artifacts = {AnyFile}] ELSE items[i]]
    OBVIOUS
  <2> HIDE DEF W, items, its
  <2>4. \A i \in 1..Len(items) : items[i] \in W
    BY <2>1, ElementOfSeq
  <2>5. its \in [1..Len(items) -> W]
    BY <2>1, <2>2, <2>3, <2>4
  <2>6. its \in Seq(W)
    BY <2>1, <2>5, SeqDef
  <2> QED BY <2>6 DEF W
<1> HIDE DEF its
<1>5. Offer(Names, Files, two)
  <2>1. two.request = [p.request EXCEPT !.artifacts = {AnyFile}, !.items = its]
        /\ two = [f \in DraftFields |-> two[f]] /\ two.keys = keys
    BY <1>2 DEF DraftFields, RequestFields, its
  <2> HIDE DEF two
  <2>2. /\ two.request = [f \in RequestFields |-> two.request[f]]
        /\ two.request.items = its
        /\ two.request.milestones = MaxItems /\ two.request.structured
    BY <1>2, <2>1 DEF RequestFields
  <2> QED BY <1>2, <1>4, <2>1, <2>2 DEF Offer, DraftRow
<1> QED BY <1>1, <1>3, <1>5

-----------------------------------------------------------------------------
(* The conversation's draft makes a goal whatever wrote it, and a thread    *)
(* that holds a valid reply holds a proposal of the contract.               *)
Holds(t) == t.reply = "valid" => t.draft \in Proposals

DraftsInv ==
  /\ OfConv(conv.draft, conv.structured)
  /\ \A c \in Clients : Holds(client[c])

(* A thread moves, and nothing is written to the draft.                     *)
LEMMA DraftStays ==
  ASSUME ButlerInv, DraftsInv,
         NEW c \in Clients, NEW t, Goes(c, t), Holds(t),
         conv'.draft = conv.draft, conv'.structured = conv.structured
  PROVE  DraftsInv'
<1>1. /\ client'[c] = t
      /\ \A d \in Clients : d # c => client'[d] = client[d]
  BY DEF ButlerInv, Goes
<1>2. \A d \in Clients : Holds(client'[d])
  BY <1>1 DEF DraftsInv
<1> QED BY <1>2 DEF DraftsInv, OfConv, Makes, Holds

LEMMA EmptyHanded ==
  /\ Holds(Idle)
  /\ \A src, rec : Holds(AfterFirst(src, rec))
  /\ \A src, rec : Holds([Idle EXCEPT !.pc = "hand", !.src = src, !.rec = rec])
  /\ \A src, rec : Holds([Idle EXCEPT !.pc = "confirm", !.src = src, !.rec = rec])
  /\ \A rec : Holds([Idle EXCEPT !.pc = "plan", !.src = "chat", !.session = rec.session,
                                 !.rec.rev = rec.rev])
  BY DEF Holds, Idle, AfterFirst

(* A proposal of the contract makes a goal, also with what it leaves to the *)
(* draft before it, as long as its items produce the files of that draft.   *)
LEMMA ProposalMakes ==
  ASSUME NEW Names, Known(Names), NEW Files, AnyFile \in Files,
         \A q \in Replies : Offer(Names, Files, q), NEW p \in Proposals, NEW draft, NEW structured
  PROVE  OfConv(Merged(draft, p), structured)
<1> DEFINE text  == [f \in DOMAIN p.text |-> IF f \in Stay(p) THEN draft.text[f] ELSE p.text[f]]
           files == IF "artifacts" \in Stay(p) THEN draft.request.artifacts
                                               ELSE p.request.artifacts
           m == [p EXCEPT !.text = text, !.request.artifacts = files, !.keys = {}]
<1>1. Offer(Names, Files, p) /\ InContract(p)
  <2>1. PICK q \in Replies : p = Materialized(q) /\ InContract(Materialized(q))
    BY DEF Proposals
  <2> QED BY <2>1, OffersMaterialize
<1>2. /\ p = [f \in DraftFields |-> p[f]] /\ p.request = [f \in RequestFields |-> p.request[f]]
      /\ p.request.items \in Seq(WorkItem(Names, Files))
      /\ p.request.structured /\ p.request.milestones = MaxItems
  BY <1>1 DEF Offer, DraftRow
<1>3. Merged(draft, p) = m
  BY <1>2 DEF Merged, DraftFields, RequestFields
<1>4. files = p.request.artifacts \/ p.request.artifacts = {}
  BY <1>1 DEF Offer, Stay, Optional
<1> HIDE DEF text, files
<1>5. /\ m = [f \in DraftFields |-> m[f]]
      /\ m.request = [f \in RequestFields |-> m.request[f]]
      /\ m.request.artifacts = files
      /\ \A f \in RequestFields \ {"artifacts"} : m.request[f] = p.request[f]
  BY <1>2 DEF DraftFields, RequestFields
<1> HIDE DEF m
<1>6. Makes(m, structured)
  <2> SUFFICES ASSUME ~Unverifiable(m.request.items),
                      ProducedSomewhere(m.request.items, m.request.artifacts),
                      NEW q, \A f \in RequestFields \ {"file"} : q[f] = m.request[f],
                      q.file => q.artifacts # {}
               PROVE  Planned(q)
    BY DEF Makes
  <2>1. m.request.items = p.request.items
    BY <1>5 DEF RequestFields
  <2>2. files = p.request.artifacts
    <3> SUFFICES ASSUME p.request.artifacts = {}, NEW f \in files PROVE FALSE
      BY <1>4
    <3>1. PICK i \in DOMAIN p.request.items : f \in p.request.items[i].artifacts
      BY <1>5, <2>1 DEF ProducedSomewhere
    <3>2. p.request.items[i].artifacts \subseteq {}
      BY <1>1 DEF InContract
    <3> QED BY <3>1, <3>2
  <2>3. \A f \in RequestFields \ {"file"} : q[f] = p.request[f]
    BY <1>5, <2>2
  <2> QED BY <1>1, <1>2, <2>1, <2>3, ContractPlans
<1> QED BY <1>3, <1>5, <1>6 DEF OfConv

-----------------------------------------------------------------------------
LEMMA AsksKeepDrafts ==
  ASSUME NEW Names, Known(Names), NEW Files,
         \A d \in Starts : OwnersDraft(Names, Files, d),
         ButlerInv, DraftsInv, NEW c \in Clients, Asks(c)
  PROVE  DraftsInv'
<1>1. ConvRow(conv) /\ conv = [f \in ConvFields |-> conv[f]]
  BY DEF ButlerInv, ConvRow
<1>2. ASSUME NEW src, Goes(c, AfterFirst(src, conv')),
             OfConv(conv'.draft, conv'.structured)
      PROVE  DraftsInv'
  <2> DEFINE t == AfterFirst(src, conv')
  <2>1. Holds(t)
    BY EmptyHanded
  <2> HIDE DEF t
  <2>2. \A d \in Clients : client'[d] = t \/ client'[d] = client[d]
    BY <1>2 DEF ButlerInv, Goes, t
  <2> QED BY <1>2, <2>1, <2>2 DEF DraftsInv, OfConv, Makes, Holds
<1>3. ASSUME NEW src \in {"start", "route"}, NEW draft \in Starts, StartConversation(c, src, draft)
      PROVE  DraftsInv'
  <2>1. CASE conv.status = "none"
    <3> DEFINE d    == Normalized(draft)
               str  == Structured(draft)
               asks == Count(~Ready(d) /\ (src = "route" \/ str))
               row  == Written(NoConv, d, 0, str)
    <3>1. conv' = [row EXCEPT !.turns = 1, !.structured = str, !.asked = asks]
      BY <1>3, <2>1 DEF StartConversation
    <3>2. OfConv(d, str)
      BY WordsMake
    <3> HIDE DEF d, str, asks
    <3>3. row = [f \in ConvFields |-> row[f]] /\ row.draft = d
      BY ZenonT(60) DEF Written, NoConv, ConvFields
    <3> HIDE DEF row
    <3>4. conv'.draft = d /\ conv'.structured = str
      BY <3>1, <3>3 DEF ConvFields
    <3>5. Goes(c, AfterFirst(src, conv'))
      BY <1>3 DEF StartConversation
    <3> QED BY <1>2, <3>2, <3>4, <3>5
  <2>2. CASE conv.status # "none"
    <3>1. UNCHANGED conv /\ Goes(c, AfterFirst(src, conv'))
      BY <1>3, <2>2 DEF StartConversation
    <3> QED BY <1>2, <3>1 DEF DraftsInv
  <2> QED BY <2>1, <2>2
<1>4. CASE AppendConversational(c)
  <2>1. conv' = [conv EXCEPT !.rev = conv.rev + 1, !.turns = conv.turns + 1]
        /\ Goes(c, AfterFirst("turn", conv'))
    BY <1>4 DEF AppendConversational
  <2>2. conv'.draft = conv.draft /\ conv'.structured = conv.structured
    BY <1>1, <2>1 DEF ConvFields
  <2> QED BY <1>2, <2>1, <2>2 DEF DraftsInv
<1>5. ASSUME NEW field, NEW text, PostField(c, field, text) PROVE DraftsInv'
  <2> DEFINE d     == [conv.draft EXCEPT !.text[field] = text]
             turns == conv.turns + 1
             asked == conv.asked + Count(conv.status = "clarifying" /\ ~Ready(d))
             row   == Written(conv, d, conv.asked, conv.structured)
  <2>1. conv' = [row EXCEPT !.turns = row.turns + 1, !.asked = row.asked + Count(conv.status = "clarifying" /\ ~Ready(d))]
        /\ Goes(c, AfterFirst("turn", conv'))
    BY <1>5 DEF PostField
  <2>2. d = [f \in DraftFields |-> d[f]] /\ d.request = conv.draft.request
        /\ d.sized = conv.draft.sized
    BY DEF DraftsInv, OfConv, DraftFields
  <2> HIDE DEF d
  <2>3. row = [f \in ConvFields |-> row[f]] /\ row.draft = d /\ row.structured = conv.structured
    BY <1>1 DEF Written, ConvFields
  <2> HIDE DEF row
  <2>4. conv'.draft = d /\ conv'.structured = conv.structured
    BY <2>1, <2>3 DEF ConvFields
  <2>5. OfConv(d, conv.structured)
    BY <2>2 DEF DraftsInv, OfConv, Makes
  <2> QED BY <1>2, <2>1, <2>4, <2>5
<1>6. CASE PreparePlannerResume(c)
  <2>1. conv' = [conv EXCEPT !.suspended = FALSE, !.rev = conv.rev + 1]
        /\ Goes(c, AfterFirst("resume", conv'))
    BY <1>6 DEF PreparePlannerResume
  <2>2. conv'.draft = conv.draft /\ conv'.structured = conv.structured
    BY <1>1, <2>1 DEF ConvFields
  <2> QED BY <1>2, <2>1, <2>2 DEF DraftsInv
<1>7. CASE ReadProposal(c)
  <2> DEFINE t == [Idle EXCEPT !.pc = "confirm", !.src = "confirm", !.rec = View(conv)]
  <2>1. UNCHANGED conv /\ Goes(c, t)
    BY <1>7 DEF ReadProposal
  <2>2. Holds(t)
    BY EmptyHanded
  <2> HIDE DEF t
  <2> QED BY <2>1, <2>2, DraftStays
<1> QED BY <1>3, <1>4, <1>5, <1>6, <1>7 DEF Asks

LEMMA CallsKeepDrafts ==
  ASSUME ButlerInv, DraftsInv,
         NEW c \in Clients, Chats(c) \/ Calling(c)
  PROVE  DraftsInv'
<1>0. UNCHANGED conv
  BY DEF Chats, StartGlobal, PostGlobalMessage, Calling, ProviderDown, PlanCall, Executes, Returns,
         ExecuteRaises, SettleCall
<1>1. client[c] = [f \in ThreadFields |-> client[c][f]] /\ Holds(client[c])
  BY DEF ButlerInv, ThreadRow, DraftsInv
<1>2. ASSUME NEW t, Goes(c, t), Holds(t) PROVE DraftsInv'
  BY <1>0, <1>2, DraftStays
<1>3. ASSUME NEW reply, reply # "valid" \/ reply = client[c].reply, Goes(c, Answered(c, reply))
      PROVE  DraftsInv'
  <2> DEFINE t == Answered(c, reply)
  <2>1. t.reply = reply /\ t.draft = client[c].draft
    BY <1>1 DEF Answered, ThreadFields
  <2> HIDE DEF t
  <2>2. Goes(c, t)
    BY <1>3 DEF t
  <2> QED BY <1>1, <1>2, <1>3, <2>1, <2>2 DEF Holds
<1>4. CASE Chats(c)
  <2>1. ASSUME NEW rec, ChatCall(c, rec) PROVE DraftsInv'
    <3> DEFINE t == [Idle EXCEPT !.pc = "plan", !.src = "chat", !.session = rec.session,
                                 !.rec.rev = rec.rev]
    <3>1. Goes(c, t) /\ Holds(t)
      BY <2>1, EmptyHanded DEF ChatCall
    <3> HIDE DEF t
    <3> QED BY <1>2, <3>1
  <2>2. Ends(c) => DraftsInv'
    BY <1>2, EmptyHanded DEF Ends
  <2> QED BY <1>4, <2>1, <2>2 DEF Chats, StartGlobal, PostGlobalMessage
<1>5. CASE ProviderDown(c)
  BY <1>3, <1>5 DEF ProviderDown
<1>6. CASE PlanCall(c)
  <2> DEFINE t == [client[c] EXCEPT !.pc = "calling"]
  <2>1. t.reply = client[c].reply /\ t.draft = client[c].draft
    BY <1>1 DEF ThreadFields
  <2>2. Goes(c, t) \/ Goes(c, Answered(c, "duplicate"))
    BY <1>6 DEF PlanCall
  <2> HIDE DEF t
  <2> QED BY <1>1, <1>2, <1>3, <2>1, <2>2 DEF Holds
<1>7. ASSUME NEW s \in Sessions, NEW reply, NEW draft, Returns(c, s, reply, draft),
             reply = "valid" => draft \in Proposals
      PROVE  DraftsInv'
  <2> DEFINE n == used[s] + 1
             t == [client[c] EXCEPT !.pc = "settle", !.session = s, !.reply = reply,
                                    !.draft = draft, !.count = n]
  <2>1. Goes(c, t)
    BY <1>7 DEF Returns
  <2> HIDE DEF n
  <2>2. t.reply = reply /\ t.draft = draft
    BY <1>1 DEF ThreadFields
  <2> HIDE DEF t
  <2> QED BY <1>2, <1>7, <2>1, <2>2 DEF Holds
<1>8. CASE Executes(c)
  BY <1>7, <1>8 DEF Executes
<1>9. CASE ExecuteRaises(c)
  <2> DEFINE t == [client[c] EXCEPT !.pc = "settle", !.reply = "failed", !.count = 0]
  <2>1. t.reply = "failed" /\ Goes(c, t)
    BY <1>1, <1>9 DEF ThreadFields, ExecuteRaises
  <2> HIDE DEF t
  <2> QED BY <1>2, <2>1 DEF Holds
<1>10. CASE SettleCall(c)
  <2> DEFINE t == [client[c] EXCEPT !.pc = "plan", !.try = 1, !.draft = NoDraft]
  <2>1. t.reply = client[c].reply
    BY <1>1 DEF ThreadFields
  <2>2. (client[c].reply = "broken" /\ Goes(c, t)) \/ Goes(c, Answered(c, client[c].reply))
    BY <1>10 DEF SettleCall
  <2> HIDE DEF t
  <2> QED BY <1>2, <1>3, <2>1, <2>2 DEF Holds
<1> QED BY <1>4, <1>5, <1>6, <1>8, <1>9, <1>10 DEF Calling

LEMMA ConcludesKeepDrafts ==
  ASSUME NEW Names, Known(Names), NEW Files, AnyFile \in Files,
         \A q \in Replies : Offer(Names, Files, q),
         ButlerInv, DraftsInv, NEW c \in Clients, Concludes(c)
  PROVE  DraftsInv'
<1>1. /\ client[c] = [f \in ThreadFields |-> client[c][f]] /\ Holds(client[c])
      /\ conv = [f \in ConvFields |-> conv[f]]
  BY DEF ButlerInv, ThreadRow, ConvRow, DraftsInv
<1>2. ASSUME Ends(c), conv'.draft = conv.draft, conv'.structured = conv.structured
      PROVE  DraftsInv'
  BY <1>2, EmptyHanded, DraftStays DEF Ends
<1>3. CASE BindSession(c)
  <2> DEFINE t == [client[c] EXCEPT !.pc = "finish"]
             u == [client[c] EXCEPT !.pc = "finish", !.session = NoSession, !.rec = View(conv')]
             s == client[c].session
  <2>1. /\ t.reply = client[c].reply /\ t.draft = client[c].draft
        /\ u.reply = client[c].reply /\ u.draft = client[c].draft
    BY <1>1 DEF ThreadFields
  <2>2. /\ Goes(c, t) \/ Goes(c, u) \/ Ends(c)
        /\ UNCHANGED conv \/ conv' = [conv EXCEPT !.session = s]
    BY <1>3 DEF BindSession
  <2> HIDE DEF t, u, s
  <2>3. conv'.draft = conv.draft /\ conv'.structured = conv.structured
    BY <1>1, <2>2 DEF ConvFields
  <2>4. Holds(t) /\ Holds(u)
    BY <1>1, <2>1 DEF Holds
  <2> QED BY <1>2, <2>2, <2>3, <2>4, DraftStays
<1>4. ASSUME HandsOn(c), OfConv(conv'.draft, conv'.structured)
      PROVE  DraftsInv'
  <2> DEFINE t == [Idle EXCEPT !.pc = "hand", !.src = client[c].src, !.rec = View(conv')]
  <2>1. Holds(Idle) /\ Holds(t)
    BY EmptyHanded
  <2>2. Goes(c, t) \/ Goes(c, Idle)
    BY <1>4 DEF HandsOn
  <2> HIDE DEF t
  <2>3. \A d \in Clients : client'[d] \in {t, Idle, client[d]}
    BY <2>2 DEF ButlerInv, Goes
  <2> QED BY SMTT(30), <1>4, <2>1, <2>3 DEF DraftsInv, OfConv, Makes, Holds
<1>5. CASE SuspendPlanner(c)
  <2> DEFINE planned == client[c].reply # "unavailable"
  <2>1. \/ Ends(c) /\ UNCHANGED conv
        \/ /\ conv' = [conv EXCEPT !.suspended = TRUE, !.rev = conv.rev + 1, !.auto = FALSE,
                                   !.planned = planned]
           /\ HandsOn(c)
    BY <1>5 DEF SuspendPlanner
  <2> HIDE DEF planned
  <2>2. conv'.draft = conv.draft /\ conv'.structured = conv.structured
    BY <1>1, <2>1 DEF ConvFields
  <2> QED BY <1>2, <1>4, <2>1, <2>2 DEF DraftsInv
<1>6. CASE ApplyPlannerProposal(c)
  <2>1. CASE Ends(c) /\ UNCHANGED conv
    BY <1>2, <2>1
  <2>2. CASE ~(Ends(c) /\ UNCHANGED conv)
    <3> DEFINE p   == client[c].draft
               d   == Merged(conv.draft, p)
               row == Written(conv, d, conv.asked, FALSE)
    <3>1. conv' = [row EXCEPT !.planned = TRUE] /\ HandsOn(c) /\ client[c].reply = "valid"
      BY <1>6, <2>2 DEF ApplyPlannerProposal
    <3>2. p \in Proposals
      BY <1>1, <3>1 DEF Holds
    <3> HIDE DEF p
    <3>3. OfConv(d, conv.structured)
      BY <3>2, ProposalMakes
    <3> HIDE DEF d
    <3>4. row = [f \in ConvFields |-> row[f]] /\ row.draft = d /\ row.structured = conv.structured
      BY <1>1 DEF Written, ConvFields
    <3> HIDE DEF row
    <3>5. conv'.draft = d /\ conv'.structured = conv.structured
      BY <3>1, <3>4 DEF ConvFields
    <3> QED BY <1>4, <3>1, <3>3, <3>5
  <2> QED BY <2>1, <2>2
<1>7. CASE AutoDispatch(c) \/ Confirm(c)
  <2> DEFINE t == [client[c] EXCEPT !.pc = "mark"]
  <2>1. t.reply = client[c].reply /\ t.draft = client[c].draft
    BY <1>1 DEF ThreadFields
  <2>2. UNCHANGED conv /\ (Goes(c, t) \/ Ends(c))
    BY <1>7 DEF AutoDispatch, Confirm
  <2> HIDE DEF t
  <2>3. Holds(t)
    BY <1>1, <2>1 DEF Holds
  <2> QED BY <1>2, <2>2, <2>3, DraftStays
<1>8. CASE MarkDispatched(c)
  <2> DEFINE key == GoalKey(c)
  <2>1. /\ Ends(c)
        /\ \/ UNCHANGED conv
           \/ conv' = [conv EXCEPT !.status = "dispatched", !.rev = conv.rev + 1, !.goal = key]
    BY <1>8 DEF MarkDispatched
  <2> HIDE DEF key
  <2>2. conv'.draft = conv.draft /\ conv'.structured = conv.structured
    BY <1>1, <2>1 DEF ConvFields
  <2> QED BY <1>2, <2>1, <2>2
<1>9. CASE AppendGlobalReply(c)
  BY <1>2, <1>9 DEF AppendGlobalReply
<1> QED BY <1>3, <1>5, <1>6, <1>7, <1>8, <1>9 DEF Concludes

LEMMA DraftsInvInductive ==
  ASSUME NEW Names, Known(Names), NEW Files, AnyFile \in Files,
         \A d \in Starts : OwnersDraft(Names, Files, d),
         \A q \in Replies : Offer(Names, Files, q),
         ButlerInv, DraftsInv, [ButlerNext]_butlerVars
  PROVE  DraftsInv'
<1>1. ASSUME NEW c \in Clients, Asks(c) PROVE DraftsInv'
  BY <1>1, AsksKeepDrafts
<1>2. ASSUME NEW c \in Clients, Chats(c) \/ Calling(c) PROVE DraftsInv'
  BY <1>2, CallsKeepDrafts
<1>3. ASSUME NEW c \in Clients, Concludes(c) PROVE DraftsInv'
  BY <1>3, ConcludesKeepDrafts
<1>4. CASE Crash
  <2>1. UNCHANGED conv /\ \A d \in Clients : client'[d] = client[d] \/ client'[d] = Idle
    BY <1>4 DEF Crash
  <2> QED BY <2>1, EmptyHanded DEF DraftsInv, OfConv, Makes, Holds
<1>5. CASE UNCHANGED butlerVars
  BY <1>5 DEF butlerVars, DraftsInv, OfConv, Makes, Holds
<1> QED BY <1>1, <1>2, <1>3, <1>4, <1>5 DEF ButlerNext

(* A proposal that a person is asked to confirm, or that goes on without    *)
(* one, can become a goal, whatever the owners' words and the models' items *)
(* are, outside of the cases that ProposalDispatches names: plan_goal_      *)
(* work_items accepts it, because _enforce_shared_worktree_serial and the   *)
(* verification that is added keep a plan that validate_goal_plan accepts,  *)
(* and the merge with the draft before leaves the items as they were        *)
(* offered.  The hypotheses are what Starts and Replies are: the rows of    *)
(* drafts, a plan of an owner's own being a valid one.                     *)
THEOREM ProposalsDispatch ==
  ASSUME NEW Names, Known(Names), NEW Files, AnyFile \in Files,
         \A d \in Starts : OwnersDraft(Names, Files, d),
         \A q \in Replies : Offer(Names, Files, q)
  PROVE  ButlerSpec => []ProposalDispatches
<1>1. ButlerInit => DraftsInv
  <2> SUFFICES ASSUME ButlerInit PROVE DraftsInv
    OBVIOUS
  <2>1. conv.draft = NoDraft /\ \A c \in Clients : client[c] = Idle
    BY DEF ButlerInit, NoConv
  <2>2. NoDraft = [f \in DraftFields |-> NoDraft[f]] /\ ~NoDraft.sized
    BY DEF NoDraft, DraftFields
  <2>3. NoDraft.request = [f \in RequestFields |-> NoDraft.request[f]]
    BY DEF NoDraft, RequestFields
  <2> QED BY <2>1, <2>2, <2>3, EmptyHanded DEF DraftsInv, OfConv, Makes
<1>2. ButlerInv /\ DraftsInv /\ [ButlerNext]_butlerVars => DraftsInv'
  BY DraftsInvInductive
<1>3. DraftsInv => ProposalDispatches
  <2> SUFFICES ASSUME DraftsInv, conv.draft.sized, ~Unverifiable(conv.draft.request.items),
                      WantsFile(conv.draft) => conv.draft.request.artifacts # {},
                      ProducedSomewhere(conv.draft.request.items, conv.draft.request.artifacts),
                      conv.structured => conv.draft.request.artifacts = {}
               PROVE  Planned(Asked(conv.draft))
    BY DEF ProposalDispatches, Dispatchable
  <2> DEFINE wants == WantsFile(conv.draft)
             q == [conv.draft.request EXCEPT !.file = wants]
  <2>1. conv.draft.request = [f \in RequestFields |-> conv.draft.request[f]]
        /\ Makes(conv.draft, conv.structured)
    BY DEF DraftsInv, OfConv
  <2> HIDE DEF wants
  <2>2. /\ \A f \in RequestFields \ {"file"} : q[f] = conv.draft.request[f]
        /\ q.file = wants /\ q.artifacts = conv.draft.request.artifacts
    BY <2>1 DEF RequestFields
  <2>3. Asked(conv.draft) = q
    BY DEF Asked, wants
  <2> HIDE DEF q
  <2>4. q.file => q.artifacts # {}
    BY <2>2 DEF wants
  <2> QED BY <2>1, <2>2, <2>3, <2>4 DEF Makes
<1> QED BY <1>1, <1>2, <1>3, ButlerInvHolds, PTL DEF ButlerSpec
=============================================================================
