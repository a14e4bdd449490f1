------------------------------- MODULE Butler -------------------------------
(***************************************************************************)
(* The Butler's intake: one conversation of a project, which words turn    *)
(* into a proposal and a proposal into a goal, and the conversation with   *)
(* the global Butler.  Each request is handled by a thread of the control  *)
(* plane; every transaction of the database is a step of its own, and so   *)
(* is the call of the model between two of them.  A crash ends every       *)
(* thread; the people may send what they sent again.                       *)
(*                                                                         *)
(* A draft carries the number of the revision that wrote it: two texts of  *)
(* two revisions are never equal, and neither are their proposal hashes.   *)
(* The goal is reduced to which of the two keys created it and from which  *)
(* draft; Goals has the rest.  The router's own receipt is left out.       *)
(***************************************************************************)
EXTENDS Intake, ModelCalls

CONSTANTS
  Clients,        \* threads that handle requests
  Starts,         \* drafts a conversation can begin with
  Replies,        \* proposals a model can answer with
  Worked,         \* requests of drafts that are followed further
  Texts,          \* texts a person can give a field
  MaxRev,         \* bound of the model: revisions of a conversation
  MaxRequests,    \* bound of the model: requests
  MaxFaults       \* bound of the model: crashes and unavailable providers

ASSUME ButlerAssumption == MaxRev \in Nat \ {0} /\ MaxRequests \in Nat /\ MaxFaults \in Nat

VARIABLES
  conv,           \* the row of the project's conversation
  goalOf,         \* the draft that each key's goal was made of, 0 if there is none
  chat,           \* the row and the messages of the global conversation
  client,         \* what each thread does and what it has read
  used,           \* the provider's counter of each session
  requests, faults

convVars   == <<conv, goalOf>>
butlerVars == <<conv, goalOf, chat, client, used, requests, faults, ledgerVars>>

-----------------------------------------------------------------------------
(* Receipts are kept under the revision that the thread read and, for the   *)
(* repair of a reply that broke the contract, a second key.  The key of a   *)
(* request that may be sent again is the sender's; the others name a        *)
(* revision of their own.                                                  *)
CallKeys == [src : {"first", "later"}, rev : 1..MaxRev, try : 0..1]
              \cup [src : {"chat"}, rev : 1..MaxRev, try : {0}]

ASSUME KeyAssumption == CallKeys \subseteq Calls

NoDraft == [text |-> [f \in {"objective", "boundaries", "acceptance"} |-> NoText],
            request |-> [sizing |-> [risk |-> "low"], structured |-> FALSE, items |-> <<>>,
                         milestones |-> MaxItems, artifacts |-> {}, file |-> FALSE,
                         gates |-> FALSE],
            sized |-> FALSE, hints |-> {}, parts |-> 0, roles |-> FALSE, refs |-> FALSE,
            keys |-> {}]

NoConv == [status |-> "none", suspended |-> FALSE, rev |-> 0, turns |-> 0, draft |-> NoDraft,
           version |-> 0, auto |-> FALSE, asked |-> 0, structured |-> FALSE,
           planned |-> FALSE, session |-> NoSession, goal |-> "none"]

(* What a reader of the row is told: a suspension hides the status.        *)
Shown(rec) == IF rec.suspended THEN "suspended" ELSE rec.status

(* What of it a thread goes on with.                                       *)
View(rec) == [rev |-> rec.rev, version |-> rec.version, turns |-> rec.turns,
              auto |-> rec.auto /\ Shown(rec) = "awaiting",
              able |-> Dispatchable(rec.draft)]

Idle == [pc |-> "idle", src |-> "start", rec |-> View(NoConv), seen |-> 0, try |-> 0,
         session |-> NoSession, reply |-> "none", draft |-> NoDraft, count |-> 0]

ButlerInit ==
  /\ conv = NoConv
  /\ goalOf = [key \in {"auto", "confirm"} |-> 0]
  /\ chat = [rev |-> 0, log |-> <<>>, session |-> NoSession]
  /\ client = [c \in Clients |-> Idle]
  /\ used = [s \in Sessions |-> 0]
  /\ requests = 0 /\ faults = 0
  /\ LedgerInit

Goes(c, next) == client' = [client EXCEPT ![c] = next]
Ends(c)       == Goes(c, Idle)

Request(c) ==
  /\ client[c].pc = "idle"
  /\ requests < MaxRequests
  /\ requests' = requests + 1
  /\ UNCHANGED <<used, faults, ledgerVars>>

CanWrite == conv.rev < MaxRev

(* Where a handler goes once its first transaction is done.  Words of an    *)
(* owner who filled in every field need no model, nor does a request that   *)
(* was planned before and is only sent again.                               *)
AfterFirst(src, rec) ==
  [Idle EXCEPT !.src = src, !.rec = View(rec), !.seen = rec.turns, !.session = rec.session,
     !.pc = IF \/ Shown(rec) = "dispatched"
               \/ src \in {"start", "route"} /\ (rec.structured \/ rec.planned)
            THEN IF src = "route" THEN "idle" ELSE "hand"
            ELSE "plan"]

-----------------------------------------------------------------------------
(* The first transactions of the handlers.                                 *)

(* A draft replaces the one before: its gap is the next question, and a     *)
(* draft without a gap is a proposal.                                       *)
Written(rec, draft, asked, structured) ==
  [rec EXCEPT !.status  = IF Ready(draft) THEN "awaiting" ELSE "clarifying",
              !.rev     = @ + 1,
              !.draft   = draft,
              !.version = rec.rev + 1,
              !.auto    = AutoEligible(draft, structured, asked)]

(* A conversation starts, directly or by way of the global Butler; the same *)
(* key sent again finds it.                                                 *)
StartConversation(c, src, draft) ==
  /\ Request(c)
  /\ IF conv.status = "none"
     THEN LET d == Normalized(draft)
              asks == ~Ready(d) /\ (src = "route" \/ Structured(draft))
          IN  conv' = [Written(NoConv, d, 0, Structured(draft)) EXCEPT
                         !.turns = 1, !.structured = Structured(draft), !.asked = Count(asks)]
     ELSE UNCHANGED conv
  /\ Goes(c, AfterFirst(src, conv'))
  /\ UNCHANGED <<goalOf, chat>>

Accepting == ~conv.suspended /\ conv.status \in {"clarifying", "awaiting"}

(* A turn in plain words: it changes no field.                             *)
AppendConversational(c) ==
  /\ Request(c) /\ CanWrite /\ Accepting
  /\ conv' = [conv EXCEPT !.rev = @ + 1, !.turns = @ + 1]
  /\ Goes(c, AfterFirst("turn", conv'))
  /\ UNCHANGED <<goalOf, chat>>

(* An answer to the one question, or a correction of a field of a proposal. *)
PostField(c, field, text) ==
  /\ Request(c) /\ CanWrite /\ Accepting
  /\ text # conv.draft.text[field]
  /\ conv.status = "clarifying" => field = NextGap(conv.draft)
  /\ LET d == [conv.draft EXCEPT !.text[field] = text]
     IN  conv' = [Written(conv, d, conv.asked, conv.structured) EXCEPT
                    !.turns = @ + 1,
                    !.asked = @ + Count(conv.status = "clarifying" /\ ~Ready(d))]
  /\ Goes(c, AfterFirst("turn", conv'))
  /\ UNCHANGED <<goalOf, chat>>

PreparePlannerResume(c) ==
  /\ Request(c) /\ CanWrite /\ conv.suspended
  /\ conv' = [conv EXCEPT !.suspended = FALSE, !.rev = @ + 1]
  /\ Goes(c, AfterFirst("resume", conv'))
  /\ UNCHANGED <<goalOf, chat>>

-----------------------------------------------------------------------------
(* The call of the model.                                                  *)

KeySource(src) == IF src \in {"start", "route"} THEN "first"
                  ELSE IF src = "chat" THEN "chat" ELSE "later"

Key(c) == [src |-> KeySource(client[c].src), rev |-> client[c].rec.rev, try |-> client[c].try]

(* What the thread does with the end of a call.                            *)
Answered(c, reply) ==
  [client[c] EXCEPT !.pc = IF client[c].src = "chat" THEN "answer" ELSE "bind",
                    !.reply = reply, !.count = 0]

(* The provider is disabled, its circuit is open or its token is missing.   *)
ProviderDown(c) ==
  /\ client[c].pc = "plan" /\ client[c].try = 0
  /\ faults < MaxFaults /\ faults' = faults + 1
  /\ Goes(c, Answered(c, "unavailable"))
  /\ UNCHANGED <<conv, goalOf, chat, used, requests, ledgerVars>>

(* The receipt: a call that was settled before is not repeated; one that    *)
(* was only prepared or sent, by a thread that died or still lives, is.     *)
PlanCall(c) ==
  /\ client[c].pc = "plan"
  /\ IF receipt[Key(c)] \in Final
     THEN Goes(c, Answered(c, "duplicate")) /\ UNCHANGED ledgerVars
     ELSE /\ Goes(c, [client[c] EXCEPT !.pc = "calling"])
          /\ IF receipt[Key(c)] = "none" THEN Send(Key(c))
                                         ELSE Dispatch(Key(c))
  /\ UNCHANGED <<conv, goalOf, chat, used, requests, faults>>

(* The model works in the session it was asked for, or in another one, and  *)
(* says what the session has used by then.                                 *)
Returns(c, s, reply, draft) ==
  /\ client[c].pc = "calling"
  /\ used[s] < MaxCount
  /\ used' = [used EXCEPT ![s] = @ + 1]
  /\ Goes(c, [client[c] EXCEPT !.pc = "settle", !.session = s, !.reply = reply,
                               !.draft = draft, !.count = used[s] + 1])
  /\ UNCHANGED <<conv, goalOf, chat, requests, faults, ledgerVars>>

(* The proposals that keep to the contract.  Those that are not followed    *)
(* are answers to the first request.                                       *)
Proposals == {Materialized(p) : p \in {q \in Replies : InContract(Materialized(q))}}

Executes(c) ==
  \E s \in Sessions :
    \/ Returns(c, s, "failed", NoDraft)
    \/ /\ client[c].src = "chat"
       /\ Returns(c, s, "completed", NoDraft)
    \/ /\ client[c].src # "chat"
       /\ \/ Returns(c, s, "broken", NoDraft)
          \/ \E p \in Proposals : /\ requests = 1 \/ p.request \in Worked
                                 /\ Returns(c, s, "valid", p)

(* The bridge cannot be reached or loses the reply: nothing says what was   *)
(* used.                                                                   *)
ExecuteRaises(c) ==
  /\ client[c].pc = "calling"
  /\ Goes(c, [client[c] EXCEPT !.pc = "settle", !.reply = "failed", !.count = 0])
  /\ UNCHANGED <<conv, goalOf, chat, used, requests, faults, ledgerVars>>

(* A reply that broke the contract is asked for once more.                 *)
SettleCall(c) ==
  /\ client[c].pc = "settle"
  /\ Settle(Key(c), client[c].session, client[c].count,
            IF client[c].reply \in {"valid", "completed"} THEN "completed" ELSE "failed")
  /\ IF client[c].reply = "broken" /\ client[c].try = 0
     THEN Goes(c, [client[c] EXCEPT !.pc = "plan", !.try = 1, !.draft = NoDraft])
     ELSE Goes(c, Answered(c, client[c].reply))
  /\ UNCHANGED <<conv, goalOf, chat, used, requests, faults>>
-----------------------------------------------------------------------------
(* What comes of the call.                                                 *)

(* The session is bound to the conversation as it is now, and what is done  *)
(* next is done to the row as it is now; a session that changed is refused. *)
BindSession(c) ==
  /\ client[c].pc = "bind"
  /\ LET s == client[c].session
     IN  IF s = NoSession
         THEN Goes(c, [client[c] EXCEPT !.pc = "finish"]) /\ UNCHANGED conv
         ELSE IF conv.session \notin {NoSession, s}
         THEN Ends(c) /\ UNCHANGED conv
         ELSE /\ conv' = [conv EXCEPT !.session = s]
              /\ Goes(c, [client[c] EXCEPT !.pc = "finish", !.session = NoSession,
                                           !.rec = View(conv')])
  /\ UNCHANGED <<goalOf, chat, used, requests, faults, ledgerVars>>

(* The row a planner's result is written to, and what the handler goes on   *)
(* with; a row that is not as it was read is a conflict.                    *)
Current(c) == conv.rev = client[c].rec.rev

HandsOn(c) ==
  Goes(c, IF client[c].src = "route" THEN Idle
          ELSE [Idle EXCEPT !.pc = "hand", !.src = client[c].src, !.rec = View(conv')])

SuspendPlanner(c) ==
  /\ client[c].pc = "finish" /\ client[c].reply # "valid"
  /\ IF Current(c)
     THEN /\ CanWrite
          /\ conv' = [conv EXCEPT !.suspended = TRUE, !.rev = @ + 1, !.auto = FALSE,
                                  !.planned = client[c].reply # "unavailable"]
          /\ HandsOn(c)
     ELSE Ends(c) /\ UNCHANGED conv
  /\ UNCHANGED <<goalOf, chat, used, requests, faults, ledgerVars>>

(* A proposal is laid over the draft key by key: what it has no key for     *)
(* stays, also files that its items know nothing of; what it names is       *)
(* replaced, even by nothing.  Only an objective cannot be taken back.      *)
Stay(p) == (Optional \ p.keys) \cup ({"objective"} \cap Missing(p))

Merged(draft, p) ==
  [p EXCEPT !.text = [f \in DOMAIN p.text |-> IF f \in Stay(p) THEN draft.text[f] ELSE p.text[f]],
            !.request.artifacts = IF "artifacts" \in Stay(p) THEN draft.request.artifacts ELSE @,
            !.keys = {}]

MayApply(c) == Accepting /\ Current(c)

ApplyPlannerProposal(c) ==
  /\ client[c].pc = "finish" /\ client[c].reply = "valid"
  /\ IF MayApply(c)
     THEN /\ CanWrite
          /\ LET d == Merged(conv.draft, client[c].draft)
             IN  conv' = [Written(conv, d, conv.asked, FALSE) EXCEPT !.planned = TRUE]
          /\ HandsOn(c)
     ELSE Ends(c) /\ UNCHANGED conv
  /\ UNCHANGED <<goalOf, chat, used, requests, faults, ledgerVars>>

-----------------------------------------------------------------------------
(* The goal.  Its key makes sure that what is asked for twice is made once. *)
CreateGoal(key, rec) ==
  goalOf' = [goalOf EXCEPT ![key] = IF @ = 0 THEN rec.version ELSE @]

(* A proposal that needs no confirmation is handed over at once.  A draft   *)
(* that no goal can be made of, or a provider that is not ready, raises.    *)
AutoDispatch(c) ==
  /\ client[c].pc = "hand"
  /\ LET rec == client[c].rec
     IN  IF ~rec.auto \/ ~rec.able
         THEN Ends(c) /\ UNCHANGED goalOf
         ELSE /\ CreateGoal("auto", rec)
              /\ Goes(c, [client[c] EXCEPT !.pc = "mark"])
  /\ UNCHANGED <<conv, chat, used, requests, faults, ledgerVars>>

(* A person reads a proposal, and confirms it later.  The goal is made of   *)
(* what the conversation says by then.                                      *)
ReadProposal(c) ==
  /\ Request(c)
  /\ Shown(conv) = "awaiting"
  /\ Goes(c, [Idle EXCEPT !.pc = "confirm", !.src = "confirm", !.rec = View(conv)])
  /\ UNCHANGED <<conv, goalOf, chat>>

Confirm(c) ==
  /\ client[c].pc = "confirm"
  /\ IF Dispatchable(conv.draft)
     THEN /\ CreateGoal("confirm", conv)
          /\ Goes(c, [client[c] EXCEPT !.pc = "mark"])
     ELSE Ends(c) /\ UNCHANGED goalOf
  /\ UNCHANGED <<conv, chat, used, requests, faults, ledgerVars>>

MarkUnread(c) == ~conv.suspended /\ conv.status = "awaiting"  \* a mutant of MayMark

MayMark(c) ==
  /\ ~conv.suspended /\ conv.status = "awaiting"
  /\ Current(c) /\ conv.version = client[c].rec.version

GoalKey(c) == IF client[c].src = "confirm" THEN "confirm" ELSE "auto"

(* The handover is recorded if the conversation is as it was read.         *)
MarkDispatched(c) ==
  /\ client[c].pc = "mark"
  /\ IF MayMark(c)
     THEN conv' = [conv EXCEPT !.status = "dispatched", !.rev = @ + 1, !.goal = GoalKey(c)]
     ELSE UNCHANGED conv
  /\ Ends(c)
  /\ UNCHANGED <<goalOf, chat, used, requests, faults, ledgerVars>>

-----------------------------------------------------------------------------
(* The conversation with the global Butler: a message, a call, an answer.   *)
ChatCall(c, rec) ==
  Goes(c, [Idle EXCEPT !.pc = "plan", !.src = "chat", !.session = rec.session,
                       !.rec.rev = rec.rev])

Said(rec) == [rec EXCEPT !.rev = @ + 1, !.log = Append(@, [said |-> TRUE, rev |-> rec.rev + 1])]

StartGlobal(c) ==
  /\ Request(c)
  /\ chat' = IF chat.rev = 0 THEN Said(chat) ELSE chat
  /\ IF Len(chat'.log) = 1 THEN ChatCall(c, chat') ELSE Ends(c)
  /\ UNCHANGED <<conv, goalOf>>

PostGlobalMessage(c) ==
  /\ Request(c)
  /\ chat.rev \in 1..(MaxRev - 1)
  /\ chat' = Said(chat)
  /\ ChatCall(c, chat')
  /\ UNCHANGED <<conv, goalOf>>

ReplyToRest(c) == TRUE                    \* a mutant of MayReply

MayReply(c) == chat.rev = client[c].rec.rev

AppendGlobalReply(c) ==
  /\ client[c].pc = "answer"
  /\ IF MayReply(c)
     THEN /\ chat.rev < MaxRev
          /\ chat' = [chat EXCEPT
               !.rev = @ + 1,
               !.session = IF client[c].session = NoSession THEN @ ELSE client[c].session,
               !.log = Append(@, [said |-> FALSE, rev |-> client[c].rec.rev])]
     ELSE UNCHANGED chat
  /\ Ends(c)
  /\ UNCHANGED <<conv, goalOf, used, requests, faults, ledgerVars>>

-----------------------------------------------------------------------------
(* The control plane dies, starts again and closes the receipts that its    *)
(* threads left open.                                                      *)
Crash ==
  /\ faults < MaxFaults /\ faults' = faults + 1
  /\ client' = [c \in Clients |-> IF client[c].pc = "confirm" THEN client[c] ELSE Idle]
  /\ CloseOpen
  /\ UNCHANGED <<conv, goalOf, chat, used, requests>>

(* A conversation whose draft is not followed gets no more requests.       *)
(* The two conversations share nothing but the ledger, in which their calls *)
(* have keys and sessions of their own: one of them is explored at a time.  *)
Followed  == chat.rev = 0 /\ (conv.status = "none" \/ conv.draft.request \in Worked)
ChatsOnly == conv.status = "none"

Asks(c) ==
  \/ \E src \in {"start", "route"}, draft \in Starts : StartConversation(c, src, draft)
  \/ AppendConversational(c)
  \/ \E field \in DOMAIN NoDraft.text, text \in Texts : PostField(c, field, text)
  \/ PreparePlannerResume(c)
  \/ ReadProposal(c)

Chats(c) == StartGlobal(c) \/ PostGlobalMessage(c)

Calling(c) ==
  \/ ProviderDown(c) \/ PlanCall(c)
  \/ Executes(c) \/ ExecuteRaises(c) \/ SettleCall(c)

Concludes(c) ==
  \/ BindSession(c) \/ SuspendPlanner(c) \/ ApplyPlannerProposal(c)
  \/ AutoDispatch(c) \/ Confirm(c) \/ MarkDispatched(c) \/ AppendGlobalReply(c)

ButlerNext ==
  \/ \E c \in Clients : \/ Followed /\ Asks(c)
                        \/ ChatsOnly /\ Chats(c)
                        \/ Calling(c) \/ Concludes(c)
  \/ Crash

ButlerSpec == ButlerInit /\ [][ButlerNext]_butlerVars

-----------------------------------------------------------------------------
(* mark_dispatched.  A conversation becomes dispatched only by a thread     *)
(* that judged, or for a person who read, the very proposal it holds.  The  *)
(* goal it then names exists, and was made of that proposal or of one that  *)
(* came before: the goal's key finds what an earlier hand-over, of which    *)
(* the mark was refused or lost, has made.  It was never made of words      *)
(* that came later.  From then on neither the draft, nor which goal is      *)
(* named, nor what that goal was made of changes.                          *)
DispatchStands ==
  [][/\ conv.status # "dispatched" /\ conv'.status = "dispatched" =>
          /\ \E c \in Clients : /\ client[c].pc = "mark" /\ client'[c].pc = "idle"
                                /\ client[c].rec.version = conv.version
                                /\ client[c].rec.turns = conv.turns
          /\ goalOf'[conv'.goal] \in 1..conv.version
     /\ conv.status = "dispatched" =>
          /\ conv'.status = "dispatched" /\ conv'.goal = conv.goal
          /\ conv'.draft = conv.draft
          /\ goalOf'[conv.goal] = goalOf[conv.goal]]_butlerVars

(* A proposal that people are asked to confirm, or that goes ahead without  *)
(* them, can become a goal: whatever the contract accepts, and the defaults *)
(* of a draft that an owner structured, pass the checks of the goal's plan. *)
(* The contract is about the proposal, and the plan about what it was laid  *)
(* over, so that four things get through and make every hand-over raise:    *)
(* six lanes without a verification, or one that does not come last; words  *)
(* that ask for a file when none is declared; a file declared before, which *)
(* no item of the proposal produces; and the files of a draft that an owner *)
(* structured, which every default lane is given.                          *)
ProposalDispatches ==
  LET q == conv.draft.request IN
  /\ conv.status = "awaiting" /\ conv.draft.sized
  /\ ~Unverifiable(q.items)
  /\ WantsFile(conv.draft) => q.artifacts # {}
  /\ ProducedSomewhere(q.items, q.artifacts)
  /\ conv.structured => q.artifacts = {}
  => Dispatchable(conv.draft)

(* An answer of the global Butler stands right behind the message it is the *)
(* answer to, however many requests, retries and crashes there are.         *)
AnswersInOrder ==
  \A i \in DOMAIN chat.log :
    ~chat.log[i].said => i > 1 /\ chat.log[i - 1] = [said |-> TRUE, rev |-> chat.log[i].rev]

(* A turn of a person is not overwritten by a proposal that was made before *)
(* the planner could know of it.                                           *)
NoTurnLost ==
  [][\A c \in Clients :
       client[c].pc = "finish" /\ conv'.version # conv.version
         => client[c].seen = conv.turns]_butlerVars

(* The calls of the Butler use the ledger as it allows.                    *)
UsesLedger == LedgerSpec
=============================================================================
