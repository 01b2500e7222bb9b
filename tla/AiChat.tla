--------------------------------- MODULE AiChat ---------------------------------
(***************************************************************************)
(* A question to the assistant (V2/server/ai/ai-chat.service.ts): the      *)
(* quota and the gate (ai-rate-limit.ts), the conversation, retrieval with *)
(* its recheck (retrieval.service.ts), the call of the model, the answer   *)
(* and the record of what was used.                                        *)
(*                                                                         *)
(* A turn awaits one statement after another; turns, deletions of          *)
(* conversations and changes of what people may see interleave at the      *)
(* awaits.  Statements that only read what nothing here depends on (the    *)
(* history, the platform documents) are part of the step that follows.     *)
(*                                                                         *)
(* tokens counts whole tokens: a question costs exactly one and is refused *)
(* for want of one, so fractions only decide when the next one is whole.   *)
(***************************************************************************)
EXTENDS Integers, FiniteSets

CONSTANTS
  Users,
  Turns,          \* slots for questions in flight
  Conversations,  \* ids; one that nothing refers to stands for a new uuid
  Resources,      \* what chunks can be about
  PerMinute,      \* AI_RATE_LIMIT_PER_MIN: the tokens of a full bucket
  MaxConcurrent,  \* AI_MAX_CONCURRENT
  MaxCalls,       \* bound: calls of the model per user and life of the process
  MaxRefills,     \* bound: tokens a user regains in that time
  NoUser, NoConversation

ASSUME ChatAssumption ==
  /\ NoUser \notin Users /\ NoConversation \notin Conversations
  /\ PerMinute \in Nat \ {0} /\ MaxConcurrent \in Nat \ {0}
  /\ MaxCalls \in Nat /\ MaxRefills \in Nat
  /\ IsFiniteSet(Turns)

VARIABLES
  tokens,   \* tokens[u]: the bucket of u
  active,   \* the gate: AiRateLimiter.active
  turn,     \* the turns in flight
  owner,    \* owner[c]: ai_conversations.user_id, while c exists
  visible,  \* visible[u]: the resources AuthorizationService lets u see now
  calls,    \* history: calls[u]: requests to the model for u
  refilled, \* history: tokens u has regained
  missing   \* history: missing[u]: calls that are over, without a row in
            \* ai_usage_events and without an excuse

limits == <<tokens, active, refilled>>
books == <<calls, missing>>
vars == <<tokens, active, turn, owner, visible, calls, refilled, missing>>

Idle == [pc |-> "idle", user |-> NoUser, conv |-> NoConversation,
         found |-> {}, left |-> {}, excused |-> FALSE]

Inside == {t \in Turns : turn[t].pc # "idle"}

\* The turns of u whose call of the model has still to come.
Pending(u) ==
  {t \in Turns : /\ turn[t].user = u
                 /\ turn[t].pc \in {"own", "create", "retrieve", "recheck", "question", "call"}}

Plus(f, u) == [f EXCEPT ![u] = @ + 1]
Goto(t, pc) == turn' = [turn EXCEPT ![t].pc = pc]

\* finally { release() }
Leave_Kept(t) ==
  /\ turn' = [turn EXCEPT ![t] = Idle]
  /\ UNCHANGED limits
Leave(t) ==
  /\ turn' = [turn EXCEPT ![t] = Idle]
  /\ active' = IF active > 0 THEN active - 1 ELSE 0
  /\ UNCHANGED <<tokens, refilled>>

-----------------------------------------------------------------------------
(* The quota and the gate. *)

MayAsk_Overdrawn(u) == tokens[u] >= 0
MayAsk(u) == tokens[u] >= 1
GateOpen == active < MaxConcurrent

acquire(u) == tokens' = [tokens EXCEPT ![u] = @ - 1]

\* c is nobody's, or a new id nobody has seen.
Unused(c) == owner[c] = NoUser /\ \A t \in Turns : turn[t].conv # c

\* chat: acquire, then enter.  A question without a conversation gets a new one.
Ask(t, u, c) ==
  /\ turn[t].pc = "idle" /\ MayAsk(u) /\ GateOpen
  /\ calls[u] + Cardinality({s \in Inside : turn[s].user = u}) < MaxCalls
  /\ acquire(u)
  /\ active' = active + 1
  /\ \/ turn' = [turn EXCEPT ![t] = [Idle EXCEPT !.pc = "own", !.user = u, !.conv = c]]
     \/ /\ Unused(c)
        /\ turn' = [turn EXCEPT ![t] = [Idle EXCEPT !.pc = "create", !.user = u, !.conv = c]]
  /\ UNCHANGED <<refilled, owner, visible, books>>

\* The gate refuses, after the token is gone.  (Refused for want of a token, a
\* question changes nothing.)
TurnAway(u) ==
  /\ MayAsk(u) /\ ~GateOpen
  /\ acquire(u)
  /\ UNCHANGED <<active, refilled, turn, owner, visible, books>>

Refill(u) ==
  /\ tokens[u] < PerMinute /\ refilled[u] < MaxRefills
  /\ tokens' = Plus(tokens, u)
  /\ refilled' = Plus(refilled, u)
  /\ UNCHANGED <<active, turn, owner, visible, books>>

-----------------------------------------------------------------------------
(* A turn. *)

CreateOwn(t) ==
  /\ turn[t].pc = "create"
  /\ owner' = [owner EXCEPT ![turn[t].conv] = turn[t].user]
  /\ Goto(t, "retrieve")
  /\ UNCHANGED <<limits, visible, books>>

\* requireOwnConversation; otherwise 404.
RequireOwn_NoRelease(t) ==
  /\ turn[t].pc = "own"
  /\ IF owner[turn[t].conv] = turn[t].user
     THEN Goto(t, "retrieve")
     ELSE turn' = [turn EXCEPT ![t] = Idle]
  /\ UNCHANGED <<limits, owner, visible, books>>
RequireOwn(t) ==
  /\ turn[t].pc = "own"
  /\ IF owner[turn[t].conv] = turn[t].user
     THEN Goto(t, "retrieve") /\ UNCHANGED limits
     ELSE Leave(t)
  /\ UNCHANGED <<owner, visible, books>>

\* retrieve: what may be seen is part of the WHERE; ranking picks from it.
Retrieve(t) ==
  /\ turn[t].pc = "retrieve"
  /\ \E R \in SUBSET visible[turn[t].user] :
       turn' = [turn EXCEPT ![t].pc = "recheck", ![t].found = R, ![t].left = R]
  /\ UNCHANGED <<limits, owner, visible, books>>

\* filterCitable: one resource after the other.
Recheck(t) ==
  /\ turn[t].pc = "recheck"
  /\ \/ \E r \in turn[t].left :
          turn' = [turn EXCEPT ![t].left = @ \ {r},
                               ![t].found = IF r \in visible[turn[t].user]
                                            THEN @ ELSE @ \ {r}]
     \/ turn[t].left = {} /\ Goto(t, "question")
  /\ UNCHANGED <<limits, owner, visible, books>>

\* INSERT the question; the foreign key refuses once the conversation is gone.
AddQuestion(t) ==
  /\ turn[t].pc = "question"
  /\ IF owner[turn[t].conv] # NoUser
     THEN Goto(t, "call") /\ UNCHANGED limits
     ELSE Leave(t)
  /\ UNCHANGED <<owner, visible, books>>

\* The turn ends without a row in ai_usage_events.
Unbooked(t) ==
  missing' = IF turn[t].excused THEN missing ELSE Plus(missing, turn[t].user)

\* provider.complete, unless the client has gone: then its signal is aborted and
\* nothing is sent.
Call(t) ==
  /\ turn[t].pc = "call"
  /\ \/ Goto(t, "answering") /\ calls' = Plus(calls, turn[t].user)
     \/ Goto(t, "cancelled") /\ UNCHANGED calls
  /\ UNCHANGED <<limits, owner, visible, missing>>

\* The model answers.  An empty answer is no message the table takes.
Answer(t) ==
  /\ turn[t].pc = "answering"
  /\ \/ Goto(t, "store")
     \/ turn' = [turn EXCEPT ![t].pc = "blank", ![t].excused = TRUE]
  /\ UNCHANGED <<limits, owner, visible, books>>

\* It refuses, fails, takes too long, or the client goes.
ProviderFails_Unbooked(t) ==
  /\ turn[t].pc = "answering"
  /\ Leave(t) /\ Unbooked(t)
  /\ UNCHANGED <<owner, visible, calls>>
ProviderFails(t) ==
  /\ turn[t].pc = "answering"
  /\ Goto(t, "book")
  /\ UNCHANGED <<limits, owner, visible, books>>

\* persistAssistant: the answer with its citations.
StoreAnswer(t) ==
  /\ turn[t].pc \in {"store", "blank"}
  /\ IF turn[t].pc = "store" /\ owner[turn[t].conv] # NoUser
     THEN Goto(t, "book") /\ UNCHANGED <<limits, missing>>
     ELSE Leave(t) /\ Unbooked(t)
  /\ UNCHANGED <<owner, visible, calls>>

\* finishTurn: INSERT INTO ai_usage_events; then the turn is over.
FinishTurn(t) ==
  /\ turn[t].pc \in {"book", "cancelled"}
  /\ Leave(t)
  /\ UNCHANGED <<owner, visible, books>>

\* A statement fails, which excuses the row: the failure of finishTurn's own is
\* swallowed, one before it ends the turn without.
Abort(t) ==
  /\ turn[t].pc \notin {"idle", "call", "answering"}
  /\ Leave(t)
  /\ UNCHANGED <<owner, visible, books>>

-----------------------------------------------------------------------------
(* What goes on beside it. *)

CreateConversation(u, c) ==
  /\ Unused(c)
  /\ owner' = [owner EXCEPT ![c] = u]
  /\ UNCHANGED <<limits, turn, visible, books>>

\* Its turns are not told.
DeleteConversation(u, c) ==
  /\ owner[c] = u
  /\ owner' = [owner EXCEPT ![c] = NoUser]
  /\ turn' = [t \in Turns |-> IF turn[t].conv = c THEN [turn[t] EXCEPT !.excused = TRUE]
                                                 ELSE turn[t]]
  /\ UNCHANGED <<limits, visible, books>>

\* A resource is withdrawn, deleted or moved, a grant given or taken.
Reveal(u, r) ==
  /\ visible' = [visible EXCEPT ![u] = (@ \ {r}) \cup ({r} \ @)]
  /\ UNCHANGED <<limits, turn, owner, books>>

\* The process dies: the limiter starts afresh, and the turns are gone.
Restart ==
  /\ tokens' = [u \in Users |-> PerMinute]
  /\ active' = 0
  /\ turn' = [t \in Turns |-> Idle]
  /\ calls' = [u \in Users |-> 0] /\ refilled' = [u \in Users |-> 0]
  /\ missing' = [u \in Users |-> 0]
  /\ UNCHANGED <<owner, visible>>

Init ==
  /\ tokens = [u \in Users |-> PerMinute]
  /\ active = 0
  /\ turn = [t \in Turns |-> Idle]
  /\ owner = [c \in Conversations |-> NoUser]
  /\ visible = [u \in Users |-> {}]
  /\ calls = [u \in Users |-> 0] /\ refilled = [u \in Users |-> 0]
  /\ missing = [u \in Users |-> 0]

Proceed(t) ==
  \/ CreateOwn(t) \/ RequireOwn(t) \/ Retrieve(t) \/ Recheck(t) \/ AddQuestion(t)
  \/ Call(t) \/ Answer(t) \/ ProviderFails(t) \/ StoreAnswer(t) \/ FinishTurn(t)

Surroundings ==
  \/ \E u \in Users :
       \/ TurnAway(u) \/ Refill(u)
       \/ \E c \in Conversations : CreateConversation(u, c) \/ DeleteConversation(u, c)
       \/ \E r \in Resources : Reveal(u, r)
  \/ Restart

Next ==
  \/ \E t \in Turns :
       \/ \E u \in Users, c \in Conversations : Ask(t, u, c)
       \/ Proceed(t) \/ Abort(t)
  \/ Surroundings

Spec == Init /\ [][Next]_vars

\* Statements come to an end, and so does a call of the model (AbortSignal.timeout).
FairSpec == Spec /\ \A t \in Turns : WF_vars(Proceed(t))

-----------------------------------------------------------------------------
(* Properties. *)

TurnType ==
  [pc : {"idle", "own", "create", "retrieve", "recheck", "question", "call",
         "cancelled", "answering", "store", "blank", "book"},
   user : Users \cup {NoUser}, conv : Conversations \cup {NoConversation},
   found : SUBSET Resources, left : SUBSET Resources, excused : BOOLEAN]

\* Every variable has its type; no bucket is overdrawn or overfull.
TypeOK ==
  /\ tokens \in [Users -> 0..PerMinute]
  /\ active \in 0..MaxConcurrent
  /\ turn \in [Turns -> TurnType]
  /\ owner \in [Conversations -> Users \cup {NoUser}]
  /\ visible \in [Users -> SUBSET Resources]
  /\ calls \in [Users -> Nat] /\ refilled \in [Users -> Nat]
  /\ missing \in [Users -> Nat]

\* The gate counts the turns that are inside, whichever way a turn ends: no place
\* is lost to a turn that failed, and none is given away twice.
GateCountsTurns == active = Cardinality(Inside)

\* A user's calls of the model do not exceed the quota of the time since the
\* process started, and a turn whose call has still to come is paid for.
CallsPaidFor ==
  \A u \in Users : calls[u] + Cardinality(Pending(u)) <= PerMinute + refilled[u]

\* Every call of the model that is over has its row in ai_usage_events, except
\* where the conversation was deleted meanwhile, the answer was empty, or a
\* statement failed.
CallsBooked == \A u \in Users : missing[u] = 0

\* However many turns fail, hang or are left by their client, the gate opens again.
GateReopens == []<>GateOpen
=============================================================================
