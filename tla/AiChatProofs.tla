------------------------------ MODULE AiChatProofs ------------------------------
(***************************************************************************)
(* The safety properties of AiChat for any users, turns, conversations,    *)
(* quotas and gates.                                                       *)
(*                                                                         *)
(* The quota is an account: tokens in the bucket, calls made and calls     *)
(* still to come add up to at most what the bucket started with and has    *)
(* regained (Paid).  That a call without a row has an excuse rests on the  *)
(* foreign key: whoever finds the conversation gone when the answer is     *)
(* stored had it when the question was, and was there when it was deleted  *)
(* (TurnOK).                                                               *)
(***************************************************************************)
EXTENDS AiChat, FiniteSetTheorems, TLAPS

Paid(u) == calls[u] + Cardinality(Pending(u)) + tokens[u] <= PerMinute + refilled[u]

TurnOK(h, o) ==
  /\ h.pc # "idle" => h.user \in Users /\ h.conv \in Conversations
  /\ h.pc = "blank" => h.excused
  /\ h.pc \in {"call", "answering", "store"} /\ o[h.conv] = NoUser => h.excused

IInv ==
  /\ TypeOK
  /\ GateCountsTurns
  /\ \A u \in Users : Paid(u)
  /\ \A t \in Turns : TurnOK(turn[t], owner)
  /\ CallsBooked

Early == {"own", "create", "retrieve", "recheck", "question", "call"}

-----------------------------------------------------------------------------
(* Counting. *)

LEMMA Finite ==
  /\ IsFiniteSet(Inside) /\ Cardinality(Inside) \in Nat
  /\ \A u : IsFiniteSet(Pending(u)) /\ Cardinality(Pending(u)) \in Nat
<1>1. Inside \subseteq Turns /\ \A u : Pending(u) \subseteq Turns
  BY DEF Inside, Pending
<1> QED BY <1>1, ChatAssumption, FS_Subset, FS_CardinalityType

LEMMA FiniteAfter ==
  /\ IsFiniteSet(Inside') /\ Cardinality(Inside') \in Nat
  /\ \A u : IsFiniteSet(Pending(u)') /\ Cardinality(Pending(u)') \in Nat
<1>1. Inside' \subseteq Turns /\ \A u : Pending(u)' \subseteq Turns
  BY DEF Inside, Pending
<1> QED BY <1>1, ChatAssumption, FS_Subset, FS_CardinalityType

\* A turn goes on: nobody enters or leaves, and no call is owed that was not.
LEMMA Goes ==
  ASSUME TypeOK, NEW t \in Turns, turn[t].pc # "idle",
         NEW h, h.pc # "idle", h.user = turn[t].user,
         h.pc \in Early => turn[t].pc \in Early,
         turn' = [turn EXCEPT ![t] = h]
  PROVE  /\ Inside' = Inside
         /\ \A u \in Users : Cardinality(Pending(u)') <= Cardinality(Pending(u))
         /\ turn[t].pc = "call" /\ h.pc \notin Early =>
              \A u \in Users : u = turn[t].user =>
                Cardinality(Pending(u)') = Cardinality(Pending(u)) - 1
<1> USE DEF TypeOK
<1>1. turn'[t] = h /\ \A s \in Turns \ {t} : turn'[s] = turn[s]
  OBVIOUS
<1>2. Inside' = Inside
  BY <1>1 DEF Inside
<1>3. ASSUME NEW u \in Users PROVE Cardinality(Pending(u)') <= Cardinality(Pending(u))
  <2>1. Pending(u)' \subseteq Pending(u)
    BY <1>1 DEF Pending, Early
  <2> QED BY <2>1, Finite, FS_Subset
<1>4. ASSUME turn[t].pc = "call", h.pc \notin Early,
             NEW u \in Users, u = turn[t].user
      PROVE  Cardinality(Pending(u)') = Cardinality(Pending(u)) - 1
  <2>1. t \in Pending(u) /\ Pending(u)' = Pending(u) \ {t}
    BY <1>1, <1>4 DEF Pending, Early
  <2> QED BY <2>1, Finite, FS_RemoveElement
<1> QED BY <1>2, <1>3, <1>4

\* A turn leaves: the gate counts one less, and what it owed is gone.
LEMMA Leaves ==
  ASSUME TypeOK, GateCountsTurns, NEW t \in Turns, turn[t].pc # "idle", Leave(t)
  PROVE  /\ active' \in 0..MaxConcurrent /\ GateCountsTurns'
         /\ \A u \in Users : Cardinality(Pending(u)') <= Cardinality(Pending(u))
         /\ turn' \in [Turns -> TurnType]
         /\ turn'[t] = Idle /\ \A s \in Turns \ {t} : turn'[s] = turn[s]
         /\ tokens' = tokens /\ refilled' = refilled
<1> USE DEF TypeOK
<1>1. turn'[t] = Idle /\ \A s \in Turns \ {t} : turn'[s] = turn[s]
  BY DEF Leave
<1>2. turn' \in [Turns -> TurnType]
  BY DEF Leave, Idle, TurnType
<1>3. t \in Inside /\ Inside' = Inside \ {t}
  BY <1>1 DEF Inside, Idle
<1>4. Cardinality(Inside') = Cardinality(Inside) - 1
  BY <1>3, Finite, FS_RemoveElement
<1>5. active' = active - 1 /\ active' >= 0
  <2>1. Cardinality(Inside') \in Nat /\ active \in Nat
    BY FiniteAfter, ChatAssumption
  <2>2. active > 0
    BY <1>4, <2>1, Finite DEF GateCountsTurns
  <2> QED BY <2>1, <2>2 DEF Leave
<1>6. active' \in 0..MaxConcurrent /\ GateCountsTurns'
  BY <1>4, <1>5, ChatAssumption DEF GateCountsTurns
<1>7. ASSUME NEW u \in Users PROVE Cardinality(Pending(u)') <= Cardinality(Pending(u))
  <2>1. Pending(u)' \subseteq Pending(u)
    BY <1>1 DEF Pending, Idle
  <2> QED BY <2>1, Finite, FS_Subset
<1> QED BY <1>1, <1>2, <1>6, <1>7 DEF Leave

\* What of TypeOK is not about turns stays as it is when its variables do.
LEMMA GoesOn ==
  ASSUME IInv, NEW t \in Turns, turn[t].pc # "idle",
         NEW h \in TurnType, h.pc # "idle", h.user = turn[t].user,
         h.pc \in Early => turn[t].pc \in Early,
         turn' = [turn EXCEPT ![t] = h],
         TurnOK(h, owner'), owner' \in [Conversations -> Users \cup {NoUser}],
         \A c \in Conversations : owner[c] # NoUser => owner'[c] # NoUser,
         UNCHANGED <<limits, visible, books>>
  PROVE  IInv'
<1>0. TypeOK
  BY DEF IInv
<1>1. /\ Inside' = Inside
      /\ \A u \in Users : Cardinality(Pending(u)') <= Cardinality(Pending(u))
  BY <1>0, Goes
<1>2. turn'[t] = h /\ \A s \in Turns \ {t} : turn'[s] = turn[s]
  BY <1>0 DEF TypeOK
<1>3. TypeOK'
  <2>1. turn' \in [Turns -> TurnType]
    BY <1>0 DEF TypeOK
  <2> QED BY <1>0, <2>1 DEF TypeOK, limits, books
<1>4. GateCountsTurns'
  BY <1>1 DEF IInv, GateCountsTurns, limits
<1>5. ASSUME NEW u \in Users PROVE Paid(u)'
  <2>1. Paid(u) /\ Cardinality(Pending(u)') <= Cardinality(Pending(u))
    BY <1>1 DEF IInv
  <2>2. calls[u] \in Nat /\ tokens[u] \in Int /\ refilled[u] \in Nat /\ PerMinute \in Nat
    BY <1>0, ChatAssumption DEF TypeOK
  <2>3. calls'[u] = calls[u] /\ tokens'[u] = tokens[u] /\ refilled'[u] = refilled[u]
    BY DEF limits, books
  <2> QED BY <2>1, <2>2, <2>3, Finite, FiniteAfter DEF Paid
<1>6. ASSUME NEW s \in Turns PROVE TurnOK(turn[s], owner)'
  <2>1. CASE s = t
    BY <2>1, <1>2
  <2>2. CASE s # t
    <3>1. turn'[s] = turn[s] /\ TurnOK(turn[s], owner)
      BY <1>2, <2>2 DEF IInv
    <3> QED BY <3>1 DEF TurnOK
  <2> QED BY <2>1, <2>2
<1>7. CallsBooked'
  BY DEF IInv, CallsBooked, books
<1> QED BY <1>3, <1>4, <1>5, <1>6, <1>7 DEF IInv

LEMMA LeavesOff ==
  ASSUME IInv, NEW t \in Turns, turn[t].pc # "idle", Leave(t),
         UNCHANGED <<owner, visible, books>>
  PROVE  IInv'
<1>0. TypeOK /\ GateCountsTurns
  BY DEF IInv
<1>1. /\ active' \in 0..MaxConcurrent /\ GateCountsTurns'
      /\ \A u \in Users : Cardinality(Pending(u)') <= Cardinality(Pending(u))
      /\ turn' \in [Turns -> TurnType]
      /\ turn'[t] = Idle /\ \A s \in Turns \ {t} : turn'[s] = turn[s]
      /\ tokens' = tokens /\ refilled' = refilled
  BY <1>0, Leaves
<1>2. TypeOK'
  BY <1>0, <1>1 DEF TypeOK, books
<1>3. ASSUME NEW u \in Users PROVE Paid(u)'
  <2>1. Paid(u) /\ Cardinality(Pending(u)') <= Cardinality(Pending(u))
    BY <1>1 DEF IInv
  <2>2. calls[u] \in Nat /\ tokens[u] \in Int /\ refilled[u] \in Nat /\ PerMinute \in Nat
    BY <1>0, ChatAssumption DEF TypeOK
  <2>3. calls'[u] = calls[u] /\ tokens'[u] = tokens[u] /\ refilled'[u] = refilled[u]
    BY <1>1 DEF books
  <2> QED BY <2>1, <2>2, <2>3, Finite, FiniteAfter DEF Paid
<1>4. ASSUME NEW s \in Turns PROVE TurnOK(turn[s], owner)'
  <2>1. CASE s = t
    BY <2>1, <1>1 DEF TurnOK, Idle
  <2>2. CASE s # t
    <3>1. turn'[s] = turn[s] /\ TurnOK(turn[s], owner)
      BY <1>1, <2>2 DEF IInv
    <3> QED BY <3>1 DEF TurnOK
  <2> QED BY <2>1, <2>2
<1>5. CallsBooked'
  BY DEF IInv, CallsBooked, books
<1> QED BY <1>1, <1>2, <1>3, <1>4, <1>5 DEF IInv

-----------------------------------------------------------------------------
(* The steps of a turn. *)

\* A step that only moves a turn on.
LEMMA GotoOn ==
  ASSUME IInv, NEW t \in Turns, turn[t].pc # "idle",
         NEW p \in {"retrieve", "question", "call", "cancelled", "answering", "store", "book"},
         p \in Early => turn[t].pc \in Early,
         p \in {"call", "answering", "store"} /\ owner'[turn[t].conv] = NoUser => turn[t].excused,
         Goto(t, p),
         owner' \in [Conversations -> Users \cup {NoUser}],
         \A c \in Conversations : owner[c] # NoUser => owner'[c] # NoUser,
         UNCHANGED <<limits, visible, books>>
  PROVE  IInv'
<1>0. TypeOK /\ TurnOK(turn[t], owner) /\ turn[t] \in TurnType
  BY DEF IInv, TypeOK
<1> PICK h : h = [turn[t] EXCEPT !.pc = p]
  OBVIOUS
<1>1. h \in TurnType /\ h.pc = p /\ h.user = turn[t].user
      /\ h.conv = turn[t].conv /\ h.excused = turn[t].excused
  BY <1>0 DEF TurnType
<1>2. turn' = [turn EXCEPT ![t] = h]
  BY <1>0 DEF Goto, TypeOK
<1>3. TurnOK(h, owner')
  BY <1>0, <1>1 DEF TurnOK
<1> QED BY <1>1, <1>2, <1>3, GoesOn

LEMMA CreateOwnStep ==
  ASSUME IInv, NEW t \in Turns, CreateOwn(t)
  PROVE  IInv'
<1>0. TypeOK /\ TurnOK(turn[t], owner)
  BY DEF IInv
<1>1. turn[t].user \in Users /\ turn[t].conv \in Conversations
  BY <1>0 DEF TurnOK, CreateOwn
<1>2. /\ owner' \in [Conversations -> Users \cup {NoUser}]
      /\ \A c \in Conversations : owner[c] # NoUser => owner'[c] # NoUser
  BY <1>0, <1>1, ChatAssumption DEF TypeOK, CreateOwn
<1> QED BY <1>2, GotoOn DEF CreateOwn, Early

LEMMA RequireOwnStep ==
  ASSUME IInv, NEW t \in Turns, RequireOwn(t)
  PROVE  IInv'
<1>1. owner' \in [Conversations -> Users \cup {NoUser}] /\ owner' = owner
  BY DEF IInv, TypeOK, RequireOwn
<1>2. CASE owner[turn[t].conv] = turn[t].user
  BY <1>1, <1>2, GotoOn DEF RequireOwn, Early
<1>3. CASE owner[turn[t].conv] # turn[t].user
  BY <1>3, LeavesOff DEF RequireOwn
<1> QED BY <1>2, <1>3

LEMMA RetrieveStep ==
  ASSUME IInv, NEW t \in Turns, Retrieve(t)
  PROVE  IInv'
<1>0. TypeOK /\ TurnOK(turn[t], owner) /\ turn[t] \in TurnType
  BY DEF IInv, TypeOK
<1> PICK R \in SUBSET visible[turn[t].user] :
      turn' = [turn EXCEPT ![t].pc = "recheck", ![t].found = R, ![t].left = R]
  BY DEF Retrieve
<1> PICK h : h = [turn[t] EXCEPT !.pc = "recheck", !.found = R, !.left = R]
  OBVIOUS
<1>1. R \in SUBSET Resources
  BY <1>0 DEF TurnOK, TypeOK, Retrieve
<1>2. h \in TurnType /\ h.pc = "recheck" /\ h.user = turn[t].user
      /\ h.conv = turn[t].conv /\ h.excused = turn[t].excused
  BY <1>0, <1>1 DEF TurnType
<1>3. turn' = [turn EXCEPT ![t] = h]
  BY <1>0 DEF TypeOK
<1>4. TurnOK(h, owner') /\ owner' = owner
  BY <1>0, <1>2 DEF TurnOK, Retrieve
<1>5. owner' \in [Conversations -> Users \cup {NoUser}]
  BY <1>0, <1>4 DEF TypeOK
<1>6. turn[t].pc = "retrieve" /\ UNCHANGED <<limits, visible, books>>
  BY DEF Retrieve
<1> QED BY <1>2, <1>3, <1>4, <1>5, <1>6, GoesOn DEF Early

LEMMA RecheckStep ==
  ASSUME IInv, NEW t \in Turns, Recheck(t)
  PROVE  IInv'
<1>0. TypeOK /\ TurnOK(turn[t], owner) /\ turn[t] \in TurnType
  BY DEF IInv, TypeOK
<1>1. owner' \in [Conversations -> Users \cup {NoUser}] /\ owner' = owner
  BY <1>0 DEF TypeOK, Recheck
<1>2. CASE turn[t].left = {} /\ Goto(t, "question")
  BY <1>1, <1>2, GotoOn DEF Recheck, Early
<1>3. ASSUME NEW r \in turn[t].left,
             turn' = [turn EXCEPT ![t].left = @ \ {r},
                                  ![t].found = IF r \in visible[turn[t].user]
                                               THEN @ ELSE @ \ {r}]
      PROVE  IInv'
  <2> PICK h : h = [turn[t] EXCEPT !.left = @ \ {r},
                                   !.found = IF r \in visible[turn[t].user]
                                             THEN @ ELSE @ \ {r}]
    OBVIOUS
  <2>1. h \in TurnType /\ h.pc = "recheck" /\ h.user = turn[t].user
        /\ h.conv = turn[t].conv /\ h.excused = turn[t].excused
    BY <1>0 DEF TurnType, Recheck
  <2>2. turn' = [turn EXCEPT ![t] = h]
    BY <1>0, <1>3 DEF TypeOK
  <2>3. TurnOK(h, owner')
    BY <1>0, <1>1, <2>1 DEF TurnOK, Recheck
  <2> QED BY <1>1, <2>1, <2>2, <2>3, GoesOn DEF Recheck, Early
<1> QED BY <1>2, <1>3 DEF Recheck

\* The question is added only while the conversation exists.
LEMMA AddQuestionStep ==
  ASSUME IInv, NEW t \in Turns, AddQuestion(t)
  PROVE  IInv'
<1>1. owner' \in [Conversations -> Users \cup {NoUser}] /\ owner' = owner
  BY DEF IInv, TypeOK, AddQuestion
<1>2. CASE owner[turn[t].conv] # NoUser
  BY <1>1, <1>2, GotoOn DEF AddQuestion, Early
<1>3. CASE owner[turn[t].conv] = NoUser
  BY <1>3, LeavesOff DEF AddQuestion
<1> QED BY <1>2, <1>3

\* What the turn owed becomes a call made.
LEMMA CallStep ==
  ASSUME IInv, NEW t \in Turns, Call(t)
  PROVE  IInv'
<1>0. TypeOK /\ TurnOK(turn[t], owner) /\ turn[t] \in TurnType /\ turn[t].pc = "call"
  BY DEF IInv, TypeOK, Call
<1>1. owner' \in [Conversations -> Users \cup {NoUser}] /\ owner' = owner
      /\ (turn[t].pc = "call" /\ owner'[turn[t].conv] = NoUser => turn[t].excused)
  BY <1>0 DEF TypeOK, Call, TurnOK
<1>2. CASE Goto(t, "cancelled") /\ UNCHANGED calls
  BY <1>0, <1>1, <1>2, GotoOn DEF Call, books, Early
<1>3. CASE Goto(t, "answering") /\ calls' = Plus(calls, turn[t].user)
  <2> PICK h : h = [turn[t] EXCEPT !.pc = "answering"]
    OBVIOUS
  <2> PICK v : v = turn[t].user
    OBVIOUS
  <2>1. h \in TurnType /\ h.pc = "answering" /\ h.user = turn[t].user
        /\ h.conv = turn[t].conv /\ h.excused = turn[t].excused
    BY <1>0 DEF TurnType
  <2>2. turn' = [turn EXCEPT ![t] = h]
    BY <1>0, <1>3 DEF TypeOK, Goto
  <2>3. v \in Users
    BY <1>0 DEF TurnOK
  <2>4. /\ Inside' = Inside
        /\ \A u \in Users : Cardinality(Pending(u)') <= Cardinality(Pending(u))
        /\ Cardinality(Pending(v)') = Cardinality(Pending(v)) - 1
    BY <1>0, <2>1, <2>2, <2>3, Goes DEF Early
  <2>5. calls' \in [Users -> Nat] /\ calls'[v] = calls[v] + 1
        /\ \A u \in Users \ {v} : calls'[u] = calls[u]
    BY <1>0, <1>3, <2>3 DEF TypeOK, Plus
  <2>6. TypeOK'
    <3>1. turn' \in [Turns -> TurnType]
      BY <1>0, <2>1, <2>2 DEF TypeOK
    <3> QED BY <1>0, <2>5, <3>1 DEF TypeOK, Call, limits
  <2>7. GateCountsTurns'
    BY <2>4 DEF IInv, GateCountsTurns, Call, limits
  <2>8. ASSUME NEW u \in Users PROVE Paid(u)'
    <3>1. Paid(u)
      BY DEF IInv
    <3>2. calls[u] \in Nat /\ tokens[u] \in Int /\ refilled[u] \in Nat /\ PerMinute \in Nat
      BY <1>0, ChatAssumption DEF TypeOK
    <3>3. tokens'[u] = tokens[u] /\ refilled'[u] = refilled[u]
      BY DEF limits, Call
    <3>4. calls'[u] + Cardinality(Pending(u)') <= calls[u] + Cardinality(Pending(u))
      <4>1. CASE u = v
        BY <2>4, <2>5, <3>2, <4>1, Finite, FiniteAfter
      <4>2. CASE u # v
        BY <2>4, <2>5, <3>2, <4>2, Finite, FiniteAfter
      <4> QED BY <4>1, <4>2
    <3>5. calls'[u] \in Nat
      BY <2>5
    <3> QED BY <3>1, <3>2, <3>3, <3>4, <3>5, Finite, FiniteAfter DEF Paid
  <2>9. ASSUME NEW s \in Turns PROVE TurnOK(turn[s], owner)'
    <3>1. TurnOK(turn[s], owner)
      BY DEF IInv
    <3>2. CASE s = t
      <4>1. turn'[s] = h
        BY <1>0, <2>2, <3>2 DEF TypeOK
      <4> QED BY <1>0, <1>1, <2>1, <4>1 DEF TurnOK
    <3>3. CASE s # t
      <4>1. turn'[s] = turn[s]
        BY <1>0, <2>2, <3>3 DEF TypeOK
      <4> QED BY <1>1, <3>1, <4>1 DEF TurnOK
    <3> QED BY <3>2, <3>3
  <2>10. CallsBooked'
    BY DEF IInv, CallsBooked, Call
  <2> QED BY <2>6, <2>7, <2>8, <2>9, <2>10 DEF IInv
<1> QED BY <1>2, <1>3 DEF Call

LEMMA AnswerStep ==
  ASSUME IInv, NEW t \in Turns, Answer(t)
  PROVE  IInv'
<1>0. TypeOK /\ TurnOK(turn[t], owner) /\ turn[t] \in TurnType /\ turn[t].pc = "answering"
  BY DEF IInv, TypeOK, Answer
<1>1. owner' \in [Conversations -> Users \cup {NoUser}] /\ owner' = owner
      /\ (owner'[turn[t].conv] = NoUser => turn[t].excused)
  BY <1>0 DEF TypeOK, Answer, TurnOK
<1>2. CASE Goto(t, "store")
  BY <1>0, <1>1, <1>2, GotoOn DEF Answer, Early
<1>3. CASE turn' = [turn EXCEPT ![t].pc = "blank", ![t].excused = TRUE]
  <2> PICK h : h = [turn[t] EXCEPT !.pc = "blank", !.excused = TRUE]
    OBVIOUS
  <2>1. h \in TurnType /\ h.pc = "blank" /\ h.user = turn[t].user
        /\ h.conv = turn[t].conv /\ h.excused
    BY <1>0 DEF TurnType
  <2>2. turn' = [turn EXCEPT ![t] = h]
    BY <1>0, <1>3 DEF TypeOK
  <2>3. TurnOK(h, owner')
    BY <1>0, <2>1 DEF TurnOK
  <2> QED BY <1>0, <1>1, <2>1, <2>2, <2>3, GoesOn DEF Answer, Early
<1> QED BY <1>2, <1>3 DEF Answer

LEMMA ProviderFailsStep ==
  ASSUME IInv, NEW t \in Turns, ProviderFails(t)
  PROVE  IInv'
<1>1. owner' \in [Conversations -> Users \cup {NoUser}] /\ owner' = owner
  BY DEF IInv, TypeOK, ProviderFails
<1> QED BY <1>1, GotoOn DEF ProviderFails, Early

\* Whoever finds the conversation gone, or has nothing to store, is excused.
LEMMA StoreAnswerStep ==
  ASSUME IInv, NEW t \in Turns, StoreAnswer(t)
  PROVE  IInv'
<1>0. TurnOK(turn[t], owner)
  BY DEF IInv
<1>1. owner' \in [Conversations -> Users \cup {NoUser}] /\ owner' = owner
  BY DEF IInv, TypeOK, StoreAnswer
<1>2. CASE turn[t].pc = "store" /\ owner[turn[t].conv] # NoUser
  BY <1>1, <1>2, GotoOn DEF StoreAnswer, books, Early
<1>3. CASE ~(turn[t].pc = "store" /\ owner[turn[t].conv] # NoUser)
  <2>1. turn[t].excused
    BY <1>0, <1>3 DEF TurnOK, StoreAnswer
  <2>2. Leave(t) /\ missing' = missing
    BY <1>3, <2>1 DEF StoreAnswer, Unbooked
  <2> QED BY <2>2, LeavesOff DEF StoreAnswer, books
<1> QED BY <1>2, <1>3

-----------------------------------------------------------------------------
(* The steps of the gate and of the surroundings. *)

\* The token taken is the call that has still to come.
LEMMA AskStep ==
  ASSUME IInv, NEW t \in Turns, NEW v \in Users, NEW c \in Conversations, Ask(t, v, c)
  PROVE  IInv'
<1>0. TypeOK /\ turn[t].pc = "idle"
  BY DEF IInv, Ask
<1> PICK p \in {"own", "create"} :
      turn' = [turn EXCEPT ![t] = [Idle EXCEPT !.pc = p, !.user = v, !.conv = c]]
  BY DEF Ask
<1> PICK h : h = [Idle EXCEPT !.pc = p, !.user = v, !.conv = c]
  OBVIOUS
<1>1. h \in TurnType /\ h.pc = p /\ h.user = v /\ h.conv = c
  BY DEF TurnType, Idle
<1>2. turn'[t] = h /\ (\A s \in Turns \ {t} : turn'[s] = turn[s])
      /\ turn' \in [Turns -> TurnType]
  BY <1>0, <1>1 DEF TypeOK
<1>3. tokens[v] >= 1 /\ active < MaxConcurrent /\ active' = active + 1
      /\ tokens' = [tokens EXCEPT ![v] = @ - 1]
      /\ UNCHANGED <<refilled, owner, visible, calls, missing>>
  BY DEF Ask, MayAsk, GateOpen, acquire, books
<1>4. active' \in 0..MaxConcurrent
  BY <1>0, <1>3, ChatAssumption DEF TypeOK
<1>5. tokens' \in [Users -> 0..PerMinute] /\ tokens'[v] = tokens[v] - 1
      /\ \A u \in Users \ {v} : tokens'[u] = tokens[u]
  <2>1. tokens[v] - 1 \in 0..PerMinute
    BY <1>0, <1>3, ChatAssumption DEF TypeOK
  <2> QED BY <1>0, <1>3, <2>1 DEF TypeOK
<1>6. TypeOK'
  BY <1>0, <1>2, <1>3, <1>4, <1>5 DEF TypeOK
<1>7. GateCountsTurns'
  <2>1. t \notin Inside /\ Inside' = Inside \cup {t}
    BY <1>0, <1>1, <1>2 DEF Inside
  <2>2. Cardinality(Inside') = Cardinality(Inside) + 1
    BY <2>1, Finite, FS_AddElement
  <2> QED BY <1>3, <2>2 DEF IInv, GateCountsTurns
<1>8. ASSUME NEW u \in Users PROVE Paid(u)'
  <2>1. Paid(u)
    BY DEF IInv
  <2>2. calls[u] \in Nat /\ tokens[u] \in Int /\ refilled[u] \in Nat /\ PerMinute \in Nat
    BY <1>0, ChatAssumption DEF TypeOK
  <2>3. calls'[u] = calls[u] /\ refilled'[u] = refilled[u] /\ tokens'[u] \in Int
    BY <1>3, <1>5
  <2>4. CASE u = v
    <3>1. t \notin Pending(u) /\ Pending(u)' = Pending(u) \cup {t}
      BY <1>0, <1>1, <1>2, <2>4 DEF Pending
    <3>2. Cardinality(Pending(u)') = Cardinality(Pending(u)) + 1
      BY <3>1, Finite, FS_AddElement
    <3>3. tokens'[u] = tokens[u] - 1
      BY <1>5, <2>4
    <3> QED BY <2>1, <2>2, <2>3, <3>2, <3>3, Finite DEF Paid
  <2>5. CASE u # v
    <3>1. Pending(u)' = Pending(u)
      BY <1>0, <1>1, <1>2, <2>5 DEF Pending
    <3>2. tokens'[u] = tokens[u]
      BY <1>5, <2>5
    <3> QED BY <2>1, <2>3, <3>1, <3>2 DEF Paid
  <2> QED BY <2>4, <2>5
<1>9. ASSUME NEW s \in Turns PROVE TurnOK(turn[s], owner)'
  <2>1. TurnOK(turn[s], owner)
    BY DEF IInv
  <2>2. CASE s = t
    <3>1. turn'[s] = h
      BY <1>2, <2>2
    <3> QED BY <1>1, <3>1 DEF TurnOK
  <2>3. CASE s # t
    BY <1>2, <1>3, <2>1, <2>3 DEF TurnOK
  <2> QED BY <2>2, <2>3
<1>10. CallsBooked'
  BY <1>3 DEF IInv, CallsBooked
<1> QED BY <1>6, <1>7, <1>8, <1>9, <1>10 DEF IInv

\* A bucket may lose a token for nothing, and gain one that is counted.
LEMMA BucketStep ==
  ASSUME IInv, NEW v \in Users, TurnAway(v) \/ Refill(v)
  PROVE  IInv'
<1>0. TypeOK
  BY DEF IInv
<1>1. UNCHANGED <<active, turn, owner, visible, calls, missing>>
  BY DEF TurnAway, Refill, books
<1>2. \/ tokens' = [tokens EXCEPT ![v] = tokens[v] - 1] /\ tokens[v] >= 1
         /\ refilled' = refilled
      \/ tokens' = [tokens EXCEPT ![v] = tokens[v] + 1] /\ tokens[v] < PerMinute
         /\ refilled' = [refilled EXCEPT ![v] = refilled[v] + 1]
  BY DEF TurnAway, Refill, MayAsk, acquire, Plus
<1>3. tokens[v] \in 0..PerMinute /\ refilled[v] \in Nat /\ PerMinute \in Nat
  BY <1>0, ChatAssumption DEF TypeOK
<1>4. tokens' \in [Users -> 0..PerMinute] /\ refilled' \in [Users -> Nat]
  BY <1>0, <1>2, <1>3 DEF TypeOK
<1>5. TypeOK'
  BY <1>0, <1>1, <1>4 DEF TypeOK
<1>6. Inside' = Inside /\ \A u : Pending(u)' = Pending(u)
  BY <1>1 DEF Inside, Pending
<1>7. GateCountsTurns' /\ CallsBooked'
  BY <1>1, <1>6 DEF IInv, GateCountsTurns, CallsBooked
<1>8. ASSUME NEW u \in Users PROVE Paid(u)'
  <2>1. Paid(u) /\ calls[u] \in Nat /\ tokens[u] \in Int /\ refilled[u] \in Nat
    BY <1>0 DEF IInv, TypeOK
  <2>2. CASE u = v
    <3>1. /\ tokens'[u] \in Int /\ refilled'[u] \in Int
          /\ tokens'[u] - refilled'[u] <= tokens[u] - refilled[u]
      BY <1>0, <1>2, <1>3, <2>2 DEF TypeOK
    <3> QED BY <1>1, <1>3, <1>6, <2>1, <3>1, Finite DEF Paid
  <2>3. CASE u # v
    <3>1. tokens'[u] = tokens[u] /\ refilled'[u] = refilled[u]
      BY <1>0, <1>2, <2>3 DEF TypeOK
    <3> QED BY <1>1, <1>6, <2>1, <3>1 DEF Paid
  <2> QED BY <2>2, <2>3
<1>9. \A s \in Turns : TurnOK(turn[s], owner)'
  BY <1>1 DEF IInv, TurnOK
<1> QED BY <1>5, <1>7, <1>8, <1>9 DEF IInv

\* The turns stay, or are only excused; limits and books stay.
LEMMA BesideOn ==
  ASSUME IInv, UNCHANGED <<limits, books>>,
         turn' \in [Turns -> TurnType],
         \A s \in Turns : /\ turn'[s].pc = turn[s].pc
                          /\ turn'[s].user = turn[s].user
                          /\ TurnOK(turn'[s], owner'),
         owner' \in [Conversations -> Users \cup {NoUser}],
         visible' \in [Users -> SUBSET Resources]
  PROVE  IInv'
<1>1. TypeOK'
  BY DEF IInv, TypeOK, limits, books
<1>2. Inside' = Inside /\ \A u : Pending(u)' = Pending(u)
  BY DEF Inside, Pending
<1>3. GateCountsTurns' /\ CallsBooked'
  BY <1>2 DEF IInv, GateCountsTurns, CallsBooked, limits, books
<1>4. \A u \in Users : Paid(u)'
  BY <1>2 DEF IInv, Paid, limits, books
<1> QED BY <1>1, <1>3, <1>4 DEF IInv

LEMMA CreateConversationStep ==
  ASSUME IInv, NEW v \in Users, NEW c \in Conversations, CreateConversation(v, c)
  PROVE  IInv'
<1>0. TypeOK /\ (\A s \in Turns : TurnOK(turn[s], owner))
  BY DEF IInv
<1>1. owner' \in [Conversations -> Users \cup {NoUser}]
      /\ \A d : owner'[d] = NoUser /\ d \in Conversations => owner[d] = NoUser
  BY <1>0, ChatAssumption DEF TypeOK, CreateConversation
<1>2. turn' = turn /\ visible' = visible /\ UNCHANGED <<limits, books>>
  BY DEF CreateConversation
<1>3. ASSUME NEW s \in Turns PROVE TurnOK(turn'[s], owner')
  BY <1>0, <1>1, <1>2 DEF TurnOK
<1> QED BY <1>0, <1>1, <1>2, <1>3, BesideOn DEF TypeOK

\* The conversation goes, and every turn in it is excused.
LEMMA DeleteConversationStep ==
  ASSUME IInv, NEW v \in Users, NEW c \in Conversations, DeleteConversation(v, c)
  PROVE  IInv'
<1>0. TypeOK /\ (\A s \in Turns : TurnOK(turn[s], owner))
  BY DEF IInv
<1>1. owner' \in [Conversations -> Users \cup {NoUser}]
      /\ \A d \in Conversations \ {c} : owner'[d] = owner[d]
  BY <1>0 DEF TypeOK, DeleteConversation
<1>2. ASSUME NEW s \in Turns
      PROVE  /\ turn'[s] \in TurnType /\ turn'[s].pc = turn[s].pc
             /\ turn'[s].user = turn[s].user /\ turn'[s].conv = turn[s].conv
             /\ (turn[s].excused \/ turn[s].conv = c => turn'[s].excused)
  <2>1. turn[s] \in TurnType
    BY <1>0 DEF TypeOK
  <2>2. turn'[s] = IF turn[s].conv = c THEN [turn[s] EXCEPT !.excused = TRUE] ELSE turn[s]
    BY DEF DeleteConversation
  <2>3. CASE turn[s].conv = c
    <3> PICK h : h = [turn[s] EXCEPT !.excused = TRUE]
      OBVIOUS
    <3>1. /\ h \in TurnType /\ h.pc = turn[s].pc /\ h.user = turn[s].user
          /\ h.conv = turn[s].conv /\ h.excused
      BY <2>1 DEF TurnType
    <3>2. turn'[s] = h
      BY <2>2, <2>3
    <3> QED BY <3>1, <3>2
  <2>4. CASE turn[s].conv # c
    <3>1. turn'[s] = turn[s]
      BY <2>2, <2>4
    <3> QED BY <2>1, <2>4, <3>1
  <2> QED BY <2>3, <2>4
<1>3. ASSUME NEW s \in Turns PROVE TurnOK(turn'[s], owner')
  BY <1>0, <1>1, <1>2 DEF TurnOK
<1>4. turn' \in [Turns -> TurnType]
  <2>1. turn' = [s \in Turns |-> turn'[s]]
    BY DEF DeleteConversation
  <2> QED BY <1>2, <2>1
<1>5. visible' \in [Users -> SUBSET Resources] /\ UNCHANGED <<limits, books>>
  BY <1>0 DEF TypeOK, DeleteConversation
<1> QED BY <1>1, <1>2, <1>3, <1>4, <1>5, BesideOn

LEMMA RevealStep ==
  ASSUME IInv, NEW v \in Users, NEW r \in Resources, Reveal(v, r)
  PROVE  IInv'
<1>0. TypeOK /\ (\A s \in Turns : TurnOK(turn[s], owner))
  BY DEF IInv
<1>1. visible' \in [Users -> SUBSET Resources]
  BY <1>0 DEF TypeOK, Reveal
<1>2. turn' = turn /\ owner' = owner /\ UNCHANGED <<limits, books>>
  BY DEF Reveal
<1> QED BY <1>0, <1>1, <1>2, BesideOn DEF TypeOK

\* Nobody is inside and nothing is owed.
LEMMA AllIdle ==
  ASSUME turn = [t \in Turns |-> Idle], active = 0,
         tokens = [u \in Users |-> PerMinute],
         calls = [u \in Users |-> 0], refilled = [u \in Users |-> 0],
         missing = [u \in Users |-> 0],
         owner \in [Conversations -> Users \cup {NoUser}],
         visible \in [Users -> SUBSET Resources]
  PROVE  IInv
<1>1. turn \in [Turns -> TurnType]
  BY DEF TurnType, Idle
<1>2. TypeOK
  BY <1>1, ChatAssumption DEF TypeOK
<1>3. Inside = {} /\ \A u : Pending(u) = {}
  BY DEF Inside, Pending, Idle
<1>4. GateCountsTurns
  BY <1>3, FS_EmptySet DEF GateCountsTurns
<1>5. \A u \in Users : Paid(u)
  BY <1>3, FS_EmptySet, ChatAssumption DEF Paid
<1>6. (\A t \in Turns : TurnOK(turn[t], owner)) /\ CallsBooked
  BY DEF TurnOK, Idle, CallsBooked
<1> QED BY <1>2, <1>4, <1>5, <1>6 DEF IInv

LEMMA InitIInv == Init => IInv
<1> HAVE Init
<1> QED BY AllIdle DEF Init

LEMMA RestartStep ==
  ASSUME IInv, Restart
  PROVE  IInv'
<1>1. owner' \in [Conversations -> Users \cup {NoUser}]
      /\ visible' \in [Users -> SUBSET Resources]
  BY DEF IInv, TypeOK, Restart
<1>2. turn' \in [Turns -> TurnType]
  BY DEF TurnType, Idle, Restart
<1>3. TypeOK'
  BY <1>1, <1>2, ChatAssumption DEF TypeOK, Restart
<1>4. Inside' = {} /\ \A u : Pending(u)' = {}
  BY DEF Inside, Pending, Idle, Restart
<1>5. GateCountsTurns'
  BY <1>4, FS_EmptySet DEF GateCountsTurns, Restart
<1>6. \A u \in Users : Paid(u)'
  BY <1>4, FS_EmptySet, ChatAssumption DEF Paid, Restart
<1>7. (\A t \in Turns : TurnOK(turn[t], owner)') /\ CallsBooked'
  BY DEF TurnOK, Idle, CallsBooked, Restart
<1> QED BY <1>3, <1>5, <1>6, <1>7 DEF IInv

-----------------------------------------------------------------------------
(* The theorems. *)

LEMMA Step == IInv /\ [Next]_vars => IInv'
<1> SUFFICES ASSUME IInv, [Next]_vars PROVE IInv'
  OBVIOUS
<1>1. ASSUME NEW t \in Turns, NEW u \in Users, NEW c \in Conversations, Ask(t, u, c)
      PROVE  IInv'
  BY <1>1, AskStep
<1>2. ASSUME NEW t \in Turns, Proceed(t) PROVE IInv'
  <2>1. CASE FinishTurn(t)
    BY <2>1, LeavesOff DEF FinishTurn
  <2> QED BY <1>2, <2>1, CreateOwnStep, RequireOwnStep, RetrieveStep, RecheckStep,
             AddQuestionStep, CallStep, AnswerStep, ProviderFailsStep, StoreAnswerStep
          DEF Proceed
<1>3. ASSUME NEW t \in Turns, Abort(t) PROVE IInv'
  BY <1>3, LeavesOff DEF Abort
<1>4. ASSUME NEW u \in Users, TurnAway(u) \/ Refill(u) PROVE IInv'
  BY <1>4, BucketStep
<1>5. ASSUME NEW u \in Users, NEW c \in Conversations,
             CreateConversation(u, c) \/ DeleteConversation(u, c)
      PROVE  IInv'
  BY <1>5, CreateConversationStep, DeleteConversationStep
<1>6. ASSUME NEW u \in Users, NEW r \in Resources, Reveal(u, r) PROVE IInv'
  BY <1>6, RevealStep
<1>7. CASE Restart
  BY <1>7, RestartStep
<1>8. CASE UNCHANGED vars
  <2>1. Inside' = Inside /\ \A u : Pending(u)' = Pending(u)
    BY <1>8 DEF vars, Inside, Pending
  <2> QED BY <1>8, <2>1 DEF vars, IInv, TypeOK, GateCountsTurns, Paid, TurnOK, CallsBooked
<1> QED BY <1>1, <1>2, <1>3, <1>4, <1>5, <1>6, <1>7, <1>8 DEF Next, Surroundings

LEMMA Inductive == Spec => []IInv
<1>1. Init => IInv
  BY InitIInv
<1>2. IInv /\ [Next]_vars => IInv'
  BY Step
<1> QED BY <1>1, <1>2, PTL DEF Spec

\* Every variable keeps its type, and no bucket is overdrawn or overfull.
THEOREM ChatTypeCorrect == Spec => []TypeOK
<1>1. IInv => TypeOK
  BY DEF IInv
<1> QED BY <1>1, Inductive, PTL

\* acquireRelease: the gate counts exactly the turns inside, however each ends.
THEOREM GateIsExact == Spec => []GateCountsTurns
<1>1. IInv => GateCountsTurns
  BY DEF IInv
<1> QED BY <1>1, Inductive, PTL

\* ai-rate-limit: no call of the model without a token that was there to be spent.
THEOREM QuotaKept == Spec => []CallsPaidFor
<1>1. IInv => CallsPaidFor
  <2> SUFFICES ASSUME IInv, NEW u \in Users
               PROVE  calls[u] + Cardinality(Pending(u)) <= PerMinute + refilled[u]
    BY DEF CallsPaidFor
  <2>1. Paid(u) /\ calls[u] \in Nat /\ tokens[u] \in 0..PerMinute /\ refilled[u] \in Nat
    BY DEF IInv, TypeOK
  <2> QED BY <2>1, Finite, ChatAssumption DEF Paid
<1> QED BY <1>1, Inductive, PTL

\* finishTurn: a call that is over without its row has one of the excuses named.
THEOREM CallsAreBooked == Spec => []CallsBooked
<1>1. IInv => CallsBooked
  BY DEF IInv
<1> QED BY <1>1, Inductive, PTL
=============================================================================
