--------------------------- MODULE LoginThrottleProofs ---------------------------
(***************************************************************************)
(* The properties of LoginThrottle for any addresses, attempts in flight,  *)
(* rates and capacities.                                                   *)
(*                                                                         *)
(* FailuresBounded is about what is over, while a lone attempt in flight   *)
(* has yet to be charged and overlapping ones may take its token.  So the  *)
(* invariant adds two facts: what lone failures cost is covered by what    *)
(* the bucket has lost (Covered), and for a lone attempt in flight a token *)
(* is left over in that account, whatever the bucket holds by now          *)
(* (Reserved).                                                             *)
(*                                                                         *)
(* RetryAfterKept rests on what rounding can do to a token: it can hide it *)
(* at the very tick it is due and, once the next tick has gone, no longer  *)
(* (Late).                                                                 *)
(***************************************************************************)
EXTENDS LoginThrottle, TLAPS

Covered(k) == spent[k] <= Capacity + credited[k] - tokens[k]

Reserved(k) ==
  \A a \in Attempts :
    attempt[a].key = k /\ attempt[a].lone => spent[k] + Unit <= Capacity + credited[k]

\* Of the attempts of an address in flight at most one was let in alone.
OneLone ==
  \A a, b \in Attempts :
    attempt[a].key # NoKey /\ attempt[a].key = attempt[b].key
    /\ attempt[a].lone /\ attempt[b].lone => a = b

\* What was told still fits: the bucket and the wait together reach a token, and
\* the wait is at most a second too long.
Fits(k) ==
  told[k] => /\ tokens[k] + wait[k] >= Unit
             /\ tokens[k] < Unit => wait[k] <= Unit - tokens[k] + Second

\* After a return in vain the token is due, and visible once the second told then
\* has begun to run.
Late(k) ==
  /\ ~told[k] => vain[k] = 0
  /\ vain[k] <= 1
  /\ vain[k] = 1 =>
       /\ tokens[k] >= Unit /\ wait[k] <= Second
       /\ \/ wait[k] = Second
          \/ tokens[k] > Unit
          \/ Capacity = Unit /\ side[k] = "exact"

Kept(k) == Fits(k) /\ Late(k)

IInv ==
  /\ TypeOK
  /\ OneLone
  /\ \A k \in Keys : Covered(k) /\ Reserved(k) /\ Kept(k)

-----------------------------------------------------------------------------
(* Arithmetic. *)

LEMMA CapacityHolds == Capacity \in Nat /\ Capacity >= Unit
BY ThrottleAssumption DEF Capacity

LEMMA ChargeHolds ==
  ASSUME NEW n \in 0..Capacity
  PROVE  /\ charge(n) \in 0..Capacity /\ charge(n) <= n
         /\ charge(n) = 0 \/ charge(n) = n - Unit
BY ThrottleAssumption, CapacityHolds DEF charge

\* Rounding up to seconds reaches the wait and overshoots by a second at most.
LEMMA RetryAfterRounds ==
  ASSUME NEW n \in Nat, NEW w \in RetryAfter(n)
  PROVE  w \in Nat /\ w >= n /\ w <= n + Second
BY ThrottleAssumption DEF RetryAfter

\* Bounded on both sides: equal.
LEMMA AtMost ==
  ASSUME NEW x \in Int, NEW y \in Int, x <= y, x >= y
  PROVE  x = y
OBVIOUS

\* Nothing to wait for is announced as one second.
LEMMA RetryAfterOfNothing ==
  ASSUME NEW w \in RetryAfter(0)
  PROVE  w = Second
BY ThrottleAssumption DEF RetryAfter

-----------------------------------------------------------------------------
(* The invariant. *)

LEMMA InitIInv == Init => IInv
<1> SUFFICES ASSUME Init PROVE IInv
  OBVIOUS
<1> USE CapacityHolds, ThrottleAssumption DEF Init, Idle
<1>1. TypeOK
  BY DEF TypeOK, Sides
<1>2. OneLone
  BY DEF OneLone
<1>3. ASSUME NEW k \in Keys PROVE Covered(k) /\ Reserved(k) /\ Kept(k)
  BY DEF Covered, Reserved, Kept, Fits, Late
<1> QED BY <1>1, <1>2, <1>3 DEF IInv

LEMMA LetInKeeps ==
  ASSUME IInv, NEW a \in Attempts, NEW k \in Keys, LetIn(a, k) PROVE IInv'
<1> USE CapacityHolds, ThrottleAssumption DEF IInv, TypeOK
<1> DEFINE new == [key |-> k, lone |-> InFlight(k) = {}]
<1>0. PICK s \in Refilled(k) :
        /\ attempt' = [attempt EXCEPT ![a] = new]
        /\ MayTry(k, s) /\ side' = [side EXCEPT ![k] = s]
        /\ UNCHANGED <<tokens, told, wait, vain, spent, credited, now>>
  BY DEF LetIn
<1>1. /\ attempt' = [attempt EXCEPT ![a] = new]
      /\ tokens' = tokens /\ told' = told /\ wait' = wait /\ spent' = spent
      /\ credited' = credited /\ now' = now /\ vain' = vain
      /\ tokens[k] >= Unit
      /\ side' = [side EXCEPT ![k] = s] /\ s \in Sides
      /\ side[k] = "exact" => s = "exact"
  BY <1>0 DEF MayTry, Refilled
<1>2. attempt'[a] = new /\ \A b \in Attempts \ {a} : attempt'[b] = attempt[b]
  BY <1>1
<1>3. TypeOK'
  <2>1. new \in [key : Keys \cup {NoKey}, lone : BOOLEAN]
    OBVIOUS
  <2> QED BY <1>1, <2>1
<1>4. new.lone => \A b \in Attempts \ {a} : attempt'[b].key # k
  BY <1>2 DEF InFlight
<1>5. OneLone'
  BY <1>2, <1>4 DEF OneLone
<1>6. ASSUME NEW o \in Keys PROVE (Covered(o) /\ Reserved(o) /\ Kept(o))'
  <2>1. Covered(o)' /\ Kept(o)'
    <3>1. side[o] = "exact" => side'[o] = "exact"
      BY <1>1
    <3> QED BY <1>1, <3>1 DEF Covered, Kept, Fits, Late
  <2>2. ASSUME NEW b \in Attempts, attempt'[b].key = o, attempt'[b].lone
        PROVE  spent[o] + Unit <= Capacity + credited[o]
    <3>1. CASE b # a
      BY <1>2, <2>2, <3>1 DEF Reserved
    <3>2. CASE b = a
      <4>1. o = k
        BY <1>2, <2>2, <3>2
      <4> QED BY <1>1, <4>1 DEF Covered
    <3> QED BY <3>1, <3>2
  <2> QED BY <1>1, <2>1, <2>2 DEF Reserved
<1> QED BY <1>3, <1>5, <1>6

LEMMA TurnAwayKeeps ==
  ASSUME IInv, NEW k \in Keys, TurnAway(k) PROVE IInv'
<1> USE CapacityHolds, ThrottleAssumption DEF IInv, TypeOK
<1> DEFINE n == Unit - tokens[k]
      v == IF told[k] /\ wait[k] = 0 /\ vain[k] < 2 THEN vain[k] + 1 ELSE vain[k]
<1>0. PICK s \in Refilled(k), w \in RetryAfter(n) :
        /\ ~MayTry(k, s) /\ side' = [side EXCEPT ![k] = s]
        /\ told' = [told EXCEPT ![k] = TRUE] /\ wait' = [wait EXCEPT ![k] = w]
        /\ vain' = [vain EXCEPT ![k] = v]
        /\ UNCHANGED <<tokens, attempt, spent, credited, now>>
  BY DEF TurnAway
<1>1. /\ tokens' = tokens /\ attempt' = attempt /\ spent' = spent /\ credited' = credited
      /\ now' = now
      /\ told' = [told EXCEPT ![k] = TRUE] /\ wait' = [wait EXCEPT ![k] = w]
      /\ vain' = [vain EXCEPT ![k] = v]
      /\ side' = [side EXCEPT ![k] = s] /\ s \in Sides
      /\ side[k] = "exact" => s = "exact"
      /\ tokens[k] <= Unit /\ (tokens[k] = Unit => s = "below")
  BY <1>0 DEF MayTry, Refilled
<1>2. w \in Nat /\ w >= n /\ w <= n + Second /\ (tokens[k] = Unit => w = Second)
  <2>1. n \in Nat
    BY <1>1
  <2>2. tokens[k] = Unit => n = 0
    OBVIOUS
  <2> QED BY <2>1, <2>2, RetryAfterRounds, RetryAfterOfNothing
<1>3. TypeOK' /\ OneLone'
  <2>1. v \in 0..2
    OBVIOUS
  <2> HIDE DEF v
  <2> QED BY <1>1, <1>2, <2>1 DEF OneLone
<1>4. ASSUME NEW o \in Keys PROVE (Covered(o) /\ Reserved(o) /\ Kept(o))'
  <2>1. Covered(o)' /\ Reserved(o)'
    BY <1>1 DEF Covered, Reserved
  <2>2. CASE o = k
    <3>1. told'[k] /\ wait'[k] = w /\ tokens'[k] = tokens[k] /\ vain'[k] = v
      BY <1>1
    <3>2. Fits(k)'
      <4> HIDE DEF n
      <4>1. n = Unit - tokens[k]
        BY DEF n
      <4> QED BY <1>2, <3>1, <4>1 DEF Fits
    <3>5. /\ Fits(k) /\ Late(k) /\ tokens[k] \in Int /\ wait[k] \in Int
          /\ tokens[k] <= Unit /\ (tokens[k] = Unit => w = Second)
      BY <1>1, <1>2 DEF Kept
    <3>6. tokens[k] >= Unit => tokens[k] = Unit
      <4>1. PICK x \in Int, y \in Int : x = tokens[k] /\ y = Unit
        BY <3>5, ThrottleAssumption
      <4>2. x <= y
        BY <3>5, <4>1
      <4>3. x >= y => x = y
        BY <4>2, AtMost
      <4> QED BY <4>1, <4>3
    <3>3. CASE told[k] /\ wait[k] = 0
      <4>1. tokens[k] >= Unit
        BY <3>3, <3>5, ThrottleAssumption DEF Fits
      <4>3. tokens[k] = Unit /\ w = Second
        BY <3>5, <3>6, <4>1
      <4>2. vain[k] = 0
        <5>1. side[k] = "exact" => s = "exact"
          BY <1>1
        <5>2. s = "below"
          BY <1>1, <4>3
        <5> QED BY <3>3, <3>5, <4>3, <5>1, <5>2, ThrottleAssumption DEF Late
      <4> QED BY <2>1, <2>2, <3>1, <3>2, <3>3, <4>3, <4>2 DEF Kept, Late
    <3>4. CASE ~(told[k] /\ wait[k] = 0)
      <4>1. v = vain[k]
        BY <3>4
      <4>2. vain[k] = 1 => tokens[k] = Unit /\ w = Second
        <5>1. vain[k] = 1 => tokens[k] >= Unit
          BY <3>5 DEF Late
        <5> QED BY <3>5, <3>6, <5>1
      <4> QED BY <2>1, <2>2, <3>1, <3>2, <4>1, <4>2 DEF Kept, Late
    <3> QED BY <3>3, <3>4
  <2>3. CASE o # k
    <3>1. /\ told'[o] = told[o] /\ wait'[o] = wait[o] /\ tokens'[o] = tokens[o]
          /\ vain'[o] = vain[o] /\ side'[o] = side[o]
      BY <1>1, <2>3
    <3> QED BY <2>1, <3>1 DEF Kept, Fits, Late
  <2> QED BY <2>2, <2>3
<1> QED BY <1>3, <1>4

LEMMA EndFailedKeeps ==
  ASSUME IInv, NEW a \in Attempts, EndFailed(a),
         NEW k, k = attempt[a].key,
         NEW s, s = IF attempt[a].lone THEN spent[k] + Unit ELSE spent[k]
  PROVE  IInv'
<1> USE CapacityHolds, ThrottleAssumption DEF IInv, TypeOK
<1>0. PICK x \in Refilled(k) :
        /\ attempt' = [attempt EXCEPT ![a] = Idle]
        /\ tokens' = [tokens EXCEPT ![k] = charge(tokens[k])]
        /\ side' = [side EXCEPT ![k] = chargedSide(k, x)]
        /\ spent' = [spent EXCEPT ![k] = s]
        /\ told' = [told EXCEPT ![k] = FALSE]
        /\ vain' = [vain EXCEPT ![k] = 0]
        /\ UNCHANGED <<wait, credited, now>>
  BY DEF EndFailed
<1>1. /\ attempt' = [attempt EXCEPT ![a] = Idle]
      /\ tokens' = [tokens EXCEPT ![k] = charge(tokens[k])]
      /\ side' = [side EXCEPT ![k] = chargedSide(k, x)]
      /\ spent' = [spent EXCEPT ![k] = s]
      /\ told' = [told EXCEPT ![k] = FALSE]
      /\ vain' = [vain EXCEPT ![k] = 0]
      /\ wait' = wait /\ credited' = credited /\ now' = now
      /\ chargedSide(k, x) \in Sides
  BY <1>0 DEF chargedSide, Refilled, Sides
<1>2. attempt'[a] = Idle /\ \A b \in Attempts \ {a} : attempt'[b] = attempt[b]
  BY <1>1
<1>3. CASE k = NoKey
  <2>1. /\ tokens' = tokens /\ spent' = spent /\ told' = told
        /\ vain' = vain /\ side' = side
    BY <1>1, <1>3
  <2>2. TypeOK'
    BY <1>1, <2>1 DEF Idle
  <2>3. OneLone'
    BY <1>2 DEF OneLone, Idle
  <2>4. ASSUME NEW o \in Keys PROVE (Covered(o) /\ Reserved(o) /\ Kept(o))'
    <3>1. Covered(o)' /\ Kept(o)'
      BY <1>1, <2>1 DEF Covered, Kept, Fits, Late
    <3>2. Reserved(o)'
      BY <1>1, <1>2, <2>1 DEF Reserved, Idle
    <3> QED BY <3>1, <3>2
  <2> QED BY <2>2, <2>3, <2>4
<1>4. CASE k \in Keys
  <2>1. /\ charge(tokens[k]) \in 0..Capacity /\ charge(tokens[k]) <= tokens[k]
        /\ charge(tokens[k]) = 0 \/ charge(tokens[k]) = tokens[k] - Unit
    BY <1>4, ChargeHolds
  <2>2. s \in Nat
    BY <1>4
  <2>3. TypeOK'
    BY <1>1, <1>4, <2>1, <2>2 DEF Idle
  <2>4. OneLone'
    BY <1>2 DEF OneLone, Idle
  <2>5. ASSUME NEW o \in Keys \ {k} PROVE (Covered(o) /\ Reserved(o) /\ Kept(o))'
    <3>1. /\ tokens'[o] = tokens[o] /\ spent'[o] = spent[o] /\ told'[o] = told[o]
          /\ vain'[o] = vain[o] /\ side'[o] = side[o]
      BY <1>1, <2>5
    <3>2. Covered(o)' /\ Kept(o)'
      BY <1>1, <3>1 DEF Covered, Kept, Fits, Late
    <3>3. Reserved(o)'
      BY <1>1, <1>2, <3>1 DEF Reserved, Idle
    <3> QED BY <3>2, <3>3
  <2>6. (Covered(k) /\ Reserved(k) /\ Kept(k))'
    <3>1. /\ tokens'[k] = charge(tokens[k]) /\ spent'[k] = s /\ ~told'[k]
          /\ vain'[k] = 0
      BY <1>1, <1>4
    <3>2. CASE attempt[a].lone
      <4>1. s = spent[k] + Unit /\ spent[k] + Unit <= Capacity + credited[k]
        BY <1>4, <3>2 DEF Reserved
      <4>2. Covered(k)'
        <5>1. spent[k] <= Capacity + credited[k] - tokens[k]
          BY <1>4 DEF Covered
        <5>2. s <= Capacity + credited[k] - charge(tokens[k])
          BY <1>4, <2>1, <4>1, <5>1
        <5> QED BY <1>1, <3>1, <5>2 DEF Covered
      <4>3. ASSUME NEW b \in Attempts, attempt'[b].key = k, attempt'[b].lone PROVE FALSE
        BY <1>2, <1>4, <3>2, <4>3 DEF OneLone, Idle
      <4> QED BY <3>1, <4>2, <4>3 DEF Reserved, Kept, Fits, Late
    <3>3. CASE ~attempt[a].lone
      <4>1. s = spent[k]
        BY <3>3
      <4>2. Covered(k)'
        BY <1>1, <1>4, <2>1, <3>1, <4>1 DEF Covered
      <4>3. Reserved(k)'
        BY <1>1, <1>2, <1>4, <3>1, <4>1 DEF Reserved, Idle
      <4> QED BY <3>1, <4>2, <4>3 DEF Kept, Fits, Late
    <3> QED BY <3>2, <3>3
  <2> QED BY <2>3, <2>4, <2>5, <2>6
<1> QED BY <1>3, <1>4

LEMMA EndOtherwiseKeeps ==
  ASSUME IInv, NEW a \in Attempts, EndSignedIn(a) \/ EndUncounted(a) PROVE IInv'
<1> USE CapacityHolds, ThrottleAssumption DEF IInv, TypeOK
<1>1. /\ attempt' = [attempt EXCEPT ![a] = Idle] /\ now' = now
      /\ attempt'[a] = Idle /\ \A b \in Attempts \ {a} : attempt'[b] = attempt[b]
  BY DEF EndSignedIn, EndUncounted
<1>2. attempt' \in [Attempts -> [key : Keys \cup {NoKey}, lone : BOOLEAN]] /\ OneLone'
  BY <1>1 DEF OneLone, Idle
<1>3. CASE EndUncounted(a)
  <2>1. UNCHANGED buckets
    BY <1>3 DEF EndUncounted
  <2>2. ASSUME NEW o \in Keys PROVE (Covered(o) /\ Reserved(o) /\ Kept(o))'
    BY <1>1, <2>1 DEF Covered, Reserved, Kept, Fits, Late, buckets, Idle
  <2> QED BY <1>1, <1>2, <2>1, <2>2 DEF buckets
<1>4. CASE EndSignedIn(a)
  <2>1. PICK k : k = attempt[a].key
    OBVIOUS
  <2>2. Forget(k)
    BY <1>4, <2>1 DEF EndSignedIn
  <2>3. TypeOK'
    <3>1. told' \in [Keys -> BOOLEAN] /\ tokens' \in [Keys -> 0..Capacity]
      <4>1. Capacity \in 0..Capacity
        OBVIOUS
      <4>2. told' \in [Keys -> BOOLEAN]
        BY <2>2 DEF Forget
      <4> QED BY <2>2, <4>1, <4>2 DEF Forget
    <3>2. /\ wait' \in [Keys -> Nat] /\ vain' \in [Keys -> 0..2]
          /\ side' \in [Keys -> Sides \cup {"due"}]
      <4>1. 0 \in 0..2 /\ "exact" \in Sides \cup {"due"}
        BY DEF Sides
      <4> QED BY <2>2, <4>1 DEF Forget
    <3>3. spent' \in [Keys -> Nat] /\ credited' \in [Keys -> Nat]
      BY <2>2 DEF Forget
    <3> QED BY <1>1, <1>2, <3>1, <3>2, <3>3
  <2>4. ASSUME NEW o \in Keys PROVE (Covered(o) /\ Reserved(o) /\ Kept(o))'
    <3>1. CASE o = k
      <4>1. /\ tokens'[k] = Capacity /\ ~told'[k] /\ spent'[k] = 0 /\ credited'[k] = 0
            /\ vain'[k] = 0
        BY <2>2, <2>4, <3>1 DEF Forget
      <4> QED BY <3>1, <4>1 DEF Covered, Reserved, Kept, Fits, Late
    <3>2. CASE o # k
      <4>1. /\ tokens'[o] = tokens[o] /\ told'[o] = told[o] /\ spent'[o] = spent[o]
            /\ credited'[o] = credited[o] /\ wait'[o] = wait[o]
            /\ vain'[o] = vain[o] /\ side'[o] = side[o]
        BY <2>2, <3>2 DEF Forget
      <4> QED BY <1>1, <4>1 DEF Covered, Reserved, Kept, Fits, Late, Idle
    <3> QED BY <3>1, <3>2
  <2> QED BY <1>2, <2>3, <2>4
<1> QED BY <1>3, <1>4

LEMMA TickKeeps == ASSUME IInv, Tick PROVE IInv'
<1> USE CapacityHolds, ThrottleAssumption DEF IInv, TypeOK
<1>1. attempt' = attempt /\ told' = told /\ vain' = vain /\ spent' = spent /\ now' = now + 1 /\ now < MaxTicks
  BY DEF Tick
<1>2. ASSUME NEW k \in Keys
      PROVE  /\ wait'[k] = IF wait[k] > 0 THEN wait[k] - 1 ELSE 0
             /\ \/ /\ tokens[k] = Capacity
                   /\ tokens'[k] = tokens[k] /\ credited'[k] = credited[k]
                   /\ side'[k] = "exact"
                \/ /\ tokens[k] < Capacity
                   /\ tokens'[k] = tokens[k] + 1 /\ credited'[k] = credited[k] + 1
  <2> SUFFICES /\ wait'[k] = IF wait[k] > 0 THEN wait[k] - 1 ELSE 0
               /\ tokens'[k] = IF tokens[k] < Capacity THEN tokens[k] + 1 ELSE tokens[k]
               /\ credited'[k] = IF tokens[k] < Capacity THEN credited[k] + 1 ELSE credited[k]
               /\ side'[k] = IF tokens[k] < Capacity THEN "due" ELSE "exact"
    <3>1. tokens[k] \in Int /\ tokens[k] <= Capacity
      OBVIOUS
    <3> QED BY <3>1
  <2> QED BY DEF Tick
<1>3. TypeOK'
  <2>1. /\ tokens' \in [Keys -> 0..Capacity] /\ wait' \in [Keys -> Nat]
        /\ credited' \in [Keys -> Nat] /\ side' \in [Keys -> Sides \cup {"due"}]
    BY DEF Tick, Sides
  <2> QED BY <1>1, <2>1
<1>4. OneLone'
  BY <1>1 DEF OneLone
<1>5. ASSUME NEW k \in Keys PROVE (Covered(k) /\ Reserved(k) /\ Kept(k))'
  <2>1. Covered(k)'
    BY <1>1, <1>2 DEF Covered
  <2>2. Reserved(k)'
    <3>1. credited'[k] >= credited[k]
      BY <1>2
    <3>2. ASSUME NEW a \in Attempts, attempt[a].key = k, attempt[a].lone
          PROVE  spent[k] + Unit <= Capacity + credited'[k]
      <4>1. spent[k] + Unit <= Capacity + credited[k]
        BY <3>2 DEF Reserved
      <4>2. credited'[k] \in Nat
        BY <1>3
      <4> QED BY <3>1, <4>1, <4>2
    <3> QED BY <1>1, <3>2 DEF Reserved
  <2>3. Kept(k)'
    <3>1. Fits(k)'
      BY <1>1, <1>2 DEF Kept, Fits
    <3>2. Late(k)'
      <4>1. vain[k] = 1 =>
              /\ tokens'[k] >= Unit /\ wait'[k] <= Second
              /\ tokens'[k] > Unit \/ (Capacity = Unit /\ side'[k] = "exact")
        BY <1>2 DEF Kept, Late
      <4> QED BY <1>1, <4>1 DEF Kept, Late
    <3> QED BY <3>1, <3>2 DEF Kept
  <2> QED BY <2>1, <2>2, <2>3
<1> QED BY <1>3, <1>4, <1>5

LEMMA RestartKeeps == ASSUME IInv, Restart PROVE IInv'
<1> USE CapacityHolds, ThrottleAssumption DEF IInv, Restart, Idle
<1>1. TypeOK' /\ OneLone'
  BY DEF TypeOK, OneLone, Sides
<1>2. ASSUME NEW k \in Keys PROVE (Covered(k) /\ Reserved(k) /\ Kept(k))'
  BY DEF Covered, Reserved, Kept, Fits, Late
<1> QED BY <1>1, <1>2

LEMMA Inductive == Spec => []IInv
<1>1. IInv /\ [Next]_vars => IInv'
  <2> SUFFICES ASSUME IInv, [Next]_vars PROVE IInv'
    OBVIOUS
  <2>1. CASE UNCHANGED vars
    BY <2>1 DEF vars, buckets, IInv, TypeOK, OneLone, Covered, Reserved, Kept,
                    Fits, Late
  <2>2. CASE \E a \in Attempts : EndFailed(a)
    BY <2>2, EndFailedKeeps
  <2> QED BY <2>1, <2>2, LetInKeeps, TurnAwayKeeps, EndOtherwiseKeeps, TickKeeps, RestartKeeps
          DEF Next
<1> QED BY <1>1, InitIInv, PTL DEF Spec

-----------------------------------------------------------------------------
(* The theorems. *)

\* Every variable keeps its type, and a bucket is never overdrawn or overfull.
THEOREM ThrottleTypeCorrect == Spec => []TypeOK
<1>1. IInv => TypeOK
  BY DEF IInv
<1> QED BY <1>1, Inductive, PTL

\* One try after the other, a client is told of Burst failures and of one more
\* for each token gained, whatever overlaps.
THEOREM FailuresAreBounded == Spec => []FailuresBounded
<1>1. IInv => FailuresBounded
  BY CapacityHolds DEF IInv, TypeOK, Covered, FailuresBounded
<1> QED BY <1>1, Inductive, PTL

\* Retry-After is long enough for a token to be due and at most a second too long;
\* rounding makes one return be in vain, never a second one.
THEOREM RetryAfterIsKept == Spec => []RetryAfterKept
<1>1. IInv => RetryAfterKept
  BY CapacityHolds, ThrottleAssumption
     DEF IInv, TypeOK, Kept, Fits, Late, RetryAfterKept
<1> QED BY <1>1, Inductive, PTL
=============================================================================
