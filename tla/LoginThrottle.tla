------------------------------ MODULE LoginThrottle ------------------------------
(***************************************************************************)
(* The throttle on failed logins (V2/server/auth/login-throttle.ts): one   *)
(* token bucket per client address, in the memory of the one process.      *)
(*                                                                         *)
(* An attempt is let in when its bucket holds a whole token; it is charged *)
(* when its response ends, and only for a 4xx answer.  Password checks     *)
(* take their time, so any number of attempts of one address are under way *)
(* between the two.                                                        *)
(*                                                                         *)
(* Time runs in ticks.  A bucket gains a token in Unit ticks, so tokens    *)
(* are counted in ticks as well: Unit of them are a token.  The code       *)
(* refills a bucket when it looks at it, by the time gone since; crediting *)
(* each tick at once comes to the same.                                    *)
(*                                                                         *)
(* The code keeps the bucket as a floating-point number, and a refill      *)
(* rounds: what should be a whole token may be 0.9999999999999999.  The    *)
(* errors, of about 1E-16 a look, stay far below a tick, so beside the     *)
(* ticks it is enough to know on which side of them the number lies        *)
(* (side).  A look after time has gone may find any side; a full bucket is *)
(* cut off at its capacity, and a charge of 1 is exact.                    *)
(***************************************************************************)
EXTENDS Integers, FiniteSets

CONSTANTS
  Keys,      \* client addresses
  Attempts,  \* slots for login requests in flight
  Burst,     \* the tokens a bucket can hold
  Unit,      \* ticks it takes to gain one
  Second,    \* ticks in a second, the unit of Retry-After
  MaxTicks,  \* bound on the ticks of a behaviour
  NoKey      \* "no address"

ASSUME ThrottleAssumption ==
  /\ Burst \in Nat \ {0} /\ Unit \in Nat \ {0} /\ Second \in Nat \ {0}
  /\ MaxTicks \in Nat
  /\ NoKey \notin Keys

VARIABLES
  tokens,   \* tokens[k]: what the bucket of k holds; full when k has none
  side,     \* side[k]: where the number the code keeps lies: "below", "exact" or
            \* "above" those ticks, or "due" to be computed at the next look
  attempt,  \* attempt[a]: the address slot a works for, and whether no other
            \* attempt of that address was under way when it was let in
  told,     \* history: k has been told when to come back, and nothing failed since
  wait,     \* history: the ticks that are left of what k was told
  vain,     \* history: how often k has come back after the time it was told and
            \* been told again (up to 2), since told
  spent,    \* history: what the failures of k's lone attempts cost, in ticks,
            \* since its bucket was last forgotten
  credited, \* history: what the bucket gained since then
  now

buckets == <<tokens, side, told, wait, vain, spent, credited>>
vars == <<tokens, side, attempt, told, wait, vain, spent, credited, now>>

Capacity == Burst * Unit

Idle == [key |-> NoKey, lone |-> FALSE]
InFlight(k) == {a \in Attempts : attempt[a].key = k}

-----------------------------------------------------------------------------
(* The bucket. *)

Sides == {"below", "exact", "above"}

\* refill, at a look: the sides on which the number may come out.
Refilled(k) ==
  {s \in Sides : /\ side[k] # "due" => s = side[k]
                 /\ s = "above" => tokens[k] < Capacity}

\* check: bucket.tokens >= 1, when the number lies on side s.
MayTry_Any(k, s) == tokens[k] > 0
MayTry(k, s) == tokens[k] > Unit \/ (tokens[k] = Unit /\ s # "below")

\* recordFailure: Math.max(0, bucket.tokens - 1), and the side it leaves.
charge_Unchecked(n) == n - Unit
charge(n) == IF n >= Unit THEN n - Unit ELSE 0
chargedSide(k, s) == IF MayTry(k, s) THEN s ELSE "exact"

\* The seconds of Retry-After, Math.max(1, Math.ceil(waitMs / 1000)), for n ticks to
\* wait: the next whole second, and when n is one the quotient of two rounded
\* numbers may lie above it.
RetryAfter_Floor(n) == {s \in 0 .. n + Second : s % Second = 0 /\ s >= Second
                                             /\ (s <= n \/ s = Second)}
RetryAfter(n) == {s \in n .. n + Second : s % Second = 0 /\ s >= Second}

\* No bucket: as good as a full one.
Forget(k) ==
  /\ tokens' = [tokens EXCEPT ![k] = Capacity]
  /\ side' = [side EXCEPT ![k] = "exact"]
  /\ told' = [told EXCEPT ![k] = FALSE]
  /\ wait' = [wait EXCEPT ![k] = 0]
  /\ vain' = [vain EXCEPT ![k] = 0]
  /\ spent' = [spent EXCEPT ![k] = 0]
  /\ credited' = [credited EXCEPT ![k] = 0]

-----------------------------------------------------------------------------
(* The middleware. *)

\* next(): the attempt goes on to AuthService.login.
LetIn(a, k) ==
  \E s \in Refilled(k) :
    /\ attempt[a] = Idle
    /\ MayTry(k, s)
    /\ side' = [side EXCEPT ![k] = s]
    /\ attempt' = [attempt EXCEPT ![a] = [key |-> k, lone |-> InFlight(k) = {}]]
    /\ UNCHANGED <<tokens, told, wait, vain, spent, credited, now>>

\* 429, with the time after which a token will be there.
TurnAway(k) ==
  \E s \in Refilled(k) :
    /\ ~MayTry(k, s)
    /\ side' = [side EXCEPT ![k] = s]
    /\ told' = [told EXCEPT ![k] = TRUE]
    /\ \E w \in RetryAfter(Unit - tokens[k]) : wait' = [wait EXCEPT ![k] = w]
    /\ vain' = [vain EXCEPT ![k] = IF told[k] /\ wait[k] = 0 /\ @ < 2 THEN @ + 1 ELSE @]
    /\ UNCHANGED <<tokens, attempt, spent, credited, now>>

\* 'finish' with a 4xx status.
EndFailed(a) ==
  LET k == attempt[a].key IN
  /\ attempt[a] # Idle
  /\ \E s \in Refilled(k) :
       /\ tokens' = [tokens EXCEPT ![k] = charge(tokens[k])]
       /\ side' = [side EXCEPT ![k] = chargedSide(k, s)]
       /\ spent' = [spent EXCEPT ![k] = IF attempt[a].lone THEN @ + Unit ELSE @]
       /\ told' = [told EXCEPT ![k] = FALSE]
       /\ vain' = [vain EXCEPT ![k] = 0]
       /\ attempt' = [attempt EXCEPT ![a] = Idle]
       /\ UNCHANGED <<wait, credited, now>>

\* 'finish' with a 2xx status: recordSuccess.
EndSignedIn(a) ==
  /\ attempt[a] # Idle
  /\ Forget(attempt[a].key)
  /\ attempt' = [attempt EXCEPT ![a] = Idle]
  /\ UNCHANGED now

\* A 5xx answer, or no 'finish' at all because the client has gone.
EndUncounted(a) ==
  /\ attempt[a] # Idle
  /\ attempt' = [attempt EXCEPT ![a] = Idle]
  /\ UNCHANGED <<buckets, now>>

\* A tick: every bucket that is not full gains, one that is gets cut off at its
\* capacity; waits run down.
Tick ==
  /\ now < MaxTicks
  /\ now' = now + 1
  /\ tokens' = [k \in Keys |-> IF tokens[k] < Capacity THEN tokens[k] + 1 ELSE tokens[k]]
  /\ side' = [k \in Keys |-> IF tokens[k] < Capacity THEN "due" ELSE "exact"]
  /\ credited' = [k \in Keys |-> IF tokens[k] < Capacity THEN credited[k] + 1 ELSE credited[k]]
  /\ wait' = [k \in Keys |-> IF wait[k] > 0 THEN wait[k] - 1 ELSE 0]
  /\ UNCHANGED <<attempt, told, vain, spent>>

\* The process dies: its Map and the requests it served are gone.
Restart ==
  /\ tokens' = [k \in Keys |-> Capacity]
  /\ side' = [k \in Keys |-> "exact"]
  /\ attempt' = [a \in Attempts |-> Idle]
  /\ told' = [k \in Keys |-> FALSE]
  /\ wait' = [k \in Keys |-> 0]
  /\ vain' = [k \in Keys |-> 0]
  /\ spent' = [k \in Keys |-> 0]
  /\ credited' = [k \in Keys |-> 0]
  /\ UNCHANGED now

Init ==
  /\ tokens = [k \in Keys |-> Capacity]
  /\ side = [k \in Keys |-> "exact"]
  /\ attempt = [a \in Attempts |-> Idle]
  /\ told = [k \in Keys |-> FALSE]
  /\ wait = [k \in Keys |-> 0]
  /\ vain = [k \in Keys |-> 0]
  /\ spent = [k \in Keys |-> 0]
  /\ credited = [k \in Keys |-> 0]
  /\ now = 0

Next ==
  \/ \E k \in Keys : TurnAway(k) \/ \E a \in Attempts : LetIn(a, k)
  \/ \E a \in Attempts : EndFailed(a) \/ EndSignedIn(a) \/ EndUncounted(a)
  \/ Tick
  \/ Restart

Spec == Init /\ [][Next]_vars

-----------------------------------------------------------------------------
(* Properties. *)

\* Every variable has its type; a bucket holds between nothing and Burst tokens.
TypeOK ==
  /\ tokens \in [Keys -> 0..Capacity]
  /\ attempt \in [Attempts -> [key : Keys \cup {NoKey}, lone : BOOLEAN]]
  /\ told \in [Keys -> BOOLEAN]
  /\ side \in [Keys -> Sides \cup {"due"}]
  /\ wait \in [Keys -> Nat]
  /\ vain \in [Keys -> 0..2]
  /\ spent \in [Keys -> Nat]
  /\ credited \in [Keys -> Nat]
  /\ now \in 0..MaxTicks

\* Somebody who waits for each answer before the next try is told of at most
\* Burst failures and one more for each token gained since, whatever attempts of
\* the same address overlap with theirs and take tokens in between.  (Attempts
\* let in while another is under way are not in the count: the bucket pays for
\* them only as far as it reaches, as the charge comes after the check.)
FailuresBounded == \A k \in Keys : spent[k] <= Capacity + credited[k]

\* The time told is long enough for a whole token to be due, and at most a second
\* longer.  Who comes back then may all the same be turned away, as the number in
\* the bucket may fall short of the token by its rounding, but only once and to be
\* told of one more second: a second time the Retry-After is never obeyed in vain,
\* unless an attempt under way has failed meanwhile.
RetryAfterKept ==
  \A k \in Keys :
    told[k] =>
      /\ wait[k] = 0 => tokens[k] >= Unit
      /\ tokens[k] < Unit => wait[k] <= Unit - tokens[k] + Second
      /\ vain[k] <= 1
      /\ vain[k] = 1 => wait[k] <= Second

\* What the tests say of a refill period: once it is over, the token is there.  Then
\* nobody who comes back when told is turned away again.  (Violated: a look at the
\* bucket half way makes the refill a sum of two rounded ones.)
RetryAfterLetsIn == \A k \in Keys : vain[k] = 0
=============================================================================
