-------------------------------- MODULE Accounts --------------------------------
(***************************************************************************)
(* Accounts of the V2 server, their sessions and their grants              *)
(* (V2/server/users/users.service.ts, V2/server/auth/auth.service.ts,      *)
(* session.service.ts, V2/server/common/authz.guard.ts), with the operator *)
(* scripts that write the same tables (transfer-superadmin.mjs,            *)
(* bootstrap-admin.mjs, reset-user-password.mjs).                          *)
(*                                                                         *)
(* A handler awaits one statement after another and holds no lock in       *)
(* between, except inside the transaction that replaces the grants of an   *)
(* account: there it keeps the rows it has deleted or inserted locked      *)
(* until it commits, and each of its statements sees what was committed    *)
(* when that statement began (READ COMMITTED).                             *)
(*                                                                         *)
(* Names and usernames are left out: nothing but a unique index depends on *)
(* them.  A password is the number of times it was changed.                *)
(***************************************************************************)
EXTENDS Integers, FiniteSets

CONSTANTS
  Users,        \* account ids
  NoUser,
  Sessions,     \* bound: rows of sessions alive at a time
  Permissions,  \* what can be granted, with its directory
  Requests,     \* slots for handlers in flight
  Inputs,       \* bound: the bodies of a PATCH, as sets of Changes
  MaxPasswords, \* bound: passwords an account may have in its life
  StopAfterSlip \* bound: TRUE takes up no call once the exceptional has happened

Changes == {"ADMIN", "TEACHER", "active", "inactive", "password"}

ASSUME AccountsAssumption ==
  /\ NoUser \notin Users
  /\ IsFiniteSet(Users)
  /\ Inputs \subseteq SUBSET Changes
  /\ MaxPasswords \in Nat \ {0}
  /\ StopAfterSlip \in BOOLEAN

VARIABLES
  role,       \* role[u], or "none": u has no row
  active,     \* the accounts with status = 'active'
  password,   \* password[u]
  holder,     \* holder[s]: the account of session s, if s is alive
  proof,      \* proof[s]: the password verified when s was created
  grants,     \* grants[u]: committed rows of user_permissions
  pc,         \* pc[q]: the statement handler q issues next
  actor,      \* actor[q]: whose request it is
  user,       \* user[q]: the account it is about
  want,       \* want[q]: what it sets, or the grants it writes
  typed,      \* typed[q]: the password verified by q
  seen,       \* seen[q]: the rows of user_permissions q deletes
  overtaken,  \* history: handlers overtaken by a write to roles or statuses
  raced,      \* history: whether such a handler wrote
  lapsed,     \* history: sessions that stand on a password changed before
              \* their row was inserted
  neglected,  \* history: accounts whose revocation has failed
  given,      \* history: given[u]: the grants written last
  mixed       \* history: accounts whose grants were replaced by overlapping
              \* transactions

accounts == <<role, active>>
logins == <<password, holder, proof, lapsed, neglected>>
table == <<grants, given, mixed>>
races == <<overtaken, raced>>
vars == <<role, active, password, holder, proof, grants, pc, actor, user, want,
          typed, seen, overtaken, raced, lapsed, neglected, given, mixed>>

-----------------------------------------------------------------------------
Exists(u) == role[u] # "none"

Admins == {u \in Users : role[u] = "ADMIN" /\ u \in active}

\* assertSystemKeepsAnAdmin counts the others.
OtherAdmins_Everybody(u) == Admins
OtherAdmins(u) == Admins \ {u}

promotingToAdmin_Never(u, w) == FALSE
promotingToAdmin(u, w) == "ADMIN" \in w /\ role[u] # "ADMIN"
roleChanging(u, w) == \E r \in {"ADMIN", "TEACHER"} \cap w : r # role[u]
losingAdmin(u, w) == u \in Admins /\ ("TEACHER" \in w \/ "inactive" \in w)

\* Every change but that of a name takes the account's sessions away.
mustRevoke(w) == w # {}

\* The guard lets a request through: a live session of an active account.
SignedIn(a) == a \in active /\ \E s \in Sessions : holder[s] = a

Calm == StopAfterSlip => ~raced /\ lapsed = {} /\ neglected = {} /\ mixed = {}

Begin(q, stmt, a, u, w) ==
  /\ pc[q] = "idle" /\ Calm
  /\ pc' = [pc EXCEPT ![q] = stmt]
  /\ actor' = [actor EXCEPT ![q] = a]
  /\ user' = [user EXCEPT ![q] = u]
  /\ want' = [want EXCEPT ![q] = w]

\* The handler ends.
End(q) ==
  /\ pc' = [pc EXCEPT ![q] = "idle"]
  /\ actor' = [actor EXCEPT ![q] = NoUser]
  /\ user' = [user EXCEPT ![q] = NoUser]
  /\ want' = [want EXCEPT ![q] = {}]
  /\ typed' = [typed EXCEPT ![q] = 0]
  /\ seen' = [seen EXCEPT ![q] = {}]

\* The call is refused, or it fails before it has written anything.
Refused(q) ==
  /\ End(q)
  /\ overtaken' = overtaken \ {q}
  /\ UNCHANGED <<accounts, logins, table, raced>>

Goto(q, stmt) ==
  /\ pc' = [pc EXCEPT ![q] = stmt]
  /\ UNCHANGED <<actor, user, want, typed, seen>>

\* What is left to do is to revoke the sessions.
GotoRevoke(q) ==
  /\ pc' = [pc EXCEPT ![q] = "revoke"]
  /\ want' = [want EXCEPT ![q] = {}]
  /\ actor' = [actor EXCEPT ![q] = NoUser]
  /\ UNCHANGED <<user, typed>>

\* A write to role and active, and what it means for handlers that have read
\* them and for the one that writes.
Decided(q) == pc[q] \in {"count", "update"}
WriteAccounts(r, a) ==
  /\ role' = r
  /\ active' = a
Overtaking(writers) ==
  IF <<role', active'>> = <<role, active>> THEN overtaken
  ELSE overtaken \cup {q \in Requests \ writers : Decided(q)}

\* revokeAllForUser.
RevokeAll(u) ==
  /\ holder' = [s \in Sessions |-> IF holder[s] = u THEN NoUser ELSE holder[s]]
  /\ proof' = [s \in Sessions |-> IF holder[s] = u THEN 0 ELSE proof[s]]
  /\ lapsed' = {s \in lapsed : holder[s] # u}
  /\ neglected' = neglected \ {u}

-----------------------------------------------------------------------------
(* Editing an account (UsersService.update), and its creation. *)

BeginEdit(q, a, u, w) ==
  /\ SignedIn(a) /\ role[a] = "ADMIN"
  /\ Begin(q, "select", a, u, w)
  /\ UNCHANGED <<accounts, logins, table, races, typed, seen>>

EditSelect(q) ==
  LET u == user[q]  w == want[q] IN
  /\ pc[q] = "select"
  /\ IF /\ Exists(u)
        /\ ~promotingToAdmin(u, w)
        /\ ~(actor[q] = u /\ roleChanging(u, w))
     THEN /\ Goto(q, IF losingAdmin(u, w) THEN "count" ELSE "update")
          /\ UNCHANGED <<accounts, logins, table, races>>
     ELSE Refused(q)

EditCount(q) ==
  /\ pc[q] = "count"
  /\ IF OtherAdmins(user[q]) # {}
     THEN Goto(q, "update") /\ UNCHANGED <<accounts, logins, table, races>>
     ELSE Refused(q)

\* UPDATE users SET the given columns WHERE id.
EditUpdate(q) ==
  LET u == user[q]  w == want[q] IN
  /\ pc[q] = "update"
  /\ "password" \in w => password[u] < MaxPasswords
  /\ WriteAccounts(
       [role EXCEPT ![u] = IF "ADMIN" \in w THEN "ADMIN"
                           ELSE IF "TEACHER" \in w THEN "TEACHER" ELSE @],
       IF "active" \in w THEN active \cup {u}
       ELSE IF "inactive" \in w THEN active \ {u} ELSE active)
  /\ password' = [password EXCEPT ![u] = IF "password" \in w THEN @ + 1 ELSE @]
  /\ IF mustRevoke(w) THEN GotoRevoke(q) /\ UNCHANGED seen ELSE End(q)
  /\ overtaken' = Overtaking({q}) \ {q}
  /\ raced' = (raced \/ (q \in overtaken /\ <<role', active'>> # <<role, active>>))
  /\ UNCHANGED <<holder, proof, lapsed, neglected, table>>

Revoke(q) ==
  /\ pc[q] = "revoke"
  /\ RevokeAll(user[q])
  /\ End(q)
  /\ UNCHANGED <<accounts, password, table, races>>

\* create: only teachers; the row and its grants in one transaction.
CreateTeacher(a, u, on, G) ==
  /\ SignedIn(a) /\ role[a] = "ADMIN" /\ ~Exists(u) /\ Calm
  /\ WriteAccounts([role EXCEPT ![u] = "TEACHER"], IF on THEN active \cup {u} ELSE active)
  /\ grants' = [grants EXCEPT ![u] = G]
  /\ given' = [given EXCEPT ![u] = G]
  /\ UNCHANGED <<logins, mixed, races, pc, actor, user, want, typed, seen>>

-----------------------------------------------------------------------------
(* Logging in and out, and changing one's password (AuthService). *)

\* SELECT: an active account, and the right password.
BeginLogin(q, u) ==
  /\ Exists(u) /\ u \in active
  /\ Begin(q, "session", u, u, {})
  /\ typed' = [typed EXCEPT ![q] = password[u]]
  /\ UNCHANGED <<accounts, logins, table, races, seen>>

InsertSession(q, s) ==
  LET u == user[q] IN
  /\ pc[q] = "session" /\ holder[s] = NoUser
  /\ holder' = [holder EXCEPT ![s] = u]
  /\ proof' = [proof EXCEPT ![s] = typed[q]]
  /\ lapsed' = IF typed[q] = password[u] THEN lapsed ELSE lapsed \cup {s}
  /\ End(q)
  /\ UNCHANGED <<accounts, password, neglected, table, races>>

\* logout (revokeByToken), or the session expires.
EndSession(s) ==
  /\ holder[s] # NoUser
  /\ holder' = [holder EXCEPT ![s] = NoUser]
  /\ proof' = [proof EXCEPT ![s] = 0]
  /\ lapsed' = lapsed \ {s}
  /\ UNCHANGED <<accounts, password, neglected, table, races, pc, actor, user, want,
                 typed, seen>>

BeginChange(q, u) ==
  /\ SignedIn(u)
  /\ Begin(q, "verify", u, u, {"password"})
  /\ UNCHANGED <<accounts, logins, table, races, typed, seen>>

\* The current password is right (otherwise the call is refused: Abort).
VerifyCurrent(q) ==
  /\ pc[q] = "verify"
  /\ Goto(q, "change")
  /\ UNCHANGED <<accounts, logins, table, races>>

ChangePassword_Only(q) ==
  /\ pc[q] = "change" /\ password[user[q]] < MaxPasswords
  /\ password' = [password EXCEPT ![user[q]] = @ + 1]
  /\ End(q)
  /\ UNCHANGED <<accounts, holder, proof, lapsed, neglected, table, races>>
ChangePassword(q) ==
  /\ pc[q] = "change" /\ password[user[q]] < MaxPasswords
  /\ password' = [password EXCEPT ![user[q]] = @ + 1]
  /\ GotoRevoke(q)
  /\ UNCHANGED <<accounts, holder, proof, lapsed, neglected, table, races, seen>>

-----------------------------------------------------------------------------
(* Replacing the grants of an account (setPermissions). *)

BeginGrant(q, a, u, G) ==
  /\ SignedIn(a) /\ role[a] = "ADMIN" /\ Exists(u)
  /\ Begin(q, "delete", a, u, G)
  /\ UNCHANGED <<accounts, logins, table, races, typed, seen>>

\* The rows that q, in its transaction, has locked.
Locked(q) == CASE pc[q] = "insert" -> seen[q]
               [] pc[q] = "commit" -> seen[q] \cup want[q]
               [] OTHER -> {}

Others(q) == {o \in Requests \ {q} : user[o] = user[q]}

\* DELETE: it sees the rows that are committed when it starts ...
DeleteGrants_None(q) == pc[q] = "delete" /\ Goto(q, "lock") /\ UNCHANGED <<accounts, logins, table, races>>
DeleteGrants(q) ==
  /\ pc[q] = "delete"
  /\ seen' = [seen EXCEPT ![q] = grants[user[q]]]
  /\ pc' = [pc EXCEPT ![q] = "lock"]
  /\ UNCHANGED <<accounts, logins, table, races, actor, user, want, typed>>

\* ... and waits for the transactions that have locked one of them.
LockGrants(q) ==
  /\ pc[q] = "lock"
  /\ \A o \in Others(q) : Locked(o) \cap seen[q] = {}
  /\ Goto(q, "insert")
  /\ UNCHANGED <<accounts, logins, table, races>>

\* The INSERTs; user_permissions_uniq refuses what another one has committed.
InsertGrants(q) ==
  /\ pc[q] = "insert"
  /\ \A o \in Others(q) : Locked(o) \cap want[q] = {}
  /\ IF want[q] \cap (grants[user[q]] \ seen[q]) = {}
     THEN Goto(q, "commit") /\ UNCHANGED <<accounts, logins, table, races>>
     ELSE Refused(q)

\* COMMIT; what it has deleted, no other transaction deletes any more.
CommitGrants(q) ==
  LET u == user[q] IN
  /\ pc[q] = "commit"
  /\ grants' = [grants EXCEPT ![u] = (@ \ seen[q]) \cup want[q]]
  /\ given' = [given EXCEPT ![u] = want[q]]
  /\ mixed' = IF \E o \in Others(q) : pc[o] \in {"lock", "insert", "commit"}
              THEN mixed \cup {u} ELSE mixed
  /\ seen' = [o \in Requests |->
       IF o \in Others(q) THEN seen[o] \ seen[q] ELSE IF o = q THEN {} ELSE seen[o]]
  /\ GotoRevoke(q)
  /\ UNCHANGED <<accounts, logins, races>>

-----------------------------------------------------------------------------
(* Operator scripts. *)

\* transfer-superadmin.mjs: one transaction that locks both rows.
Transfer(from, to) ==
  /\ from # to /\ from \in Admins /\ Exists(to) /\ to \in active /\ Calm
  /\ WriteAccounts([role EXCEPT ![from] = "TEACHER", ![to] = "ADMIN"], active)
  /\ holder' = [s \in Sessions |-> IF holder[s] \in {from, to} THEN NoUser ELSE holder[s]]
  /\ proof' = [s \in Sessions |-> IF holder[s] \in {from, to} THEN 0 ELSE proof[s]]
  /\ lapsed' = {s \in lapsed : holder[s] \notin {from, to}}
  /\ neglected' = neglected \ {from, to}
  /\ overtaken' = Overtaking({})
  /\ UNCHANGED <<password, table, raced, pc, actor, user, want, typed, seen>>

\* reset-user-password.mjs: one transaction.
ResetPassword(u) ==
  /\ Exists(u) /\ password[u] < MaxPasswords /\ Calm
  /\ password' = [password EXCEPT ![u] = @ + 1]
  /\ RevokeAll(u)
  /\ UNCHANGED <<accounts, table, races, pc, actor, user, want, typed, seen>>

bootstrapRole_V1 == "super_admin"
bootstrapRole == "ADMIN"

\* bootstrap-admin.mjs: counts the administrators, then inserts one.
BeginBootstrap(q) ==
  /\ \A u \in Users : role[u] # "ADMIN"
  /\ Begin(q, "bootstrap", NoUser, NoUser, {})
  /\ UNCHANGED <<accounts, logins, table, races, typed, seen>>

BootstrapInsert(q, u) ==
  /\ pc[q] = "bootstrap" /\ ~Exists(u)
  /\ WriteAccounts([role EXCEPT ![u] = bootstrapRole], active \cup {u})
  /\ raced' = (raced \/ \E v \in Users : role[v] = "ADMIN")
  /\ overtaken' = Overtaking({q})
  /\ End(q)
  /\ UNCHANGED <<logins, table>>

\* A statement fails; a transaction is rolled back.
Abort(q) ==
  /\ pc[q] # "idle"
  /\ End(q)
  /\ overtaken' = overtaken \ {q}
  /\ neglected' = IF pc[q] = "revoke" THEN neglected \cup {user[q]} ELSE neglected
  /\ UNCHANGED <<accounts, password, holder, proof, lapsed, table, raced>>

-----------------------------------------------------------------------------
Init ==
  /\ role \in [Users -> {"ADMIN", "TEACHER", "none"}]
  /\ active \in SUBSET {u \in Users : role[u] # "none"}
  /\ Admins # {} \/ \A u \in Users : role[u] = "none"
  /\ password = [u \in Users |-> 1]
  /\ holder = [s \in Sessions |-> NoUser]
  /\ proof = [s \in Sessions |-> 0]
  /\ grants = [u \in Users |-> {}]
  /\ pc = [q \in Requests |-> "idle"]
  /\ actor = [q \in Requests |-> NoUser]
  /\ user = [q \in Requests |-> NoUser]
  /\ want = [q \in Requests |-> {}]
  /\ typed = [q \in Requests |-> 0]
  /\ seen = [q \in Requests |-> {}]
  /\ overtaken = {} /\ raced = FALSE
  /\ lapsed = {} /\ neglected = {}
  /\ given = [u \in Users |-> {}]
  /\ mixed = {}

Arrive(q) ==
  \/ \E a, u \in Users : \/ \E w \in Inputs : BeginEdit(q, a, u, w)
                         \/ \E G \in SUBSET Permissions : BeginGrant(q, a, u, G)
  \/ \E u \in Users : BeginLogin(q, u) \/ BeginChange(q, u)
  \/ BeginBootstrap(q)

Proceed(q) ==
  \/ EditSelect(q) \/ EditCount(q) \/ EditUpdate(q)
  \/ \E s \in Sessions : InsertSession(q, s)
  \/ VerifyCurrent(q) \/ ChangePassword(q)
  \/ DeleteGrants(q) \/ LockGrants(q) \/ InsertGrants(q) \/ CommitGrants(q)
  \/ Revoke(q)
  \/ \E u \in Users : BootstrapInsert(q, u)
  \/ Abort(q)

AtOnce ==
  \/ \E a, u \in Users, on \in BOOLEAN, G \in SUBSET Permissions : CreateTeacher(a, u, on, G)
  \/ \E s \in Sessions : EndSession(s)
  \/ \E from, to \in Users : Transfer(from, to)
  \/ \E u \in Users : ResetPassword(u)

Next == AtOnce \/ \E q \in Requests : Arrive(q) \/ Proceed(q)

Spec == Init /\ [][Next]_vars

-----------------------------------------------------------------------------
(* Properties. *)

\* Every variable has its type; the columns of an account have a row.
TypeOK ==
  /\ role \in [Users -> {"ADMIN", "TEACHER", "none"}]
  /\ active \subseteq {u \in Users : role[u] # "none"}
  /\ password \in [Users -> 1..MaxPasswords]
  /\ holder \in [Sessions -> Users \cup {NoUser}]
  /\ proof \in [Sessions -> 0..MaxPasswords]
  /\ grants \in [Users -> SUBSET Permissions]
  /\ pc \in [Requests -> {"idle", "select", "count", "update", "revoke", "session",
                          "verify", "change", "delete", "lock", "insert", "commit",
                          "bootstrap"}]
  /\ actor \in [Requests -> Users \cup {NoUser}]
  /\ user \in [Requests -> Users \cup {NoUser}]
  /\ want \in [Requests -> SUBSET (Changes \cup Permissions)]
  /\ typed \in [Requests -> 0..MaxPasswords]
  /\ seen \in [Requests -> SUBSET Permissions]
  /\ overtaken \subseteq Requests
  /\ raced \in BOOLEAN
  /\ lapsed \subseteq Sessions
  /\ neglected \subseteq Users
  /\ given \in [Users -> SUBSET Permissions]
  /\ mixed \subseteq Users

\* There is always an account that can administer, from the first one on, unless
\* an edit was written that another write to roles or statuses had overtaken
\* (assertSystemKeepsAnAdmin, and the refusal to change one's own role).
AdminRemains ==
  raced \/ Admins # {} \/ \A u \in Users : ~Exists(u)

\* Nobody becomes an administrator but by the scripts: in place of another one,
\* or as the first.  An edit that repeats the role it has read can undo a
\* transfer that has overtaken it, and so can a second bootstrap.
AdminsAreHandedOver ==
  [][\A u \in Users : role'[u] = "ADMIN" /\ role[u] # "ADMIN" =>
       \/ \E v \in Users : role[v] = "ADMIN" /\ role'[v] # "ADMIN"
       \/ \A v \in Users : role[v] # "ADMIN"
       \/ raced']_vars

\* No session outlives the password it was opened with, except while the handler
\* that has changed it is about to revoke, after it failed to, or when the
\* session's own login overlapped the change.
OldPasswordsExpire ==
  \A s \in Sessions :
    LET u == holder[s] IN
    u # NoUser /\ proof[s] # password[u] =>
      \/ s \in lapsed \/ u \in neglected
      \/ \E q \in Requests : pc[q] = "revoke" /\ user[q] = u

\* The grants of an account are those of one call, the last one, unless calls
\* overlapped in their transactions.
GrantsAsGiven == \A u \in Users : u \notin mixed => grants[u] = given[u]
=============================================================================
