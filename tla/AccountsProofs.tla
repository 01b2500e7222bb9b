----------------------------- MODULE AccountsProofs -----------------------------
(***************************************************************************)
(* Proofs about Accounts, for any accounts, sessions, grants, handlers and *)
(* bounds.                                                                 *)
(***************************************************************************)
EXTENDS Accounts, TLAPS

Editing == {"count", "update"}
Granting == {"delete", "lock", "insert", "commit"}

\* What a handler in flight knows of the account it is about.
InFlight ==
  \A q \in Requests :
    /\ pc[q] \notin {"idle", "bootstrap"} => user[q] \in Users
    /\ pc[q] \in Editing \cup Granting \cup {"session"} => Exists(user[q])
    /\ pc[q] \in Granting => want[q] \subseteq Permissions
    /\ pc[q] \in {"select"} \cup Editing => want[q] \subseteq Changes

\* What the checks of an edit have established, as long as no write to roles
\* and statuses has overtaken it.
ChecksHold ==
  \A q \in Requests \ overtaken :
    /\ pc[q] \in Editing /\ "ADMIN" \in want[q] => role[user[q]] = "ADMIN"
    /\ pc[q] = "update" /\ losingAdmin(user[q], want[q]) => OtherAdmins(user[q]) # {}

AccountsInv == TypeOK /\ InFlight /\ ChecksHold /\ AdminRemains

LEMMA InitAccounts == Init => AccountsInv /\ OldPasswordsExpire /\ GrantsAsGiven
<1> SUFFICES ASSUME Init PROVE AccountsInv /\ OldPasswordsExpire /\ GrantsAsGiven
  OBVIOUS
<1>1. TypeOK
  <2>1. password \in [Users -> 1..MaxPasswords]
    BY AccountsAssumption DEF Init
  <2>2. proof \in [Sessions -> 0..MaxPasswords] /\ typed \in [Requests -> 0..MaxPasswords]
    BY AccountsAssumption DEF Init
  <2> QED BY <2>1, <2>2 DEF Init, TypeOK
<1>2. InFlight /\ ChecksHold
  BY DEF Init, InFlight, ChecksHold, Editing, Granting
<1>3. AdminRemains
  BY DEF Init, AdminRemains, Exists
<1>4. OldPasswordsExpire /\ GrantsAsGiven
  BY DEF Init, OldPasswordsExpire, GrantsAsGiven
<1> QED BY <1>1, <1>2, <1>3, <1>4 DEF AccountsInv

-----------------------------------------------------------------------------
(* Handlers that write neither accounts nor passwords. *)

\* A new call.
LEMMA ArriveStep ==
  ASSUME AccountsInv, NEW q \in Requests, Arrive(q)
  PROVE  /\ AccountsInv'
         /\ UNCHANGED <<accounts, logins, table>>
         /\ pc[q] = "idle"
         /\ \A o \in Requests \ {q} : pc'[o] = pc[o] /\ user'[o] = user[o] /\ seen'[o] = seen[o]
         /\ pc'[q] \notin {"revoke", "lock", "insert", "commit"}
<1> USE DEF AccountsInv, TypeOK
<1> DEFINE Begun ==
             /\ UNCHANGED <<accounts, logins, table, races, seen>>
             /\ pc[q] = "idle"
             /\ \A o \in Requests \ {q} : pc'[o] = pc[o] /\ user'[o] = user[o] /\ want'[o] = want[o]
             /\ pc'[q] \in {"select", "delete", "session", "verify", "bootstrap"}
             /\ pc'[q] # "bootstrap" => user'[q] \in Users
             /\ pc'[q] \in {"delete", "session"} => Exists(user'[q])
             /\ pc'[q] = "delete" => want'[q] \subseteq Permissions
             /\ pc'[q] = "select" => want'[q] \subseteq Changes
             /\ TypeOK'
<1>1. Begun
  <2>1. ASSUME NEW a \in Users, NEW u \in Users, NEW w \in Inputs, BeginEdit(q, a, u, w)
        PROVE  Begun
    <3>1. w \subseteq Changes
      BY AccountsAssumption
    <3> QED BY <2>1, <3>1 DEF BeginEdit, Begin, accounts, logins, table, races
  <2>2. ASSUME NEW a \in Users, NEW u \in Users, NEW G \in SUBSET Permissions, BeginGrant(q, a, u, G)
        PROVE  Begun
    BY <2>2 DEF BeginGrant, Begin, accounts, logins, table, races
  <2>3. ASSUME NEW u \in Users, BeginLogin(q, u)
        PROVE  Begun
    <3>1. password[u] \in 0..MaxPasswords
      BY AccountsAssumption
    <3> QED BY <2>3, <3>1 DEF BeginLogin, Begin, accounts, logins, table, races
  <2>4. ASSUME NEW u \in Users, BeginChange(q, u)
        PROVE  Begun
    BY <2>4 DEF BeginChange, Begin, Changes, accounts, logins, table, races
  <2>5. ASSUME BeginBootstrap(q)
        PROVE  Begun
    BY <2>5 DEF BeginBootstrap, Begin, accounts, logins, table, races
  <2> QED BY <2>1, <2>2, <2>3, <2>4, <2>5 DEF Arrive
<1>2. TypeOK'
  BY <1>1
<1>3. InFlight'
  BY <1>1 DEF InFlight, Exists, accounts, Editing, Granting
<1>4. ChecksHold'
  BY <1>1 DEF ChecksHold, losingAdmin, OtherAdmins, Admins, accounts, races, Editing
<1>5. AdminRemains'
  BY <1>1 DEF AdminRemains, Admins, Exists, accounts, races
<1> QED BY <1>1, <1>2, <1>3, <1>4, <1>5

\* The calls that are refused, and the steps that only read.
ReadingOnly(q) ==
  EditSelect(q) \/ EditCount(q) \/ VerifyCurrent(q) \/ DeleteGrants(q) \/ LockGrants(q)
  \/ InsertGrants(q) \/ Refused(q)

LEMMA ReadingStep ==
  ASSUME AccountsInv, NEW q \in Requests, ReadingOnly(q)
  PROVE  AccountsInv'
<1> USE DEF AccountsInv, TypeOK
<1>1. UNCHANGED <<accounts, logins, table>> /\ raced' = raced
  BY DEF ReadingOnly, EditSelect, EditCount, VerifyCurrent, DeleteGrants, LockGrants,
         InsertGrants, Refused, Goto, races
<1>2. TypeOK'
  <2>1. pc[q] = "delete" => grants[user[q]] \subseteq Permissions
    BY DEF InFlight
  <2> QED BY <1>1, <2>1, AccountsAssumption
  DEF ReadingOnly, EditSelect, EditCount, VerifyCurrent, DeleteGrants, LockGrants,
      InsertGrants, Refused, Goto, End, accounts, logins, table, races
<1>3. InFlight'
  BY <1>1 DEF ReadingOnly, EditSelect, EditCount, VerifyCurrent, DeleteGrants, LockGrants,
         InsertGrants, Refused, Goto, End, InFlight, Exists, accounts, Editing, Granting
<1>4. ChecksHold'
  BY <1>1
  DEF ReadingOnly, EditSelect, EditCount, VerifyCurrent, DeleteGrants, LockGrants,
      InsertGrants, Refused, Goto, End, ChecksHold, losingAdmin, promotingToAdmin,
      OtherAdmins, Admins, accounts, races, Editing
<1>5. AdminRemains'
  BY <1>1 DEF AdminRemains, Admins, Exists, accounts
<1> QED BY <1>2, <1>3, <1>4, <1>5

-----------------------------------------------------------------------------
(* Handlers that write. *)

LEMMA UpdateStep ==
  ASSUME AccountsInv, NEW q \in Requests, EditUpdate(q)
  PROVE  AccountsInv'
<1> USE DEF AccountsInv, TypeOK
<1> DEFINE u == user[q]  w == want[q]
<1>1. u \in Users /\ Exists(u)
  BY DEF EditUpdate, InFlight, Editing
<1>2. /\ role' \in [Users -> {"ADMIN", "TEACHER", "none"}]
      /\ \A v \in Users \ {u} : role'[v] = role[v] /\ (v \in active' <=> v \in active)
      /\ role'[u] = IF "ADMIN" \in w THEN "ADMIN" ELSE IF "TEACHER" \in w THEN "TEACHER" ELSE role[u]
      /\ active' = IF "active" \in w THEN active \cup {u}
                   ELSE IF "inactive" \in w THEN active \ {u} ELSE active
  <2>1. role' = [role EXCEPT ![u] = IF "ADMIN" \in w THEN "ADMIN"
                                    ELSE IF "TEACHER" \in w THEN "TEACHER" ELSE role[u]]
    BY DEF EditUpdate, WriteAccounts
  <2>2. active' = IF "active" \in w THEN active \cup {u}
                  ELSE IF "inactive" \in w THEN active \ {u} ELSE active
    BY DEF EditUpdate, WriteAccounts
  <2> QED BY <1>1, <2>1, <2>2
<1>3. TypeOK'
  <2>1. active' \subseteq {v \in Users : role'[v] # "none"}
    BY <1>1, <1>2 DEF Exists
  <2>2. password' \in [Users -> 1..MaxPasswords]
    BY <1>1, AccountsAssumption DEF EditUpdate
  <2>3. /\ pc' \in [Requests -> {"idle", "select", "count", "update", "revoke", "session",
                                "verify", "change", "delete", "lock", "insert", "commit",
                                "bootstrap"}]
        /\ actor' \in [Requests -> Users \cup {NoUser}] /\ user' \in [Requests -> Users \cup {NoUser}]
        /\ want' \in [Requests -> SUBSET (Changes \cup Permissions)]
        /\ seen' \in [Requests -> SUBSET Permissions]
    BY DEF EditUpdate, GotoRevoke, End
  <2>4. typed' \in [Requests -> 0..MaxPasswords]
    BY AccountsAssumption DEF EditUpdate, GotoRevoke, End
  <2>5. overtaken' \subseteq Requests /\ raced' \in BOOLEAN
    BY DEF EditUpdate, Overtaking
  <2> QED BY <1>2, <2>1, <2>2, <2>3, <2>4, <2>5 DEF EditUpdate, table
<1>4. InFlight'
  BY <1>1, <1>2 DEF EditUpdate, GotoRevoke, End, InFlight, Exists, Editing, Granting
<1>5. \A o \in Requests \ {q} : pc'[o] = pc[o] /\ user'[o] = user[o] /\ want'[o] = want[o]
  BY DEF EditUpdate, GotoRevoke, End
<1>6. pc'[q] \in {"idle", "revoke"}
  BY DEF EditUpdate, GotoRevoke, End
<1>7. ChecksHold'
  <2>1. ASSUME NEW o \in Requests \ overtaken', pc'[o] \in Editing
        PROVE  o # q /\ o \notin overtaken /\ UNCHANGED accounts
    <3>1. o # q
      BY <1>6, <2>1 DEF Editing
    <3> QED BY <1>5, <2>1, <3>1 DEF EditUpdate, Overtaking, Decided, Editing, accounts
  <2> QED BY <1>5, <2>1 DEF ChecksHold, losingAdmin, OtherAdmins, Admins, accounts, Editing
<1>8. AdminRemains'
  <2>1. CASE raced'
    BY <2>1 DEF AdminRemains
  <2>2. CASE role' = role /\ active' = active
    BY <2>2 DEF AdminRemains, Admins, Exists, EditUpdate
  <2>3. CASE ~raced' /\ q \notin overtaken
    <3>1. Admins # {}
      BY <1>1, <2>3 DEF AdminRemains, EditUpdate
    <3>2. CASE losingAdmin(u, w)
      <4>1. PICK v \in Admins \ {u} : TRUE
        BY <2>3, <3>2 DEF ChecksHold, OtherAdmins, EditUpdate
      <4> QED BY <1>2, <4>1 DEF Admins, AdminRemains
    <3>3. CASE ~losingAdmin(u, w)
      <4>1. PICK v \in Admins : TRUE
        BY <3>1
      <4>2. v \in Admins'
        BY <1>2, <3>3, <4>1 DEF Admins, losingAdmin
      <4> QED BY <4>2 DEF AdminRemains
    <3> QED BY <3>2, <3>3
  <2> QED BY <2>1, <2>2, <2>3 DEF EditUpdate
<1> QED BY <1>3, <1>4, <1>7, <1>8

\* Writes to sessions, passwords and grants.
OtherWrites(q) ==
  (\E s \in Sessions : InsertSession(q, s)) \/ ChangePassword(q) \/ CommitGrants(q)
  \/ Revoke(q) \/ Abort(q)

LEMMA OtherWriteStep ==
  ASSUME AccountsInv, NEW q \in Requests, OtherWrites(q)
  PROVE  AccountsInv'
<1> USE DEF AccountsInv, TypeOK
<1>1. UNCHANGED accounts /\ raced' = raced /\ overtaken \ {q} \subseteq overtaken'
      /\ overtaken' \subseteq overtaken
  BY DEF OtherWrites, InsertSession, ChangePassword, CommitGrants, Revoke, Abort, races
<1>2. /\ \A o \in Requests \ {q} : pc'[o] = pc[o] /\ user'[o] = user[o] /\ want'[o] = want[o]
      /\ pc'[q] \in {"idle", "revoke"} /\ (pc'[q] = "revoke" => user'[q] = user[q] /\ pc[q] # "idle" /\ pc[q] # "bootstrap")
  BY DEF OtherWrites, InsertSession, ChangePassword, CommitGrants, Revoke, Abort, GotoRevoke, End
<1>3. TypeOK'
  <2>1. CASE \E s \in Sessions : InsertSession(q, s)
    BY <2>1, <1>1, AccountsAssumption DEF InsertSession, End, accounts, table, races
  <2>2. CASE ChangePassword(q)
    BY <2>2, <1>1, AccountsAssumption DEF ChangePassword, GotoRevoke, InFlight, accounts, table, races
  <2>3. CASE CommitGrants(q)
    <3>1. user[q] \in Users /\ want[q] \subseteq Permissions
      BY <2>3 DEF CommitGrants, InFlight, Granting
    <3>2. \A o \in Requests : seen[o] \ seen[q] \subseteq Permissions
      OBVIOUS
    <3>3. seen' \in [Requests -> SUBSET Permissions]
      BY <2>3, <3>2 DEF CommitGrants
    <3>4. grants' \in [Users -> SUBSET Permissions] /\ given' \in [Users -> SUBSET Permissions]
      BY <2>3, <3>1 DEF CommitGrants
    <3> QED BY <2>3, <1>1, <3>1, <3>3, <3>4 DEF CommitGrants, GotoRevoke, accounts, logins, races
  <2>4. CASE Revoke(q)
    BY <2>4, <1>1, AccountsAssumption DEF Revoke, RevokeAll, End, accounts, table, races
  <2>5. CASE Abort(q)
    BY <2>5, <1>1, AccountsAssumption DEF Abort, InFlight, End, accounts, table
  <2> QED BY <2>1, <2>2, <2>3, <2>4, <2>5 DEF OtherWrites
<1>4. InFlight'
  BY <1>1, <1>2 DEF InFlight, Exists, accounts, Editing, Granting
<1>5. ChecksHold'
  BY <1>1, <1>2 DEF ChecksHold, losingAdmin, OtherAdmins, Admins, accounts, Editing
<1>6. AdminRemains'
  BY <1>1 DEF AdminRemains, Admins, Exists, accounts
<1> QED BY <1>3, <1>4, <1>5, <1>6

LEMMA BootstrapStep ==
  ASSUME AccountsInv, NEW q \in Requests, NEW u \in Users, BootstrapInsert(q, u)
  PROVE  AccountsInv'
<1> USE DEF AccountsInv, TypeOK
<1>1. /\ role' = [role EXCEPT ![u] = "ADMIN"] /\ active' = active \cup {u}
      /\ ~Exists(u) /\ raced' \in BOOLEAN /\ (raced => raced')
      /\ UNCHANGED <<logins, table>>
      /\ pc' = [pc EXCEPT ![q] = "idle"]
      /\ \A o \in Requests \ {q} : user'[o] = user[o] /\ want'[o] = want[o]
  BY DEF BootstrapInsert, WriteAccounts, bootstrapRole, End
<1>2. TypeOK'
  <2>1. /\ actor' \in [Requests -> Users \cup {NoUser}] /\ user' \in [Requests -> Users \cup {NoUser}]
        /\ want' \in [Requests -> SUBSET (Changes \cup Permissions)]
        /\ seen' \in [Requests -> SUBSET Permissions]
        /\ pc' \in [Requests -> {"idle", "select", "count", "update", "revoke", "session",
                                "verify", "change", "delete", "lock", "insert", "commit",
                                "bootstrap"}]
    BY <1>1 DEF BootstrapInsert, End
  <2>2. typed' \in [Requests -> 0..MaxPasswords]
    BY AccountsAssumption DEF BootstrapInsert, End
  <2>3. overtaken' \subseteq Requests
    BY DEF BootstrapInsert, Overtaking
  <2> QED BY <1>1, <2>1, <2>2, <2>3 DEF logins, table
<1>3. InFlight'
  BY <1>1 DEF InFlight, Exists, Editing, Granting
<1>4. ChecksHold'
  <2>1. role'[u] # role[u]
    BY <1>1 DEF Exists
  <2>2. \A o \in Requests \ overtaken' : pc'[o] \notin Editing
    BY <1>1, <2>1 DEF BootstrapInsert, Overtaking, Decided, Editing
  <2> QED BY <2>2 DEF ChecksHold, Editing
<1>5. AdminRemains'
  <2>1. u \in Admins'
    BY <1>1 DEF Admins
  <2> QED BY <2>1 DEF AdminRemains
<1> QED BY <1>2, <1>3, <1>4, <1>5

\* The writes of one statement or transaction.
LEMMA AtOnceStep ==
  ASSUME AccountsInv, AtOnce
  PROVE  AccountsInv'
<1> USE DEF AccountsInv, TypeOK
<1>1. ASSUME NEW a \in Users, NEW u \in Users, NEW on \in BOOLEAN, NEW G \in SUBSET Permissions,
             CreateTeacher(a, u, on, G)
      PROVE  AccountsInv'
  <2>1. /\ role' = [role EXCEPT ![u] = "TEACHER"] /\ ~Exists(u)
        /\ active' = IF on THEN active \cup {u} ELSE active
        /\ UNCHANGED <<logins, mixed, races, pc, actor, user, want, typed, seen>>
        /\ a \in Admins
    BY <1>1 DEF CreateTeacher, WriteAccounts, SignedIn, Admins
  <2>2. TypeOK'
    BY <1>1, <2>1 DEF CreateTeacher, logins, races
  <2>3. InFlight'
    BY <2>1 DEF InFlight, Exists, Editing, Granting
  <2>4. \A v \in Admins : v \in Admins' /\ v # u
    BY <2>1 DEF Admins, Exists
  <2>5. ChecksHold'
    <3>1. \A v \in Users : v \in Admins' => v \in Admins
      BY <2>1 DEF Admins, Exists
    <3>2. \A q \in Requests : pc[q] \in Editing => user[q] \in Users /\ user[q] # u
      BY <2>1 DEF InFlight, Editing
    <3> QED BY <2>1, <2>4, <3>1, <3>2 DEF ChecksHold, losingAdmin, OtherAdmins, races, Editing
  <2>6. AdminRemains'
    BY <2>1, <2>4 DEF AdminRemains
  <2> QED BY <2>2, <2>3, <2>5, <2>6
<1>2. ASSUME NEW from \in Users, NEW to \in Users, Transfer(from, to)
      PROVE  AccountsInv'
  <2>1. /\ from # to /\ role[from] = "ADMIN" /\ Exists(to) /\ to \in active
        /\ role' = [role EXCEPT ![from] = "TEACHER", ![to] = "ADMIN"] /\ active' = active
        /\ UNCHANGED <<password, table, raced, pc, actor, user, want, typed, seen>>
    BY <1>2 DEF Transfer, WriteAccounts, Admins
  <2>2. TypeOK'
    <3>1. proof' \in [Sessions -> 0..MaxPasswords]
      BY <1>2, AccountsAssumption DEF Transfer
    <3>2. overtaken' \subseteq Requests
      BY <1>2 DEF Transfer, Overtaking
    <3> QED BY <1>2, <2>1, <3>1, <3>2 DEF Transfer, table
  <2>3. InFlight'
    BY <2>1 DEF InFlight, Exists, Editing, Granting
  <2>4. ChecksHold'
    <3>1. role'[from] # role[from]
      BY <2>1
    <3>2. \A o \in Requests \ overtaken' : pc'[o] \notin Editing
      BY <1>2, <2>1, <3>1 DEF Transfer, Overtaking, Decided, Editing
    <3> QED BY <3>2 DEF ChecksHold, Editing
  <2>5. AdminRemains'
    <3>1. to \in Admins'
      BY <2>1 DEF Admins
    <3> QED BY <3>1 DEF AdminRemains
  <2> QED BY <2>2, <2>3, <2>4, <2>5
<1>3. ASSUME \/ \E s \in Sessions : EndSession(s)
             \/ \E u \in Users : ResetPassword(u)
      PROVE  AccountsInv'
  <2>1. UNCHANGED <<accounts, table, races, pc, actor, user, want, typed, seen>>
    BY <1>3 DEF EndSession, ResetPassword
  <2>2. TypeOK'
    <3>1. CASE \E s \in Sessions : EndSession(s)
      BY <2>1, <3>1, AccountsAssumption DEF EndSession, accounts, table, races
    <3>2. CASE \E u \in Users : ResetPassword(u)
      BY <2>1, <3>2, AccountsAssumption DEF ResetPassword, RevokeAll, accounts, table, races
    <3> QED BY <1>3, <3>1, <3>2
  <2>3. InFlight' /\ ChecksHold' /\ AdminRemains'
    BY <2>1 DEF InFlight, ChecksHold, AdminRemains, losingAdmin, OtherAdmins, Admins, Exists,
                accounts, races, Editing, Granting
  <2> QED BY <2>2, <2>3
<1> QED BY <1>1, <1>2, <1>3 DEF AtOnce

-----------------------------------------------------------------------------
(* The theorems. *)

\* The invariant holds in every reachable state.
THEOREM AccountsInvariant == Spec => []AccountsInv
<1>1. AccountsInv /\ [Next]_vars => AccountsInv'
  <2> SUFFICES ASSUME AccountsInv, [Next]_vars PROVE AccountsInv'
    OBVIOUS
  <2>1. ASSUME NEW q \in Requests, Arrive(q) \/ Proceed(q) PROVE AccountsInv'
    BY <2>1, ArriveStep, ReadingStep, UpdateStep, OtherWriteStep, BootstrapStep
       DEF Proceed, ReadingOnly, OtherWrites
  <2>2. CASE UNCHANGED vars
    BY <2>2 DEF vars, AccountsInv, TypeOK, InFlight, ChecksHold, AdminRemains, losingAdmin,
                OtherAdmins, Admins, Exists, Editing, Granting
  <2> QED BY <2>1, <2>2, AtOnceStep DEF Next
<1> QED BY <1>1, InitAccounts, PTL DEF Spec

\* Every variable has its type.
THEOREM AccountsTypeCorrect == Spec => []TypeOK
BY AccountsInvariant, PTL DEF AccountsInv

\* There is always an account that can administer, unless edits raced.
THEOREM AnAdminRemains == Spec => []AdminRemains
BY AccountsInvariant, PTL DEF AccountsInv

\* Nobody becomes an administrator by an edit, unless edits raced.
THEOREM OnlyHandedOver == Spec => AdminsAreHandedOver
<1> DEFINE Step ==
      \A u \in Users : role'[u] = "ADMIN" /\ role[u] # "ADMIN" =>
        \/ \E v \in Users : role[v] = "ADMIN" /\ role'[v] # "ADMIN"
        \/ \A v \in Users : role[v] # "ADMIN"
        \/ raced'
<1>1. AccountsInv /\ [Next]_vars => Step
  <2> SUFFICES ASSUME AccountsInv, [Next]_vars PROVE Step
    OBVIOUS
  <2> USE DEF AccountsInv, TypeOK
  <2>1. ASSUME NEW q \in Requests, EditUpdate(q) PROVE Step
    <3>1. user[q] \in Users
      BY <2>1 DEF EditUpdate, InFlight
    <3>2. role' = [role EXCEPT ![user[q]] = IF "ADMIN" \in want[q] THEN "ADMIN"
                                            ELSE IF "TEACHER" \in want[q] THEN "TEACHER"
                                            ELSE role[user[q]]]
      BY <2>1 DEF EditUpdate, WriteAccounts
    <3>3. q \notin overtaken => ("ADMIN" \in want[q] => role[user[q]] = "ADMIN")
      BY <2>1 DEF EditUpdate, ChecksHold, Editing
    <3>4. q \in overtaken /\ role' # role => raced'
      BY <2>1 DEF EditUpdate
    <3> QED BY <3>1, <3>2, <3>3, <3>4
  <2>2. ASSUME NEW q \in Requests, NEW u \in Users, BootstrapInsert(q, u) PROVE Step
    BY <2>2 DEF BootstrapInsert
  <2>3. ASSUME NEW from \in Users, NEW to \in Users, Transfer(from, to) PROVE Step
    BY <2>3 DEF Transfer, WriteAccounts, Admins
  <2>4. ASSUME NEW a \in Users, NEW u \in Users, NEW on \in BOOLEAN,
               NEW G \in SUBSET Permissions, CreateTeacher(a, u, on, G)
        PROVE  Step
    BY <2>4 DEF CreateTeacher, WriteAccounts
  <2>5. ASSUME NEW q \in Requests, ReadingOnly(q) \/ OtherWrites(q) \/ Arrive(q)
        PROVE  role' = role
    <3>1. CASE ReadingOnly(q)
      BY <3>1 DEF ReadingOnly, EditSelect, EditCount, VerifyCurrent, DeleteGrants, LockGrants,
                  InsertGrants, Refused, accounts
    <3>2. CASE OtherWrites(q)
      BY <3>2 DEF OtherWrites, InsertSession, ChangePassword, CommitGrants, Revoke, Abort, accounts
    <3> QED BY <2>5, <3>1, <3>2, ArriveStep DEF accounts
  <2>6. ASSUME \/ \E s \in Sessions : EndSession(s)
               \/ \E u \in Users : ResetPassword(u)
               \/ UNCHANGED vars
        PROVE  role' = role
    BY <2>6 DEF EndSession, ResetPassword, accounts, vars
  <2> QED BY <2>1, <2>2, <2>3, <2>4, <2>5, <2>6
          DEF Next, AtOnce, Proceed, ReadingOnly, OtherWrites
<1> QED BY <1>1, AccountsInvariant, PTL DEF Spec, AdminsAreHandedOver

\* What a transaction that replaces grants deletes is all there is, unless another
\* one has come in between.
SeesAll ==
  \A q \in Requests :
    pc[q] \in {"lock", "insert", "commit"} /\ user[q] \notin mixed =>
      seen[q] = grants[user[q]]

\* The grants of an account are those of the last call, unless calls overlapped.
THEOREM GrantsOfOneCall == Spec => []GrantsAsGiven
<1> DEFINE Inv == SeesAll /\ GrantsAsGiven
<1>1. Init => Inv
  BY InitAccounts DEF Init, SeesAll
<1>2. AccountsInv /\ Inv /\ [Next]_vars => Inv'
  <2> SUFFICES ASSUME AccountsInv, Inv, [Next]_vars PROVE Inv'
    OBVIOUS
  <2> USE DEF AccountsInv, TypeOK
  <2>1. ASSUME NEW q \in Requests, CommitGrants(q) PROVE Inv'
    <3>1. user[q] \in Users
      BY <2>1 DEF CommitGrants, InFlight
    <3>2. /\ \A v \in Users \ {user[q]} : grants'[v] = grants[v] /\ given'[v] = given[v]
          /\ given'[user[q]] = want[q]
          /\ grants'[user[q]] = (grants[user[q]] \ seen[q]) \cup want[q]
          /\ mixed \subseteq mixed' /\ mixed' \subseteq mixed \cup {user[q]}
          /\ pc' = [pc EXCEPT ![q] = "revoke"] /\ user' = user
          /\ \A o \in Requests : user[o] # user[q] => seen'[o] = seen[o]
      BY <2>1, <3>1 DEF CommitGrants, GotoRevoke, Others
    <3>3. ASSUME NEW o \in Requests \ {q}, user[o] = user[q],
                 pc[o] \in {"lock", "insert", "commit"}
          PROVE  user[q] \in mixed'
      BY <2>1, <3>3 DEF CommitGrants, Others
    <3>4. SeesAll'
      <4> SUFFICES ASSUME NEW o \in Requests, pc'[o] \in {"lock", "insert", "commit"},
                          user'[o] \notin mixed'
                   PROVE  seen'[o] = grants'[user'[o]]
        BY DEF SeesAll
      <4>1. o # q /\ pc[o] = pc'[o] /\ user'[o] = user[o]
        BY <3>2
      <4>2. user[o] # user[q]
        BY <3>3, <4>1
      <4>3. user[o] \in Users
        BY <4>1 DEF InFlight
      <4> QED BY <3>2, <4>1, <4>2, <4>3 DEF SeesAll
    <3>5. GrantsAsGiven'
      <4>1. user[q] \notin mixed => seen[q] = grants[user[q]]
        BY <2>1 DEF CommitGrants, SeesAll
      <4> QED BY <3>1, <3>2, <4>1 DEF GrantsAsGiven
    <3> QED BY <3>4, <3>5
  <2>2. ASSUME NEW q \in Requests, ReadingOnly(q) PROVE Inv'
    <3>1. UNCHANGED table
      BY <2>2 DEF ReadingOnly, EditSelect, EditCount, VerifyCurrent, DeleteGrants, LockGrants,
                  InsertGrants, Refused
    <3>2. SeesAll'
      BY <2>2, <3>1 DEF ReadingOnly, EditSelect, EditCount, VerifyCurrent, DeleteGrants, LockGrants,
                  InsertGrants, Refused, Goto, End, SeesAll, table
    <3> QED BY <3>1, <3>2 DEF GrantsAsGiven, table
  <2>3. ASSUME NEW q \in Requests, Arrive(q) PROVE Inv'
    BY <2>3, ArriveStep DEF SeesAll, GrantsAsGiven, table
  <2>4. ASSUME NEW q \in Requests,
               \/ EditUpdate(q) \/ ChangePassword(q) \/ Revoke(q) \/ Abort(q)
               \/ \E s \in Sessions : InsertSession(q, s)
               \/ \E u \in Users : BootstrapInsert(q, u)
        PROVE  Inv'
    <3>1. /\ UNCHANGED table
          /\ \A o \in Requests \ {q} : pc'[o] = pc[o] /\ user'[o] = user[o] /\ seen'[o] = seen[o]
          /\ pc'[q] \in {"idle", "revoke"}
      BY <2>4 DEF EditUpdate, ChangePassword, Revoke, Abort, InsertSession, BootstrapInsert,
                  GotoRevoke, End
    <3>2. SeesAll'
      BY <3>1 DEF SeesAll, table
    <3> QED BY <3>1, <3>2 DEF GrantsAsGiven, table
  <2>5. ASSUME NEW a \in Users, NEW u \in Users, NEW on \in BOOLEAN,
               NEW G \in SUBSET Permissions, CreateTeacher(a, u, on, G)
        PROVE  Inv'
    <3>1. \A q \in Requests : pc[q] \in Granting => user[q] # u
      BY <2>5 DEF CreateTeacher, InFlight
    <3> QED BY <2>5, <3>1 DEF CreateTeacher, SeesAll, GrantsAsGiven, Granting
  <2>6. ASSUME \/ \E s \in Sessions : EndSession(s)
               \/ \E u \in Users : ResetPassword(u)
               \/ \E from, to \in Users : Transfer(from, to)
               \/ UNCHANGED vars
        PROVE  Inv'
    BY <2>6 DEF EndSession, ResetPassword, Transfer, table, vars, SeesAll, GrantsAsGiven
  <2> QED BY <2>1, <2>2, <2>3, <2>4, <2>5, <2>6 DEF Next, AtOnce, Proceed, ReadingOnly
<1> QED BY <1>1, <1>2, AccountsInvariant, PTL DEF Spec

\* No session outlives the password it was opened with.
THEOREM PasswordsEndSessions == Spec => []OldPasswordsExpire
<1>1. AccountsInv /\ OldPasswordsExpire /\ [Next]_vars => OldPasswordsExpire'
  <2> SUFFICES ASSUME AccountsInv, OldPasswordsExpire, [Next]_vars,
                      NEW s \in Sessions, holder'[s] # NoUser,
                      proof'[s] # password'[holder'[s]]
               PROVE  \/ s \in lapsed' \/ holder'[s] \in neglected'
                      \/ \E q \in Requests : pc'[q] = "revoke" /\ user'[q] = holder'[s]
    BY DEF OldPasswordsExpire
  <2> DEFINE Excused ==
               \/ s \in lapsed' \/ holder'[s] \in neglected'
               \/ \E q \in Requests : pc'[q] = "revoke" /\ user'[q] = holder'[s]
  <2> USE DEF AccountsInv, TypeOK
  <2>1. ASSUME holder'[s] = holder[s], proof'[s] = proof[s],
               password'[holder[s]] = password[holder[s]],
               s \in lapsed => s \in lapsed',
               holder[s] \in neglected => holder[s] \in neglected',
               \A q \in Requests : pc[q] = "revoke" =>
                 (pc'[q] = "revoke" /\ user'[q] = user[q]) \/ user[q] \in neglected'
        PROVE  Excused
    BY <2>1 DEF OldPasswordsExpire
  <2>2. ASSUME NEW q \in Requests, Arrive(q) PROVE Excused
    BY <2>1, <2>2, ArriveStep DEF logins
  <2>3. ASSUME NEW q \in Requests, ReadingOnly(q) \/ CommitGrants(q), pc[q] # "revoke" PROVE Excused
    <3>1. UNCHANGED logins /\ \A o \in Requests \ {q} : pc'[o] = pc[o] /\ user'[o] = user[o]
      BY <2>3 DEF ReadingOnly, EditSelect, EditCount, VerifyCurrent, DeleteGrants, LockGrants,
                  InsertGrants, Refused, CommitGrants, Goto, GotoRevoke, End
    <3> QED BY <2>1, <2>3, <3>1 DEF logins
  <2>4. ASSUME NEW q \in Requests, EditUpdate(q) \/ ChangePassword(q) PROVE Excused
    <3>1. CASE holder[s] = user[q] /\ pc'[q] = "revoke"
      <4>1. GotoRevoke(q) \/ End(q)
        BY <2>4 DEF EditUpdate, ChangePassword
      <4>2. user' = user
        BY <3>1, <4>1 DEF GotoRevoke, End
      <4>3. holder' = holder
        BY <2>4 DEF EditUpdate, ChangePassword
      <4> QED BY <3>1, <4>2, <4>3
    <3>2. CASE holder[s] # user[q] \/ pc'[q] # "revoke"
      <4>1. /\ UNCHANGED <<holder, proof, lapsed, neglected>> /\ pc[q] # "revoke"
            /\ \A o \in Requests \ {q} : pc'[o] = pc[o] /\ user'[o] = user[o]
        BY <2>4 DEF EditUpdate, ChangePassword, GotoRevoke, End
      <4>2. password'[holder[s]] = password[holder[s]]
        <5>1. CASE holder[s] # user[q]
          BY <2>4, <4>1, <5>1 DEF EditUpdate, ChangePassword
        <5>2. CASE pc'[q] # "revoke"
          BY <2>4, <5>2 DEF EditUpdate, ChangePassword, GotoRevoke, mustRevoke
        <5> QED BY <3>2, <5>1, <5>2
      <4> QED BY <2>1, <4>1, <4>2
    <3> QED BY <3>1, <3>2
  <2>5. ASSUME NEW q \in Requests, Revoke(q) PROVE Excused
    <3>1. holder[s] # user[q]
      BY <2>5 DEF Revoke, RevokeAll
    <3>2. /\ holder'[s] = holder[s] /\ proof'[s] = proof[s] /\ password' = password
          /\ neglected' = neglected \ {user[q]} /\ (s \in lapsed => s \in lapsed')
          /\ \A o \in Requests \ {q} : pc'[o] = pc[o] /\ user'[o] = user[o]
      BY <2>5, <3>1 DEF Revoke, RevokeAll, End
    <3> QED BY <3>1, <3>2 DEF OldPasswordsExpire
  <2>6. ASSUME NEW u \in Users, ResetPassword(u) PROVE Excused
    <3>1. holder[s] # u
      BY <2>6 DEF ResetPassword, RevokeAll
    <3>2. /\ holder'[s] = holder[s] /\ proof'[s] = proof[s] /\ UNCHANGED <<pc, user>>
          /\ password'[holder[s]] = password[holder[s]]
          /\ neglected' = neglected \ {u} /\ (s \in lapsed => s \in lapsed')
      BY <2>6, <3>1 DEF ResetPassword, RevokeAll
    <3> QED BY <3>1, <3>2 DEF OldPasswordsExpire
  <2>7. ASSUME NEW from \in Users, NEW to \in Users, Transfer(from, to) PROVE Excused
    <3>1. holder[s] \notin {from, to}
      BY <2>7 DEF Transfer
    <3>2. /\ holder'[s] = holder[s] /\ proof'[s] = proof[s] /\ UNCHANGED <<password, pc, user>>
          /\ neglected' = neglected \ {from, to} /\ (s \in lapsed => s \in lapsed')
      BY <2>7, <3>1 DEF Transfer
    <3> QED BY <3>1, <3>2 DEF OldPasswordsExpire
  <2>8. ASSUME NEW q \in Requests, NEW t \in Sessions, InsertSession(q, t) PROVE Excused
    <3>1. /\ UNCHANGED <<password, neglected>> /\ lapsed \subseteq lapsed' /\ pc[q] # "revoke"
          /\ \A o \in Requests \ {q} : pc'[o] = pc[o] /\ user'[o] = user[o]
          /\ \A r \in Sessions \ {t} : holder'[r] = holder[r] /\ proof'[r] = proof[r]
          /\ holder'[t] = user[q] /\ proof'[t] = typed[q]
          /\ typed[q] # password[user[q]] => t \in lapsed'
      BY <2>8 DEF InsertSession, End
    <3> QED BY <2>1, <3>1
  <2>9. ASSUME NEW t \in Sessions, EndSession(t) PROVE Excused
    BY <2>1, <2>9 DEF EndSession
  <2>10. ASSUME NEW q \in Requests, Abort(q) PROVE Excused
    <3>1. /\ UNCHANGED <<password, holder, proof, lapsed>> /\ neglected \subseteq neglected'
          /\ \A o \in Requests \ {q} : pc'[o] = pc[o] /\ user'[o] = user[o]
          /\ pc[q] = "revoke" => user[q] \in neglected'
      BY <2>10 DEF Abort, End
    <3> QED BY <2>1, <3>1
  <2>11. ASSUME NEW q \in Requests, NEW u \in Users, BootstrapInsert(q, u) PROVE Excused
    <3>1. /\ UNCHANGED logins /\ pc[q] # "revoke"
          /\ \A o \in Requests \ {q} : pc'[o] = pc[o] /\ user'[o] = user[o]
      BY <2>11 DEF BootstrapInsert, End
    <3> QED BY <2>1, <3>1 DEF logins
  <2>12. ASSUME UNCHANGED <<logins, pc, user>> PROVE Excused
    BY <2>1, <2>12 DEF logins
  <2>13. ASSUME \/ UNCHANGED vars
                \/ \E a, u \in Users, on \in BOOLEAN, G \in SUBSET Permissions :
                     CreateTeacher(a, u, on, G)
         PROVE  Excused
    BY <2>12, <2>13 DEF vars, logins, CreateTeacher
  <2>14. ASSUME NEW q \in Requests, Proceed(q) PROVE Excused
    BY <2>3, <2>4, <2>5, <2>8, <2>10, <2>11, <2>14
       DEF Proceed, ReadingOnly, EditSelect, EditCount, VerifyCurrent, DeleteGrants,
           LockGrants, InsertGrants, CommitGrants
  <2> QED BY <2>2, <2>6, <2>7, <2>9, <2>13, <2>14 DEF Next, AtOnce
<1> QED BY <1>1, InitAccounts, AccountsInvariant, PTL DEF Spec
=============================================================================
