----------------------- MODULE ResourceLifecycleProofs -----------------------
(***************************************************************************)
(* Theorems about ResourceLifecycle, for any sets of accounts, resources,  *)
(* files and handlers in flight, with or without failing statements.       *)
(*                                                                         *)
(* TypeOK alone is not inductive: what a handler writes comes out of its   *)
(* memory, so the invariant has to say what each program counter has       *)
(* already established (HandlerOK).  The same conjunct carries the         *)
(* authorisation result from the first statement of a handler to its last. *)
(*                                                                         *)
(* In this order: types and entitlement; one decision per submission;      *)
(* reasons of rejections; the refinement of Publication; and, with the     *)
(* history of ResourceRaces, what only an overtaken handler can break.     *)
(***************************************************************************)
EXTENDS PublicationRefinement, ResourceRaces, TLAPS

\* u may put a resource of this owner on line without using force.
Entitled(u, owner) == u \in Admins \/ (u \in Publishers /\ u # owner)

\* What the checks a handler has passed say about its memory h, given the
\* rows t: this is what makes its later statements well typed and entitled.
HandlerOK(h, t) ==
  /\ h \in HandlerType
  /\ h.pc # "idle" => h.user \in Users
  /\ h.pc \notin {"idle", "insert"} =>
       h.res \in Resources /\ t[h.res].state # "absent"
  /\ h.pc \in {"read", "write", "log", "force"} => h.to \in Statuses
  /\ h.pc = "count" => h.to = "PENDING_REVIEW"
  /\ h.pc \in {"forceRecall", "logRecall"} => h.to = "RECALLED"
  /\ h.pc = "edit" =>
       /\ h.from \in Statuses
       /\ bumpVersion(h.from) => h.version \in 1..(MaxVersion - 1)
  /\ h.pc = "register" => h.file \in FileIds
  /\ h.pc \in {"read", "write"} /\ h.to = "PUBLISHED" =>
       Entitled(h.user, t[h.res].owner)
  /\ h.pc = "force" => h.user \in Admins

\* The inductive invariant.
IInv ==
  /\ TypeOK
  /\ PublishedByEntitled
  /\ \A q \in Requests : HandlerOK(req[q], row)

\* A row never becomes absent again, and keeps its uploader.
RowsKept ==
  \A r \in Resources :
    row[r].state # "absent" => row'[r].state # "absent" /\ row'[r].owner = row[r].owner

-----------------------------------------------------------------------------
(* What handlers look like. *)

\* An idle handler satisfies its part of the invariant whatever the rows are.
LEMMA IdleOK == ASSUME NEW t PROVE HandlerOK(Idle, t)
  BY LifecycleAssumption DEF HandlerOK, Idle, HandlerType, Pcs, Statuses

\* So a step that ends with handler memory h in slot q, and keeps the rows,
\* preserves what the invariant says of all handlers.
LEMMA HandlersKept ==
  ASSUME TypeOK, \A q \in Requests : HandlerOK(req[q], row),
         NEW q \in Requests, NEW h,
         req' = [req EXCEPT ![q] = h], HandlerOK(h, row'), RowsKept
  PROVE  req' \in [Requests -> HandlerType] /\ \A p \in Requests : HandlerOK(req'[p], row')
<1>1. h \in HandlerType
  BY DEF HandlerOK
<1>2. req' \in [Requests -> HandlerType]
  BY <1>1 DEF TypeOK
<1>3. ASSUME NEW p \in Requests PROVE HandlerOK(req'[p], row')
  <2>1. CASE p = q
    BY <2>1 DEF TypeOK
  <2>2. CASE p # q
    <3>1. req'[p] = req[p] /\ HandlerOK(req[p], row)
      BY <2>2 DEF TypeOK
    <3>2. QED
      BY <3>1 DEF HandlerOK, RowsKept
  <2>3. QED
    BY <2>1, <2>2
<1>4. QED
  BY <1>2, <1>3

\* A handler that takes its first step changes nothing but its own slot.
LEMMA StartKeepsIInv ==
  ASSUME IInv, NEW q \in Requests, NEW h, HandlerOK(h, row),
         req' = [req EXCEPT ![q] = h], UNCHANGED <<table, ghosts>>
  PROVE  IInv'
<1>1. row' = row /\ RowsKept
  BY DEF table, RowsKept
<1>2. req' \in [Requests -> HandlerType] /\ \A p \in Requests : HandlerOK(req'[p], row')
  BY <1>1, HandlersKept DEF IInv
<1>3. TypeOK'
  BY <1>2 DEF IInv, TypeOK, table, ghosts
<1>4. PublishedByEntitled'
  BY <1>1 DEF IInv, PublishedByEntitled, ghosts
<1>5. QED
  BY <1>2, <1>3, <1>4 DEF IInv

\* A fresh handler: its memory is Idle but for the fields the call sets.
LEMMA FreshHandler ==
  ASSUME NEW pc \in Pcs, NEW u \in Users, NEW r \in Resources \cup {"none"}
  PROVE  /\ Handler(pc, u, r) \in HandlerType
         /\ Handler(pc, u, r).pc = pc
         /\ Handler(pc, u, r).user = u
         /\ Handler(pc, u, r).res = r
<1>1. Idle \in HandlerType
  BY LifecycleAssumption DEF Idle, HandlerType
<1>2. QED
  BY <1>1 DEF Handler, HandlerType

-----------------------------------------------------------------------------
(* First steps of handlers. *)

\* Every first step stores a handler whose memory reflects its checks.
LEMMA ArriveKeepsIInv ==
  ASSUME IInv, NEW q \in Requests, Arrive(q)
  PROVE  IInv'
<1> PICK u \in Users : Arrive(q)!(u)
  BY DEF Arrive
<1> USE DEF Start, HandlerOK
<1>1. CASE BeginCreate(q, u)
  <2>1. HandlerOK(Handler("insert", u, "none"), row)
    BY FreshHandler DEF Pcs
  <2>2. QED
    BY <1>1, <2>1, StartKeepsIInv DEF BeginCreate
<1>2. ASSUME NEW r \in Resources, BeginEdit(q, u, r)
      PROVE IInv'
  <2> DEFINE h == [Handler("edit", u, r) EXCEPT !.from = row[r].status,
                                                !.version = row[r].version]
  <2>1. row[r].status \in Statuses /\ row[r].version \in 1..MaxVersion
    BY DEF IInv, TypeOK, Row
  <2>2. h.pc = "edit" /\ h.user = u /\ h.res = r /\ h.from = row[r].status
        /\ h.version = row[r].version
    BY FreshHandler DEF Pcs, HandlerType
  <2>3. h \in HandlerType
    <3>1. Handler("edit", u, r) \in HandlerType
      BY FreshHandler DEF Pcs
    <3>2. row[r].version \in 0..MaxVersion
      BY <2>1, LifecycleAssumption
    <3>3. QED
      BY <2>1, <3>1, <3>2 DEF HandlerType
  <2>4. HandlerOK(h, row)
    <3> HIDE DEF h
    <3>1. bumpVersion(h.from) => h.version \in 1..(MaxVersion - 1)
      <4>1. bumpVersion(row[r].status) => row[r].version < MaxVersion
        BY <1>2 DEF BeginEdit
      <4>2. row[r].version < MaxVersion => row[r].version \in 1..(MaxVersion - 1)
        BY <2>1, LifecycleAssumption
      <4>3. QED
        BY <2>2, <4>1, <4>2
    <3>2. QED
      BY <1>2, <2>1, <2>2, <2>3, <3>1 DEF BeginEdit, Live
  <2>5. QED
    BY <1>2, <2>4, StartKeepsIInv DEF BeginEdit
<1>3. ASSUME NEW r \in Resources, BeginSubmit(q, u, r)
      PROVE IInv'
  <2>1. HandlerOK([Handler("count", u, r) EXCEPT !.to = "PENDING_REVIEW"], row)
    BY <1>3, FreshHandler DEF BeginSubmit, Live, Pcs, HandlerType, Statuses
  <2>2. QED
    BY <1>3, <2>1, StartKeepsIInv DEF BeginSubmit
<1>4. ASSUME NEW r \in Resources, NEW to \in Statuses, BeginReview(q, u, r, to)
      PROVE IInv'
  <2>1. HandlerOK([Handler("read", u, r) EXCEPT !.to = to], row)
    BY <1>4, FreshHandler
    DEF BeginReview, MayDecide, Entitled, Live, Pcs, HandlerType, Statuses
  <2>2. QED
    BY <1>4, <2>1, StartKeepsIInv DEF BeginReview
<1>5. ASSUME NEW r \in Resources, NEW to \in Statuses, BeginForce(q, u, r, to)
      PROVE IInv'
  <2>1. row[r].status \in Statuses
    BY DEF IInv, TypeOK, Row
  <2> DEFINE h == [Handler("force", u, r) EXCEPT !.from = row[r].status, !.to = to]
  <2>2. h.pc = "force" /\ h.user = u /\ h.res = r /\ h.to = to
    BY FreshHandler DEF Pcs, HandlerType
  <2>3. h \in HandlerType
    <3>1. Handler("force", u, r) \in HandlerType
      BY FreshHandler DEF Pcs
    <3>2. QED
      BY <2>1, <3>1 DEF HandlerType
  <2>4. HandlerOK(h, row)
    <3> HIDE DEF h
    <3>1. QED
      BY <1>5, <2>2, <2>3 DEF BeginForce, Live
  <2>5. QED
    BY <1>5, <2>4, StartKeepsIInv DEF BeginForce
<1>6. ASSUME NEW r \in Resources, BeginRecall(q, u, r)
      PROVE IInv'
  <2>1. HandlerOK([Handler("read", u, r) EXCEPT !.to = "RECALLED"], row)
    BY <1>6, FreshHandler DEF BeginRecall, Live, Pcs, HandlerType, Statuses
  <2>2. QED
    BY <1>6, <2>1, StartKeepsIInv DEF BeginRecall
<1>7. ASSUME NEW r \in Resources, BeginDelete(q, u, r)
      PROVE IInv'
  <2>1. HandlerOK(Handler("erase", u, r), row)
    BY <1>7, FreshHandler DEF BeginDelete, Live, Pcs
  <2>2. HandlerOK([Handler("forceRecall", u, r) EXCEPT !.to = "RECALLED"], row)
    BY <1>7, FreshHandler DEF BeginDelete, Live, Pcs, HandlerType, Statuses
  <2>3. QED
    BY <1>7, <2>1, <2>2, StartKeepsIInv DEF BeginDelete
<1>8. ASSUME NEW r \in Resources, BeginRestore(q, u, r) \/ BeginPurge(q, u, r)
      PROVE IInv'
  <2>1. /\ HandlerOK(Handler("restore", u, r), row)
        /\ HandlerOK(Handler("purge", u, r), row)
    BY <1>8, FreshHandler DEF BeginRestore, BeginPurge, Pcs
  <2>2. QED
    BY <1>8, <2>1, StartKeepsIInv DEF BeginRestore, BeginPurge
<1>9. ASSUME NEW r \in Resources, NEW f \in FileIds,
             BeginRegister(q, u, r, f) \/ BeginRemove(q, u, r, f)
      PROVE IInv'
  <2>1. /\ HandlerOK([Handler("register", u, r) EXCEPT !.file = f], row)
        /\ HandlerOK([Handler("unfile", u, r) EXCEPT !.file = f], row)
    BY <1>9, FreshHandler DEF BeginRegister, BeginRemove, Live, Pcs, HandlerType
  <2>2. QED
    BY <1>9, <2>1, StartKeepsIInv DEF BeginRegister, BeginRemove
<1>10. QED
  BY <1>1, <1>2, <1>3, <1>4, <1>5, <1>6, <1>7, <1>8, <1>9

-----------------------------------------------------------------------------
(* Later steps of handlers. *)

OriginTyped == origin \in [Resources -> {"none", "flow", "force", "edit"}]

\* What a later step has to show beyond the memory it leaves behind.
LEMMA StepKeepsIInv ==
  ASSUME IInv, NEW q \in Requests, NEW h,
         req' = [req EXCEPT ![q] = h], HandlerOK(h, row'),
         RowsKept, row' \in [Resources -> Row],
         files' \in [Resources -> SUBSET FileIds],
         explained' \in [Resources -> BOOLEAN],
         UNCHANGED <<dir, publisher, decided>>, OriginTyped',
         \A r \in Resources :
           row'[r].status = "PUBLISHED" =>
             row[r].status = "PUBLISHED" /\ row'[r].owner = row[r].owner
  PROVE  IInv'
<1>1. req' \in [Requests -> HandlerType] /\ \A p \in Requests : HandlerOK(req'[p], row')
  BY HandlersKept DEF IInv
<1>2. TypeOK'
  BY <1>1 DEF IInv, TypeOK, OriginTyped
<1>3. PublishedByEntitled'
  <2> SUFFICES ASSUME NEW r \in Resources, row'[r].status = "PUBLISHED"
               PROVE  \/ publisher[r].by \in Admins
                      \/ /\ publisher[r].by \in Publishers
                         /\ publisher[r].by # row'[r].owner
                         /\ ~publisher[r].forced
    BY DEF PublishedByEntitled
  <2>1. row[r].status = "PUBLISHED" /\ row'[r].owner = row[r].owner
    OBVIOUS
  <2>2. QED
    BY <2>1 DEF IInv, PublishedByEntitled
<1>4. QED
  BY <1>1, <1>2, <1>3 DEF IInv

\* A status that a handler writes with the history that goes with it: entering
\* PUBLISHED takes an entitled account, or an administrator's force.
LEMMA StatusWriteKeepsIInv ==
  ASSUME IInv, NEW q \in Requests, NEW h,
         req' = [req EXCEPT ![q] = h], HandlerOK(h, row'),
         NEW r \in Resources, row[r].state # "absent",
         NEW u \in Users, NEW to \in Statuses, NEW forced \in BOOLEAN,
         SetStatus(r, to), Record(r, u, to, forced), UNCHANGED <<files, dir>>,
         to = "PUBLISHED" => u \in Admins \/ (~forced /\ Entitled(u, row[r].owner))
  PROVE  IInv'
<1> DEFINE e == [row[r] EXCEPT !.status = to]
<1>a. row \in [Resources -> Row] /\ row' = [row EXCEPT ![r] = e]
  BY DEF IInv, TypeOK, SetStatus
<1>b. e \in Row /\ e.owner = row[r].owner /\ e.state = row[r].state /\ e.status = to
  BY <1>a DEF Row
<1> HIDE DEF e
<1>1. row' \in [Resources -> Row]
  BY <1>a, <1>b
<1>2. \A s \in Resources : /\ row'[s].owner = row[s].owner /\ row'[s].state = row[s].state
                           /\ row'[s].status = IF s = r THEN to ELSE row[s].status
  BY <1>a, <1>b
<1>3. req' \in [Requests -> HandlerType] /\ \A p \in Requests : HandlerOK(req'[p], row')
  <2>1. RowsKept
    BY <1>2 DEF RowsKept
  <2>2. QED
    BY <2>1, HandlersKept DEF IInv
<1>4. /\ publisher' \in [Resources -> [by : Users \cup {NoUser}, forced : BOOLEAN]]
      /\ \A s \in Resources :
           publisher'[s] = CASE s # r -> publisher[s]
                             [] s = r /\ to = "PUBLISHED" -> [by |-> u, forced |-> forced]
                             [] s = r /\ to # "PUBLISHED" -> [by |-> NoUser, forced |-> FALSE]
  BY DEF IInv, TypeOK, Record
<1>5. /\ decided' \in [Resources -> BOOLEAN]
      /\ explained' \in [Resources -> BOOLEAN]
  <2>1. decided \in [Resources -> BOOLEAN] /\ explained \in [Resources -> BOOLEAN]
    BY DEF IInv, TypeOK
  <2>2. QED
    BY <2>1 DEF Record
<1>6. origin' \in [Resources -> {"none", "flow", "force", "edit"}]
  BY DEF IInv, TypeOK, Record
<1>7. TypeOK'
  BY <1>1, <1>3, <1>4, <1>5, <1>6 DEF IInv, TypeOK
<1>8. PublishedByEntitled'
  <2> SUFFICES ASSUME NEW s \in Resources, row'[s].status = "PUBLISHED"
               PROVE  \/ publisher'[s].by \in Admins
                      \/ /\ publisher'[s].by \in Publishers
                         /\ publisher'[s].by # row'[s].owner
                         /\ ~publisher'[s].forced
    BY DEF PublishedByEntitled
  <2>1. CASE s = r
    BY <2>1, <1>2, <1>4 DEF Entitled
  <2>2. CASE s # r
    BY <2>2, <1>2, <1>4 DEF IInv, PublishedByEntitled
  <2>3. QED
    BY <2>1, <2>2
<1>9. QED
  BY <1>3, <1>7, <1>8 DEF IInv

\* Moving on to the next statement keeps the rest of the handler's memory.
LEMMA GotoIs ==
  ASSUME TypeOK, NEW q \in Requests, NEW pc \in Pcs, Goto(q, pc),
         req[q] \in HandlerType
  PROVE  LET h == [req[q] EXCEPT !.pc = pc]
         IN /\ req' = [req EXCEPT ![q] = h]
            /\ h \in HandlerType
            /\ h.pc = pc /\ h.user = req[q].user /\ h.res = req[q].res
            /\ h.to = req[q].to /\ h.from = req[q].from
<1>1. req' = [req EXCEPT ![q] = [req[q] EXCEPT !.pc = pc]]
  BY DEF Goto, TypeOK
<1>2. QED
  BY <1>1 DEF HandlerType

\* A row write that puts nothing on line: rows keep their type, their uploader
\* and, where they are PUBLISHED, have been so before.
Mild ==
  /\ row' \in [Resources -> Row]
  /\ RowsKept
  /\ \A r \in Resources :
       row'[r].status = "PUBLISHED" =>
         row[r].status = "PUBLISHED" /\ row'[r].owner = row[r].owner

LEMMA NoWriteMild == ASSUME TypeOK, row' = row PROVE Mild
  BY DEF Mild, RowsKept, TypeOK

LEMMA RowWriteMild ==
  ASSUME TypeOK, NEW r \in Resources, NEW e \in Row,
         row' = [row EXCEPT ![r] = e],
         e.state # "absent",
         row[r].state # "absent" => e.owner = row[r].owner,
         e.status = "PUBLISHED" => row[r].status = "PUBLISHED" /\ e.owner = row[r].owner
  PROVE  Mild
<1>1. row' \in [Resources -> Row]
  BY DEF TypeOK
<1>2. \A s \in Resources : row'[s] = IF s = r THEN e ELSE row[s]
  BY DEF TypeOK
<1>3. QED
  BY <1>1, <1>2 DEF Mild, RowsKept

\* The statements that write a row without moving it through the workflow.
LEMMA RowWritesKeepIInv ==
  ASSUME IInv, NEW q \in Requests,
         \/ InsertResource(q) \/ EditWrite(q) \/ Erase(q) \/ RestoreWrite(q)
         \/ PurgeDelete(q)
  PROVE  IInv'
<1>a. HandlerOK(req[q], row) /\ TypeOK
  BY DEF IInv
<1>b. req' = [req EXCEPT ![q] = Idle]
  BY DEF InsertResource, EditWrite, Erase, RestoreWrite, PurgeDelete, Finish
<1>c. ASSUME NEW r \in Resources PROVE row[r] \in Row
  BY <1>a DEF TypeOK
<1>d. ASSUME Mild, UNCHANGED <<files, explained, dir, publisher, decided>>, OriginTyped'
      PROVE IInv'
  BY <1>a, <1>b, <1>d, IdleOK, StepKeepsIInv DEF Mild, TypeOK
<1>e. OriginTyped'
  BY <1>a
  DEF InsertResource, EditWrite, Erase, RestoreWrite, PurgeDelete, ghosts, TypeOK, OriginTyped
<1>1. CASE InsertResource(q)
  <2>1. req[q].user \in Users /\ FirstVersion \in 1..MaxVersion
    BY <1>1, <1>a, LifecycleAssumption DEF InsertResource, HandlerOK, FirstVersion
  <2> DEFINE e == [state |-> "live", owner |-> req[q].user,
                   status |-> "DRAFT", version |-> FirstVersion]
  <2>2. e \in Row
    BY <2>1 DEF Row, Statuses
  <2>3. CASE row' = row
    BY <1>1, <1>a, <1>d, <1>e, <2>3, NoWriteMild DEF InsertResource, ghosts
  <2>4. ASSUME NEW r \in Resources, row[r].state = "absent", row' = [row EXCEPT ![r] = e]
        PROVE IInv'
    <3>1. Mild
      BY <1>a, <2>2, <2>4, RowWriteMild
    <3>2. QED
      BY <1>1, <1>d, <1>e, <3>1 DEF InsertResource, ghosts
  <2>5. QED
    BY <1>1, <2>3, <2>4 DEF InsertResource
<1>2. CASE EditWrite(q)
  <2> DEFINE from == req[q].from
             r == req[q].res
             v == IF bumpVersion(from) THEN nextVersion(req[q].version) ELSE row[r].version
             e == [row[r] EXCEPT !.status = editOutcomeFor(from), !.version = v]
  <2>1. r \in Resources /\ from \in Statuses /\ row[r].state # "absent"
    BY <1>2, <1>a DEF EditWrite, HandlerOK
  <2>2. v \in 1..MaxVersion
    <3>1. row[r].version \in 1..MaxVersion
      BY <1>c, <2>1 DEF Row
    <3>2. bumpVersion(from) => req[q].version \in 1..(MaxVersion - 1)
      BY <1>2, <1>a DEF EditWrite, HandlerOK
    <3>3. bumpVersion(from) => nextVersion(req[q].version) \in 1..MaxVersion
      BY <3>2, LifecycleAssumption DEF nextVersion
    <3>4. QED
      BY <3>1, <3>3
  <2>3. editOutcomeFor(from) \in {"DRAFT", "PENDING_REVIEW"}
    BY <2>1 DEF editOutcomeFor, Statuses
  <2>4. row' = row \/ row' = [row EXCEPT ![r] = e]
    BY <1>2, <1>a, <2>1 DEF EditWrite, TypeOK, Row
  <2>5. e \in Row /\ e.state = row[r].state /\ e.owner = row[r].owner
        /\ e.status = editOutcomeFor(from)
    <3> HIDE DEF v
    <3>1. row[r] \in Row /\ editOutcomeFor(from) \in Statuses
      BY <1>c, <2>1, <2>3 DEF Statuses
    <3>2. QED
      BY <2>2, <3>1 DEF Row
  <2>6. Mild
    <3> HIDE DEF e, r, from
    <3>1. QED
      BY <1>a, <2>1, <2>3, <2>4, <2>5, RowWriteMild, NoWriteMild
  <2>7. QED
    <3>1. UNCHANGED <<files, explained, dir, publisher, decided>>
      BY <1>2 DEF EditWrite
    <3>2. QED
      BY <1>d, <1>e, <2>6, <3>1
<1>3. CASE Erase(q) \/ RestoreWrite(q) \/ PurgeDelete(q)
  <2> DEFINE r == req[q].res
             e(s) == [row[r] EXCEPT !.state = s]
  <2>1. r \in Resources /\ row[r].state # "absent"
    BY <1>3, <1>a DEF Erase, RestoreWrite, PurgeDelete, HandlerOK
  <2>2. ASSUME NEW s \in {"bin", "live", "purged"}, row' = [row EXCEPT ![r] = e(s)]
        PROVE Mild
    <3>1. e(s) \in Row /\ e(s).state = s /\ e(s).owner = row[r].owner
          /\ e(s).status = row[r].status
      BY <1>c, <2>1 DEF Row
    <3>2. QED
      BY <1>a, <2>1, <2>2, <3>1, RowWriteMild
  <2>3. \/ row' = row
        \/ \E s \in {"bin", "live", "purged"} : row' = [row EXCEPT ![r] = e(s)]
    BY <1>3, <1>a, <2>1 DEF Erase, RestoreWrite, PurgeDelete
  <2>4. Mild
    BY <1>a, <2>2, <2>3, NoWriteMild
  <2>5. files' \in [Resources -> SUBSET FileIds] /\ explained' \in [Resources -> BOOLEAN]
    BY <1>3, <1>a DEF Erase, RestoreWrite, PurgeDelete, TypeOK
  <2>6. UNCHANGED <<dir, publisher, decided>>
    BY <1>3 DEF Erase, RestoreWrite, PurgeDelete, ghosts
  <2>7. QED
    BY <1>a, <1>b, <1>e, <2>4, <2>5, <2>6, IdleOK, StepKeepsIInv DEF Mild
<1>4. QED
  BY <1>1, <1>2, <1>3

\* The three conditional UPDATEs of the workflow.
LEMMA StatusWritesKeepIInv ==
  ASSUME IInv, NEW q \in Requests,
         TransitionWrite(q) \/ ForceWrite(q) \/ ForceRecall(q)
  PROVE  IInv'
<1> DEFINE r == req[q].res
           u == req[q].user
           to == req[q].to
           on(pc) == [req[q] EXCEPT !.pc = pc]
<1>1. HandlerOK(req[q], row) /\ TypeOK /\ req[q] \in HandlerType
  BY DEF IInv, HandlerOK
<1>2. /\ r \in Resources /\ row[r].state # "absent"
      /\ u \in Users /\ to \in Statuses
      /\ ForceRecall(q) => to = "RECALLED"
  BY <1>1 DEF TransitionWrite, ForceWrite, ForceRecall, HandlerOK, Statuses
<1>3. \/ to # "PUBLISHED"
      \/ TransitionWrite(q) /\ Entitled(u, row[r].owner)
      \/ ForceWrite(q) /\ u \in Admins
  BY <1>1, <1>2 DEF TransitionWrite, ForceWrite, HandlerOK
\* A write that does not find the row as it was read changes nothing.
<1>4. ASSUME Finish(q), UNCHANGED <<row, explained, ghosts>>, UNCHANGED <<files, dir>>
      PROVE IInv'
  BY <1>1, <1>4, IdleOK, NoWriteMild, StepKeepsIInv
  DEF Finish, Mild, TypeOK, ghosts, OriginTyped
\* One that does leaves a handler about to log it, or none.
<1>5. ASSUME NEW pc \in {"log", "logRecall"}, Goto(q, pc),
             SetStatus(r, to), pc = "logRecall" => to = "RECALLED"
      PROVE req' = [req EXCEPT ![q] = on(pc)] /\ HandlerOK(on(pc), row')
  <2>1. /\ req' = [req EXCEPT ![q] = on(pc)]
        /\ on(pc) \in HandlerType
        /\ on(pc).pc = pc /\ on(pc).user = u /\ on(pc).res = r /\ on(pc).to = to
    <3>1. pc \in Pcs
      BY <1>5 DEF Pcs
    <3>2. QED
      BY <1>1, <1>5, <3>1, GotoIs
  <2>2. row'[r].state # "absent"
    BY <1>1, <1>2, <1>5 DEF SetStatus, TypeOK, Row
  <2>3. QED
    <3> HIDE DEF on, r, u, to
    <3>1. QED
      BY <1>2, <1>5, <2>1, <2>2 DEF HandlerOK
<1> HIDE DEF r, u, to, on
<1>6. CASE TransitionWrite(q)
  <2>1. CASE SetStatus(r, to) /\ Record(r, u, to, FALSE) /\ Goto(q, "log")
    BY <1>2, <1>3, <1>5, <1>6, <2>1, StatusWriteKeepsIInv
    DEF TransitionWrite, ForceWrite, Entitled
  <2>2. QED
    BY <1>4, <1>6, <2>1 DEF TransitionWrite, r, u, to
<1>7. CASE ForceWrite(q)
  <2>1. CASE SetStatus(r, to) /\ Record(r, u, to, TRUE) /\ Goto(q, "log")
    BY <1>2, <1>3, <1>5, <1>7, <2>1, StatusWriteKeepsIInv DEF ForceWrite, TransitionWrite
  <2>2. CASE SetStatus(r, to) /\ Record(r, u, to, TRUE) /\ Finish(q)
    BY <1>2, <1>3, <1>7, <2>2, IdleOK, StatusWriteKeepsIInv
    DEF ForceWrite, TransitionWrite, Finish
  <2>3. QED
    BY <1>4, <1>7, <2>1, <2>2 DEF ForceWrite, r, u, to
<1>8. CASE ForceRecall(q)
  <2>1. CASE SetStatus(r, to) /\ Record(r, u, to, FALSE) /\ Goto(q, "logRecall")
    BY <1>2, <1>5, <1>8, <2>1, StatusWriteKeepsIInv DEF ForceRecall
  <2>2. QED
    BY <1>2, <1>4, <1>8, <2>1 DEF ForceRecall, r, u
<1>9. QED
  BY <1>6, <1>7, <1>8

\* The statements that leave the rows of table resources alone.
LEMMA OtherStepsKeepIInv ==
  ASSUME IInv, NEW q \in Requests,
         \/ CountFiles(q) \/ TransitionRead(q) \/ LogReview(q)
         \/ RegisterInsert(q) \/ RemoveDelete(q) \/ Abort(q)
  PROVE  IInv'
<1>1. HandlerOK(req[q], row) /\ TypeOK /\ req[q] \in HandlerType
  BY DEF IInv, HandlerOK
<1>2. Mild
  BY <1>1, NoWriteMild
  DEF CountFiles, TransitionRead, LogReview, RegisterInsert, RemoveDelete, Abort, table
<1>3. /\ files' \in [Resources -> SUBSET FileIds]
      /\ explained' \in [Resources -> BOOLEAN]
      /\ UNCHANGED <<row, dir, ghosts>>
  <2>1. CASE CountFiles(q) \/ TransitionRead(q) \/ Abort(q)
    BY <1>1, <2>1 DEF CountFiles, TransitionRead, Abort, table, TypeOK
  <2>2. CASE LogReview(q)
    BY <1>1, <2>2 DEF LogReview, TypeOK
  <2>3. CASE RegisterInsert(q)
    BY <1>1, <2>3 DEF RegisterInsert, TypeOK, HandlerOK
  <2>4. CASE RemoveDelete(q)
    BY <1>1, <2>4 DEF RemoveDelete, TypeOK
  <2>5. QED
    BY <2>1, <2>2, <2>3, <2>4
<1>4. ASSUME NEW h, req' = [req EXCEPT ![q] = h], HandlerOK(h, row)
      PROVE IInv'
  <2>1. UNCHANGED <<dir, publisher, decided>> /\ OriginTyped'
    BY <1>1, <1>3 DEF ghosts, TypeOK, OriginTyped
  <2>2. QED
    BY <1>2, <1>3, <1>4, <2>1, StepKeepsIInv DEF Mild
<1>5. CASE Finish(q)
  BY <1>4, <1>5, IdleOK DEF Finish
<1>6. CASE CountFiles(q) /\ Goto(q, "read")
  <2> DEFINE h == [req[q] EXCEPT !.pc = "read"]
  <2>1. req' = [req EXCEPT ![q] = h] /\ h \in HandlerType
        /\ h.pc = "read" /\ h.user = req[q].user /\ h.res = req[q].res
        /\ h.to = req[q].to
    BY <1>1, <1>6, GotoIs DEF Pcs
  <2>2. req[q].pc = "count" /\ "PENDING_REVIEW" \in Statuses
    BY <1>6 DEF CountFiles, Statuses
  <2>3. HandlerOK(h, row)
    <3> HIDE DEF h
    <3>1. QED
      BY <1>1, <2>1, <2>2 DEF HandlerOK
  <2>4. QED
    BY <1>4, <2>1, <2>3
<1>7. CASE TransitionRead(q) /\ ~Finish(q)
  <2> DEFINE h == [req[q] EXCEPT !.pc = "write", !.from = row[req[q].res].status]
  <2>1. req' = [req EXCEPT ![q] = h]
    BY <1>1, <1>7 DEF TransitionRead, TypeOK
  <2>2. req[q].pc = "read" /\ row[req[q].res].status \in Statuses
    BY <1>1, <1>7 DEF TransitionRead, HandlerOK, TypeOK, Row
  <2>3. /\ h \in HandlerType /\ h.pc = "write" /\ h.user = req[q].user
        /\ h.res = req[q].res /\ h.to = req[q].to
    BY <1>1, <2>2 DEF HandlerType, Pcs
  <2>4. HandlerOK(h, row)
    <3> HIDE DEF h
    <3>1. QED
      BY <1>1, <2>2, <2>3 DEF HandlerOK
  <2>5. QED
    BY <1>4, <2>1, <2>4
<1>8. CASE LogReview(q) /\ req[q].pc = "logRecall" /\ Goto(q, "erase")
  <2> DEFINE h == [req[q] EXCEPT !.pc = "erase"]
  <2>1. req' = [req EXCEPT ![q] = h] /\ h \in HandlerType
        /\ h.pc = "erase" /\ h.user = req[q].user /\ h.res = req[q].res
    BY <1>1, <1>8, GotoIs DEF Pcs
  <2>2. HandlerOK(h, row)
    <3> HIDE DEF h
    <3>1. QED
      BY <1>1, <1>8, <2>1 DEF HandlerOK
  <2>3. QED
    BY <1>4, <2>1, <2>2
<1>9. QED
  BY <1>5, <1>6, <1>7, <1>8
  DEF CountFiles, TransitionRead, LogReview, RegisterInsert, RemoveDelete, Abort

-----------------------------------------------------------------------------
(* The invariant. *)

\* IInv holds initially and every step keeps it.
LEMMA Inductive == Spec => []IInv
<1>1. Init => IInv
  BY LifecycleAssumption, IdleOK
  DEF Init, IInv, TypeOK, Row, Statuses, PublishedByEntitled, HandlerOK
<1>2. IInv /\ [Next]_vars => IInv'
  <2> SUFFICES ASSUME IInv, [Next]_vars PROVE IInv'
    OBVIOUS
  <2>1. ASSUME NEW q \in Requests, Proceed(q) PROVE IInv'
    BY <2>1, RowWritesKeepIInv, StatusWritesKeepIInv, OtherStepsKeepIInv DEF Proceed
  <2>2. CASE ToggleDirectory
    <3>1. dir' \in [own : BOOLEAN, above : BOOLEAN]
      BY <2>2 DEF ToggleDirectory, IInv, TypeOK
    <3>2. QED
      BY <2>2, <3>1
      DEF ToggleDirectory, IInv, TypeOK, PublishedByEntitled, HandlerOK, ghosts
  <2>3. CASE UNCHANGED vars
    BY <2>3 DEF vars, IInv, TypeOK, PublishedByEntitled, HandlerOK
  <2>4. QED
    BY <2>1, <2>2, <2>3, ArriveKeepsIInv, OtherStepsKeepIInv DEF Next
<1>3. QED
  BY <1>1, <1>2, PTL DEF Spec

\* Every variable keeps its type: each statement a handler issues from memory
\* is well formed (rows, versions within bounds, files of existing ids).
THEOREM TypeCorrect == Spec => []TypeOK
<1>1. IInv => TypeOK
  BY DEF IInv
<1>2. QED
  BY <1>1, Inductive, PTL

\* However handlers overlap, fail, edit, delete and restore: what is PUBLISHED
\* was put there by a publisher other than its uploader, or an administrator.
THEOREM OnlyEntitledPublish == Spec => []PublishedByEntitled
<1>1. IInv => PublishedByEntitled
  BY DEF IInv
<1>2. QED
  BY <1>1, Inductive, PTL

-----------------------------------------------------------------------------
(* One decision per submission. *)

\* A resource under review is undecided, unless an edit wrote the status back.
Undecided(r) == ~decided[r] \/ origin[r] = "edit"

\* And a handler about to decide read it under review.
DeskInv ==
  /\ \A q \in Requests :
       req[q].pc = "write" /\ req[q].to \in {"PUBLISHED", "REJECTED"} =>
         req[q].from = "PENDING_REVIEW"
  /\ \A r \in Resources : row[r].status = "PENDING_REVIEW" => Undecided(r)

\* No handler starts at the conditional write.
LEMMA ArriveAtDesk ==
  ASSUME NEW q \in Requests, Arrive(q)
  PROVE  /\ UNCHANGED <<row, decided, origin>>
         /\ \E h : req' = [req EXCEPT ![q] = h] /\ h.pc # "write"
<1> PICK u \in Users : Arrive(q)!(u)
  BY DEF Arrive
<1> DEFINE Good(h) == req' = [req EXCEPT ![q] = h] /\ h.pc # "write"
<1>1. ASSUME NEW r \in Resources, BeginEdit(q, u, r)
      PROVE  UNCHANGED <<row, decided, origin>> /\ \E h : Good(h)
  <2> DEFINE h == [Handler("edit", u, r) EXCEPT !.from = row[r].status,
                                                !.version = row[r].version]
  <2>1. h.pc = "edit"
    BY FreshHandler DEF Pcs, HandlerType
  <2>2. Good(h)
    BY <1>1, <2>1 DEF BeginEdit, Start
  <2>3. QED
    BY <1>1, <2>2 DEF BeginEdit, table, ghosts
<1>2. CASE BeginCreate(q, u)
  <2>1. Good(Handler("insert", u, "none"))
    BY <1>2, FreshHandler DEF BeginCreate, Start, Pcs
  <2>2. QED
    BY <1>2, <2>1 DEF BeginCreate, table, ghosts
<1>3. ASSUME NEW r \in Resources, NEW to \in Statuses,
             BeginReview(q, u, r, to) \/ BeginForce(q, u, r, to)
      PROVE  UNCHANGED <<row, decided, origin>> /\ \E h : Good(h)
  <2> DEFINE h1 == [Handler("read", u, r) EXCEPT !.to = to]
             h2 == [Handler("force", u, r) EXCEPT !.from = row[r].status, !.to = to]
  <2>1. h1.pc = "read" /\ h2.pc = "force"
    BY FreshHandler DEF Pcs, HandlerType
  <2>2. req' = [req EXCEPT ![q] = h1] \/ req' = [req EXCEPT ![q] = h2]
    BY <1>3 DEF BeginReview, BeginForce, Start
  <2>3. Good(h1) \/ Good(h2)
    BY <2>1, <2>2
  <2>4. QED
    BY <1>3, <2>3 DEF BeginReview, BeginForce, table, ghosts
<1>4. ASSUME NEW r \in Resources,
             \/ BeginSubmit(q, u, r) \/ BeginRecall(q, u, r) \/ BeginDelete(q, u, r)
             \/ BeginRestore(q, u, r) \/ BeginPurge(q, u, r)
      PROVE  UNCHANGED <<row, decided, origin>> /\ \E h : Good(h)
  <2>1. \/ Good([Handler("count", u, r) EXCEPT !.to = "PENDING_REVIEW"])
        \/ Good([Handler("read", u, r) EXCEPT !.to = "RECALLED"])
        \/ Good([Handler("forceRecall", u, r) EXCEPT !.to = "RECALLED"])
        \/ Good(Handler("erase", u, r))
        \/ Good(Handler("restore", u, r))
        \/ Good(Handler("purge", u, r))
    BY <1>4, FreshHandler
    DEF BeginSubmit, BeginRecall, BeginDelete, BeginRestore, BeginPurge, Start, Pcs, HandlerType
  <2>2. QED
    BY <1>4, <2>1
    DEF BeginSubmit, BeginRecall, BeginDelete, BeginRestore, BeginPurge, table, ghosts
<1>5. ASSUME NEW r \in Resources, NEW f \in FileIds,
             BeginRegister(q, u, r, f) \/ BeginRemove(q, u, r, f)
      PROVE  UNCHANGED <<row, decided, origin>> /\ \E h : Good(h)
  <2>1. \/ Good([Handler("register", u, r) EXCEPT !.file = f])
        \/ Good([Handler("unfile", u, r) EXCEPT !.file = f])
    BY <1>5, FreshHandler DEF BeginRegister, BeginRemove, Start, Pcs, HandlerType
  <2>2. QED
    BY <1>5, <2>1 DEF BeginRegister, BeginRemove, table, ghosts
<1>6. QED
  BY <1>1, <1>2, <1>3, <1>4, <1>5

\* An entry into review opens a decision, any other status write closes it, and
\* an edit that enters review leaves its mark.
LEMMA DeskInductive == Spec => []DeskInv
<1>1. Init => DeskInv
  BY DEF Init, DeskInv, Idle
<1>2. IInv /\ DeskInv /\ [Next]_vars => DeskInv'
  <2> SUFFICES ASSUME IInv, DeskInv, [Next]_vars PROVE DeskInv'
    OBVIOUS
  <2>0. TypeOK /\ Idle.pc = "idle"
    BY DEF IInv, Idle
  <2>1. ASSUME NEW q \in Requests, NEW h, req' = [req EXCEPT ![q] = h],
               h.pc = "write" /\ h.to \in {"PUBLISHED", "REJECTED"} =>
                 h.from = "PENDING_REVIEW",
               \A r \in Resources :
                 row'[r].status = "PENDING_REVIEW" =>
                   Undecided(r)' \/ (row[r].status = "PENDING_REVIEW"
                                     /\ (Undecided(r) => Undecided(r)'))
        PROVE DeskInv'
    BY <2>0, <2>1 DEF DeskInv, TypeOK
  <2>2. ASSUME NEW q \in Requests, Arrive(q) PROVE DeskInv'
    BY <2>1, <2>2, ArriveAtDesk DEF Undecided
  <2>3. ASSUME NEW q \in Requests,
               \/ InsertResource(q) \/ Erase(q) \/ RestoreWrite(q) \/ PurgeDelete(q)
               \/ RegisterInsert(q) \/ RemoveDelete(q) \/ Abort(q)
        PROVE DeskInv'
    <3>1. req' = [req EXCEPT ![q] = Idle] /\ UNCHANGED <<decided, origin>>
      BY <2>3
      DEF InsertResource, Erase, RestoreWrite, PurgeDelete, RegisterInsert, RemoveDelete,
          Abort, Finish, ghosts
    <3>2. \A r \in Resources : row'[r].status \in {row[r].status, "DRAFT"}
      <4>1. CASE InsertResource(q)
        BY <2>0, <4>1 DEF InsertResource, TypeOK
      <4>2. CASE Erase(q) \/ RestoreWrite(q) \/ PurgeDelete(q)
        <5>1. \/ row' = row
              \/ \E s \in {"bin", "live", "purged"} :
                   row' = [row EXCEPT ![req[q].res].state = s]
          BY <4>2 DEF Erase, RestoreWrite, PurgeDelete
        <5>2. QED
          BY <2>0, <5>1 DEF TypeOK, Row
      <4>3. CASE RegisterInsert(q) \/ RemoveDelete(q) \/ Abort(q)
        BY <4>3 DEF RegisterInsert, RemoveDelete, Abort, table
      <4>4. QED
        BY <2>3, <4>1, <4>2, <4>3
    <3>3. QED
      BY <2>0, <2>1, <3>1, <3>2 DEF Undecided
  <2>4. ASSUME NEW q \in Requests, CountFiles(q) \/ LogReview(q) PROVE DeskInv'
    <3>1. UNCHANGED <<row, decided, origin>>
      BY <2>4 DEF CountFiles, LogReview, table, ghosts
    <3>2. \/ req' = [req EXCEPT ![q] = Idle]
          \/ \E pc \in {"read", "erase"} : Goto(q, pc)
      BY <2>4 DEF CountFiles, LogReview, Finish
    <3>3. ASSUME NEW pc \in {"read", "erase"}, Goto(q, pc) PROVE DeskInv'
      <4> DEFINE h == [req[q] EXCEPT !.pc = pc]
      <4>1. pc \in Pcs /\ pc # "write" /\ req[q] \in HandlerType
        BY <2>0, <3>3 DEF Pcs, TypeOK
      <4>2. req' = [req EXCEPT ![q] = h] /\ h.pc = pc
        BY <2>0, <3>3, <4>1, GotoIs
      <4>3. QED
        <5> HIDE DEF h
        <5>1. QED
          BY <2>1, <3>1, <4>1, <4>2 DEF Undecided
    <3>4. QED
      BY <2>0, <2>1, <3>1, <3>2, <3>3 DEF Undecided
  <2>5. ASSUME NEW q \in Requests, TransitionRead(q) PROVE DeskInv'
    <3>1. UNCHANGED <<row, decided, origin>>
      BY <2>5 DEF TransitionRead, table, ghosts
    <3> DEFINE h == [req[q] EXCEPT !.pc = "write", !.from = row[req[q].res].status]
    <3>2. CASE Finish(q)
      BY <2>0, <2>1, <3>1, <3>2 DEF Finish, Undecided
    <3>3. CASE ~Finish(q)
      <4>1. req' = [req EXCEPT ![q] = h]
            /\ <<row[req[q].res].status, req[q].to>> \in TRANSITIONS
        BY <2>0, <2>5, <3>3 DEF TransitionRead, TypeOK
      <4>2. h.pc = "write" /\ h.to = req[q].to /\ h.from = row[req[q].res].status
        BY <2>0 DEF TypeOK, HandlerType
      <4>3. h.to \in {"PUBLISHED", "REJECTED"} => h.from = "PENDING_REVIEW"
        BY <4>1, <4>2 DEF TRANSITIONS
      <4>4. QED
        BY <2>1, <3>1, <4>1, <4>2, <4>3 DEF Undecided
    <3>4. QED
      BY <3>2, <3>3
  <2>6. ASSUME NEW q \in Requests, TransitionWrite(q) \/ ForceWrite(q) \/ ForceRecall(q)
        PROVE DeskInv'
    <3> DEFINE r == req[q].res
               to == req[q].to
    <3>2. \A t \in Resources :
            row'[t].status = "PENDING_REVIEW" =>
              Undecided(t)' \/ (row[t].status = "PENDING_REVIEW"
                                /\ (Undecided(t) => Undecided(t)'))
      <4>1. \/ UNCHANGED <<row, decided, origin>>
            \/ \E s \in {"RECALLED", to} :
                 /\ row' = [row EXCEPT ![r].status = s]
                 /\ decided' = [decided EXCEPT ![r] = s # "PENDING_REVIEW"]
                 /\ \/ origin' = origin
                    \/ \E o \in {"flow", "force"} : origin' = [origin EXCEPT ![r] = o]
        BY <2>6 DEF TransitionWrite, ForceWrite, ForceRecall, SetStatus, Record, ghosts
      <4>2. CASE UNCHANGED <<row, decided, origin>>
        BY <4>2 DEF Undecided
      <4>3. ASSUME NEW s, row' = [row EXCEPT ![r].status = s],
                   decided' = [decided EXCEPT ![r] = s # "PENDING_REVIEW"],
                   \A t \in Resources : t # r => origin'[t] = origin[t],
                   NEW t \in Resources, row'[t].status = "PENDING_REVIEW"
            PROVE  Undecided(t)' \/ (row[t].status = "PENDING_REVIEW"
                                     /\ (Undecided(t) => Undecided(t)'))
        <5>1. CASE t = r
          <6>1. row'[t].status = s
            BY <2>0, <4>3, <5>1 DEF TypeOK, Row
          <6>2. ~decided'[t]
            BY <2>0, <4>3, <5>1, <6>1 DEF TypeOK
          <6>3. QED
            BY <6>2 DEF Undecided
        <5>2. CASE t # r
          BY <2>0, <4>3, <5>2 DEF TypeOK, Undecided
        <5>3. QED
          BY <5>1, <5>2
      <4>4. \A t \in Resources :
              (\/ origin' = origin
               \/ \E o \in {"flow", "force"} : origin' = [origin EXCEPT ![r] = o])
              /\ t # r => origin'[t] = origin[t]
        BY <2>0 DEF TypeOK
      <4>5. QED
        <5> HIDE DEF r, to
        <5>1. QED
          BY <4>1, <4>2, <4>3, <4>4
    <3>3. \/ req' = [req EXCEPT ![q] = Idle]
          \/ \E pc \in {"log", "logRecall"} : Goto(q, pc)
      BY <2>6 DEF TransitionWrite, ForceWrite, ForceRecall, Finish
    <3>4. ASSUME NEW pc \in {"log", "logRecall"}, Goto(q, pc) PROVE DeskInv'
      <4> DEFINE h == [req[q] EXCEPT !.pc = pc]
      <4>1. pc \in Pcs /\ pc # "write" /\ req[q] \in HandlerType
        BY <2>0, <3>4 DEF Pcs, TypeOK
      <4>2. req' = [req EXCEPT ![q] = h] /\ h.pc = pc
        BY <2>0, <3>4, <4>1, GotoIs
      <4>3. QED
        <5> HIDE DEF h
        <5>1. QED
          BY <2>1, <3>2, <4>1, <4>2
    <3>5. QED
      BY <2>0, <2>1, <3>2, <3>3, <3>4
  <2>7. ASSUME NEW q \in Requests, EditWrite(q) PROVE DeskInv'
    <3> DEFINE r == req[q].res
               s == editOutcomeFor(req[q].from)
    <3>1. req' = [req EXCEPT ![q] = Idle] /\ decided' = decided
      BY <2>7 DEF EditWrite, Finish
    <3>2. ASSUME NEW t \in Resources, row'[t].status = "PENDING_REVIEW"
          PROVE  Undecided(t)' \/ (row[t].status = "PENDING_REVIEW"
                                   /\ (Undecided(t) => Undecided(t)'))
      <4>1. CASE t = r /\ Stored(r)
        <5>1. s = "PENDING_REVIEW"
          BY <2>0, <2>7, <3>2, <4>1 DEF EditWrite, TypeOK, Row
        <5>2. CASE row[r].status = "PENDING_REVIEW"
          BY <2>7, <3>1, <4>1, <5>2 DEF EditWrite, Undecided
        <5>3. CASE row[r].status # "PENDING_REVIEW"
          <6>1. origin'[t] = "edit"
            BY <2>0, <2>7, <4>1, <5>1, <5>3 DEF EditWrite, TypeOK
          <6>2. QED
            BY <6>1 DEF Undecided
        <5>4. QED
          BY <5>2, <5>3
      <4>2. CASE t # r \/ ~Stored(r)
        BY <2>0, <2>7, <3>1, <3>2, <4>2 DEF EditWrite, TypeOK, Undecided
      <4>3. QED
        BY <4>1, <4>2
    <3>3. QED
      BY <2>0, <2>1, <3>1, <3>2
  <2>8. CASE UNCHANGED <<row, req, decided, origin>>
    BY <2>8 DEF DeskInv, Undecided
  <2>9. QED
    BY <2>2, <2>3, <2>4, <2>5, <2>6, <2>7, <2>8
    DEF Next, Proceed, vars, ToggleDirectory, ghosts
<1>3. QED
  BY <1>1, <1>2, Inductive, PTL DEF Spec

\* However many reviewers decide at once, and whatever is recalled, forced,
\* deleted or restored meanwhile: a submission gets one decision, unless an
\* edit overlapping the decision put it back under review.
THEOREM DecidedOnce == Spec => OneDecisionPerSubmission
<1>1. IInv /\ DeskInv /\ [Next]_vars =>
        [\A q \in Requests :
           /\ TransitionWrite(q)
           /\ req[q].to \in {"PUBLISHED", "REJECTED"}
           /\ req'[q].pc = "log"
           => ~decided[req[q].res] \/ origin[req[q].res] = "edit"]_vars
  <2> SUFFICES ASSUME IInv, DeskInv, NEW q \in Requests, TransitionWrite(q),
                      req[q].to \in {"PUBLISHED", "REJECTED"}, req'[q].pc = "log"
               PROVE  Undecided(req[q].res)
    BY DEF Undecided
  <2>1. req[q].res \in Resources
    BY DEF TransitionWrite, IInv, HandlerOK
  <2>2. ~Finish(q)
    BY DEF Finish, Idle, IInv, TypeOK
  <2>3. StatusStill(req[q].res, req[q].from) /\ req[q].pc = "write"
    BY <2>2 DEF TransitionWrite
  <2>4. row[req[q].res].status = "PENDING_REVIEW"
    BY <2>3 DEF StatusStill, DeskInv
  <2>5. QED
    BY <2>1, <2>4 DEF DeskInv
<1>2. QED
  BY <1>1, Inductive, DeskInductive, PTL DEF Spec, OneDecisionPerSubmission

-----------------------------------------------------------------------------
(* The reason of a rejection. *)

\* A step that does not reject r nor takes its reason away, and is not of a
\* handler about to insert one, leaves it explained if it was.
LEMMA ExplainedKept ==
  ASSUME TypeOK, NEW r \in Resources, ~Unexplained(r), NEW q \in Requests, NEW h,
         req' = [req EXCEPT ![q] = h], req[q].pc # "log",
         (Stored(r) /\ row[r].status = "REJECTED")' =>
           /\ Stored(r) /\ row[r].status = "REJECTED"
           /\ explained[r] => explained'[r]
  PROVE  ~Unexplained(r)'
<1> SUFFICES ASSUME (Stored(r) /\ row[r].status = "REJECTED")'
             PROVE  explained'[r] \/ \E p \in Requests : Pending(p, r)'
  BY DEF Unexplained
<1>1. explained[r] \/ \E p \in Requests : Pending(p, r)
  BY DEF Unexplained
<1>2. ASSUME NEW p \in Requests, Pending(p, r) PROVE Pending(p, r)'
  BY <1>2 DEF Pending, TypeOK
<1>3. QED
  BY <1>1, <1>2

\* First steps write to no table and are not those of a handler in flight.
LEMMA ArriveLeavesTables ==
  ASSUME NEW q \in Requests, Arrive(q)
  PROVE  /\ UNCHANGED <<row, explained>> /\ req[q].pc = "idle"
         /\ \E h : req' = [req EXCEPT ![q] = h]
<1> PICK u \in Users : Arrive(q)!(u)
  BY DEF Arrive
<1> USE DEF Start, table
<1>1. CASE BeginCreate(q, u)
  BY <1>1 DEF BeginCreate
<1>2. ASSUME NEW r \in Resources, NEW to \in Statuses,
             BeginReview(q, u, r, to) \/ BeginForce(q, u, r, to)
      PROVE  /\ UNCHANGED <<row, explained>> /\ req[q].pc = "idle"
             /\ \E h : req' = [req EXCEPT ![q] = h]
  BY <1>2 DEF BeginReview, BeginForce
<1>3. ASSUME NEW r \in Resources,
             \/ BeginEdit(q, u, r) \/ BeginSubmit(q, u, r) \/ BeginRecall(q, u, r)
             \/ BeginDelete(q, u, r) \/ BeginRestore(q, u, r) \/ BeginPurge(q, u, r)
      PROVE  /\ UNCHANGED <<row, explained>> /\ req[q].pc = "idle"
             /\ \E h : req' = [req EXCEPT ![q] = h]
  BY <1>3 DEF BeginEdit, BeginSubmit, BeginRecall, BeginDelete, BeginRestore, BeginPurge
<1>4. ASSUME NEW r \in Resources, NEW f \in FileIds,
             BeginRegister(q, u, r, f) \/ BeginRemove(q, u, r, f)
      PROVE  /\ UNCHANGED <<row, explained>> /\ req[q].pc = "idle"
             /\ \E h : req' = [req EXCEPT ![q] = h]
  BY <1>4 DEF BeginRegister, BeginRemove
<1>5. QED
  BY <1>1, <1>2, <1>3, <1>4

\* However the handlers overlap and whichever statement fails: a teacher whose
\* resource was sent back can read why, unless the very INSERT of the reason failed.
THEOREM RejectionExplained == Spec => RejectionsExplained
<1>1. ASSUME IInv, [Next]_vars, NEW r \in Resources, ~Unexplained(r),
             ~ \E q \in Requests : Abort(q) /\ Pending(q, r)
      PROVE  ~Unexplained(r)'
  <2>0. TypeOK /\ \A q \in Requests : HandlerOK(req[q], row)
    BY <1>1 DEF IInv
  <2>a. explained[r] \/ ~(Stored(r) /\ row[r].status = "REJECTED")
          \/ \E p \in Requests : Pending(p, r)
    BY <1>1 DEF Unexplained
  <2>b. Unexplained(r)' => /\ (Stored(r) /\ row[r].status = "REJECTED")'
                           /\ ~explained'[r] /\ \A p \in Requests : ~Pending(p, r)'
    BY DEF Unexplained
  <2>1. ASSUME NEW q \in Requests, Arrive(q) PROVE ~Unexplained(r)'
    BY <1>1, <2>0, <2>1, ArriveLeavesTables, ExplainedKept DEF Stored
  <2>2. ASSUME NEW q \in Requests, Proceed(q), req[q].pc # "log",
               ~TransitionWrite(q), ~ForceWrite(q), ~ForceRecall(q)
        PROVE ~Unexplained(r)'
    <3>1. \E h : req' = [req EXCEPT ![q] = h]
      BY <2>0, <2>2
      DEF Proceed, InsertResource, EditWrite, CountFiles, TransitionRead, LogReview, Erase,
          RestoreWrite, PurgeDelete, RegisterInsert, RemoveDelete, Finish, Goto, TypeOK
    <3>2. ASSUME (Stored(r) /\ row[r].status = "REJECTED")'
          PROVE  /\ Stored(r) /\ row[r].status = "REJECTED"
                 /\ explained[r] => explained'[r]
      <4>1. CASE InsertResource(q)
        BY <2>0, <3>2, <4>1 DEF InsertResource, TypeOK, Stored
      <4>2. CASE EditWrite(q)
        <5>1. editOutcomeFor(req[q].from) # "REJECTED"
          BY DEF editOutcomeFor
        <5>2. QED
          BY <2>0, <3>2, <4>2, <5>1 DEF EditWrite, TypeOK, Row, Stored
      <4>3. CASE Erase(q) \/ RestoreWrite(q)
        <5>1. \/ row' = row
              \/ \E s \in {"bin", "live"} :
                   Stored(req[q].res) /\ row' = [row EXCEPT ![req[q].res].state = s]
          BY <4>3 DEF Erase, RestoreWrite, Stored, Live
        <5>2. explained' = explained
          BY <4>3 DEF Erase, RestoreWrite
        <5>3. ASSUME NEW s \in {"bin", "live"}, Stored(req[q].res),
                     row' = [row EXCEPT ![req[q].res].state = s]
              PROVE  row'[r].status = row[r].status /\ (Stored(r)' => Stored(r))
          <6>1. CASE r = req[q].res
            BY <2>0, <5>3, <6>1 DEF TypeOK, Row
          <6>2. CASE r # req[q].res
            <7>1. row'[r] = row[r]
              BY <2>0, <5>3, <6>2 DEF TypeOK
            <7>2. QED
              BY <7>1 DEF Stored
          <6>3. QED
            BY <6>1, <6>2
        <5>4. QED
          BY <3>2, <5>1, <5>2, <5>3 DEF Stored
      <4>4. CASE PurgeDelete(q)
        BY <2>0, <3>2, <4>4 DEF PurgeDelete, TypeOK, Row, Stored
      <4>5. CASE LogReview(q)
        BY <2>0, <3>2, <4>5 DEF LogReview, TypeOK, Stored
      <4>6. CASE CountFiles(q) \/ TransitionRead(q) \/ RegisterInsert(q) \/ RemoveDelete(q)
        BY <3>2, <4>6
        DEF CountFiles, TransitionRead, RegisterInsert, RemoveDelete, table, Stored
      <4>7. QED
        BY <2>2, <4>1, <4>2, <4>3, <4>4, <4>5, <4>6 DEF Proceed
    <3>3. QED
      BY <1>1, <2>0, <2>2, <3>1, <3>2, ExplainedKept
  <2>3. ASSUME NEW q \in Requests, LogReview(q), req[q].pc = "log"
        PROVE ~Unexplained(r)'
    <3> SUFFICES ASSUME (Stored(r) /\ row[r].status = "REJECTED")'
                 PROVE  explained'[r] \/ \E p \in Requests : Pending(p, r)'
      BY <2>b
    <3>1. row' = row /\ Stored(r) /\ row[r].status = "REJECTED"
          /\ req' = [req EXCEPT ![q] = Idle]
      BY <2>3 DEF LogReview, Stored, Finish
    <3>2. explained[r] \/ \E p \in Requests : Pending(p, r)
      BY <2>a, <3>1
    <3>3. ASSUME NEW p \in Requests, Pending(p, r), p # q PROVE Pending(p, r)'
      BY <2>0, <3>1, <3>3 DEF Pending, TypeOK
    <3>4. explained[r] \/ Pending(q, r) => explained'[r]
      BY <2>0, <2>3, <3>1 DEF LogReview, Pending, TypeOK
    <3>5. QED
      BY <3>2, <3>3, <3>4
  <2>4. ASSUME NEW q \in Requests, TransitionWrite(q) \/ ForceWrite(q) \/ ForceRecall(q)
        PROVE ~Unexplained(r)'
    <3> DEFINE s == req[q].res
               to == req[q].to
    <3>1. /\ req[q].pc # "log"
          /\ s \in Resources
          /\ ForceRecall(q) => to = "RECALLED"
      BY <2>0, <2>4 DEF TransitionWrite, ForceWrite, ForceRecall, HandlerOK
    <3>2. \E h : req' = [req EXCEPT ![q] = h]
      BY <2>0, <2>4 DEF TransitionWrite, ForceWrite, ForceRecall, Finish, Goto, TypeOK
    <3>3. CASE UNCHANGED <<row, explained>>
      BY <1>1, <2>0, <3>1, <3>2, <3>3, ExplainedKept DEF Stored
    <3>4. CASE /\ row' = [row EXCEPT ![s].status = to]
               /\ explained' = [explained EXCEPT ![s] = @ /\ to # "PENDING_REVIEW"]
               /\ to = "REJECTED" => Goto(q, "log")
      <4>1. CASE r # s \/ to # "REJECTED"
        <5>1. (Stored(r) /\ row[r].status = "REJECTED")' =>
                /\ Stored(r) /\ row[r].status = "REJECTED"
                /\ explained[r] => explained'[r]
          BY <2>0, <3>4, <4>1 DEF TypeOK, Row, Stored
        <5>2. QED
          BY <1>1, <2>0, <3>1, <3>2, <5>1, ExplainedKept
      <4>2. CASE r = s /\ to = "REJECTED"
        <5>1. "log" \in Pcs /\ req[q] \in HandlerType
          BY <2>0 DEF Pcs, TypeOK
        <5>2. /\ req' = [req EXCEPT ![q] = [req[q] EXCEPT !.pc = "log"]]
              /\ [req[q] EXCEPT !.pc = "log"].pc = "log"
              /\ [req[q] EXCEPT !.pc = "log"].res = r
              /\ [req[q] EXCEPT !.pc = "log"].to = "REJECTED"
          BY <2>0, <3>4, <4>2, <5>1, GotoIs
        <5>3. Pending(q, r)'
          BY <2>0, <5>2 DEF Pending, TypeOK
        <5>4. QED
          BY <2>b, <5>3
      <4>3. QED
        BY <4>1, <4>2
    <3>5. QED
      BY <2>4, <3>1, <3>3, <3>4
      DEF TransitionWrite, ForceWrite, ForceRecall, SetStatus, Record,
          FORCE_STATUS_REVIEW_ACTION, Statuses
  <2>5. CASE UNCHANGED <<row, explained, req>>
    <3>1. Unexplained(r)' = Unexplained(r)
      BY <2>5 DEF Unexplained, Stored, Pending
    <3>2. QED
      BY <1>1, <3>1
  <2>6. ASSUME NEW q \in Requests, Abort(q) PROVE ~Unexplained(r)'
    <3>1. UNCHANGED <<row, explained>> /\ req' = [req EXCEPT ![q] = Idle] /\ ~Pending(q, r)
      BY <1>1, <2>6 DEF Abort, Finish, table
    <3>2. ASSUME NEW p \in Requests, Pending(p, r) PROVE Pending(p, r)'
      BY <2>0, <3>1, <3>2 DEF Pending, TypeOK
    <3>3. (Stored(r) /\ row[r].status = "REJECTED")' = (Stored(r) /\ row[r].status = "REJECTED")
      BY <3>1 DEF Stored
    <3>4. QED
      BY <2>a, <2>b, <3>1, <3>2, <3>3
  <2>7. QED
    <3>1. ASSUME NEW q \in Requests, Proceed(q) PROVE ~Unexplained(r)'
      <4>1. req[q].pc = "log" => LogReview(q)
        BY <3>1
        DEF Proceed, InsertResource, EditWrite, CountFiles, TransitionRead, TransitionWrite,
            ForceWrite, ForceRecall, Erase, RestoreWrite, PurgeDelete, RegisterInsert,
            RemoveDelete
      <4>2. QED
        BY <3>1, <4>1, <2>2, <2>3, <2>4
    <3>2. CASE ToggleDirectory \/ UNCHANGED vars
      BY <2>5, <3>2 DEF ToggleDirectory, vars
    <3>3. QED
      BY <1>1, <2>1, <2>6, <3>1, <3>2 DEF Next
<1>2. IInv /\ [Next]_vars =>
        [\A r \in Resources :
           Unexplained(r)' /\ ~Unexplained(r) =>
             \E q \in Requests : Abort(q) /\ Pending(q, r)]_vars
  BY <1>1
<1>3. QED
  BY <1>2, Inductive, PTL DEF Spec, RejectionsExplained

-----------------------------------------------------------------------------
(* ResourceLifecycle implements Publication, for any accounts, resources   *)
(* and handlers, with or without failing statements.                       *)
(*                                                                         *)
(* A step of a handler that writes no row is a stutter; one that writes    *)
(* the row of r is a step of the promise about r and a stutter of the      *)
(* others.  That an approval is one of a submission rests on the           *)
(* conditional UPDATE, and so on what the handler read (DeskInv,           *)
(* ForceReads).                                                            *)

Step(r) == [Abstract(r)!Next]_(Abstract(r)!vars)

\* A handler about to force a status has read another one.
ForceReads == \A q \in Requests : req[q].pc = "force" => req[q].from # req[q].to

LEMMA ArriveReads ==
  ASSUME NEW q \in Requests, Arrive(q)
  PROVE  /\ UNCHANGED <<row, publisher>>
         /\ \E h : req' = [req EXCEPT ![q] = h] /\ (h.pc = "force" => h.from # h.to)
<1> PICK u \in Users : Arrive(q)!(u)
  BY DEF Arrive
<1> DEFINE Good(h) == req' = [req EXCEPT ![q] = h] /\ (h.pc = "force" => h.from # h.to)
<1> USE DEF table, ghosts
<1>1. ASSUME NEW r \in Resources, NEW to \in Statuses, BeginForce(q, u, r, to)
      PROVE  UNCHANGED <<row, publisher>> /\ \E h : Good(h)
  <2> DEFINE h == [Handler("force", u, r) EXCEPT !.from = row[r].status, !.to = to]
  <2>1. h.from = row[r].status /\ h.to = to
    BY DEF Handler, Idle
  <2>2. Good(h)
    BY <1>1, <2>1 DEF BeginForce, Start
  <2> QED BY <1>1, <2>2 DEF BeginForce
<1>2. CASE \E r \in Resources, to \in Statuses : BeginForce(q, u, r, to)
  BY <1>1, <1>2
<1>3. CASE \A r \in Resources, to \in Statuses : ~BeginForce(q, u, r, to)
  <2>1. UNCHANGED <<row, publisher>> /\ \E h : req' = [req EXCEPT ![q] = h] /\ h.pc # "force"
    <3> DEFINE Fine(h) == req' = [req EXCEPT ![q] = h] /\ h.pc # "force"
    <3>1. CASE BeginCreate(q, u)
      <4>1. Fine(Handler("insert", u, "none"))
        BY <3>1 DEF BeginCreate, Start, Handler, Idle
      <4> QED BY <3>1, <4>1 DEF BeginCreate
    <3>2. ASSUME NEW r \in Resources, BeginEdit(q, u, r)
          PROVE  UNCHANGED <<row, publisher>> /\ \E h : Fine(h)
      <4> DEFINE h == [Handler("edit", u, r) EXCEPT !.from = row[r].status,
                                                    !.version = row[r].version]
      <4>1. h.pc = "edit"
        BY DEF Handler, Idle
      <4>2. Fine(h)
        BY <3>2, <4>1 DEF BeginEdit, Start
      <4> QED BY <3>2, <4>2 DEF BeginEdit
    <3>3. ASSUME NEW r \in Resources, NEW to \in Statuses, BeginReview(q, u, r, to)
          PROVE  UNCHANGED <<row, publisher>> /\ \E h : Fine(h)
      <4>1. Fine([Handler("read", u, r) EXCEPT !.to = to])
        BY <3>3 DEF BeginReview, Start, Handler, Idle
      <4> QED BY <3>3, <4>1 DEF BeginReview
    <3>4. ASSUME NEW r \in Resources,
                 \/ BeginSubmit(q, u, r) \/ BeginRecall(q, u, r) \/ BeginDelete(q, u, r)
                 \/ BeginRestore(q, u, r) \/ BeginPurge(q, u, r)
          PROVE  UNCHANGED <<row, publisher>> /\ \E h : Fine(h)
      <4>1. \/ Fine([Handler("count", u, r) EXCEPT !.to = "PENDING_REVIEW"])
            \/ Fine([Handler("read", u, r) EXCEPT !.to = "RECALLED"])
            \/ Fine([Handler("forceRecall", u, r) EXCEPT !.to = "RECALLED"])
            \/ Fine(Handler("erase", u, r))
            \/ Fine(Handler("restore", u, r))
            \/ Fine(Handler("purge", u, r))
        BY <3>4 DEF BeginSubmit, BeginRecall, BeginDelete, BeginRestore, BeginPurge, Start,
                    Handler, Idle
      <4> QED BY <3>4, <4>1 DEF BeginSubmit, BeginRecall, BeginDelete, BeginRestore, BeginPurge
    <3>5. ASSUME NEW r \in Resources, NEW f \in FileIds,
                 BeginRegister(q, u, r, f) \/ BeginRemove(q, u, r, f)
          PROVE  UNCHANGED <<row, publisher>> /\ \E h : Fine(h)
      <4>1. \/ Fine([Handler("register", u, r) EXCEPT !.file = f])
            \/ Fine([Handler("unfile", u, r) EXCEPT !.file = f])
        BY <3>5 DEF BeginRegister, BeginRemove, Start, Handler, Idle
      <4> QED BY <3>5, <4>1 DEF BeginRegister, BeginRemove
    <3> QED BY <1>3, <3>1, <3>2, <3>3, <3>4, <3>5
  <2> QED BY <2>1
<1> QED BY <1>2, <1>3

LEMMA ForceReadsKept == Spec => []ForceReads
<1>1. Init => ForceReads
  BY DEF Init, ForceReads, Idle
<1>2. IInv /\ ForceReads /\ [Next]_vars => ForceReads'
  <2> SUFFICES ASSUME IInv, ForceReads, [Next]_vars PROVE ForceReads'
    OBVIOUS
  <2> USE DEF IInv, TypeOK
  <2>1. ASSUME NEW q \in Requests, Arrive(q) PROVE ForceReads'
    BY <2>1, ArriveReads DEF ForceReads
  <2>2. ASSUME NEW q \in Requests, Finish(q) PROVE ForceReads'
    BY <2>2 DEF Finish, ForceReads, Idle
  <2>3. ASSUME NEW q \in Requests, NEW pc \in {"read", "log", "erase", "logRecall"}, Goto(q, pc)
        PROVE  ForceReads'
    <3>1. req'[q].pc = pc /\ \A o \in Requests \ {q} : req'[o] = req[o]
      BY <2>3 DEF Goto, HandlerType
    <3> QED BY <3>1 DEF ForceReads
  <2>4. ASSUME NEW q \in Requests, NEW s,
               req' = [req EXCEPT ![q].pc = "write", ![q].from = s]
        PROVE  ForceReads'
    <3>1. req'[q].pc = "write" /\ \A o \in Requests \ {q} : req'[o] = req[o]
      BY <2>4 DEF HandlerType
    <3> QED BY <3>1 DEF ForceReads
  <2>5. ASSUME NEW q \in Requests, Proceed(q) PROVE ForceReads'
    BY <2>2, <2>3, <2>4, <2>5
       DEF Proceed, InsertResource, EditWrite, CountFiles, TransitionRead, TransitionWrite,
           LogReview, ForceWrite, ForceRecall, Erase, RestoreWrite, PurgeDelete,
           RegisterInsert, RemoveDelete
  <2>6. CASE ToggleDirectory \/ UNCHANGED vars
    BY <2>6 DEF ToggleDirectory, vars, ForceReads
  <2> QED BY <2>1, <2>2, <2>5, <2>6 DEF Next, Abort
<1> QED BY <1>1, <1>2, Inductive, PTL DEF Spec

-----------------------------------------------------------------------------
(* Steps. *)

\* A row that is not written is no step.
LEMMA Stutters ==
  ASSUME NEW r \in Resources, row'[r] = row[r], publisher'[r] = publisher[r]
  PROVE  Step(r)
BY DEF Step, Abstract!vars, StageOf, Approved, Stored

\* What Record and SetStatus do to other rows: nothing.
LEMMA StatusWritten ==
  ASSUME IInv, NEW r \in Resources, NEW s \in Statuses, NEW u, NEW forced \in BOOLEAN,
         SetStatus(r, s), Record(r, u, s, forced)
  PROVE  /\ row'[r] = [row[r] EXCEPT !.status = s]
         /\ \A o \in Resources \ {r} : row'[o] = row[o] /\ publisher'[o] = publisher[o]
         /\ s = "PUBLISHED" => publisher'[r].by = u
BY DEF SetStatus, Record, IInv, TypeOK

\* A kept row gets a status other than PUBLISHED.
LEMMA Reworked ==
  ASSUME IInv, NEW r \in Resources, Stored(r), NEW s \in Statuses \ {"PUBLISHED"},
         row'[r].state = row[r].state, row'[r].owner = row[r].owner, row'[r].status = s
  PROVE  Step(r)
<1>1. Abstract(r)!Rework
  BY DEF Abstract!Rework, Abstract!Kept, StageOf, Approved, Stored, IInv, TypeOK, Row, Statuses
<1> QED BY <1>1 DEF Step, Abstract!Next

\* A kept row that is not PUBLISHED is made so by somebody who may.
LEMMA Published ==
  ASSUME IInv, NEW r \in Resources, NEW u \in Users,
         Stored(r), row[r].status # "PUBLISHED",
         u \in Admins \/ row[r].status = "PENDING_REVIEW",
         Entitled(u, row[r].owner),
         row'[r] = [row[r] EXCEPT !.status = "PUBLISHED"], publisher'[r].by = u
  PROVE  Step(r)
<1>1. row'[r].state = row[r].state /\ row'[r].owner = row[r].owner
      /\ row'[r].status = "PUBLISHED"
  BY DEF IInv, TypeOK, Row
<1>2. Abstract(r)!Approve(u)
  BY <1>1 DEF Abstract!Approve, Abstract!MayApprove, StageOf, Approved, Stored, Entitled,
              IInv, TypeOK, Row, Statuses
<1> QED BY <1>2 DEF Step, Abstract!Next

-----------------------------------------------------------------------------
(* The refinement. *)

LEMMA InitImplements == ASSUME NEW r \in Resources, Init PROVE Abstract(r)!Init
BY DEF Init, Abstract!Init, StageOf, Approved, Stored

LEMMA StepsImplement ==
  ASSUME IInv, DeskInv, ForceReads, [Next]_vars, NEW r \in Resources
  PROVE  Step(r)
<1> USE DEF IInv, TypeOK
<1>1. ASSUME NEW q \in Requests, Arrive(q) PROVE Step(r)
  BY <1>1, ArriveReads, Stutters
<1>2. ASSUME UNCHANGED <<row, publisher>> PROVE Step(r)
  BY <1>2, Stutters
<1>3. ASSUME NEW q \in Requests, InsertResource(q) PROVE Step(r)
  <2>1. req[q].user \in Users
    BY <1>3 DEF InsertResource, HandlerOK
  <2>2. CASE row'[r] = row[r]
    BY <1>3, <2>2, Stutters DEF InsertResource, ghosts
  <2>3. CASE row'[r] # row[r]
    <3>1. /\ row[r].state = "absent"
          /\ row'[r] = [state |-> "live", owner |-> req[q].user,
                        status |-> "DRAFT", version |-> FirstVersion]
          /\ publisher' = publisher
      BY <1>3, <2>3 DEF InsertResource, ghosts
    <3>2. Abstract(r)!Write(req[q].user)
      BY <3>1 DEF Abstract!Write, StageOf, Approved, Stored
    <3> QED BY <2>1, <3>2 DEF Step, Abstract!Next
  <2> QED BY <2>2, <2>3
<1>4. ASSUME NEW q \in Requests, EditWrite(q) PROVE Step(r)
  <2>1. req[q].from \in Statuses
    BY <1>4 DEF EditWrite, HandlerOK
  <2>2. editOutcomeFor(req[q].from) \in Statuses \ {"PUBLISHED"}
    BY <2>1 DEF editOutcomeFor, Statuses
  <2>3. CASE req[q].res = r /\ Stored(r)
    <3>1. /\ row'[r].state = row[r].state /\ row'[r].owner = row[r].owner
          /\ row'[r].status = editOutcomeFor(req[q].from)
      BY <1>4, <2>3 DEF EditWrite, Row
    <3> QED BY <2>2, <2>3, <3>1, Reworked
  <2>4. CASE ~(req[q].res = r /\ Stored(r))
    <3>1. row'[r] = row[r] /\ publisher' = publisher
      BY <1>4, <2>4 DEF EditWrite
    <3> QED BY <3>1, Stutters
  <2> QED BY <2>3, <2>4
<1>5. ASSUME NEW q \in Requests, NEW o \in Resources, NEW s \in Statuses,
             NEW u \in Users, NEW forced \in BOOLEAN,
             Stored(o), SetStatus(o, s), Record(o, u, s, forced),
             s = "PUBLISHED" =>
               /\ row[o].status # "PUBLISHED" /\ Entitled(u, row[o].owner)
               /\ u \in Admins \/ row[o].status = "PENDING_REVIEW"
      PROVE  Step(r)
  <2>1. /\ row'[o] = [row[o] EXCEPT !.status = s]
        /\ \A p \in Resources \ {o} : row'[p] = row[p] /\ publisher'[p] = publisher[p]
        /\ s = "PUBLISHED" => publisher'[o].by = u
    BY <1>5, StatusWritten
  <2>2. CASE r # o
    BY <2>1, <2>2, Stutters
  <2>3. CASE r = o /\ s = "PUBLISHED"
    BY <1>5, <2>1, <2>3, Published
  <2>4. CASE r = o /\ s # "PUBLISHED"
    <3>1. row'[r].state = row[r].state /\ row'[r].owner = row[r].owner /\ row'[r].status = s
      BY <2>1, <2>4 DEF Row
    <3> QED BY <1>5, <2>4, <3>1, Reworked
  <2> QED BY <2>2, <2>3, <2>4
<1>6. ASSUME NEW q \in Requests, TransitionWrite(q) PROVE Step(r)
  <2> DEFINE o == req[q].res  to == req[q].to  u == req[q].user
  <2>1. o \in Resources /\ to \in Statuses /\ u \in Users
    BY <1>6 DEF TransitionWrite, HandlerOK
  <2>2. CASE Stored(o) /\ StatusStill(o, req[q].from)
    <3>1. to = "PUBLISHED" => Entitled(u, row[o].owner) /\ row[o].status = "PENDING_REVIEW"
      BY <1>6, <2>2 DEF TransitionWrite, HandlerOK, DeskInv, StatusStill
    <3>2. SetStatus(o, to) /\ Record(o, u, to, FALSE)
      BY <1>6, <2>2 DEF TransitionWrite
    <3> QED BY <1>5, <2>1, <2>2, <3>1, <3>2
  <2>3. CASE ~(Stored(o) /\ StatusStill(o, req[q].from))
    BY <1>2, <1>6, <2>3 DEF TransitionWrite, ghosts
  <2> QED BY <2>2, <2>3
<1>7. ASSUME NEW q \in Requests, ForceWrite(q) \/ ForceRecall(q) PROVE Step(r)
  <2> DEFINE o == req[q].res  to == req[q].to  u == req[q].user
  <2>1. o \in Resources /\ u \in Users
    BY <1>7 DEF ForceWrite, ForceRecall, HandlerOK
  <2>2. CASE row' = row /\ publisher' = publisher
    BY <1>2, <2>2
  <2>3. CASE ForceWrite(q) /\ Live(o) /\ StatusStill(o, req[q].from)
    <3>1. to \in Statuses /\ u \in Admins /\ row[o].status # to
      BY <2>3 DEF ForceWrite, HandlerOK, ForceReads, StatusStill
    <3>2. SetStatus(o, to) /\ Record(o, u, to, TRUE) /\ Stored(o)
      BY <2>3 DEF ForceWrite, Live, Stored
    <3> QED BY <1>5, <2>1, <3>1, <3>2 DEF Entitled
  <2>4. CASE ForceRecall(q) /\ Live(o) /\ StatusStill(o, "PUBLISHED")
    <3>1. SetStatus(o, "RECALLED") /\ Record(o, u, "RECALLED", FALSE) /\ Stored(o)
      BY <2>4 DEF ForceRecall, Live, Stored
    <3> QED BY <1>5, <2>1, <3>1 DEF Statuses
  <2> QED BY <1>7, <2>2, <2>3, <2>4 DEF ForceWrite, ForceRecall, ghosts
<1>8. ASSUME NEW q \in Requests, Erase(q) \/ RestoreWrite(q) PROVE Step(r)
  <2>1. publisher' = publisher
    BY <1>8 DEF Erase, RestoreWrite, ghosts
  <2>2. CASE row'[r] = row[r]
    BY <2>1, <2>2, Stutters
  <2>3. CASE row'[r] # row[r]
    <3>1. /\ Stored(r) /\ row'[r].owner = row[r].owner /\ row'[r].status = row[r].status
          /\ \/ row[r].state = "live" /\ row'[r].state = "bin"
             \/ row[r].state = "bin" /\ row'[r].state = "live"
      BY <1>8, <2>3 DEF Erase, RestoreWrite, Stored, Live, Row
    <3>2. Abstract(r)!HideOrReturn
      BY <2>1, <3>1 DEF Abstract!HideOrReturn, Abstract!Kept, StageOf, Approved, Stored
    <3> QED BY <3>2 DEF Step, Abstract!Next
  <2> QED BY <2>2, <2>3
<1>9. ASSUME NEW q \in Requests, PurgeDelete(q) PROVE Step(r)
  <2>1. publisher' = publisher
    BY <1>9 DEF PurgeDelete, ghosts
  <2>2. CASE row'[r] = row[r]
    BY <2>1, <2>2, Stutters
  <2>3. CASE row'[r] # row[r]
    <3>1. Stored(r) /\ row'[r].owner = row[r].owner /\ row'[r].state = "purged"
      BY <1>9, <2>3 DEF PurgeDelete, Stored, Row
    <3>2. Abstract(r)!Remove
      BY <2>1, <3>1 DEF Abstract!Remove, Abstract!Kept, StageOf, Approved, Stored
    <3> QED BY <3>2 DEF Step, Abstract!Next
  <2> QED BY <2>2, <2>3
<1>10. ASSUME NEW q \in Requests,
             \/ CountFiles(q) \/ TransitionRead(q) \/ LogReview(q) \/ RegisterInsert(q)
             \/ RemoveDelete(q) \/ Abort(q)
      PROVE  Step(r)
  BY <1>2, <1>10 DEF CountFiles, TransitionRead, LogReview, RegisterInsert, RemoveDelete, Abort,
                    table, ghosts
<1>11. CASE ToggleDirectory \/ UNCHANGED vars
  BY <1>2, <1>11 DEF ToggleDirectory, vars, ghosts
<1> QED BY <1>1, <1>3, <1>4, <1>6, <1>7, <1>8, <1>9, <1>10, <1>11 DEF Next, Proceed

\* ResourceLifecycle implements Publication.
THEOREM LifecycleImplementsPublication == Spec => ImplementsPublication
<1>1. Init => \A r \in Resources : Abstract(r)!Init
  BY InitImplements
<1>2. IInv /\ DeskInv /\ ForceReads /\ [Next]_vars =>
        [\A r \in Resources : [Abstract(r)!Next]_(Abstract(r)!vars)]_vars
  BY StepsImplement DEF Step
<1> QED BY <1>1, <1>2, Inductive, DeskInductive, ForceReadsKept, PTL DEF Spec, ImplementsPublication

-----------------------------------------------------------------------------
(* Races.  A handler reads a row, decides, and writes later.  The invariant is *)
(* that what a handler has read still holds for as long as no other handler    *)
(* has changed it; it is inductive whatever the handlers do to each other, and *)
(* leaves the overtaken ones, at the few statements that do not look again, as *)
(* the only ones to break a promise.                                           *)

\* What the checks a handler has passed say of its row, in rows t.
KnowsRow(h, t) ==
  LET e == t[h.res] IN
  /\ h.pc \in {"edit", "count", "read", "write", "force", "forceRecall", "logRecall", "erase",
               "register", "unfile"} => e.state = "live"
  /\ h.pc \in {"restore", "purge"} => e.state = "bin"
  /\ h.pc \in {"edit", "write"} => e.status = h.from
  /\ h.pc = "edit" => e.version = h.version
  /\ h.pc = "write" => <<e.status, h.to>> \in TRANSITIONS
  /\ h.pc \in {"logRecall", "erase"} => e.status # "PUBLISHED"
  /\ h.pc \in {"register", "unfile"} => e.status \in EDITABLE_STATUSES

\* And of the files, in files F: submit() has counted one.
KnowsFiles(h, F) == h.pc \in {"read", "write"} /\ h.to = "PENDING_REVIEW" => F[h.res] # {}

Fresh(q) ==
  /\ "row" \notin stale[q] => KnowsRow(req[q], row)
  /\ "files" \notin stale[q] => KnowsFiles(req[q], files)

FreshInv ==
  /\ stale \in [Requests -> SUBSET {"row", "files"}]
  /\ \A q \in Requests : Fresh(q)

\* What the properties of ResourceRaces say of one resource.
Unharmed(r) ==
  /\ PublishedInBin(r)' /\ ~PublishedInBin(r) =>
       Overtaken(r, "erase", "row") \/ Overtaken(r, "write", "row")
  /\ Bare(r)' /\ ~Bare(r) => Overtaken(r, "write", "files") \/ Overtaken(r, "unfile", "row")
  /\ row[r].state = "bin" /\ row'[r].status # row[r].status =>
       Overtaken(r, "write", "row") \/ Overtaken(r, "edit", "row")
  /\ row[r].state = "live" /\ row'[r].state = "purged" => Overtaken(r, "purge", "row")
  /\ /\ row[r].status \in {"PENDING_REVIEW", "PUBLISHED"}
     /\ files'[r] # files[r] /\ row'[r].state # "purged"
     => Overtaken(r, "register", "row") \/ Overtaken(r, "unfile", "row")

LEMMA IdleKnows == ASSUME NEW t, NEW F PROVE KnowsRow(Idle, t) /\ KnowsFiles(Idle, F)
  BY DEF KnowsRow, KnowsFiles, Idle

\* A step of the handler in slot q, after which it remembers h: what h knows has
\* to hold, unless q was overtaken before and this statement has not looked again.
LEMMA FreshStep ==
  ASSUME IInv, FreshInv, Watch, NEW q \in Requests, NEW h,
         req' = [req EXCEPT ![q] = h], h.pc # req[q].pc,
         "row" \notin stale[q] \ Reread(req[q].pc) => KnowsRow(h, row'),
         "files" \notin stale[q] \ Reread(req[q].pc) => KnowsFiles(h, files')
  PROVE  FreshInv'
<1>1. stale' \in [Requests -> SUBSET {"row", "files"}]
  <2>1. ASSUME NEW r \in Resources PROVE Touched(r) \subseteq {"row", "files"}
    BY DEF Touched
  <2>2. ASSUME NEW p \in Requests
        PROVE  UNION {Touched(r) : r \in Resources \cap {req[p].res}} \subseteq {"row", "files"}
    BY <2>1
  <2>3. ASSUME NEW p \in Requests PROVE stale[p] \subseteq {"row", "files"}
    BY DEF FreshInv
  <2>4. QED
    BY <2>2, <2>3 DEF Watch
<1>2. ASSUME NEW p \in Requests, p = q PROVE Fresh(p)'
  <2>1. req'[p] = h /\ Moves(p)
    BY <1>2 DEF IInv, TypeOK, Moves
  <2>2. CASE h.pc = "idle"
    BY <2>1, <2>2 DEF Fresh, KnowsRow, KnowsFiles
  <2>3. CASE h.pc # "idle"
    <3>1. stale'[p] = stale[q] \ Reread(req[q].pc)
      BY <1>2, <2>1, <2>3 DEF Watch
    <3>2. QED
      BY <2>1, <3>1 DEF Fresh
  <2>4. QED
    BY <2>2, <2>3
<1>3. ASSUME NEW p \in Requests, p # q PROVE Fresh(p)'
  <2>1. req'[p] = req[p] /\ ~Moves(p) /\ Fresh(p) /\ HandlerOK(req[p], row)
    BY <1>3 DEF IInv, TypeOK, FreshInv, Moves
  <2>2. CASE req[p].pc \in {"idle", "insert"}
    BY <2>1, <2>2 DEF Fresh, KnowsRow, KnowsFiles
  <2>3. CASE req[p].pc \notin {"idle", "insert"}
    <3>1. req[p].res \in Resources
      BY <2>1, <2>3 DEF HandlerOK
    <3>2. stale'[p] = stale[p] \cup Touched(req[p].res)
      <4>1. Resources \cap {req[p].res} = {req[p].res}
        BY <3>1
      <4>2. UNION {Touched(r) : r \in {req[p].res}} = Touched(req[p].res)
        OBVIOUS
      <4>3. stale'[p] = stale[p] \cup UNION {Touched(r) : r \in Resources \cap {req[p].res}}
        BY <2>1, <2>3 DEF Watch
      <4>4. QED
        BY <4>1, <4>2, <4>3
    <3>3. "row" \notin stale'[p] => "row" \notin stale[p] /\ row'[req[p].res] = row[req[p].res]
      BY <3>2 DEF Touched
    <3>4. "files" \notin stale'[p] =>
            "files" \notin stale[p] /\ files'[req[p].res] = files[req[p].res]
      BY <3>2 DEF Touched
    <3>5. row'[req[p].res] = row[req[p].res] /\ KnowsRow(req[p], row) => KnowsRow(req[p], row')
      BY DEF KnowsRow
    <3>6. files'[req[p].res] = files[req[p].res] /\ KnowsFiles(req[p], files)
            => KnowsFiles(req[p], files')
      BY DEF KnowsFiles
    <3>7. QED
      BY <2>1, <3>3, <3>4, <3>5, <3>6 DEF Fresh
  <2>4. QED
    BY <2>2, <2>3
<1>4. QED
  BY <1>1, <1>2, <1>3 DEF FreshInv

\* A handler that ends knows nothing.
LEMMA FreshEnd ==
  ASSUME IInv, FreshInv, Watch, NEW q \in Requests, req[q].pc # "idle", Finish(q)
  PROVE  FreshInv'
<1>1. req' = [req EXCEPT ![q] = Idle] /\ Idle.pc = "idle"
  BY DEF Finish, Idle
<1>2. QED
  BY <1>1, IdleKnows, FreshStep

\* What is known of the handler that takes a later step.
LEMMA AtWork ==
  ASSUME IInv, FreshInv, NEW q \in Requests, req[q].pc \notin {"idle", "insert"}
  PROVE  LET r == req[q].res IN
         /\ r \in Resources /\ row[r] \in Row /\ row[r].state # "absent"
         /\ HandlerOK(req[q], row) /\ Fresh(q) /\ req[q] \in HandlerType
  BY DEF IInv, TypeOK, HandlerOK, FreshInv

LEMMA ArriveFresh ==
  ASSUME IInv, FreshInv, Watch, NEW q \in Requests, Arrive(q)
  PROVE  FreshInv'
<1> PICK u \in Users : Arrive(q)!(u)
  BY DEF Arrive
<1>1. ASSUME NEW op, NEW h, Start(q, op, h), h.pc # "idle",
             KnowsRow(h, row), KnowsFiles(h, files), UNCHANGED table
      PROVE  FreshInv'
  <2>1. req' = [req EXCEPT ![q] = h] /\ h.pc # req[q].pc /\ row' = row /\ files' = files
    BY <1>1 DEF Start, table
  <2>2. KnowsRow(h, row') /\ KnowsFiles(h, files')
    BY <1>1, <2>1
  <2>3. QED
    BY <2>1, <2>2, FreshStep
<1>2. CASE BeginCreate(q, u)
  <2> DEFINE h == Handler("insert", u, "none")
  <2>1. h.pc = "insert"
    BY DEF Handler, Idle
  <2>2. KnowsRow(h, row) /\ KnowsFiles(h, files)
    BY <2>1 DEF KnowsRow, KnowsFiles
  <2>3. QED
    BY <1>1, <1>2, <2>1, <2>2 DEF BeginCreate
<1>3. ASSUME NEW r \in Resources, BeginEdit(q, u, r) PROVE FreshInv'
  <2> DEFINE h == [Handler("edit", u, r) EXCEPT !.from = row[r].status,
                                                !.version = row[r].version]
  <2>1. h.pc = "edit" /\ h.res = r /\ h.from = row[r].status /\ h.version = row[r].version
    BY DEF Handler, Idle
  <2>2. Start(q, "edit", h) /\ UNCHANGED table
    BY <1>3 DEF BeginEdit
  <2> HIDE DEF h
  <2>3. KnowsRow(h, row) /\ KnowsFiles(h, files)
    BY <1>3, <2>1 DEF BeginEdit, Live, KnowsRow, KnowsFiles
  <2>4. QED
    BY <1>1, <2>1, <2>2, <2>3
<1>4. ASSUME NEW r \in Resources, BeginSubmit(q, u, r) PROVE FreshInv'
  <2> DEFINE h == [Handler("count", u, r) EXCEPT !.to = "PENDING_REVIEW"]
  <2>1. h.pc = "count" /\ h.res = r
    BY DEF Handler, Idle
  <2>2. Start(q, "submit", h) /\ UNCHANGED table
    BY <1>4 DEF BeginSubmit
  <2> HIDE DEF h
  <2>3. KnowsRow(h, row) /\ KnowsFiles(h, files)
    BY <1>4, <2>1 DEF BeginSubmit, Live, KnowsRow, KnowsFiles
  <2>4. QED
    BY <1>1, <2>1, <2>2, <2>3
<1>5. ASSUME NEW r \in Resources, NEW to \in Statuses, BeginReview(q, u, r, to) PROVE FreshInv'
  <2> DEFINE h == [Handler("read", u, r) EXCEPT !.to = to]
  <2>1. h.pc = "read" /\ h.res = r /\ h.to # "PENDING_REVIEW"
    BY <1>5 DEF Handler, Idle, BeginReview
  <2>2. Start(q, "review", h) /\ UNCHANGED table
    BY <1>5 DEF BeginReview
  <2> HIDE DEF h
  <2>3. KnowsRow(h, row) /\ KnowsFiles(h, files)
    BY <1>5, <2>1 DEF BeginReview, Live, KnowsRow, KnowsFiles
  <2>4. QED
    BY <1>1, <2>1, <2>2, <2>3
<1>6. ASSUME NEW r \in Resources, NEW to \in Statuses, BeginForce(q, u, r, to) PROVE FreshInv'
  <2> DEFINE h == [Handler("force", u, r) EXCEPT !.from = row[r].status, !.to = to]
  <2>1. h.pc = "force" /\ h.res = r
    BY DEF Handler, Idle
  <2>2. Start(q, "force", h) /\ UNCHANGED table
    BY <1>6 DEF BeginForce
  <2> HIDE DEF h
  <2>3. KnowsRow(h, row) /\ KnowsFiles(h, files)
    BY <1>6, <2>1 DEF BeginForce, Live, KnowsRow, KnowsFiles
  <2>4. QED
    BY <1>1, <2>1, <2>2, <2>3
<1>7. ASSUME NEW r \in Resources, BeginRecall(q, u, r) PROVE FreshInv'
  <2> DEFINE h == [Handler("read", u, r) EXCEPT !.to = "RECALLED"]
  <2>1. h.pc = "read" /\ h.res = r /\ h.to = "RECALLED"
    BY DEF Handler, Idle
  <2>2. Start(q, "recall", h) /\ UNCHANGED table
    BY <1>7 DEF BeginRecall
  <2> HIDE DEF h
  <2>3. KnowsRow(h, row) /\ KnowsFiles(h, files)
    BY <1>7, <2>1 DEF BeginRecall, Live, KnowsRow, KnowsFiles
  <2>4. QED
    BY <1>1, <2>1, <2>2, <2>3
<1>8. ASSUME NEW r \in Resources, BeginDelete(q, u, r) PROVE FreshInv'
  <2> DEFINE h == Handler("erase", u, r)
             g == [Handler("forceRecall", u, r) EXCEPT !.to = "RECALLED"]
  <2>1. h.pc = "erase" /\ h.res = r /\ g.pc = "forceRecall" /\ g.res = r
    BY DEF Handler, Idle
  <2>2. /\ UNCHANGED table
        /\ \/ Start(q, "delete", h) /\ row[r].status \in DELETABLE_STATUSES
           \/ Start(q, "delete", g)
    BY <1>8 DEF BeginDelete
  <2> HIDE DEF h, g
  <2>3. KnowsRow(g, row) /\ KnowsFiles(g, files) /\ KnowsFiles(h, files)
    BY <1>8, <2>1 DEF BeginDelete, Live, KnowsRow, KnowsFiles
  <2>4. row[r].status \in DELETABLE_STATUSES => KnowsRow(h, row)
    BY <1>8, <2>1 DEF BeginDelete, Live, KnowsRow, DELETABLE_STATUSES
  <2>5. QED
    BY <1>1, <2>1, <2>2, <2>3, <2>4
<1>9. ASSUME NEW r \in Resources, NEW pc \in {"restore", "purge"}, NEW op,
             row[r].state = "bin", Start(q, op, Handler(pc, u, r)), UNCHANGED table
      PROVE FreshInv'
  <2> DEFINE h == Handler(pc, u, r)
  <2>1. h.pc = pc /\ h.res = r
    BY DEF Handler, Idle
  <2> HIDE DEF h
  <2>2. KnowsRow(h, row) /\ KnowsFiles(h, files)
    BY <1>9, <2>1 DEF KnowsRow, KnowsFiles
  <2>3. Start(q, op, h)
    BY <1>9 DEF h
  <2>4. QED
    BY <1>1, <1>9, <2>1, <2>2, <2>3
<1>10. ASSUME NEW r \in Resources, NEW f \in FileIds, NEW pc \in {"register", "unfile"}, NEW op,
              Live(r), Unlocked(r), UNCHANGED table,
              Start(q, op, [Handler(pc, u, r) EXCEPT !.file = f])
       PROVE  FreshInv'
  <2> DEFINE h == [Handler(pc, u, r) EXCEPT !.file = f]
  <2>1. h.pc = pc /\ h.res = r
    BY DEF Handler, Idle
  <2> HIDE DEF h
  <2>2. KnowsRow(h, row) /\ KnowsFiles(h, files)
    BY <1>10, <2>1 DEF Live, Unlocked, KnowsRow, KnowsFiles
  <2>3. Start(q, op, h)
    BY <1>10 DEF h
  <2>4. QED
    BY <1>1, <1>10, <2>1, <2>2, <2>3
<1>11. ASSUME NEW r \in Resources, BeginRestore(q, u, r) \/ BeginPurge(q, u, r) PROVE FreshInv'
  BY <1>9, <1>11 DEF BeginRestore, BeginPurge
<1>12. ASSUME NEW r \in Resources, NEW f \in FileIds,
              BeginRegister(q, u, r, f) \/ BeginRemove(q, u, r, f)
       PROVE  FreshInv'
  BY <1>10, <1>12 DEF BeginRegister, BeginRemove
<1>13. QED
  BY <1>2, <1>3, <1>4, <1>5, <1>6, <1>7, <1>8, <1>11, <1>12

\* Later steps: most end the handler; the others look again or learn nothing.
LEMMA ProceedFresh ==
  ASSUME IInv, FreshInv, Watch, NEW q \in Requests, Proceed(q) \/ Abort(q)
  PROVE  FreshInv'
<1>1. req[q].pc # "idle"
  BY DEF Proceed, InsertResource, EditWrite, CountFiles, TransitionRead, TransitionWrite, LogReview,
         ForceWrite, ForceRecall, Erase, RestoreWrite, PurgeDelete, RegisterInsert, RemoveDelete,
         Abort
<1>2. CASE Finish(q)
  BY <1>1, <1>2, FreshEnd
<1>3. CASE CountFiles(q) /\ ~Finish(q)
  <2> DEFINE h == [req[q] EXCEPT !.pc = "read"]
  <2>1. req[q].pc = "count" /\ files[req[q].res] # {} /\ Goto(q, "read")
        /\ row' = row /\ files' = files
    BY <1>3 DEF CountFiles, table
  <2>2. Fresh(q) /\ req[q] \in HandlerType
    BY <2>1, AtWork
  <2>3. req' = [req EXCEPT ![q] = h] /\ h.pc = "read" /\ h.res = req[q].res
    BY <2>1, <2>2, GotoIs DEF IInv, Pcs
  <2> HIDE DEF h
  <2>4. KnowsFiles(h, files')
    BY <2>1, <2>3 DEF KnowsFiles
  <2>5. "row" \notin stale[q] \ Reread(req[q].pc) => KnowsRow(h, row')
    BY <2>1, <2>2, <2>3 DEF Fresh, KnowsRow, Reread
  <2>6. QED
    BY <2>1, <2>3, <2>4, <2>5, FreshStep
<1>4. CASE TransitionRead(q) /\ ~Finish(q)
  <2> DEFINE h == [req[q] EXCEPT !.pc = "write", !.from = row[req[q].res].status]
  <2>1. /\ req[q].pc = "read" /\ row[req[q].res].state = "live"
        /\ <<row[req[q].res].status, req[q].to>> \in TRANSITIONS
        /\ req' = [req EXCEPT ![q].pc = "write", ![q].from = row[req[q].res].status]
        /\ row' = row /\ files' = files
    BY <1>4 DEF TransitionRead, table, Live
  <2>2. Fresh(q) /\ req[q] \in HandlerType
    BY <2>1, AtWork
  <2>3. req' = [req EXCEPT ![q] = h]
    BY <2>1 DEF IInv, TypeOK
  <2>4. h.pc = "write" /\ h.res = req[q].res /\ h.to = req[q].to
        /\ h.from = row[req[q].res].status
    BY <2>2 DEF HandlerType
  <2> HIDE DEF h
  <2>5. KnowsRow(h, row')
    BY <2>1, <2>4 DEF KnowsRow
  <2>6. "files" \notin stale[q] \ Reread(req[q].pc) => KnowsFiles(h, files')
    BY <2>1, <2>2, <2>4 DEF Fresh, KnowsFiles, Reread
  <2>7. QED
    BY <2>1, <2>3, <2>4, <2>5, <2>6, FreshStep
<1>5. CASE LogReview(q) /\ ~Finish(q)
  <2> DEFINE h == [req[q] EXCEPT !.pc = "erase"]
  <2>1. req[q].pc = "logRecall" /\ Goto(q, "erase") /\ row' = row
    BY <1>5 DEF LogReview
  <2>2. Fresh(q) /\ req[q] \in HandlerType
    BY <2>1, AtWork
  <2>3. req' = [req EXCEPT ![q] = h] /\ h.pc = "erase" /\ h.res = req[q].res
    BY <2>1, <2>2, GotoIs DEF IInv, Pcs
  <2> HIDE DEF h
  <2>4. "row" \notin stale[q] \ Reread(req[q].pc) => KnowsRow(h, row')
    BY <2>1, <2>2, <2>3 DEF Fresh, KnowsRow, Reread
  <2>5. KnowsFiles(h, files')
    BY <2>3 DEF KnowsFiles
  <2>6. QED
    BY <2>1, <2>3, <2>4, <2>5, FreshStep
<1>6. CASE (TransitionWrite(q) \/ ForceWrite(q)) /\ ~Finish(q)
  <2> DEFINE h == [req[q] EXCEPT !.pc = "log"]
  <2>1. req[q].pc \in {"write", "force"} /\ Goto(q, "log")
    BY <1>6 DEF TransitionWrite, ForceWrite
  <2>2. req[q] \in HandlerType
    BY <2>1, AtWork
  <2>3. req' = [req EXCEPT ![q] = h] /\ h.pc = "log"
    BY <2>1, <2>2, GotoIs DEF IInv, Pcs
  <2> HIDE DEF h
  <2>4. KnowsRow(h, row') /\ KnowsFiles(h, files')
    BY <2>3 DEF KnowsRow, KnowsFiles
  <2>5. QED
    BY <2>1, <2>3, <2>4, FreshStep
<1>7. CASE ForceRecall(q) /\ ~Finish(q)
  <2> DEFINE h == [req[q] EXCEPT !.pc = "logRecall"]
             r == req[q].res
  <2>1. req[q].pc = "forceRecall" /\ Goto(q, "logRecall") /\ row[r].state = "live"
        /\ SetStatus(r, "RECALLED")
    BY <1>7 DEF ForceRecall, Live
  <2>2. req[q] \in HandlerType /\ r \in Resources /\ row[r] \in Row
    BY <2>1, AtWork
  <2>3. req' = [req EXCEPT ![q] = h] /\ h.pc = "logRecall" /\ h.res = r
    BY <2>1, <2>2, GotoIs DEF IInv, Pcs
  <2>4. row'[r].state = "live" /\ row'[r].status = "RECALLED"
    BY <2>1, <2>2 DEF SetStatus, IInv, TypeOK, Row
  <2> HIDE DEF h, r
  <2>5. KnowsRow(h, row') /\ KnowsFiles(h, files')
    BY <2>3, <2>4 DEF KnowsRow, KnowsFiles
  <2>6. QED
    BY <2>1, <2>3, <2>5, FreshStep
<1>8. QED
  BY <1>2, <1>3, <1>4, <1>5, <1>6, <1>7
  DEF Proceed, InsertResource, EditWrite, CountFiles, TransitionRead, TransitionWrite, LogReview,
      ForceWrite, ForceRecall, Erase, RestoreWrite, PurgeDelete, RegisterInsert, RemoveDelete,
      Abort

\* Every handler knows what it has read until another one changes it.
LEMMA FreshInductive == RaceSpec => [](IInv /\ DeskInv /\ FreshInv)
<1>1. RaceInit => Init /\ FreshInv
  <2> SUFFICES ASSUME RaceInit PROVE Init /\ FreshInv
    OBVIOUS
  <2>1. Init /\ stale \in [Requests -> SUBSET {"row", "files"}]
    BY DEF RaceInit
  <2>2. ASSUME NEW q \in Requests PROVE Fresh(q)
    <3>1. req[q].pc = "idle"
      BY DEF RaceInit, Init, Idle
    <3>2. QED
      BY <3>1 DEF Fresh, KnowsRow, KnowsFiles
  <2>3. QED
    BY <2>1, <2>2 DEF FreshInv
<1>2. [RaceNext]_raceVars => [Next]_vars
  BY DEF RaceNext, raceVars
<1>3. IInv /\ FreshInv /\ [RaceNext]_raceVars => FreshInv'
  <2> SUFFICES ASSUME IInv, FreshInv, [RaceNext]_raceVars PROVE FreshInv'
    OBVIOUS
  <2>1. ASSUME NEW q \in Requests, Watch, Arrive(q) \/ Proceed(q) \/ Abort(q) PROVE FreshInv'
    BY <2>1, ArriveFresh, ProceedFresh
  <2>2. CASE Watch /\ ToggleDirectory
    <3>1. UNCHANGED <<row, files, req>>
      BY <2>2 DEF ToggleDirectory
    <3>2. ASSUME NEW q \in Requests PROVE stale'[q] \in SUBSET {"row", "files"} /\ Fresh(q)'
      <4>1. (stale'[q] = {} /\ req[q].pc = "idle") \/ stale'[q] = stale[q]
        <5>1. ASSUME NEW r \in Resources PROVE Touched(r) = {}
          BY <3>1 DEF Touched
        <5>2. UNION {Touched(r) : r \in Resources \cap {req[q].res}} = {}
          BY <5>1
        <5>3. QED
          BY <2>2, <3>1, <5>2 DEF Watch, Moves
      <4>2. QED
        BY <3>1, <4>1 DEF FreshInv, Fresh, KnowsRow, KnowsFiles
    <3>3. QED
      BY <2>2, <3>2 DEF FreshInv, Watch
  <2>3. CASE UNCHANGED raceVars
    BY <2>3 DEF raceVars, vars, FreshInv, Fresh
  <2>4. QED
    BY <2>1, <2>2, <2>3 DEF RaceNext, Next
<1>4. RaceSpec => Spec
  BY <1>1, <1>2, PTL DEF RaceSpec, Spec
<1>5. QED
  BY <1>1, <1>3, <1>4, Inductive, DeskInductive, PTL DEF RaceSpec

\* What the handler in slot q does to its resource while q is not overtaken.
LEMMA ByItself ==
  ASSUME IInv, NEW q \in Requests, req'[q].pc # req[q].pc, NEW part, part \in stale[q]
  PROVE  Overtaken(req[q].res, req[q].pc, part)
  BY DEF Overtaken, Moves

\* A step leaves alone what it does not write.
LEMMA Untouched ==
  ASSUME NEW r \in Resources, row'[r] = row[r], files'[r] = files[r], origin'[r] = origin[r]
  PROVE  Unharmed(r)
  BY DEF Unharmed, PublishedInBin, Bare, Stored

\* The statements that write neither rows nor files.
LEMMA ReadsHarmless ==
  ASSUME NEW q \in Requests,
         Arrive(q) \/ CountFiles(q) \/ TransitionRead(q) \/ LogReview(q) \/ Abort(q)
  PROVE  \A r \in Resources : Unharmed(r)
<1>1. CASE Arrive(q)
  <2>1. PICK u \in Users : Arrive(q)!(u)
    BY <1>1 DEF Arrive
  <2>2. ASSUME NEW r \in Resources, NEW to \in Statuses,
               BeginReview(q, u, r, to) \/ BeginForce(q, u, r, to)
        PROVE  UNCHANGED <<table, ghosts>>
    BY <2>2 DEF BeginReview, BeginForce
  <2>3. ASSUME NEW r \in Resources,
               \/ BeginEdit(q, u, r) \/ BeginSubmit(q, u, r) \/ BeginRecall(q, u, r)
               \/ BeginDelete(q, u, r) \/ BeginRestore(q, u, r) \/ BeginPurge(q, u, r)
        PROVE  UNCHANGED <<table, ghosts>>
    BY <2>3 DEF BeginEdit, BeginSubmit, BeginRecall, BeginDelete, BeginRestore, BeginPurge
  <2>4. ASSUME NEW r \in Resources, NEW f \in FileIds,
               BeginRegister(q, u, r, f) \/ BeginRemove(q, u, r, f)
        PROVE  UNCHANGED <<table, ghosts>>
    BY <2>4 DEF BeginRegister, BeginRemove
  <2>5. UNCHANGED <<table, ghosts>>
    BY <2>1, <2>2, <2>3, <2>4 DEF BeginCreate
  <2>6. QED
    BY <2>5, Untouched DEF table, ghosts
<1>2. CASE CountFiles(q) \/ TransitionRead(q) \/ LogReview(q) \/ Abort(q)
  <2>1. UNCHANGED <<row, files, origin>>
    BY <1>2 DEF CountFiles, TransitionRead, LogReview, Abort, table, ghosts
  <2>2. QED
    BY <2>1, Untouched
<1>3. QED
  BY <1>1, <1>2

LEMMA InsertHarmless ==
  ASSUME IInv, NEW q \in Requests, InsertResource(q), NEW s \in Resources
  PROVE  Unharmed(s)
<1>1. UNCHANGED <<files, origin>>
  BY DEF InsertResource, ghosts
<1>2. CASE row'[s] = row[s]
  BY <1>1, <1>2, Untouched
<1>3. CASE row'[s] # row[s]
  <2>1. row[s].state = "absent" /\ row'[s].state = "live" /\ row'[s].status = "DRAFT"
    BY <1>3 DEF InsertResource, IInv, TypeOK
  <2>2. QED
    BY <1>1, <2>1 DEF Unharmed, PublishedInBin, Bare
<1>4. QED
  BY <1>2, <1>3

\* An edit writes the status and version it has read, in the bin or out of it.
LEMMA EditHarmless ==
  ASSUME IInv, FreshInv, NEW q \in Requests, EditWrite(q), NEW s \in Resources
  PROVE  /\ Unharmed(s)
         /\ s = req[q].res /\ OnLine(s) =>
              /\ row'[s].status # "PUBLISHED"
              /\ "row" \notin stale[q] =>
                   row'[s].status = "DRAFT" /\ row'[s].version = row[s].version + 1
<1> DEFINE r == req[q].res
           from == req[q].from
           v == IF bumpVersion(from) THEN nextVersion(req[q].version) ELSE row[r].version
           e == [row[r] EXCEPT !.status = editOutcomeFor(from), !.version = v]
<1>1. /\ req[q].pc = "edit" /\ r \in Resources /\ row[r] \in Row /\ row \in [Resources -> Row]
      /\ Fresh(q) /\ from \in Statuses /\ UNCHANGED files
  BY AtWork DEF EditWrite, HandlerOK, IInv, TypeOK
<1>2. CASE s # r \/ ~Stored(r)
  <2>1. row'[s] = row[s] /\ origin'[s] = origin[s]
    BY <1>1, <1>2 DEF EditWrite, IInv, TypeOK
  <2>2. Unharmed(s)
    BY <1>1, <2>1, Untouched
  <2>3. QED
    BY <1>2, <2>2 DEF OnLine
<1>3. CASE s = r /\ Stored(r)
  <2>1. row' = [row EXCEPT ![r] = e]
    BY <1>1, <1>3 DEF EditWrite, Row
  <2>2. e.state = row[r].state /\ e.status = editOutcomeFor(from) /\ e.version = v
    <3> HIDE DEF v
    <3>1. QED
      BY <1>1 DEF Row
  <2> HIDE DEF e
  <2>3. /\ row'[s].state = row[s].state /\ row'[s].status = editOutcomeFor(from)
        /\ row'[s].version = v
    BY <1>1, <1>3, <2>1, <2>2
  <2>4. editOutcomeFor(from) \in {"DRAFT", "PENDING_REVIEW"}
    BY <1>1 DEF editOutcomeFor, Statuses
  <2>5. origin'[s] = "flow" /\ row'[s].status = "PENDING_REVIEW" =>
          origin[s] = "flow" /\ row[s].status = "PENDING_REVIEW"
    BY <1>1, <1>3, <2>3 DEF EditWrite, IInv, TypeOK
  <2>6. ~PublishedInBin(s)' /\ (Bare(s)' => Bare(s))
    <3>1. Stored(s)' => Stored(s)
      BY <2>3 DEF Stored
    <3>2. QED
      BY <1>1, <2>3, <2>4, <2>5, <3>1 DEF PublishedInBin, Bare
  <2>7. row[s].state = "bin" => Overtaken(s, "edit", "row")
    <3>1. req'[q].pc = "idle"
      BY DEF EditWrite, Finish, IInv, TypeOK, Idle
    <3>2. row[s].state = "bin" => "row" \in stale[q]
      BY <1>1, <1>3 DEF Fresh, KnowsRow
    <3>3. QED
      BY <1>1, <1>3, <3>1, <3>2, ByItself
  <2>8. Unharmed(s)
    BY <1>1, <2>3, <2>6, <2>7 DEF Unharmed
  <2>9. OnLine(s) /\ "row" \notin stale[q] =>
          row'[s].status = "DRAFT" /\ row'[s].version = row[s].version + 1
    <3>1. OnLine(s) /\ "row" \notin stale[q] =>
            from = "PUBLISHED" /\ req[q].version = row[s].version
      BY <1>1, <1>3 DEF Fresh, KnowsRow, OnLine
    <3>2. from = "PUBLISHED" => bumpVersion(from) /\ editOutcomeFor(from) = "DRAFT"
      BY DEF bumpVersion, editOutcomeFor
    <3>3. QED
      BY <2>3, <3>1, <3>2 DEF nextVersion
  <2>10. QED
    BY <1>3, <2>3, <2>4, <2>8, <2>9
<1>4. QED
  BY <1>2, <1>3

\* The conditional UPDATEs: the forced ones check the bin as well.
LEMMA StatusHarmless ==
  ASSUME IInv, DeskInv, FreshInv, NEW q \in Requests,
         TransitionWrite(q) \/ ForceWrite(q) \/ ForceRecall(q), NEW s \in Resources
  PROVE  Unharmed(s)
<1> DEFINE r == req[q].res
           to == req[q].to
           u == req[q].user
<1>1. /\ req[q].pc \in {"write", "force", "forceRecall"} /\ r \in Resources
      /\ row[r] \in Row /\ Fresh(q) /\ HandlerOK(req[q], row) /\ req[q] \in HandlerType
      /\ ForceRecall(q) => to = "RECALLED"
      /\ UNCHANGED files
  BY AtWork DEF TransitionWrite, ForceWrite, ForceRecall, HandlerOK
<1>2. CASE s # r \/ UNCHANGED <<row, ghosts>>
  <2>1. row'[s] = row[s] /\ origin'[s] = origin[s]
    BY <1>1, <1>2
    DEF TransitionWrite, ForceWrite, ForceRecall, SetStatus, Record, ghosts, IInv, TypeOK
  <2>2. QED
    BY <1>1, <2>1, Untouched
<1>3. ASSUME s = r, NEW forced \in BOOLEAN, SetStatus(r, to), Record(r, u, to, forced)
      PROVE  /\ row'[s].state = row[s].state /\ row'[s].status = to
             /\ forced => origin'[s] = "force"
             /\ ~forced /\ to # "PENDING_REVIEW" => origin'[s] = origin[s]
  BY <1>1, <1>3 DEF SetStatus, Record, IInv, TypeOK, Row
<1>4. ASSUME s = r, row[s].state = "live", row'[s].state = row[s].state, ~Bare(s)'
      PROVE  Unharmed(s)
  BY <1>1, <1>4 DEF Unharmed, PublishedInBin
<1>5. CASE s = r /\ ForceWrite(q) /\ ~UNCHANGED <<row, ghosts>>
  <2>1. row[s].state = "live" /\ SetStatus(r, to) /\ Record(r, u, to, TRUE)
    BY <1>5 DEF ForceWrite, Live
  <2>2. row'[s].state = row[s].state /\ origin'[s] = "force"
    BY <1>3, <1>5, <2>1
  <2>3. QED
    BY <1>4, <1>5, <2>1, <2>2 DEF Bare
<1>6. CASE s = r /\ ForceRecall(q) /\ ~UNCHANGED <<row, ghosts>>
  <2>1. row[s].state = "live" /\ SetStatus(r, to) /\ Record(r, u, to, FALSE) /\ to = "RECALLED"
    BY <1>1, <1>6 DEF ForceRecall, Live
  <2>2. row'[s].state = row[s].state /\ row'[s].status = "RECALLED"
    BY <1>3, <1>6, <2>1
  <2>3. QED
    BY <1>4, <1>6, <2>1, <2>2 DEF Bare
<1>7. CASE s = r /\ TransitionWrite(q) /\ ~UNCHANGED <<row, ghosts>>
  <2>1. /\ req[q].pc = "write" /\ Stored(s) /\ row[s].status = req[q].from
        /\ SetStatus(r, to) /\ Record(r, u, to, FALSE) /\ Goto(q, "log")
    BY <1>7 DEF TransitionWrite, StatusStill
  <2>2. /\ row'[s].state = row[s].state /\ row'[s].status = to
        /\ to # "PENDING_REVIEW" => origin'[s] = origin[s]
    BY <1>3, <1>7, <2>1
  <2>3. req'[q].pc # req[q].pc
    BY <2>1 DEF Goto, IInv, TypeOK
  <2>4. row[s].state = "bin" => Overtaken(s, "write", "row")
    <3>1. row[s].state = "bin" => "row" \in stale[q]
      BY <1>1, <1>7, <2>1 DEF Fresh, KnowsRow
    <3>2. QED
      BY <1>7, <2>1, <2>3, <3>1, ByItself
  <2>5. Bare(s)' => Bare(s) \/ Overtaken(s, "write", "files")
    <3> SUFFICES ASSUME Bare(s)' PROVE Bare(s) \/ Overtaken(s, "write", "files")
      OBVIOUS
    <3>1. files[s] = {} /\ origin'[s] = "flow" /\ to \in {"PENDING_REVIEW", "PUBLISHED"}
      BY <1>1, <2>2 DEF Bare
    <3>2. CASE to = "PENDING_REVIEW"
      <4>1. "files" \in stale[q]
        BY <1>1, <1>7, <2>1, <3>1, <3>2 DEF Fresh, KnowsFiles
      <4>2. QED
        BY <1>7, <2>1, <2>3, <4>1, ByItself
    <3>3. CASE to = "PUBLISHED"
      <4>1. row[s].status = "PENDING_REVIEW" /\ origin[s] = "flow"
        BY <2>1, <2>2, <3>1, <3>3 DEF DeskInv
      <4>2. QED
        BY <2>1, <3>1, <4>1 DEF Bare
    <3>4. QED
      BY <3>1, <3>2, <3>3
  <2>6. QED
    BY <1>1, <2>2, <2>4, <2>5 DEF Unharmed, PublishedInBin
<1>8. QED
  BY <1>2, <1>5, <1>6, <1>7

LEMMA BinHarmless ==
  ASSUME IInv, FreshInv, NEW q \in Requests,
         Erase(q) \/ RestoreWrite(q) \/ PurgeDelete(q), NEW s \in Resources
  PROVE  Unharmed(s)
<1> DEFINE r == req[q].res
<1>1. /\ req[q].pc \in {"erase", "restore", "purge"} /\ r \in Resources /\ row[r] \in Row
      /\ row[r].state # "absent" /\ Fresh(q) /\ UNCHANGED origin
  BY AtWork DEF Erase, RestoreWrite, PurgeDelete, ghosts
<1>2. req'[q].pc # req[q].pc
  BY <1>1 DEF Erase, RestoreWrite, PurgeDelete, Finish, IInv, TypeOK, Idle
<1>3. CASE s # r
  <2>1. row'[s] = row[s] /\ files'[s] = files[s]
    BY <1>1, <1>3 DEF Erase, RestoreWrite, PurgeDelete, IInv, TypeOK
  <2>2. QED
    BY <1>1, <2>1, Untouched
<1>4. CASE s = r /\ Erase(q)
  <2>1. CASE ~Live(r)
    BY <1>1, <1>4, <2>1, Untouched DEF Erase
  <2>2. CASE Live(r)
    <3>1. row[s].state = "live" /\ row'[s].state = "bin" /\ row'[s].status = row[s].status
          /\ files' = files /\ req[q].pc = "erase"
      BY <1>1, <1>4, <2>2 DEF Erase, Live, IInv, TypeOK, Row
    <3>2. row[s].status = "PUBLISHED" => "row" \in stale[q]
      BY <1>1, <1>4, <3>1 DEF Fresh, KnowsRow
    <3>3. row[s].status = "PUBLISHED" => Overtaken(s, "erase", "row")
      BY <1>2, <1>4, <3>1, <3>2, ByItself
    <3>4. QED
      BY <1>1, <3>1, <3>3 DEF Unharmed, PublishedInBin, Bare, Stored
  <2>3. QED
    BY <2>1, <2>2
<1>5. CASE s = r /\ RestoreWrite(q)
  <2>1. CASE ~Stored(r)
    BY <1>1, <1>5, <2>1, Untouched DEF RestoreWrite
  <2>2. CASE Stored(r)
    <3>1. row'[s].state = "live" /\ row'[s].status = row[s].status /\ files' = files
      BY <1>1, <1>5, <2>2 DEF RestoreWrite, IInv, TypeOK, Row
    <3>2. QED
      BY <1>1, <1>5, <2>2, <3>1 DEF Unharmed, PublishedInBin, Bare, Stored
  <2>3. QED
    BY <2>1, <2>2
<1>6. CASE s = r /\ PurgeDelete(q)
  <2>1. row'[s].state = "purged" /\ row'[s].status = row[s].status /\ req[q].pc = "purge"
    BY <1>1, <1>6 DEF PurgeDelete, Stored, IInv, TypeOK, Row
  <2>2. row[s].state = "live" => "row" \in stale[q]
    BY <1>1, <1>6, <2>1 DEF Fresh, KnowsRow
  <2>3. row[s].state = "live" => Overtaken(s, "purge", "row")
    BY <1>2, <1>6, <2>1, <2>2, ByItself
  <2>4. QED
    BY <2>1, <2>3 DEF Unharmed, PublishedInBin, Bare, Stored
<1>7. QED
  BY <1>3, <1>4, <1>5, <1>6

LEMMA FilesHarmless ==
  ASSUME IInv, FreshInv, NEW q \in Requests, RegisterInsert(q) \/ RemoveDelete(q),
         NEW s \in Resources
  PROVE  Unharmed(s)
<1> DEFINE r == req[q].res
<1>1. /\ req[q].pc \in {"register", "unfile"} /\ r \in Resources
      /\ Fresh(q) /\ UNCHANGED <<row, origin>>
      /\ files \in [Resources -> SUBSET FileIds]
  BY AtWork DEF RegisterInsert, RemoveDelete, ghosts, IInv, TypeOK
<1>2. CASE s # r
  <2>1. files'[s] = files[s]
    BY <1>1, <1>2 DEF RegisterInsert, RemoveDelete
  <2>2. QED
    BY <1>1, <2>1, Untouched
<1>3. CASE s = r
  <2>1. req'[q].pc # req[q].pc
    BY <1>1 DEF RegisterInsert, RemoveDelete, Finish, IInv, TypeOK, Idle
  <2>2. row[s].status \in {"PENDING_REVIEW", "PUBLISHED"} => "row" \in stale[q]
    BY <1>1, <1>3 DEF Fresh, KnowsRow, EDITABLE_STATUSES
  <2>3. row[s].status \in {"PENDING_REVIEW", "PUBLISHED"} => Overtaken(s, req[q].pc, "row")
    BY <1>3, <2>1, <2>2, ByItself
  <2>4. req[q].pc = "register" => files[s] \subseteq files'[s]
    BY <1>1, <1>3 DEF RegisterInsert, RemoveDelete
  <2>5. Bare(s)' /\ ~Bare(s) => Overtaken(s, "unfile", "row")
    <3>1. Bare(s)' => /\ row[s].status \in {"PENDING_REVIEW", "PUBLISHED"} /\ files'[s] = {}
                      /\ Stored(s) /\ origin[s] = "flow"
      BY <1>1 DEF Bare, Stored
    <3>2. Bare(s)' /\ ~Bare(s) => files[s] # {}
      BY <3>1 DEF Bare
    <3>3. QED
      BY <1>1, <2>3, <2>4, <3>1, <3>2
  <2>6. QED
    BY <1>1, <2>3, <2>5 DEF Unharmed, PublishedInBin
<1>4. QED
  BY <1>2, <1>3

\* So every step keeps every promise, but for the overtaken statements.
LEMMA NextHarmless ==
  IInv /\ DeskInv /\ FreshInv /\ [RaceNext]_raceVars => \A r \in Resources : Unharmed(r)
<1> SUFFICES ASSUME IInv, DeskInv, FreshInv, [RaceNext]_raceVars, NEW r \in Resources
             PROVE  Unharmed(r)
  OBVIOUS
<1>1. ASSUME NEW q \in Requests, Proceed(q) PROVE Unharmed(r)
  BY <1>1, InsertHarmless, EditHarmless, ReadsHarmless, StatusHarmless, BinHarmless, FilesHarmless
  DEF Proceed
<1>2. CASE ToggleDirectory \/ UNCHANGED raceVars
  <2>1. UNCHANGED <<row, files, origin>>
    BY <1>2 DEF ToggleDirectory, raceVars, vars, ghosts
  <2>2. QED
    BY <2>1, Untouched
<1>3. QED
  BY <1>1, <1>2, ReadsHarmless DEF RaceNext, Next

\* However the handlers overlap and whichever statement fails: only a deletion or
\* an approval that has been overtaken gets something PUBLISHED into the bin.
THEOREM BinStaysUnpublished == RaceSpec => NothingPublishedBinned
<1>1. IInv /\ DeskInv /\ FreshInv /\ [RaceNext]_raceVars =>
        [\A r \in Resources :
           PublishedInBin(r)' /\ ~PublishedInBin(r) =>
             Overtaken(r, "erase", "row") \/ Overtaken(r, "write", "row")]_raceVars
  BY NextHarmless DEF Unharmed
<1>2. QED
  BY <1>1, FreshInductive, PTL DEF RaceSpec, NothingPublishedBinned

\* What was submitted keeps a file while it is under review and on line, unless a
\* submission was overtaken by the removal of its file or the other way round.
THEOREM SubmissionsKeepFiles == RaceSpec => SubmissionKeepsFiles
<1>1. IInv /\ DeskInv /\ FreshInv /\ [RaceNext]_raceVars =>
        [\A r \in Resources :
           Bare(r)' /\ ~Bare(r) =>
             Overtaken(r, "write", "files") \/ Overtaken(r, "unfile", "row")]_raceVars
  BY NextHarmless DEF Unharmed
<1>2. QED
  BY <1>1, FreshInductive, PTL DEF RaceSpec, SubmissionKeepsFiles

\* Every edit takes what is PUBLISHED off line, and gives it the next version
\* number if nobody has changed the row since the edit read it.
THEOREM EditsTakeOffLine == RaceSpec => EditTakesOffLine
<1>1. ASSUME IInv, DeskInv, FreshInv, [RaceNext]_raceVars, NEW q \in Requests, EditWrite(q),
             OnLine(req[q].res)
      PROVE  LET r == req[q].res IN
             /\ row'[r].status # "PUBLISHED"
             /\ "row" \notin stale[q] =>
                  row'[r].status = "DRAFT" /\ row'[r].version = row[r].version + 1
  <2>1. req[q].res \in Resources
    BY <1>1, AtWork DEF EditWrite
  <2>2. QED
    BY <1>1, <2>1, EditHarmless
<1>2. IInv /\ DeskInv /\ FreshInv /\ [RaceNext]_raceVars =>
        [\A q \in Requests :
           EditWrite(q) /\ OnLine(req[q].res) =>
             LET r == req[q].res IN
             /\ row'[r].status # "PUBLISHED"
             /\ "row" \notin stale[q] =>
                  row'[r].status = "DRAFT" /\ row'[r].version = row[r].version + 1]_raceVars
  BY <1>1
<1>3. QED
  BY <1>2, FreshInductive, PTL DEF RaceSpec, EditTakesOffLine

\* The status in the bin, the row outside it, and the files of what is under
\* review or on line stand still but for the overtaken statements named there.
THEOREM FrozenIsFrozen == RaceSpec => FrozenStandsStill
<1>1. IInv /\ DeskInv /\ FreshInv /\ [RaceNext]_raceVars =>
        [\A r \in Resources :
           /\ row[r].state = "bin" /\ row'[r].status # row[r].status =>
                Overtaken(r, "write", "row") \/ Overtaken(r, "edit", "row")
           /\ row[r].state = "live" /\ row'[r].state = "purged" => Overtaken(r, "purge", "row")
           /\ /\ row[r].status \in {"PENDING_REVIEW", "PUBLISHED"}
              /\ files'[r] # files[r] /\ row'[r].state # "purged"
              => Overtaken(r, "register", "row") \/ Overtaken(r, "unfile", "row")]_raceVars
  BY NextHarmless DEF Unharmed
<1>2. QED
  BY <1>1, FreshInductive, PTL DEF RaceSpec, FrozenStandsStill
=============================================================================
