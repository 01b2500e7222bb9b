-------------------------- MODULE ResourceLifecycle --------------------------
(***************************************************************************)
(* The life of a teaching resource in the V2 server: the status machine,   *)
(* editing, the recycle bin, purging and the registration of its files     *)
(* (V2/server/resources/resources.service.ts,                              *)
(* V2/shared/resource-status.ts, V2/server/files/files.service.ts).        *)
(*                                                                         *)
(* The server is one Node process over a PostgreSQL pool.  A handler       *)
(* awaits one statement after another and holds no row lock in between, so *)
(* any number of handlers interleave at their awaits.  A handler is a      *)
(* request q \in Requests; req[q].pc names the statement it issues next,   *)
(* and the rest of req[q] is what it still remembers from earlier reads.   *)
(* Each action below is one statement, together with the checks the        *)
(* handler makes on its result before it issues the next.                  *)
(*                                                                         *)
(* A request that is refused by its first checks changes nothing but the   *)
(* audit log (a side channel that never fails the request), so it takes no *)
(* step here.  Adjacent reads whose checks are about the same data or      *)
(* about data that never changes (the uploader of a resource) are one      *)
(* step.                                                                   *)
(***************************************************************************)
EXTENDS Integers, FiniteSets

CONSTANTS
  Users,       \* active accounts, each holding the teacher's own permissions
  Admins,      \* accounts with role ADMIN (= superadmin)
  Reviewers,   \* holders of resource.review  (send back)
  Publishers,  \* holders of resource.publish (approve and publish)
  Resources,   \* resource ids
  FileIds,     \* file ids
  Requests,    \* slots for handlers in flight
  Ops,         \* the operations clients call in this instance
  Faults,      \* TRUE when a statement may fail and abort its handler
  MaxVersion,  \* bound on resources.version
  NoUser       \* "no account"

AllOps == {"create", "edit", "submit", "review", "recall", "force",
           "delete", "restore", "purge", "register", "remove", "dirs"}

ASSUME LifecycleAssumption ==
  /\ Admins \subseteq Users /\ Reviewers \subseteq Users /\ Publishers \subseteq Users
  /\ NoUser \notin Users
  /\ Ops \subseteq AllOps
  /\ Faults \in BOOLEAN
  /\ MaxVersion \in Nat \ {0}

VARIABLES
  row,       \* row[r]: the row of r in table resources
  files,     \* files[r]: the ids of r's rows in table resource_files
  explained, \* explained[r]: resource_reviews holds a review.reject row of r
             \* younger than r's last move to PENDING_REVIEW
  dir,       \* the directory the resources are in: enabled itself / all ancestors
  req,       \* the handlers in flight
  publisher, \* history: who moved r to PUBLISHED, and whether by force, until
             \* another move of the status
  decided,   \* history: the current submission of r has had its decision
  origin     \* history: how r last entered PENDING_REVIEW (by submission, by an
             \* edit that wrote back what it had read) or was overridden

table == <<row, files, explained, dir>>
ghosts == <<publisher, decided, origin>>
vars == <<row, files, explained, dir, req, publisher, decided, origin>>

-----------------------------------------------------------------------------
(* The status machine. *)

Statuses == {"DRAFT", "PENDING_REVIEW", "PUBLISHED", "REJECTED", "RECALLED"}

TRANSITIONS ==
  { <<"DRAFT", "PENDING_REVIEW">>, <<"REJECTED", "DRAFT">>,
    <<"PENDING_REVIEW", "PUBLISHED">>, <<"PENDING_REVIEW", "REJECTED">>,
    <<"PUBLISHED", "RECALLED">>, <<"RECALLED", "DRAFT">> }

EDITABLE_PendingToo == {"DRAFT", "REJECTED", "RECALLED", "PENDING_REVIEW"}
EDITABLE_STATUSES == {"DRAFT", "REJECTED", "RECALLED"}

DELETABLE_All == Statuses
DELETABLE_STATUSES == Statuses \ {"PUBLISHED"}

\* What an edit leaves behind, given the status the editor read.
editOutcomeFor(s) ==
  IF s \in {"PUBLISHED", "REJECTED", "RECALLED"} THEN "DRAFT" ELSE s

bumpNever(s) == FALSE
bumpVersion(s) == s = "PUBLISHED"

\* The column default of resources.version, and the version after one.
FirstVersion_Zero == 0
FirstVersion == 1

nextVersion(v) == v + 1

\* The forced moves that leave a row in resource_reviews.
FORCE_NoReject == Statuses \ {"DRAFT", "REJECTED"}
FORCE_STATUS_REVIEW_ACTION == Statuses \ {"DRAFT"}

-----------------------------------------------------------------------------
(* Rows and authorisation. *)

\* The row exists / and is not in the recycle bin (deleted_at IS NULL).
Stored(r) == row[r].state \in {"live", "bin"}
Live_BinToo(r) == Stored(r)
Live(r) == row[r].state = "live"

Row == [state : {"absent", "live", "bin", "purged"}, owner : Users \cup {NoUser},
        status : Statuses, version : 1..MaxVersion]

\* canActOnResource with requireOwner: the uploader, or an administrator.
MayActOnOwn(u, r) == u \in Admins \/ row[r].owner = u

\* canActOnResource with forbidSelf: a permission holder who did not upload
\* it, or an administrator.
MayDecide_Self(u, r, to) ==
  u \in Admins \cup (IF to = "PUBLISHED" THEN Publishers ELSE Reviewers)
MayDecide(u, r, to) ==
  \/ u \in Admins
  \/ /\ u \in (IF to = "PUBLISHED" THEN Publishers ELSE Reviewers)
     /\ row[r].owner # u

\* WHERE status = from: nobody changed the status since it was read.
StatusStill_Any(r, from) == TRUE
StatusStill(r, from) == row[r].status = from

-----------------------------------------------------------------------------
(* Handlers. *)

Idle == [pc |-> "idle", user |-> NoUser, res |-> "none", to |-> "none",
         from |-> "none", version |-> 0, file |-> "none"]

Pcs == {"insert", "edit", "count", "read", "write", "log", "force",
        "forceRecall", "logRecall", "erase", "restore", "purge",
        "register", "unfile"}

\* Slot q takes up handler h, a call of operation op.
Start(q, op, h) ==
  /\ op \in Ops
  /\ req[q].pc = "idle"
  /\ req' = [req EXCEPT ![q] = h]

Handler(pc, u, r) == [Idle EXCEPT !.pc = pc, !.user = u, !.res = r]

Goto(q, pc) == req' = [req EXCEPT ![q].pc = pc]
Finish(q) == req' = [req EXCEPT ![q] = Idle]

\* The status column of r becomes s; what the history variables make of it.
SetStatus(r, s) == row' = [row EXCEPT ![r].status = s]

\* A decision closes the submission it is about; entering review opens one.
Record(r, u, to, forced) ==
  /\ publisher' = [publisher EXCEPT ![r] = IF to = "PUBLISHED"
                                           THEN [by |-> u, forced |-> forced]
                                           ELSE [by |-> NoUser, forced |-> FALSE]]
  /\ decided' = [decided EXCEPT ![r] = to # "PENDING_REVIEW"]
  /\ origin' = CASE forced -> [origin EXCEPT ![r] = "force"]
                 [] ~forced /\ to = "PENDING_REVIEW" -> [origin EXCEPT ![r] = "flow"]
                 [] OTHER -> origin
  /\ explained' = [explained EXCEPT ![r] = @ /\ to # "PENDING_REVIEW"]

-----------------------------------------------------------------------------
(* Creating and editing. *)

\* create: allow_files, and isUsable (the directory and all its ancestors).
BeginCreate(q, u) ==
  /\ dir.own /\ dir.above
  /\ Start(q, "create", Handler("insert", u, "none"))
  /\ UNCHANGED <<table, ghosts>>

\* INSERT INTO resources: a fresh uuid, status DRAFT, version 1.  Resources
\* bounds the uuids of an instance: with none left the insert does not happen.
InsertResource(q) ==
  LET fresh == {r \in Resources : row[r].state = "absent"} IN
  /\ req[q].pc = "insert"
  /\ \/ \E r \in fresh :
          row' = [row EXCEPT ![r] = [state |-> "live", owner |-> req[q].user,
                                     status |-> "DRAFT", version |-> FirstVersion]]
     \/ fresh = {} /\ row' = row
  /\ Finish(q)
  /\ UNCHANGED <<files, explained, dir, ghosts>>

\* update: read the row; every status may be edited.
BeginEdit(q, u, r) ==
  /\ Live(r) /\ MayActOnOwn(u, r)
  /\ bumpVersion(row[r].status) => row[r].version < MaxVersion
  /\ Start(q, "edit", [Handler("edit", u, r) EXCEPT !.from = row[r].status,
                                                    !.version = row[r].version])
  /\ UNCHANGED <<table, ghosts>>

\* UPDATE resources SET ..., status WHERE id: status and version come from the
\* row as it was read, whatever the row is now.  No row left: the handler fails.
EditWrite(q) ==
  LET r == req[q].res  from == req[q].from IN
  /\ req[q].pc = "edit"
  /\ row' = IF Stored(r)
            THEN [row EXCEPT ![r].status = editOutcomeFor(from),
                             ![r].version = IF bumpVersion(from)
                                            THEN nextVersion(req[q].version) ELSE @]
            ELSE row
  /\ origin' = IF Stored(r) /\ editOutcomeFor(from) = "PENDING_REVIEW"
                  /\ row[r].status # "PENDING_REVIEW"
               THEN [origin EXCEPT ![r] = "edit"] ELSE origin
  /\ Finish(q)
  /\ UNCHANGED <<files, explained, dir, publisher, decided>>

-----------------------------------------------------------------------------
(* The four moves of the review workflow. *)

BeginSubmit(q, u, r) ==
  /\ Live(r) /\ MayActOnOwn(u, r)
  /\ Start(q, "submit", [Handler("count", u, r) EXCEPT !.to = "PENDING_REVIEW"])
  /\ UNCHANGED <<table, ghosts>>

\* submit: SELECT count(*) FROM resource_files; none: NO_FILE_TO_SUBMIT.
CountFiles(q) ==
  /\ req[q].pc = "count"
  /\ IF files[req[q].res] = {} THEN Finish(q) ELSE Goto(q, "read")
  /\ UNCHANGED <<table, ghosts>>

\* review: approve needs resource.publish, reject needs resource.review.
BeginReview(q, u, r, to) ==
  /\ to \in {"PUBLISHED", "REJECTED"}
  /\ Live(r) /\ MayDecide(u, r, to)
  /\ Start(q, "review", [Handler("read", u, r) EXCEPT !.to = to])
  /\ UNCHANGED <<table, ghosts>>

BeginRecall(q, u, r) ==
  /\ Live(r) /\ MayActOnOwn(u, r)
  /\ Start(q, "recall", [Handler("read", u, r) EXCEPT !.to = "RECALLED"])
  /\ UNCHANGED <<table, ghosts>>

\* transition: read again, findTransition.
TransitionRead(q) ==
  LET r == req[q].res IN
  /\ req[q].pc = "read"
  /\ IF Live(r) /\ <<row[r].status, req[q].to>> \in TRANSITIONS
     THEN req' = [req EXCEPT ![q].pc = "write", ![q].from = row[r].status]
     ELSE Finish(q)
  /\ UNCHANGED <<table, ghosts>>

\* transition: UPDATE resources SET status = to WHERE id AND status = from.
TransitionWrite(q) ==
  LET r == req[q].res  to == req[q].to IN
  /\ req[q].pc = "write"
  /\ IF Stored(r) /\ StatusStill(r, req[q].from)
     THEN /\ SetStatus(r, to)
          /\ Record(r, req[q].user, to, FALSE)
          /\ Goto(q, "log")
     ELSE /\ Finish(q)
          /\ UNCHANGED <<row, explained, ghosts>>
  /\ UNCHANGED <<files, dir>>

\* INSERT INTO resource_reviews; without its resource the foreign key refuses.
LogReview(q) ==
  LET r == req[q].res IN
  /\ req[q].pc \in {"log", "logRecall"}
  /\ explained' = IF Stored(r) /\ req[q].to = "REJECTED"
                  THEN [explained EXCEPT ![r] = TRUE] ELSE explained
  /\ IF req[q].pc = "logRecall" /\ Stored(r) THEN Goto(q, "erase") ELSE Finish(q)
  /\ UNCHANGED <<row, files, dir, ghosts>>

-----------------------------------------------------------------------------
(* The superadmin's override. *)

\* forceStatusOne: any status but the present one.
BeginForce(q, u, r, to) ==
  /\ u \in Admins
  /\ Live(r) /\ row[r].status # to
  /\ Start(q, "force", [Handler("force", u, r) EXCEPT !.from = row[r].status, !.to = to])
  /\ UNCHANGED <<table, ghosts>>

\* UPDATE ... WHERE id AND status = from AND deleted_at IS NULL.
ForceWrite(q) ==
  LET r == req[q].res  to == req[q].to IN
  /\ req[q].pc = "force"
  /\ IF Live(r) /\ StatusStill(r, req[q].from)
     THEN /\ SetStatus(r, to)
          /\ Record(r, req[q].user, to, TRUE)
          /\ IF to \in FORCE_STATUS_REVIEW_ACTION THEN Goto(q, "log") ELSE Finish(q)
     ELSE /\ Finish(q)
          /\ UNCHANGED <<row, explained, ghosts>>
  /\ UNCHANGED <<files, dir>>

-----------------------------------------------------------------------------
(* The recycle bin. *)

\* softDelete and softDeleteOne, up to assertDeletable.
BeginDelete(q, u, r) ==
  /\ Live(r) /\ MayActOnOwn(u, r)
  /\ \/ /\ row[r].status \in DELETABLE_STATUSES
        /\ Start(q, "delete", Handler("erase", u, r))
     \/ /\ row[r].status \notin DELETABLE_STATUSES /\ u \in Admins
        /\ Start(q, "delete", [Handler("forceRecall", u, r) EXCEPT !.to = "RECALLED"])
  /\ UNCHANGED <<table, ghosts>>

\* recallForForcedDelete: a conditional UPDATE from PUBLISHED to RECALLED.
ForceRecall(q) ==
  LET r == req[q].res IN
  /\ req[q].pc = "forceRecall"
  /\ IF Live(r) /\ StatusStill(r, "PUBLISHED")
     THEN /\ SetStatus(r, "RECALLED")
          /\ Record(r, req[q].user, "RECALLED", FALSE)
          /\ Goto(q, "logRecall")
     ELSE /\ Finish(q)
          /\ UNCHANGED <<row, explained, ghosts>>
  /\ UNCHANGED <<files, dir>>

\* UPDATE resources SET deleted_at = now() WHERE id AND deleted_at IS NULL.
Erase(q) ==
  LET r == req[q].res IN
  /\ req[q].pc = "erase"
  /\ row' = IF Live(r) THEN [row EXCEPT ![r].state = "bin"] ELSE row
  /\ Finish(q)
  /\ UNCHANGED <<files, explained, dir, ghosts>>

\* restore: in the bin, and its own directory is enabled.
BeginRestore(q, u, r) ==
  /\ row[r].state = "bin" /\ MayActOnOwn(u, r)
  /\ dir.own
  /\ Start(q, "restore", Handler("restore", u, r))
  /\ UNCHANGED <<table, ghosts>>

\* UPDATE resources SET deleted_at = NULL WHERE id.
RestoreWrite(q) ==
  LET r == req[q].res IN
  /\ req[q].pc = "restore"
  /\ row' = IF Stored(r) THEN [row EXCEPT ![r].state = "live"] ELSE row
  /\ Finish(q)
  /\ UNCHANGED <<files, explained, dir, ghosts>>

\* purge: superadmin, and in the bin.
BeginPurge(q, u, r) ==
  /\ u \in Admins
  /\ row[r].state = "bin"
  /\ Start(q, "purge", Handler("purge", u, r))
  /\ UNCHANGED <<table, ghosts>>

\* DELETE FROM resources WHERE id, cascading to files and reviews.
PurgeDelete(q) ==
  LET r == req[q].res IN
  /\ req[q].pc = "purge"
  /\ row' = IF Stored(r) THEN [row EXCEPT ![r].state = "purged"] ELSE row
  /\ files' = [files EXCEPT ![r] = {}]
  /\ explained' = [explained EXCEPT ![r] = FALSE]
  /\ Finish(q)
  /\ UNCHANGED <<dir, ghosts>>

-----------------------------------------------------------------------------
(* The files of a resource (assertFilesUnlocked is checked on the row read). *)

Unlocked(r) == row[r].status \in EDITABLE_STATUSES

BeginRegister(q, u, r, f) ==
  /\ Live(r) /\ MayActOnOwn(u, r) /\ Unlocked(r)
  /\ \A s \in Resources : f \notin files[s]
  /\ Start(q, "register", [Handler("register", u, r) EXCEPT !.file = f])
  /\ UNCHANGED <<table, ghosts>>

\* INSERT INTO resource_files: needs the resource and an unused storage key.
RegisterInsert(q) ==
  LET r == req[q].res  f == req[q].file IN
  /\ req[q].pc = "register"
  /\ files' = IF Stored(r) /\ (\A s \in Resources : f \notin files[s])
              THEN [files EXCEPT ![r] = @ \cup {f}] ELSE files
  /\ Finish(q)
  /\ UNCHANGED <<row, explained, dir, ghosts>>

BeginRemove(q, u, r, f) ==
  /\ f \in files[r]
  /\ Live(r) /\ MayActOnOwn(u, r) /\ Unlocked(r)
  /\ Start(q, "remove", [Handler("unfile", u, r) EXCEPT !.file = f])
  /\ UNCHANGED <<table, ghosts>>

RemoveDelete(q) ==
  /\ req[q].pc = "unfile"
  /\ files' = [files EXCEPT ![req[q].res] = @ \ {req[q].file}]
  /\ Finish(q)
  /\ UNCHANGED <<row, explained, dir, ghosts>>

-----------------------------------------------------------------------------
(* The surroundings, and the specification. *)

\* DirectoryService.update switches the directory or one above it on or off.
ToggleDirectory ==
  /\ "dirs" \in Ops
  /\ \/ dir' = [dir EXCEPT !.own = ~@]
     \/ dir' = [dir EXCEPT !.above = ~@]
  /\ UNCHANGED <<row, files, explained, req, ghosts>>

\* An awaited statement throws: the handler ends with what it has written.
Abort(q) ==
  /\ Faults
  /\ req[q].pc # "idle"
  /\ Finish(q)
  /\ UNCHANGED <<table, ghosts>>

Init ==
  /\ row = [r \in Resources |-> [state |-> "absent", owner |-> NoUser,
                                 status |-> "DRAFT", version |-> 1]]
  /\ files = [r \in Resources |-> {}]
  /\ explained = [r \in Resources |-> FALSE]
  /\ dir = [own |-> TRUE, above |-> TRUE]
  /\ req = [q \in Requests |-> Idle]
  /\ publisher = [r \in Resources |-> [by |-> NoUser, forced |-> FALSE]]
  /\ decided = [r \in Resources |-> TRUE]
  /\ origin = [r \in Resources |-> "none"]

Arrive(q) ==
  \E u \in Users :
    \/ BeginCreate(q, u)
    \/ \E r \in Resources :
         \/ BeginEdit(q, u, r)
         \/ BeginSubmit(q, u, r)
         \/ \E to \in Statuses : BeginReview(q, u, r, to) \/ BeginForce(q, u, r, to)
         \/ BeginRecall(q, u, r)
         \/ BeginDelete(q, u, r)
         \/ BeginRestore(q, u, r)
         \/ BeginPurge(q, u, r)
         \/ \E f \in FileIds : BeginRegister(q, u, r, f) \/ BeginRemove(q, u, r, f)

Proceed(q) ==
  \/ InsertResource(q)
  \/ EditWrite(q)
  \/ CountFiles(q) \/ TransitionRead(q) \/ TransitionWrite(q) \/ LogReview(q)
  \/ ForceWrite(q)
  \/ ForceRecall(q) \/ Erase(q) \/ RestoreWrite(q) \/ PurgeDelete(q)
  \/ RegisterInsert(q) \/ RemoveDelete(q)

Next ==
  \/ \E q \in Requests : Arrive(q) \/ Proceed(q) \/ Abort(q)
  \/ ToggleDirectory

Spec == Init /\ [][Next]_vars

-----------------------------------------------------------------------------
(* Properties that hold for any number of handlers in flight. *)

HandlerType ==
  [pc : Pcs \cup {"idle"}, user : Users \cup {NoUser}, res : Resources \cup {"none"},
   to : Statuses \cup {"none"}, from : Statuses \cup {"none"},
   version : 0..MaxVersion, file : FileIds \cup {"none"}]

\* Every variable has its type.
TypeOK ==
  /\ row \in [Resources -> Row]
  /\ files \in [Resources -> SUBSET FileIds]
  /\ explained \in [Resources -> BOOLEAN]
  /\ dir \in [own : BOOLEAN, above : BOOLEAN]
  /\ req \in [Requests -> HandlerType]
  /\ publisher \in [Resources -> [by : Users \cup {NoUser}, forced : BOOLEAN]]
  /\ decided \in [Resources -> BOOLEAN]
  /\ origin \in [Resources -> {"none", "flow", "force", "edit"}]

\* A published resource was put on line by someone entitled to: a publisher
\* who did not upload it, or an administrator; and only administrators do so
\* by force.  No interleaving of edits, deletions and restores gets a resource
\* published any other way (TRANSITIONS, editOutcomeFor, forbidSelf).
PublishedByEntitled ==
  \A r \in Resources :
    row[r].status = "PUBLISHED" =>
      \/ publisher[r].by \in Admins
      \/ /\ publisher[r].by \in Publishers /\ publisher[r].by # row[r].owner
         /\ ~publisher[r].forced

\* A submission (or a forced entry into review) gets at most one decision,
\* however many reviewers decide at once, and whatever is recalled, forced or
\* deleted meanwhile: approve and reject only take effect on a submission not
\* yet decided (the conditional UPDATE in transition()).  The one way round is
\* an edit that writes back a PENDING_REVIEW it read before the decision.
OneDecisionPerSubmission ==
  [][\A q \in Requests :
       /\ TransitionWrite(q)
       /\ req[q].to \in {"PUBLISHED", "REJECTED"}
       /\ req'[q].pc = "log"
       => ~decided[req[q].res] \/ origin[req[q].res] = "edit"]_vars

\* The review row that gives the reason is there, or q is about to insert it.
Pending(q, r) == req[q].pc = "log" /\ req[q].res = r /\ req[q].to = "REJECTED"

\* r was sent back, and neither says why nor is about to.
Unexplained(r) ==
  /\ Stored(r) /\ row[r].status = "REJECTED"
  /\ ~explained[r]
  /\ \A q \in Requests : ~Pending(q, r)

\* A teacher whose resource was sent back can read why, however the handlers
\* overlap: the only way to lose the reason is that the INSERT of the review row
\* itself fails.  The UPDATE before it stands, as the two share no transaction.
RejectionsExplained ==
  [][\A r \in Resources :
       Unexplained(r)' /\ ~Unexplained(r) =>
         \E q \in Requests : Abort(q) /\ Pending(q, r)]_vars

\* A published version is never overwritten in place: an edit that hits a
\* PUBLISHED row takes it to DRAFT under the next version number.
PublishedNotOverwritten ==
  [][\A q \in Requests :
       EditWrite(q) /\ Stored(req[q].res) /\ row[req[q].res].status = "PUBLISHED" =>
         /\ row'[req[q].res].status = "DRAFT"
         /\ row'[req[q].res].version = row[req[q].res].version + 1]_vars
=============================================================================
