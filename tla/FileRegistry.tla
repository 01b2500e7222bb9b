---------------------------- MODULE FileRegistry ----------------------------
(***************************************************************************)
(* Files of a resource between the database and the object store           *)
(* (V2/server/files/files.service.ts, V2/server/storage, the purge of      *)
(* V2/server/resources/resources.service.ts, V2/scripts/                   *)
(* cleanup-orphans.mjs, V2/database/migrations/0002_storage.sql).          *)
(*                                                                         *)
(* An upload is a ticket, a PUT by the browser to the object store, and a  *)
(* registration that verifies the object and writes the row.  Removals and *)
(* purges delete objects, then rows.  The cleanup script deletes objects   *)
(* that were marked when a registration failed, and, in its sweep, old     *)
(* objects no row refers to.  The store and the database share no          *)
(* transaction: every action is one statement, or one call to the store,   *)
(* of one process, and each may fail.                                      *)
(*                                                                         *)
(* There is one resource: keys carry the id of their resource, and nothing *)
(* but the cleanup ever touches two resources.  A ticket is named by its   *)
(* key (upload_tickets_storage_key_key), and so is a file                  *)
(* (resource_files_storage_key_key).                                       *)
(***************************************************************************)
CONSTANTS
  Keys,     \* storage keys, each generated at most once (newStorageKey)
  Requests  \* calls of register and remove that the server handles at a time

VARIABLES
  resource,  \* the row of resources: its status and bin flag, as files see it
  genuine,   \* keys whose bytes, fixed by the ticket's sha256, are what their name says
  ticket,    \* table upload_tickets
  expired,   \* keys whose ticket and upload address have expired
  putting,   \* keys with a PUT under way
  object,    \* the object store
  files,     \* table resource_files
  pending,   \* table storage_orphans: keys with a marker not cleaned yet
  pc, key,   \* requests: the statement each issues next, and about which key
  aware,     \* removals for which the row they read, by its id, is still there
  purgePc, purgeTodo,                       \* the handler of a purge
  cleanPc, cleanTodo, cleanKey, cleanAged,  \* the run of the cleanup script
  smooth     \* this run has --sweep, and meets no failure

uploading == <<genuine, expired, putting>>
purger == <<purgePc, purgeTodo>>
cleaner == <<cleanPc, cleanTodo, cleanKey, cleanAged, smooth>>
vars == <<resource, uploading, ticket, object, files, pending, pc, key, aware, purger, cleaner>>

\* An object is "old" when it was created longer ago than --older-than.
Stored(k) == object[k] # "none"
WithoutObject(k) == [object EXCEPT ![k] = "none"]

TypeOK ==
  /\ resource \in {"editable", "locked", "binned", "gone"}
  /\ ticket \in [Keys -> {"unissued", "open", "consumed", "gone"}]
  /\ object \in [Keys -> {"none", "fresh", "old"}]
  /\ genuine \subseteq Keys /\ expired \subseteq Keys /\ putting \subseteq Keys
  /\ files \subseteq Keys /\ pending \subseteq Keys
  /\ pc \in [Requests -> {"idle", "verify", "sniff", "insert", "orphan", "erase", "unlist"}]
  /\ key \in [Requests -> Keys]
  /\ aware \subseteq {q \in Requests : pc[q] \in {"erase", "unlist"}}
  /\ purgePc \in {"idle", "keys", "objects"}
  /\ purgeTodo \subseteq Keys /\ (purgePc # "objects" => purgeTodo = {})
  /\ cleanPc \in {"idle", "markers", "erase", "settle", "known", "sweep", "sweepErase"}
  /\ cleanTodo \subseteq Keys /\ cleanKey \in Keys /\ cleanAged \subseteq Keys
  /\ smooth \in BOOLEAN

Init ==
  /\ resource = "editable"
  /\ genuine \in SUBSET Keys
  /\ ticket = [k \in Keys |-> "unissued"]
  /\ object = [k \in Keys |-> "none"]
  /\ expired = {} /\ putting = {} /\ files = {} /\ pending = {}
  /\ pc = [q \in Requests |-> "idle"]
  /\ key \in [Requests -> Keys]
  /\ aware = {}
  /\ purgePc = "idle" /\ purgeTodo = {}
  /\ cleanPc = "idle" /\ cleanTodo = {} /\ cleanKey \in Keys /\ cleanAged = {}
  /\ smooth = FALSE

-----------------------------------------------------------------------------
(* The resource, as far as files depend on it.                             *)

\* submit, decisions, recall and the rest of the lifecycle lock and unlock.
ChangeStatus ==
  /\ resource \in {"editable", "locked"}
  /\ resource' = IF resource = "editable" THEN "locked" ELSE "editable"
  /\ UNCHANGED <<uploading, ticket, object, files, pending, pc, key, aware, purger, cleaner>>

SoftDelete ==
  /\ resource \in {"editable", "locked"}
  /\ resource' = "binned"
  /\ UNCHANGED <<uploading, ticket, object, files, pending, pc, key, aware, purger, cleaner>>

Restore ==
  /\ resource = "binned"
  /\ resource' \in {"editable", "locked"}
  /\ UNCHANGED <<uploading, ticket, object, files, pending, pc, key, aware, purger, cleaner>>

-----------------------------------------------------------------------------
(* Uploading.                                                              *)

\* Checks and insert of createUploadUrl: a change of the resource in between
\* has the effect of one right after it.
CreateUploadUrl(k) ==
  /\ ticket[k] = "unissued"
  /\ resource = "editable"
  /\ ticket' = [ticket EXCEPT ![k] = "open"]
  /\ UNCHANGED <<resource, uploading, object, files, pending, pc, key, aware, purger, cleaner>>

\* The address is valid until it expires, whatever became of the ticket: it
\* may be used again, also after the file was registered, removed or purged.
BeginPut(k) ==
  /\ ticket[k] # "unissued"
  /\ k \notin expired
  /\ putting' = putting \cup {k}
  /\ UNCHANGED <<resource, genuine, expired, ticket, object, files, pending,
                 pc, key, aware, purger, cleaner>>

\* The signed size and sha256 keep out all bytes but those declared.
PutLands(k) ==
  /\ k \in putting
  /\ putting' = putting \ {k}
  /\ object' = [object EXCEPT ![k] = "fresh"]
  /\ UNCHANGED <<resource, genuine, expired, ticket, files, pending,
                 pc, key, aware, purger, cleaner>>

PutFails(k) ==
  /\ k \in putting
  /\ putting' = putting \ {k}
  /\ UNCHANGED <<resource, genuine, expired, ticket, object, files, pending,
                 pc, key, aware, purger, cleaner>>

\* STORAGE_PUT_TTL_SECONDS, the same for the ticket and the address.
Expire(k) ==
  /\ ticket[k] # "unissued"
  /\ expired' = expired \cup {k}
  /\ UNCHANGED <<resource, genuine, putting, ticket, object, files, pending,
                 pc, key, aware, purger, cleaner>>

\* Registering(q): q has found its ticket open and not expired.
Registering(q) == pc[q] \in {"verify", "sniff", "insert"}

\* --older-than (24 hours) is more than the address lives (15 minutes), and no
\* upload or request goes on for the difference.
Age(k) ==
  /\ object[k] = "fresh"
  /\ k \in expired \ putting
  /\ \A q \in Requests : Registering(q) => key[q] # k
  /\ object' = [object EXCEPT ![k] = "old"]
  /\ UNCHANGED <<resource, uploading, ticket, files, pending, pc, key, aware, purger, cleaner>>

-----------------------------------------------------------------------------
(* Registration.                                                           *)

Goto(q, where) == pc' = [pc EXCEPT ![q] = where] /\ key' = key

\* The reads and checks before the first call to the store.
BeginRegister(q, k) ==
  /\ pc[q] = "idle"
  /\ resource = "editable"
  /\ ticket[k] = "open"
  /\ pc' = [pc EXCEPT ![q] = IF k \in expired THEN "orphan" ELSE "verify"]
  /\ key' = [key EXCEPT ![q] = k]
  /\ UNCHANGED <<resource, uploading, ticket, object, files, pending, aware, purger, cleaner>>

\* storage.verify: size and hash are as declared if there is an object.
Verify(q) ==
  /\ pc[q] = "verify"
  /\ Goto(q, IF Stored(key[q]) THEN "sniff" ELSE "orphan")
  /\ UNCHANGED <<resource, uploading, ticket, object, files, pending, aware, purger, cleaner>>

\* readObjectHead and classifyFile: what the first bytes say.  An object that
\* is gone by now makes it throw.
Accepted_Unread(k) == TRUE
Accepted(k) == k \in genuine
Sniff(q) ==
  /\ pc[q] = "sniff"
  /\ Goto(q, IF ~ Stored(key[q]) THEN "idle"
             ELSE IF Accepted(key[q]) THEN "insert" ELSE "orphan")
  /\ UNCHANGED <<resource, uploading, ticket, object, files, pending, aware, purger, cleaner>>

\* One transaction.  The foreign key and the unique key may refuse the row;
\* that the ticket was consumed meanwhile is not noticed.
TicketAfterUse_Open == "open"
TicketAfterUse == "consumed"
Insert(q) ==
  /\ pc[q] = "insert"
  /\ Goto(q, "idle")
  /\ IF resource # "gone" /\ key[q] \notin files
     THEN /\ files' = files \cup {key[q]}
          /\ ticket' = [ticket EXCEPT ![key[q]] = TicketAfterUse]
     ELSE UNCHANGED <<files, ticket>>
  /\ UNCHANGED <<resource, uploading, object, pending, aware, purger, cleaner>>

\* recordOrphan: the foreign key refuses a marker when the resource is gone,
\* and that error is swallowed.
RecordOrphan(q) ==
  /\ pc[q] = "orphan"
  /\ Goto(q, "idle")
  /\ pending' = IF resource # "gone" THEN pending \cup {key[q]} ELSE pending
  /\ UNCHANGED <<resource, uploading, ticket, object, files, aware, purger, cleaner>>

-----------------------------------------------------------------------------
(* Removal.                                                                *)

BeginRemove(q, k) ==
  /\ pc[q] = "idle"
  /\ resource = "editable"
  /\ k \in files
  /\ pc' = [pc EXCEPT ![q] = "erase"]
  /\ key' = [key EXCEPT ![q] = k]
  /\ aware' = aware \cup {q}
  /\ UNCHANGED <<resource, uploading, ticket, object, files, pending, purger, cleaner>>

RemoveObject(q) ==
  /\ pc[q] = "erase"
  /\ Goto(q, "unlist")
  /\ object' = WithoutObject(key[q])
  /\ UNCHANGED <<resource, uploading, ticket, files, pending, aware, purger, cleaner>>

\* DELETE by the id of the row that was read, not by its key.
RemoveRow(q) ==
  /\ pc[q] = "unlist"
  /\ Goto(q, "idle")
  /\ IF q \in aware
     THEN /\ files' = files \ {key[q]}
          /\ aware' = {r \in aware : key[r] # key[q]}
     ELSE UNCHANGED <<files, aware>>
  /\ UNCHANGED <<resource, uploading, ticket, object, pending, purger, cleaner>>

\* Any statement throws, or its answer is lost, or the server dies.
Fail(q) ==
  /\ pc[q] # "idle"
  /\ Goto(q, "idle")
  /\ aware' = aware \ {q}
  /\ UNCHANGED <<resource, uploading, ticket, object, files, pending, purger, cleaner>>

-----------------------------------------------------------------------------
(* Purge.                                                                  *)

BeginPurge ==
  /\ purgePc = "idle"
  /\ resource = "binned"
  /\ purgePc' = "keys"
  /\ UNCHANGED <<resource, uploading, ticket, object, files, pending, pc, key, aware,
                 purgeTodo, cleaner>>

PurgeKeys ==
  /\ purgePc = "keys"
  /\ purgePc' = "objects"
  /\ purgeTodo' = files
  /\ UNCHANGED <<resource, uploading, ticket, object, files, pending, pc, key, aware, cleaner>>

\* head() and delete(): what is put between the two survives as if put after.
PurgeObject(k) ==
  /\ purgePc = "objects"
  /\ k \in purgeTodo
  /\ object' = WithoutObject(k)
  /\ purgeTodo' = purgeTodo \ {k}
  /\ UNCHANGED <<resource, uploading, ticket, files, pending, pc, key, aware, purgePc, cleaner>>

\* DELETE FROM resources, by id alone: the rows of its files and tickets go
\* with it (ON DELETE CASCADE), markers stay (ON DELETE SET NULL).  The look
\* back at the store that follows changes nothing but the answer.
AllErased_Later == TRUE
AllErased == purgeTodo = {}
PurgeRow ==
  /\ purgePc = "objects"
  /\ AllErased
  /\ purgePc' = "idle"
  /\ resource' = "gone"
  /\ files' = {}
  /\ aware' = {}
  /\ ticket' = [k \in Keys |-> IF ticket[k] = "unissued" THEN "unissued" ELSE "gone"]
  /\ UNCHANGED <<uploading, object, pending, pc, key, purgeTodo, cleaner>>

\* A statement throws, and the rest is left alone.
PurgeFails ==
  /\ purgePc # "idle"
  /\ purgePc' = "idle" /\ purgeTodo' = {}
  /\ UNCHANGED <<resource, uploading, ticket, object, files, pending, pc, key, aware, cleaner>>

-----------------------------------------------------------------------------
(* The cleanup script: one run at a time, without --dry-run.               *)

CleanStart(ok) ==
  /\ cleanPc = "idle"
  /\ smooth' = ok
  /\ cleanPc' = "markers"
  /\ cleanTodo' = pending
  /\ UNCHANGED <<resource, uploading, ticket, object, files, pending, pc, key, aware, purger,
                 cleanKey, cleanAged>>

\* storage.head(...).catch(() => null): a failing store looks like no object.
Seen(k, stored) == (stored => Stored(k)) /\ (smooth /\ Stored(k) => stored)
AfterHead(stored) == IF stored THEN "erase" ELSE "settle"
CleanMarker(k, stored) ==
  /\ cleanPc = "markers"
  /\ k \in cleanTodo
  /\ Seen(k, stored)
  /\ cleanPc' = AfterHead(stored)
  /\ cleanKey' = k
  /\ cleanTodo' = cleanTodo \ {k}
  /\ UNCHANGED <<resource, uploading, ticket, object, files, pending, pc, key, aware, purger,
                 cleanAged, smooth>>

CleanErase ==
  /\ cleanPc = "erase"
  /\ cleanPc' = "settle"
  /\ object' = WithoutObject(cleanKey)
  /\ UNCHANGED <<resource, uploading, ticket, files, pending, pc, key, aware, purger,
                 cleanTodo, cleanKey, cleanAged, smooth>>

\* What cannot be deleted, or seems so, stays marked.
CleanEraseFails ==
  /\ cleanPc = "erase" /\ ~ smooth
  /\ cleanPc' = "markers"
  /\ object' = object \/ object' = WithoutObject(cleanKey)
  /\ UNCHANGED <<resource, uploading, ticket, files, pending, pc, key, aware, purger,
                 cleanTodo, cleanKey, cleanAged, smooth>>

CleanSettle ==
  /\ cleanPc = "settle"
  /\ cleanPc' = "markers"
  /\ pending' = pending \ {cleanKey}
  /\ UNCHANGED <<resource, uploading, ticket, object, files, pc, key, aware, purger,
                 cleanTodo, cleanKey, cleanAged, smooth>>

\* With --sweep: storage.list after the last marker ...
SweepList ==
  /\ cleanPc = "markers"
  /\ cleanTodo = {}
  /\ cleanPc' = "known"
  /\ cleanTodo' = {k \in Keys : Stored(k)}
  /\ UNCHANGED <<resource, uploading, ticket, object, files, pending, pc, key, aware, purger,
                 cleanKey, cleanAged, smooth>>

\* ... then the keys of resource_files, and the cut-off.
Known_Tickets == {k \in Keys : ticket[k] \in {"open", "consumed"}}
Known == files
SweepKnown ==
  /\ cleanPc = "known"
  /\ cleanPc' = "sweep"
  /\ cleanTodo' = cleanTodo \ Known
  /\ cleanAged' = {k \in Keys : object[k] = "old"}
  /\ UNCHANGED <<resource, uploading, ticket, object, files, pending, pc, key, aware, purger,
                 cleanKey, smooth>>

\* An object that is gone, cannot be read or is too young is left alone.
OldEnough_Any(k) == TRUE
OldEnough(k) == k \in cleanAged
SweepHead(k, stored) ==
  /\ cleanPc = "sweep"
  /\ k \in cleanTodo
  /\ Seen(k, stored)
  /\ cleanPc' = IF stored /\ OldEnough(k) THEN "sweepErase" ELSE "sweep"
  /\ cleanKey' = k
  /\ cleanTodo' = cleanTodo \ {k}
  /\ UNCHANGED <<resource, uploading, ticket, object, files, pending, pc, key, aware, purger,
                 cleanAged, smooth>>

\* The marker inserted with it has cleaned_at set: it is not pending.
SweepErase ==
  /\ cleanPc = "sweepErase"
  /\ cleanPc' = "sweep"
  /\ object' = WithoutObject(cleanKey)
  /\ UNCHANGED <<resource, uploading, ticket, files, pending, pc, key, aware, purger,
                 cleanTodo, cleanKey, cleanAged, smooth>>

SweepEraseFails ==
  /\ cleanPc = "sweepErase" /\ ~ smooth
  /\ cleanPc' = "sweep"
  /\ UNCHANGED <<resource, uploading, ticket, object, files, pending, pc, key, aware, purger,
                 cleanTodo, cleanKey, cleanAged, smooth>>

\* The script is done, or a statement it does not guard throws, or it is
\* interrupted.
CleanEnds ==
  /\ cleanPc # "idle"
  /\ ~ smooth \/ (cleanPc = "sweep" /\ cleanTodo = {})
  /\ cleanPc' = "idle" /\ cleanTodo' = {} /\ cleanAged' = {} /\ smooth' = FALSE
  /\ UNCHANGED <<resource, uploading, ticket, object, files, pending, pc, key, aware, purger,
                 cleanKey>>

-----------------------------------------------------------------------------
(* The specification.                                                      *)

Lifecycle == ChangeStatus \/ SoftDelete \/ Restore

Browser(k) == CreateUploadUrl(k) \/ BeginPut(k) \/ PutLands(k) \/ PutFails(k)

Clock(k) == Expire(k) \/ Age(k)

Calls(q) == \E k \in Keys : BeginRegister(q, k) \/ BeginRemove(q, k)

Handles(q) ==
  \/ Verify(q) \/ Sniff(q) \/ Insert(q) \/ RecordOrphan(q)
  \/ RemoveObject(q) \/ RemoveRow(q) \/ Fail(q)

Purge ==
  \/ BeginPurge \/ PurgeKeys \/ PurgeRow \/ PurgeFails
  \/ \E k \in Keys : PurgeObject(k)

Cleanup ==
  \/ \E ok \in BOOLEAN : CleanStart(ok)
  \/ CleanErase \/ CleanEraseFails \/ CleanSettle
  \/ SweepList \/ SweepKnown \/ SweepErase \/ SweepEraseFails \/ CleanEnds
  \/ \E k \in Keys, stored \in BOOLEAN : CleanMarker(k, stored) \/ SweepHead(k, stored)

Next ==
  \/ Lifecycle \/ Purge \/ Cleanup
  \/ \E k \in Keys : Browser(k) \/ Clock(k)
  \/ \E q \in Requests : Calls(q) \/ Handles(q)

Spec == Init /\ [][Next]_vars

\* Requests and uploads end, time passes, and the cleanup runs again and again,
\* now and then with --sweep and with nothing going wrong.
Fairness ==
  /\ \A q \in Requests : WF_vars(Handles(q))
  /\ \A k \in Keys : /\ WF_vars(PutLands(k) \/ PutFails(k))
                     /\ WF_vars(Clock(k))
  /\ WF_vars(Cleanup)
  /\ SF_vars(CleanStart(TRUE))

FairSpec == Spec /\ Fairness

-----------------------------------------------------------------------------
(* Properties.                                                             *)

\* The row of a file and the use of its ticket go together, and both with the
\* resource, although requests, removals and purges overlap: the transaction
\* of register() and the cascades see to it.
RowHasUsedTicket ==
  \A k \in files : ticket[k] = "consumed" /\ resource # "gone"

\* Nothing is registered whose bytes are not what its name says, however often
\* it is uploaded again, refused, and registered by several requests at once.
RegisteredIsGenuine == files \subseteq genuine

\* The sweep never deletes the object of a registered file, nor of one that is
\* about to be registered: it reads the list of objects, the table and the age
\* of each object one after the other, while registrations go on.
SweepSparesFiles ==
  cleanPc = "sweepErase" =>
    /\ cleanKey \notin files
    /\ \A q \in Requests : Registering(q) => key[q] # cleanKey

\* What a failed, abandoned, removed or purged upload leaves behind, an object
\* without a row or a marker to be settled, is cleared up at last: whatever
\* failed to record it, and whatever is uploaded and registered meanwhile.
Leftover(k) == (Stored(k) /\ k \notin files) \/ k \in pending
LeftoversGo == \A k \in Keys : Leftover(k) ~> ~ Leftover(k)

-----------------------------------------------------------------------------
(* What a comment says and the code does not do. *)

\* "An orphan is what is in the object store and not in the database": the
\* cleanup of markers deletes nothing else.
OnlyOrphansAreErased == cleanPc = "erase" => cleanKey \notin files
=============================================================================
