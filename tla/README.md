# Verification of the V2 server

TLA+ models, TLC runs and TLAPS proofs for the V2 server of this repository (`src/V2/server`): the
application in which the teachers of a kindergarten store, review, publish and search their
teaching resources.  Paths below are relative to the repository; `resources.service.ts` means
`src/V2/server/resources/resources.service.ts`, `index.service.ts` means
`src/V2/server/ai/index.service.ts`, and so on.

Contents: [the system](#the-system) · [modules](#modules) · [runs](#runs) ·
[fairness](#fairness) · [proofs](#proofs) · [findings](#findings) ·
[hard behaviours](#hard-behaviours-and-where-they-are-covered) ·
[not modelled](#not-modelled) · [what is left](#what-is-left) · [how to run](#how-to-run)

## The system

One Node process (NestJS) serves HTTP over a PostgreSQL pool and an object store; command line
scripts work on the same database beside it.  There are two facts on which everything below rests:

* a handler is an `async` function that awaits one SQL statement after another.  Four handlers open
  a transaction for some of their writes (creating an account, replacing grants, reordering directories, registering a
  file), and none locks the rows it checked before.
  So **any two handlers interleave at every await**, and what a handler read may be stale when it
  writes;
* what keeps the tables consistent is what single statements do by themselves: conditional
  `UPDATE`s (`WHERE status = …`), unique indexes, foreign keys and cascades.

| Component | State it keeps | Operations | Interacts with |
|---|---|---|---|
| Resource lifecycle (`resources.service.ts`, `shared/resource-status.ts`) | `resources` (status, version, deleted_at), `resource_reviews` | create, update, submit, review (approve/reject), recall, force status, delete, restore, purge | authorisation (call), directories (reads `enabled`), files (count, cascade), object store (purge) |
| Authorisation (`authorization.service.ts`, `shared/permissions.ts`) | none of its own; reads grants | `canActOnResource`, scope of a permission | every handler calls it |
| Files (`files.service.ts`) | `resource_files`, `upload_tickets`, `storage_orphans` | ticket, register, remove, download | object store, lifecycle (lock check), AI queue (enqueues) |
| Object store (`storage/*`) | objects | put, head, read, delete | files, purge, cleanup, AI worker |
| Orphan cleanup (`scripts/cleanup-orphans.mjs`) | settles `storage_orphans` | marker loop, sweep | a second process over files and store |
| Directory tree (`directories.service.ts`) | `directories`, grants on them | create, update, move, reorder, remove | lifecycle, grants |
| Accounts (`users.service.ts`) | `users`, grants | create, update role/active, set permissions, reset password | sessions (revokes) |
| Sessions and login (`auth.service.ts`, `session.service.ts`) | `sessions` | login, logout, change password, revoke all | accounts, throttle |
| Login throttle (`login-throttle.ts`) | in-memory buckets | check before, charge when the response ends | login |
| AI index queue and worker (`index.service.ts`, `index.worker.ts`, `0005_ai.sql`) | `ai_index_jobs`, `ai_chunks` | enqueue, backfill, claim, process, write/age chunks, finish, retry | files (enqueues after registration), cascades from lifecycle and files, `scripts/ai-index.mjs` as a second worker |
| AI chat and retrieval (`ai-chat.service.ts`, `retrieval.service.ts`, `ai-rate-limit.ts`) | in-memory rate windows, usage rows | answer a question | reads chunks, calls a provider |
| Account scripts (`scripts/bootstrap-admin.mjs`, `transfer-superadmin.mjs`, `reset-user-password.mjs`) | none; write `users`, `sessions` | first administrator, hand-over, reset | accounts and sessions, beside the server |
| Audit log | `audit_logs` | write (never fails its caller) | written by every handler, read by none |
| V1 import (`scripts/import-v1.mjs` and others) | `v1_migration_map`, `v1_import_runs` | import, push, load | reads V1's database and store; writes every table of V2, also while V2 is in use |

What makes each component correct, in one line each:

* **lifecycle**: nothing goes on line but by the hand of an entitled account; one decision per
  submission; a rejection carries its reason; a published version is never overwritten in place;
  nothing moves in the recycle bin; a purge removes only what is in the bin; what is under review
  or on line has files, and they are frozen;
* **AI queue**: no two processes read the same target at once; a job that is DONE left exactly one
  whole reading of its source; what was indexed stays findable as long as its directory is there;
  retries are bounded; every job ends;
* **files/store/cleanup**: the row of a file and the use of its ticket go together; nothing is
  registered whose bytes are not what they claim; what is left behind is cleared up at last; the
  cleanup takes only what is not registered;
* **directories**: the tree stays a tree under overlapping moves and within its depth, removals take
  nothing with them that hangs on the directory, and nobody is shown a hidden branch;
* **accounts/sessions**: an active administrator remains, nobody becomes one by an edit; no session
  outlives its password; the grants of an account are those of one call;
* **throttle**: failures are bounded with several attempts in flight, and `Retry-After` is long enough
  but for a rounding, which costs a second at most once;
* **AI chat**: the gate and the quota hold with several turns in flight and however a turn ends, and
  every call of the model is booked;
* **V1 import**: however often it is run, by how many, and wherever it is cut off, everything arrives
  once and what administrators have done in V2 stays done.

## Modules

| Module | Models | Lines |
|---|---|---|
| `ResourceLifecycle` | status machine, editing, bin, purge, registration and removal of file rows, all handlers interleaved | statement by statement |
| `ResourceRaces` | the same handlers with a record of which of them have been overtaken, and what only those can break | history |
| `MCResourceLifecycle`, `MCResourceRaces` | instances of these for TLC; the second one with the refinement of `Publication` beside it and the symmetry of handler slots | |
| `ResourceLifecycleProofs` | the theorems of both, and that the lifecycle implements `Publication` | |
| `AiIndexQueue` | enqueueing, the queue table, workers, chunks, cascades, failures and crashes | statement by statement |
| `MCAiIndexQueue` | instances of it | |
| `AiIndexQueueProofs` | its theorems | |
| `FileRegistry` | tickets, uploads, objects, registration, removal, the objects of a purge, markers, the cleanup script; store and database fail separately | statement by statement |
| `MCFileRegistry` | instances of it | |
| `FileRegistryProofs` | its theorems | |
| `DirectoryTree` | create, move, disable, remove, what hangs on a directory, what `getTree` shows | statement by statement |
| `Accounts` | roles, status, passwords, sessions, grants; edits, logins, changes of passwords, replacement of grants; the operator scripts | statement by statement, with the transaction of `setPermissions` |
| `LoginThrottle` | the token buckets of failed logins, time in ticks | check, charge at the end of the response |
| `AiChat` | one question to the assistant: quota, gate, conversation, retrieval, the call, the answer, the usage row | statement by statement |
| `V1Import` | runs of the import, overlapping, cut off, repeated, while V1 and V2 are in use | statement by statement, in one transaction |
| `MCDirectoryTree`, `MCAccounts`, `MCLoginThrottle`, `MCAiChat`, `MCV1Import` | instances of these | |
| `DirectoryTreeProofs`, `AccountsProofs`, `LoginThrottleProofs`, `AiChatProofs`, `V1ImportProofs` | their theorems | |
| `Publication` | what readers and authors are promised of a resource: drafted, submitted, approved, hidden, removed, and by whom; no handlers, no tables | abstract |
| `PublicationRefinement` | the mapping of `ResourceLifecycle` onto it | |

### ResourceLifecycle

State.  `row[r]` is the row of `resources` (bin = `deleted_at` set), `files[r]` the ids in
`resource_files`, `explained[r]` what the `resource_reviews` rows say about the last rejection,
`dir` the two flags of the directory that matter (enabled itself, enabled above).  `req[q]` is a
handler in flight: the statement it issues next and everything it still remembers (the status,
version and target it read).  `publisher`, `decided` and `origin` are history variables: they are
written with the status and read by properties only.

Actions.  `BeginX` is the handler up to its first write or its last read that is not repeated:
authorisation, status and file checks on what it read.  The following actions are its later
statements: `TransitionWrite` is the conditional `UPDATE … WHERE status = from` of `transition()`,
`LogReview` the insert after it; `EditWrite` is the *unconditional* update of `update()`, which
writes the status and version computed from the earlier read; `ForceWrite`, `ForceRecall`, `Erase`,
`RestoreWrite`, `PurgeDelete`, `RegisterInsert`, `RemoveDelete` are the others.  `Abort` is any
statement throwing (constant `Faults`).  A handler that its first checks refuse changes nothing but
the audit log and takes no step.

Races.  Most promises of the workflow can be broken by two handlers that overlap, since most writes do
not repeat the check they rest on.  `ResourceRaces` adds the history variable `stale[q]`: which of the
two things handler `q` has checked, the row of its resource and its files, another handler has changed
since.  It restricts no step.  A statement is *overtaken* when it is issued on a stale reading, and the
properties of the module name, for each promise, the statements that break it when overtaken.  Every
other statement, and these ones when not overtaken, must keep it whatever overlaps and fails.

Abstractions.  Titles, descriptions and search text are left out (an edit is modelled by what it
does to status and version).  The resources of an instance share one directory; its flags are
toggled by `ToggleDirectory`.  Moving a resource to another directory is in `AiIndexQueue`, where
it matters.  Roles are constants: which account holds which permission does not change in a run.

### AiIndexQueue

State.  `jobs` is the table `ai_index_jobs` (state `none`: not inserted yet; `deleted`: removed by
cascade), `chunks` the table `ai_chunks`, `dirs`, `dirOf` and `files` what is stored, `uploads[f]` how far
the upload of `f` has got with its two inserts into the queue.  `worker[w]` is a process inside
`runOnce()`: the claimed jobs not yet started, the job in hand, the text read for it, the index of
the next chunk, the outcome to record.  `shown` and `lost` are history variables.

The workers are the server's timer, which does not re-enter, and any number of runs of
`ai-index.mjs run-once`.

Data.  What a chunk says is represented by its *print*: what it was made from (the column
`source_sha256`).  The text of a file is determined by the file; the metadata of a resource names
its directory and its files.  A long file is one whose text takes two chunks, and metadata takes one
chunk more for each file name: so a source can grow and shrink in chunks, which is what
`markStale` is about.  Kind FILE_OCR is not told apart from FILE_TEXT: with an unchanged
configuration a file always yields the same kind.

Actions.  `Claim` is the one `UPDATE … FOR UPDATE SKIP LOCKED`; `ReadMeta`, `ReadFileRow`,
`ReadBytes`, `ReadDirectory`, `WriteChunk` (one insert), `MarkStale` and `FinishJob` are the
statements of `process()`; `Throw` and `ThrowTaking` are any of them throwing, `CatchFailure` the
`finishJob` in the catch of `runOnce`, `CatchFails` that one throwing too, `Crash` the process
dying.  `MoveResource`, `RemoveFile`, `PurgeResource`, `RemoveDirectory`, `Upload` and
`EnqueueAfterUpload` interleave with all of it; the deletions cascade to jobs and chunks.  A chunk has
three foreign keys, its directory's included: a directory takes with it the chunks that were made when
a resource was in it, wherever that resource is by now (`CascadeDirectory`), and no chunk can be
written for a directory that is gone (`Writable`).  `BackoffElapses` is `next_attempt_at`
arriving.  What may fail is the constant `Faults` (`enqueue`: an insert into the queue, which the
code swallows; `process`; `finish`; `crash`); a statement about something deleted meanwhile throws
without any fault.

### FileRegistry

State.  `object` is the object store, `files`, `ticket` and `pending` the tables `resource_files`,
`upload_tickets` and `storage_orphans` (markers not cleaned), all by storage key: a key is generated
once, and unique indexes name both a ticket and a file by it.  `putting` and `expired` are uploads
under way and addresses past their time, `resource` the row the files hang on.  `pc`, `key` and
`aware` are the requests in flight, `purgePc`/`purgeTodo` a purge, `cleanPc` and the rest the run of
the script.

Actions.  `BeginRegister`, `Verify`, `Sniff`, `Insert` and `RecordOrphan` are `register()`;
`BeginRemove`, `RemoveObject`, `RemoveRow` are `remove()`; `PurgeKeys`, `PurgeObject`, `PurgeRow`
the object loop and the deletion of `purge()`; `CleanMarker`, `CleanErase`, `CleanSettle` the marker
loop, `SweepList`, `SweepKnown`, `SweepHead`, `SweepErase` the sweep.  `Fail`, `PurgeFails`,
`CleanEraseFails`, `SweepEraseFails` and `CleanEnds` are any of it throwing or being cut off; a
`stored` that is FALSE for a stored object is the script's `head().catch(() => null)`.

Details that matter: an upload address is a signature and nothing but time ends it, so a key may be
uploaded again after its registration, its removal or the purge of its resource; the foreign key
refuses a marker for a resource that is gone, and `recordOrphan` swallows that; `remove()` deletes
the row by the id it read (`aware`: that row is still there), `purge()` by the resource.

Data.  The bytes are pinned by the `sha256` signed into the address, so what they are is fixed with
the key (`genuine`), and sizes and hashes never differ.  Reads that nothing can be told apart by are
taken with the next: the resource and the ticket in `BeginRegister`, the resource and the row in
`BeginRemove`, `head()` and `delete()` in `PurgeObject`.

Time.  `Age` says when the script takes an object for old (`--older-than`, 24 hours unless the
operator asks for less): only after its address expired (15 minutes), with no upload of it nor
registration that saw the ticket valid still under way.  Run with `--older-than 0`, the sweep has no
such protection.

### Publication

An abstract specification of what the lifecycle is for: five stages, a hidden flag, the author and
who approved.  `PublicationRefinement` maps a row, its status and the recycle bin onto it
(`INSTANCE Publication WITH …`), for each resource; a stutter is anything the promise does not see,
as for example all reads.  That the handlers' conditional updates, stale reads and unconditional
writes come to no more than `Approve`, `Rework`, `HideOrReturn` and `Remove` is the property
`ImplementsPublication`, checked by TLC and proved.

### DirectoryTree

State.  `parent`, `slug`, `disabled` are the columns that matter of `directories`, `home` and
`scope` the foreign keys of resources and grants, `pc`/`node`/`target`/`chosen` the handlers in
flight.  `crossed`, `raced` and `late` are history variables: what others wrote between a handler's
check and its write.

Actions.  `BeginCreate`, `CreateLevel`, `AllocateSlug`, `InsertNode` are `create()`; `BeginMove`,
`MoveSubtree`, `MoveDepth`, `MoveClash`, `MoveNode` are `move()`; `BeginRemove` and the three counts
and `DeleteNode` are `remove()`.  The recursive queries are defined by closed sets, so that they have
a meaning on any graph; on a cycle such a query does not end, and the handler that issues it stays.

### Accounts

State.  `role`, `active`, `password` are the columns of `users` (a password is the number of times it
was changed), `holder` the table `sessions`, `grants` the committed rows of `user_permissions`.  The
rest are handlers in flight and history: which handlers another write has overtaken, which sessions
and accounts are excused.

Actions.  `EditSelect`, `EditCount`, `EditUpdate`, `Revoke` are `update()`; `BeginLogin`,
`InsertSession` a login; `VerifyCurrent`, `ChangePassword`, `Revoke` a change of password;
`DeleteGrants`, `LockGrants`, `InsertGrants`, `CommitGrants` the transaction of `setPermissions()` at
READ COMMITTED: a DELETE sees what was committed when it started and waits for rows another
transaction has locked.  `Transfer`, `ResetPassword` and the two steps of `bootstrap-admin` are the
scripts.

### LoginThrottle

A bucket counts ticks instead of fractions of a token, `Unit` ticks being one.  The code keeps it as a
floating-point number that every look refills, and a refill rounds: a token that is due may be there as
0.9999999999999999.  `side[k]` says where that number lies, below, at or above the ticks: any of the
three after a look once time has passed (`Refilled`), exact only at the capacity, at zero and where
nothing has been refilled.  `MayTry` and `RetryAfter` depend on it.  What is assumed of the arithmetic
is that the rounding errors, about 1E-16 a look, do not add up to a tick.

`LetIn` and `TurnAway` are the middleware before the login, `EndFailed`, `EndSignedIn` and
`EndUncounted` the end of its response (4xx, 2xx, anything else).

### AiChat

`Ask` is `acquire` and `enter` of the limiter, which do not await; then come one action per awaited
statement and `Abort` for any of them throwing, with `finally { release() }` in `Leave`.  `Reveal`
changes what a user may see at any moment; `Recheck` is the recheck before the model is called.
Which chunks match, ranking and the prompt are left out: retrieval finds any visible set.

### V1Import

An item is a row to bring over: a resource, its review, its file, a grant.  `run[n]` is the open
transaction of operator `n`: what it has inserted and noted is seen by nobody else until `Commit`
and forgotten by `RollBack` (an error, a fatal problem, a cut connection, a dry run).  An insert
under a key another open transaction has inserted waits for its end.  Resources are inserted under
the id they had with `ON CONFLICT DO NOTHING`, the others after a look into `v1_migration_map`.
`Publish` is V1 going on; `Purge`, `TakeAway` and `GrantByHand` are what administrators do in V2.

## Runs

Every bound is a constant of the `.cfg` file.

| Run | Asks | Instance | Result |
|---|---|---|---|
| `lifecycle_overlap` | what holds however handlers overlap, what only an overtaken statement can break, and that it is `Publication` | 1 resource, 1 file, a teacher who reviews and publishes, an administrator, **2 handlers of any kind at once, failing at any statement**, versions up to 2 | holds, 1 278 000 states |
| `lifecycle_alone` | that an edit by itself never overwrites what is on line | 1 resource, 2 files, a teacher, a reviewer/publisher, an administrator, 1 handler at a time, failing at any statement, versions up to 3, directory flags toggled | holds, 93 000 states |
| `ai_index` | safety of the queue | 1 resource moved between 2 directories, each removed once it is empty, a file of two chunks, the server and one script, batches of 2, 3 attempts, 2 jobs, **all faults** | holds, 1 289 000 states |
| `ai_ends` | every job ends | as before, the server alone, with fairness | holds, 404 000 states |
| `file_registry` | safety of the registry, and that leftovers go | 1 key, **2 requests of any kind**, a purge and the script at once, **every statement and call may fail**, with fairness | holds, 219 000 states |
| `directories` | the shape of the tree, what hangs on it, what is shown | 3 directories of depth 2, 1 resource, 1 grant, **2 handlers at once, failing anywhere** | holds, 428 000 states |
| `accounts` | administrators, sessions, grants | 2 accounts, 2 sessions, 1 permission, 2 passwords each, **2 handlers at once, failing anywhere**, the scripts | holds, 775 000 states |
| `login_throttle` | the limit and the `Retry-After` | 1 address, **3 attempts in flight**, a bucket of 2 tokens, 14 ticks, a second of 2 ticks and a token of 5 | holds, 131 000 states |
| `ai_chat` | gate, quota and books, and that the gate reopens | 2 users, **2 turns in flight**, 1 conversation, 1 token, 3 calls, 2 refills, restarts, with fairness | holds, 533 000 states |
| `v1_import` | repeated, overlapping, interrupted imports | 1 resource with review and file, 1 grant, **2 operators**, both systems in use | holds, 442 000 states |
| `found_*` | documented behaviours that do not hold | see [findings](#findings) | violated |

Why these bounds are enough to meet the interesting cases.

* Two handlers are all an interleaving hazard of this code needs: each is a read by one handler and
  a write by another in between.  A third handler only adds longer histories, and those come from
  sequences of handlers in the same two slots: an instance runs any number of handlers one after
  another.  The two accounts of `lifecycle_overlap` are the cases authorisation tells apart: each uploads,
  and then the teacher is the uploader, who may not decide, or the entitled stranger, and the other one
  the administrator, who may.  The version counter is bounded by `MaxVersion`, in a guard of the
  actions that advance it.
* Handlers of different resources share nothing, so one resource suffices; the proofs, which do not
  bound any of this, confirm it for the properties they cover.
* In the queue the cases are: two jobs of one target (metadata enqueued twice, by an upload and by a
  backfill), two targets (metadata and file), a claim that takes both or only one, a source that
  grows and shrinks, a move in the middle.  Two rows of `ai_index_jobs` (`MaxJobs`) let one target
  be indexed, then indexed again after a failed or a crashed attempt; the directory changes, or the
  one it was in is removed, in between.  A job row is never reused.

* A key shares nothing with other keys but its resource, so `file_registry` has one.  Two requests
  are what it takes for a registration to race another or a removal; the purge, the script and the
  browser are processes of their own beside them.  Nothing is counted, so nothing else is bounded;
  of purges and of script runs there is one at a time.
* Three directories make the smallest tree in which two moves close a cycle without either being
  wrong, in which a subtree that is moved has depth, and in which a hidden parent has a parent; two
  levels allowed let a third be refused.  `StopAfterRace` ends a behaviour's calls once the excused
  race has happened (what follows is excused as well); the proofs do not need it.
* Two accounts are the administrator and the other; two handlers and a script are any overtaking, two
  passwords one change, two sessions one before and one after it.  `Inputs` lists the bodies of an
  edit worth telling apart.  `StopAfterSlip` is to `accounts` what `StopAfterRace` is to directories.
* Buckets of different addresses share nothing but the process, so one address suffices.  Three
  attempts let two of them overlap while a third one waits for its answers; a token of 5 ticks, with a
  second of 2, makes the rounding of `Retry-After` matter, and 14 ticks let a bucket be emptied, its
  owner be turned away, wait, be turned away for a rounding, wait again, and empty it once more.
* Two turns are what it takes to fill the gate and to overlap; with one token and two refills the
  quota is met and passed from below.
* One resource with what hangs on it and one grant meet every statement of the import; two operators
  are its concurrency.  Nothing is counted but copies of a file, which other properties bound.

What the properties say.

* `ImplementsPublication` — whatever overlaps, a resource is shown only with a standing approval, given
  by a publisher other than its author or by an administrator; no edit that writes back an old
  status, no restore and no forced move by anybody else can do it; authors stay; what was purged
  stays away.
* `OneDecisionPerSubmission` — approve and reject take effect at most once for a submission; it is
  the conditional `UPDATE` that ensures it.  It has one exception, which the property names: an
  overlapping edit can put a decided resource back under review (finding 1).
* `RejectionsExplained` — a teacher can read why.  The status and the review row are two statements:
  the reason is stored or a handler is about to store it, and it is lost by one failure only, that of
  this INSERT, whatever overlaps, overwrites the row or fails besides.
* `NothingPublishedBinned`, `SubmissionKeepsFiles`, `EditTakesOffLine` and `FrozenStandsStill` — the
  promises of `RESOURCE_LIFECYCLE.md`: what is on line does not go to the bin, what is submitted has a
  file, an edit takes what is on line off line under a new version, and what is frozen stands still (the
  status in the bin, what is not in the bin when something is purged, the files under review and on
  line).  Each can be broken by overlapping handlers, and each property names the statements that can do
  it and asks that they were overtaken in just that: a deletion or an approval whose row has changed
  since it was read; a submission whose files, or a removal of a file whose lock check, has; and so on.
  A missing condition anywhere else, or one that fails without a race, violates them.  A row lock, or a
  repeated check, is thus needed at these statements and at no others.
* `PublishedNotOverwritten` — the same of edits without the exception.  It holds of one handler at a
  time in any sequence, and not of two (finding 1).
* `OneWorkerPerTarget` — two processes never work on the same target at once.
* `DoneIsWhole` — after a DONE job the READY chunks are one whole reading and nothing else, whatever
  earlier attempts left half written; none, if the directory it was made in has been removed.
* `OnceDoneStaysFindable` — re-indexing, failing half way, crashing and moving do not take an indexed
  file out of the index.  The removal of the directory in which it was last indexed does, although the
  file is in another one by then (see findings); the property has that exception and no other.
* `RetriesBounded`, `EveryJobEnds` — a document that always fails neither costs money for ever nor
  stays in the queue for ever.
* `RowHasUsedTicket` — the transaction of `register()` and the cascades hold together whatever
  overlaps: no file with an open ticket, none without a resource.
* `SweepSparesFiles` — the sweep lists, reads the table and asks for ages at different times, and
  still never erases what is or is being registered.
* `LeftoversGo` — an object nobody refers to, or a marker, is there only for a time, whichever
  failure left it: by a late upload, a purge, a lost marker, a marker settled too early.

* `CycleNeedsRacingMoves` — the check for a cycle comes several round trips before the write.  It is
  enough against everything but another move; the property says exactly that.
* `DepthBounded` — the same of the levels, which a create or a move in between can exceed.
* `NothingPromoted` — the passes of `getTree` over the rows are as many as the tree is deep: no node
  surfaces at the top because its parent is hidden.
* `RemovalSparesGrants` — `remove()` counts the grants and deletes later; only a grant given in between
  goes with the directory.
* `AdminRemains`, `AdminsAreHandedOver` — the last-administrator guard counts before the `UPDATE`, and an
  edit that repeats a role it has read is no promotion: only an edit overtaken by another write to
  roles or statuses, or a second bootstrap, leaves none or makes two.
* `OldPasswordsExpire` — revocation comes after the change; a session on an old password is about to be
  revoked, or its revocation failed, or its login overlapped the change, and nothing else.
* `GrantsAsGiven` — replacing grants is one transaction, but without a lock on the account: only
  overlapping replacements mix.
* `FailuresBounded`, `RetryAfterKept` — attempts in flight overshoot the bucket together, who waits for
  each answer does not, whatever the others do to it.  At the end of the time in a 429 a whole token is
  due, and it is at most a second too long.  Who comes back then may be turned away for the rounding of
  the bucket (see findings), but once only and for one more second.
* `GateCountsTurns`, `GateReopens` — no way out of a turn, error, 404, deleted conversation, hung
  provider, loses a place in the gate.
* `CallsBooked` — every finished call of the model is in `ai_usage_events`, with three named exceptions.
  That there is none without a token for it (`CallsPaidFor`) is proved; the run checks, in `TypeOK`, that
  no bucket is overdrawn.
* `CopiedOnce`, `AdminsWorkStands`, `NothingLost` — the import is idempotent, does not put back what was
  taken away and never notes what it has not brought.  The first two have the exception of two runs
  of which one looks an item up while the other is at it; the second that of the bare row of a purged
  resource (see findings).

Deadlock is checked where the system never rests (`lifecycle_overlap`, `lifecycle_alone`,
`login_throttle`, `ai_chat`); the other instances may come to rest (all jobs ended, all ids or
passwords used up, handlers stuck on a cycle).

## Fairness

In `AiIndexQueue`, `FairSpec` assumes:

* `WF(Claim(Server))` — the timer of `index.worker.ts` fires for ever (`setInterval`, lines 34–39)
  and, when the server is not in a round, `runOnce` claims what is due.  It assumes that the seeding
  of static chunks before the first claim eventually succeeds (lines 60–64 run again on each tick
  until they do);
* `WF(Work(w))` — a running process executes its next statement, with whatever result: failing is
  one of the results, so nothing is assumed about success;
* `WF(BackoffElapses(j))` — the clock moves.

In `FileRegistry`: requests and uploads end (`WF` of `Handles` and of the two ends of a PUT; ending in
failure will do), time passes (`Clock`), a started script goes on (`WF(Cleanup)`), and again and
again a run of it has `--sweep` and meets no failure (`SF(CleanStart(TRUE))`: `smooth` runs).  The
script's header has it run by hand or by cron; every other run may fail anywhere.

In `AiChat`, `WF(Proceed(t))`: a statement of a turn comes to an end, with whatever result, and so does
the call of the model (`AbortSignal.timeout` in `provider.ts`).

In the queue, scripts need not be started.  No fairness is assumed of users, uploads or crashes.  `EveryJobEnds`
excepts the jobs in `lost`, whose process died or failed to record the failure.

## Proofs

`tlapm` checks them for every value of the constants: any number of accounts, resources, files,
handlers, scripts and jobs.  The assumptions are those of the modules (`LifecycleAssumption`,
`QueueAssumption`, `DirectoryAssumption`, `AccountsAssumption`, `ThrottleAssumption`,
`ChatAssumption`, `ImportAssumption`; `FileRegistry` has none), which the runs of each module evaluate.
Every invariant and action property that a passing run checks is the statement of a theorem, but for
one action property (below); of the temporal ones, the refinement is.

`ResourceLifecycleProofs`

* `TypeCorrect`, `OnlyEntitledPublish`: the inductive invariant is
  `TypeOK /\ PublishedByEntitled /\ HandlerOK` for every slot.  `PublishedByEntitled` alone is not
  inductive: a handler about to write PUBLISHED must belong to an account that may decide on the
  row, and a handler about to write back a status it read must not bring PUBLISHED.
* `DecidedOnce`: that a decision needs `from = PENDING_REVIEW`, that the row still has that status,
  and that a row under review is undecided unless an edit put it there (`DeskInv`).
* `RejectionExplained`, with and without failing statements: the only step that can leave a rejection
  without a reason, stored or pending, is the end of a handler at its `log` statement.  The lemmas follow
  `Explained` through the tables (`ExplainedKept`) and through handlers that start (`ArriveLeavesTables`).
* `LifecycleImplementsPublication`: initial states map to initial states and every step to a step or
  a stutter, for each resource, on top of the invariants above.
* `BinStaysUnpublished`, `SubmissionsKeepFiles`, `EditsTakeOffLine`, `FrozenIsFrozen`: the properties of
  `ResourceRaces`, theorems of `RaceSpec`, for any number of handlers in flight on any resources, each
  failing anywhere, and with no assumption that keeps them apart.  `FreshInv` is what they rest on: a
  handler that has not been overtaken still knows what it has checked, of its row (`KnowsRow`) and of
  the files it has counted (`KnowsFiles`).  It is kept because whatever one handler changes of a
  resource becomes stale for all others (`FreshStep`, `ArriveFresh`, `ProceedFresh`).  Then each statement is shown to break
  nothing unless it is one of those named, on a stale reading (`EditHarmless`, `StatusHarmless`,
  `BinHarmless`, `FilesHarmless`).

`AiIndexQueueProofs`

* `IndexInvariant`, `IndexTypeCorrect`, `OneReaderPerTarget`.  One would expect the unique index and
  the claim to give `OneWorkerPerTarget` directly.  They do not: a process still works on a job
  whose row a cascade has deleted, and the index does not see it any more.  The invariant therefore
  says that the target of a deleted job is gone for good (`JobsFollowTargets`, `NewFilesUnknown`,
  `GoneIsEmpty`), so nothing can be enqueued for it again; that what a process holds is RUNNING or
  deleted and held by it alone (`HoldsClaimed`); the unique index (`OneActivePerTarget`); and, for
  the types, where each process stands (`HandsOK`).  It was model-checked as an invariant first.
* `RetriesStayBounded`: a PENDING job has to be one below the bound, since the claim counts.
* `DoneShowsOneReading`, `IndexedStaysFindable`.  `DoneIsWhole` is far from inductive.  `ChunkInv` adds:
  what a process has written of its reading so far (`WritesDone`: the first `index` pieces while it
  writes, all of them when it comes to `markStale`, and nothing else READY after it), except where its
  job has been deleted; that the jobs that can still write are the youngest of their targets, since job
  ids are given out in order; and, for the second, that a DONE job of a file has left all its pieces
  READY in some directory, which no later `markStale` of the same print takes away.  Pieces are
  counted by cardinality, so file sets are finite (`FilesFinite`).  All of this is said of directories
  that are there: the removal of one takes all chunks in it and forbids new ones
  (`RemoveDirectoryChunks`).  Model-checked first.

`FileRegistryProofs`

* `RegistryInvariant`, `RegistryTypeCorrect`, `RowAndTicketTogether`, `OnlyGenuineRegistered`,
  `SweepIsSafe`, for any number of keys and requests.  The argument of the last: what is old is
  *over* (its address expired, no upload and no registration of it under way), being over is for
  ever (`OverStays`), and so a key that the table did not have when the sweep read it, and that was
  past the cut-off then, is never registered later (`SweepOK`).

`DirectoryTreeProofs`

* `TreeInvariant` (below): types, nothing dangling, and `MovesApart`, which says what a handler about
  to write knows: unless another move has been written since its check, what it checked still holds.
  From it `TreeTypeCorrect`, `CyclesNeedRaces`, `NoDanglingRows`, `SlugsStayDifferent` and
  `GrantsSurviveRemovals`, for any number of directories and handlers.  That a move keeps a tree a tree
  is shown without induction over paths: that the moved node is not above its target is witnessed by
  a closed set; a set of directories that refuted `Acyclic` after the move, intersected with that
  witness, would have refuted it before.
* `DepthStaysBounded`.  A path is the least closed set with the directory in it.  So what an insert, a
  move or a removal makes of a path is bounded by any set that one shows to be closed afterwards:
  after a move of x under p, the path of what is below x lies in the path of p and its old part below x
  (`MovePaths`).  `DepthInv` says that what a handler has measured still holds when it writes, unless
  something was put into the tree since (removals only shorten paths): there is room for one more under
  its target (`RoomUnder`), or for every line below its directory (`RoomFor`, which is what
  `subtreeDepth` computes, `SubtreeDepth`).
* `NothingIsPromoted`.  A directory still shown after i passes has only visible ones above it or a path
  of more than i + 1 (`RoundsAreLong`, from `Acyclic`), and no path is longer than there are passes.
  `getTree`'s passes are a recursive function, and the library's induction theorems cannot be used, as
  they take a predicate; the same induction is done over a *set* of numbers (`Least`, `CountUp`), from
  the well-foundedness of strict inclusion.  That the recursion defines a function at all is
  `RoundsExist`.

`AccountsProofs`

* `AccountsTypeCorrect`, `AnAdminRemains`, `OnlyHandedOver`, `PasswordsEndSessions`, `GrantsOfOneCall`.
  The invariants say what the checks of an edit have established and that it remains true as long as
  nobody has overtaken it (`ChecksHold`), and, for grants, that what a transaction deletes is all
  there is unless another one has come in between (`SeesAll`).

`LoginThrottleProofs`

* `ThrottleTypeCorrect`, `FailuresAreBounded` (what lone failures cost is covered by
  what the bucket has lost, and for a lone attempt in flight a token is left over in that account,
  whatever the bucket holds by now), `RetryAfterIsKept` (for every rate and every length of a second,
  and whichever way each look rounds: a caller who has come back in vain once is told one second,
  `RetryAfterOfNothing`, and by the end of that the bucket holds more than a token, or is full).

`AiChatProofs`

* `ChatTypeCorrect`, `GateIsExact`, `QuotaKept`, `CallsAreBooked`.  The gate is a cardinality: the
  lemmas add and remove one turn.  The quota is an account: tokens, calls made and calls still to
  come never exceed what was given (`Paid`).  That a call without a row has an excuse rests on the
  foreign key of the messages (`TurnOK`).

`V1ImportProofs`

* `ImportTypeCorrect`, `EverythingOnce`, `NoWorkUndone`, `NotedIsThere`, for any number of items and
  operators.  The properties speak of what is committed, and a commit brings what a run has collected
  over many statements.  `ImportInv` therefore says what an open transaction may hold: rows that nobody
  else has (`RowsAreNew`), with their parents (`ParentsSeen`), noted or about to be (`RowsAreNoted`),
  notes that a row or missing bytes back (`NotesAreBacked`), and, for what no two runs have met at, that
  only one has it in hand and nobody has noted it (`HandsApart`).

Model-checked only: the three liveness properties, `EveryJobEnds`, `LeftoversGo` and `GateReopens` (they
rest on fairness, which TLAPS does not reason about), and `PublishedNotOverwritten`, which holds of one
handler at a time only; what of it holds of any number is `EditTakesOffLine`.

## Findings

Each is a run that TLC violates as expected; the counterexample is the scenario.

1. `found_overwrite` — *an edit overwrites what was published meanwhile* (`resources.service.ts:758`).
   `update()` writes `WHERE id` with the status and version it computed from its read.  An edit of a
   resource under review (every status may be edited) that overlaps the approval puts the PUBLISHED
   row back to PENDING_REVIEW, in place and without a new version.
2. `found_cleanup_registered` — *the cleanup deletes the object of a registered file*
   (`cleanup-orphans.mjs:97`).  A registration that comes before its upload is complete leaves a
   NOT_FOUND marker and an open ticket; the second try registers the file; nothing withdraws the
   marker, and the marker loop does not look at `resource_files`.

Other disagreements met while modelling.  They are not runs of their own; where a module is named,
adding the property to its instance shows them.

Lifecycle and directories

* By the same check-then-write as finding 1, and each the exception of a property of `ResourceRaces`: the
  version goes back; a PUBLISHED row ends in the bin (delete read it before the approval); a status
  moves in the bin; a submission without files (removed between the count and the move); a file changed
  after the lock check.
* A resource restored while its purge is under way is destroyed while live: `purge()` checks the bin on
  the row it read and deletes `WHERE id` alone (`resources.service.ts:1349`; line 1315 says it only
  handles what is in the bin).
* `restore()` asks whether the directory itself is enabled, not whether those above it are
  (`resources.service.ts:1255`); the comment above it (line 1244) says it must not restore to a place
  nobody sees.
* With failures, a REJECTED row without its reason (two statements): the exception of `RejectionsExplained`.
* `REVIEW_WORKFLOW.md:53` against `authorization.service.ts`: an administrator may decide on an own
  upload.
* Two moves at once close a cycle of directories, and every later recursive query on it hangs
  (`DirectoryTree` with `StopAfterRace = FALSE`).

Login

* Who obeys `Retry-After` may be turned away again (`login-throttle.ts:102`).  At the production default
  of 5 per minute, a bucket emptied at 0 ms and asked at 2000 ms answers 10 seconds, and at 12000 ms it
  holds 0.9999999999999999 of a token.  The unit test of the refilling period
  (`login-throttle.test.mjs:72`) asks in between only at 0 ms, when there is nothing to add; of the
  11 999 other milliseconds at which one may ask, 1614 let the token fall short at the end of the 12
  seconds.  `RetryAfterLetsIn`, added to `login_throttle`, is violated; `RetryAfterKept` bounds the harm.

AI

* Removing an empty directory takes indexed files out of the index (`directories.service.ts:632`).  A
  file is indexed in one directory and its resource moves to another (`resources.service.ts:742`, which
  enqueues nothing); the chunks keep the old one, although `0005_ai.sql:32` has it there for ranking only.
  When it is removed, empty, `ON DELETE CASCADE` takes all chunks of a file that exists and whose job is
  DONE.  `remove()` refuses to delete grants in this way, since a protected removal is not to delete data
  nobody asked to delete (`directories.service.ts:622`), but does not look at chunks.  A backfill brings them
  back.  `IndexedIsFound`, added to `ai_index`, is violated; the exceptions of `DoneIsWhole` and
  `OnceDoneStaysFindable` say that this is the only way.
* Recording a failure may fail itself (`index.service.ts:151`): the round ends and the rest of its batch
  stays RUNNING for ever, as after a crash; nothing reads `locked_at`, and the unique index refuses
  to enqueue those targets again.
* The second upload's metadata job is dropped while the first one's, which has already read the file
  names, runs (`index.service.ts:100`).
* `attempts` is counted by the claim and again by the catch: `maxIndexAttempts = 3` gives two tries,
  and the first back-off is 30 s where `STAGE15_AI.md` has 15 s.
* A resource that moves leaves its old directory's chunks READY (`markStale` is keyed by
  `directory_id`), and nothing enqueues on a move, an edit or a change of status, although
  `0005_ai.sql` has the reason `UPDATED`.
* `retrieval.service.ts:212` has the citations rechecked after the answer and before it is stored; the
  recheck comes only before the model is called (`ai-chat.service.ts:242`), so an answer is stored with
  citations that were withdrawn while it was written.  `messages()` returns stored citations as they
  are, although `0005_ai.sql:113` asks for the present permission to be checked before they are shown.
* A call of the model whose answer is blank, or whose conversation is deleted meanwhile, is paid for
  and has no row in `ai_usage_events` (the exceptions of `CallsBooked`).

Files

* A ticket can be used twice (`0002_storage.sql:51` says once): two registrations find it open, the
  first inserts the row, a removal deletes object and row, the second inserts again, now without an
  object; that its `UPDATE … WHERE consumed_at IS NULL` hits no row is not noticed.  Three requests
  in `FileRegistry` reach it.
* A registered file may lack its object: after `remove()` or `purge()` failed half way (and the
  resource was restored), and after finding 2.
* A marker is settled although its object is there when `head()` failed; the sweep gets it.

Accounts

* Replacing grants is one transaction, but two of them at once leave the rows of both
  (`users.service.ts:573`): the exception of `GrantsAsGiven`.

Import

* A resource that administrators have purged is inserted again by the next run: resources are inserted
  `ON CONFLICT (id) DO NOTHING` whatever the map says (`import-v1.mjs:920`).  Its reviews and files stay
  away, as the map knows them: it comes back empty.  `import-v1.mjs:17` promises that a second run is
  a no-op and undoes nobody's work.
* `0003_v1_migration.sql:13` gives two operators at once as the reason for keeping the map in the
  database; but a file is looked up first and noted after it was inserted, so two runs that meet at a
  new file copy it twice (the exception of `CopiedOnce`).
* An unreadable source object is noted once as missing, also when it was the connection that failed;
  no later run tries it again.
* A grant that an administrator has given by hand makes the import's insert violate
  `user_permissions_uniq`, and the whole run is rolled back.
* `V1_MIGRATION.md` has the dry run write nothing: the objects of files are stored all the same, since
  the rollback only covers the database.  It has keys of objects fixed (line 354): they hold a random
  uuid.

Redundant: either clause of `markStale`'s last condition as long as prints determine the number of
chunks; `process()`'s branch for `resource_id === null`, which is never reached.

## Hard behaviours and where they are covered

The list with lines is `PROJECT.json`, "hazards".  In short:

| Hazard | Covered by |
|---|---|
| two handlers on one row: stale status, version, lock, bin | `lifecycle_overlap`, proved; `found_overwrite` |
| several reviewers at once | `OneDecisionPerSubmission`, proved |
| status and review row are two statements | `RejectionsExplained`, proved |
| forced moves followed by any sequence of ordinary ones | `ImplementsPublication`, `SubmissionKeepsFiles`, proved |
| two index processes, one queue | `OneWorkerPerTarget`, proved |
| half-written chunks, sources that shrink, moves in the middle | `DoneIsWhole`, `OnceDoneStaysFindable`, proved |
| removal of a directory against what was indexed in it | the same two |
| crash, failing failure handling | `ai_index`, `ai_ends` |
| object store against tables, lost and late uploads | `LeftoversGo`, `RowHasUsedTicket`; proved: only genuine files are registered |
| cleanup against registration | `SweepSparesFiles`, proved; `found_cleanup_registered` |
| two moves closing a cycle; levels counted before the write; removal against what is put in | `CycleNeedsRacingMoves`, `RemovalSparesGrants`, `DepthBounded`, proved |
| last administrator, transfer against edit, revocation against login, grants replaced twice | `AdminRemains`, `AdminsAreHandedOver`, `OldPasswordsExpire`, `GrantsAsGiven`, proved |
| buckets charged late, rounding | `FailuresBounded`, `RetryAfterKept`, proved |
| turns that fail, hang or lose their conversation | `GateCountsTurns`, `CallsPaidFor`, `CallsBooked`, proved; `GateReopens` |
| an import repeated, doubled, cut off, with V2 in use | `CopiedOnce`, `AdminsWorkStands`, `NothingLost`, proved |

## Not modelled

* What changes no state that decides anything: lists, counts, previews, downloads, the audit log (it
  never fails its caller and nothing reads it back), sorting of siblings, names, titles, descriptions.
* The directory scope of permissions and the view rules (`authorization.service.ts`): reads within one
  statement; the models take their result as what an account may do or see, which `AiChat` lets change
  at any moment.
* Data: ranking, prompts, the provider's HTTP, parsers of document formats, signatures of addresses,
  hashing of passwords, classification of files beyond its verdict.
* `seedStaticChunks` (the same rows at each start), `purgeExpired`, `--dry-run` of the cleanup.
* In the import: alignment of directories and translation of values, which are functions of the source;
  accounts and audit rows, which have a unique key of their own; reports.  `push-v2-rows.mjs` and
  `load-v1-snapshot.mjs` are one-shot copies into an empty database.
* The migration runner: it runs at deployment, before the server.
* The React client and the HTTP shell: no state of their own beyond the process.
* V1 (`src/server`, `src/client`, `src/shared`, `src/scripts`), which V2 replaces, but for what the
  import reads of it; it is most of the repository's code.

## What is left

* Proofs: that other components implement an abstract specification, as the lifecycle does (the queue
  as a set of readings, the tree as one that is changed in single steps).
* A composition of lifecycle, files and index: that what is purged leaves neither object nor chunk.  Each
  half is checked in its module (`LeftoversGo`; the cascades in `AiIndexQueue`).
* `reorder()` of directories, and the object a dry run of the import leaves.

## How to run

From this directory, with TLC and tlapm on the path and the community modules in the library:

    tlc -workers 2 -config lifecycle_overlap.cfg MCResourceRaces.tla
    tlc -workers 2 -config lifecycle_alone.cfg MCResourceLifecycle.tla
    tlc -workers 2 -config ai_index.cfg MCAiIndexQueue.tla
    tlc -workers 2 -config file_registry.cfg MCFileRegistry.tla
    tlc -workers 2 -config directories.cfg MCDirectoryTree.tla
    tlc -workers 2 -config accounts.cfg MCAccounts.tla
    tlc -workers 2 -config login_throttle.cfg MCLoginThrottle.tla
    tlc -workers 2 -config ai_chat.cfg MCAiChat.tla
    tlc -workers 2 -config v1_import.cfg MCV1Import.tla
    tlapm ResourceLifecycleProofs.tla
    tlapm AiIndexQueueProofs.tla
    tlapm FileRegistryProofs.tla
    tlapm DirectoryTreeProofs.tla
    tlapm AccountsProofs.tla
    tlapm LoginThrottleProofs.tla
    tlapm AiChatProofs.tla
    tlapm V1ImportProofs.tla
