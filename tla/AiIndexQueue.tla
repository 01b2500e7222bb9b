---------------------------- MODULE AiIndexQueue ----------------------------
(***************************************************************************)
(* The queue of the knowledge index behind the AI assistant, and its       *)
(* workers (V2/server/ai/index.service.ts, V2/server/ai/index.worker.ts,   *)
(* V2/database/migrations/0005_ai.sql).                                    *)
(*                                                                         *)
(* A finished upload enqueues two jobs, one for the metadata of its        *)
(* resource and one for the text of the file; a backfill enqueues the same *)
(* for everything stored.  The server's timer, and any number of runs of   *)
(* scripts/ai-index.mjs beside it, claim jobs in batches, read what the    *)
(* job is about and write its text piece by piece to table ai_chunks.      *)
(* Every action is one statement (or one read of the object store) of one  *)
(* process; the variable worker is what a process remembers in between.    *)
(*                                                                         *)
(* What a chunk says is represented by what it was made from (its print,   *)
(* the column source_sha256): the text of a file never changes, and of the *)
(* metadata of a resource the directory and the file names are kept.       *)
(***************************************************************************)
EXTENDS Integers, FiniteSets

CONSTANTS
  Resources, FileIds, Dirs,
  NoFile, NoDir,     \* NULL in file_id and directory_id
  LongFiles,         \* files whose text takes two chunks
  Server, Scripts,   \* the timer of the server, runs of ai-index.mjs run-once
  Batch,             \* indexBatch
  MaxIndexAttempts,  \* maxIndexAttempts
  MaxJobs,           \* bound on the rows of ai_index_jobs
  Faults             \* what may go wrong, out of AllFaults

AllFaults == {"enqueue", "process", "finish", "crash"}

ASSUME QueueAssumption ==
  /\ Server \notin Scripts
  /\ NoFile \notin FileIds /\ NoDir \notin Dirs
  /\ Resources # {} /\ Dirs # {} /\ LongFiles \subseteq FileIds
  /\ Batch \in Nat \ {0} /\ MaxIndexAttempts \in Nat \ {0} /\ MaxJobs \in Nat
  /\ Faults \subseteq AllFaults

VARIABLES
  dirs,     \* the ids in table directories
  dirOf,    \* dirOf[r]: directory_id of r; NoDir when r is no longer stored
  files,    \* files[r]: the ids in resource_files
  uploads,  \* uploads[f]: how far the upload of f and its two enqueues got
  jobs,     \* table ai_index_jobs
  chunks,   \* table ai_chunks, for kinds RESOURCE_META and FILE_TEXT/FILE_OCR
  worker,   \* the processes that run runOnce()
  shown,    \* history: for each target, the text its latest DONE job wrote
  lost      \* history: jobs whose worker died, or failed to record a failure

content == <<dirs, dirOf, files>>
vars == <<dirs, dirOf, files, uploads, jobs, chunks, worker, shown, lost>>

-----------------------------------------------------------------------------
(* The tables. *)

Workers == Scripts \cup {Server}
JobIds == 1..MaxJobs

\* A job without a file_id is about the metadata of its resource.
Targets == Resources \X (FileIds \cup {NoFile})

\* The text of a file is that file's; that of a resource names its directory
\* and its files.
Prints == [dir : Dirs \cup {NoDir}, files : SUBSET FileIds]
FilePrint(f) == [dir |-> NoDir, files |-> {f}]

\* chunkText: a long text is cut into several chunks.  The metadata grows with
\* the file names it lists; a chunk more for each name stands for that.
Pieces(t, p) ==
  IF t[2] = NoFile THEN 1 + Cardinality(p.files)
                   ELSE IF t[2] \in LongFiles THEN 2 ELSE 1

Chunk == [target : Targets, dir : Dirs, index : Nat, print : Prints, ready : BOOLEAN]
Text == [dir : Dirs \cup {NoDir}, print : Prints]
NoText == [dir |-> NoDir, print |-> [dir |-> NoDir, files |-> {}]]

JobStates == {"PENDING", "RUNNING", "DONE", "FAILED", "SKIPPED"}
Job == [state : JobStates \cup {"none", "deleted"}, target : Targets,
        attempts : Nat, due : BOOLEAN]

\* The foreign keys: what a job or a chunk is about is stored.
Exists(t) == dirOf[t[1]] # NoDir /\ (t[2] = NoFile \/ t[2] \in files[t[1]])

\* The states the partial unique index ai_index_jobs_active_unique covers.
ActiveStates_PendingOnly == {"PENDING"}
ActiveStates == {"PENDING", "RUNNING"}

\* bigserial: ids are given out in order.
Unused == {j \in JobIds : jobs[j].state = "none"}
IsNextId(j) == j \in Unused /\ \A i \in Unused : j <= i
NewJob(t) == [state |-> "PENDING", target |-> t, attempts |-> 0, due |-> TRUE]

-----------------------------------------------------------------------------
(* Enqueueing. *)

\* INSERT INTO ai_index_jobs ... ON CONFLICT DO NOTHING.
Enqueue(t) ==
  IF Exists(t) /\ ~ \E j \in JobIds : jobs[j].target = t /\ jobs[j].state \in ActiveStates
  THEN \E id \in JobIds : IsNextId(id) /\ jobs' = [jobs EXCEPT ![id] = NewJob(t)]
  ELSE jobs' = jobs

\* FilesService.register stores the row of f ...
Upload(f, r) ==
  /\ uploads[f].pc = "new"
  /\ dirOf[r] # NoDir
  /\ files' = [files EXCEPT ![r] = @ \cup {f}]
  /\ uploads' = [uploads EXCEPT ![f] = [pc |-> "meta", res |-> r]]
  /\ UNCHANGED <<dirs, dirOf, jobs, chunks, worker, shown, lost>>

\* ... and enqueueAfterUpload two jobs; an error of enqueue() is swallowed.
EnqueueAfterUpload(f) ==
  LET r == uploads[f].res IN
  /\ uploads[f].pc \in {"meta", "file"}
  /\ Unused # {}
  /\ \/ /\ Enqueue(<<r, IF uploads[f].pc = "meta" THEN NoFile ELSE f>>)
        /\ uploads' = [uploads EXCEPT
                         ![f].pc = IF @ = "meta" THEN "file" ELSE "enqueued"]
     \/ /\ "enqueue" \in Faults
        /\ uploads' = [uploads EXCEPT ![f].pc = IF @ = "meta" THEN "file" ELSE "cut"]
        /\ jobs' = jobs
  /\ UNCHANGED <<content, chunks, worker, shown, lost>>

\* enqueueAll enqueues whatever it found stored, one insert after another.
Backfill(t) ==
  /\ Exists(t)
  /\ Unused # {}
  /\ Enqueue(t)
  /\ UNCHANGED <<content, uploads, chunks, worker, shown, lost>>

-----------------------------------------------------------------------------
(* What changes under the index: none of it enqueues anything. *)

\* ON DELETE CASCADE from resources and resource_files, to jobs and chunks ...
Cascade(gone) ==
  /\ jobs' = [j \in JobIds |-> IF jobs[j].target \in gone /\ jobs[j].state # "none"
                               THEN [jobs[j] EXCEPT !.state = "deleted"] ELSE jobs[j]]
  /\ chunks' = {c \in chunks : c.target \notin gone}

\* ... and from directories, to the chunks that were made when a resource was there.
CascadeDirectory(d) == chunks' = {c \in chunks : c.dir # d}

MoveResource(r, d) ==
  /\ dirOf[r] \notin {NoDir, d} /\ d \in dirs
  /\ dirOf' = [dirOf EXCEPT ![r] = d]
  /\ UNCHANGED <<dirs, files, uploads, jobs, chunks, worker, shown, lost>>

RemoveFile(r, f) ==
  /\ f \in files[r]
  /\ files' = [files EXCEPT ![r] = @ \ {f}]
  /\ Cascade({<<r, f>>})
  /\ UNCHANGED <<dirs, dirOf, uploads, worker, shown, lost>>

PurgeResource(r) ==
  /\ dirOf[r] # NoDir
  /\ dirOf' = [dirOf EXCEPT ![r] = NoDir]
  /\ files' = [files EXCEPT ![r] = {}]
  /\ Cascade({t \in Targets : t[1] = r})
  /\ UNCHANGED <<dirs, uploads, worker, shown, lost>>

\* DirectoriesService.remove: of a directory without resources, those in the bin
\* included; resources.directory_id is ON DELETE RESTRICT.
RemoveDirectory(d) ==
  /\ d \in dirs /\ \A r \in Resources : dirOf[r] # d
  /\ dirs' = dirs \ {d}
  /\ CascadeDirectory(d)
  /\ UNCHANGED <<dirOf, files, uploads, jobs, worker, shown, lost>>

-----------------------------------------------------------------------------
(* The workers. *)

Resting == [pc |-> "idle", batch |-> {}, job |-> 0, text |-> NoText,
            index |-> 0, end |-> "none"]
Pcs == {"idle", "next", "bytes", "dir", "write", "stale", "finish", "catch"}

MemoryType == [pc : Pcs, batch : SUBSET JobIds, job : JobIds \cup {0}, text : Text,
               index : Nat, end : {"none", "DONE", "SKIPPED"}]

Target(w) == jobs[worker[w].job].target
PiecesOf(w) == Pieces(Target(w), worker[w].text.print)

Memory(w, m) == worker' = [worker EXCEPT ![w] = m]

\* The foreign keys of the chunk to be written.
Writable(w) == Exists(Target(w)) /\ worker[w].text.dir \in dirs

\* The job in hand is over: the next of the batch, or back to the timer.
NextJob(w) ==
  Memory(w, IF worker[w].batch = {} THEN Resting
            ELSE [Resting EXCEPT !.pc = "next", !.batch = worker[w].batch])

\* claim: UPDATE ... WHERE id IN (the oldest due jobs, FOR UPDATE SKIP LOCKED).
Claim(w) ==
  LET due == {j \in JobIds : jobs[j].state = "PENDING" /\ jobs[j].due}
      mine == {j \in due : Cardinality({i \in due : i < j}) < Batch} IN
  /\ worker[w].pc = "idle"
  /\ due # {}
  /\ jobs' = [j \in JobIds |-> IF j \in mine
                THEN [jobs[j] EXCEPT !.state = "RUNNING", !.attempts = @ + 1] ELSE jobs[j]]
  /\ Memory(w, [Resting EXCEPT !.pc = "next", !.batch = mine])
  /\ UNCHANGED <<content, uploads, chunks, shown, lost>>

\* Turning to job j of the batch, with memory m for its first statement.
Take(w, j, m) ==
  /\ worker[w].pc = "next"
  /\ j \in worker[w].batch
  /\ Memory(w, [m EXCEPT !.batch = worker[w].batch \ {j}, !.job = j])
  /\ UNCHANGED <<content, uploads, jobs, chunks, shown, lost>>

\* indexResourceMeta: one SELECT of the row, its directory and its file names.
ReadMeta(w, j) ==
  LET r == jobs[j].target[1]
      p == [dir |-> dirOf[r], files |-> files[r]] IN
  /\ jobs[j].target[2] = NoFile
  /\ Take(w, j, IF dirOf[r] = NoDir
                THEN [Resting EXCEPT !.pc = "finish", !.end = "DONE"]
                ELSE [Resting EXCEPT !.pc = "write",
                                     !.text = [dir |-> dirOf[r], print |-> p]])

\* process: SELECT FROM resource_files.
ReadFileRow(w, j) ==
  LET t == jobs[j].target IN
  /\ t[2] # NoFile
  /\ Take(w, j, IF t[2] \in files[t[1]]
                THEN [Resting EXCEPT !.pc = "bytes"]
                ELSE [Resting EXCEPT !.pc = "finish", !.end = "SKIPPED"])

\* storage.read and extractFileText: there is a text, or there never will be
\* (a format, an empty or damaged file, a picture while OCR is off).
ReadBytes(w) ==
  /\ worker[w].pc = "bytes"
  /\ \/ Memory(w, [worker[w] EXCEPT !.pc = "dir", !.text.print = FilePrint(Target(w)[2])])
     \/ Memory(w, [worker[w] EXCEPT !.pc = "finish", !.end = "SKIPPED"])
  /\ UNCHANGED <<content, uploads, jobs, chunks, shown, lost>>

\* directoryOf.
ReadDirectory(w) ==
  /\ worker[w].pc = "dir"
  /\ Memory(w, [worker[w] EXCEPT !.pc = "write", !.text.dir = dirOf[Target(w)[1]]])
  /\ UNCHANGED <<content, uploads, jobs, chunks, shown, lost>>

\* writeChunks: INSERT ... ON CONFLICT DO UPDATE, one piece.
WriteChunk(w) ==
  LET t == Target(w)  i == worker[w].index
      c == [target |-> t, dir |-> worker[w].text.dir, index |-> i,
            print |-> worker[w].text.print, ready |-> TRUE] IN
  /\ worker[w].pc = "write"
  /\ Writable(w)
  /\ chunks' = {x \in chunks : <<x.target, x.dir, x.index>> # <<t, c.dir, i>>} \cup {c}
  /\ Memory(w, IF i + 1 < PiecesOf(w) THEN [worker[w] EXCEPT !.index = i + 1]
               ELSE [worker[w] EXCEPT !.pc = "stale"])
  /\ UNCHANGED <<content, uploads, jobs, shown, lost>>

\* The rows markStale matches, besides the same target and directory.
Outdated_Never(c, print, keep) == FALSE
Outdated_KeepOneLess(c, print, keep) == c.print # print \/ c.index >= keep - 1
Outdated(c, print, keep) == c.print # print \/ c.index >= keep

\* markStale.
MarkStale(w) ==
  LET s == worker[w].text IN
  /\ worker[w].pc = "stale"
  /\ chunks' = {IF c.target = Target(w) /\ c.dir = s.dir /\ Outdated(c, s.print, PiecesOf(w))
                THEN [c EXCEPT !.ready = FALSE] ELSE c : c \in chunks}
  /\ Memory(w, [worker[w] EXCEPT !.pc = "finish", !.end = "DONE"])
  /\ UNCHANGED <<content, uploads, jobs, shown, lost>>

\* finishJob: UPDATE ai_index_jobs WHERE id (the row may be gone).
SetState(j, state, due) ==
  jobs' = IF jobs[j].state = "deleted" THEN jobs
          ELSE [jobs EXCEPT ![j].state = state, ![j].due = due]

FinishJob(w) ==
  LET j == worker[w].job IN
  /\ worker[w].pc = "finish"
  /\ SetState(j, worker[w].end, TRUE)
  /\ shown' = IF worker[w].end = "DONE" /\ jobs[j].state # "deleted"
              THEN [shown EXCEPT ![Target(w)] = worker[w].text] ELSE shown
  /\ NextJob(w)
  /\ UNCHANGED <<content, uploads, chunks, lost>>

\* Any statement of process() throws: on a fault, or because what it is about
\* was deleted meanwhile (a foreign key, an object that is not there).
ThrowTaking(w, j) ==
  /\ "process" \in Faults
  /\ Take(w, j, [Resting EXCEPT !.pc = "catch"])
Throw(w) ==
  /\ worker[w].pc \in {"bytes", "dir", "write", "stale", "finish"}
  /\ \/ "process" \in Faults
     \/ worker[w].pc = "bytes" /\ ~Exists(Target(w))
     \/ worker[w].pc = "write" /\ ~Writable(w)
  /\ Memory(w, [Resting EXCEPT !.pc = "catch", !.batch = worker[w].batch,
                               !.job = worker[w].job])
  /\ UNCHANGED <<content, uploads, jobs, chunks, shown, lost>>

\* What a failure makes of a job claimed for the n-th time: runOnce counts the
\* claim's increment once more.
AfterFailure_Retry(n) == IF n + 1 < MaxIndexAttempts THEN "RETRY" ELSE "FAILED"
AfterFailure_Unbounded(n) == "PENDING"
AfterFailure_StaysRunning(n) == IF n + 1 < MaxIndexAttempts THEN "RUNNING" ELSE "FAILED"
AfterFailure(n) == IF n + 1 < MaxIndexAttempts THEN "PENDING" ELSE "FAILED"

\* runOnce's catch: finishJob with a back-off.
CatchFailure(w) ==
  LET j == worker[w].job IN
  /\ worker[w].pc = "catch"
  /\ SetState(j, AfterFailure(jobs[j].attempts), FALSE)
  /\ NextJob(w)
  /\ UNCHANGED <<content, uploads, chunks, shown, lost>>

\* finishJob throws in the catch: runOnce ends with the batch unprocessed.
CatchFails(w) ==
  /\ "finish" \in Faults
  /\ worker[w].pc = "catch"
  /\ lost' = lost \cup worker[w].batch \cup {worker[w].job}
  /\ Memory(w, Resting)
  /\ UNCHANGED <<content, uploads, jobs, chunks, shown>>

\* The process dies and is started again; uploads in flight die with the server.
Crash(w) ==
  /\ "crash" \in Faults
  /\ worker[w].pc # "idle"
  /\ lost' = lost \cup worker[w].batch \cup ({worker[w].job} \ {0})
  /\ uploads' = [f \in FileIds |-> IF w = Server /\ uploads[f].pc \in {"meta", "file"}
                                   THEN [uploads[f] EXCEPT !.pc = "cut"] ELSE uploads[f]]
  /\ Memory(w, Resting)
  /\ UNCHANGED <<content, jobs, chunks, shown>>

\* next_attempt_at comes.
BackoffElapses(j) ==
  /\ jobs[j].state = "PENDING" /\ ~jobs[j].due
  /\ jobs' = [jobs EXCEPT ![j].due = TRUE]
  /\ UNCHANGED <<content, uploads, chunks, worker, shown, lost>>

-----------------------------------------------------------------------------
AnyDir == CHOOSE d \in Dirs : TRUE

Init ==
  /\ dirs = Dirs
  /\ dirOf = [r \in Resources |-> AnyDir]
  /\ files = [r \in Resources |-> {}]
  /\ uploads \in [FileIds -> [pc : {"new"}, res : Resources]]
  /\ jobs = [j \in JobIds |-> [state |-> "none", target |-> CHOOSE t \in Targets : TRUE,
                               attempts |-> 0, due |-> FALSE]]
  /\ chunks = {}
  /\ worker = [w \in Workers |-> Resting]
  /\ shown = [t \in Targets |-> NoText]
  /\ lost = {}

\* The next statement of runOnce, whatever it returns.
Work(w) ==
  \/ \E j \in worker[w].batch : ReadMeta(w, j) \/ ReadFileRow(w, j) \/ ThrowTaking(w, j)
  \/ ReadBytes(w) \/ ReadDirectory(w) \/ WriteChunk(w) \/ MarkStale(w) \/ FinishJob(w)
  \/ Throw(w) \/ CatchFailure(w) \/ CatchFails(w)

Users ==
  \/ \E f \in FileIds : EnqueueAfterUpload(f) \/ \E r \in Resources : Upload(f, r)
  \/ \E t \in Targets : Backfill(t)
  \/ \E r \in Resources :
       \/ \E d \in Dirs : MoveResource(r, d)
       \/ \E f \in FileIds : RemoveFile(r, f)
       \/ PurgeResource(r)
  \/ \E d \in Dirs : RemoveDirectory(d)

Next ==
  \/ Users
  \/ \E w \in Workers : Claim(w) \/ Work(w) \/ Crash(w)
  \/ \E j \in JobIds : BackoffElapses(j)

Spec == Init /\ [][Next]_vars

\* The server's timer fires for ever; a process that runs executes its next
\* statement; the clock reaches every next_attempt_at.  Scripts need not run.
FairSpec ==
  /\ Spec
  /\ WF_vars(Claim(Server))
  /\ \A w \in Workers : WF_vars(Work(w))
  /\ \A j \in JobIds : WF_vars(BackoffElapses(j))

-----------------------------------------------------------------------------
(* Properties. *)

\* Every variable has its type.
TypeOK ==
  /\ dirs \subseteq Dirs
  /\ dirOf \in [Resources -> Dirs \cup {NoDir}]
  /\ files \in [Resources -> SUBSET FileIds]
  /\ uploads \in [FileIds -> [pc : {"new", "meta", "file", "enqueued", "cut"},
                              res : Resources]]
  /\ jobs \in [JobIds -> Job]
  /\ \A c \in chunks : c \in Chunk
  /\ worker \in [Workers -> MemoryType]
  /\ shown \in [Targets -> Text]
  /\ lost \subseteq JobIds

\* The jobs a process is to work on.
Holds(w) == worker[w].batch \cup ({worker[w].job} \ {0})

\* Two processes never work on the same target at the same time, so no text is
\* interleaved with another reading of the same source: jobs of one target are
\* kept apart by the unique index, and one job by the claim.
OneWorkerPerTarget ==
  \A v, w \in Workers : \A i \in Holds(v), j \in Holds(w) :
    jobs[i].target = jobs[j].target => v = w /\ i = j

\* Latest(t, j): j is the youngest job of t.
Latest(t, j) ==
  /\ jobs[j].state # "none" /\ jobs[j].target = t
  /\ \A i \in JobIds : jobs[i].state # "none" /\ jobs[i].target = t => i <= j

\* When the latest job of a target is DONE, the READY chunks in the directory
\* it indexed are the whole of one reading of the source and nothing else,
\* whatever earlier attempts left half written; if that directory is gone, none
\* is left.
DoneIsWhole ==
  \A j \in JobIds :
    LET t == jobs[j].target  s == shown[t] IN
    Latest(t, j) /\ jobs[j].state = "DONE" =>
      {<<c.index, c.print>> : c \in {x \in chunks : x.target = t /\ x.dir = s.dir /\ x.ready}}
        = IF s.dir \in dirs THEN {<<i, s.print>> : i \in 0..(Pieces(t, s.print) - 1)} ELSE {}

\* The whole text of file f of r can be found.
FoundWhole(r, f) ==
  \E d \in Dirs : \A i \in 0..(Pieces(<<r, f>>, FilePrint(f)) - 1) :
    \E c \in chunks : /\ c.target = <<r, f>> /\ c.dir = d /\ c.index = i
                      /\ c.print = FilePrint(f) /\ c.ready

OnceDone(t) == \E j \in JobIds : jobs[j].target = t /\ jobs[j].state = "DONE"

\* Once a file was indexed it stays findable for as long as it exists: neither
\* failed and crashed attempts to index it again nor moves take it out.  Only the
\* removal of the directory it was in when it was last indexed does.
OnceDoneStaysFindable ==
  \A r \in Resources : \A f \in files[r] :
    OnceDone(<<r, f>>) /\ shown[<<r, f>>].dir \in dirs => FoundWhole(r, f)

\* The directory of a chunk only helps to rank it, and an empty directory can be
\* removed without taking anything along: then every indexed file that exists is
\* found.  (Violated: a file moved while or after it was indexed goes with the directory
\* it has left.)
IndexedIsFound ==
  \A r \in Resources : \A f \in files[r] : OnceDone(<<r, f>>) => FoundWhole(r, f)

\* No job is tried more often than the configuration allows, so a document
\* that always fails does not spend the provider's money for ever.
RetriesBounded == \A j \in JobIds : jobs[j].attempts <= MaxIndexAttempts

\* Every job is brought to an end, however often it fails, unless its worker
\* crashed or could not record the failure.
Ended(j) == jobs[j].state \in {"DONE", "FAILED", "SKIPPED", "deleted"}
EveryJobEnds ==
  \A j \in JobIds : jobs[j].state = "PENDING" ~> Ended(j) \/ j \in lost
=============================================================================
