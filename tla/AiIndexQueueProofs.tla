------------------------- MODULE AiIndexQueueProofs -------------------------
(***************************************************************************)
(* Theorems about AiIndexQueue, for any number of resources, files,        *)
(* directories, scripts beside the server and jobs, whatever fails.        *)
(*                                                                         *)
(* That no two processes work on one target does not follow from the       *)
(* unique index alone: a job whose row was deleted is still worked on, and *)
(* the index no longer sees it.  What keeps a second job away then is that *)
(* its target is gone for good, which the invariant has to say.            *)
(*                                                                         *)
(* The second half is about the chunks: what a process has written so far, *)
(* and what a job that is DONE has left.                                   *)
(***************************************************************************)
EXTENDS AiIndexQueue, FiniteSetTheorems, TLAPS

\* The job numbers a process holds are of rows it claimed, deleted ones
\* included, and no job is held twice.
HoldsClaimed ==
  /\ \A w \in Workers : \A j \in Holds(w) : jobs[j].state \in {"RUNNING", "deleted"}
  /\ \A v, w \in Workers : \A j \in Holds(v) \cap Holds(w) : v = w
  /\ \A w \in Workers : worker[w].job \notin worker[w].batch

\* The unique index; and the foreign keys, which delete a job with its target.
OneActivePerTarget ==
  \A i, j \in JobIds :
    jobs[i].state \in ActiveStates /\ jobs[j].state \in ActiveStates
      /\ jobs[i].target = jobs[j].target => i = j

JobsFollowTargets ==
  \A j \in JobIds : /\ jobs[j].state \in ActiveStates => Exists(jobs[j].target)
                    /\ jobs[j].state = "deleted" => ~Exists(jobs[j].target)

\* A file id is used once: no row of resource_files and no job precedes it.
NewFilesUnknown ==
  \A f \in FileIds : uploads[f].pc = "new" =>
    /\ \A r \in Resources : f \notin files[r]
    /\ \A j \in JobIds : jobs[j].state # "none" => jobs[j].target[2] # f

\* A resource that is gone has no files.
GoneIsEmpty == \A r \in Resources : dirOf[r] = NoDir => files[r] = {}

\* Where a process stands says whether it has a job in hand, and a text
\* without a directory is one of a resource that is gone.
HandOK(w) ==
  /\ worker[w].pc \in {"idle", "next"} <=> worker[w].job = 0
  /\ worker[w].pc = "idle" => worker[w].batch = {}
  /\ worker[w].pc = "write" /\ worker[w].text.dir = NoDir => ~Exists(Target(w))
  /\ worker[w].pc \in {"dir", "bytes"} => Target(w)[2] # NoFile
  /\ worker[w].pc = "finish" => worker[w].end # "none"
HandsOK == \A w \in Workers : HandOK(w)

\* The inductive invariant.
Core ==
  /\ HoldsClaimed
  /\ OneActivePerTarget
  /\ JobsFollowTargets
  /\ NewFilesUnknown
  /\ GoneIsEmpty
  /\ OneWorkerPerTarget

IInv == TypeOK /\ Core /\ HandsOK

-----------------------------------------------------------------------------
(* Types of the records processes and tables hold. *)

LEMMA RestingType == Resting \in MemoryType /\ Resting.batch = {} /\ Resting.job = 0
                     /\ Resting.pc = "idle" /\ NoText \in Text
  BY DEF Resting, MemoryType, Pcs, NoText, Text, Prints

\* The row of a job that claim() takes.
LEMMA ClaimedRow ==
  ASSUME NEW e \in Job
  PROVE  LET c == [e EXCEPT !.state = "RUNNING", !.attempts = @ + 1] IN
         c \in Job /\ c.target = e.target /\ c.state = "RUNNING"
<1> DEFINE d == [e EXCEPT !.state = "RUNNING"]
<1>1. d \in Job /\ d.target = e.target /\ d.state = "RUNNING" /\ d.attempts = e.attempts
  BY DEF Job, JobStates
<1> HIDE DEF d
<1>2. [d EXCEPT !.attempts = e.attempts + 1] \in Job
  BY <1>1 DEF Job
<1>3. [d EXCEPT !.attempts = e.attempts + 1].target = d.target
      /\ [d EXCEPT !.attempts = e.attempts + 1].state = d.state
  BY <1>1 DEF Job
<1>4. [d EXCEPT !.attempts = e.attempts + 1]
        = [e EXCEPT !.state = "RUNNING", !.attempts = @ + 1]
  BY DEF d
<1>5. QED
  BY <1>1, <1>2, <1>3, <1>4

\* One process changes its memory, the others keep theirs.
LEMMA MemoryIs ==
  ASSUME TypeOK, NEW w \in Workers, NEW m \in MemoryType, Memory(w, m)
  PROVE  /\ worker' \in [Workers -> MemoryType]
         /\ \A v \in Workers : worker'[v] = IF v = w THEN m ELSE worker[v]
  BY DEF TypeOK, Memory

\* What a process holds lies in the table.
LEMMA HoldsType == ASSUME TypeOK, NEW w \in Workers PROVE Holds(w) \subseteq JobIds
  BY DEF TypeOK, MemoryType, Holds

-----------------------------------------------------------------------------
(* The core under the steps that add no job and leave the sources alone. *)

\* Jobs keep their targets, none becomes active, processes only give up jobs,
\* and what is still held keeps its state.
LEMMA KeepsCore ==
  ASSUME TypeOK, Core, UNCHANGED content,
         \A f \in FileIds : uploads'[f].pc = "new" => uploads[f].pc = "new",
         \A j \in JobIds : jobs'[j].target = jobs[j].target,
         \A j \in JobIds : jobs'[j].state \in ActiveStates => jobs[j].state \in ActiveStates,
         \A j \in JobIds : jobs'[j].state = "deleted" => jobs[j].state = "deleted",
         \A j \in JobIds : jobs'[j].state # "none" => jobs[j].state # "none",
         \A w \in Workers : Holds(w)' \subseteq Holds(w),
         \A w \in Workers : worker'[w].job \notin worker'[w].batch,
         \A w \in Workers : \A j \in Holds(w)' : jobs'[j].state = jobs[j].state
  PROVE  Core'
<1>1. \A w \in Workers : Holds(w) \subseteq JobIds
  BY HoldsType
<1>2. HoldsClaimed'
  <2>1. \A w \in Workers : \A j \in Holds(w)' : jobs'[j].state \in {"RUNNING", "deleted"}
    BY DEF Core, HoldsClaimed
  <2>2. \A v, w \in Workers : \A j \in Holds(v)' \cap Holds(w)' : v = w
    BY DEF Core, HoldsClaimed
  <2>3. QED
    BY <2>1, <2>2 DEF HoldsClaimed
<1>3. OneWorkerPerTarget'
  <2> SUFFICES ASSUME NEW v \in Workers, NEW w \in Workers,
                      NEW i \in Holds(v)', NEW j \in Holds(w)',
                      jobs'[i].target = jobs'[j].target
               PROVE  v = w /\ i = j
    BY DEF OneWorkerPerTarget
  <2>1. i \in Holds(v) /\ j \in Holds(w) /\ i \in JobIds /\ j \in JobIds
    BY <1>1
  <2>2. jobs[i].target = jobs[j].target
    BY <2>1
  <2>3. QED
    BY <2>1, <2>2 DEF Core, OneWorkerPerTarget
<1>4. OneActivePerTarget'
  BY DEF Core, OneActivePerTarget
<1>5. JobsFollowTargets'
  <2>1. \A t : Exists(t)' <=> Exists(t)
    BY DEF Exists, content
  <2>2. QED
    BY <2>1 DEF Core, JobsFollowTargets
<1>6. NewFilesUnknown' /\ GoneIsEmpty'
  BY DEF Core, NewFilesUnknown, GoneIsEmpty, content
<1>7. QED
  BY <1>2, <1>3, <1>4, <1>5, <1>6 DEF Core

\* uploads, as TypeOK has it.
UploadsType == [FileIds -> [pc : {"new", "meta", "file", "enqueued", "cut"},
                            res : Resources]]

\* A process with new memory m that takes no job up; the jobs are unchanged or
\* one it gives up comes to another state.
LEMMA MemoryStep ==
  ASSUME IInv, NEW w \in Workers, NEW m \in MemoryType, Memory(w, m), UNCHANGED content,
         m.batch \cup ({m.job} \ {0}) \subseteq Holds(w), m.job \notin m.batch,
         m.pc \in {"idle", "next"} <=> m.job = 0,
         m.pc = "idle" => m.batch = {},
         m.pc = "write" /\ m.text.dir = NoDir => ~Exists(jobs[m.job].target),
         m.pc \in {"dir", "bytes"} => jobs[m.job].target[2] # NoFile,
         m.pc = "finish" => m.end # "none",
         uploads' \in UploadsType, \A c \in chunks' : c \in Chunk,
         shown' \in [Targets -> Text], lost' \subseteq JobIds,
         \A f \in FileIds : uploads'[f].pc = "new" => uploads[f].pc = "new",
         jobs' \in [JobIds -> Job],
         \A j \in JobIds : jobs'[j].target = jobs[j].target,
         \A j \in JobIds : jobs'[j].state = jobs[j].state
                           \/ /\ j \notin m.batch \cup {m.job} /\ j \in Holds(w)
                              /\ jobs[j].state \in ActiveStates
                              /\ jobs'[j].state \in JobStates
  PROVE  IInv'
<1>1. \A v \in Workers : worker'[v] = IF v = w THEN m ELSE worker[v]
  BY MemoryIs DEF IInv
<1>2. Holds(w)' = m.batch \cup ({m.job} \ {0})
      /\ \A v \in Workers : v # w => Holds(v)' = Holds(v)
  BY <1>1 DEF Holds
<1>3. \A v \in Workers : Holds(v) \subseteq JobIds
  BY HoldsType DEF IInv
<1>4. Core'
  <2>1. \A v \in Workers : Holds(v)' \subseteq Holds(v)
    BY <1>2
  <2>2. \A v \in Workers : worker'[v].job \notin worker'[v].batch
    BY <1>1 DEF IInv, Core, HoldsClaimed
  <2>3. \A v \in Workers : \A j \in Holds(v)' : jobs'[j].state = jobs[j].state
    BY <1>2, <1>3 DEF IInv, Core, HoldsClaimed
  <2>4. \A j \in JobIds : /\ jobs'[j].state \in ActiveStates => jobs[j].state \in ActiveStates
                          /\ jobs'[j].state = "deleted" => jobs[j].state = "deleted"
                          /\ jobs'[j].state # "none" => jobs[j].state # "none"
    BY DEF ActiveStates, JobStates
  <2>5. QED
    BY <2>1, <2>2, <2>3, <2>4, KeepsCore DEF IInv
<1>5. TypeOK'
  BY MemoryIs DEF IInv, TypeOK, content, UploadsType
<1>6. HandsOK'
  <2> SUFFICES ASSUME NEW v \in Workers PROVE HandOK(v)'
    BY DEF HandsOK
  <2>1. \A t : Exists(t)' <=> Exists(t)
    BY DEF Exists, content
  <2>2. worker'[v].job \in JobIds \cup {0}
    BY <1>5 DEF TypeOK, MemoryType
  <2>3. worker'[v].job # 0 => Target(v)' = jobs[worker'[v].job].target
    BY <2>2 DEF Target
  <2>4. CASE v = w
    BY <1>1, <2>1, <2>3, <2>4 DEF HandOK
  <2>5. CASE v # w
    <3>1. worker'[v] = worker[v] /\ HandOK(v)
      BY <1>1, <2>5 DEF IInv, HandsOK
    <3>2. QED
      BY <2>1, <2>3, <3>1 DEF HandOK, Target
  <2>6. QED
    BY <2>4, <2>5
<1>7. QED
  BY <1>4, <1>5, <1>6 DEF IInv

-----------------------------------------------------------------------------
(* The steps of the processes. *)

\* A claimed job was PENDING, hence in nobody's hands and the only active one
\* of its target; what others hold of that target is neither running nor gone.
LEMMA ClaimKeepsCore ==
  ASSUME TypeOK, Core, HandsOK, NEW w \in Workers, Claim(w)
  PROVE  Core' /\ TypeOK' /\ HandsOK'
<1> DEFINE due == {j \in JobIds : jobs[j].state = "PENDING" /\ jobs[j].due}
           mine == {j \in due : Cardinality({i \in due : i < j}) < Batch}
           m == [Resting EXCEPT !.pc = "next", !.batch = mine]
<1>1. mine \subseteq JobIds /\ \A j \in mine : jobs[j].state = "PENDING"
  OBVIOUS
<1>2. /\ worker[w].pc = "idle"
      /\ jobs' = [j \in JobIds |-> IF j \in mine
                    THEN [jobs[j] EXCEPT !.state = "RUNNING", !.attempts = @ + 1]
                    ELSE jobs[j]]
      /\ Memory(w, m)
      /\ UNCHANGED <<content, uploads, chunks, shown, lost>>
  BY DEF Claim
<1> HIDE DEF mine, due
<1>3. m \in MemoryType /\ m.batch = mine /\ m.job = 0 /\ m.pc = "next"
      /\ m.text.dir = NoDir
  BY <1>1 DEF Resting, MemoryType, Pcs, NoText, Text, Prints
<1> HIDE DEF m
<1>4. /\ worker' \in [Workers -> MemoryType]
      /\ \A v \in Workers : worker'[v] = IF v = w THEN m ELSE worker[v]
  BY <1>2, <1>3, MemoryIs
<1>5. /\ jobs' \in [JobIds -> Job]
      /\ \A j \in JobIds : /\ jobs'[j].target = jobs[j].target
                           /\ jobs'[j].state = IF j \in mine THEN "RUNNING" ELSE jobs[j].state
  <2>1. jobs \in [JobIds -> Job]
    BY DEF TypeOK
  <2>2. ASSUME NEW j \in JobIds
        PROVE /\ jobs'[j] \in Job
              /\ jobs'[j].target = jobs[j].target
              /\ jobs'[j].state = IF j \in mine THEN "RUNNING" ELSE jobs[j].state
    <3>1. jobs[j] \in Job
      BY <2>1
    <3>2. /\ [jobs[j] EXCEPT !.state = "RUNNING", !.attempts = @ + 1] \in Job
          /\ [jobs[j] EXCEPT !.state = "RUNNING", !.attempts = @ + 1].target = jobs[j].target
          /\ [jobs[j] EXCEPT !.state = "RUNNING", !.attempts = @ + 1].state = "RUNNING"
      BY <3>1, ClaimedRow
    <3>3. jobs'[j] = IF j \in mine
                       THEN [jobs[j] EXCEPT !.state = "RUNNING", !.attempts = @ + 1]
                       ELSE jobs[j]
      BY <1>2
    <3>4. QED
      BY <3>1, <3>2, <3>3
  <2>3. QED
    BY <1>2, <2>2
<1>6. Holds(w)' = mine /\ \A v \in Workers : v # w => Holds(v)' = Holds(v)
  BY <1>1, <1>3, <1>4 DEF Holds
<1>7. \A v \in Workers : Holds(v) \cap mine = {}
  BY <1>1 DEF Core, HoldsClaimed
<1>8. \A v \in Workers : Holds(v) \subseteq JobIds
  BY HoldsType
<1>9. HoldsClaimed'
  <2>1. 0 \notin mine
    BY <1>1 DEF JobIds
  <2>2. QED
    <3>1. \A v \in Workers : \A j \in Holds(v)' : jobs'[j].state \in {"RUNNING", "deleted"}
      BY <1>1, <1>5, <1>6, <1>8 DEF Core, HoldsClaimed
    <3>2. \A u, v \in Workers : \A j \in Holds(u)' \cap Holds(v)' : u = v
      BY <1>6, <1>7 DEF Core, HoldsClaimed
    <3>3. \A v \in Workers : worker'[v].job \notin worker'[v].batch
      BY <1>3, <1>4, <2>1 DEF Core, HoldsClaimed
    <3>4. QED
      BY <3>1, <3>2, <3>3 DEF HoldsClaimed
<1>a. \A j \in JobIds : jobs'[j].state \in ActiveStates => jobs[j].state \in ActiveStates
  BY <1>1, <1>5 DEF ActiveStates
<1>b. \A j \in JobIds : jobs'[j].state = "deleted" => jobs[j].state = "deleted"
  BY <1>1, <1>5
<1>c. \A j \in JobIds : jobs'[j].state # "none" => jobs[j].state # "none"
  BY <1>1, <1>5
<1>10. OneActivePerTarget'
  BY <1>5, <1>a DEF Core, OneActivePerTarget
<1>11. JobsFollowTargets'
  <2>1. \A t : Exists(t)' <=> Exists(t)
    BY <1>2 DEF Exists, content
  <2>2. QED
    BY <1>5, <1>a, <1>b, <2>1 DEF Core, JobsFollowTargets
<1>12. NewFilesUnknown' /\ GoneIsEmpty'
  BY <1>2, <1>5, <1>c DEF Core, NewFilesUnknown, GoneIsEmpty, content
<1>13. OneWorkerPerTarget'
  <2> SUFFICES ASSUME NEW u \in Workers, NEW v \in Workers,
                      NEW i \in Holds(u)', NEW j \in Holds(v)',
                      jobs'[i].target = jobs'[j].target
               PROVE  u = v /\ i = j
    BY DEF OneWorkerPerTarget
  <2>1. i \in JobIds /\ j \in JobIds /\ jobs[i].target = jobs[j].target
    BY <1>1, <1>5, <1>6, <1>8
  <2>2. ASSUME NEW a \in mine, NEW x \in Workers, NEW b \in Holds(x)
        PROVE jobs[a].target # jobs[b].target
    <3>1. Exists(jobs[a].target) /\ b \in JobIds /\ a \in JobIds
      BY <1>1, <1>8 DEF Core, JobsFollowTargets, ActiveStates
    <3>2. jobs[b].state \in {"RUNNING", "deleted"}
      BY DEF Core, HoldsClaimed
    <3>3. CASE jobs[b].state = "deleted"
      BY <3>1, <3>3 DEF Core, JobsFollowTargets
    <3>4. CASE jobs[b].state = "RUNNING"
      BY <1>1, <3>1, <3>4 DEF Core, OneActivePerTarget, ActiveStates
    <3>5. QED
      BY <3>2, <3>3, <3>4
  <2>3. CASE i \in mine /\ j \in mine
    <3>1. i = j
      BY <1>1, <2>1, <2>3 DEF Core, OneActivePerTarget, ActiveStates
    <3>2. QED
      BY <1>6, <1>7, <2>3, <3>1
  <2>4. CASE i \notin mine /\ j \notin mine
    BY <1>6, <2>1, <2>4 DEF Core, OneWorkerPerTarget
  <2>5. QED
    BY <1>6, <2>1, <2>2, <2>3, <2>4
<1>14. TypeOK'
  BY <1>2, <1>4, <1>5 DEF TypeOK, content
<1>15. HandsOK'
  <2>1. \A v \in Workers : v # w => Target(v)' = Target(v) \/ worker[v].job = 0
    BY <1>4, <1>5 DEF Target, TypeOK, MemoryType
  <2>2. QED
    BY <1>2, <1>3, <1>4, <2>1 DEF HandsOK, HandOK, Exists, content
<1>16. QED
  BY <1>9, <1>10, <1>11, <1>12, <1>13, <1>14, <1>15 DEF Core

\* What the remaining steps share: the tables but the chunks are unchanged.
LEMMA QuietStep ==
  ASSUME IInv, NEW w \in Workers, NEW m \in MemoryType, Memory(w, m),
         UNCHANGED <<content, uploads, jobs, shown, lost>>,
         m.batch \cup ({m.job} \ {0}) \subseteq Holds(w), m.job \notin m.batch,
         m.pc \in {"idle", "next"} <=> m.job = 0,
         m.pc = "idle" => m.batch = {},
         m.pc = "write" /\ m.text.dir = NoDir => ~Exists(jobs[m.job].target),
         m.pc \in {"dir", "bytes"} => jobs[m.job].target[2] # NoFile,
         m.pc = "finish" => m.end # "none",
         \A c \in chunks' : c \in Chunk
  PROVE  IInv'
<1>1. /\ uploads' \in UploadsType /\ jobs' \in [JobIds -> Job]
      /\ shown' \in [Targets -> Text] /\ lost' \subseteq JobIds
  BY DEF IInv, TypeOK, UploadsType
<1>2. UNCHANGED content
  OBVIOUS
<1>3. QED
  BY <1>1, <1>2, MemoryStep

\* A process in the middle of a batch, and what it has in hand.
LEMMA InHand ==
  ASSUME IInv, NEW w \in Workers
  PROVE  /\ worker[w] \in MemoryType /\ worker[w].batch \subseteq JobIds
         /\ worker[w].job \notin worker[w].batch /\ 0 \notin worker[w].batch
         /\ Holds(w) = worker[w].batch \cup ({worker[w].job} \ {0})
         /\ worker[w].pc \notin {"idle", "next"} =>
              worker[w].job \in JobIds /\ Target(w) \in Targets
<1>1. worker[w] \in MemoryType
  BY DEF IInv, TypeOK
<1>2. worker[w].batch \subseteq JobIds /\ 0 \notin worker[w].batch
  BY <1>1 DEF MemoryType, JobIds
<1>3. worker[w].pc \notin {"idle", "next"} => worker[w].job \in JobIds
  BY <1>1 DEF IInv, HandsOK, HandOK, MemoryType
<1>4. QED
  BY <1>1, <1>2, <1>3 DEF IInv, TypeOK, Core, HoldsClaimed, Holds, Job, Target

\* Every way to turn to the next job of the batch.
LEMMA TakeStep ==
  ASSUME IInv, NEW w \in Workers, NEW j \in worker[w].batch, NEW m \in MemoryType,
         Take(w, j, m), m.pc \notin {"idle", "next"},
         m.pc = "write" /\ m.text.dir = NoDir => ~Exists(jobs[j].target),
         m.pc \in {"dir", "bytes"} => jobs[j].target[2] # NoFile,
         m.pc = "finish" => m.end # "none"
  PROVE  IInv'
<1> DEFINE k == [m EXCEPT !.batch = worker[w].batch \ {j}, !.job = j]
<1>1. /\ Memory(w, k)
      /\ UNCHANGED <<content, uploads, jobs, chunks, shown, lost>>
  BY DEF Take
<1>2. worker[w].batch \subseteq JobIds
  BY InHand
<1>3. /\ k \in MemoryType
      /\ k.batch = worker[w].batch \ {j} /\ k.job = j /\ k.pc = m.pc /\ k.text = m.text
      /\ k.end = m.end
  <2> DEFINE h == [m EXCEPT !.batch = worker[w].batch \ {j}]
  <2>1. h \in MemoryType /\ h.batch = worker[w].batch \ {j} /\ h.pc = m.pc /\ h.text = m.text
        /\ h.end = m.end
    BY <1>2 DEF MemoryType
  <2>2. k = [h EXCEPT !.job = j]
    OBVIOUS
  <2> HIDE DEF h, k
  <2>3. QED
    BY <1>2, <2>1, <2>2 DEF MemoryType
<1> HIDE DEF k
<1>4. k.job # 0 /\ k.batch \cup ({k.job} \ {0}) \subseteq Holds(w)
  BY <1>2, <1>3, InHand
<1>5. \A c \in chunks' : c \in Chunk
  BY <1>1 DEF IInv, TypeOK
<1>6. QED
  BY <1>1, <1>3, <1>4, <1>5, QuietStep

LEMMA TakeKeepsIInv ==
  ASSUME IInv, NEW w \in Workers, NEW j \in worker[w].batch,
         ReadMeta(w, j) \/ ReadFileRow(w, j) \/ ThrowTaking(w, j)
  PROVE  IInv'
<1>1. j \in JobIds /\ jobs[j] \in Job /\ jobs[j].target \in Targets
  BY InHand DEF IInv, TypeOK, Job
<1>2. CASE ReadMeta(w, j)
  <2> DEFINE r == jobs[j].target[1]
             p == [dir |-> dirOf[r], files |-> files[r]]
             gone == [Resting EXCEPT !.pc = "finish", !.end = "DONE"]
             read == [Resting EXCEPT !.pc = "write",
                                     !.text = [dir |-> dirOf[r], print |-> p]]
  <2>1. r \in Resources /\ dirOf[r] \in Dirs \cup {NoDir} /\ p \in Prints
    BY <1>1 DEF Targets, IInv, TypeOK, Prints
  <2> HIDE DEF p
  <2>2. gone \in MemoryType /\ gone.pc = "finish"
        /\ gone.end # "none"
    BY RestingType DEF Resting, MemoryType, Pcs
  <2>3. read \in MemoryType /\ read.pc = "write" /\ read.text.dir = dirOf[r]
    BY <2>1 DEF Resting, MemoryType, Pcs, Text
  <2>4. Take(w, j, IF dirOf[r] = NoDir THEN gone ELSE read)
    BY <1>2 DEF ReadMeta, p
  <2> HIDE DEF gone, read
  <2>5. CASE dirOf[r] = NoDir
    BY <2>2, <2>4, <2>5, TakeStep
  <2>6. CASE dirOf[r] # NoDir
    BY <2>3, <2>4, <2>6, TakeStep
  <2>7. QED
    BY <2>5, <2>6
<1>3. CASE ReadFileRow(w, j)
  <2> DEFINE t == jobs[j].target
             found == [Resting EXCEPT !.pc = "bytes"]
             gone == [Resting EXCEPT !.pc = "finish", !.end = "SKIPPED"]
  <2>1. found \in MemoryType /\ found.pc = "bytes" /\ gone \in MemoryType /\ gone.pc = "finish"
        /\ gone.end # "none"
    BY RestingType DEF Resting, MemoryType, Pcs
  <2>2. t[2] # NoFile /\ Take(w, j, IF t[2] \in files[t[1]] THEN found ELSE gone)
    BY <1>3 DEF ReadFileRow
  <2> HIDE DEF found, gone
  <2>3. CASE t[2] \in files[t[1]]
    BY <2>1, <2>2, <2>3, TakeStep
  <2>4. CASE t[2] \notin files[t[1]]
    BY <2>1, <2>2, <2>4, TakeStep
  <2>5. QED
    BY <2>3, <2>4
<1>4. CASE ThrowTaking(w, j)
  <2> DEFINE m == [Resting EXCEPT !.pc = "catch"]
  <2>1. m \in MemoryType /\ m.pc = "catch" /\ Take(w, j, m)
    BY <1>4, RestingType DEF ThrowTaking, Resting, MemoryType, Pcs
  <2> HIDE DEF m
  <2>2. QED
    BY <2>1, TakeStep
<1>5. QED
  BY <1>2, <1>3, <1>4

\* The steps of a job in hand, up to the finish: only chunks are written.
LEMMA ReadBytesKeepsIInv ==
  ASSUME IInv, NEW w \in Workers, ReadBytes(w)
  PROVE  IInv'
<1> DEFINE e == worker[w]
           f == Target(w)[2]
           x == [e EXCEPT !.pc = "dir"]
           read == [x EXCEPT !.text.print = FilePrint(f)]
           y == [e EXCEPT !.pc = "finish"]
           skip == [y EXCEPT !.end = "SKIPPED"]
<1>1. e \in MemoryType /\ e.pc = "bytes" /\ e.job \in JobIds /\ Target(w) \in Targets
  BY InHand DEF ReadBytes
<1>2. f \in FileIds /\ FilePrint(f) \in Prints
  <2>1. f # NoFile
    BY <1>1 DEF IInv, HandsOK, HandOK
  <2>2. f \in FileIds
    BY <1>1, <2>1 DEF Targets
  <2>3. QED
    BY <2>2 DEF FilePrint, Prints
<1>3. (Memory(w, read) \/ Memory(w, skip))
      /\ UNCHANGED <<content, uploads, jobs, chunks, shown, lost>>
  BY DEF ReadBytes
<1> HIDE DEF f
<1>4. x \in MemoryType /\ x.pc = "dir" /\ x.batch = e.batch /\ x.job = e.job
  BY <1>1 DEF MemoryType, Pcs
<1>5. y \in MemoryType /\ y.pc = "finish" /\ y.batch = e.batch /\ y.job = e.job
  BY <1>1 DEF MemoryType, Pcs
<1> HIDE DEF x, y
<1>6. read \in MemoryType /\ read.pc = "dir" /\ read.batch = e.batch /\ read.job = e.job
  BY <1>2, <1>4 DEF MemoryType, Text
<1>7. skip \in MemoryType /\ skip.pc = "finish" /\ skip.end = "SKIPPED"
      /\ skip.batch = e.batch /\ skip.job = e.job
  BY <1>5 DEF MemoryType
<1> HIDE DEF read, skip
<1>8. \A c \in chunks' : c \in Chunk
  BY <1>3 DEF IInv, TypeOK
<1>9. e.job # 0 /\ e.batch \cup ({e.job} \ {0}) \subseteq Holds(w) /\ e.job \notin e.batch
      /\ jobs[e.job].target[2] # NoFile
  BY <1>1, InHand DEF IInv, HandsOK, HandOK, Target, JobIds
<1>10. CASE Memory(w, read)
  BY <1>3, <1>6, <1>8, <1>9, <1>10, QuietStep
<1>11. CASE Memory(w, skip)
  BY <1>3, <1>7, <1>8, <1>9, <1>11, QuietStep
<1>12. QED
  BY <1>3, <1>10, <1>11

LEMMA ReadDirectoryKeepsIInv ==
  ASSUME IInv, NEW w \in Workers, ReadDirectory(w)
  PROVE  IInv'
<1> DEFINE e == worker[w]
           t == Target(w)
           x == [e EXCEPT !.pc = "write"]
           m == [x EXCEPT !.text.dir = dirOf[t[1]]]
<1>1. e \in MemoryType /\ e.pc = "dir" /\ e.job \in JobIds /\ t \in Targets
  BY InHand DEF ReadDirectory
<1>2. t[1] \in Resources /\ dirOf[t[1]] \in Dirs \cup {NoDir}
  BY <1>1 DEF Targets, IInv, TypeOK
<1>3. Memory(w, m) /\ UNCHANGED <<content, uploads, jobs, chunks, shown, lost>>
  BY DEF ReadDirectory
<1>4. x \in MemoryType /\ x.pc = "write" /\ x.batch = e.batch /\ x.job = e.job
  BY <1>1 DEF MemoryType, Pcs
<1> HIDE DEF x, t
<1>5. m \in MemoryType /\ m.pc = "write" /\ m.batch = e.batch /\ m.job = e.job
      /\ m.text.dir = dirOf[t[1]]
  BY <1>2, <1>4 DEF MemoryType, Text
<1> HIDE DEF m
<1>6. m.text.dir = NoDir => ~Exists(jobs[m.job].target)
  BY <1>5 DEF Exists, Target, t
<1>7. \A c \in chunks' : c \in Chunk
  BY <1>3 DEF IInv, TypeOK
<1>8. e.job # 0 /\ e.batch \cup ({e.job} \ {0}) \subseteq Holds(w) /\ e.job \notin e.batch
  BY <1>1, InHand DEF JobIds
<1>9. QED
  BY <1>3, <1>5, <1>6, <1>7, <1>8, QuietStep

LEMMA WriteChunkKeepsIInv ==
  ASSUME IInv, NEW w \in Workers, WriteChunk(w)
  PROVE  IInv'
<1> DEFINE e == worker[w]
           t == Target(w)
           c == [target |-> t, dir |-> e.text.dir, index |-> e.index,
                 print |-> e.text.print, ready |-> TRUE]
           more == [e EXCEPT !.index = e.index + 1]
           last == [e EXCEPT !.pc = "stale"]
<1>1. e \in MemoryType /\ e.pc = "write" /\ e.job \in JobIds /\ t \in Targets
  BY InHand DEF WriteChunk
<1>2. /\ Exists(t)
      /\ chunks' = {x \in chunks : <<x.target, x.dir, x.index>> # <<t, c.dir, e.index>>}
                     \cup {c}
      /\ Memory(w, more) \/ Memory(w, last)
      /\ UNCHANGED <<content, uploads, jobs, shown, lost>>
  BY DEF WriteChunk, Writable
<1>3. e.text.dir # NoDir
  BY <1>1, <1>2 DEF IInv, HandsOK, HandOK
<1>4. c \in Chunk
  BY <1>1, <1>3 DEF Chunk, MemoryType, Text
<1>5. \A x \in chunks' : x \in Chunk
  BY <1>2, <1>4 DEF IInv, TypeOK
<1>6. more \in MemoryType /\ more.pc = "write" /\ more.batch = e.batch /\ more.job = e.job
      /\ more.text = e.text
  BY <1>1 DEF MemoryType
<1>7. last \in MemoryType /\ last.pc = "stale" /\ last.batch = e.batch /\ last.job = e.job
  BY <1>1 DEF MemoryType, Pcs
<1> HIDE DEF more, last, c
<1>8. e.job # 0 /\ e.batch \cup ({e.job} \ {0}) \subseteq Holds(w) /\ e.job \notin e.batch
  BY <1>1, InHand DEF JobIds
<1>9. CASE Memory(w, more)
  BY <1>2, <1>3, <1>5, <1>6, <1>8, <1>9, QuietStep
<1>10. CASE Memory(w, last)
  BY <1>2, <1>5, <1>7, <1>8, <1>10, QuietStep
<1>11. QED
  BY <1>2, <1>9, <1>10

LEMMA MarkStaleKeepsIInv ==
  ASSUME IInv, NEW w \in Workers, MarkStale(w)
  PROVE  IInv'
<1> DEFINE e == worker[w]
           x == [e EXCEPT !.pc = "finish"]
           m == [x EXCEPT !.end = "DONE"]
<1>1. e \in MemoryType /\ e.pc = "stale" /\ e.job \in JobIds
  BY InHand DEF MarkStale
<1>2. Memory(w, m) /\ UNCHANGED <<content, uploads, jobs, shown, lost>>
  BY DEF MarkStale
<1>3. x \in MemoryType /\ x.pc = "finish" /\ x.batch = e.batch /\ x.job = e.job
  BY <1>1 DEF MemoryType, Pcs
<1> HIDE DEF x
<1>4. m \in MemoryType /\ m.pc = "finish" /\ m.end = "DONE" /\ m.batch = e.batch /\ m.job = e.job
  BY <1>3 DEF MemoryType
<1> HIDE DEF m
<1>5. \A c \in chunks' : c \in Chunk
  <2>1. \A c \in chunks : c \in Chunk /\ [c EXCEPT !.ready = FALSE] \in Chunk
    BY DEF IInv, TypeOK, Chunk
  <2>2. QED
    BY <2>1 DEF MarkStale
<1>6. e.job # 0 /\ e.batch \cup ({e.job} \ {0}) \subseteq Holds(w) /\ e.job \notin e.batch
  BY <1>1, InHand DEF JobIds
<1>7. QED
  BY <1>2, <1>4, <1>5, <1>6, QuietStep

LEMMA ThrowKeepsIInv ==
  ASSUME IInv, NEW w \in Workers, Throw(w)
  PROVE  IInv'
<1> DEFINE e == worker[w]
           m == [Resting EXCEPT !.pc = "catch", !.batch = e.batch, !.job = e.job]
<1>1. e \in MemoryType /\ e.pc \notin {"idle", "next"} /\ e.job \in JobIds
  BY InHand DEF Throw
<1>2. Memory(w, m) /\ UNCHANGED <<content, uploads, jobs, chunks, shown, lost>>
  BY DEF Throw
<1> DEFINE x == [Resting EXCEPT !.pc = "catch"]
           y == [x EXCEPT !.batch = e.batch]
<1>3. x \in MemoryType /\ x.pc = "catch"
  BY RestingType DEF MemoryType, Pcs
<1>x. m = [y EXCEPT !.job = e.job]
  OBVIOUS
<1> HIDE DEF x
<1>y. y \in MemoryType /\ y.pc = "catch" /\ y.batch = e.batch
  BY <1>1, <1>3 DEF MemoryType
<1> HIDE DEF y, m
<1>4. m \in MemoryType /\ m.pc = "catch" /\ m.batch = e.batch /\ m.job = e.job
  BY <1>1, <1>x, <1>y DEF MemoryType
<1>5. \A c \in chunks' : c \in Chunk
  BY <1>2 DEF IInv, TypeOK
<1>6. e.job # 0 /\ e.batch \cup ({e.job} \ {0}) \subseteq Holds(w) /\ e.job \notin e.batch
  BY <1>1, InHand DEF JobIds
<1>7. QED
  BY <1>2, <1>4, <1>5, <1>6, QuietStep

-----------------------------------------------------------------------------
(* The end of a job. *)

\* The memory NextJob leaves.
NextMemory(w) == IF worker[w].batch = {} THEN Resting
                 ELSE [Resting EXCEPT !.pc = "next", !.batch = worker[w].batch]

LEMMA NextMemoryType ==
  ASSUME IInv, NEW w \in Workers
  PROVE  LET m == NextMemory(w) IN
         /\ m \in MemoryType /\ m.batch = worker[w].batch /\ m.job = 0
         /\ m.pc = IF worker[w].batch = {} THEN "idle" ELSE "next"
<1> DEFINE x == [Resting EXCEPT !.pc = "next"]
           y == [x EXCEPT !.batch = worker[w].batch]
<1>1. x \in MemoryType /\ x.pc = "next" /\ x.job = 0
  BY RestingType DEF MemoryType, Pcs
<1>2. worker[w].batch # {} => NextMemory(w) = y
  BY DEF NextMemory
<1> HIDE DEF x
<1>3. y \in MemoryType /\ y.pc = "next" /\ y.job = 0 /\ y.batch = worker[w].batch
  BY <1>1, InHand DEF MemoryType
<1> HIDE DEF y
<1>4. worker[w].batch = {} => NextMemory(w) = Resting
  BY DEF NextMemory
<1>5. QED
  BY <1>2, <1>3, <1>4, RestingType

\* finishJob on the job in hand, which was RUNNING unless its row is gone.
LEMMA EndJobKeepsIInv ==
  ASSUME IInv, NEW w \in Workers, NEW state \in JobStates, NEW due \in BOOLEAN,
         worker[w].pc \in {"finish", "catch"},
         SetState(worker[w].job, state, due), NextJob(w),
         shown' \in [Targets -> Text], UNCHANGED <<content, uploads, chunks, lost>>
  PROVE  IInv'
<1> DEFINE e == worker[w]
           m == NextMemory(w)
<1>1. e.job \in JobIds /\ e.job \in Holds(w) /\ e.job \notin e.batch /\ e.job # 0
  BY InHand DEF JobIds
<1>2. Memory(w, m)
  BY DEF NextJob, NextMemory
<1>3. /\ m \in MemoryType /\ m.batch = e.batch /\ m.job = 0
      /\ m.pc \in {"idle", "next"} /\ (m.pc = "idle" => m.batch = {})
  BY NextMemoryType
<1> HIDE DEF m
<1>4. jobs[e.job].state \in {"RUNNING", "deleted"}
  BY <1>1 DEF IInv, Core, HoldsClaimed
<1>5. /\ jobs' \in [JobIds -> Job]
      /\ \A j \in JobIds : jobs'[j].target = jobs[j].target
      /\ \A j \in JobIds : jobs'[j].state = jobs[j].state
                           \/ /\ j = e.job /\ jobs[j].state = "RUNNING"
                              /\ jobs'[j].state \in JobStates
  <2>1. jobs \in [JobIds -> Job]
    BY DEF IInv, TypeOK
  <2>2. CASE jobs[e.job].state = "deleted"
    BY <2>1, <2>2 DEF SetState
  <2>3. CASE jobs[e.job].state = "RUNNING"
    <3> DEFINE x == [jobs EXCEPT ![e.job].state = state]
    <3>1. x \in [JobIds -> Job]
          /\ \A j \in JobIds : x[j].target = jobs[j].target
                               /\ (j # e.job => x[j].state = jobs[j].state)
          /\ x[e.job].state = state
      BY <1>1, <2>1 DEF Job
    <3>2. jobs' = [x EXCEPT ![e.job].due = due]
      BY <2>3 DEF SetState
    <3> HIDE DEF x
    <3>3. jobs' \in [JobIds -> Job]
          /\ \A j \in JobIds : jobs'[j].target = x[j].target /\ jobs'[j].state = x[j].state
      BY <1>1, <3>1, <3>2 DEF Job
    <3>4. QED
      BY <2>3, <3>1, <3>3
  <2>4. QED
    BY <1>4, <2>2, <2>3
<1>6. \A j \in JobIds : jobs'[j].state = jobs[j].state
        \/ /\ j \notin m.batch \cup {m.job} /\ j \in Holds(w)
           /\ jobs[j].state \in ActiveStates /\ jobs'[j].state \in JobStates
  BY <1>1, <1>3, <1>5 DEF ActiveStates
<1>7. uploads' \in UploadsType /\ lost' \subseteq JobIds /\ \A c \in chunks' : c \in Chunk
  BY DEF IInv, TypeOK, UploadsType
<1>8. m.batch \cup ({m.job} \ {0}) \subseteq Holds(w) /\ m.job \notin m.batch
  BY <1>3, InHand
<1>9. UNCHANGED content /\ \A f \in FileIds : uploads'[f].pc = "new" => uploads[f].pc = "new"
  OBVIOUS
<1>10. QED
  BY <1>2, <1>3, <1>5, <1>6, <1>7, <1>8, <1>9, MemoryStep

LEMMA FinishKeepsIInv ==
  ASSUME IInv, NEW w \in Workers, FinishJob(w) \/ CatchFailure(w)
  PROVE  IInv'
<1>1. shown \in [Targets -> Text] /\ worker[w] \in MemoryType
  BY DEF IInv, TypeOK
<1>2. CASE CatchFailure(w)
  <2>1. AfterFailure(jobs[worker[w].job].attempts) \in JobStates
    BY DEF AfterFailure, JobStates
  <2>2. QED
    BY <1>1, <1>2, <2>1, EndJobKeepsIInv DEF CatchFailure
<1>3. CASE FinishJob(w)
  <2>1. worker[w].end \in {"DONE", "SKIPPED"}
    BY <1>1, <1>3 DEF IInv, HandsOK, HandOK, FinishJob, MemoryType
  <2>2. shown' \in [Targets -> Text]
    BY <1>1, <1>3 DEF FinishJob, MemoryType
  <2>3. QED
    BY <1>3, <2>1, <2>2, EndJobKeepsIInv DEF FinishJob, JobStates
<1>4. QED
  BY <1>2, <1>3

\* A process that is started again holds nothing.
LEMMA RestartKeepsIInv ==
  ASSUME IInv, NEW w \in Workers, CatchFails(w) \/ Crash(w)
  PROVE  IInv'
<1>1. Memory(w, Resting) /\ UNCHANGED <<content, jobs, chunks, shown>>
  BY DEF CatchFails, Crash
<1>2. UNCHANGED content /\ jobs' \in [JobIds -> Job] /\ shown' \in [Targets -> Text]
      /\ \A c \in chunks' : c \in Chunk
  BY <1>1 DEF IInv, TypeOK
<1>3. lost' \subseteq JobIds
  <2>1. worker[w].batch \subseteq JobIds /\ worker[w].job \in JobIds \cup {0}
        /\ lost \subseteq JobIds
    BY InHand DEF IInv, TypeOK, MemoryType
  <2>2. CatchFails(w) => worker[w].job \in JobIds
    BY InHand DEF CatchFails
  <2>3. QED
    BY <2>1, <2>2 DEF CatchFails, Crash
<1>4. uploads' \in UploadsType
      /\ \A f \in FileIds : uploads'[f].pc = "new" => uploads[f].pc = "new"
  <2>1. uploads \in UploadsType
    BY DEF IInv, TypeOK, UploadsType
  <2>2. CASE CatchFails(w)
    BY <2>1, <2>2 DEF CatchFails
  <2>3. CASE Crash(w)
    BY <2>1, <2>3 DEF Crash, UploadsType
  <2>4. QED
    BY <2>2, <2>3
<1>5. \A j \in JobIds : jobs'[j].target = jobs[j].target /\ jobs'[j].state = jobs[j].state
  BY <1>1
<1>6. QED
  BY <1>1, <1>2, <1>3, <1>4, <1>5, RestingType, MemoryStep

\* Every step of runOnce.
LEMMA WorkKeepsIInv == ASSUME IInv, NEW w \in Workers, Work(w) PROVE IInv'
  BY TakeKeepsIInv, ReadBytesKeepsIInv, ReadDirectoryKeepsIInv, WriteChunkKeepsIInv,
     MarkStaleKeepsIInv, ThrowKeepsIInv, FinishKeepsIInv, RestartKeepsIInv DEF Work

-----------------------------------------------------------------------------
(* The steps of the users and of the clock: processes keep their memory. *)

\* A step that changes nothing a process remembers, nor what its job is about.
LEMMA HandsUntouched ==
  ASSUME IInv, UNCHANGED worker,
         \A w \in Workers : \A j \in Holds(w) :
           jobs'[j].target = jobs[j].target
           /\ (Exists(jobs[j].target)' => Exists(jobs[j].target))
  PROVE  HandsOK'
<1> SUFFICES ASSUME NEW w \in Workers PROVE HandOK(w)'
  BY DEF HandsOK
<1>1. HandOK(w)
  BY DEF IInv, HandsOK
<1>2. CASE worker[w].job = 0
  BY <1>1, <1>2 DEF HandOK
<1>3. CASE worker[w].job # 0
  <2>1. worker[w].job \in Holds(w)
    BY <1>3 DEF Holds
  <2>2. Target(w)' = Target(w) /\ (Exists(Target(w))' => Exists(Target(w)))
    BY <2>1 DEF Target
  <2>3. QED
    BY <1>1, <2>2 DEF HandOK
<1>4. QED
  BY <1>2, <1>3

LEMMA BackoffKeepsIInv == ASSUME IInv, NEW j \in JobIds, BackoffElapses(j) PROVE IInv'
<1>1. /\ jobs' \in [JobIds -> Job]
      /\ \A i \in JobIds : jobs'[i].target = jobs[i].target /\ jobs'[i].state = jobs[i].state
      /\ UNCHANGED <<content, uploads, chunks, worker, shown, lost>>
  BY DEF BackoffElapses, IInv, TypeOK, Job
<1>2. \A w \in Workers : Holds(w)' = Holds(w) /\ Holds(w) \subseteq JobIds
  BY <1>1, HoldsType DEF Holds, IInv
<1>3. Core'
  <2>1. \A w \in Workers : worker'[w].job \notin worker'[w].batch
    BY <1>1 DEF IInv, Core, HoldsClaimed
  <2>2. QED
    BY <1>1, <1>2, <2>1, KeepsCore DEF IInv
<1>4. HandsOK'
  <2>1. \A t : Exists(t)' <=> Exists(t)
    BY <1>1 DEF Exists, content
  <2>2. QED
    BY <1>1, <1>2, <2>1, HandsUntouched
<1>5. TypeOK'
  BY <1>1 DEF IInv, TypeOK, content
<1>6. QED
  BY <1>3, <1>4, <1>5 DEF IInv

\* The new row is the only active one of its target and in nobody's hands.
LEMMA EnqueueKeepsIInv ==
  ASSUME IInv, NEW t \in Targets, Enqueue(t),
         UNCHANGED <<content, chunks, worker, shown, lost>>, uploads' \in UploadsType,
         \A f \in FileIds : uploads'[f].pc = "new" => uploads[f].pc = "new" /\ f # t[2]
  PROVE  IInv'
<1> DEFINE fits == Exists(t) /\ ~ \E j \in JobIds :
                       jobs[j].target = t /\ jobs[j].state \in ActiveStates
<1>1. \A s : Exists(s)' <=> Exists(s)
  BY DEF Exists, content
<1>2. \A w \in Workers : Holds(w)' = Holds(w) /\ Holds(w) \subseteq JobIds
  BY HoldsType DEF Holds, IInv
<1>3. UNCHANGED content /\ UNCHANGED worker
  OBVIOUS
<1>4. CASE ~fits
  <2>1. UNCHANGED jobs
    BY <1>4 DEF Enqueue
  <2>2. Core'
    <3>1. \A w \in Workers : worker'[w].job \notin worker'[w].batch
      BY DEF IInv, Core, HoldsClaimed
    <3>2. QED
      BY <1>2, <1>3, <2>1, <3>1, KeepsCore DEF IInv
  <2>3. HandsOK'
    BY <1>1, <1>3, <2>1, HandsUntouched
  <2>4. TypeOK'
    BY <2>1 DEF IInv, TypeOK, content, UploadsType
  <2>5. QED
    BY <2>2, <2>3, <2>4 DEF IInv
<1>5. CASE fits
  <2>1. PICK id \in JobIds : jobs[id].state = "none" /\ jobs' = [jobs EXCEPT ![id] = NewJob(t)]
    BY <1>5 DEF Enqueue, IsNextId, Unused
  <2>2. NewJob(t) \in Job /\ NewJob(t).state = "PENDING" /\ NewJob(t).target = t
    BY DEF NewJob, Job, JobStates
  <2>3. /\ jobs' \in [JobIds -> Job]
        /\ \A j \in JobIds : jobs'[j] = IF j = id THEN NewJob(t) ELSE jobs[j]
    BY <2>1, <2>2 DEF IInv, TypeOK
  <2>4. \A w \in Workers : \A j \in Holds(w) : j # id /\ jobs'[j] = jobs[j]
    <3>1. \A w \in Workers : id \notin Holds(w)
      BY <2>1 DEF IInv, Core, HoldsClaimed
    <3>2. QED
      BY <1>2, <2>3, <3>1
  <2>5. HoldsClaimed'
    <3>1. \A w \in Workers : \A j \in Holds(w)' : jobs'[j].state \in {"RUNNING", "deleted"}
      BY <1>2, <2>4 DEF IInv, Core, HoldsClaimed
    <3>2. QED
      BY <1>2, <3>1 DEF IInv, Core, HoldsClaimed
  <2>6. OneWorkerPerTarget'
    <3> SUFFICES ASSUME NEW v \in Workers, NEW w \in Workers,
                        NEW i \in Holds(v)', NEW j \in Holds(w)',
                        jobs'[i].target = jobs'[j].target
                 PROVE  v = w /\ i = j
      BY DEF OneWorkerPerTarget
    <3>1. i \in Holds(v) /\ j \in Holds(w)
      BY <1>2
    <3>2. jobs[i].target = jobs[j].target
      BY <2>4, <3>1
    <3>3. QED
      BY <3>1, <3>2 DEF IInv, Core, OneWorkerPerTarget
  <2>7. OneActivePerTarget'
    <3> SUFFICES ASSUME NEW i \in JobIds, NEW j \in JobIds,
                        jobs'[i].state \in ActiveStates, jobs'[j].state \in ActiveStates,
                        jobs'[i].target = jobs'[j].target
                 PROVE  i = j
      BY DEF OneActivePerTarget
    <3>1. CASE i # id /\ j # id
      BY <2>3, <3>1 DEF IInv, Core, OneActivePerTarget
    <3>2. CASE i = id \/ j = id
      BY <1>5, <2>2, <2>3, <3>2
    <3>3. QED
      BY <3>1, <3>2
  <2>8. JobsFollowTargets'
    BY <1>1, <1>5, <2>2, <2>3 DEF IInv, Core, JobsFollowTargets
  <2>9. NewFilesUnknown'
    BY <2>2, <2>3 DEF IInv, Core, NewFilesUnknown, content
  <2>10. GoneIsEmpty'
    BY DEF IInv, Core, GoneIsEmpty, content
  <2>11. HandsOK'
    BY <1>1, <2>4, HandsUntouched
  <2>12. TypeOK'
    BY <2>3 DEF IInv, TypeOK, content, UploadsType
  <2>13. QED
    BY <2>5, <2>6, <2>7, <2>8, <2>9, <2>10, <2>11, <2>12 DEF IInv, Core
<1>6. QED
  BY <1>4, <1>5

LEMMA AfterUploadKeepsIInv ==
  ASSUME IInv, NEW f \in FileIds, EnqueueAfterUpload(f)
  PROVE  IInv'
<1> DEFINE r == uploads[f].res
           t == <<r, IF uploads[f].pc = "meta" THEN NoFile ELSE f>>
<1>1. uploads \in UploadsType /\ r \in Resources /\ t \in Targets
  BY DEF IInv, TypeOK, UploadsType, Targets
<1>2. /\ uploads[f].pc \in {"meta", "file"}
      /\ UNCHANGED <<content, chunks, worker, shown, lost>>
  BY DEF EnqueueAfterUpload
<1>3. uploads' \in UploadsType
      /\ \A g \in FileIds : uploads'[g].pc = "new" => uploads[g].pc = "new" /\ g # f
  <2>1. PICK p \in {"file", "enqueued", "cut"} : uploads' = [uploads EXCEPT ![f].pc = p]
    BY <1>2 DEF EnqueueAfterUpload
  <2>2. QED
    BY <1>1, <2>1 DEF UploadsType
<1>4. CASE Enqueue(t)
  <2>1. \A g \in FileIds : uploads'[g].pc = "new" => uploads[g].pc = "new" /\ g # t[2]
    BY <1>3, QueueAssumption
  <2>2. QED
    BY <1>1, <1>2, <1>3, <1>4, <2>1, EnqueueKeepsIInv
<1>5. CASE UNCHANGED jobs
  <2>1. \A w \in Workers : Holds(w)' = Holds(w)
    BY <1>2 DEF Holds
  <2>2. UNCHANGED content /\ UNCHANGED worker
    BY <1>2
  <2>3. Core'
    <3>1. \A w \in Workers : worker'[w].job \notin worker'[w].batch
      BY <2>2 DEF IInv, Core, HoldsClaimed
    <3>2. QED
      BY <1>3, <1>5, <2>1, <2>2, <3>1, KeepsCore DEF IInv
  <2>4. HandsOK'
    <3>1. \A s : Exists(s)' <=> Exists(s)
      BY <2>2 DEF Exists, content
    <3>2. QED
      BY <1>5, <2>2, <3>1, HandsUntouched
  <2>5. TypeOK'
    BY <1>2, <1>3, <1>5 DEF IInv, TypeOK, content, UploadsType
  <2>6. QED
    BY <2>3, <2>4, <2>5 DEF IInv
<1>6. QED
  BY <1>4, <1>5 DEF EnqueueAfterUpload

LEMMA BackfillKeepsIInv == ASSUME IInv, NEW t \in Targets, Backfill(t) PROVE IInv'
<1>1. Enqueue(t) /\ Exists(t) /\ UNCHANGED <<content, uploads, chunks, worker, shown, lost>>
  BY DEF Backfill
<1>2. uploads' \in UploadsType
  BY <1>1 DEF IInv, TypeOK, UploadsType
<1>3. \A f \in FileIds : uploads'[f].pc = "new" => uploads[f].pc = "new" /\ f # t[2]
  <2>1. t[1] \in Resources
    BY DEF Targets
  <2>2. QED
    BY <1>1, <2>1, QueueAssumption DEF IInv, Core, NewFilesUnknown, Exists
<1>4. QED
  BY <1>1, <1>2, <1>3, EnqueueKeepsIInv

\* What is deleted is gone for good, and its jobs with it; a process that still
\* works on such a job can be joined by no other.
LEMMA CascadeKeepsIInv ==
  ASSUME IInv, NEW gone \in SUBSET Targets, Cascade(gone),
         UNCHANGED <<dirs, uploads, worker, shown, lost>>,
         dirOf' \in [Resources -> Dirs \cup {NoDir}],
         files' \in [Resources -> SUBSET FileIds],
         \A r \in Resources : files'[r] \subseteq files[r],
         \A t \in Targets : Exists(t)' <=> Exists(t) /\ t \notin gone,
         GoneIsEmpty'
  PROVE  IInv'
<1>1. jobs \in [JobIds -> Job]
  BY DEF IInv, TypeOK
<1>2. /\ jobs' \in [JobIds -> Job]
      /\ \A j \in JobIds :
           /\ jobs'[j].target = jobs[j].target
           /\ jobs'[j].state = IF jobs[j].target \in gone /\ jobs[j].state # "none"
                               THEN "deleted" ELSE jobs[j].state
  BY <1>1 DEF Cascade, Job
<1>3. \A w \in Workers : Holds(w)' = Holds(w) /\ Holds(w) \subseteq JobIds
  BY HoldsType DEF Holds, IInv
<1>4. \A j \in JobIds : jobs[j].target \in Targets
  BY <1>1 DEF Job
<1>5. HoldsClaimed'
  <2>1. \A w \in Workers : \A j \in Holds(w)' : jobs'[j].state \in {"RUNNING", "deleted"}
    BY <1>2, <1>3 DEF IInv, Core, HoldsClaimed
  <2>2. QED
    BY <1>3, <2>1 DEF IInv, Core, HoldsClaimed
<1>6. OneWorkerPerTarget'
  <2> SUFFICES ASSUME NEW v \in Workers, NEW w \in Workers,
                      NEW i \in Holds(v)', NEW j \in Holds(w)',
                      jobs'[i].target = jobs'[j].target
               PROVE  v = w /\ i = j
    BY DEF OneWorkerPerTarget
  <2>1. i \in Holds(v) /\ j \in Holds(w) /\ jobs[i].target = jobs[j].target
    BY <1>2, <1>3
  <2>2. QED
    BY <2>1 DEF IInv, Core, OneWorkerPerTarget
<1>7. OneActivePerTarget'
  BY <1>2 DEF IInv, Core, OneActivePerTarget, ActiveStates
<1>8. JobsFollowTargets'
  BY <1>2, <1>4 DEF IInv, Core, JobsFollowTargets, ActiveStates
<1>9. NewFilesUnknown'
  BY <1>2 DEF IInv, Core, NewFilesUnknown
<1>10. HandsOK'
  BY <1>2, <1>3, <1>4, HandsUntouched
<1>11. TypeOK'
  BY <1>2 DEF IInv, TypeOK, Cascade
<1>12. QED
  BY <1>5, <1>6, <1>7, <1>8, <1>9, <1>10, <1>11 DEF IInv, Core

LEMMA RemoveKeepsIInv ==
  ASSUME IInv, NEW r \in Resources, NEW f \in FileIds, RemoveFile(r, f)
  PROVE  IInv'
<1>1. /\ dirOf' = dirOf /\ files' = [files EXCEPT ![r] = @ \ {f}]
      /\ Cascade({<<r, f>>}) /\ UNCHANGED <<dirs, uploads, worker, shown, lost>>
  BY DEF RemoveFile
<1>2. /\ dirOf \in [Resources -> Dirs \cup {NoDir}]
      /\ files \in [Resources -> SUBSET FileIds]
  BY DEF IInv, TypeOK
<1>3. /\ files' \in [Resources -> SUBSET FileIds]
      /\ \A s \in Resources : files'[s] = IF s = r THEN files[r] \ {f} ELSE files[s]
  BY <1>1, <1>2
<1>4. \A t \in Targets : Exists(t)' <=> Exists(t) /\ t \notin {<<r, f>>}
  <2> SUFFICES ASSUME NEW a \in Resources, NEW b \in FileIds \cup {NoFile}
               PROVE  Exists(<<a, b>>)' <=> Exists(<<a, b>>) /\ <<a, b>> \notin {<<r, f>>}
    BY DEF Targets
  <2>1. QED
    BY <1>1, <1>3, QueueAssumption DEF Exists
<1>5. GoneIsEmpty'
  BY <1>1, <1>3 DEF IInv, Core, GoneIsEmpty
<1>6. {<<r, f>>} \in SUBSET Targets
  BY DEF Targets
<1>7. QED
  BY <1>1, <1>2, <1>3, <1>4, <1>5, <1>6, CascadeKeepsIInv

LEMMA PurgeKeepsIInv ==
  ASSUME IInv, NEW r \in Resources, PurgeResource(r)
  PROVE  IInv'
<1> DEFINE gone == {t \in Targets : t[1] = r}
<1>1. /\ dirOf' = [dirOf EXCEPT ![r] = NoDir] /\ files' = [files EXCEPT ![r] = {}]
      /\ Cascade(gone) /\ UNCHANGED <<dirs, uploads, worker, shown, lost>>
  BY DEF PurgeResource
<1>2. /\ dirOf' \in [Resources -> Dirs \cup {NoDir}]
      /\ files' \in [Resources -> SUBSET FileIds]
      /\ \A s \in Resources : /\ files'[s] = IF s = r THEN {} ELSE files[s]
                              /\ dirOf'[s] = IF s = r THEN NoDir ELSE dirOf[s]
  BY <1>1 DEF IInv, TypeOK
<1>3. \A t \in Targets : Exists(t)' <=> Exists(t) /\ t \notin gone
  BY <1>2 DEF Exists, Targets
<1>4. GoneIsEmpty'
  BY <1>2 DEF IInv, Core, GoneIsEmpty
<1>5. \A s \in Resources : files'[s] \subseteq files[s]
  BY <1>2
<1>6. gone \in SUBSET Targets
  OBVIOUS
<1> HIDE DEF gone
<1>7. QED
  BY <1>1, <1>2, <1>3, <1>4, <1>5, <1>6, CascadeKeepsIInv

\* Steps on the sources that leave the jobs alone: what is stored of the
\* targets any job has, or ever had, is unchanged.
LEMMA SourcesKeepIInv ==
  ASSUME IInv, UNCHANGED <<jobs, worker, shown, lost>>, uploads' \in UploadsType,
         chunks' \subseteq chunks, dirs' \subseteq Dirs,
         dirOf' \in [Resources -> Dirs \cup {NoDir}],
         files' \in [Resources -> SUBSET FileIds],
         \A j \in JobIds : jobs[j].state # "none" =>
           (Exists(jobs[j].target)' <=> Exists(jobs[j].target)),
         NewFilesUnknown', GoneIsEmpty'
  PROVE  IInv'
<1>1. \A w \in Workers : Holds(w)' = Holds(w) /\ Holds(w) \subseteq JobIds
  BY HoldsType DEF Holds, IInv
<1>2. HoldsClaimed' /\ OneWorkerPerTarget' /\ OneActivePerTarget'
  BY <1>1 DEF IInv, Core, HoldsClaimed, OneWorkerPerTarget, OneActivePerTarget
<1>3. JobsFollowTargets'
  BY DEF IInv, Core, JobsFollowTargets, ActiveStates
<1>4. HandsOK'
  <2>1. \A w \in Workers : \A j \in Holds(w) : j \in JobIds /\ jobs[j].state # "none"
    BY <1>1 DEF IInv, Core, HoldsClaimed
  <2>2. QED
    BY <2>1, HandsUntouched
<1>5. TypeOK'
  BY DEF IInv, TypeOK, UploadsType
<1>6. QED
  BY <1>2, <1>3, <1>4, <1>5 DEF IInv, Core

LEMMA MoveKeepsIInv ==
  ASSUME IInv, NEW r \in Resources, NEW d \in Dirs, MoveResource(r, d)
  PROVE  IInv'
<1>1. /\ dirOf[r] # NoDir /\ d # NoDir /\ dirOf' = [dirOf EXCEPT ![r] = d]
      /\ UNCHANGED <<dirs, files, uploads, jobs, chunks, worker, shown, lost>>
  BY QueueAssumption DEF MoveResource
<1>2. /\ dirOf' \in [Resources -> Dirs \cup {NoDir}]
      /\ \A s \in Resources : dirOf'[s] = NoDir <=> dirOf[s] = NoDir
  BY <1>1 DEF IInv, TypeOK
<1>3. \A t \in Targets : Exists(t)' <=> Exists(t)
  BY <1>1, <1>2 DEF Exists, Targets
<1>4. \A j \in JobIds : Exists(jobs[j].target)' <=> Exists(jobs[j].target)
  <2>1. \A j \in JobIds : jobs[j].target \in Targets
    BY DEF IInv, TypeOK, Job
  <2>2. QED
    BY <1>1, <1>3, <2>1
<1>5. NewFilesUnknown' /\ GoneIsEmpty'
  BY <1>1, <1>2 DEF IInv, Core, NewFilesUnknown, GoneIsEmpty
<1>6. /\ uploads' \in UploadsType /\ files' \in [Resources -> SUBSET FileIds]
      /\ dirs' \subseteq Dirs
  BY <1>1 DEF IInv, TypeOK, UploadsType
<1>7. QED
  BY <1>1, <1>2, <1>4, <1>5, <1>6, SourcesKeepIInv

LEMMA UploadKeepsIInv ==
  ASSUME IInv, NEW f \in FileIds, NEW r \in Resources, Upload(f, r)
  PROVE  IInv'
<1>1. /\ uploads[f].pc = "new" /\ dirOf[r] # NoDir
      /\ files' = [files EXCEPT ![r] = @ \cup {f}]
      /\ uploads' = [uploads EXCEPT ![f] = [pc |-> "meta", res |-> r]]
      /\ UNCHANGED <<dirs, dirOf, jobs, chunks, worker, shown, lost>>
  BY DEF Upload
<1>2. /\ files' \in [Resources -> SUBSET FileIds]
      /\ \A s \in Resources : files'[s] = IF s = r THEN files[s] \cup {f} ELSE files[s]
  BY <1>1 DEF IInv, TypeOK
<1>3. /\ uploads' \in UploadsType
      /\ \A g \in FileIds : uploads'[g].pc = "new" => uploads[g].pc = "new" /\ g # f
  BY <1>1 DEF IInv, TypeOK, UploadsType
<1>4. \A j \in JobIds : jobs[j].state # "none" =>
        (Exists(jobs[j].target)' <=> Exists(jobs[j].target))
  <2> SUFFICES ASSUME NEW j \in JobIds, jobs[j].state # "none"
               PROVE  Exists(jobs[j].target)' <=> Exists(jobs[j].target)
    OBVIOUS
  <2>1. jobs[j].target[2] # f
    BY <1>1 DEF IInv, Core, NewFilesUnknown
  <2>2. jobs[j].target[1] \in Resources
    BY DEF IInv, TypeOK, Job, Targets
  <2>3. QED
    BY <1>1, <1>2, <2>1, <2>2 DEF Exists
<1>5. NewFilesUnknown' /\ GoneIsEmpty'
  BY <1>1, <1>2, <1>3 DEF IInv, Core, NewFilesUnknown, GoneIsEmpty
<1>6. dirOf' \in [Resources -> Dirs \cup {NoDir}] /\ dirs' \subseteq Dirs
  BY <1>1 DEF IInv, TypeOK
<1>7. QED
  BY <1>1, <1>2, <1>3, <1>4, <1>5, <1>6, SourcesKeepIInv

LEMMA RemoveDirectoryKeepsIInv ==
  ASSUME IInv, NEW d \in Dirs, RemoveDirectory(d)
  PROVE  IInv'
<1>1. /\ chunks' \subseteq chunks /\ dirs' = dirs \ {d}
      /\ UNCHANGED <<dirOf, files, uploads, jobs, worker, shown, lost>>
  BY DEF RemoveDirectory, CascadeDirectory
<1>2. /\ uploads' \in UploadsType /\ dirOf' \in [Resources -> Dirs \cup {NoDir}]
      /\ files' \in [Resources -> SUBSET FileIds] /\ dirs' \subseteq Dirs
  BY <1>1 DEF IInv, TypeOK, UploadsType
<1>3. \A j \in JobIds : Exists(jobs[j].target)' <=> Exists(jobs[j].target)
  BY <1>1 DEF Exists
<1>4. NewFilesUnknown' /\ GoneIsEmpty'
  BY <1>1 DEF IInv, Core, NewFilesUnknown, GoneIsEmpty
<1>5. QED
  BY <1>1, <1>2, <1>3, <1>4, SourcesKeepIInv

-----------------------------------------------------------------------------
(* The theorems. *)

LEMMA InitIInv == Init => IInv
<1> SUFFICES ASSUME Init PROVE IInv
  OBVIOUS
<1>1. AnyDir \in Dirs /\ (CHOOSE t \in Targets : TRUE) \in Targets
  <2>1. \E t \in Targets : TRUE
    <3>1. PICK r \in Resources : TRUE
      BY QueueAssumption
    <3>2. <<r, NoFile>> \in Targets
      BY DEF Targets
    <3>3. QED
      BY <3>2
  <2>2. QED
    BY <2>1, QueueAssumption DEF AnyDir
<1>2. TypeOK
  BY <1>1, RestingType, QueueAssumption DEF Init, TypeOK, Job, JobStates
<1>3. \A w \in Workers : Holds(w) = {} /\ worker[w] = Resting
  BY RestingType DEF Init, Holds
<1>4. Core
  BY <1>1, <1>3, RestingType, QueueAssumption
  DEF Core, Init, HoldsClaimed, OneWorkerPerTarget, OneActivePerTarget, JobsFollowTargets,
      NewFilesUnknown, GoneIsEmpty, ActiveStates
<1>5. HandsOK
  BY <1>3, RestingType DEF HandsOK, HandOK
<1>6. QED
  BY <1>2, <1>4, <1>5 DEF IInv

LEMMA NextIInv == IInv /\ [Next]_vars => IInv'
<1> SUFFICES ASSUME IInv, [Next]_vars PROVE IInv'
  OBVIOUS
<1>1. CASE UNCHANGED vars
  BY <1>1 DEF vars, content, IInv, TypeOK, Core, HoldsClaimed, OneWorkerPerTarget,
     OneActivePerTarget, JobsFollowTargets, NewFilesUnknown, GoneIsEmpty, HandsOK, HandOK,
     Holds, Target, Exists
<1>2. CASE Users
  BY <1>2, AfterUploadKeepsIInv, UploadKeepsIInv, BackfillKeepsIInv, MoveKeepsIInv,
     RemoveKeepsIInv, PurgeKeepsIInv, RemoveDirectoryKeepsIInv DEF Users
<1>3. ASSUME NEW w \in Workers, Claim(w) \/ Work(w) \/ Crash(w) PROVE IInv'
  BY <1>3, ClaimKeepsCore, WorkKeepsIInv, RestartKeepsIInv DEF IInv
<1>4. ASSUME NEW j \in JobIds, BackoffElapses(j) PROVE IInv'
  BY <1>4, BackoffKeepsIInv
<1>5. QED
  BY <1>1, <1>2, <1>3, <1>4 DEF Next

\* Every reachable state satisfies the inductive invariant.
THEOREM IndexInvariant == Spec => []IInv
  BY InitIInv, NextIInv, PTL DEF Spec

\* Every variable of the queue keeps its type.
THEOREM IndexTypeCorrect == Spec => []TypeOK
<1>1. IInv => TypeOK
  BY DEF IInv
<1>2. QED
  BY <1>1, IndexInvariant, PTL

\* No two processes ever work on the same target, whatever fails, is deleted
\* or is enqueued again meanwhile.
THEOREM OneReaderPerTarget == Spec => []OneWorkerPerTarget
<1>1. IInv => OneWorkerPerTarget
  BY DEF IInv, Core
<1>2. QED
  BY <1>1, IndexInvariant, PTL

-----------------------------------------------------------------------------
(* Retries.  The bound alone is not inductive: a claim counts one more, so a *)
(* job that may be claimed has to be one below it.                           *)

Claimable(j) == jobs[j].state = "PENDING" => jobs[j].attempts < MaxIndexAttempts
RetryInv == RetriesBounded /\ \A j \in JobIds : Claimable(j)

\* A step that counts no attempt and makes no job claimable.
LEMMA NoAttemptCounted ==
  ASSUME RetryInv,
         \A j \in JobIds : jobs'[j].attempts = jobs[j].attempts,
         \A j \in JobIds : jobs'[j].state = "PENDING" => jobs[j].state = "PENDING"
  PROVE  RetryInv'
  BY DEF RetryInv, RetriesBounded, Claimable

LEMMA EnqueueKeepsRetryInv ==
  ASSUME TypeOK, RetryInv, NEW t, Enqueue(t)
  PROVE  RetryInv'
<1>1. jobs \in [JobIds -> Job]
  BY DEF TypeOK
<1>2. CASE UNCHANGED jobs
  BY <1>2, NoAttemptCounted
<1>3. CASE \E id \in JobIds : jobs' = [jobs EXCEPT ![id] = NewJob(t)]
  BY <1>1, <1>3, QueueAssumption DEF RetryInv, RetriesBounded, Claimable, NewJob
<1>4. QED
  BY <1>2, <1>3 DEF Enqueue

LEMMA NextRetryInv == TypeOK /\ RetryInv /\ [Next]_vars => RetryInv'
<1> SUFFICES ASSUME TypeOK, RetryInv, [Next]_vars PROVE RetryInv'
  OBVIOUS
<1>1. jobs \in [JobIds -> Job] /\ \A j \in JobIds : jobs[j].attempts \in Nat
  BY DEF TypeOK, Job
<1>2. CASE UNCHANGED jobs
  BY <1>2, NoAttemptCounted
<1>3. CASE Users
  <2>1. ASSUME NEW gone, Cascade(gone) PROVE RetryInv'
    <3>1. \A j \in JobIds : /\ jobs'[j].attempts = jobs[j].attempts
                            /\ jobs'[j].state = "PENDING" => jobs[j].state = "PENDING"
      BY <1>1, <2>1 DEF Cascade, Job
    <3>2. QED
      BY <3>1, NoAttemptCounted
  <2>2. UNCHANGED jobs \/ (\E t : Enqueue(t)) \/ (\E gone : Cascade(gone))
    BY <1>3 DEF Users, EnqueueAfterUpload, Upload, Backfill, MoveResource, RemoveFile,
       PurgeResource, RemoveDirectory
  <2>3. QED
    BY <1>2, <2>1, <2>2, EnqueueKeepsRetryInv
<1>4. ASSUME NEW w \in Workers, Claim(w) PROVE RetryInv'
  <2> DEFINE due == {j \in JobIds : jobs[j].state = "PENDING" /\ jobs[j].due}
             mine == {j \in due : Cardinality({i \in due : i < j}) < Batch}
             taken(j) == [jobs[j] EXCEPT !.state = "RUNNING", !.attempts = @ + 1]
  <2>1. mine \subseteq JobIds /\ \A j \in mine : jobs[j].state = "PENDING"
    OBVIOUS
  <2>2. jobs' = [j \in JobIds |-> IF j \in mine THEN taken(j) ELSE jobs[j]]
    BY <1>4 DEF Claim
  <2> HIDE DEF due, mine
  <2>3. ASSUME NEW j \in JobIds
        PROVE  taken(j).state = "RUNNING" /\ taken(j).attempts = jobs[j].attempts + 1
    BY <1>1 DEF Job
  <2> HIDE DEF taken
  <2>4. \A j \in mine : jobs[j].attempts + 1 <= MaxIndexAttempts
    BY <1>1, <2>1, QueueAssumption DEF RetryInv, Claimable
  <2>5. QED
    BY <2>1, <2>2, <2>3, <2>4 DEF RetryInv, RetriesBounded, Claimable
<1>5. ASSUME NEW w \in Workers, Work(w) PROVE RetryInv'
  <2> DEFINE j == worker[w].job
  <2>1. CASE UNCHANGED jobs
    BY <2>1, NoAttemptCounted
  <2>2. ASSUME NEW state, NEW due, SetState(j, state, due),
               state = "PENDING" => jobs[j].attempts + 1 < MaxIndexAttempts
        PROVE  RetryInv'
    <3> DEFINE x == [jobs EXCEPT ![j].state = state]
    <3>1. CASE jobs' = jobs
      BY <3>1, NoAttemptCounted
    <3>2. CASE jobs' = [x EXCEPT ![j].due = due]
      <4>1. x \in [JobIds -> [state : {state} \cup JobStates \cup {"none", "deleted"},
                              target : Targets, attempts : Nat, due : BOOLEAN]]
            /\ \A i \in JobIds : /\ x[i].attempts = jobs[i].attempts
                                 /\ x[i].state = IF i = j THEN state ELSE jobs[i].state
        BY <1>1 DEF Job
      <4> HIDE DEF x
      <4>2. \A i \in JobIds : /\ jobs'[i].attempts = x[i].attempts
                              /\ jobs'[i].state = x[i].state
        BY <3>2, <4>1
      <4>3. QED
        BY <1>1, <2>2, <4>1, <4>2, QueueAssumption DEF RetryInv, RetriesBounded, Claimable
    <3>3. QED
      BY <2>2, <3>1, <3>2 DEF SetState
  <2>3. CASE FinishJob(w)
    <3>1. worker[w].end # "PENDING"
      BY DEF TypeOK, MemoryType
    <3>2. SetState(j, worker[w].end, TRUE)
      BY <2>3 DEF FinishJob
    <3>3. QED
      BY <2>2, <3>1, <3>2
  <2>4. CASE CatchFailure(w)
    <3>1. AfterFailure(jobs[j].attempts) = "PENDING"
            => jobs[j].attempts + 1 < MaxIndexAttempts
      BY DEF AfterFailure
    <3>2. SetState(j, AfterFailure(jobs[j].attempts), FALSE)
      BY <2>4 DEF CatchFailure
    <3>3. QED
      BY <2>2, <3>1, <3>2
  <2>5. QED
    BY <1>5, <2>1, <2>3, <2>4 DEF Work, ReadMeta, ReadFileRow, ThrowTaking, Take, ReadBytes,
       ReadDirectory, WriteChunk, MarkStale, Throw, CatchFails
<1>6. ASSUME NEW j \in JobIds, BackoffElapses(j) PROVE RetryInv'
  <2>1. \A i \in JobIds : jobs'[i].attempts = jobs[i].attempts
                          /\ jobs'[i].state = jobs[i].state
    BY <1>1, <1>6 DEF BackoffElapses, Job
  <2>2. QED
    BY <2>1, NoAttemptCounted
<1>7. ASSUME NEW w \in Workers, Crash(w) PROVE RetryInv'
  BY <1>2, <1>7 DEF Crash
<1>8. CASE UNCHANGED vars
  BY <1>2, <1>8 DEF vars
<1>9. QED
  BY <1>3, <1>4, <1>5, <1>6, <1>7, <1>8 DEF Next

\* No job is ever claimed more often than the configuration allows.
THEOREM RetriesStayBounded == Spec => []RetriesBounded
<1>1. Init => RetryInv
  BY QueueAssumption DEF Init, RetryInv, RetriesBounded, Claimable
<1>2. RetryInv => RetriesBounded
  BY DEF RetryInv
<1>3. QED
  BY <1>1, <1>2, NextRetryInv, IndexTypeCorrect, PTL DEF Spec

-----------------------------------------------------------------------------
(* What the chunks are.  That a job recorded as DONE leaves one whole        *)
(* reading of its source rests on what its process has written so far, on    *)
(* nobody else writing for the target meanwhile, and on the jobs that can    *)
(* still write being the youngest of their targets.                          *)

\* Set C of chunks has, READY, piece i of print p of target t in directory d.
Has(C, t, d, i, p) ==
  \E c \in C : c.target = t /\ c.dir = d /\ c.index = i /\ c.print = p /\ c.ready

\* All pieces of text s of t are there; nothing else of t in its directory is READY.
Full(C, t, s) == \A i \in 0..(Pieces(t, s.print) - 1) : Has(C, t, s.dir, i, s.print)
Pure(C, t, s) ==
  \A c \in C :
    c.target = t /\ c.dir = s.dir /\ c.ready => ~Outdated(c, s.print, Pieces(t, s.print))

\* s is a reading of t.
ReadingOf(t, s) ==
  IsFiniteSet(s.print.files) /\ (t[2] # NoFile => s.print = FilePrint(t[2]))

\* Job ids are given out in order, and what may still write is the youngest of
\* its target.
IdsInOrder ==
  \A i, j \in JobIds : i < j /\ jobs[j].state # "none" => jobs[i].state # "none"
ActiveIsLatest ==
  \A j \in JobIds : jobs[j].state \in ActiveStates => Latest(jobs[j].target, j)

FilesFinite == \A r \in Resources : IsFiniteSet(files[r])
ChunksStored == \A c \in chunks : Exists(c.target) /\ c.dir \in dirs

\* How far a process with memory m has got with target t; what it wrote is there
\* as long as the directory it read is among D.
WritesDone(C, D, t, m) ==
  /\ m.pc \in {"bytes", "dir"} => m.index = 0
  /\ m.pc \in {"dir", "write", "stale"} => ReadingOf(t, m.text)
  /\ m.pc = "write" /\ m.text.dir \in D =>
       \A i \in 0..(m.index - 1) : Has(C, t, m.text.dir, i, m.text.print)
  /\ m.pc = "stale" /\ m.text.dir \in D => Full(C, t, m.text)
  /\ m.pc = "finish" /\ m.end = "DONE" =>
       /\ ReadingOf(t, m.text) /\ Pure(C, t, m.text)
       /\ m.text.dir \in D => Full(C, t, m.text)

\* A process whose job was deleted may believe anything.
Progress(w) ==
  worker[w].job # 0 /\ jobs[worker[w].job].state # "deleted"
    => WritesDone(chunks, dirs, Target(w), worker[w])
ProgressOK == \A w \in Workers : Progress(w)

DoneWhole ==
  \A j \in JobIds : LET t == jobs[j].target IN
    jobs[j].state = "DONE" /\ Latest(t, j) =>
      /\ ReadingOf(t, shown[t]) /\ Pure(chunks, t, shown[t])
      /\ shown[t].dir \in dirs => Full(chunks, t, shown[t])

\* Chunks C make file t findable in directory d.
Findable(C, t, d) == Full(C, t, [dir |-> d, print |-> FilePrint(t[2])])
DoneFindable ==
  \A j \in JobIds : LET t == jobs[j].target IN
    jobs[j].state = "DONE" /\ t[2] # NoFile /\ shown[t].dir \in dirs
      => Findable(chunks, t, shown[t].dir)

\* The inductive invariant, on top of IInv.
ChunkInv ==
  /\ IdsInOrder /\ ActiveIsLatest /\ FilesFinite /\ ChunksStored
  /\ ProgressOK /\ DoneWhole /\ DoneFindable

-----------------------------------------------------------------------------
(* Lemmas about pieces and sets of chunks. *)

LEMMA PiecesPositive ==
  ASSUME NEW t, NEW s, ReadingOf(t, s)
  PROVE  Pieces(t, s.print) \in Nat \ {0}
<1>1. Cardinality(s.print.files) \in Nat
  BY FS_CardinalityType DEF ReadingOf
<1>2. QED
  BY <1>1 DEF Pieces

\* What is said of a target rests on its own chunks.
LEMMA SameChunks ==
  ASSUME NEW C, NEW D, NEW t, \A c : c \in D /\ c.target = t <=> c \in C /\ c.target = t
  PROVE  /\ \A s : (Full(C, t, s) <=> Full(D, t, s)) /\ (Pure(C, t, s) <=> Pure(D, t, s))
         /\ \A E, m : WritesDone(C, E, t, m) <=> WritesDone(D, E, t, m)
         /\ \A d : Findable(C, t, d) <=> Findable(D, t, d)
<1>1. \A d, i, p : Has(C, t, d, i, p) <=> Has(D, t, d, i, p)
  BY DEF Has
<1>2. \A s : Full(C, t, s) <=> Full(D, t, s)
  BY <1>1 DEF Full
<1>3. \A s : Pure(C, t, s) <=> Pure(D, t, s)
  BY DEF Pure
<1>4. \A E, m : WritesDone(C, E, t, m) <=> WritesDone(D, E, t, m)
  BY <1>1, <1>2, <1>3 DEF WritesDone
<1>5. \A d : Findable(C, t, d) <=> Findable(D, t, d)
  BY <1>2 DEF Findable
<1>6. QED
  BY <1>2, <1>3, <1>4, <1>5

-----------------------------------------------------------------------------
(* What the steps share. *)

\* No row is added, and none becomes active.
RowsStay ==
  \A j \in JobIds :
    /\ jobs'[j].target = jobs[j].target
    /\ jobs'[j].state # "none" <=> jobs[j].state # "none"
    /\ jobs'[j].state \in ActiveStates => jobs[j].state \in ActiveStates
    /\ jobs[j].state = "deleted" => jobs'[j].state = "deleted"

LEMMA RowsStayInOrder ==
  ASSUME ChunkInv, RowsStay
  PROVE  IdsInOrder' /\ ActiveIsLatest' /\ \A t : \A j \in JobIds : Latest(t, j)' <=> Latest(t, j)
<1>1. \A t : \A j \in JobIds : Latest(t, j)' <=> Latest(t, j)
  BY DEF Latest, RowsStay
<1>2. IdsInOrder'
  BY DEF ChunkInv, IdsInOrder, RowsStay
<1>3. ActiveIsLatest'
  <2> SUFFICES ASSUME NEW j \in JobIds, jobs'[j].state \in ActiveStates
               PROVE  Latest(jobs[j].target, j)'
    BY DEF ActiveIsLatest, RowsStay
  <2>1. Latest(jobs[j].target, j)
    BY DEF ChunkInv, ActiveIsLatest, RowsStay
  <2>2. QED
    BY <2>1 DEF Latest, RowsStay
<1>4. QED
  BY <1>1, <1>2, <1>3

\* Jobs that are DONE were so before, the chunks of their targets are the same,
\* and rows at most come in.
LEMMA DoneStays ==
  ASSUME DoneWhole, DoneFindable, UNCHANGED <<dirs, shown>>,
         \A j \in JobIds : jobs[j].state # "none" =>
           jobs'[j].target = jobs[j].target /\ jobs'[j].state # "none",
         \A j \in JobIds : jobs'[j].state = "DONE" =>
           /\ jobs[j].state = "DONE"
           /\ \A c : c \in chunks' /\ c.target = jobs[j].target
                       <=> c \in chunks /\ c.target = jobs[j].target
  PROVE  DoneWhole' /\ DoneFindable'
<1> SUFFICES ASSUME NEW j \in JobIds, NEW t, t = jobs'[j].target, jobs'[j].state = "DONE"
             PROVE  /\ Latest(t, j)' =>
                         /\ ReadingOf(t, shown[t]) /\ Pure(chunks', t, shown[t])
                         /\ shown[t].dir \in dirs => Full(chunks', t, shown[t])
                    /\ t[2] # NoFile /\ shown[t].dir \in dirs
                         => Findable(chunks', t, shown[t].dir)
  BY DEF DoneWhole, DoneFindable
<1>1. jobs[j].state = "DONE" /\ jobs[j].target = t
  OBVIOUS
<1>2. Latest(t, j)' => Latest(t, j)
  BY <1>1 DEF Latest
<1>3. /\ Latest(t, j) => /\ ReadingOf(t, shown[t]) /\ Pure(chunks, t, shown[t])
                         /\ shown[t].dir \in dirs => Full(chunks, t, shown[t])
      /\ t[2] # NoFile /\ shown[t].dir \in dirs => Findable(chunks, t, shown[t].dir)
  BY <1>1 DEF DoneWhole, DoneFindable
<1>4. /\ \A s : (Full(chunks, t, s) <=> Full(chunks', t, s))
                /\ (Pure(chunks, t, s) <=> Pure(chunks', t, s))
      /\ \A d : Findable(chunks, t, d) <=> Findable(chunks', t, d)
  BY <1>1, SameChunks
<1>5. QED
  BY <1>2, <1>3, <1>4

\* The chunks stay as they are, and no job becomes DONE.
LEMMA QuietChunks ==
  ASSUME IInv, ChunkInv, RowsStay, UNCHANGED <<dirs, chunks, shown>>,
         \A j \in JobIds : jobs'[j].state = "DONE" => jobs[j].state = "DONE",
         \A r \in Resources : IsFiniteSet(files'[r]),
         \A t \in Targets : Exists(t) => Exists(t)',
         \A w \in Workers :
           \/ worker'[w] = worker[w]
           \/ worker'[w].job = 0
           \/ /\ worker'[w].job \in JobIds
              /\ \/ jobs[worker'[w].job].state = "deleted"
                 \/ WritesDone(chunks, dirs, jobs[worker'[w].job].target, worker'[w])
  PROVE  ChunkInv'
<1>1. IdsInOrder' /\ ActiveIsLatest'
  BY RowsStayInOrder
<1>2. FilesFinite'
  BY DEF FilesFinite
<1>3. ChunksStored'
  BY DEF ChunkInv, ChunksStored, IInv, TypeOK, Chunk
<1>4. DoneWhole' /\ DoneFindable'
  BY DoneStays DEF ChunkInv, RowsStay
<1>5. ProgressOK'
  <2> SUFFICES ASSUME NEW w \in Workers, worker'[w].job # 0,
                      jobs'[worker'[w].job].state # "deleted"
               PROVE  WritesDone(chunks, dirs, jobs'[worker'[w].job].target, worker'[w])
    BY DEF ProgressOK, Progress, Target
  <2>1. CASE worker'[w] = worker[w]
    <3>1. worker[w].job \in JobIds
      BY <2>1 DEF IInv, TypeOK, MemoryType
    <3>2. QED
      BY <2>1, <3>1 DEF ChunkInv, ProgressOK, Progress, Target, RowsStay
  <2>2. CASE worker'[w] # worker[w]
    BY <2>2 DEF RowsStay
  <2>3. QED
    BY <2>1, <2>2
<1>6. QED
  BY <1>1, <1>2, <1>3, <1>4, <1>5 DEF ChunkInv

-----------------------------------------------------------------------------
(* The steps of the processes. *)

\* One process changes its memory; of the tables, at most uploads and lost change.
LEMMA MemoryChunks ==
  ASSUME IInv, ChunkInv, NEW w \in Workers, NEW m \in MemoryType, Memory(w, m),
         UNCHANGED <<content, jobs, chunks, shown>>,
         \/ m.job = 0
         \/ /\ m.job \in JobIds
            /\ jobs[m.job].state = "deleted" \/ WritesDone(chunks, dirs, jobs[m.job].target, m)
  PROVE  ChunkInv'
<1>1. \A v \in Workers : worker'[v] = IF v = w THEN m ELSE worker[v]
  BY MemoryIs DEF IInv
<1>2. RowsStay
  BY DEF RowsStay
<1>3. /\ \A r \in Resources : IsFiniteSet(files'[r])
      /\ \A t \in Targets : Exists(t) => Exists(t)'
  BY DEF ChunkInv, FilesFinite, content, Exists
<1>4. QED
  BY <1>1, <1>2, <1>3, QuietChunks DEF content

\* A held job is the youngest of its target, unless its row is gone.
LEMMA HeldJob ==
  ASSUME IInv, ChunkInv, NEW w \in Workers, NEW j \in Holds(w)
  PROVE  /\ j \in JobIds /\ jobs[j] \in Job /\ jobs[j].target \in Targets
         /\ \/ jobs[j].state = "deleted" /\ ~Exists(jobs[j].target)
            \/ /\ jobs[j].state = "RUNNING" /\ Exists(jobs[j].target)
               /\ Latest(jobs[j].target, j)
<1>1. j \in JobIds
  BY HoldsType DEF IInv
<1>2. jobs[j].state \in {"RUNNING", "deleted"}
  BY DEF IInv, Core, HoldsClaimed
<1>3. QED
  BY <1>1, <1>2
  DEF IInv, TypeOK, Job, Core, JobsFollowTargets, ChunkInv, ActiveIsLatest, ActiveStates

LEMMA TakeChunks ==
  ASSUME IInv, ChunkInv, NEW w \in Workers, NEW j \in worker[w].batch, NEW m \in MemoryType,
         Take(w, j, m),
         jobs[j].state = "deleted" \/ WritesDone(chunks, dirs, jobs[j].target, m)
  PROVE  ChunkInv'
<1> DEFINE h == [m EXCEPT !.batch = worker[w].batch \ {j}]
           k == [h EXCEPT !.job = j]
<1>1. /\ Memory(w, k)
      /\ UNCHANGED <<content, uploads, jobs, chunks, shown, lost>>
  BY DEF Take
<1>2. worker[w].batch \subseteq JobIds
  BY InHand
<1>3. h \in MemoryType /\ h.pc = m.pc /\ h.text = m.text /\ h.end = m.end /\ h.index = m.index
  BY <1>2 DEF MemoryType
<1> HIDE DEF h
<1>4. k \in MemoryType /\ k.job = j /\ k.pc = m.pc /\ k.text = m.text /\ k.end = m.end
      /\ k.index = m.index
  BY <1>2, <1>3 DEF MemoryType
<1> HIDE DEF k
<1>5. jobs[j].state = "deleted" \/ WritesDone(chunks, dirs, jobs[j].target, k)
  BY <1>4 DEF WritesDone
<1>6. QED
  BY <1>1, <1>2, <1>4, <1>5, MemoryChunks

LEMMA ReadingStarts ==
  ASSUME IInv, ChunkInv, NEW w \in Workers, NEW j \in worker[w].batch,
         ReadMeta(w, j) \/ ReadFileRow(w, j) \/ ThrowTaking(w, j)
  PROVE  ChunkInv'
<1>1. /\ j \in JobIds /\ jobs[j] \in Job /\ jobs[j].target \in Targets
      /\ jobs[j].state = "deleted" \/ Exists(jobs[j].target)
  BY HeldJob DEF Holds
<1>2. CASE ReadMeta(w, j)
  <2> DEFINE r == jobs[j].target[1]
             p == [dir |-> dirOf[r], files |-> files[r]]
             s == [dir |-> dirOf[r], print |-> p]
             gone == [Resting EXCEPT !.pc = "finish", !.end = "DONE"]
             x == [Resting EXCEPT !.pc = "write"]
             read == [x EXCEPT !.text = s]
  <2>1. r \in Resources /\ dirOf[r] \in Dirs \cup {NoDir} /\ s \in Text
    BY <1>1 DEF Targets, IInv, TypeOK, Prints, Text
  <2>2. gone \in MemoryType
    BY RestingType DEF Resting, MemoryType, Pcs
  <2>3. x \in MemoryType /\ x.pc = "write" /\ x.index = 0
    BY RestingType DEF Resting, MemoryType, Pcs
  <2>4. Take(w, j, IF dirOf[r] = NoDir THEN gone ELSE read) /\ jobs[j].target[2] = NoFile
    BY <1>2 DEF ReadMeta
  <2>5. ReadingOf(jobs[j].target, s)
    BY <2>1, <2>4 DEF ReadingOf, ChunkInv, FilesFinite
  <2> HIDE DEF gone, x, s
  <2>6. read \in MemoryType /\ read.pc = "write" /\ read.text = s /\ read.index = 0
    BY <2>1, <2>3 DEF MemoryType
  <2> HIDE DEF read
  <2>7. CASE dirOf[r] = NoDir
    BY <1>1, <2>2, <2>4, <2>7, TakeChunks DEF Exists
  <2>8. CASE dirOf[r] # NoDir
    <3>1. WritesDone(chunks, dirs, jobs[j].target, read)
      BY <2>5, <2>6 DEF WritesDone
    <3>2. QED
      BY <2>4, <2>6, <2>8, <3>1, TakeChunks
  <2>9. QED
    BY <2>7, <2>8
<1>3. CASE ReadFileRow(w, j)
  <2> DEFINE t == jobs[j].target
             found == [Resting EXCEPT !.pc = "bytes"]
             gone == [Resting EXCEPT !.pc = "finish", !.end = "SKIPPED"]
  <2>1. /\ found \in MemoryType /\ WritesDone(chunks, dirs, t, found)
        /\ gone \in MemoryType /\ WritesDone(chunks, dirs, t, gone)
    BY RestingType DEF Resting, MemoryType, Pcs, WritesDone
  <2>2. Take(w, j, IF t[2] \in files[t[1]] THEN found ELSE gone)
    BY <1>3 DEF ReadFileRow
  <2> HIDE DEF found, gone
  <2>3. CASE t[2] \in files[t[1]]
    BY <2>1, <2>2, <2>3, TakeChunks
  <2>4. CASE t[2] \notin files[t[1]]
    BY <2>1, <2>2, <2>4, TakeChunks
  <2>5. QED
    BY <2>3, <2>4
<1>4. CASE ThrowTaking(w, j)
  <2> DEFINE m == [Resting EXCEPT !.pc = "catch"]
  <2>1. m \in MemoryType /\ Take(w, j, m) /\ WritesDone(chunks, dirs, jobs[j].target, m)
    BY <1>4, RestingType DEF ThrowTaking, Resting, MemoryType, Pcs, WritesDone
  <2> HIDE DEF m
  <2>2. QED
    BY <2>1, TakeChunks
<1>5. QED
  BY <1>2, <1>3, <1>4

\* What a process knows of its job in hand.
LEMMA JobInHand ==
  ASSUME IInv, ChunkInv, NEW w \in Workers, worker[w].pc \notin {"idle", "next"}
  PROVE  LET e == worker[w]  t == Target(w) IN
         /\ e \in MemoryType /\ e.job \in JobIds /\ e.job # 0 /\ e.job \in Holds(w)
         /\ t = jobs[e.job].target /\ t \in Targets
         /\ \/ jobs[e.job].state = "deleted" /\ ~Exists(t)
            \/ /\ jobs[e.job].state = "RUNNING" /\ Exists(t) /\ Latest(t, e.job)
               /\ WritesDone(chunks, dirs, t, e)
<1>1. /\ worker[w] \in MemoryType /\ worker[w].job \in JobIds /\ worker[w].job # 0
      /\ worker[w].job \in Holds(w)
  BY InHand DEF JobIds
<1>2. jobs[worker[w].job].state # "deleted" => WritesDone(chunks, dirs, Target(w), worker[w])
  BY <1>1 DEF ChunkInv, ProgressOK, Progress
<1>3. QED
  BY <1>1, <1>2, HeldJob DEF Target

LEMMA ReadBytesChunks ==
  ASSUME IInv, ChunkInv, NEW w \in Workers, ReadBytes(w)
  PROVE  ChunkInv'
<1> DEFINE e == worker[w]
           f == Target(w)[2]
           x == [e EXCEPT !.pc = "dir"]
           read == [x EXCEPT !.text.print = FilePrint(f)]
           y == [e EXCEPT !.pc = "finish"]
           skip == [y EXCEPT !.end = "SKIPPED"]
<1>1. /\ e.pc = "bytes" /\ e \in MemoryType /\ e.job \in JobIds /\ Target(w) \in Targets
      /\ Target(w) = jobs[e.job].target
      /\ jobs[e.job].state # "deleted" => WritesDone(chunks, dirs, Target(w), e)
  BY JobInHand DEF ReadBytes
<1>2. f \in FileIds /\ FilePrint(f) \in Prints /\ IsFiniteSet(FilePrint(f).files)
  <2>1. f \in FileIds
    BY <1>1 DEF Targets, IInv, HandsOK, HandOK
  <2>2. QED
    BY <2>1, FS_Singleton DEF FilePrint, Prints
<1>3. (Memory(w, read) \/ Memory(w, skip))
      /\ UNCHANGED <<content, uploads, jobs, chunks, shown, lost>>
  BY DEF ReadBytes
<1>4. f = Target(w)[2]
  OBVIOUS
<1> HIDE DEF f
<1>5. x \in MemoryType /\ x.pc = "dir" /\ x.job = e.job /\ x.index = e.index
  BY <1>1 DEF MemoryType, Pcs
<1>6. y \in MemoryType /\ y.pc = "finish" /\ y.job = e.job
  BY <1>1 DEF MemoryType, Pcs
<1> HIDE DEF x, y
<1>7. read \in MemoryType /\ read.pc = "dir" /\ read.job = e.job /\ read.index = e.index
      /\ read.text.print = FilePrint(f)
  BY <1>2, <1>5 DEF MemoryType, Text
<1>8. skip \in MemoryType /\ skip.pc = "finish" /\ skip.end = "SKIPPED" /\ skip.job = e.job
  BY <1>6 DEF MemoryType
<1> HIDE DEF read, skip
<1>9. jobs[e.job].state = "deleted"
      \/ (WritesDone(chunks, dirs, Target(w), read) /\ WritesDone(chunks, dirs, Target(w), skip))
  BY <1>1, <1>2, <1>4, <1>7, <1>8 DEF WritesDone, ReadingOf
<1>10. CASE Memory(w, read)
  BY <1>1, <1>3, <1>7, <1>9, <1>10, MemoryChunks
<1>11. CASE Memory(w, skip)
  BY <1>1, <1>3, <1>8, <1>9, <1>11, MemoryChunks
<1>12. QED
  BY <1>3, <1>10, <1>11

LEMMA ReadDirectoryChunks ==
  ASSUME IInv, ChunkInv, NEW w \in Workers, ReadDirectory(w)
  PROVE  ChunkInv'
<1> DEFINE e == worker[w]
           t == Target(w)
           x == [e EXCEPT !.pc = "write"]
           m == [x EXCEPT !.text.dir = dirOf[t[1]]]
<1>1. /\ e.pc = "dir" /\ e \in MemoryType /\ e.job \in JobIds /\ t \in Targets
      /\ t = jobs[e.job].target
      /\ jobs[e.job].state # "deleted" => WritesDone(chunks, dirs, t, e)
  BY JobInHand DEF ReadDirectory
<1>2. dirOf[t[1]] \in Dirs \cup {NoDir}
  BY <1>1 DEF Targets, IInv, TypeOK
<1>3. Memory(w, m) /\ UNCHANGED <<content, uploads, jobs, chunks, shown, lost>>
  BY DEF ReadDirectory
<1>4. x \in MemoryType /\ x.pc = "write" /\ x.job = e.job /\ x.index = e.index
      /\ x.text = e.text
  BY <1>1 DEF MemoryType, Pcs
<1> HIDE DEF x, t
<1>5. m \in MemoryType /\ m.pc = "write" /\ m.job = e.job /\ m.index = e.index
      /\ m.text.print = e.text.print
  BY <1>2, <1>4 DEF MemoryType, Text
<1> HIDE DEF m
<1>6. jobs[e.job].state = "deleted" \/ WritesDone(chunks, dirs, t, m)
  BY <1>1, <1>5 DEF WritesDone, ReadingOf
<1>7. QED
  BY <1>1, <1>3, <1>5, <1>6, MemoryChunks

LEMMA ThrowChunks ==
  ASSUME IInv, ChunkInv, NEW w \in Workers, Throw(w)
  PROVE  ChunkInv'
<1> DEFINE e == worker[w]
           m == [Resting EXCEPT !.pc = "catch", !.batch = e.batch, !.job = e.job]
           x == [Resting EXCEPT !.pc = "catch"]
           y == [x EXCEPT !.batch = e.batch]
<1>1. e \in MemoryType /\ e.batch \subseteq JobIds /\ e.job \in JobIds
  BY InHand DEF Throw
<1>2. Memory(w, m) /\ UNCHANGED <<content, uploads, jobs, chunks, shown, lost>>
  BY DEF Throw
<1>3. x \in MemoryType /\ x.pc = "catch"
  BY RestingType DEF MemoryType, Pcs
<1>4. m = [y EXCEPT !.job = e.job]
  OBVIOUS
<1> HIDE DEF x
<1>5. y \in MemoryType /\ y.pc = "catch"
  BY <1>1, <1>3 DEF MemoryType
<1> HIDE DEF y, m
<1>6. m \in MemoryType /\ m.pc = "catch" /\ m.job = e.job
  BY <1>1, <1>4, <1>5 DEF MemoryType
<1>7. WritesDone(chunks, dirs, jobs[m.job].target, m)
  BY <1>6 DEF WritesDone
<1>8. QED
  BY <1>1, <1>2, <1>6, <1>7, MemoryChunks

LEMMA RestartChunks ==
  ASSUME IInv, ChunkInv, NEW w \in Workers, CatchFails(w) \/ Crash(w)
  PROVE  ChunkInv'
  BY RestingType, MemoryChunks DEF CatchFails, Crash

\* Two processes with stored jobs in hand are at different targets.
LEMMA OthersElsewhere ==
  ASSUME IInv, ChunkInv, NEW w \in Workers, NEW v \in Workers, v # w,
         worker[w].pc \notin {"idle", "next"}, worker[v].job # 0
  PROVE  worker[v].job \in JobIds /\ Target(v) # Target(w)
<1>1. worker[v].job \in Holds(v) /\ worker[w].job \in Holds(w)
  BY JobInHand DEF Holds
<1>2. QED
  BY <1>1, HoldsType DEF IInv, Core, OneWorkerPerTarget, Target

\* Writing the chunks of the job in hand: no other process, and no youngest DONE
\* job, is concerned.
LEMMA WritingStep ==
  ASSUME IInv, ChunkInv, NEW w \in Workers, NEW m \in MemoryType, Memory(w, m),
         worker[w].pc \notin {"idle", "next"}, jobs[worker[w].job].state # "deleted",
         m.job = worker[w].job,
         UNCHANGED <<content, uploads, jobs, shown, lost>>, \A c \in chunks' : c \in Chunk,
         \A t \in Targets : t # Target(w) =>
           \A c : c \in chunks' /\ c.target = t <=> c \in chunks /\ c.target = t,
         WritesDone(chunks', dirs, Target(w), m),
         \A c \in chunks' : c.dir \in dirs,
         Target(w)[2] # NoFile =>
           \A d : Findable(chunks, Target(w), d) => Findable(chunks', Target(w), d)
  PROVE  ChunkInv'
<1> DEFINE e == worker[w]
           u == Target(w)
<1>1. /\ e.job \in JobIds /\ e.job # 0 /\ u = jobs[e.job].target /\ u \in Targets
      /\ jobs[e.job].state = "RUNNING" /\ Exists(u) /\ Latest(u, e.job)
  BY JobInHand
<1>2. \A v \in Workers : worker'[v] = IF v = w THEN m ELSE worker[v]
  BY MemoryIs DEF IInv
<1>3. IdsInOrder' /\ ActiveIsLatest' /\ \A t : \A j \in JobIds : Latest(t, j)' <=> Latest(t, j)
  BY RowsStayInOrder DEF RowsStay
<1>4. FilesFinite' /\ \A t : Exists(t)' <=> Exists(t)
  BY DEF ChunkInv, FilesFinite, content, Exists
<1>5. \A c \in chunks' : c.target \in Targets
  BY DEF Chunk
<1>6. \A t \in Targets : t # u =>
        /\ \A s : (Full(chunks, t, s) <=> Full(chunks', t, s))
                  /\ (Pure(chunks, t, s) <=> Pure(chunks', t, s))
        /\ \A k : WritesDone(chunks, dirs, t, k) <=> WritesDone(chunks', dirs, t, k)
        /\ \A d : Findable(chunks, t, d) <=> Findable(chunks', t, d)
  BY SameChunks
<1>7. \A j \in JobIds : jobs[j].target \in Targets
  BY DEF IInv, TypeOK, Job
<1>8. ProgressOK'
  <2> SUFFICES ASSUME NEW v \in Workers, worker'[v].job # 0,
                      jobs[worker'[v].job].state # "deleted"
               PROVE  WritesDone(chunks', dirs, jobs[worker'[v].job].target, worker'[v])
    BY DEF ProgressOK, Progress, Target, content
  <2>1. CASE v = w
    BY <1>1, <1>2, <2>1
  <2>2. CASE v # w
    <3>1. worker'[v] = worker[v]
      BY <1>2, <2>2
    <3>2. worker[v].job \in JobIds /\ Target(v) # u
      BY <2>2, <3>1, OthersElsewhere
    <3>3. WritesDone(chunks, dirs, Target(v), worker[v])
      BY <3>1 DEF ChunkInv, ProgressOK, Progress
    <3>4. QED
      BY <1>6, <1>7, <3>1, <3>2, <3>3 DEF Target
  <2>3. QED
    BY <2>1, <2>2
<1>9. DoneWhole'
  <2> SUFFICES ASSUME NEW j \in JobIds, NEW t, t = jobs[j].target, jobs[j].state = "DONE",
                      Latest(t, j)'
               PROVE  /\ ReadingOf(t, shown[t]) /\ Pure(chunks', t, shown[t])
                      /\ shown[t].dir \in dirs => Full(chunks', t, shown[t])
    BY DEF DoneWhole, content
  <2>1. Latest(t, j)
    BY <1>3
  <2>2. t # u
    BY <1>1, <2>1 DEF Latest, JobIds
  <2>3. QED
    BY <1>6, <1>7, <2>1, <2>2 DEF ChunkInv, DoneWhole
<1>10. DoneFindable'
  <2> SUFFICES ASSUME NEW j \in JobIds, NEW t, t = jobs[j].target, jobs[j].state = "DONE",
                      t[2] # NoFile, shown[t].dir \in dirs
               PROVE  Findable(chunks', t, shown[t].dir)
    BY DEF DoneFindable, content
  <2>1. Findable(chunks, t, shown[t].dir)
    BY DEF ChunkInv, DoneFindable
  <2>2. QED
    BY <1>6, <1>7, <2>1
<1>11. ASSUME ChunksStored' PROVE ChunkInv'
  BY <1>3, <1>4, <1>8, <1>9, <1>10, <1>11 DEF ChunkInv
<1>12. ChunksStored'
  <2> SUFFICES ASSUME NEW c \in chunks' PROVE Exists(c.target) /\ c.dir \in dirs
    BY <1>4 DEF ChunksStored, content
  <2>1. QED
    BY <1>1, <1>5 DEF ChunkInv, ChunksStored
<1>13. QED
  BY <1>11, <1>12

LEMMA WriteChunkChunks ==
  ASSUME IInv, ChunkInv, NEW w \in Workers, WriteChunk(w)
  PROVE  ChunkInv'
<1> DEFINE e == worker[w]
           t == Target(w)
           s == e.text
           n == Pieces(t, s.print)
           c == [target |-> t, dir |-> s.dir, index |-> e.index, print |-> s.print,
                 ready |-> TRUE]
           rest == {x \in chunks : <<x.target, x.dir, x.index>> # <<t, s.dir, e.index>>}
           more == [e EXCEPT !.index = e.index + 1]
           last == [e EXCEPT !.pc = "stale"]
           m == IF e.index + 1 < n THEN more ELSE last
<1>1. /\ e.pc = "write" /\ e \in MemoryType /\ e.job \in JobIds /\ t \in Targets
      /\ t = jobs[e.job].target /\ jobs[e.job].state # "deleted" /\ WritesDone(chunks, dirs, t, e)
  BY JobInHand DEF WriteChunk, Writable
<1>2. chunks' = rest \cup {c} /\ Memory(w, m)
      /\ UNCHANGED <<content, uploads, jobs, shown, lost>>
      /\ s.dir \in dirs
  BY DEF WriteChunk, PiecesOf, Writable
<1>3. e.index \in Nat /\ ReadingOf(t, s) /\ n \in Nat \ {0}
      /\ \A i \in 0..(e.index - 1) : Has(chunks, t, s.dir, i, s.print)
  BY <1>1, <1>2, PiecesPositive DEF MemoryType, WritesDone
<1>4. m \in MemoryType /\ m.job = e.job /\ m.text = s
      /\ \/ m.pc = "write" /\ m.index = e.index + 1
         \/ m.pc = "stale" /\ n <= e.index + 1
  BY <1>1, <1>3 DEF MemoryType, Pcs
<1>5. c.target = t /\ c.dir = s.dir /\ c.index = e.index /\ c.print = s.print /\ c.ready
  OBVIOUS
<1>6. /\ \A x \in rest : x \in chunks
      /\ \A x \in chunks : x.target # t => x \in rest
      /\ \A x \in chunks : (x.target = t /\ x.dir = s.dir /\ x.index = e.index) \/ x \in rest
  OBVIOUS
<1>7. \A x \in chunks' : x \in Chunk /\ x.dir \in dirs
  <2>1. \A x \in chunks' : x \in Chunk
    BY <1>1, WriteChunkKeepsIInv DEF IInv, TypeOK
  <2>2. QED
    BY <1>2, <1>5, <1>6, <2>1 DEF ChunkInv, ChunksStored
<1> HIDE DEF c, rest, m
<1>8. \A i \in 0..e.index : Has(chunks', t, s.dir, i, s.print)
  <2> SUFFICES ASSUME NEW i \in 0..e.index PROVE Has(chunks', t, s.dir, i, s.print)
    OBVIOUS
  <2>1. CASE i = e.index
    BY <1>2, <1>5, <2>1 DEF Has
  <2>2. CASE i # e.index
    <3>1. i \in 0..(e.index - 1)
      BY <1>3, <2>2
    <3>2. PICK x \in chunks : x.target = t /\ x.dir = s.dir /\ x.index = i /\ x.print = s.print
                              /\ x.ready
      BY <1>3, <3>1 DEF Has
    <3>3. x \in rest
      BY <1>6, <2>2, <3>2
    <3>4. QED
      BY <1>2, <3>2, <3>3 DEF Has
  <2>3. QED
    BY <2>1, <2>2
<1>9. WritesDone(chunks', dirs, t, m)
  <2>1. CASE m.pc = "write" /\ m.index = e.index + 1
    BY <1>3, <1>4, <1>8, <2>1 DEF WritesDone
  <2>2. CASE m.pc = "stale" /\ n <= e.index + 1
    <3>1. \A i \in 0..(n - 1) : i \in 0..e.index
      BY <1>3, <2>2
    <3>2. Full(chunks', t, s)
      BY <1>8, <3>1 DEF Full
    <3>3. QED
      BY <1>3, <1>4, <2>2, <3>2 DEF WritesDone
  <2>3. QED
    BY <1>4, <2>1, <2>2
<1>10. ASSUME NEW u \in Targets, u # t
       PROVE  \A x : x \in chunks' /\ x.target = u <=> x \in chunks /\ x.target = u
  BY <1>2, <1>5, <1>6, <1>10
<1>11. ASSUME t[2] # NoFile, NEW d, Findable(chunks, t, d) PROVE Findable(chunks', t, d)
  <2> DEFINE p == FilePrint(t[2])
  <2>1. s.print = p
    BY <1>3, <1>11 DEF ReadingOf
  <2>2. Full(chunks, t, [dir |-> d, print |-> p])
    BY <1>11 DEF Findable
  <2> HIDE DEF p
  <2>3. \A i \in 0..(Pieces(t, p) - 1) : Has(chunks, t, d, i, p)
    BY <2>2 DEF Full
  <2>4. \A i \in 0..(Pieces(t, p) - 1) : Has(chunks', t, d, i, p)
    <3> SUFFICES ASSUME NEW i \in 0..(Pieces(t, p) - 1) PROVE Has(chunks', t, d, i, p)
      OBVIOUS
    <3>1. PICK x \in chunks : x.target = t /\ x.dir = d /\ x.index = i /\ x.print = p /\ x.ready
      BY <2>3 DEF Has
    <3>2. CASE x \in rest
      BY <1>2, <3>1, <3>2 DEF Has
    <3>3. CASE x \notin rest
      BY <1>2, <1>5, <1>6, <2>1, <3>1, <3>3 DEF Has
    <3>4. QED
      BY <3>2, <3>3
  <2>5. Full(chunks', t, [dir |-> d, print |-> p])
    BY <2>4 DEF Full
  <2>6. QED
    BY <2>5 DEF Findable, p
<1>12. QED
  BY <1>1, <1>2, <1>4, <1>7, <1>9, <1>10, <1>11, WritingStep

LEMMA MarkStaleChunks ==
  ASSUME IInv, ChunkInv, NEW w \in Workers, MarkStale(w)
  PROVE  ChunkInv'
<1> DEFINE e == worker[w]
           t == Target(w)
           s == e.text
           n == Pieces(t, s.print)
           hit(c) == c.target = t /\ c.dir = s.dir /\ Outdated(c, s.print, n)
           off(c) == [c EXCEPT !.ready = FALSE]
           x == [e EXCEPT !.pc = "finish"]
           m == [x EXCEPT !.end = "DONE"]
<1>1. /\ e.pc = "stale" /\ e \in MemoryType /\ e.job \in JobIds /\ t \in Targets
      /\ t = jobs[e.job].target
      /\ \/ jobs[e.job].state = "deleted" /\ ~Exists(t)
         \/ jobs[e.job].state # "deleted" /\ WritesDone(chunks, dirs, t, e)
  BY JobInHand DEF MarkStale
<1>2. /\ chunks' = {IF hit(c) THEN off(c) ELSE c : c \in chunks} /\ Memory(w, m)
      /\ UNCHANGED <<content, uploads, jobs, shown, lost>>
  BY DEF MarkStale, PiecesOf
<1>3. x \in MemoryType /\ x.pc = "finish" /\ x.job = e.job /\ x.text = s
  BY <1>1 DEF MemoryType, Pcs
<1> HIDE DEF x
<1>4. m \in MemoryType /\ m.pc = "finish" /\ m.end = "DONE" /\ m.job = e.job /\ m.text = s
  BY <1>3 DEF MemoryType
<1>5. \A c \in chunks : /\ off(c).target = c.target /\ off(c).dir = c.dir /\ ~off(c).ready
                        /\ c \in Chunk
  BY DEF IInv, TypeOK, Chunk
<1> HIDE DEF m, off
<1>6. CASE jobs[e.job].state = "deleted" /\ ~Exists(t)
  <2>1. \A c \in chunks : c.target # t
    BY <1>6 DEF ChunkInv, ChunksStored
  <2>2. chunks' = chunks
    BY <1>2, <2>1
  <2>3. QED
    BY <1>1, <1>2, <1>4, <1>6, <2>2, MemoryChunks
<1>7. CASE jobs[e.job].state # "deleted" /\ WritesDone(chunks, dirs, t, e)
  <2>1. ReadingOf(t, s) /\ (s.dir \in dirs => Full(chunks, t, s))
    BY <1>1, <1>7 DEF WritesDone
  <2>2. n \in Nat \ {0}
    BY <2>1, PiecesPositive
  <2>3. \A c \in chunks : ~hit(c) => c \in chunks'
    BY <1>2
  <2>4. \A y \in chunks' : (y \in chunks /\ ~hit(y))
                           \/ \E c \in chunks : hit(c) /\ y = off(c)
    BY <1>2
  <2>5. ASSUME NEW d, NEW i \in 0..(n - 1), Has(chunks, t, d, i, s.print)
        PROVE  Has(chunks', t, d, i, s.print)
    <3>1. PICK c \in chunks : c.target = t /\ c.dir = d /\ c.index = i /\ c.print = s.print
                              /\ c.ready
      BY <2>5 DEF Has
    <3>2. ~hit(c)
      BY <2>2, <3>1 DEF Outdated
    <3>3. QED
      BY <2>3, <3>1, <3>2 DEF Has
  <2>6. s.dir \in dirs => Full(chunks', t, s)
    BY <2>1, <2>5 DEF Full
  <2>7. Pure(chunks', t, s)
    <3> SUFFICES ASSUME NEW y \in chunks', y.target = t, y.dir = s.dir, y.ready
                 PROVE  ~Outdated(y, s.print, n)
      BY DEF Pure
    <3>1. y \in chunks /\ ~hit(y)
      BY <1>5, <2>4
    <3>2. QED
      BY <3>1
  <2>8. WritesDone(chunks', dirs, t, m)
    BY <1>4, <2>1, <2>6, <2>7 DEF WritesDone
  <2>9. ASSUME NEW u \in Targets, u # t
        PROVE  \A y : y \in chunks' /\ y.target = u <=> y \in chunks /\ y.target = u
    <3>1. \A y \in chunks' : y.target = u => y \in chunks
      BY <1>5, <2>4, <2>9
    <3>2. \A y \in chunks : y.target = u => y \in chunks'
      BY <2>3, <2>9
    <3>3. QED
      BY <3>1, <3>2
  <2>10. ASSUME t[2] # NoFile, NEW d, Findable(chunks, t, d) PROVE Findable(chunks', t, d)
    <3> DEFINE p == FilePrint(t[2])
    <3>1. s.print = p
      BY <2>1, <2>10 DEF ReadingOf
    <3>2. Full(chunks, t, [dir |-> d, print |-> p])
      BY <2>10 DEF Findable
    <3> HIDE DEF p
    <3>3. Full(chunks', t, [dir |-> d, print |-> p])
      BY <2>5, <3>1, <3>2 DEF Full
    <3>4. QED
      BY <3>3 DEF Findable, p
  <2>11. \A y \in chunks' : y \in Chunk /\ y.dir \in dirs
    <3>1. \A y \in chunks' : y \in Chunk
      BY MarkStaleKeepsIInv DEF IInv, TypeOK
    <3>2. QED
      BY <1>5, <2>4, <3>1 DEF ChunkInv, ChunksStored
  <2>12. QED
    BY <1>1, <1>2, <1>4, <1>7, <2>8, <2>9, <2>10, <2>11, WritingStep
<1>8. QED
  BY <1>1, <1>6, <1>7

\* finishJob: what becomes of the row, and of the process.
LEMMA EndOfJob ==
  ASSUME IInv, ChunkInv, NEW w \in Workers, NEW state \in JobStates \ {"RUNNING"},
         NEW due \in BOOLEAN, worker[w].pc \notin {"idle", "next"},
         SetState(worker[w].job, state, due), NextJob(w)
  PROVE  LET k == worker[w].job IN
         /\ RowsStay
         /\ \A j \in JobIds :
              jobs'[j].state = IF j = k /\ jobs[k].state # "deleted" THEN state ELSE jobs[j].state
         /\ \A v \in Workers : (worker'[v] = worker[v] /\ v # w) \/ worker'[v].job = 0
<1> DEFINE k == worker[w].job
           x == [jobs EXCEPT ![k].state = state]
<1>1. k \in JobIds /\ jobs \in [JobIds -> Job]
      /\ (jobs[k].state = "deleted" \/ jobs[k].state = "RUNNING")
  BY JobInHand DEF IInv, TypeOK
<1>2. x \in [JobIds -> [state : {state} \cup JobStates \cup {"none", "deleted"},
                        target : Targets, attempts : Nat, due : BOOLEAN]]
      /\ \A j \in JobIds : /\ x[j].target = jobs[j].target
                           /\ x[j].state = IF j = k THEN state ELSE jobs[j].state
  BY <1>1 DEF Job
<1>3. jobs' = IF jobs[k].state = "deleted" THEN jobs ELSE [x EXCEPT ![k].due = due]
  BY DEF SetState
<1> HIDE DEF x
<1>4. \A j \in JobIds :
        /\ jobs'[j].target = jobs[j].target
        /\ jobs'[j].state = IF j = k /\ jobs[k].state # "deleted" THEN state ELSE jobs[j].state
  BY <1>1, <1>2, <1>3
<1>5. RowsStay
  BY <1>1, <1>4 DEF RowsStay, ActiveStates, JobStates
<1>6. \A v \in Workers : (worker'[v] = worker[v] /\ v # w) \/ worker'[v].job = 0
  <2>1. Memory(w, NextMemory(w)) /\ NextMemory(w) \in MemoryType /\ NextMemory(w).job = 0
    BY NextMemoryType DEF NextJob, NextMemory
  <2>2. QED
    BY <2>1, MemoryIs DEF IInv
<1>7. QED
  BY <1>4, <1>5, <1>6

LEMMA EndChunks ==
  ASSUME IInv, ChunkInv, NEW w \in Workers, FinishJob(w) \/ CatchFailure(w)
  PROVE  ChunkInv'
<1> DEFINE e == worker[w]
           k == e.job
           t == Target(w)
<1>1. /\ e.pc \in {"finish", "catch"} /\ e \in MemoryType /\ k \in JobIds
      /\ t = jobs[k].target /\ t \in Targets
      /\ \/ jobs[k].state = "deleted"
         \/ /\ jobs[k].state # "deleted" /\ Latest(t, k)
            /\ WritesDone(chunks, dirs, t, e)
  BY JobInHand DEF FinishJob, CatchFailure
<1>2. UNCHANGED <<content, uploads, chunks, lost>> /\ NextJob(w)
  BY DEF FinishJob, CatchFailure
<1>3. /\ \A r \in Resources : IsFiniteSet(files'[r])
      /\ \A u \in Targets : Exists(u) => Exists(u)'
  BY <1>2 DEF ChunkInv, FilesFinite, content, Exists
<1>4. CASE CatchFailure(w)
  <2>1. AfterFailure(jobs[k].attempts) \in JobStates \ {"RUNNING"}
        /\ AfterFailure(jobs[k].attempts) # "DONE"
    BY DEF AfterFailure, JobStates, ActiveStates
  <2>2. SetState(k, AfterFailure(jobs[k].attempts), FALSE) /\ UNCHANGED shown
    BY <1>4 DEF CatchFailure
  <2>3. /\ RowsStay
        /\ \A j \in JobIds : jobs'[j].state = "DONE" => jobs[j].state = "DONE"
        /\ \A v \in Workers : worker'[v] = worker[v] \/ worker'[v].job = 0
    BY <1>1, <1>2, <2>1, <2>2, EndOfJob
  <2>4. QED
    BY <1>2, <1>3, <2>2, <2>3, QuietChunks DEF content
<1>5. CASE FinishJob(w)
  <2>1. e.end \in {"DONE", "SKIPPED"} /\ e.pc = "finish"
    BY <1>1, <1>5 DEF IInv, HandsOK, HandOK, FinishJob, MemoryType
  <2>2. /\ SetState(k, e.end, TRUE)
        /\ shown' = IF e.end = "DONE" /\ jobs[k].state # "deleted"
                    THEN [shown EXCEPT ![t] = e.text] ELSE shown
    BY <1>5 DEF FinishJob
  <2>3. /\ RowsStay
        /\ \A j \in JobIds :
             jobs'[j].state = IF j = k /\ jobs[k].state # "deleted" THEN e.end ELSE jobs[j].state
        /\ \A v \in Workers : worker'[v] = worker[v] \/ worker'[v].job = 0
    BY <1>1, <1>2, <2>1, <2>2, EndOfJob DEF JobStates, ActiveStates
  <2>4. CASE e.end # "DONE" \/ jobs[k].state = "deleted"
    <3>1. UNCHANGED shown /\ \A j \in JobIds : jobs'[j].state = "DONE" => jobs[j].state = "DONE"
      BY <2>2, <2>3, <2>4
    <3>2. QED
      BY <1>2, <1>3, <2>3, <3>1, QuietChunks DEF content
  <2>5. CASE e.end = "DONE" /\ jobs[k].state # "deleted"
    <3>1. /\ ReadingOf(t, e.text) /\ Pure(chunks, t, e.text) /\ Latest(t, k)
          /\ e.text.dir \in dirs => Full(chunks, t, e.text)
      BY <1>1, <2>1, <2>5 DEF WritesDone
    <3>2. \A u \in Targets : shown'[u] = IF u = t THEN e.text ELSE shown[u]
      BY <2>2, <2>5 DEF IInv, TypeOK
    <3>3. IdsInOrder' /\ ActiveIsLatest'
          /\ \A u : \A j \in JobIds : Latest(u, j)' <=> Latest(u, j)
      BY <2>3, RowsStayInOrder
    <3>4. FilesFinite' /\ ChunksStored'
      BY <1>2 DEF ChunkInv, FilesFinite, ChunksStored, Exists, content
    <3>5. \A j \in JobIds : jobs'[j].target = jobs[j].target /\ jobs[j].target \in Targets
      BY <2>3 DEF RowsStay, IInv, TypeOK, Job
    <3>6. ProgressOK'
      <4> SUFFICES ASSUME NEW v \in Workers, worker'[v].job # 0,
                          jobs'[worker'[v].job].state # "deleted"
                   PROVE  WritesDone(chunks, dirs, jobs'[worker'[v].job].target, worker'[v])
        BY <1>2 DEF ProgressOK, Progress, Target, content
      <4>1. worker'[v] = worker[v] /\ worker[v].job \in JobIds
        BY <2>3 DEF IInv, TypeOK, MemoryType
      <4>2. jobs[worker[v].job].state # "deleted"
        BY <2>3, <4>1 DEF RowsStay
      <4>3. QED
        BY <3>5, <4>1, <4>2 DEF ChunkInv, ProgressOK, Progress, Target
    <3>7. DoneWhole'
      <4> SUFFICES ASSUME NEW j \in JobIds, NEW u, u = jobs[j].target, jobs'[j].state = "DONE",
                          Latest(u, j)'
                   PROVE  /\ ReadingOf(u, shown'[u]) /\ Pure(chunks, u, shown'[u])
                          /\ shown'[u].dir \in dirs => Full(chunks, u, shown'[u])
        BY <1>2, <3>5 DEF DoneWhole, content
      <4>1. u \in Targets /\ Latest(u, j)
        BY <3>3, <3>5
      <4>2. CASE j = k
        BY <1>1, <3>1, <3>2, <4>1, <4>2
      <4>3. CASE j # k
        <5>1. u # t
          BY <1>1, <3>1, <4>1, <4>3 DEF Latest, JobIds
        <5>2. jobs[j].state = "DONE"
          BY <2>3, <4>3
        <5>3. QED
          BY <3>2, <4>1, <5>1, <5>2 DEF ChunkInv, DoneWhole
      <4>4. QED
        BY <4>2, <4>3
    <3>8. DoneFindable'
      <4> SUFFICES ASSUME NEW j \in JobIds, NEW u, u = jobs[j].target, jobs'[j].state = "DONE",
                          u[2] # NoFile, shown'[u].dir \in dirs
                   PROVE  Findable(chunks, u, shown'[u].dir)
        BY <1>2, <3>5 DEF DoneFindable, content
      <4>1. CASE u = t
        <5>1. shown'[u] = e.text /\ e.text.print = FilePrint(u[2])
          BY <3>1, <3>2, <3>5, <4>1 DEF ReadingOf
        <5>2. QED
          BY <3>1, <4>1, <5>1 DEF Findable, Full
      <4>2. CASE u # t
        <5>1. shown'[u] = shown[u] /\ jobs[j].state = "DONE"
          BY <1>1, <2>3, <3>2, <3>5, <4>2
        <5>2. QED
          BY <5>1 DEF ChunkInv, DoneFindable
      <4>3. QED
        BY <4>1, <4>2
    <3>9. QED
      BY <3>3, <3>4, <3>6, <3>7, <3>8 DEF ChunkInv
  <2>6. QED
    BY <2>4, <2>5
<1>6. QED
  BY <1>4, <1>5

LEMMA ClaimChunks ==
  ASSUME IInv, ChunkInv, NEW w \in Workers, Claim(w)
  PROVE  ChunkInv'
<1> DEFINE due == {j \in JobIds : jobs[j].state = "PENDING" /\ jobs[j].due}
           mine == {j \in due : Cardinality({i \in due : i < j}) < Batch}
           m == [Resting EXCEPT !.pc = "next", !.batch = mine]
<1>1. mine \subseteq JobIds /\ \A j \in mine : jobs[j].state = "PENDING"
  OBVIOUS
<1>2. /\ jobs' = [j \in JobIds |-> IF j \in mine
                    THEN [jobs[j] EXCEPT !.state = "RUNNING", !.attempts = @ + 1]
                    ELSE jobs[j]]
      /\ Memory(w, m)
      /\ UNCHANGED <<content, uploads, chunks, shown, lost>>
  BY DEF Claim
<1> HIDE DEF mine, due
<1>3. m \in MemoryType /\ m.job = 0
  BY <1>1 DEF Resting, MemoryType, Pcs, NoText, Text, Prints
<1> HIDE DEF m
<1>4. \A v \in Workers : worker'[v] = worker[v] \/ worker'[v].job = 0
  BY <1>2, <1>3, MemoryIs DEF IInv
<1>5. \A j \in JobIds : /\ jobs'[j].target = jobs[j].target
                        /\ jobs'[j].state = IF j \in mine THEN "RUNNING" ELSE jobs[j].state
  BY <1>2, ClaimedRow DEF IInv, TypeOK
<1>6. RowsStay /\ \A j \in JobIds : jobs'[j].state = "DONE" => jobs[j].state = "DONE"
  BY <1>1, <1>5 DEF RowsStay, ActiveStates
<1>7. /\ \A r \in Resources : IsFiniteSet(files'[r])
      /\ \A t \in Targets : Exists(t) => Exists(t)'
  BY <1>2 DEF ChunkInv, FilesFinite, content, Exists
<1>8. QED
  BY <1>2, <1>4, <1>6, <1>7, QuietChunks DEF content

\* Every step of runOnce, and the death of a process.
LEMMA WorkerChunks ==
  ASSUME IInv, ChunkInv, NEW w \in Workers, Claim(w) \/ Work(w) \/ Crash(w)
  PROVE  ChunkInv'
  BY ClaimChunks, ReadingStarts, ReadBytesChunks, ReadDirectoryChunks, WriteChunkChunks,
     MarkStaleChunks, ThrowChunks, EndChunks, RestartChunks DEF Work

-----------------------------------------------------------------------------
(* The steps of the users and of the clock. *)

\* Nothing happens to the jobs, the chunks and the processes.
LEMMA ElsewhereChunks ==
  ASSUME IInv, ChunkInv, UNCHANGED <<dirs, chunks, worker, shown>>, RowsStay,
         \A j \in JobIds : jobs'[j].state = "DONE" => jobs[j].state = "DONE",
         \A r \in Resources : IsFiniteSet(files'[r]),
         \A t \in Targets : Exists(t) => Exists(t)'
  PROVE  ChunkInv'
<1>1. \A w \in Workers : worker'[w] = worker[w]
  OBVIOUS
<1>2. QED
  BY <1>1, QuietChunks

LEMMA BackoffChunks == ASSUME IInv, ChunkInv, NEW j \in JobIds, BackoffElapses(j) PROVE ChunkInv'
<1>1. /\ \A i \in JobIds : jobs'[i].target = jobs[i].target /\ jobs'[i].state = jobs[i].state
      /\ UNCHANGED <<content, uploads, chunks, worker, shown, lost>>
  BY DEF BackoffElapses, IInv, TypeOK, Job
<1>2. QED
  BY <1>1, ElsewhereChunks DEF RowsStay, ChunkInv, FilesFinite, content, Exists

LEMMA MoveChunks ==
  ASSUME IInv, ChunkInv, NEW r \in Resources, NEW d \in Dirs, MoveResource(r, d)
  PROVE  ChunkInv'
<1>1. /\ dirOf' = [dirOf EXCEPT ![r] = d] /\ d # NoDir
      /\ UNCHANGED <<dirs, files, uploads, jobs, chunks, worker, shown, lost>>
  BY QueueAssumption DEF MoveResource
<1>2. \A t \in Targets : Exists(t) => Exists(t)'
  BY <1>1 DEF Exists, Targets, IInv, TypeOK
<1>3. RowsStay /\ \A s \in Resources : IsFiniteSet(files'[s])
  BY <1>1 DEF RowsStay, ChunkInv, FilesFinite
<1>4. QED
  BY <1>1, <1>2, <1>3, ElsewhereChunks

LEMMA UploadChunks ==
  ASSUME IInv, ChunkInv, NEW f \in FileIds, NEW r \in Resources, Upload(f, r)
  PROVE  ChunkInv'
<1>1. /\ files' = [files EXCEPT ![r] = @ \cup {f}]
      /\ UNCHANGED <<dirs, dirOf, jobs, chunks, worker, shown, lost>>
  BY DEF Upload
<1>2. \A s \in Resources : files'[s] = files[s] \/ files'[s] = files[s] \cup {f}
  BY <1>1 DEF IInv, TypeOK
<1>3. ASSUME NEW s \in Resources PROVE IsFiniteSet(files'[s])
  <2>1. IsFiniteSet(files[s])
    BY DEF ChunkInv, FilesFinite
  <2>2. IsFiniteSet(files[s] \cup {f})
    BY <2>1, FS_AddElement
  <2>3. QED
    BY <1>2, <2>1, <2>2
<1>4. \A t \in Targets : Exists(t) => Exists(t)'
  BY <1>1, <1>2 DEF Exists, Targets
<1>5. QED
  BY <1>1, <1>3, <1>4, ElsewhereChunks DEF RowsStay

\* The new row is the youngest of all, and its target had no active one.
LEMMA EnqueueChunks ==
  ASSUME IInv, ChunkInv, NEW u \in Targets, Enqueue(u),
         UNCHANGED <<content, chunks, worker, shown>>
  PROVE  ChunkInv'
<1>1. /\ FilesFinite' /\ ChunksStored' /\ \A r \in Resources : IsFiniteSet(files'[r])
      /\ \A t : Exists(t)' <=> Exists(t)
  BY DEF ChunkInv, FilesFinite, ChunksStored, Exists, content
<1>2. CASE UNCHANGED jobs
  BY <1>1, <1>2, ElsewhereChunks DEF RowsStay, content
<1>3. CASE jobs' # jobs
  <2>1. PICK id \in JobIds : IsNextId(id) /\ jobs' = [jobs EXCEPT ![id] = NewJob(u)]
    BY <1>3 DEF Enqueue
  <2>2. ~ \E j \in JobIds : jobs[j].target = u /\ jobs[j].state \in ActiveStates
    BY <1>3 DEF Enqueue
  <2>3. /\ \A j \in JobIds : j # id => jobs'[j] = jobs[j]
        /\ jobs'[id].state = "PENDING" /\ jobs'[id].target = u
    BY <2>1 DEF IInv, TypeOK, NewJob
  <2>4. /\ jobs[id].state = "none"
        /\ \A j \in JobIds : jobs[j].state = "none" => id <= j
    BY <2>1 DEF IsNextId, Unused
  <2>5. \A j \in JobIds : j \in Int
    BY QueueAssumption DEF JobIds
  <2>6. \A j \in JobIds : jobs[j].state # "none" => j < id
    BY <2>4, <2>5 DEF ChunkInv, IdsInOrder
  <2>7. IdsInOrder'
    <3> SUFFICES ASSUME NEW i \in JobIds, NEW j \in JobIds, i < j, jobs'[j].state # "none"
                 PROVE  jobs'[i].state # "none"
      BY DEF IdsInOrder
    <3>1. CASE i = id
      BY <2>3, <3>1
    <3>2. CASE i # id
      BY <2>3, <2>4, <2>5, <3>2 DEF ChunkInv, IdsInOrder
    <3>3. QED
      BY <3>1, <3>2
  <2>8. ASSUME NEW j \in JobIds, NEW t, j # id, Latest(t, j)' PROVE Latest(t, j)
    BY <2>3, <2>4, <2>8 DEF Latest
  <2>9. ActiveIsLatest'
    <3> SUFFICES ASSUME NEW j \in JobIds, jobs'[j].state \in ActiveStates
                 PROVE  Latest(jobs[j].target, j)'
      BY DEF ActiveIsLatest
    <3>1. CASE j = id
      BY <2>3, <2>5, <2>6, <3>1 DEF Latest
    <3>2. CASE j # id
      <4>1. jobs'[j] = jobs[j] /\ jobs[j].target # u /\ Latest(jobs[j].target, j)
        BY <2>2, <2>3, <3>2 DEF ChunkInv, ActiveIsLatest
      <4>2. QED
        BY <2>3, <4>1 DEF Latest
    <3>3. QED
      BY <3>1, <3>2
  <2>10. DoneWhole' /\ DoneFindable'
    <3>1. \A j \in JobIds : jobs[j].state # "none" =>
            jobs'[j].target = jobs[j].target /\ jobs'[j].state # "none"
      BY <2>3, <2>4
    <3>2. \A j \in JobIds : jobs'[j].state = "DONE" => jobs[j].state = "DONE"
      BY <2>3
    <3>3. QED
      BY <3>1, <3>2, DoneStays DEF ChunkInv, content
  <2>11. ProgressOK'
    <3> SUFFICES ASSUME NEW w \in Workers, worker[w].job # 0,
                        jobs'[worker[w].job].state # "deleted"
                 PROVE  WritesDone(chunks, dirs, jobs'[worker[w].job].target, worker[w])
      BY DEF ProgressOK, Progress, Target, content
    <3>1. worker[w].job \in Holds(w)
      BY DEF Holds
    <3>2. worker[w].job \in JobIds /\ worker[w].job # id
      BY <2>4, <3>1, HeldJob
    <3>3. QED
      BY <2>3, <3>2 DEF ChunkInv, ProgressOK, Progress, Target
  <2>12. QED
    BY <1>1, <2>7, <2>9, <2>10, <2>11 DEF ChunkInv
<1>4. QED
  BY <1>2, <1>3

LEMMA EnqueueingChunks ==
  ASSUME IInv, ChunkInv,
         (\E f \in FileIds : EnqueueAfterUpload(f)) \/ (\E t \in Targets : Backfill(t))
  PROVE  ChunkInv'
<1>1. UNCHANGED <<content, chunks, worker, shown>>
  BY DEF EnqueueAfterUpload, Backfill
<1>2. CASE UNCHANGED jobs
  <2>1. /\ \A r \in Resources : IsFiniteSet(files'[r])
        /\ \A t \in Targets : Exists(t) => Exists(t)'
    BY <1>1 DEF ChunkInv, FilesFinite, Exists, content
  <2>2. QED
    BY <1>1, <1>2, <2>1, ElsewhereChunks DEF RowsStay, content
<1>3. CASE \E t \in Targets : Enqueue(t)
  BY <1>1, <1>3, EnqueueChunks
<1>4. QED
  <2>1. ASSUME NEW f \in FileIds, EnqueueAfterUpload(f)
        PROVE  UNCHANGED jobs \/ \E t \in Targets : Enqueue(t)
    <3> DEFINE t == <<uploads[f].res, IF uploads[f].pc = "meta" THEN NoFile ELSE f>>
    <3>1. t \in Targets
      BY DEF IInv, TypeOK, Targets
    <3>2. Enqueue(t) \/ UNCHANGED jobs
      BY <2>1 DEF EnqueueAfterUpload
    <3>3. QED
      BY <3>1, <3>2
  <2>2. QED
    BY <1>2, <1>3, <2>1 DEF Backfill

\* The chunks go with what they are about, and so do the jobs.
LEMMA CascadeChunks ==
  ASSUME IInv, ChunkInv, NEW gone \in SUBSET Targets, Cascade(gone),
         UNCHANGED <<dirs, worker, shown>>,
         \A r \in Resources : files'[r] \subseteq files[r],
         \A t \in Targets : Exists(t)' <=> Exists(t) /\ t \notin gone
  PROVE  ChunkInv'
<1>1. /\ \A j \in JobIds :
           /\ jobs'[j].target = jobs[j].target /\ jobs[j].target \in Targets
           /\ jobs'[j].state = IF jobs[j].target \in gone /\ jobs[j].state # "none"
                               THEN "deleted" ELSE jobs[j].state
      /\ chunks' = {c \in chunks : c.target \notin gone}
  BY DEF Cascade, IInv, TypeOK, Job
<1>2. RowsStay
  BY <1>1 DEF RowsStay, ActiveStates
<1>3. IdsInOrder' /\ ActiveIsLatest'
  BY <1>2, RowsStayInOrder
<1>4. FilesFinite'
  BY FS_Subset DEF ChunkInv, FilesFinite
<1>5. ChunksStored'
  BY <1>1 DEF ChunkInv, ChunksStored, IInv, TypeOK, Chunk
<1>6. \A t : t \notin gone => \A c : c \in chunks' /\ c.target = t <=> c \in chunks /\ c.target = t
  BY <1>1
<1>7. DoneWhole' /\ DoneFindable'
  BY <1>1, <1>2, <1>6, DoneStays DEF ChunkInv, RowsStay
<1>8. ProgressOK'
  <2> SUFFICES ASSUME NEW w \in Workers, worker[w].job # 0,
                      jobs'[worker[w].job].state # "deleted"
               PROVE  WritesDone(chunks', dirs, jobs'[worker[w].job].target, worker[w])
    BY DEF ProgressOK, Progress, Target
  <2> DEFINE t == jobs[worker[w].job].target
  <2>1. worker[w].job \in JobIds /\ jobs[worker[w].job].state # "none"
    BY HeldJob DEF Holds
  <2>2. t \notin gone /\ jobs[worker[w].job].state # "deleted" /\ jobs'[worker[w].job].target = t
    BY <1>1, <2>1
  <2>3. WritesDone(chunks, dirs, t, worker[w])
    BY <2>2 DEF ChunkInv, ProgressOK, Progress, Target
  <2>4. \A m : WritesDone(chunks, dirs, t, m) <=> WritesDone(chunks', dirs, t, m)
    BY <1>6, <2>2, SameChunks
  <2>5. QED
    BY <2>2, <2>3, <2>4
<1>9. QED
  BY <1>3, <1>4, <1>5, <1>7, <1>8 DEF ChunkInv

LEMMA RemoveChunks ==
  ASSUME IInv, ChunkInv, NEW r \in Resources, NEW f \in FileIds, RemoveFile(r, f)
  PROVE  ChunkInv'
<1>1. /\ dirOf' = dirOf /\ files' = [files EXCEPT ![r] = @ \ {f}]
      /\ Cascade({<<r, f>>}) /\ UNCHANGED <<dirs, uploads, worker, shown, lost>>
  BY DEF RemoveFile
<1>2. \A s \in Resources : files'[s] = IF s = r THEN files[r] \ {f} ELSE files[s]
  BY <1>1 DEF IInv, TypeOK
<1>3. \A t \in Targets : Exists(t)' <=> Exists(t) /\ t \notin {<<r, f>>}
  <2> SUFFICES ASSUME NEW a \in Resources, NEW b \in FileIds \cup {NoFile}
               PROVE  Exists(<<a, b>>)' <=> Exists(<<a, b>>) /\ <<a, b>> \notin {<<r, f>>}
    BY DEF Targets
  <2>1. QED
    BY <1>1, <1>2, QueueAssumption DEF Exists
<1>4. {<<r, f>>} \in SUBSET Targets /\ \A s \in Resources : files'[s] \subseteq files[s]
  BY <1>2 DEF Targets
<1>5. QED
  BY <1>1, <1>3, <1>4, CascadeChunks

LEMMA PurgeChunks ==
  ASSUME IInv, ChunkInv, NEW r \in Resources, PurgeResource(r)
  PROVE  ChunkInv'
<1> DEFINE gone == {t \in Targets : t[1] = r}
<1>1. /\ dirOf' = [dirOf EXCEPT ![r] = NoDir] /\ files' = [files EXCEPT ![r] = {}]
      /\ Cascade(gone) /\ UNCHANGED <<dirs, uploads, worker, shown, lost>>
  BY DEF PurgeResource
<1>2. \A s \in Resources : /\ files'[s] = IF s = r THEN {} ELSE files[s]
                           /\ dirOf'[s] = IF s = r THEN NoDir ELSE dirOf[s]
  BY <1>1 DEF IInv, TypeOK
<1>3. \A t \in Targets : Exists(t)' <=> Exists(t) /\ t \notin gone
  BY <1>2 DEF Exists, Targets
<1>4. gone \in SUBSET Targets /\ \A s \in Resources : files'[s] \subseteq files[s]
  BY <1>2
<1> HIDE DEF gone
<1>5. QED
  BY <1>1, <1>3, <1>4, CascadeChunks

\* With a directory go the chunks made in it, whatever has become of their
\* resource, and nothing else.
LEMMA RemoveDirectoryChunks ==
  ASSUME IInv, ChunkInv, NEW d \in Dirs, RemoveDirectory(d)
  PROVE  ChunkInv'
<1>1. /\ chunks' = {c \in chunks : c.dir # d} /\ dirs' = dirs \ {d}
      /\ UNCHANGED <<dirOf, files, uploads, jobs, worker, shown, lost>>
  BY DEF RemoveDirectory, CascadeDirectory
<1>2. RowsStay
  BY <1>1 DEF RowsStay
<1>3. /\ IdsInOrder' /\ ActiveIsLatest'
      /\ \A t : \A j \in JobIds : Latest(t, j)' <=> Latest(t, j)
  BY <1>2, RowsStayInOrder
<1>4. FilesFinite' /\ ChunksStored'
  BY <1>1 DEF ChunkInv, FilesFinite, ChunksStored, Exists
<1>5. \A t, i, p : \A e \in dirs' : Has(chunks, t, e, i, p) => Has(chunks', t, e, i, p)
  BY <1>1 DEF Has
<1>6. \A t, s : s.dir \in dirs' /\ Full(chunks, t, s) => Full(chunks', t, s)
  BY <1>5 DEF Full
<1>7. \A t, s : Pure(chunks, t, s) => Pure(chunks', t, s)
  BY <1>1 DEF Pure
<1>8. \A t, m : WritesDone(chunks, dirs, t, m) => WritesDone(chunks', dirs', t, m)
  BY <1>1, <1>5, <1>6, <1>7 DEF WritesDone
<1>9. ProgressOK'
  BY <1>1, <1>8 DEF ChunkInv, ProgressOK, Progress, Target
<1>10. DoneWhole'
  BY <1>1, <1>3, <1>6, <1>7 DEF ChunkInv, DoneWhole
<1>11. DoneFindable'
  <2>1. \A t : \A e \in dirs' : Findable(chunks, t, e) => Findable(chunks', t, e)
    BY <1>5 DEF Findable, Full
  <2>2. QED
    BY <1>1, <2>1 DEF ChunkInv, DoneFindable
<1>12. QED
  BY <1>3, <1>4, <1>9, <1>10, <1>11 DEF ChunkInv

-----------------------------------------------------------------------------
(* The theorems about the chunks. *)

LEMMA InitChunkInv == Init => ChunkInv
<1> SUFFICES ASSUME Init PROVE ChunkInv
  OBVIOUS
<1>1. FilesFinite
  BY FS_EmptySet DEF Init, FilesFinite
<1>2. \A j \in JobIds : jobs[j].state = "none"
  BY DEF Init
<1>3. \A w \in Workers : worker[w].job = 0
  BY RestingType DEF Init
<1>4. QED
  BY <1>1, <1>2, <1>3 DEF Init, ChunkInv, IdsInOrder, ActiveIsLatest, ActiveStates, ChunksStored,
     ProgressOK, Progress, DoneWhole, DoneFindable

LEMMA NextChunkInv == IInv /\ ChunkInv /\ [Next]_vars => ChunkInv'
<1> SUFFICES ASSUME IInv, ChunkInv, [Next]_vars PROVE ChunkInv'
  OBVIOUS
<1>1. CASE UNCHANGED vars
  BY <1>1, ElsewhereChunks
  DEF vars, content, RowsStay, ChunkInv, FilesFinite, Exists
<1>2. CASE Users
  BY <1>2, EnqueueingChunks, UploadChunks, MoveChunks, RemoveChunks, PurgeChunks,
     RemoveDirectoryChunks DEF Users
<1>3. ASSUME NEW w \in Workers, Claim(w) \/ Work(w) \/ Crash(w) PROVE ChunkInv'
  BY <1>3, WorkerChunks
<1>4. ASSUME NEW j \in JobIds, BackoffElapses(j) PROVE ChunkInv'
  BY <1>4, BackoffChunks
<1>5. QED
  BY <1>1, <1>2, <1>3, <1>4 DEF Next

THEOREM ChunkInvariant == Spec => [](IInv /\ ChunkInv)
  BY InitIInv, NextIInv, InitChunkInv, NextChunkInv, PTL DEF Spec

LEMMA WholeFromInv == IInv /\ ChunkInv => DoneIsWhole
<1> SUFFICES ASSUME IInv, ChunkInv, NEW j \in JobIds, NEW t, t = jobs[j].target,
                    NEW s, s = shown[t], Latest(t, j), jobs[j].state = "DONE"
             PROVE  {<<c.index, c.print>> :
                       c \in {x \in chunks : x.target = t /\ x.dir = s.dir /\ x.ready}}
                    = IF s.dir \in dirs
                      THEN {<<i, s.print>> : i \in 0..(Pieces(t, s.print) - 1)} ELSE {}
  BY DEF DoneIsWhole
<1>1. ReadingOf(t, s) /\ Pure(chunks, t, s) /\ (s.dir \in dirs => Full(chunks, t, s))
  BY DEF ChunkInv, DoneWhole
<1>2. CASE s.dir \notin dirs
  BY <1>2 DEF ChunkInv, ChunksStored
<1>3. CASE s.dir \in dirs
  <2>1. Pieces(t, s.print) \in Nat \ {0}
    BY <1>1, PiecesPositive
  <2>2. ASSUME NEW c \in chunks, c.target = t, c.dir = s.dir, c.ready
        PROVE  c.print = s.print /\ c.index \in 0..(Pieces(t, s.print) - 1)
    <3>1. c.index \in Nat
      BY DEF IInv, TypeOK, Chunk
    <3>2. ~Outdated(c, s.print, Pieces(t, s.print))
      BY <1>1, <2>2 DEF Pure
    <3>3. QED
      BY <2>1, <3>1, <3>2 DEF Outdated
  <2>3. ASSUME NEW i \in 0..(Pieces(t, s.print) - 1)
        PROVE  \E c \in {x \in chunks : x.target = t /\ x.dir = s.dir /\ x.ready} :
                 c.index = i /\ c.print = s.print
    BY <1>1, <1>3 DEF Full, Has
  <2>4. QED
    BY <1>3, <2>2, <2>3
<1>4. QED
  BY <1>2, <1>3

LEMMA FindableFromInv == IInv /\ ChunkInv => OnceDoneStaysFindable
<1> SUFFICES ASSUME IInv, ChunkInv, NEW r \in Resources, NEW f \in files[r],
                    NEW j \in JobIds, jobs[j].target = <<r, f>>, jobs[j].state = "DONE",
                    shown[<<r, f>>].dir \in dirs
             PROVE  FoundWhole(r, f)
  BY DEF OnceDoneStaysFindable, OnceDone
<1>1. f # NoFile /\ shown[<<r, f>>].dir \in Dirs
  BY QueueAssumption DEF IInv, TypeOK
<1>2. Findable(chunks, <<r, f>>, shown[<<r, f>>].dir)
  BY <1>1 DEF ChunkInv, DoneFindable
<1>3. QED
  BY <1>1, <1>2 DEF Findable, Full, Has, FoundWhole

\* Whatever was indexed before, failed or crashed meanwhile, was moved or is
\* enqueued again: a target whose youngest job is DONE shows one whole reading
\* of its source in the directory it was indexed for, and nothing besides; if
\* that directory was removed, it shows nothing there.
THEOREM DoneShowsOneReading == Spec => []DoneIsWhole
  BY ChunkInvariant, WholeFromInv, PTL

\* A file that was indexed once can be found as long as it is stored and the
\* directory it was last indexed in is not removed: no failure, crash, move or
\* later attempt takes it out.
THEOREM IndexedStaysFindable == Spec => []OnceDoneStaysFindable
  BY ChunkInvariant, FindableFromInv, PTL
=============================================================================
