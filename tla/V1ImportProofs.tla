----------------------------- MODULE V1ImportProofs -----------------------------
(***************************************************************************)
(* Theorems about V1Import, for any number of resources, grants and        *)
(* operators: what the tables, the map and the runs in flight know of each *)
(* other however runs overlap, are cut off and are repeated.               *)
(*                                                                         *)
(* None of the properties is inductive: they speak of what is committed,   *)
(* and a commit brings what a run has collected over many statements.  So  *)
(* the invariant says what a run may hold: rows that nobody else has, that *)
(* it is about to note or has noted, notes that are backed by a row, and,  *)
(* as long as no two runs have met at an item, items that only it has in   *)
(* hand and that nobody has noted.                                         *)
(***************************************************************************)
EXTENDS V1Import, TLAPS

\* Run n is about to bring x over, or has done so and not ended.
InHand(n, x) == run[n].at = x \/ x \in run[n].notes

\* Where a run stands: it is at an item that is looked up between the lookup and
\* the note, at a file if it reads bytes, and has nothing when it rests.
RunOK(m) ==
  /\ m.pc = "idle" => m = Idle
  /\ m.pc \in {"idle", "look"} => m.at = NoItem
  /\ m.pc \in {"read", "write", "note"} => m.at \in Items /\ KindOf(m.at) # "resource"
  /\ m.pc = "read" => KindOf(m.at) = "file"
RunsOK == \A n \in Runs : RunOK(run[n])

\* The keys of V2 among runs: what one has inserted is not there yet, and no other
\* has inserted it.
RowsAreNew ==
  \A n \in Runs : \A x \in run[n].rows :
    KindOf(x) # "file" => count[x] = 0 /\ ~RowTaken(n, x)

\* The foreign keys among runs.
ParentsSeen ==
  \A n \in Runs : \A x \in run[n].rows : HasParent(x) => Sees(n, Parent(x))

\* The key of the map among runs.
NotesAreNew ==
  \A n \in Runs : \A x \in run[n].notes : x \notin map /\ ~NoteTaken(n, x)

\* Rows come with notes ...
RowsAreNoted ==
  /\ \A n \in Runs : \A x \in run[n].rows : run[n].at = x \/ Noted(n, x)
  /\ \A x \in Items : count[x] > 0 /\ KindOf(x) # "grant" => x \in map

\* ... and notes with rows, unless the bytes are missing or another run has noted it.
NotesAreBacked ==
  \A n \in Runs :
    /\ run[n].notes \subseteq run[n].rows \cup run[n].lost
    /\ run[n].pc = "note" => run[n].at \in run[n].rows \cup run[n].lost \cup map

\* What no two runs have met at, one run has in hand and nobody has noted.
HandsApart ==
  \A x \in Items \ raced : KindOf(x) # "resource" =>
    /\ \A n \in Runs : InHand(n, x) => x \notin map /\ \A o \in Runs \ {n} : ~InHand(o, x)
    /\ \A n \in Runs : x \in run[n].rows => InHand(n, x)

\* The inductive invariant.
ImportInv ==
  /\ TypeOK /\ RunsOK
  /\ RowsAreNew /\ ParentsSeen /\ NotesAreNew /\ RowsAreNoted /\ NotesAreBacked
  /\ HandsApart
  /\ removed \subseteq map
  /\ CopiedOnce /\ AdminsWorkStands /\ NothingLost

-----------------------------------------------------------------------------
(* Items and runs. *)

RunType == [pc : {"idle", "look", "read", "write", "note"}, todo : SUBSET Items,
            at : Items \cup {NoItem}, rows : SUBSET Items,
            notes : SUBSET Items, lost : SUBSET Items]

\* Parents are resources, and these have none.
LEMMA ItemKinds ==
  /\ NoItem \notin Items
  /\ \A x \in Items : KindOf(x) \in Kinds
  /\ \A x \in Items : HasParent(x) =>
       Parent(x) \in Items /\ KindOf(Parent(x)) = "resource"
  /\ \A x \in Items : HasParent(x) <=> KindOf(x) \in {"review", "file"}
  /\ \A x \in Items : KindOf(x) = "resource" => ~HasParent(x)
BY ImportAssumption DEF Items, Kinds, KindOf, HasParent, Parent

LEMMA IdleRun == Idle \in RunType /\ RunOK(Idle)
BY DEF Idle, RunType, RunOK

\* What it takes for a statement of run n, which changes no table, to keep the
\* invariant: m is what n remembers after it.
LEMMA StatementOfRun ==
  ASSUME ImportInv, NEW n \in Runs, NEW m,
         run' = [run EXCEPT ![n] = m], m \in RunType, RunOK(m),
         UNCHANGED <<source, tables, removed, missing>>,
         raced \subseteq raced', raced' \subseteq Items,
         \A x \in m.rows \ run[n].rows :
           KindOf(x) # "file" => count[x] = 0 /\ ~RowTaken(n, x),
         \A x \in m.rows : HasParent(x) => count[Parent(x)] > 0 \/ Parent(x) \in m.rows,
         \A x \in m.notes \ run[n].notes : x \notin map /\ ~NoteTaken(n, x),
         \A x \in m.rows : m.at = x \/ x \in map \cup m.notes,
         m.notes \subseteq m.rows \cup m.lost,
         m.pc = "note" => m.at \in m.rows \cup m.lost \cup map,
         \A x \in Items \ raced' : KindOf(x) # "resource" =>
           /\ m.at = x \/ x \in m.notes =>
                \/ InHand(n, x)
                \/ x \notin map /\ \A o \in Runs \ {n} : ~InHand(o, x)
           /\ x \in m.rows => m.at = x \/ x \in m.notes
  PROVE  ImportInv'
<1> USE DEF ImportInv, tables
<1>1. run'[n] = m /\ \A o \in Runs \ {n} : run'[o] = run[o]
  BY DEF TypeOK
<1>2. TypeOK'
  BY DEF TypeOK, RunType
<1>3. RunsOK'
  BY <1>1 DEF RunsOK
<1>4. RowsAreNew'
  BY <1>1 DEF RowsAreNew, RowTaken
<1>5. ParentsSeen'
  BY <1>1 DEF ParentsSeen, Sees
<1>6. NotesAreNew'
  BY <1>1 DEF NotesAreNew, NoteTaken
<1>7. RowsAreNoted'
  BY <1>1 DEF RowsAreNoted, Noted
<1>8. NotesAreBacked'
  BY <1>1 DEF NotesAreBacked
<1>9. HandsApart'
  BY <1>1 DEF HandsApart, InHand
<1>10. CopiedOnce' /\ AdminsWorkStands' /\ NothingLost' /\ (removed \subseteq map)'
  BY DEF CopiedOnce, AdminsWorkStands, NothingLost
<1> QED BY <1>2, <1>3, <1>4, <1>5, <1>6, <1>7, <1>8, <1>9, <1>10

-----------------------------------------------------------------------------
(* The statements of a run. *)

LEMMA StartKeeps == ASSUME ImportInv, NEW n \in Runs, Start(n) PROVE ImportInv'
<1> DEFINE m == [Idle EXCEPT !.pc = "look", !.todo = source]
<1>1. /\ m \in RunType /\ RunOK(m) /\ m.at = NoItem
      /\ m.pc = "look" /\ m.rows = {} /\ m.notes = {}
  BY DEF Idle, RunType, RunOK, ImportInv, TypeOK
<1>2. run' = [run EXCEPT ![n] = m] /\ UNCHANGED <<source, tables, removed, missing, raced>>
  BY DEF Start
<1> HIDE DEF m
<1> QED BY <1>1, <1>2, StatementOfRun, ItemKinds DEF ImportInv, TypeOK

LEMMA ImportResourceKeeps ==
  ASSUME ImportInv, NEW n \in Runs, NEW x \in Items, ImportResource(n, x) PROVE ImportInv'
<1> DEFINE m == [run[n] EXCEPT !.todo = @ \ {x},
                               !.rows = IF Sees(n, x) THEN @ ELSE @ \cup {x},
                               !.notes = IF Noted(n, x) THEN @ ELSE @ \cup {x}]
<1>1. /\ run[n] \in RunType /\ RunOK(run[n]) /\ run[n].pc = "look" /\ run[n].at = NoItem
      /\ KindOf(x) = "resource" /\ ~RowTaken(n, x) /\ ~NoteTaken(n, x)
  BY DEF ImportResource, ImportInv, TypeOK, RunType, RunsOK, RunOK
<1>2. /\ m \in RunType /\ m.at = NoItem /\ m.pc = "look" /\ m.lost = run[n].lost
      /\ m.rows = IF Sees(n, x) THEN run[n].rows ELSE run[n].rows \cup {x}
      /\ m.notes = IF Noted(n, x) THEN run[n].notes ELSE run[n].notes \cup {x}
  BY <1>1 DEF RunType
<1>3. run' = [run EXCEPT ![n] = m] /\ UNCHANGED <<source, tables, removed, missing, raced>>
  BY DEF ImportResource, ImportInv, TypeOK
<1> HIDE DEF m
<1>4. RunOK(m)
  BY <1>2 DEF RunOK
<1>5. \A y \in m.rows \ run[n].rows : KindOf(y) # "file" => count[y] = 0 /\ ~RowTaken(n, y)
  BY <1>1, <1>2 DEF Sees, ImportInv, TypeOK
<1>6. \A y \in m.rows : HasParent(y) => count[Parent(y)] > 0 \/ Parent(y) \in m.rows
  BY <1>1, <1>2, ItemKinds DEF ImportInv, ParentsSeen, Sees
<1>7. \A y \in m.notes \ run[n].notes : y \notin map /\ ~NoteTaken(n, y)
  BY <1>1, <1>2 DEF Noted
<1>8. \A y \in m.rows : m.at = y \/ y \in map \cup m.notes
  BY <1>1, <1>2, ItemKinds DEF ImportInv, RowsAreNoted, Noted, RunType
<1>9. m.notes \subseteq m.rows \cup m.lost
  BY <1>1, <1>2 DEF ImportInv, NotesAreBacked, RowsAreNoted, Noted, Sees
<1>10. \A y \in Items \ raced : KindOf(y) # "resource" =>
         /\ m.at = y \/ y \in m.notes => InHand(n, y)
         /\ y \in m.rows => m.at = y \/ y \in m.notes
  BY <1>1, <1>2, ItemKinds DEF ImportInv, HandsApart, InHand
<1> QED BY <1>2, <1>3, <1>4, <1>5, <1>6, <1>7, <1>8, <1>9, <1>10, StatementOfRun DEF ImportInv, TypeOK

LEMMA LookKeeps ==
  ASSUME ImportInv, NEW n \in Runs, NEW x \in Items, Look(n, x) PROVE ImportInv'
<1>1. /\ run[n] \in RunType /\ RunOK(run[n]) /\ run[n].pc = "look" /\ run[n].at = NoItem
      /\ KindOf(x) # "resource"
      /\ raced \subseteq raced' /\ raced' \subseteq Items
      /\ UNCHANGED <<source, tables, removed, missing>>
  BY DEF Look, ImportInv, TypeOK, RunType, RunsOK, RunOK
<1>2. /\ \A y \in run[n].rows : HasParent(y) => count[Parent(y)] > 0 \/ Parent(y) \in run[n].rows
      /\ \A y \in run[n].rows : y \in map \cup run[n].notes
      /\ run[n].notes \subseteq run[n].rows \cup run[n].lost
      /\ \A y \in Items \ raced : KindOf(y) # "resource" /\ y \in run[n].rows => y \in run[n].notes
  BY <1>1, ItemKinds DEF RunType, ImportInv, ParentsSeen, Sees, RowsAreNoted, Noted,
                         NotesAreBacked, HandsApart, InHand
<1>3. CASE run' = [run EXCEPT ![n].todo = @ \ {x}]
  <2> DEFINE m == [run[n] EXCEPT !.todo = @ \ {x}]
  <2>1. /\ m \in RunType /\ m.at = NoItem /\ m.pc = "look" /\ m.lost = run[n].lost
        /\ m.rows = run[n].rows /\ m.notes = run[n].notes
    BY <1>1 DEF RunType
  <2>2. run' = [run EXCEPT ![n] = m]
    BY <1>3 DEF ImportInv, TypeOK
  <2> HIDE DEF m
  <2> QED BY <1>1, <1>2, <2>1, <2>2, StatementOfRun, ItemKinds DEF RunOK, InHand
<1>4. CASE ~Noted(n, x) /\ \E pc \in {"read", "write"} :
             /\ pc = "read" => KindOf(x) = "file"
             /\ run' = [run EXCEPT ![n].pc = pc, ![n].at = x]
  <2> PICK pc \in {"read", "write"} : /\ pc = "read" => KindOf(x) = "file"
                                     /\ run' = [run EXCEPT ![n].pc = pc, ![n].at = x]
    BY <1>4
  <2> DEFINE m == [run[n] EXCEPT !.pc = pc, !.at = x]
  <2>1. /\ m \in RunType /\ m.at = x /\ m.pc = pc /\ m.lost = run[n].lost
        /\ m.rows = run[n].rows /\ m.notes = run[n].notes
    BY <1>1 DEF RunType
  <2>2. run' = [run EXCEPT ![n] = m]
    BY DEF ImportInv, TypeOK
  <2>3. x \notin raced' => \A o \in Runs \ {n} : ~InHand(o, x)
    BY DEF Look, InHand
  <2>4. x \notin map
    BY <1>4 DEF Noted
  <2> HIDE DEF m
  <2>5. RunOK(m)
    BY <1>1, <2>1 DEF RunOK
  <2>6. \A y \in Items \ raced' : KindOf(y) # "resource" =>
           /\ m.at = y \/ y \in m.notes =>
                InHand(n, y) \/ (y \notin map /\ \A o \in Runs \ {n} : ~InHand(o, y))
           /\ y \in m.rows => m.at = y \/ y \in m.notes
    BY <1>1, <1>2, <2>1, <2>3, <2>4 DEF InHand
  <2> QED BY <1>1, <1>2, <2>1, <2>2, <2>5, <2>6, StatementOfRun
<1> QED BY <1>3, <1>4 DEF Look

LEMMA ReadBytesKeeps == ASSUME ImportInv, NEW n \in Runs, ReadBytes(n) PROVE ImportInv'
<1>1. /\ run[n] \in RunType /\ RunOK(run[n]) /\ run[n].pc = "read"
      /\ run[n].at \in Items /\ KindOf(run[n].at) = "file"
      /\ UNCHANGED <<source, tables, removed, missing, raced>> /\ raced \subseteq Items
  BY DEF ReadBytes, ImportInv, TypeOK, RunType, RunsOK, RunOK
<1>2. PICK pc \in {"write", "note"}, lost \in {run[n].lost, run[n].lost \cup {run[n].at}} :
        /\ pc = "note" => lost = run[n].lost \cup {run[n].at}
        /\ run' = [run EXCEPT ![n] = [run[n] EXCEPT !.pc = pc, !.lost = lost]]
  <2>1. CASE run' = [run EXCEPT ![n].pc = "write"]
    <3>1. run' = [run EXCEPT ![n] = [run[n] EXCEPT !.pc = "write", !.lost = run[n].lost]]
      BY <2>1, <1>1 DEF RunType, ImportInv, TypeOK
    <3> QED BY <3>1
  <2>2. CASE run' = [run EXCEPT ![n].pc = "note", ![n].lost = @ \cup {run[n].at}]
    <3>1. run' = [run EXCEPT ![n] = [run[n] EXCEPT !.pc = "note",
                                                  !.lost = run[n].lost \cup {run[n].at}]]
      BY <2>2, <1>1 DEF RunType, ImportInv, TypeOK
    <3> QED BY <3>1
  <2> QED BY <2>1, <2>2 DEF ReadBytes
<1> DEFINE m == [run[n] EXCEPT !.pc = pc, !.lost = lost]
<1>3. /\ m \in RunType /\ m.at = run[n].at /\ m.pc = pc /\ m.lost = lost
      /\ m.rows = run[n].rows /\ m.notes = run[n].notes
  BY <1>1 DEF RunType
<1>4. run' = [run EXCEPT ![n] = m]
  BY <1>2
<1> HIDE DEF m
<1>5. RunOK(m)
  BY <1>1, <1>3 DEF RunOK
<1>6. /\ \A y \in m.rows : HasParent(y) => count[Parent(y)] > 0 \/ Parent(y) \in m.rows
      /\ \A y \in m.rows : m.at = y \/ y \in map \cup m.notes
      /\ m.notes \subseteq m.rows \cup m.lost
      /\ m.pc = "note" => m.at \in m.rows \cup m.lost \cup map
  BY <1>1, <1>2, <1>3 DEF ImportInv, ParentsSeen, Sees, RowsAreNoted, Noted, NotesAreBacked
<1>7. \A y \in Items \ raced : KindOf(y) # "resource" =>
        /\ m.at = y \/ y \in m.notes => InHand(n, y)
        /\ y \in m.rows => m.at = y \/ y \in m.notes
  BY <1>3 DEF ImportInv, HandsApart, InHand
<1> QED BY <1>1, <1>3, <1>4, <1>5, <1>6, <1>7, StatementOfRun

LEMMA WriteKeeps == ASSUME ImportInv, NEW n \in Runs, Write(n) PROVE ImportInv'
<1> DEFINE x == run[n].at
           rows == IF KindOf(x) = "review" /\ Sees(n, x) THEN run[n].rows ELSE run[n].rows \cup {x}
           m == [run[n] EXCEPT !.pc = "note", !.rows = rows]
<1>1. /\ run[n] \in RunType /\ RunOK(run[n]) /\ run[n].pc = "write"
      /\ x \in Items /\ KindOf(x) # "resource"
      /\ KindOf(x) # "file" => ~RowTaken(n, x)
      /\ ~Conflict(n, x) /\ ~Orphaned(n, x)
      /\ UNCHANGED <<source, tables, removed, missing, raced>> /\ raced \subseteq Items
  BY DEF Write, ImportInv, TypeOK, RunType, RunsOK, RunOK
<1>2. /\ m \in RunType /\ m.at = x /\ m.pc = "note" /\ m.lost = run[n].lost
      /\ m.rows = rows /\ m.notes = run[n].notes
  BY <1>1 DEF RunType
<1>3. run' = [run EXCEPT ![n] = m]
  BY DEF Write, ImportInv, TypeOK
<1> HIDE DEF m
<1>4. RunOK(m)
  BY <1>1, <1>2 DEF RunOK
<1>5. \A y \in m.rows \ run[n].rows : KindOf(y) # "file" => count[y] = 0 /\ ~RowTaken(n, y)
  <2>1. KindOf(x) \in {"review", "grant", "file"} /\ count[x] \in Nat
    BY <1>1, ItemKinds DEF Kinds, ImportInv, TypeOK
  <2> QED BY <1>1, <1>2, <2>1 DEF Conflict, Sees
<1>6. \A y \in m.rows : HasParent(y) => count[Parent(y)] > 0 \/ Parent(y) \in m.rows
  BY <1>1, <1>2 DEF ImportInv, ParentsSeen, Sees, Orphaned
<1>7. \A y \in m.rows : m.at = y \/ y \in map \cup m.notes
  BY <1>1, <1>2 DEF ImportInv, RowsAreNoted, Noted
<1>8. /\ m.notes \subseteq m.rows \cup m.lost
      /\ m.at \in m.rows \cup m.lost \cup map
  BY <1>1, <1>2 DEF ImportInv, NotesAreBacked, RowsAreNoted, Sees
<1>9. \A y \in Items \ raced : KindOf(y) # "resource" =>
        /\ m.at = y \/ y \in m.notes => InHand(n, y)
        /\ y \in m.rows => m.at = y \/ y \in m.notes
  BY <1>2 DEF ImportInv, HandsApart, InHand
<1> QED BY <1>1, <1>2, <1>3, <1>4, <1>5, <1>6, <1>7, <1>8, <1>9, StatementOfRun

LEMMA NoteKeeps == ASSUME ImportInv, NEW n \in Runs, Note(n) PROVE ImportInv'
<1> DEFINE x == run[n].at
           notes == IF Noted(n, x) THEN run[n].notes ELSE run[n].notes \cup {x}
           m == [run[n] EXCEPT !.pc = "look", !.at = NoItem, !.todo = @ \ {x}, !.notes = notes]
<1>1. /\ run[n] \in RunType /\ RunOK(run[n]) /\ run[n].pc = "note"
      /\ x \in Items /\ KindOf(x) # "resource" /\ ~NoteTaken(n, x)
      /\ UNCHANGED <<source, tables, removed, missing, raced>> /\ raced \subseteq Items
  BY DEF Note, ImportInv, TypeOK, RunType, RunsOK, RunOK
<1>2. /\ m \in RunType /\ m.at = NoItem /\ m.pc = "look" /\ m.lost = run[n].lost
      /\ m.rows = run[n].rows /\ m.notes = notes
  BY <1>1 DEF RunType
<1>3. run' = [run EXCEPT ![n] = m]
  BY DEF Note, ImportInv, TypeOK
<1> HIDE DEF m
<1>4. RunOK(m)
  BY <1>1, <1>2 DEF RunOK
<1>5. \A y \in m.rows : HasParent(y) => count[Parent(y)] > 0 \/ Parent(y) \in m.rows
  BY <1>2 DEF ImportInv, ParentsSeen, Sees
<1>6. \A y \in m.notes \ run[n].notes : y \notin map /\ ~NoteTaken(n, y)
  BY <1>1, <1>2 DEF Noted
<1>7. \A y \in m.rows : m.at = y \/ y \in map \cup m.notes
  BY <1>2 DEF ImportInv, RowsAreNoted, Noted
<1>8. m.notes \subseteq m.rows \cup m.lost
  BY <1>1, <1>2 DEF ImportInv, NotesAreBacked, Noted
<1>9. \A y \in Items \ raced : KindOf(y) # "resource" =>
        /\ m.at = y \/ y \in m.notes => InHand(n, y)
        /\ y \in m.rows => m.at = y \/ y \in m.notes
  BY <1>1, <1>2, ItemKinds DEF ImportInv, HandsApart, InHand, Noted
<1> QED BY <1>1, <1>2, <1>3, <1>4, <1>5, <1>6, <1>7, <1>8, <1>9, StatementOfRun

\* A rollback forgets what the run has done.
LEMMA RollBackKeeps == ASSUME ImportInv, NEW n \in Runs, RollBack(n) PROVE ImportInv'
<1>1. Idle.pc = "idle" /\ Idle.at = NoItem /\ Idle.rows = {} /\ Idle.notes = {}
  BY DEF Idle
<1>2. run' = [run EXCEPT ![n] = Idle] /\ UNCHANGED <<source, tables, removed, missing, raced>>
  BY DEF RollBack
<1> QED BY <1>1, <1>2, IdleRun, ItemKinds, StatementOfRun DEF ImportInv, TypeOK

\* A commit adds what the run has collected to the tables.
LEMMA CommitKeeps == ASSUME ImportInv, NEW n \in Runs, Commit(n) PROVE ImportInv'
<1> DEFINE rows == run[n].rows  notes == run[n].notes
<1> USE DEF ImportInv
<1>1. /\ run[n] \in RunType /\ run[n].at = NoItem /\ run[n].pc = "look"
      /\ rows \subseteq Items /\ notes \subseteq Items
      /\ \A x \in Items : count[x] \in Nat
  BY DEF Commit, TypeOK, RunType, RunsOK, RunOK
<1>2. /\ count' = [x \in Items |-> IF x \in rows THEN count[x] + 1 ELSE count[x]]
      /\ map' = map \cup notes
      /\ missing' = missing \cup (run[n].lost \cap notes)
      /\ source' = source /\ removed' = removed /\ raced' = raced
  BY DEF Commit
<1>3. /\ run'[n] = Idle /\ \A o \in Runs \ {n} : run'[o] = run[o]
      /\ Idle.pc = "idle" /\ Idle.at = NoItem /\ Idle.rows = {} /\ Idle.notes = {}
  BY DEF Commit, TypeOK, Idle
<1>4. /\ \A x \in Items : count'[x] \in Nat /\ (count[x] > 0 => count'[x] > 0)
      /\ \A x \in rows : count'[x] > 0 /\ x \in map'
      /\ \A x \in Items \ rows : count'[x] = count[x]
  BY <1>1, <1>2, ItemKinds DEF RowsAreNoted, Noted
<1>5. \A x \in rows : KindOf(x) # "file" => count[x] = 0
  BY DEF RowsAreNew
<1>6. \A x \in Items : HasParent(x) /\ count'[x] > 0 => count'[Parent(x)] > 0
  BY <1>4, ItemKinds DEF TypeOK, ParentsSeen, Sees
<1>7. TypeOK'
  <2>1. run' \in [Runs -> RunType]
    BY IdleRun DEF Commit, TypeOK, RunType
  <2>2. \A x \in Items : KindOf(x) # "file" => count'[x] <= 1
    BY <1>1, <1>2, <1>5 DEF TypeOK
  <2> QED BY <1>1, <1>2, <1>6, <2>1, <2>2 DEF TypeOK, RunType
<1>8. RunsOK'
  BY <1>3, IdleRun DEF RunsOK
<1>9. RowsAreNew'
  <2> SUFFICES ASSUME NEW o \in Runs \ {n}, NEW x \in run[o].rows, KindOf(x) # "file"
               PROVE  count'[x] = 0 /\ ~RowTaken(o, x)'
    BY <1>3 DEF RowsAreNew
  <2>1. x \in Items
    BY DEF TypeOK
  <2>2. count[x] = 0 /\ ~RowTaken(o, x) /\ x \notin rows
    BY DEF RowsAreNew, RowTaken
  <2> QED BY <1>3, <1>4, <2>1, <2>2 DEF RowTaken
<1>10. ParentsSeen'
  <2> SUFFICES ASSUME NEW o \in Runs \ {n}, NEW x \in run[o].rows, HasParent(x)
               PROVE  Sees(o, Parent(x))'
    BY <1>3 DEF ParentsSeen
  <2>1. x \in Items
    BY DEF TypeOK
  <2> QED BY <1>3, <1>4, <2>1, ItemKinds DEF ParentsSeen, Sees
<1>11. NotesAreNew'
  BY <1>2, <1>3 DEF NotesAreNew, NoteTaken
<1>12. RowsAreNoted'
  <2>1. \A x \in Items : count'[x] > 0 /\ KindOf(x) # "grant" => x \in map'
    BY <1>2, <1>4 DEF RowsAreNoted
  <2> QED BY <1>2, <1>3, <2>1 DEF RowsAreNoted, Noted
<1>13. NotesAreBacked'
  BY <1>2, <1>3 DEF NotesAreBacked
<1>14. HandsApart'
  <2> SUFFICES ASSUME NEW x \in Items \ raced, KindOf(x) # "resource",
                      NEW o \in Runs \ {n}
               PROVE  /\ InHand(o, x) => x \notin map'
                      /\ InHand(o, x) => \A p \in Runs \ {o} : ~InHand(p, x)'
                      /\ x \in run[o].rows => InHand(o, x)
    BY <1>2, <1>3, ItemKinds DEF HandsApart, InHand
  <2> QED BY <1>2, <1>3, ItemKinds DEF HandsApart, InHand
<1>15. \A x \in rows \ raced : KindOf(x) # "resource" => x \notin map
  BY <1>1 DEF HandsApart
<1>16. CopiedOnce'
  <2> SUFFICES ASSUME NEW x \in Items \ raced PROVE count'[x] <= 1
    BY <1>2 DEF CopiedOnce
  <2>1. CASE x \in rows /\ KindOf(x) = "file"
    BY <2>1, <1>1, <1>2, <1>15 DEF RowsAreNoted
  <2>2. CASE x \notin rows \/ KindOf(x) # "file"
    BY <2>2, <1>1, <1>2, <1>5 DEF CopiedOnce
  <2> QED BY <2>1, <2>2
<1>17. AdminsWorkStands'
  BY <1>2, <1>4, <1>15 DEF AdminsWorkStands, TypeOK
<1>18. NothingLost'
  <2>1. \A x \in notes : count'[x] > 0 \/ x \in missing'
    BY <1>2, <1>4 DEF NotesAreBacked
  <2> QED BY <1>2, <1>4, <2>1 DEF NothingLost, TypeOK
<1> QED BY <1>2, <1>7, <1>8, <1>9, <1>10, <1>11, <1>12, <1>13, <1>14, <1>16, <1>17, <1>18

-----------------------------------------------------------------------------
(* V1 and V2 in use. *)

LEMMA PublishKeeps == ASSUME ImportInv, NEW x \in Items, Publish(x) PROVE ImportInv'
<1> USE DEF ImportInv
<1>1. UNCHANGED <<count, map, run, removed, missing, raced>> /\ source' \subseteq Items
  BY DEF Publish, tables, TypeOK
<1> QED BY <1>1 DEF TypeOK, RunsOK, RowsAreNew, RowTaken, ParentsSeen, Sees, NotesAreNew, NoteTaken,
                    RowsAreNoted, Noted, NotesAreBacked, HandsApart, InHand, CopiedOnce,
                    AdminsWorkStands, NothingLost

\* Rows taken away: all that is gone from the tables and was noted is remembered,
\* no run has referred to it, and no parent goes without its children.
LEMMA TakingAwayKeeps ==
  ASSUME ImportInv, NEW gone \in SUBSET Items,
         count' = [y \in Items |-> IF y \in gone THEN 0 ELSE count[y]],
         removed' = removed \cup (gone \cap map),
         UNCHANGED <<source, map, run, missing, raced>>,
         \A y \in Items : HasParent(y) /\ Parent(y) \in gone => y \in gone,
         \A n \in Runs : \A y \in run[n].rows : HasParent(y) => Parent(y) \notin gone
  PROVE  ImportInv'
<1> USE DEF ImportInv
<1>1. /\ \A y \in Items : count[y] \in Nat /\ count'[y] \in Nat
      /\ \A y \in Items : count'[y] > 0 => count[y] > 0 /\ y \notin gone
      /\ \A y \in Items : count'[y] = IF y \in gone THEN 0 ELSE count[y]
      /\ \A n \in Runs : run[n].rows \subseteq Items
  BY DEF TypeOK
<1>2. TypeOK'
  BY <1>1, ItemKinds DEF TypeOK
<1>3. RunsOK' /\ NotesAreNew' /\ NotesAreBacked' /\ HandsApart'
  BY DEF RunsOK, NotesAreNew, NoteTaken, NotesAreBacked, HandsApart, InHand
<1>4. RowsAreNew'
  BY <1>1 DEF RowsAreNew, RowTaken
<1>5. ParentsSeen'
  BY <1>1, ItemKinds DEF ParentsSeen, Sees
<1>6. RowsAreNoted'
  BY <1>1 DEF RowsAreNoted, Noted
<1>7. CopiedOnce'
  BY <1>1 DEF CopiedOnce
<1>8. AdminsWorkStands' /\ (removed \subseteq map)'
  BY <1>1 DEF AdminsWorkStands, TypeOK
<1>9. NothingLost'
  BY <1>1 DEF NothingLost, TypeOK
<1> QED BY <1>2, <1>3, <1>4, <1>5, <1>6, <1>7, <1>8, <1>9

LEMMA PurgeKeeps == ASSUME ImportInv, NEW x \in Items, Purge(x) PROVE ImportInv'
<1> DEFINE gone == {y \in Items : y = x \/ (HasParent(y) /\ Parent(y) = x)}
<1>1. KindOf(x) = "resource" /\ ~Referred(x)
  BY DEF Purge
<1>2. /\ count' = [y \in Items |-> IF y \in gone THEN 0 ELSE count[y]]
      /\ removed' = removed \cup (gone \cap map)
      /\ UNCHANGED <<source, map, run, missing, raced>>
  BY DEF Purge
<1>3. \A y \in Items : HasParent(y) => (Parent(y) \in gone <=> Parent(y) = x)
  BY ItemKinds
<1>4. \A n \in Runs : \A y \in run[n].rows : HasParent(y) => Parent(y) # x
  BY <1>1 DEF Referred
<1>5. \A n \in Runs : run[n].rows \subseteq Items
  BY DEF ImportInv, TypeOK
<1>6. /\ \A y \in Items : HasParent(y) /\ Parent(y) \in gone => y \in gone
      /\ \A n \in Runs : \A y \in run[n].rows : HasParent(y) => Parent(y) \notin gone
  BY <1>3, <1>4, <1>5
<1>7. gone \in SUBSET Items
  OBVIOUS
<1> HIDE DEF gone
<1> QED BY <1>2, <1>6, <1>7, TakingAwayKeeps

LEMMA TakeAwayKeeps == ASSUME ImportInv, NEW x \in Items, TakeAway(x) PROVE ImportInv'
<1>1. KindOf(x) # "resource"
  BY DEF TakeAway
<1>2. /\ count' = [y \in Items |-> IF y \in {x} THEN 0 ELSE count[y]]
      /\ removed' = removed \cup ({x} \cap map)
      /\ UNCHANGED <<source, map, run, missing, raced>>
  BY DEF TakeAway, ImportInv, TypeOK
<1>3. \A n \in Runs : run[n].rows \subseteq Items
  BY DEF ImportInv, TypeOK
<1>4. \A y \in Items : HasParent(y) => Parent(y) # x
  BY <1>1, ItemKinds
<1> DEFINE gone == {x}
<1>5. /\ \A y \in Items : HasParent(y) /\ Parent(y) \in gone => y \in gone
      /\ \A n \in Runs : \A y \in run[n].rows : HasParent(y) => Parent(y) \notin gone
  BY <1>3, <1>4
<1>6. gone \in SUBSET Items
  OBVIOUS
<1>7. /\ count' = [y \in Items |-> IF y \in gone THEN 0 ELSE count[y]]
      /\ removed' = removed \cup (gone \cap map)
  BY <1>2
<1> HIDE DEF gone
<1> QED BY <1>2, <1>5, <1>6, <1>7, TakingAwayKeeps

LEMMA GrantByHandKeeps == ASSUME ImportInv, NEW x \in Items, GrantByHand(x) PROVE ImportInv'
<1> USE DEF ImportInv
<1>1. /\ KindOf(x) = "grant" /\ \A o \in Runs : x \notin run[o].rows
      /\ count' = [count EXCEPT ![x] = 1] /\ removed' = removed \ {x}
      /\ UNCHANGED <<source, map, run, missing, raced>>
  BY DEF GrantByHand
<1>2. /\ count'[x] = 1 /\ \A y \in Items \ {x} : count'[y] = count[y]
      /\ \A y \in Items : count[y] \in Nat
      /\ \A n \in Runs : run[n].rows \subseteq Items
  BY <1>1 DEF TypeOK
<1>3. TypeOK'
  BY <1>1, <1>2, ItemKinds DEF TypeOK
<1>4. RunsOK' /\ NotesAreNew' /\ NotesAreBacked' /\ HandsApart'
  BY <1>1 DEF RunsOK, NotesAreNew, NoteTaken, NotesAreBacked, HandsApart, InHand
<1>5. RowsAreNew' /\ ParentsSeen'
  BY <1>1, <1>2, ItemKinds DEF RowsAreNew, RowTaken, ParentsSeen, Sees
<1>6. RowsAreNoted'
  BY <1>1, <1>2 DEF RowsAreNoted, Noted
<1>7. CopiedOnce' /\ AdminsWorkStands' /\ NothingLost' /\ (removed \subseteq map)'
  BY <1>1, <1>2 DEF CopiedOnce, AdminsWorkStands, NothingLost, TypeOK
<1> QED BY <1>3, <1>4, <1>5, <1>6, <1>7

-----------------------------------------------------------------------------
(* The theorems. *)

THEOREM ImportInvariant == Spec => []ImportInv
<1>1. Init => ImportInv
  <2> SUFFICES ASSUME Init PROVE ImportInv
    OBVIOUS
  <2> USE DEF Init
  <2>1. /\ Idle.pc = "idle" /\ Idle.at = NoItem /\ Idle.rows = {} /\ Idle.notes = {}
        /\ \A n \in Runs : run[n] = Idle
    BY DEF Idle
  <2>2. TypeOK
    BY IdleRun DEF TypeOK, RunType
  <2>3. RunsOK
    BY <2>1, IdleRun DEF RunsOK
  <2>4. /\ RowsAreNew /\ ParentsSeen /\ NotesAreNew /\ RowsAreNoted /\ NotesAreBacked
        /\ HandsApart
    BY <2>1, ItemKinds DEF RowsAreNew, ParentsSeen, NotesAreNew, RowsAreNoted, NotesAreBacked,
                           HandsApart, InHand
  <2>5. CopiedOnce /\ AdminsWorkStands /\ NothingLost /\ removed \subseteq map
    BY DEF CopiedOnce, AdminsWorkStands, NothingLost
  <2> QED BY <2>2, <2>3, <2>4, <2>5 DEF ImportInv
<1>2. ImportInv /\ [Next]_vars => ImportInv'
  <2> SUFFICES ASSUME ImportInv, [Next]_vars PROVE ImportInv'
    OBVIOUS
  <2>1. CASE UNCHANGED vars
    BY <2>1 DEF vars, tables, ImportInv, TypeOK, RunsOK, RowsAreNew, RowTaken, ParentsSeen, Sees,
                NotesAreNew, NoteTaken, RowsAreNoted, Noted, NotesAreBacked, HandsApart, InHand,
                CopiedOnce, AdminsWorkStands, NothingLost
  <2>2. ASSUME NEW n \in Runs, NEW x \in Items, ImportResource(n, x) \/ Look(n, x)
        PROVE  ImportInv'
    BY <2>2, ImportResourceKeeps, LookKeeps
  <2>3. ASSUME NEW n \in Runs,
               \/ Start(n) \/ ReadBytes(n) \/ Write(n) \/ Note(n) \/ Commit(n) \/ RollBack(n)
        PROVE  ImportInv'
    BY <2>3, StartKeeps, ReadBytesKeeps, WriteKeeps, NoteKeeps, CommitKeeps, RollBackKeeps
  <2>4. ASSUME NEW x \in Items, Publish(x) \/ Purge(x) \/ TakeAway(x) \/ GrantByHand(x)
        PROVE  ImportInv'
    BY <2>4, PublishKeeps, PurgeKeeps, TakeAwayKeeps, GrantByHandKeeps
  <2> QED BY <2>1, <2>2, <2>3, <2>4 DEF Next
<1> QED BY <1>1, <1>2, PTL DEF Spec

\* Every variable has its type, and the keys and foreign keys of V2 hold.
THEOREM ImportTypeCorrect == Spec => []TypeOK
BY ImportInvariant, PTL DEF ImportInv

\* However many runs of the import there are and wherever they are cut off, a
\* file is copied once, unless two runs met at it (copyFiles looks first and
\* notes later).
THEOREM EverythingOnce == Spec => []CopiedOnce
BY ImportInvariant, PTL DEF ImportInv

\* No run puts back what was taken away in V2 after it had been noted.
THEOREM NoWorkUndone == Spec => []AdminsWorkStands
BY ImportInvariant, PTL DEF ImportInv

\* What the map says was brought over is there, was taken away in V2, or is a
\* file noted as missing: rows and notes of a run go together.
THEOREM NotedIsThere == Spec => []NothingLost
BY ImportInvariant, PTL DEF ImportInv
=============================================================================
