---------------------------------- MODULE V1Import ----------------------------------
(***************************************************************************)
(* The import of the predecessor's data (V2/scripts/import-v1.mjs,         *)
(* V2/database/migrations/0003_v1_migration.sql), run again and again, by  *)
(* two operators at once if they like, while V1 goes on and V2 is already  *)
(* in use.                                                                 *)
(*                                                                         *)
(* A run is one transaction of many statements, READ COMMITTED: it sees    *)
(* what others have committed meanwhile, nobody sees what it has written,  *)
(* and an insert waits where another run has inserted the same key.  What  *)
(* it remembers is run[n]; a commit adds it to the tables, a rollback      *)
(* forgets it.                                                             *)
(*                                                                         *)
(* An item is a thing to bring over: the row of a V1 resource, its review, *)
(* its file, or a grant.  Accounts and audit rows are inserted as          *)
(* resources are, under the key they had, and are left out, as are         *)
(* directories and the objects of files (a rollback leaves these to the    *)
(* cleanup, see FileRegistry).                                             *)
(***************************************************************************)
EXTENDS Integers, FiniteSets

CONSTANTS
  MaxId,   \* V1 has resources 1..MaxId
  Grants,  \* rows of its subject_permissions that can be translated
  Runs,    \* the operators that run the script
  NoItem

Ids == 1..MaxId
Kinds == {"resource", "review", "grant", "file"}
Items == ({"resource", "review", "file"} \X Ids) \cup ({"grant"} \X Grants)

ASSUME ImportAssumption == MaxId \in Nat /\ NoItem \notin Items

VARIABLES
  source,  \* the items V1 has
  count,   \* count[x]: the rows of V2 that are x
  map,     \* v1_migration_map: the items noted there
  run,     \* the runs
  removed, \* history: items noted in the map that were then taken away in V2
  missing, \* history: files noted without their bytes
  raced    \* history: items looked up by one run while another brought them over

tables == <<count, map>>
vars == <<source, count, map, run, removed, missing, raced>>

Idle == [pc |-> "idle", todo |-> {}, at |-> NoItem, rows |-> {}, notes |-> {}, lost |-> {}]

KindOf(x) == x[1]
Parent(x) == <<"resource", x[2]>>
HasParent(x) == KindOf(x) \in {"review", "file"}

\* What run n sees: the committed rows and its own.
Sees(n, x) == count[x] > 0 \/ x \in run[n].rows

\* Seen by run n in v1_migration_map.
Noted_Never(n, x) == x \in run[n].notes
Noted(n, x) == x \in map \cup run[n].notes

\* Some other run has inserted the row, or the note, of x and not ended.
RowTaken(n, x) == \E o \in Runs \ {n} : x \in run[o].rows
NoteTaken(n, x) == \E o \in Runs \ {n} : x \in run[o].notes

\* A run goes through resources, reviews, grants and files in this order, each
\* by id; an item is next when nothing comes before it.
Rank(x) == CASE KindOf(x) = "resource" -> 1 [] KindOf(x) = "review" -> 2
             [] KindOf(x) = "grant" -> 3 [] KindOf(x) = "file" -> 4
Before(y, x) == \/ Rank(y) < Rank(x)
                \/ Rank(y) = Rank(x) /\ KindOf(x) # "grant" /\ y[2] < x[2]
IsNext(n, x) == x \in run[n].todo /\ \A y \in run[n].todo : ~Before(y, x)

-----------------------------------------------------------------------------
(* A run. *)

\* readV1.
Start(n) ==
  /\ run[n].pc = "idle"
  /\ run' = [run EXCEPT ![n] = [Idle EXCEPT !.pc = "look", !.todo = source]]
  /\ UNCHANGED <<source, tables, removed, missing, raced>>

\* INSERT INTO resources ... ON CONFLICT (id) DO NOTHING, under V1's id, and the
\* note of it.
ImportResource(n, x) ==
  /\ run[n].pc = "look" /\ IsNext(n, x) /\ KindOf(x) = "resource"
  /\ ~RowTaken(n, x) /\ ~NoteTaken(n, x)
  /\ run' = [run EXCEPT ![n].todo = @ \ {x},
                        ![n].rows = IF Sees(n, x) THEN @ ELSE @ \cup {x},
                        ![n].notes = IF Noted(n, x) THEN @ ELSE @ \cup {x}]
  /\ UNCHANGED <<source, tables, removed, missing, raced>>

\* SELECT 1 FROM v1_migration_map.  A review without its resource is passed over.
Look(n, x) ==
  /\ run[n].pc = "look" /\ IsNext(n, x) /\ KindOf(x) # "resource"
  /\ IF Noted(n, x) \/ (KindOf(x) = "review" /\ ~Sees(n, Parent(x)))
     THEN run' = [run EXCEPT ![n].todo = @ \ {x}]
     ELSE run' = [run EXCEPT ![n].pc = IF KindOf(x) = "file" THEN "read" ELSE "write",
                             ![n].at = x]
  /\ raced' = IF \E o \in Runs \ {n} : x = run[o].at \/ x \in run[o].notes
              THEN raced \cup {x} ELSE raced
  /\ UNCHANGED <<source, tables, removed, missing>>

\* copyFiles: the bytes are read and stored, or there are none.  Whatever keeps
\* the reader from them counts as none.
ReadBytes(n) ==
  /\ run[n].pc = "read"
  /\ \/ run' = [run EXCEPT ![n].pc = "write"]
     \/ run' = [run EXCEPT ![n].pc = "note", ![n].lost = @ \cup {run[n].at}]
  /\ UNCHANGED <<source, tables, removed, missing, raced>>

\* INSERT of the row: a file gets a new key, a review keeps the one it had (ON
\* CONFLICT DO NOTHING), a grant must be the only one of its kind; a parent must
\* be there, and stays till the end of the transaction.
Conflict(n, x) == KindOf(x) = "grant" /\ Sees(n, x)
Orphaned(n, x) == HasParent(x) /\ ~Sees(n, Parent(x))
Write(n) ==
  LET x == run[n].at IN
  /\ run[n].pc = "write"
  /\ KindOf(x) # "file" => ~RowTaken(n, x)
  /\ ~Conflict(n, x) /\ ~Orphaned(n, x)
  /\ run' = [run EXCEPT ![n].pc = "note",
                        ![n].rows = IF KindOf(x) = "review" /\ Sees(n, x) THEN @ ELSE @ \cup {x}]
  /\ UNCHANGED <<source, tables, removed, missing, raced>>

\* record: ON CONFLICT DO NOTHING.
Note(n) ==
  LET x == run[n].at IN
  /\ run[n].pc = "note" /\ ~NoteTaken(n, x)
  /\ run' = [run EXCEPT ![n].pc = "look", ![n].at = NoItem, ![n].todo = @ \ {x},
                        ![n].notes = IF Noted(n, x) THEN @ ELSE @ \cup {x}]
  /\ UNCHANGED <<source, tables, removed, missing, raced>>

Commit(n) ==
  /\ run[n].pc = "look" /\ run[n].todo = {}
  /\ count' = [x \in Items |-> IF x \in run[n].rows THEN count[x] + 1 ELSE count[x]]
  /\ map' = map \cup run[n].notes
  /\ missing' = missing \cup (run[n].lost \cap run[n].notes)
  /\ run' = [run EXCEPT ![n] = Idle]
  /\ UNCHANGED <<source, removed, raced>>

\* A statement fails (among them those whose constraint is violated), a problem is
\* fatal, the connection is cut, or it was a dry run.
RollBack_KeepsNotes(n) ==
  /\ run[n].pc # "idle"
  /\ run' = [run EXCEPT ![n] = Idle]
  /\ map' = map \cup run[n].notes
  /\ UNCHANGED <<source, count, removed, missing, raced>>
RollBack(n) ==
  /\ run[n].pc # "idle"
  /\ run' = [run EXCEPT ![n] = Idle]
  /\ UNCHANGED <<source, tables, removed, missing, raced>>

-----------------------------------------------------------------------------
(* V1 goes on.  (What it drops, a later run does not read: nothing comes of it.) *)

Publish(x) ==
  /\ x \notin source
  /\ HasParent(x) => Parent(x) \in source
  /\ source' = source \cup {x}
  /\ UNCHANGED <<tables, run, removed, missing, raced>>

(* V2 is in use. *)

\* A delete of the resource waits for the runs that have just referred to it.
Referred_Unchecked(x) == FALSE
Referred(x) == \E o \in Runs : \E y \in run[o].rows : HasParent(y) /\ Parent(y) = x

\* purge: the row, and what hangs on it by cascade.
Purge(x) ==
  /\ KindOf(x) = "resource" /\ count[x] > 0 /\ ~Referred(x)
  /\ LET gone == {y \in Items : y = x \/ (HasParent(y) /\ Parent(y) = x)} IN
     /\ count' = [y \in Items |-> IF y \in gone THEN 0 ELSE count[y]]
     /\ removed' = removed \cup (gone \cap map)
  /\ UNCHANGED <<source, map, run, missing, raced>>

\* A file is removed, a grant is not in the list of a replacement.
TakeAway(x) ==
  /\ KindOf(x) \in {"file", "grant"} /\ count[x] > 0
  /\ count' = [count EXCEPT ![x] = 0]
  /\ removed' = removed \cup ({x} \cap map)
  /\ UNCHANGED <<source, map, run, missing, raced>>

\* An administrator gives by hand what V1 had given.
GrantByHand(x) ==
  /\ KindOf(x) = "grant" /\ count[x] = 0
  /\ \A o \in Runs : x \notin run[o].rows
  /\ count' = [count EXCEPT ![x] = 1]
  /\ removed' = removed \ {x}
  /\ UNCHANGED <<source, map, run, missing, raced>>

Init ==
  /\ source = {} /\ map = {} /\ removed = {} /\ missing = {} /\ raced = {}
  /\ count = [x \in Items |-> 0]
  /\ run = [n \in Runs |-> Idle]

Next ==
  \/ \E n \in Runs :
       \/ Start(n) \/ ReadBytes(n) \/ Write(n) \/ Note(n) \/ Commit(n) \/ RollBack(n)
       \/ \E x \in Items : ImportResource(n, x) \/ Look(n, x)
  \/ \E x \in Items : Publish(x) \/ Purge(x) \/ TakeAway(x) \/ GrantByHand(x)

Spec == Init /\ [][Next]_vars

-----------------------------------------------------------------------------
(* Properties. *)

\* Every variable has its type, and the keys of V2 hold: nothing hangs on a row
\* that is not there (what verifyTarget looks for after a run), and a resource, a
\* review and a grant are there once.
TypeOK ==
  /\ source \subseteq Items /\ map \subseteq Items
  /\ removed \subseteq Items /\ missing \subseteq Items /\ raced \subseteq Items
  /\ count \in [Items -> Nat]
  /\ run \in [Runs -> [pc : {"idle", "look", "read", "write", "note"}, todo : SUBSET Items,
                       at : Items \cup {NoItem}, rows : SUBSET Items,
                       notes : SUBSET Items, lost : SUBSET Items]]
  /\ \A x \in Items : KindOf(x) # "file" => count[x] <= 1
  /\ \A x \in Items : HasParent(x) /\ count[x] > 0 => count[Parent(x)] > 0

\* However often and from wherever the import is run, while it is run elsewhere,
\* fails or is resumed: a file is copied once.  The map is looked at some
\* statements before it is written, so two runs of which one looks while the other
\* is at the same file are the exception.
CopiedOnce == \A x \in Items : count[x] <= 1 \/ x \in raced

\* What was taken away in V2, a grant, a file, or these together with their
\* resource, no later run puts back.  (The bare resource is the exception.)
AdminsWorkStands ==
  \A x \in removed \ raced : KindOf(x) # "resource" => count[x] = 0

\* What is noted as brought over is there, unless it was taken away in V2 or is a
\* file noted as missing.
NothingLost ==
  \A x \in map : count[x] > 0 \/ x \in removed \cup missing
=============================================================================
