--------------------------- MODULE ResourceRaces ---------------------------
(***************************************************************************)
(* The races between the handlers of ResourceLifecycle.  A handler checks  *)
(* the row of a resource and its files in one statement and acts on the    *)
(* answer in a later one; resources.service.ts takes no lock in between,   *)
(* and most of its later statements do not repeat the check.               *)
(*                                                                         *)
(* A history variable records which handlers have been overtaken, that is, *)
(* whose answer another handler has since made out of date.  The           *)
(* properties then say of each promise of the workflow which statements    *)
(* can break it and, for each of these, that its handler had been          *)
(* overtaken: every other statement keeps the promise however the handlers *)
(* overlap and whichever statement fails.                                  *)
(* The history restricts no step: the handlers are those of                *)
(* ResourceLifecycle.                                                      *)
(***************************************************************************)
EXTENDS ResourceLifecycle

VARIABLE stale  \* stale[q]: what q has read of its resource ("row", "files") and
                \* another handler has changed since

raceVars == <<vars, stale>>

\* The statements that read again, or repeat the check in their WHERE clause.
Reread(pc) ==
  CASE pc = "count" -> {"files"}
    [] pc \in {"read", "forceRecall"} -> {"row"}
    [] OTHER -> {}

\* What a step changes of resource r.
Touched(r) == (IF row'[r] # row[r] THEN {"row"} ELSE {})
              \cup (IF files'[r] # files[r] THEN {"files"} ELSE {})

\* The handler of q takes the step.
Moves(q) == req'[q] # req[q]

Watch ==
  stale' = [q \in Requests |->
              CASE req'[q].pc = "idle" -> {}
                [] req'[q].pc # "idle" /\ Moves(q) -> stale[q] \ Reread(req[q].pc)
                [] req'[q].pc # "idle" /\ ~Moves(q) ->
                     stale[q] \cup UNION {Touched(r) : r \in Resources \cap {req[q].res}}]

RaceInit == Init /\ stale = [q \in Requests |-> {}]

RaceNext == Next /\ Watch

RaceSpec == RaceInit /\ [][RaceNext]_raceVars

-----------------------------------------------------------------------------
(* Who can break what. *)

\* The step is the statement pc of a handler of r whose reading of part is out
\* of date.
Overtaken(r, pc, part) ==
  \E q \in Requests :
    Moves(q) /\ req[q].res = r /\ req[q].pc = pc /\ part \in stale[q]

OnLine(r) == Stored(r) /\ row[r].status = "PUBLISHED"
PublishedInBin(r) == row[r].state = "bin" /\ row[r].status = "PUBLISHED"

\* Nothing PUBLISHED gets into the recycle bin, from where restoring would put
\* it on line again, but in two ways: the UPDATE of a deletion, which checks
\* that the row is still there and not that it may still be deleted, when it
\* was put on line after assertDeletable; and that of an approval when the row
\* was deleted after transition() had read it.  No forced status, forced
\* deletion, edit or restore does it, overtaken or not.
NothingPublishedBinned ==
  [][\A r \in Resources :
       PublishedInBin(r)' /\ ~PublishedInBin(r) =>
         Overtaken(r, "erase", "row") \/ Overtaken(r, "write", "row")]_raceVars

\* r went through submission, is under review or on line, and has no file.
Bare(r) ==
  /\ Stored(r)
  /\ row[r].status \in {"PENDING_REVIEW", "PUBLISHED"}
  /\ origin[r] = "flow"
  /\ files[r] = {}

\* What goes through submission has a file until it leaves review and the
\* shelf.  It loses the last one only where the file is removed between the
\* count of submit() and its UPDATE, or where the row left its editable status
\* between assertFilesUnlocked and the DELETE of the file.
SubmissionKeepsFiles ==
  [][\A r \in Resources :
       Bare(r)' /\ ~Bare(r) =>
         Overtaken(r, "write", "files") \/ Overtaken(r, "unfile", "row")]_raceVars

\* An edit takes what is on line off line, overtaken or not; and under the next
\* version number, unless it has been overtaken.
EditTakesOffLine ==
  [][\A q \in Requests :
       EditWrite(q) /\ OnLine(req[q].res) =>
         LET r == req[q].res IN
         /\ row'[r].status # "PUBLISHED"
         /\ "row" \notin stale[q] =>
              row'[r].status = "DRAFT" /\ row'[r].version = row[r].version + 1]_raceVars

\* What is frozen stands still but for overtaken statements, and for each kind
\* of it only for these: the status of what is in the recycle bin; what is not
\* in the bin, as purging is the second step after deletion; and the files of
\* what is under review or on line.
FrozenStandsStill ==
  [][\A r \in Resources :
       /\ row[r].state = "bin" /\ row'[r].status # row[r].status =>
            Overtaken(r, "write", "row") \/ Overtaken(r, "edit", "row")
       /\ row[r].state = "live" /\ row'[r].state = "purged" => Overtaken(r, "purge", "row")
       /\ /\ row[r].status \in {"PENDING_REVIEW", "PUBLISHED"}
          /\ files'[r] # files[r] /\ row'[r].state # "purged"
          => Overtaken(r, "register", "row") \/ Overtaken(r, "unfile", "row")]_raceVars
=============================================================================
