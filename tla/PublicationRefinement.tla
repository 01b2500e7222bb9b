-------------------------- MODULE PublicationRefinement --------------------------
(***************************************************************************)
(* ResourceLifecycle implements Publication, resource by resource, however *)
(* handlers overlap.                                                       *)
(***************************************************************************)
EXTENDS ResourceLifecycle

Approved(r) == Stored(r) /\ row[r].status = "PUBLISHED"

StageOf(r) ==
  CASE row[r].state = "absent" -> "none"
    [] row[r].state = "purged" -> "removed"
    [] Approved(r) -> "approved"
    [] Stored(r) /\ row[r].status = "PENDING_REVIEW" -> "submitted"
    [] OTHER -> "draft"

Abstract(r) == INSTANCE Publication WITH
  stage <- StageOf(r),
  hidden <- row[r].state = "bin",
  author <- row[r].owner,
  approver <- IF Approved(r) THEN publisher[r].by ELSE NoUser

\* Nothing is shown without a standing approval by somebody entitled to give it,
\* authors stay, and what was purged does not come back, whatever handlers read
\* before their awaits and write after them.
\* (This is \A r \in Resources : Abstract(r)!Spec, as TLC takes it.)
ImplementsPublication ==
  /\ \A r \in Resources : Abstract(r)!Init
  /\ [][\A r \in Resources : [Abstract(r)!Next]_(Abstract(r)!vars)]_vars
=============================================================================
