------------------------ MODULE MCResourceLifecycle ------------------------
(***************************************************************************)
(* Instances of ResourceLifecycle for TLC.  The cast: alice, a teacher;    *)
(* rita, a teacher who also reviews and publishes; root, an administrator. *)
(***************************************************************************)
EXTENDS PublicationRefinement, TLC

CONSTANTS alice, rita, root, q1, q2, q3, f1, f2
=============================================================================
