--------------------------- MODULE MCFileRegistry ---------------------------
(***************************************************************************)
(* Instances of FileRegistry for TLC.                                      *)
(***************************************************************************)
EXTENDS FileRegistry

CONSTANTS k1, q1, q2
=============================================================================
