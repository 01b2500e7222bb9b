--------------------------- MODULE MCAiIndexQueue ---------------------------
(***************************************************************************)
(* Instances of AiIndexQueue for TLC: one resource, moved between two      *)
(* directories, with a short file and a long one, indexed by the server    *)
(* and by one run of the script.                                           *)
(***************************************************************************)
EXTENDS AiIndexQueue

CONSTANTS r1, short, long, d1, d2, server, script
=============================================================================
