------------------------------ MODULE MCV1Import ------------------------------
(* V1Import for TLC. *)
EXTENDS V1Import

CONSTANTS g1, ops, dev
=============================================================================
