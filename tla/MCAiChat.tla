------------------------------- MODULE MCAiChat -------------------------------
(* AiChat for TLC. *)
EXTENDS AiChat, TLC

CONSTANTS ann, ben, t1, t2, c1, r1
=============================================================================
