---------------------------- MODULE MCLoginThrottle ----------------------------
(* LoginThrottle for TLC. *)
EXTENDS LoginThrottle, TLC

Swaps == Permutations(Keys) \cup Permutations(Attempts)
=============================================================================
