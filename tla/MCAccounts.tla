------------------------------ MODULE MCAccounts ------------------------------
(* Instances of Accounts for TLC. *)
EXTENDS Accounts, TLC

CONSTANTS u1, u2, s1, s2, q1, q2, p1

AccountSymmetry ==
  Permutations(Users) \cup Permutations(Sessions) \cup Permutations(Requests)
=============================================================================
