--------------------------- MODULE MCDirectoryTree ---------------------------
(* Instances of DirectoryTree for TLC. *)
EXTENDS DirectoryTree, TLC

CONSTANTS n1, n2, n3, q1, q2

NodeSymmetry == Permutations(Nodes) \cup Permutations(Requests)
=============================================================================
