-------------------------- MODULE MCResourceRaces --------------------------
(***************************************************************************)
(* Instances of ResourceRaces for TLC, with the cast of                    *)
(* MCResourceLifecycle, and the refinement of Publication beside it.       *)
(***************************************************************************)
EXTENDS ResourceRaces, PublicationRefinement, TLC

CONSTANTS alice, rita, root, q1, q2, q3, f1, f2

OverlapSymmetry == Permutations(Requests) \cup Permutations(FileIds)
=============================================================================
