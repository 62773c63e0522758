---------------------------- MODULE MCMemoryStore ---------------------------
(***************************************************************************)
(* Instances of MemoryStore for TLC.                                       *)
(***************************************************************************)
EXTENDS MemoryStore, TLC

CONSTANTS k1, k2, pods, nodes

\* Each key is of a resource of its own.
TwoKinds == k1 :> pods @@ k2 :> nodes

Symmetry == Permutations(Clients) \cup Permutations(Watchers)
=============================================================================
