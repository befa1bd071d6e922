-------------------------- MODULE MCIssueSyncEngine --------------------------
(* Instances of IssueSyncEngine for TLC. *)
EXTENDS IssueSyncEngine

\* No property tells deliveries or calls apart.
Symmetry == Permutations(Deliveries) \cup Permutations(Calls)
=============================================================================
