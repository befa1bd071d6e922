--------------------------- MODULE MCR2CacheStore ---------------------------
(* Instances of R2CacheStore for TLC. *)
EXTENDS R2CacheStore, TLC

CONSTANTS a, b

TwoCallers == {a, b}
Symmetry == Permutations(TwoCallers)
ThreeKeys == 1..3
\* Two of the smaller fit, and one of either.
TwoSizes == {1, 2}
=============================================================================
