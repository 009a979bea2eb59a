--------------------------- MODULE MCPositionStore ---------------------------
(* Instance of PositionStore for TLC: two tokens, two concurrent buyers.    *)
EXTENDS PositionStore, TLC

Symmetry == Permutations(Mints) \cup Permutations(Ids) \cup Permutations(Buyers)
=============================================================================
