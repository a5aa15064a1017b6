--------------------------- MODULE MCStarMapStore ---------------------------
EXTENDS StarMapStore, TLC

CONSTANTS a, b, c
OldNodes == {a, b}
Symmetry == Permutations(OldNodes)
=============================================================================
