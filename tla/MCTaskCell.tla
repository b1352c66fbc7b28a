----------------------------- MODULE MCTaskCell -----------------------------
EXTENDS TaskCell, TLC
CONSTANTS w1, w2, x1
Symmetry == Permutations({w1, w2})
=============================================================================
