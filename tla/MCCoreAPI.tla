------------------------------ MODULE MCCoreAPI -----------------------------
EXTENDS CoreAPI, TLC

CONSTANTS n1, c1, r1, r2

Symmetry == Permutations(Requests)
=============================================================================
