---------------------------- MODULE MCAsterisk ------------------------------
EXTENDS Asterisk, TLC
CONSTANTS c1, c2
Symmetry == Permutations(Channels)
=============================================================================
