----------------------------- MODULE MCNotifier -----------------------------
(* Model-checking instances of Notifier.                                   *)
EXTENDS Notifier, TLC

CONSTANTS c1, c2

OneCall  == {c1}
TwoCalls == {c1, c2}
Symmetry == Permutations({c1, c2})
=============================================================================
