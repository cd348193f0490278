------------------------------- MODULE MCHedge ------------------------------
(* A few concurrent completions; they are interchangeable. *)
EXTENDS Hedge, TLC

Symmetry == Permutations(Completions)
=============================================================================
