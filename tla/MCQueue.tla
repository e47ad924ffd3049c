------------------------------ MODULE MCQueue ------------------------------
(* Queue on small instances. *)
EXTENDS Queue, TLC

Symmetry == Permutations(Threads) \union Permutations(Elements)
=============================================================================
