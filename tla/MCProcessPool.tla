---------------------------- MODULE MCProcessPool ----------------------------
(* ProcessPool on small instances. *)
EXTENDS ProcessPool, TLC

CONSTANTS w1, w2, c1, c2, r1, d1, d2

Symmetry == Permutations(Workers) \union Permutations(Clients)
=============================================================================
