---------------------------- MODULE MCThreadPool ----------------------------
(* ThreadPool on small instances. *)
EXTENDS ThreadPool, TLC

CONSTANTS w1, w2, w3, k1, k2, c1, c2, r1, d1, d2, d3

Symmetry ==
  Permutations(Workers) \union Permutations(Controllers) \union Permutations(Clients)
=============================================================================
