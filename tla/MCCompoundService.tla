-------------------------- MODULE MCCompoundService --------------------------
(* CompoundService on small instances. *)
EXTENDS CompoundService, TLC

CONSTANTS k1, k2, c1, c2, w1, w2, a, b, c, m1, m2

Symmetry ==
  Permutations(Clients) \union Permutations(Workers) \union
  Permutations(States)
=============================================================================
