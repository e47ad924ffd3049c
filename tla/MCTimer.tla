------------------------------- MODULE MCTimer -------------------------------
(* Timer on small instances. *)
EXTENDS Timer, TLC

CONSTANTS e1, e2, e3, e4, e5, e6, e7, s1, s2

Symmetry == Permutations(Events) \union Permutations(Setters)
=============================================================================
