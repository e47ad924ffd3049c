--------------------------- MODULE MCRequestCache ---------------------------
(* A small instance of RequestCache; requests, keys and entries are alike. *)
EXTENDS RequestCache, TLC

Symmetry ==
  Permutations(Requests) \union Permutations(Entries) \union Permutations(Keys)
=============================================================================
