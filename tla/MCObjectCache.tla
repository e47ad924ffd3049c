---------------------------- MODULE MCObjectCache ----------------------------
(* ObjectCache on small instances. *)
EXTENDS ObjectCache, TLC

CONSTANTS t1, t2, f1, f2

(* A change of f1, or of what f2 includes, keeps the size and is made      *)
(* within the second.                                                      *)
StatOf ==
  [f \in Files |-> [v \in 1 .. 1 + MaxChanges |->
                     [mtime |-> IF f = f1 THEN 1 ELSE v, size |-> 1]]]
IncludedStatOf ==
  [f \in Files |-> [v \in 1 .. 1 + MaxChanges |->
                     [mtime |-> IF f = f2 THEN 1 ELSE v, size |-> 1]]]

Symmetry == Permutations(Threads)
=============================================================================
