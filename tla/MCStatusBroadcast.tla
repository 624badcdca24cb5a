------------------------- MODULE MCStatusBroadcast -------------------------
(* StatusBroadcast on small instances. *)
EXTENDS StatusBroadcast, TLC

Symmetry == Permutations(StatusEventIds) \union Permutations(Handlers) \union Permutations(Instances)
====
