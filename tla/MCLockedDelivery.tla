-------------------------- MODULE MCLockedDelivery --------------------------
(* LockedDelivery on small instances. *)
EXTENDS LockedDelivery, TLC

Symmetry == Permutations(EventIds) \union Permutations(Instances)
====
