------------------------ MODULE MCPredicatedDelivery ------------------------
(* PredicatedDelivery on small instances. *)
EXTENDS PredicatedDelivery, TLC

Symmetry == Permutations(EventIds) \union Permutations(Instances)
====
