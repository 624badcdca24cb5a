------------------------- MODULE MCDeleteRepublish -------------------------
(* DeleteRepublish on small instances. *)
EXTENDS DeleteRepublish, TLC

Symmetry == Permutations(EventIds)
====
