------------------------- MODULE MCServerInstances -------------------------
(* ServerInstances on small instances. *)
EXTENDS ServerInstances, TLC

Symmetry == Permutations(Instances)
====
