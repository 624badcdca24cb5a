---------------------------- MODULE MCMaestroCli ----------------------------
(* MaestroCli on small instances. *)
EXTENDS MaestroCli, TLC

Symmetry == Permutations(Users) \union Permutations(ConsumerIds) \union Permutations(Manifests \ Invalid)
====
