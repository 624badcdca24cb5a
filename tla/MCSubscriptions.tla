-------------------------- MODULE MCSubscriptions --------------------------
(* Subscriptions on small instances. *)
EXTENDS Subscriptions, TLC

Symmetry == Permutations(Subscribers)
====
