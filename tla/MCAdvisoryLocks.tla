-------------------------- MODULE MCAdvisoryLocks --------------------------
(* AdvisoryLocks on small instances. *)
EXTENDS AdvisoryLocks, TLC

Symmetry == Permutations(Calls)
====
