-------------------------- MODULE MCHashDispatcher --------------------------
(* HashDispatcher on small instances. *)
EXTENDS HashDispatcher, SequencesExt

\* A ring: instances and consumers are placed on a circle, a consumer belongs
\* to the next instance.
MCLocated ==
  LET order == SetToSeq(Instances)
      keys  == SetToSeq(Consumers)
      Pos(s, x) == CHOOSE k \in 1..Len(s) : s[k] = x
  IN [members \in SUBSET Instances \ {{}} |->
        [c \in Consumers |->
           CHOOSE i \in members : \A j \in members :
             (Pos(order, i) + Pos(keys, c)) % Len(order) <= (Pos(order, j) + Pos(keys, c)) % Len(order)]]
====
