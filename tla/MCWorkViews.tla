---------------------------- MODULE MCWorkViews ----------------------------
(* WorkViews on small instances. *)
EXTENDS WorkViews
====
