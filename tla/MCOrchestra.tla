----------------------------- MODULE MCOrchestra -----------------------------
(* A small instance of Orchestra for TLC: two nodes of one group. *)
EXTENDS Orchestra

CONSTANTS n1, n2

\* One node booted with the controller, the other one before it.
OneEarlier == {[n \in Nodes |-> IF n = n1 THEN 0 ELSE -1]}

=============================================================================
