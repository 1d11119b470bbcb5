------------------------------ MODULE Ordered ------------------------------
(* A set of numbers in ascending order, as a loop meets them. *)
EXTENDS Naturals, FiniteSets

InOrder(S) == [k \in 1 .. Cardinality(S) |-> CHOOSE x \in S : Cardinality({y \in S : y <= x}) = k]
=============================================================================
