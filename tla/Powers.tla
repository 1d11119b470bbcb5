------------------------------- MODULE Powers -------------------------------
(* Powers of two: 1 << k of the Python tools. *)
EXTENDS Naturals

Pow2[k \in Nat] == IF k = 0 THEN 1 ELSE 2 * Pow2[k - 1]

IsPow2(p) == \E k \in 0 .. p : p = Pow2[k]
=============================================================================
