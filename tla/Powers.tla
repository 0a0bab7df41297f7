-------------------------------- MODULE Powers --------------------------------
(***************************************************************************)
(* Powers of two: what a shift of 1 gives, and the number of values of a   *)
(* word of n bits.  A recursive function, unlike 2^n, can be reasoned      *)
(* about.                                                                  *)
(***************************************************************************)
EXTENDS Integers

Pow2[n \in Nat] == IF n = 0 THEN 1 ELSE 2 * Pow2[n - 1]
=============================================================================
