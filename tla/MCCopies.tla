------------------------------ MODULE MCCopies ------------------------------
(***************************************************************************)
(* Instances of Copies for TLC: two threads over a few addresses, and rows *)
(* that lie in one allocation or in two that touch.                        *)
(***************************************************************************)
EXTENDS Copies, TLC

CONSTANTS t1, t2

\* Threads are interchangeable.
Symmetry == Permutations(Thread)
=============================================================================
