---------------------------- MODULE MCRmChannel ----------------------------
(***************************************************************************)
(* Instances of RmChannel for TLC.                                         *)
(***************************************************************************)
EXTENDS RmChannel, TLC

CONSTANTS b1, b2

\* Staging buffers are interchangeable.
Symmetry == Permutations(Buf)
=============================================================================
