---------------------------- MODULE MCModuleTable ----------------------------
(***************************************************************************)
(* Instances of ModuleTable for TLC.                                       *)
(***************************************************************************)
EXTENDS ModuleTable, TLC

CONSTANTS t1, t2, m1, m2, m3, n1, n2, g1, h1

\* Images with two kernels, none and one; what is loaded otherwise is made by name.
Images == (m1 :> <<n1, n2>>) @@ (m2 :> <<>>) @@ (m3 :> <<n1>>)

\* A module on its own, two fat binaries, a library with one kernel and with two.
EachUse ==
  {(m1 :> "user")   @@ (m2 :> "unused") @@ (m3 :> "unused"),
   (m1 :> "fatbin") @@ (m2 :> "fatbin") @@ (m3 :> "unused"),
   (m1 :> "unused") @@ (m2 :> "unused") @@ (m3 :> "library"),
   (m1 :> "library") @@ (m2 :> "unused") @@ (m3 :> "unused")}

\* Threads are interchangeable.
Symmetry == Permutations(Thread)
=============================================================================
