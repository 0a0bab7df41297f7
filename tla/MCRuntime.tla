----------------------------- MODULE MCRuntime -----------------------------
(***************************************************************************)
(* An instance of Runtime for TLC.                                         *)
(***************************************************************************)
EXTENDS Runtime, TLC

CONSTANTS t1, t2, c1, c2

\* Two threads that allocate, with and without memory of the program's; one
\* that allocates and one that copies; two that launch.
EachUse ==
  {(t1 :> {"device", "host"}) @@ (t2 :> {"device", "host"}),
   (t1 :> {"device", "user"}) @@ (t2 :> {"user"}),
   (t1 :> {"device", "user"}) @@ (t2 :> {"copy"}),
   (t1 :> {"launch"}) @@ (t2 :> {"launch"})}
=============================================================================
