--------------------------- MODULE ChannelService ---------------------------
(***************************************************************************)
(* What the RM layer promises the launch path: a channel that, once up,    *)
(* stays up; a compute object that, once obtained, is kept; and buffers    *)
(* that are only ever mapped for a channel that is up.                     *)
(***************************************************************************)
CONSTANT Buffer   \* what can be staged

VARIABLES
  up,       \* the channel can be submitted to
  compute,  \* a compute object is bound to it
  staged    \* buffers mapped for the GPU

vars == <<up, compute, staged>>

Init == up = FALSE /\ compute = FALSE /\ staged = {}

\* Bringing the channel up, and with it perhaps a compute object.
Start == ~up /\ up' = TRUE /\ compute' \in BOOLEAN /\ staged' = staged

Obtain == up /\ compute' = TRUE /\ UNCHANGED <<up, staged>>

\* Buffers come and go.
Stage == up /\ staged' \in SUBSET Buffer /\ UNCHANGED <<up, compute>>

Next == Start \/ Obtain \/ Stage

Spec == Init /\ [][Next]_vars
=============================================================================
