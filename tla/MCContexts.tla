----------------------------- MODULE MCContexts -----------------------------
(***************************************************************************)
(* Two threads on a heap of a few chunks, so that memory is used again.    *)
(***************************************************************************)
EXTENDS Contexts, TLC

MCFlags == {0, 1}
MCSymmetry == Permutations(Thread) \cup Permutations(Addr)

\* Bound: the stacks of two threads together are as deep as one can be.
FewPushed ==
  \A t, u \in Thread : t # u => Len(stack[t]) + Len(stack[u]) <= Depth
=============================================================================
