---------------------------- MODULE ContextStacks ----------------------------
(***************************************************************************)
(* The calls of libcuda on contexts as they would be if contexts and       *)
(* streams were identities and never addresses that are used again, for a  *)
(* program that destroys a context only when nothing else names it: every  *)
(* thread has a stack of contexts whose top is current, a context stays    *)
(* what it was until it is destroyed, and a stream belongs to one context  *)
(* for as long as it lives.                                                *)
(*                                                                         *)
(* What a call does to the stack is the code's own rule.  cuda.h has       *)
(* another in four places, named at the actions; StackAsDocumented of      *)
(* Contexts states them and the code does not have it.                     *)
(***************************************************************************)
EXTENDS Integers, Sequences

CONSTANTS
  Thread,
  Id,      \* identities of contexts and streams
  None,    \* no context
  Depth    \* how many contexts a thread can push

VARIABLES
  existing,  \* contexts that exist
  device,    \* the device's primary context, or None
  stacks,    \* thread -> its stack, current context last
  bound      \* pairs of a stream and its context, or None when there was no memory for one

stackVars == <<existing, device, stacks, bound>>

Top(t) == stacks[t][Len(stacks[t])]
WithTop(t, c) == [stacks EXCEPT ![t] = [@ EXCEPT ![Len(@)] = c]]

NamedBelow == UNION {{stacks[t][i] : i \in 1..(Len(stacks[t]) - 1)} : t \in Thread}
NamedByOthers(t) ==
  {Top(u) : u \in Thread \ {t}} \cup NamedBelow \cup {b[2] : b \in bound}

StacksInit ==
  /\ existing = {} /\ device = None /\ bound = {}
  /\ stacks = [t \in Thread |-> <<None>>]

\* The top is replaced: a pop does not restore it, as cuda.h:6210 says it does.
NewContext(t) == \E c \in Id \ existing :
  /\ existing' = existing \cup {c}
  /\ stacks' = WithTop(t, c)
  /\ UNCHANGED <<device, bound>>

\* What was current becomes none and the stack keeps its depth; by cuda.h:6640 it
\* is popped.
DestroyContext(t, c) ==
  /\ c \in (existing \ {device}) \ NamedByOthers(t)
  /\ existing' = existing \ {c}
  /\ stacks' = IF Top(t) = c THEN WithTop(t, None) ELSE stacks
  /\ UNCHANGED <<device, bound>>

\* Also none replaces the top and nothing else; by cuda.h:6752 it is a pop.
MakeCurrent(t, c) ==
  /\ c \in existing \cup {None}
  /\ stacks' = WithTop(t, c)
  /\ UNCHANGED <<existing, device, bound>>

PushContext(t, c) ==
  /\ c \in existing /\ Len(stacks[t]) <= Depth
  /\ stacks' = [stacks EXCEPT ![t] = Append(@, c)]
  /\ UNCHANGED <<existing, device, bound>>

PopContext(t) ==
  /\ stacks' = [stacks EXCEPT ![t] = IF Len(@) = 1 THEN <<None>> ELSE SubSeq(@, 1, Len(@) - 1)]
  /\ UNCHANGED <<existing, device, bound>>

\* The primary context, made when it is first needed.
WithPrimary(c) ==
  IF device # None THEN c = device /\ UNCHANGED <<existing, device>>
                   ELSE c \in Id \ existing /\ existing' = existing \cup {c} /\ device' = c

\* The primary context becomes current; by cuda.h:5938 it does not.
RetainPrimary(t) == \E c \in Id :
  /\ WithPrimary(c)
  /\ stacks' = WithTop(t, c)
  /\ UNCHANGED bound

\* As DestroyContext, the top of the calling thread included.
ResetPrimary(t) ==
  /\ device # None /\ device \notin NamedByOthers(t)
  /\ existing' = existing \ {device} /\ device' = None
  /\ stacks' = IF Top(t) = device THEN WithTop(t, None) ELSE stacks
  /\ UNCHANGED bound

\* The context an operation of t works on: the current one, else the primary.
WorksOn(t, c) ==
  IF Top(t) # None THEN c = Top(t) /\ UNCHANGED <<existing, device>> ELSE WithPrimary(c)

UseContext(t) == (\E c \in Id : WorksOn(t, c)) /\ UNCHANGED <<stacks, bound>>

OpenStream(t) == \E s \in Id :
  /\ \A b \in bound : b[1] # s
  /\ \/ \E c \in Id : WorksOn(t, c) /\ bound' = bound \cup {<<s, c>>}
     \/ /\ Top(t) = None /\ device = None  \* no memory for a primary context
        /\ bound' = bound \cup {<<s, None>>}
        /\ UNCHANGED <<existing, device>>
  /\ UNCHANGED stacks

CloseStream(b) == bound' = bound \ {b} /\ UNCHANGED <<existing, device, stacks>>

StacksNext ==
  \/ \E t \in Thread :
       \/ NewContext(t) \/ PopContext(t) \/ RetainPrimary(t) \/ ResetPrimary(t)
       \/ UseContext(t) \/ OpenStream(t)
       \/ \E c \in Id : DestroyContext(t, c) \/ PushContext(t, c)
       \/ \E c \in Id \cup {None} : MakeCurrent(t, c)
  \/ \E b \in bound : CloseStream(b)

StacksSpec == StacksInit /\ [][StacksNext]_stackVars
=============================================================================
