------------------------------ MODULE Contexts ------------------------------
(***************************************************************************)
(* libcuda's contexts: the primary context under g_lock, and per thread    *)
(* tls_current_ctx with tls_ctx_stack.  A handle is the address of a       *)
(* calloc'ed struct, valid while the struct's magic is that of its kind;   *)
(* contexts, streams and events have structs of one size, so the memory of *)
(* any of them may become another.                                         *)
(*                                                                         *)
(* Each call is one step: a call that does not hold g_lock touches only    *)
(* the thread's own variables and the struct it is given.                  *)
(*                                                                         *)
(* External: the heap hands out any free chunk; the magic of a freed chunk *)
(* is not a valid one (it is zeroed, then the allocator links the chunk).  *)
(***************************************************************************)
EXTENDS Integers, Sequences

CONSTANTS
  Thread,
  Addr,     \* chunks of the heap that hold one such struct
  Nil,      \* the null pointer
  Depth,    \* entries of tls_ctx_stack
  Flags,    \* context flags, 0 among them
  MaxId,    \* bound: contexts and streams created
  Careful   \* does the program destroy a context only when nothing else names it?

ASSUME NilAssumption == Nil \notin Addr
ASSUME FlagsAssumption == 0 \in Flags
ASSUME BoundAssumption == Depth \in Nat /\ MaxId \in Nat
ASSUME CarefulAssumption == Careful \in BOOLEAN

VARIABLES
  obj,          \* address -> the struct there
  primary,      \* g.primary_ctx
  primaryFlags, \* g.primary_flags
  current,      \* thread -> tls_current_ctx
  stack,        \* thread -> tls_ctx_stack up to tls_ctx_depth
  nextId        \* g.next_id

vars == <<obj, primary, primaryFlags, current, stack, nextId>>

Id == 1..MaxId
Kind == {"free", "ctx", "stream", "event"}
Pointer == Addr \cup {Nil}
Struct == [kind : Kind, id : Id \cup {0}, flags : Flags, primary : BOOLEAN, ctx : Pointer]

Blank == [kind |-> "free", id |-> 0, flags |-> 0, primary |-> FALSE, ctx |-> Nil]
Context(id, flags, isPrimary) ==
  [Blank EXCEPT !.kind = "ctx", !.id = id, !.flags = flags, !.primary = isPrimary]
Stream(id, c) == [Blank EXCEPT !.kind = "stream", !.id = id, !.ctx = c]
Event == [Blank EXCEPT !.kind = "event"]

IsKind(a, kind) == a # Nil /\ obj[a].kind = kind
ValidCtx(a) == IsKind(a, "ctx")
FreeChunk == {a \in Addr : obj[a].kind = "free"}
Live(kind) == {a \in Addr : obj[a].kind = kind}

Init ==
  /\ obj = [a \in Addr |-> Blank]
  /\ primary = Nil /\ primaryFlags = 0
  /\ current = [t \in Thread |-> Nil]
  /\ stack = [t \in Thread |-> <<>>]
  /\ nextId = 1

\* What other threads have current, what is on a stack, what a stream belongs to.
NamedElsewhere(t, a) ==
  \/ \E u \in Thread \ {t} : current[u] = a
  \/ \E u \in Thread : \E i \in DOMAIN stack[u] : stack[u][i] = a
  \/ \E s \in Live("stream") : obj[s].ctx = a
MayDestroy(t, a) == Careful => ~NamedElsewhere(t, a)

SetTls(t, a) == current' = [current EXCEPT ![t] = a]
ForgetOwn(t, a) == IF current[t] = a THEN SetTls(t, Nil) ELSE UNCHANGED current

-----------------------------------------------------------------------------
(***************************************************************************)
(* Contexts a program makes.                                               *)
(***************************************************************************)
\* make_context_locked; the caller says where the handle goes.
MakeContext(a, flags, isPrimary) ==
  /\ nextId \in Id
  /\ obj' = [obj EXCEPT ![a] = Context(nextId, flags, isPrimary)]
  /\ nextId' = nextId + 1

\* The new context is current; what was current is not pushed, so no pop restores it.
CtxCreate(t) ==
  \E a \in FreeChunk, f \in Flags :
    /\ MakeContext(a, f, FALSE) /\ SetTls(t, a)
    /\ UNCHANGED <<primary, primaryFlags, stack>>

\* Mutant: the primary context is destroyed like any other.
CtxDestroyAny(t, a) ==
  /\ ValidCtx(a) /\ MayDestroy(t, a)
  /\ ForgetOwn(t, a)
  /\ obj' = [obj EXCEPT ![a] = Blank]
  /\ UNCHANGED <<primary, primaryFlags, stack, nextId>>
\* The primary context is left alone.  Nothing is popped: the thread has no current
\* context and keeps what it pushed.
CtxDestroy(t, a) ==
  /\ ValidCtx(a) /\ ~obj[a].primary /\ MayDestroy(t, a)
  /\ ForgetOwn(t, a)
  /\ obj' = [obj EXCEPT ![a] = Blank]
  /\ UNCHANGED <<primary, primaryFlags, stack, nextId>>

\* The null pointer makes none current and pops nothing.
CtxSetCurrent(t, a) ==
  /\ a = Nil \/ ValidCtx(a)
  /\ SetTls(t, a)
  /\ UNCHANGED <<obj, primary, primaryFlags, stack, nextId>>

CtxPushCurrent(t, a) ==
  /\ ValidCtx(a) /\ Len(stack[t]) < Depth
  /\ stack' = [stack EXCEPT ![t] = Append(@, current[t])]
  /\ SetTls(t, a)
  /\ UNCHANGED <<obj, primary, primaryFlags, nextId>>

\* Mutant: the depth drops after the entry is read, not before.
CtxPopPast(t) ==
  /\ stack' = [stack EXCEPT ![t] = IF @ = <<>> THEN @ ELSE SubSeq(@, 1, Len(@) - 1)]
  /\ SetTls(t, IF Len(stack[t]) < 2 THEN Nil ELSE stack[t][Len(stack[t]) - 1])
  /\ UNCHANGED <<obj, primary, primaryFlags, nextId>>
\* With nothing pushed, nothing is current afterwards.
CtxPopCurrent(t) ==
  /\ stack' = [stack EXCEPT ![t] = IF @ = <<>> THEN @ ELSE SubSeq(@, 1, Len(@) - 1)]
  /\ SetTls(t, IF stack[t] = <<>> THEN Nil ELSE stack[t][Len(stack[t])])
  /\ UNCHANGED <<obj, primary, primaryFlags, nextId>>

-----------------------------------------------------------------------------
(***************************************************************************)
(* The primary context, made when it is first needed.  Releasing it does   *)
(* nothing.                                                                *)
(***************************************************************************)
MakePrimary(a) == MakeContext(a, primaryFlags, TRUE) /\ primary' = a

\* Retaining makes it current.
PrimaryCtxRetain(t) ==
  /\ \/ primary # Nil /\ SetTls(t, primary) /\ UNCHANGED <<obj, primary, nextId>>
     \/ primary = Nil /\ \E a \in FreeChunk : MakePrimary(a) /\ SetTls(t, a)
  /\ UNCHANGED <<primaryFlags, stack>>

PrimaryCtxReset(t) ==
  /\ primary # Nil /\ MayDestroy(t, primary)
  /\ ForgetOwn(t, primary)
  /\ obj' = [obj EXCEPT ![primary] = Blank]
  /\ primary' = Nil
  /\ UNCHANGED <<primaryFlags, stack, nextId>>

PrimaryCtxSetFlags(f) ==
  /\ primaryFlags' = f
  /\ obj' = IF primary = Nil THEN obj ELSE [obj EXCEPT ![primary].flags = f]
  /\ UNCHANGED <<primary, current, stack, nextId>>

\* cuCtxGetDevice, cuCtxGetFlags, cuStreamGetCtx of the null stream: these ask
\* current_or_primary_locked, which may make the primary context.  An invalid
\* current context is passed over.
UseCurrent(t) ==
  /\ ~ValidCtx(current[t]) /\ primary = Nil
  /\ \E a \in FreeChunk : MakePrimary(a)
  /\ UNCHANGED <<primaryFlags, current, stack>>

-----------------------------------------------------------------------------
(***************************************************************************)
(* Streams and events.  A stream takes its identity, then the context it   *)
(* belongs to: none if there is no memory for a primary one.               *)
(***************************************************************************)
StreamIn(s, c) ==
  /\ obj' = [obj EXCEPT ![s] = Stream(nextId, c)]
  /\ nextId' = nextId + 1
  /\ UNCHANGED primary

StreamInNewPrimary(s, a) ==
  /\ nextId + 1 \in Id
  /\ obj' = [obj EXCEPT ![s] = Stream(nextId, a), ![a] = Context(nextId + 1, primaryFlags, TRUE)]
  /\ nextId' = nextId + 2
  /\ primary' = a

StreamCreate(t) ==
  /\ nextId \in Id
  /\ \E s \in FreeChunk :
       \/ ValidCtx(current[t]) /\ StreamIn(s, current[t])
       \/ ~ValidCtx(current[t]) /\ primary # Nil /\ StreamIn(s, primary)
       \/ ~ValidCtx(current[t]) /\ primary = Nil /\ StreamIn(s, Nil)
       \/ /\ ~ValidCtx(current[t]) /\ primary = Nil
          /\ \E a \in FreeChunk \ {s} : StreamInNewPrimary(s, a)
  /\ UNCHANGED <<primaryFlags, current, stack>>

FreeStruct(a) == obj' = [obj EXCEPT ![a] = Blank] /\ UNCHANGED <<primary, primaryFlags, current, stack, nextId>>

StreamDestroy(s) == IsKind(s, "stream") /\ FreeStruct(s)

EventCreate(e) ==
  /\ e \in FreeChunk
  /\ obj' = [obj EXCEPT ![e] = Event]
  /\ UNCHANGED <<primary, primaryFlags, current, stack, nextId>>

EventDestroy(e) == IsKind(e, "event") /\ FreeStruct(e)

-----------------------------------------------------------------------------
Next ==
  \/ \E t \in Thread :
       \/ CtxCreate(t) \/ CtxPopCurrent(t) \/ PrimaryCtxRetain(t) \/ PrimaryCtxReset(t)
       \/ UseCurrent(t) \/ StreamCreate(t)
       \/ \E a \in Addr : CtxDestroy(t, a) \/ CtxPushCurrent(t, a)
       \/ \E a \in Pointer : CtxSetCurrent(t, a)
  \/ \E f \in Flags : PrimaryCtxSetFlags(f)
  \/ \E a \in Addr : StreamDestroy(a) \/ EventCreate(a) \/ EventDestroy(a)

Spec == Init /\ [][Next]_vars

-----------------------------------------------------------------------------
TypeOK ==
  /\ obj \in [Addr -> Struct]
  /\ primary \in Pointer /\ primaryFlags \in Flags
  /\ current \in [Thread -> Pointer]
  /\ stack \in [Thread -> Seq(Pointer)]
  /\ nextId \in 1..(MaxId + 1)

(***************************************************************************)
(* There is at most one primary context, the one g.primary_ctx points to,  *)
(* and its flags are those set for the device - whatever handles a program *)
(* destroys and whichever chunks are used again.                           *)
(***************************************************************************)
OnePrimary ==
  \A a \in (Live("ctx") \cup {primary}) \ {Nil} :
    /\ ValidCtx(a)
    /\ obj[a].primary <=> a = primary
    /\ a = primary => obj[a].flags = primaryFlags

(***************************************************************************)
(* To a careful program a handle is the context or stream it was given,    *)
(* although it is only an address whose memory is used again: freed        *)
(* structs and equal addresses make no difference to the calls, which do   *)
(* what ContextStacks says of identities.                                  *)
(***************************************************************************)
IdAt(a) == IF a = Nil THEN 0 ELSE obj[a].id
StackIds(t) ==
  [i \in 1..(Len(stack[t]) + 1) |-> IF i > Len(stack[t]) THEN IdAt(current[t]) ELSE IdAt(stack[t][i])]

Existing == {obj[a].id : a \in Live("ctx")}
Stacks == [t \in Thread |-> StackIds(t)]
Bound == {<<obj[s].id, IdAt(obj[s].ctx)>> : s \in Live("stream")}

ByIdentity == INSTANCE ContextStacks WITH
  None <- 0, existing <- Existing, device <- IdAt(primary), stacks <- Stacks, bound <- Bound

ImplementsStacks == ByIdentity!StacksSpec

(***************************************************************************)
(* What cuda.h says a thread's stack is after a call, in four places: a    *)
(* context that was current when another was created is restored by        *)
(* cuCtxPopCurrent (6210-6212, 6715-6717); destroying the current context  *)
(* pops it (6640-6642); cuCtxSetCurrent(NULL) is a pop (6751-6753); and    *)
(* retaining the primary context, here for the first time, does not make   *)
(* it current (5938).  The code does none of this, also for a careful      *)
(* program; with Careful = TRUE every one of the four parts is violated.   *)
(***************************************************************************)
AfterPop(t) ==
  /\ current'[t] = IF stack[t] = <<>> THEN Nil ELSE stack[t][Len(stack[t])]
  /\ stack'[t] = IF stack[t] = <<>> THEN <<>> ELSE SubSeq(stack[t], 1, Len(stack[t]) - 1)

CreatePushes(t) ==
  CtxCreate(t) /\ current[t] # Nil => stack'[t] = Append(stack[t], current[t])
DestroyPops(t) ==
  current[t] # Nil /\ CtxDestroy(t, current[t]) => AfterPop(t)
UnbindPops(t) ==
  current[t] # Nil /\ CtxSetCurrent(t, Nil) => AfterPop(t)
RetainLeavesCurrent(t) ==
  primary = Nil /\ PrimaryCtxRetain(t) => current'[t] = current[t]

StackAsDocumented ==
  [][\A t \in Thread :
       CreatePushes(t) /\ DestroyPops(t) /\ UnbindPops(t) /\ RetainLeavesCurrent(t)]_vars

(***************************************************************************)
(* cuda.h:6642-6644: a thread whose current context was destroyed by       *)
(* another keeps it, and its next access reports the destruction.  So no   *)
(* call that works on the current context goes through in such a thread.   *)
(***************************************************************************)
DestroyedIsReported ==
  \A t \in Thread : ENABLED StreamCreate(t) => current[t] = Nil \/ ValidCtx(current[t])
=============================================================================
