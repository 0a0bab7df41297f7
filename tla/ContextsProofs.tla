--------------------------- MODULE ContextsProofs ---------------------------
(***************************************************************************)
(* Proofs about Contexts.                                                  *)
(***************************************************************************)
EXTENDS Contexts, TLAPS, SequenceTheorems

\* What make_context_locked stores is a context with the fields it is given.
LEMMA ContextType ==
  ASSUME NEW id \in Id \cup {0}, NEW f \in Flags, NEW p \in BOOLEAN
  PROVE  /\ Context(id, f, p) \in Struct
         /\ Context(id, f, p).kind = "ctx"
         /\ Context(id, f, p).id = id
         /\ Context(id, f, p).flags = f
         /\ Context(id, f, p).primary = p
  BY DEF Context, Blank, Struct, Kind, Pointer

\* What cuStreamCreate stores is a stream of the context it is given.
LEMMA StreamType ==
  ASSUME NEW id \in Id \cup {0}, NEW c \in Pointer
  PROVE  /\ Stream(id, c) \in Struct
         /\ Stream(id, c).kind = "stream"
         /\ Stream(id, c).id = id
         /\ Stream(id, c).ctx = c
  BY FlagsAssumption DEF Stream, Blank, Struct, Kind, Pointer

\* Freed memory and an event are structs, neither a context.
LEMMA BlankType ==
  /\ Blank \in Struct /\ Blank.kind = "free"
  /\ Event \in Struct /\ Event.kind = "event"
  BY FlagsAssumption DEF Event, Blank, Struct, Kind, Pointer

\* Identities count up to MaxId, and the next one is at most one further.
LEMMA IdType ==
  /\ \A n \in Id : n \in Nat /\ n # 0 /\ n \in Id \cup {0}
  /\ \A n \in 1..(MaxId + 1) : n \in Nat /\ (n \in Id \/ n = MaxId + 1)
  /\ \A n \in Id : n + 1 \in 1..(MaxId + 1)
  /\ \A n \in Id : n + 1 \in Id => n + 2 \in 1..(MaxId + 1)
  BY BoundAssumption DEF Id

\* Popping tls_ctx_stack leaves a stack and gives one of its entries.
LEMMA PopType ==
  ASSUME NEW S, NEW s \in Seq(S), s # <<>>
  PROVE  SubSeq(s, 1, Len(s) - 1) \in Seq(S) /\ s[Len(s)] \in S
  OBVIOUS

\* What make_context_locked returns is a context, with the next identity.
LEMMA MakesContext ==
  ASSUME TypeOK, NEW a \in FreeChunk, NEW f \in Flags, NEW p \in BOOLEAN, MakeContext(a, f, p)
  PROVE  /\ obj' \in [Addr -> Struct] /\ a \in Addr
         /\ obj' = [obj EXCEPT ![a] = Context(nextId, f, p)]
         /\ nextId \in Id /\ nextId' = nextId + 1 /\ nextId' \in 1..(MaxId + 1)
<1>1. a \in Addr /\ obj[a].kind = "free"
  BY DEF FreeChunk
<1>2. nextId \in Id /\ nextId' = nextId + 1 /\ nextId' \in 1..(MaxId + 1)
  BY IdType DEF MakeContext
<1>3. Context(nextId, f, p) \in Struct
  BY <1>2, ContextType, IdType
<1> QED
  BY <1>1, <1>2, <1>3 DEF MakeContext, TypeOK

\* Whatever calls any number of threads make, every handle is null or a chunk, every
\* chunk holds one whole struct or none, and stacks and identities keep their bounds.
THEOREM TypeCorrect == Spec => []TypeOK
PROOF
<1>1. Init => TypeOK
  BY FlagsAssumption, BoundAssumption, BlankType DEF Init, TypeOK, Pointer
<1>2. TypeOK /\ [Next]_vars => TypeOK'
  <2> SUFFICES ASSUME TypeOK, [Next]_vars PROVE TypeOK'
    OBVIOUS
  <2> USE DEF TypeOK
  <2>a. /\ \A a \in FreeChunk : a \in Addr /\ a \in Pointer
        /\ \A a \in Addr : a \in Pointer
        /\ Nil \in Pointer
    BY DEF FreeChunk, Pointer
  <2>1. CASE vars' = vars
    BY <2>1 DEF vars
  <2>2. ASSUME NEW t \in Thread, CtxCreate(t) PROVE TypeOK'
    BY <2>2, <2>a, MakesContext DEF CtxCreate, SetTls
  <2>3. ASSUME NEW t \in Thread, CtxPopCurrent(t) PROVE TypeOK'
    BY <2>3, <2>a, PopType DEF CtxPopCurrent, SetTls
  <2>4. ASSUME NEW t \in Thread, PrimaryCtxRetain(t) PROVE TypeOK'
    BY <2>4, <2>a, MakesContext DEF PrimaryCtxRetain, MakePrimary, SetTls
  <2>5. ASSUME NEW t \in Thread, PrimaryCtxReset(t) PROVE TypeOK'
    BY <2>5, <2>a, BlankType DEF PrimaryCtxReset, ForgetOwn, SetTls
  <2>6. ASSUME NEW t \in Thread, UseCurrent(t) PROVE TypeOK'
    BY <2>6, <2>a, MakesContext DEF UseCurrent, MakePrimary
  <2>7. ASSUME NEW t \in Thread, StreamCreate(t) PROVE TypeOK'
    <3> USE <2>7, <2>a, IdType DEF StreamCreate
    <3>1. ASSUME NEW s \in FreeChunk, NEW c \in Pointer, StreamIn(s, c) PROVE TypeOK'
      BY <3>1, StreamType DEF StreamIn
    <3>2. ASSUME NEW s \in FreeChunk, NEW a \in FreeChunk, StreamInNewPrimary(s, a) PROVE TypeOK'
      BY <3>2, StreamType, ContextType DEF StreamInNewPrimary
    <3> QED BY <3>1, <3>2
  <2>8. ASSUME NEW t \in Thread, NEW a \in Addr, CtxDestroy(t, a) PROVE TypeOK'
    BY <2>8, <2>a, BlankType DEF CtxDestroy, ForgetOwn, SetTls
  <2>9. ASSUME NEW t \in Thread, NEW a \in Addr, CtxPushCurrent(t, a) PROVE TypeOK'
    BY <2>9, <2>a DEF CtxPushCurrent, SetTls
  <2>10. ASSUME NEW t \in Thread, NEW a \in Pointer, CtxSetCurrent(t, a) PROVE TypeOK'
    BY <2>10, <2>a DEF CtxSetCurrent, SetTls
  <2>11. ASSUME NEW f \in Flags, PrimaryCtxSetFlags(f) PROVE TypeOK'
    BY <2>11, <2>a DEF PrimaryCtxSetFlags, Struct
  <2>12. ASSUME NEW a \in Addr, StreamDestroy(a) \/ EventDestroy(a) PROVE TypeOK'
    BY <2>12, BlankType DEF StreamDestroy, EventDestroy, FreeStruct
  <2>13. ASSUME NEW a \in Addr, EventCreate(a) PROVE TypeOK'
    BY <2>13, <2>a, BlankType DEF EventCreate
  <2> QED
    BY <2>1, <2>2, <2>3, <2>4, <2>5, <2>6, <2>7, <2>8, <2>9, <2>10, <2>11, <2>12, <2>13 DEF Next
<1> QED
  BY <1>1, <1>2, PTL DEF Spec

-----------------------------------------------------------------------------
(***************************************************************************)
(* One primary context.  OnePrimary is inductive beside the types; the     *)
(* proof takes it as two facts, of g.primary_ctx and of the other structs. *)
(***************************************************************************)
PrimaryIsOne ==
  primary # Nil =>
    /\ obj[primary].kind = "ctx" /\ obj[primary].primary
    /\ obj[primary].flags = primaryFlags
OthersAreNot ==
  \A a \in Addr : obj[a].kind = "ctx" /\ obj[a].primary => a = primary

\* OnePrimary is these two facts.
LEMMA OnePrimaryMeans ==
  ASSUME TypeOK PROVE OnePrimary <=> PrimaryIsOne /\ OthersAreNot
<1>1. primary \in Addr \/ primary = Nil
  BY DEF TypeOK, Pointer
<1>2. \A a \in Addr : obj[a].primary \in BOOLEAN
  BY DEF TypeOK, Struct
<1> QED
  BY <1>1, <1>2, NilAssumption DEF OnePrimary, PrimaryIsOne, OthersAreNot, ValidCtx, IsKind, Live

\* Whatever handles a program destroys, there is one primary context at most,
\* the one of g.primary_ctx, with the flags set for the device.
THEOREM PrimaryIsOnly == Spec => []OnePrimary
PROOF
<1> DEFINE Inv == TypeOK /\ PrimaryIsOne /\ OthersAreNot
<1>1. Init => Inv
  <2> SUFFICES ASSUME Init PROVE Inv
    OBVIOUS
  <2>1. TypeOK
    BY FlagsAssumption, BoundAssumption, BlankType DEF Init, TypeOK, Pointer
  <2> QED
    BY <2>1, BlankType DEF Init, PrimaryIsOne, OthersAreNot
<1>2. Inv /\ TypeOK' /\ [Next]_vars => Inv'
  <2> SUFFICES ASSUME Inv, TypeOK', [Next]_vars PROVE PrimaryIsOne' /\ OthersAreNot'
    OBVIOUS
  <2>a. primary \in Addr \/ primary = Nil
    BY DEF TypeOK, Pointer
  <2>b. /\ obj \in [Addr -> Struct] /\ primaryFlags \in Flags
        /\ \A a \in FreeChunk : a \in Addr /\ obj[a].kind = "free"
        /\ Nil \notin Addr
    BY NilAssumption DEF TypeOK, FreeChunk
  <2> USE DEF PrimaryIsOne, OthersAreNot
  <2>c. ASSUME NEW a \in FreeChunk, NEW f \in Flags, MakeContext(a, f, FALSE), UNCHANGED <<primary, primaryFlags>>
        PROVE  PrimaryIsOne' /\ OthersAreNot'
    <3>1. obj' = [obj EXCEPT ![a] = Context(nextId, f, FALSE)] /\ nextId \in Id \cup {0}
      BY <2>c DEF MakeContext
    <3>2. Context(nextId, f, FALSE).primary = FALSE
      BY <3>1, ContextType
    <3> QED
      BY <2>a, <2>b, <2>c, <3>1, <3>2
  <2>d. ASSUME NEW a \in FreeChunk, primary = Nil, MakePrimary(a), UNCHANGED primaryFlags
        PROVE  PrimaryIsOne' /\ OthersAreNot'
    <3>1. /\ obj' = [obj EXCEPT ![a] = Context(nextId, primaryFlags, TRUE)]
          /\ nextId \in Id \cup {0} /\ primary' = a
      BY <2>d DEF MakePrimary, MakeContext
    <3>2. /\ Context(nextId, primaryFlags, TRUE).primary = TRUE
          /\ Context(nextId, primaryFlags, TRUE).kind = "ctx"
          /\ Context(nextId, primaryFlags, TRUE).flags = primaryFlags
      <4>1. primaryFlags \in Flags /\ TRUE \in BOOLEAN /\ nextId \in Id \cup {0}
        BY <3>1, <2>b
      <4> QED
        BY <4>1, ContextType
    <3> QED
      BY <2>b, <2>d, <3>1, <3>2
  <2>e. ASSUME NEW a \in Addr, NEW x, x.kind # "ctx", obj' = [obj EXCEPT ![a] = x], a # primary,
               UNCHANGED <<primary, primaryFlags>>
        PROVE  PrimaryIsOne' /\ OthersAreNot'
    BY <2>a, <2>b, <2>e
  <2>1. CASE vars' = vars
    BY <2>1 DEF vars
  <2>2. ASSUME NEW t \in Thread, CtxCreate(t) PROVE PrimaryIsOne' /\ OthersAreNot'
    BY <2>2, <2>c DEF CtxCreate
  <2>3. ASSUME NEW t \in Thread, CtxPopCurrent(t) PROVE PrimaryIsOne' /\ OthersAreNot'
    BY <2>3 DEF CtxPopCurrent
  <2>4. ASSUME NEW t \in Thread, PrimaryCtxRetain(t) PROVE PrimaryIsOne' /\ OthersAreNot'
    BY <2>4, <2>d DEF PrimaryCtxRetain
  <2>5. ASSUME NEW t \in Thread, PrimaryCtxReset(t) PROVE PrimaryIsOne' /\ OthersAreNot'
    BY <2>5, <2>a, <2>b, BlankType DEF PrimaryCtxReset
  <2>6. ASSUME NEW t \in Thread, UseCurrent(t) PROVE PrimaryIsOne' /\ OthersAreNot'
    BY <2>6, <2>d DEF UseCurrent
  <2>7. ASSUME NEW t \in Thread, StreamCreate(t) PROVE PrimaryIsOne' /\ OthersAreNot'
    <3>0. nextId \in Id \cup {0} /\ primaryFlags' = primaryFlags
      BY <2>7 DEF StreamCreate
    <3>1. ASSUME NEW s \in FreeChunk, NEW c \in Pointer, StreamIn(s, c)
          PROVE  PrimaryIsOne' /\ OthersAreNot'
      <4>1. Stream(nextId, c).kind # "ctx"
        BY <3>0, StreamType
      <4> QED
        BY <3>0, <3>1, <4>1, <2>b, <2>e DEF StreamIn
    <3>2. ASSUME primary = Nil, NEW s \in FreeChunk, NEW a \in FreeChunk \ {s}, StreamInNewPrimary(s, a)
          PROVE  PrimaryIsOne' /\ OthersAreNot'
      <4>1. /\ Stream(nextId, a).kind # "ctx"
            /\ Context(nextId + 1, primaryFlags, TRUE).primary = TRUE
            /\ Context(nextId + 1, primaryFlags, TRUE).kind = "ctx"
            /\ Context(nextId + 1, primaryFlags, TRUE).flags = primaryFlags
        <5>1. a \in Pointer /\ nextId + 1 \in Id \cup {0}
          BY <3>2, <2>b DEF StreamInNewPrimary, Pointer
        <5>2. Stream(nextId, a).kind = "stream"
          BY <3>0, <5>1, StreamType
        <5>3. primaryFlags \in Flags /\ TRUE \in BOOLEAN
          BY <2>b
        <5>4. /\ Context(nextId + 1, primaryFlags, TRUE).primary = TRUE
              /\ Context(nextId + 1, primaryFlags, TRUE).kind = "ctx"
              /\ Context(nextId + 1, primaryFlags, TRUE).flags = primaryFlags
          BY <5>1, <5>3, ContextType, ZenonT(60)
        <5> QED
          BY <5>2, <5>4
      <4> QED
        BY <3>0, <3>2, <4>1, <2>b DEF StreamInNewPrimary
    <3>3. \A u \in Thread : current[u] \in Pointer
      BY DEF TypeOK
    <3> QED
      BY <2>7, <3>1, <3>2, <3>3 DEF StreamCreate, TypeOK, Pointer
  <2>8. ASSUME NEW t \in Thread, NEW a \in Addr, CtxDestroy(t, a) PROVE PrimaryIsOne' /\ OthersAreNot'
    BY <2>8, <2>e, BlankType DEF CtxDestroy
  <2>9. ASSUME NEW t \in Thread, NEW a \in Addr, CtxPushCurrent(t, a) PROVE PrimaryIsOne' /\ OthersAreNot'
    BY <2>9 DEF CtxPushCurrent
  <2>10. ASSUME NEW t \in Thread, NEW a \in Pointer, CtxSetCurrent(t, a) PROVE PrimaryIsOne' /\ OthersAreNot'
    BY <2>10 DEF CtxSetCurrent
  <2>11. ASSUME NEW f \in Flags, PrimaryCtxSetFlags(f) PROVE PrimaryIsOne' /\ OthersAreNot'
    BY <2>11, <2>a, <2>b DEF PrimaryCtxSetFlags, Struct
  <2>12. ASSUME NEW a \in Addr, StreamDestroy(a) \/ EventDestroy(a) PROVE PrimaryIsOne' /\ OthersAreNot'
    BY <2>12, <2>b, <2>e, BlankType DEF StreamDestroy, EventDestroy, FreeStruct, IsKind
  <2>13. ASSUME NEW a \in Addr, EventCreate(a) PROVE PrimaryIsOne' /\ OthersAreNot'
    BY <2>13, <2>b, <2>e, BlankType DEF EventCreate
  <2> QED
    BY <2>1, <2>2, <2>3, <2>4, <2>5, <2>6, <2>7, <2>8, <2>9, <2>10, <2>11, <2>12, <2>13 DEF Next
<1>3. Inv => OnePrimary
  BY OnePrimaryMeans
<1> QED
  BY <1>1, <1>2, <1>3, TypeCorrect, PTL DEF Spec

-----------------------------------------------------------------------------
(***************************************************************************)
(* The identities of contexts.  In a careful program whatever is named is  *)
(* null or a context that exists, and no two contexts or streams have one  *)
(* identity; so an address stands for the identity it was given.           *)
(***************************************************************************)
Sound(a) == a = Nil \/ ValidCtx(a)
SoundIn(t) == Sound(current[t]) /\ \A i \in DOMAIN stack[t] : Sound(stack[t][i])
Numbered(a) == obj[a].kind \in {"ctx", "stream"}

NamedInv ==
  /\ \A t \in Thread : SoundIn(t)
  /\ \A s \in Live("stream") : Sound(obj[s].ctx)
  /\ Sound(primary)
IdsInv ==
  /\ \A a \in Addr : Numbered(a) => obj[a].id \in Id /\ obj[a].id < nextId
  /\ \A a, b \in Addr : Numbered(a) /\ Numbered(b) /\ obj[a].id = obj[b].id => a = b
IdentityInv == TypeOK /\ NamedInv /\ IdsInv

\* A function over the first numbers is a sequence of that length.
LEMMA SequenceOf ==
  ASSUME NEW S, NEW n \in Nat, NEW f \in [1..n -> S]
  PROVE  f \in Seq(S) /\ Len(f) = n
<1>1. f \in Seq(S)
  BY SeqDef
<1>2. Len(f) \in Nat /\ DOMAIN f = 1..Len(f) /\ DOMAIN f = 1..n
  BY <1>1, LenProperties
<1> QED
  BY <1>1, <1>2

\* The types of what is named.
LEMMA NamesTyped ==
  ASSUME TypeOK
  PROVE  /\ obj \in [Addr -> Struct] /\ Nil \notin Addr /\ primary \in Pointer
         /\ \A t \in Thread : /\ current[t] \in Pointer /\ stack[t] \in Seq(Pointer) /\ Len(stack[t]) \in Nat
                              /\ DOMAIN stack[t] = 1..Len(stack[t])
                              /\ \A i \in 1..Len(stack[t]) : stack[t][i] \in Pointer
         /\ \A x \in Pointer : IdAt(x) \in Id \cup {0}
         /\ \A x \in Addr : obj[x].ctx \in Pointer
<1>1. obj \in [Addr -> Struct] /\ Nil \notin Addr /\ primary \in Pointer
  BY NilAssumption DEF TypeOK
<1>2. ASSUME NEW t \in Thread
      PROVE  /\ current[t] \in Pointer /\ stack[t] \in Seq(Pointer) /\ Len(stack[t]) \in Nat
             /\ DOMAIN stack[t] = 1..Len(stack[t])
             /\ \A i \in 1..Len(stack[t]) : stack[t][i] \in Pointer
  <2>1. current[t] \in Pointer /\ stack[t] \in Seq(Pointer)
    BY DEF TypeOK
  <2> QED
    BY <2>1, LenProperties, ElementOfSeq
<1>3. \A x \in Pointer : IdAt(x) \in Id \cup {0}
  BY <1>1 DEF Pointer, IdAt, Struct
<1>4. \A x \in Addr : obj[x].ctx \in Pointer
  BY <1>1 DEF Struct
<1> QED
  BY <1>1, <1>2, <1>3, <1>4

\* A thread's stack of identities, entry by entry.
LEMMA StackOf ==
  ASSUME TypeOK, NEW t \in Thread
  PROVE  /\ StackIds(t) \in Seq(Id \cup {0}) /\ Len(StackIds(t)) = Len(stack[t]) + 1
         /\ Stacks[t] = StackIds(t) /\ Stacks \in [Thread -> Seq(Id \cup {0})]
         /\ ByIdentity!Top(t) = IdAt(current[t])
<1> DEFINE f(u) == StackIds(u)
<1>1. ASSUME NEW u \in Thread
      PROVE  StackIds(u) \in Seq(Id \cup {0}) /\ Len(StackIds(u)) = Len(stack[u]) + 1
             /\ StackIds(u)[Len(stack[u]) + 1] = IdAt(current[u])
  <2> DEFINE n == Len(stack[u])
  <2>1. /\ n \in Nat /\ IdAt(current[u]) \in Id \cup {0}
        /\ \A i \in 1..n : IdAt(stack[u][i]) \in Id \cup {0}
    BY NamesTyped
  <2>2. StackIds(u) = [i \in 1..(n + 1) |-> IF i > n THEN IdAt(current[u]) ELSE IdAt(stack[u][i])]
    BY DEF StackIds
  <2> HIDE DEF n
  <2>3. StackIds(u) \in [1..(n + 1) -> Id \cup {0}] /\ n + 1 \in Nat
    BY <2>1, <2>2
  <2>4. StackIds(u)[n + 1] = IdAt(current[u])
    BY <2>1, <2>2
  <2> QED
    BY <2>3, <2>4, SequenceOf DEF n
<1>2. Stacks \in [Thread -> Seq(Id \cup {0})] /\ Stacks[t] = StackIds(t)
  BY <1>1 DEF Stacks
<1> QED
  BY <1>1, <1>2 DEF ByIdentity!Top

\* A step that renames nothing a thread has leaves its stack of identities.
LEMMA StackSame ==
  ASSUME TypeOK, NEW t \in Thread, stack'[t] = stack[t], IdAt(current[t])' = IdAt(current[t]),
         \A i \in DOMAIN stack[t] : IdAt(stack[t][i])' = IdAt(stack[t][i])
  PROVE  StackIds(t)' = StackIds(t)
<1>1. DOMAIN stack[t] = 1..Len(stack[t])
  BY NamesTyped
<1>2. \A i \in 1..Len(stack[t]) : IdAt(stack[t][i])' = IdAt(stack[t][i])
  BY <1>1 DEF IdAt
<1> QED
  BY <1>1, <1>2 DEF StackIds

\* A step that makes another context current replaces the top of the stack.
LEMMA TopReplaced ==
  ASSUME TypeOK, NEW t \in Thread, stack'[t] = stack[t], NEW c, IdAt(current[t])' = c,
         \A i \in DOMAIN stack[t] : IdAt(stack[t][i])' = IdAt(stack[t][i])
  PROVE  StackIds(t)' = [StackIds(t) EXCEPT ![Len(StackIds(t))] = c]
<1> DEFINE n == Len(stack[t])
<1>1. n \in Nat /\ DOMAIN stack[t] = 1..n /\ Len(StackIds(t)) = n + 1
  BY NamesTyped, StackOf
<1>2. \A i \in 1..n : IdAt(stack[t][i])' = IdAt(stack[t][i])
  BY <1>1 DEF IdAt
<1>3. StackIds(t)' = [i \in 1..(n + 1) |-> IF i > n THEN c ELSE IdAt(stack[t][i])]
  BY <1>1, <1>2 DEF StackIds
<1>4. StackIds(t) = [i \in 1..(n + 1) |-> IF i > n THEN IdAt(current[t]) ELSE IdAt(stack[t][i])]
  BY DEF StackIds
<1> HIDE DEF n
<1>5. \A i \in 1..(n + 1) : i > n <=> i = n + 1
  BY <1>1
<1> QED
  BY <1>1, <1>3, <1>4, <1>5

\* Of all stacks one is another, or none is.
LEMMA OneStack ==
  ASSUME NEW t \in Thread, NEW s, StackIds(t)' = s, \A u \in Thread \ {t} : StackIds(u)' = StackIds(u)
  PROVE  Stacks' = [Stacks EXCEPT ![t] = s]
<1>1. Stacks' = [u \in Thread |-> StackIds(u)'] /\ Stacks = [u \in Thread |-> StackIds(u)]
  BY DEF Stacks
<1>2. \A u \in Thread : StackIds(u)' = IF u = t THEN s ELSE StackIds(u)
  OBVIOUS
<1> HIDE DEF Stacks
<1> QED
  BY <1>1, <1>2

\* A thread is given another current context, and the others are left alone.
LEMMA OthersTop ==
  ASSUME TypeOK, NEW t \in Thread, stack' = stack, NEW c, IdAt(current[t])' = c,
         \A u \in Thread \ {t} : IdAt(current[u])' = IdAt(current[u]),
         \A u \in Thread : \A i \in DOMAIN stack[u] : IdAt(stack[u][i])' = IdAt(stack[u][i])
  PROVE  Stacks' = ByIdentity!WithTop(t, c)
<1>1. \A u \in Thread \ {t} : StackIds(u)' = StackIds(u)
  BY StackSame
<1>2. StackIds(t)' = [StackIds(t) EXCEPT ![Len(StackIds(t))] = c]
  BY TopReplaced
<1>3. Stacks' = [Stacks EXCEPT ![t] = [StackIds(t) EXCEPT ![Len(StackIds(t))] = c]]
  BY <1>1, <1>2, OneStack
<1>4. Stacks[t] = StackIds(t)
  BY StackOf
<1> QED
  BY <1>3, <1>4 DEF ByIdentity!WithTop

\* No stack changes.
LEMMA StacksSame ==
  ASSUME TypeOK, stack' = stack, \A u \in Thread : IdAt(current[u])' = IdAt(current[u]),
         \A u \in Thread : \A i \in DOMAIN stack[u] : IdAt(stack[u][i])' = IdAt(stack[u][i])
  PROVE  Stacks' = Stacks
<1>1. \A u \in Thread : StackIds(u)' = StackIds(u)
  BY StackSame
<1> QED
  BY <1>1 DEF Stacks

\* What threads have is sound, and stays so with its identity.
LEMMA NamesKept ==
  ASSUME TypeOK, NamedInv, stack' = stack, \A x \in Pointer : Sound(x) => Sound(x)' /\ IdAt(x)' = IdAt(x)
  PROVE  /\ \A u \in Thread : current'[u] = current[u] =>
              Sound(current[u])' /\ IdAt(current[u])' = IdAt(current[u])
         /\ \A u \in Thread : \A i \in DOMAIN stack[u] :
              Sound(stack[u][i])' /\ IdAt(stack[u][i])' = IdAt(stack[u][i])
         /\ primary' = primary => Sound(primary)' /\ IdAt(primary)' = IdAt(primary)
BY NamesTyped DEF NamedInv, SoundIn, Sound, ValidCtx, IsKind, IdAt

-----------------------------------------------------------------------------
(***************************************************************************)
(* What becomes of the identities when a struct is made or freed.          *)
(***************************************************************************)
\* The contexts there are, and the streams with the contexts they belong to.
LEMMA Members ==
  /\ \A c : c \in Existing <=> \E a \in Addr : obj[a].kind = "ctx" /\ c = obj[a].id
  /\ \A b : b \in Bound <=> \E s \in Addr : obj[s].kind = "stream" /\ b = <<obj[s].id, IdAt(obj[s].ctx)>>
BY DEF Existing, Bound, Live

\* Of a pointer that is sound the identity is that of a context, and no other pointer's.
LEMMA SoundIds ==
  ASSUME IdentityInv, NEW x \in Pointer, NEW y \in Pointer, Sound(x), Sound(y)
  PROVE  /\ IdAt(x) = IdAt(y) => x = y
         /\ x # Nil => IdAt(x) \in Existing /\ IdAt(x) \in Id /\ IdAt(x) # 0
         /\ x = Nil => IdAt(x) = 0
<1>1. \A z \in Pointer : Sound(z) /\ z # Nil => z \in Addr /\ Numbered(z) /\ obj[z].kind = "ctx" /\ IdAt(z) = obj[z].id
  BY DEF Sound, ValidCtx, IsKind, Numbered, Pointer, IdAt
<1>2. \A z \in Pointer : Sound(z) /\ z # Nil => IdAt(z) \in Id /\ IdAt(z) # 0 /\ IdAt(z) \in Existing
  BY <1>1, IdType, Members DEF IdentityInv, IdsInv
<1>3. Nil \notin Addr /\ IdAt(Nil) = 0
  BY NilAssumption DEF IdAt
<1> QED
  BY <1>1, <1>2, <1>3 DEF IdentityInv, IdsInv

\* Whatever takes the next identity, no two have the same.
LEMMA NumbersGrow ==
  ASSUME IdsInv, NEW a \in Addr, NEW new, new.id = nextId, new.kind \in {"ctx", "stream"}, nextId \in Id,
         \A x \in Addr : obj'[x] = IF x = a THEN new ELSE obj[x], nextId' = nextId + 1
  PROVE  IdsInv'
<1>1. \A b \in Addr : Numbered(b) => obj[b].id \in Id /\ obj[b].id < nextId /\ obj[b].id # nextId
  BY IdType DEF IdsInv
<1>2. \A x \in Addr : (Numbered(x) /\ x # a) \/ x = a <=> Numbered(x)'
  BY DEF Numbered
<1>3. nextId \in Nat /\ nextId < nextId'
  BY IdType
<1>4. \A x \in Addr : obj'[x].id = IF x = a THEN nextId ELSE obj[x].id
  OBVIOUS
<1>5. ASSUME NEW x \in Addr, Numbered(x)' PROVE obj'[x].id \in Id /\ obj'[x].id < nextId'
  <2>1. CASE x = a
    BY <1>3, <1>4, <2>1
  <2>2. CASE x # a
    <3>1. obj[x].id \in Id /\ obj[x].id < nextId /\ obj'[x].id = obj[x].id
      BY <1>1, <1>2, <1>4, <1>5, <2>2
    <3>2. obj[x].id \in Nat
      BY <3>1, IdType
    <3> QED
      BY <1>3, <3>1, <3>2
  <2> QED
    BY <2>1, <2>2
<1>6. ASSUME NEW x \in Addr, NEW y \in Addr, Numbered(x)', Numbered(y)', obj'[x].id = obj'[y].id PROVE x = y
  BY <1>1, <1>2, <1>4, <1>6 DEF IdsInv
<1> QED
  BY <1>5, <1>6 DEF IdsInv

\* The streams are the same ones, with the contexts they belonged to.
LEMMA StreamsSame ==
  ASSUME IdentityInv,
         \A s \in Addr : obj'[s].kind = "stream" <=> obj[s].kind = "stream",
         \A s \in Addr : obj[s].kind = "stream" => obj'[s] = obj[s],
         \A s \in Addr : obj[s].kind = "stream" => Sound(obj[s].ctx)' /\ IdAt(obj[s].ctx)' = IdAt(obj[s].ctx)
  PROVE  Bound' = Bound /\ (\A s \in Live("stream") : Sound(obj[s].ctx))'
<1>1. \A b : b \in Bound' <=> \E s \in Addr : obj'[s].kind = "stream" /\ b = <<obj'[s].id, IdAt(obj[s].ctx)'>>
  BY DEF Bound, Live, IdAt
<1>2. \A s \in Addr : obj[s].kind = "stream" => <<obj'[s].id, IdAt(obj[s].ctx)'>> = <<obj[s].id, IdAt(obj[s].ctx)>>
  OBVIOUS
<1>3. \A b : b \in Bound' <=> \E s \in Addr : obj[s].kind = "stream" /\ b = <<obj[s].id, IdAt(obj[s].ctx)>>
  BY <1>1, <1>2
<1>4. \A b : b \in Bound' <=> b \in Bound
  BY <1>3, Members
<1>5. Bound' = Bound
  BY <1>4, Zenon
<1>6. (\A s \in Live("stream") : Sound(obj[s].ctx))'
  BY DEF Live, Sound, ValidCtx, IsKind
<1> QED
  BY <1>5, <1>6

\* A context is made.
LEMMA ContextMade ==
  ASSUME IdentityInv, NEW a \in FreeChunk, NEW f \in Flags, NEW p \in BOOLEAN, MakeContext(a, f, p)
  PROVE  /\ \A x \in Pointer : Sound(x) => Sound(x)' /\ IdAt(x)' = IdAt(x)
         /\ a \in Addr /\ Sound(a)' /\ a # Nil
         /\ \A x : x = a => IdAt(x)' = nextId
         /\ nextId \in Id \ Existing /\ Existing' = Existing \cup {nextId} /\ Bound' = Bound
         /\ IdsInv' /\ (\A s \in Live("stream") : Sound(obj[s].ctx))'
<1> DEFINE new == Context(nextId, f, p)
<1>1. /\ a \in Addr /\ obj[a].kind = "free" /\ a # Nil /\ Nil \notin Addr /\ nextId \in Id /\ nextId' = nextId + 1
      /\ obj' = [obj EXCEPT ![a] = new] /\ obj \in [Addr -> Struct]
  BY NilAssumption, NamesTyped DEF FreeChunk, MakeContext, IdentityInv
<1>2. new.kind = "ctx" /\ new.id = nextId
  BY <1>1, ContextType, IdType
<1> HIDE DEF new
<1>3. \A x \in Addr : obj'[x] = IF x = a THEN new ELSE obj[x]
  BY <1>1
<1>4. \A x \in Pointer : Sound(x) => x # a
  BY <1>1 DEF Sound, ValidCtx, IsKind
<1>5. \A x \in Pointer : Sound(x) /\ x # Nil => obj'[x] = obj[x]
  BY <1>1, <1>4
<1>6. \A x \in Pointer : Sound(x) => Sound(x)' /\ IdAt(x)' = IdAt(x)
  BY <1>5 DEF Sound, ValidCtx, IsKind, IdAt
<1>7. Sound(a)' /\ \A x : x = a => IdAt(x)' = nextId
  BY <1>1, <1>2, <1>3 DEF Sound, ValidCtx, IsKind, IdAt
<1>8. \A b \in Addr : Numbered(b) => obj[b].id \in Id /\ obj[b].id < nextId /\ obj[b].id # nextId
  BY <1>1, IdType DEF IdentityInv, IdsInv
<1>9. nextId \notin Existing
  BY <1>8, Members DEF Numbered
<1>10. Existing' = Existing \cup {nextId}
  <2>1. \A c : c \in Existing' <=> \E b \in Addr : obj'[b].kind = "ctx" /\ c = obj'[b].id
    BY DEF Existing, Live
  <2> QED
    BY <1>1, <1>2, <1>3, <2>1, Members
<1>11. \A s \in Addr : obj'[s].kind = "stream" <=> obj[s].kind = "stream"
  BY <1>1, <1>2, <1>3
<1>12. \A s \in Addr : obj[s].kind = "stream" => obj'[s] = obj[s] /\ Sound(obj[s].ctx) /\ obj[s].ctx \in Pointer
  BY <1>1, <1>3, NamesTyped DEF IdentityInv, NamedInv, Live
<1>13. Bound' = Bound /\ (\A s \in Live("stream") : Sound(obj[s].ctx))'
  BY <1>6, <1>11, <1>12, StreamsSame
<1>14. IdsInv'
  BY <1>1, <1>2, <1>3, NumbersGrow DEF IdentityInv
<1> QED
  BY <1>1, <1>6, <1>7, <1>9, <1>10, <1>13, <1>14

\* A stream of a context that exists, or of none, is made.
LEMMA StreamMade ==
  ASSUME IdentityInv, nextId \in Id, NEW s \in FreeChunk, NEW c \in Pointer, Sound(c),
         obj' = [obj EXCEPT ![s] = Stream(nextId, c)], nextId' = nextId + 1
  PROVE  /\ \A x \in Pointer : Sound(x) => Sound(x)' /\ IdAt(x)' = IdAt(x)
         /\ Existing' = Existing /\ Bound' = Bound \cup {<<nextId, IdAt(c)>>}
         /\ \A b \in Bound : b[1] # nextId
         /\ IdsInv' /\ (\A x \in Live("stream") : Sound(obj[x].ctx))'
<1> DEFINE new == Stream(nextId, c)
<1>1. s \in Addr /\ obj[s].kind = "free" /\ Nil \notin Addr /\ obj \in [Addr -> Struct] /\ s # Nil
  BY NilAssumption, NamesTyped DEF FreeChunk, IdentityInv
<1>2. new.kind = "stream" /\ new.id = nextId /\ new.ctx = c
  BY StreamType, IdType
<1> HIDE DEF new
<1>3. \A x \in Addr : obj'[x] = IF x = s THEN new ELSE obj[x]
  BY <1>1 DEF new
<1>4. \A x \in Pointer : Sound(x) => x # s
  BY <1>1 DEF Sound, ValidCtx, IsKind
<1>5. \A x \in Pointer : Sound(x) /\ x # Nil => obj'[x] = obj[x]
  BY <1>1, <1>4
<1>6. \A x \in Pointer : Sound(x) => Sound(x)' /\ IdAt(x)' = IdAt(x)
  BY <1>5 DEF Sound, ValidCtx, IsKind, IdAt
<1>7. \A b \in Addr : Numbered(b) => obj[b].id \in Id /\ obj[b].id < nextId /\ obj[b].id # nextId
  BY IdType DEF IdentityInv, IdsInv
<1>8. Existing' = Existing
  <2>1. \A d : d \in Existing' <=> \E b \in Addr : obj'[b].kind = "ctx" /\ d = obj'[b].id
    BY DEF Existing, Live
  <2>2. \A d : d \in Existing' <=> d \in Existing
    BY <1>1, <1>2, <1>3, <2>1, Members
  <2> QED
    BY <2>2, Zenon
<1>9. \A x \in Addr : obj[x].kind = "stream" => x # s /\ obj'[x] = obj[x] /\ Sound(obj[x].ctx) /\ obj[x].ctx \in Pointer
  BY <1>1, <1>3, NamesTyped DEF IdentityInv, NamedInv, Live
<1>10. \A x \in Addr : obj'[x].kind = "stream" <=> x = s \/ obj[x].kind = "stream"
  BY <1>1, <1>2, <1>3
<1>11. IdAt(obj[s].ctx)' = IdAt(c) /\ Sound(obj[s].ctx)' /\ obj'[s].id = nextId
  BY <1>1, <1>2, <1>3, <1>6 DEF Sound, ValidCtx, IsKind, IdAt
<1>12. Bound' = Bound \cup {<<nextId, IdAt(c)>>}
  <2>1. \A b : b \in Bound' <=> \E x \in Addr : obj'[x].kind = "stream" /\ b = <<obj'[x].id, IdAt(obj[x].ctx)'>>
    BY DEF Bound, Live, IdAt
  <2>2. \A x \in Addr : obj[x].kind = "stream" => <<obj'[x].id, IdAt(obj[x].ctx)'>> = <<obj[x].id, IdAt(obj[x].ctx)>>
    BY <1>6, <1>9 DEF IdAt
  <2>3. \A b : b \in Bound' <=> b = <<obj'[s].id, IdAt(obj[s].ctx)'>> \/ \E x \in Addr : obj[x].kind = "stream" /\ b = <<obj[x].id, IdAt(obj[x].ctx)>>
    BY <1>1, <1>10, <2>1, <2>2
  <2>4. \A b : b \in Bound' <=> b = <<nextId, IdAt(c)>> \/ b \in Bound
    BY <1>11, <2>3, Members
  <2> QED
    BY <2>4, Zenon
<1>13. \A b \in Bound : b[1] # nextId
  <2>1. ASSUME NEW b \in Bound PROVE b[1] # nextId
    <3>1. PICK x \in Addr : obj[x].kind = "stream" /\ b = <<obj[x].id, IdAt(obj[x].ctx)>>
      BY <2>1, Members
    <3>2. b[1] = obj[x].id
      BY <3>1
    <3> QED
      BY <1>7, <3>1, <3>2 DEF Numbered
  <2> QED
    BY <2>1
<1>14. (\A x \in Live("stream") : Sound(obj[x].ctx))'
  BY <1>6, <1>9, <1>10, <1>11 DEF Live, Sound, ValidCtx, IsKind
<1>15. IdsInv'
  BY <1>1, <1>2, <1>3, <1>7, NumbersGrow DEF IdentityInv
<1> QED
  BY <1>6, <1>8, <1>12, <1>13, <1>14, <1>15

\* A struct that is neither a context nor a stream takes the place of another such, or of a stream.
LEMMA StructReplaced ==
  ASSUME IdentityInv, NEW a \in Addr, NEW new, obj' = [obj EXCEPT ![a] = new], nextId' = nextId,
         new.kind \notin {"ctx", "stream"}, obj[a].kind # "ctx"
  PROVE  /\ \A x \in Pointer : Sound(x) => Sound(x)' /\ IdAt(x)' = IdAt(x)
         /\ Existing' = Existing
         /\ Bound' = IF obj[a].kind = "stream" THEN Bound \ {<<obj[a].id, IdAt(obj[a].ctx)>>} ELSE Bound
         /\ IdsInv' /\ (\A x \in Live("stream") : Sound(obj[x].ctx))'
<1>1. Nil \notin Addr /\ obj \in [Addr -> Struct] /\ a # Nil
  BY NilAssumption, NamesTyped DEF IdentityInv
<1>2. \A x \in Addr : obj'[x] = IF x = a THEN new ELSE obj[x]
  BY <1>1
<1>3. \A x \in Pointer : Sound(x) => x # a
  BY <1>1 DEF Sound, ValidCtx, IsKind
<1>4. \A x \in Pointer : Sound(x) /\ x # Nil => obj'[x] = obj[x]
  BY <1>1, <1>3
<1>5. \A x \in Pointer : Sound(x) => Sound(x)' /\ IdAt(x)' = IdAt(x)
  BY <1>4 DEF Sound, ValidCtx, IsKind, IdAt
<1>6. Existing' = Existing
  <2>1. \A d : d \in Existing' <=> \E b \in Addr : obj'[b].kind = "ctx" /\ d = obj'[b].id
    BY DEF Existing, Live
  <2>2. \A d : d \in Existing' <=> d \in Existing
    BY <1>1, <1>2, <2>1, Members
  <2> QED
    BY <2>2, Zenon
<1>7. \A x \in Addr : obj'[x].kind = "stream" <=> x # a /\ obj[x].kind = "stream"
  BY <1>2
<1>8. \A x \in Addr : x # a /\ obj[x].kind = "stream" => obj'[x] = obj[x] /\ Sound(obj[x].ctx) /\ obj[x].ctx \in Pointer
  BY <1>2, NamesTyped DEF IdentityInv, NamedInv, Live
<1>9. Bound' = IF obj[a].kind = "stream" THEN Bound \ {<<obj[a].id, IdAt(obj[a].ctx)>>} ELSE Bound
  <2>1. \A b : b \in Bound' <=> \E x \in Addr : obj'[x].kind = "stream" /\ b = <<obj'[x].id, IdAt(obj[x].ctx)'>>
    BY DEF Bound, Live, IdAt
  <2>2. \A x \in Addr : x # a /\ obj[x].kind = "stream" =>
          <<obj'[x].id, IdAt(obj[x].ctx)'>> = <<obj[x].id, IdAt(obj[x].ctx)>>
    BY <1>5, <1>8 DEF IdAt
  <2>3. \A b : b \in Bound' <=> \E x \in Addr : x # a /\ obj[x].kind = "stream" /\ b = <<obj[x].id, IdAt(obj[x].ctx)>>
    BY <1>7, <2>1, <2>2
  <2>4. \A x \in Addr : x # a /\ obj[x].kind = "stream" /\ obj[a].kind = "stream" =>
          <<obj[x].id, IdAt(obj[x].ctx)>> # <<obj[a].id, IdAt(obj[a].ctx)>>
    BY DEF IdentityInv, IdsInv, Numbered
  <2>5. CASE obj[a].kind = "stream"
    <3>1. \A b : b \in Bound' <=> b \in Bound /\ b # <<obj[a].id, IdAt(obj[a].ctx)>>
      BY <2>3, <2>4, <2>5, Members
    <3>2. Bound' = Bound \ {<<obj[a].id, IdAt(obj[a].ctx)>>}
      BY <3>1
    <3> QED
      BY <2>5, <3>2
  <2>6. CASE obj[a].kind # "stream"
    <3>1. \A b : b \in Bound' <=> b \in Bound
      BY <2>3, <2>6, Members
    <3>2. Bound' = Bound
      BY <3>1, Zenon
    <3> QED
      BY <2>6, <3>2
  <2> QED
    BY <2>5, <2>6
<1>10. (\A x \in Live("stream") : Sound(obj[x].ctx))'
  BY <1>5, <1>7, <1>8 DEF Live, Sound, ValidCtx, IsKind
<1>11. IdsInv'
  BY <1>2 DEF IdentityInv, IdsInv, Numbered
<1> QED
  BY <1>5, <1>6, <1>9, <1>10, <1>11

\* A context that no stream belongs to is destroyed.
LEMMA ContextFreed ==
  ASSUME IdentityInv, NEW a \in Addr, obj' = [obj EXCEPT ![a] = Blank], nextId' = nextId,
         obj[a].kind = "ctx", \A s \in Live("stream") : obj[s].ctx # a
  PROVE  /\ \A x \in Pointer : Sound(x) /\ x # a => Sound(x)' /\ IdAt(x)' = IdAt(x)
         /\ IdAt(a) \in Existing /\ Existing' = Existing \ {IdAt(a)} /\ Bound' = Bound
         /\ IdsInv' /\ (\A x \in Live("stream") : Sound(obj[x].ctx))'
<1>1. Nil \notin Addr /\ obj \in [Addr -> Struct] /\ a # Nil /\ Blank.kind = "free"
  BY NilAssumption, NamesTyped, BlankType DEF IdentityInv
<1>2. \A x \in Addr : obj'[x] = IF x = a THEN Blank ELSE obj[x]
  BY <1>1
<1>3. \A x \in Pointer : Sound(x) /\ x # a /\ x # Nil => obj'[x] = obj[x]
  BY <1>1
<1>4. \A x \in Pointer : Sound(x) /\ x # a => Sound(x)' /\ IdAt(x)' = IdAt(x)
  BY <1>3 DEF Sound, ValidCtx, IsKind, IdAt
<1>5. IdAt(a) = obj[a].id
  BY <1>1 DEF IdAt
<1>6. IdAt(a) \in Existing
  BY <1>5, Members
<1>7. Existing' = Existing \ {IdAt(a)}
  <2>1. \A d : d \in Existing' <=> \E b \in Addr : obj'[b].kind = "ctx" /\ d = obj'[b].id
    BY DEF Existing, Live
  <2>2. \A b \in Addr : obj[b].kind = "ctx" /\ b # a => obj[b].id # obj[a].id
    BY DEF IdentityInv, IdsInv, Numbered
  <2> QED
    BY <1>1, <1>2, <1>5, <2>1, <2>2, Members
<1>8. \A x \in Addr : obj'[x].kind = "stream" <=> obj[x].kind = "stream"
  BY <1>1, <1>2
<1>9. \A x \in Addr : obj[x].kind = "stream" => obj'[x] = obj[x] /\ Sound(obj[x].ctx) /\ obj[x].ctx # a /\ obj[x].ctx \in Pointer
  BY <1>2, NamesTyped DEF IdentityInv, NamedInv, Live
<1>10. Bound' = Bound /\ (\A x \in Live("stream") : Sound(obj[x].ctx))'
  BY <1>4, <1>8, <1>9, StreamsSame DEF IdAt
<1>11. IdsInv'
  BY <1>1, <1>2 DEF IdentityInv, IdsInv, Numbered
<1> QED
  BY <1>4, <1>6, <1>7, <1>10, <1>11

-----------------------------------------------------------------------------
(***************************************************************************)
(* Each call of a careful program keeps the invariant and is a step of     *)
(* ContextStacks, or changes nothing that module speaks of.                *)
(***************************************************************************)
Simulates == NamedInv' /\ IdsInv' /\ (ByIdentity!StacksNext \/ UNCHANGED ByIdentity!stackVars)

\* A context is created.
LEMMA SimCreate ==
  ASSUME IdentityInv, TypeOK', NEW t \in Thread, CtxCreate(t) PROVE Simulates
<1>1. PICK a \in FreeChunk, f \in Flags : MakeContext(a, f, FALSE) /\ SetTls(t, a)
  BY DEF CtxCreate
<1>2. stack' = stack /\ primary' = primary /\ current' = [current EXCEPT ![t] = a]
  BY <1>1 DEF CtxCreate, SetTls
<1>3. /\ \A x \in Pointer : Sound(x) => Sound(x)' /\ IdAt(x)' = IdAt(x)
      /\ a \in Addr /\ Sound(a)' /\ a # Nil /\ \A x : x = a => IdAt(x)' = nextId
      /\ nextId \in Id \ Existing /\ Existing' = Existing \cup {nextId} /\ Bound' = Bound
      /\ IdsInv' /\ (\A s \in Live("stream") : Sound(obj[s].ctx))'
  BY <1>1, ContextMade
<1>4. TypeOK /\ NamedInv /\ current \in [Thread -> Pointer]
  BY DEF IdentityInv, TypeOK
<1>5. current'[t] = a /\ \A u \in Thread \ {t} : current'[u] = current[u]
  BY <1>2, <1>4
<1>6. /\ \A u \in Thread \ {t} : Sound(current[u])' /\ IdAt(current[u])' = IdAt(current[u])
      /\ \A u \in Thread : \A i \in DOMAIN stack[u] : Sound(stack[u][i])' /\ IdAt(stack[u][i])' = IdAt(stack[u][i])
      /\ Sound(primary)' /\ IdAt(primary)' = IdAt(primary)
  BY <1>2, <1>3, <1>4, <1>5, NamesKept
<1>7. Sound(current[t])' /\ IdAt(current[t])' = nextId
  BY <1>3, <1>5 DEF Sound, ValidCtx, IsKind, IdAt
<1>8. Stacks' = ByIdentity!WithTop(t, nextId)
  BY <1>2, <1>4, <1>6, <1>7, OthersTop
<1>9. NamedInv'
  BY <1>2, <1>3, <1>6, <1>7 DEF NamedInv, SoundIn, Sound, ValidCtx, IsKind
<1>10. ByIdentity!NewContext(t)
  BY <1>3, <1>6, <1>8 DEF ByIdentity!NewContext
<1> QED
  BY <1>3, <1>9, <1>10 DEF Simulates, ByIdentity!StacksNext

\* A context is destroyed that no other thread, no stack and no stream names.
LEMMA SimFreed ==
  ASSUME IdentityInv, TypeOK', NEW t \in Thread, NEW a \in Addr, obj[a].kind = "ctx", ~NamedElsewhere(t, a),
         ForgetOwn(t, a), obj' = [obj EXCEPT ![a] = Blank], nextId' = nextId, stack' = stack
  PROVE  /\ \A u \in Thread : SoundIn(u)'
         /\ (\A x \in Live("stream") : Sound(obj[x].ctx))' /\ IdsInv'
         /\ Existing' = Existing \ {IdAt(a)} /\ IdAt(a) \in Existing /\ Bound' = Bound
         /\ Stacks' = IF ByIdentity!Top(t) = IdAt(a) THEN ByIdentity!WithTop(t, 0) ELSE Stacks
         /\ IdAt(a) \notin ByIdentity!NamedByOthers(t)
<1>1. /\ \A u \in Thread \ {t} : current[u] # a
      /\ \A u \in Thread : \A i \in DOMAIN stack[u] : stack[u][i] # a
      /\ \A s \in Live("stream") : obj[s].ctx # a
  BY DEF NamedElsewhere
<1>2. /\ \A x \in Pointer : Sound(x) /\ x # a => Sound(x)' /\ IdAt(x)' = IdAt(x)
      /\ IdAt(a) \in Existing /\ Existing' = Existing \ {IdAt(a)} /\ Bound' = Bound
      /\ IdsInv' /\ (\A x \in Live("stream") : Sound(obj[x].ctx))'
  BY <1>1, ContextFreed
<1>3. TypeOK /\ NamedInv /\ current \in [Thread -> Pointer] /\ a # Nil /\ a \in Pointer /\ Sound(a)
  BY NilAssumption DEF IdentityInv, TypeOK, Pointer, Sound, ValidCtx, IsKind
<1>4. /\ current'[t] = IF current[t] = a THEN Nil ELSE current[t]
      /\ \A u \in Thread \ {t} : current'[u] = current[u]
  BY <1>3 DEF ForgetOwn, SetTls
<1>5. /\ \A u \in Thread : Sound(current[u]) /\ current[u] \in Pointer
      /\ \A u \in Thread : \A i \in DOMAIN stack[u] : Sound(stack[u][i]) /\ stack[u][i] \in Pointer
      /\ \A s \in Live("stream") : Sound(obj[s].ctx)
  BY <1>3, NamesTyped DEF NamedInv, SoundIn
<1>6. /\ \A u \in Thread \ {t} : Sound(current[u])' /\ IdAt(current[u])' = IdAt(current[u])
      /\ \A u \in Thread : \A i \in DOMAIN stack[u] : Sound(stack[u][i])' /\ IdAt(stack[u][i])' = IdAt(stack[u][i])
  BY <1>1, <1>2, <1>4, <1>5 DEF Sound, ValidCtx, IsKind, IdAt
<1>7. ByIdentity!Top(t) = IdAt(current[t])
  BY <1>3, StackOf
<1>8. Sound(current[t])' /\ Stacks' = IF ByIdentity!Top(t) = IdAt(a) THEN ByIdentity!WithTop(t, 0) ELSE Stacks
  <2>1. CASE current[t] = a
    <3>1. IdAt(current[t])' = 0 /\ Sound(current[t])'
      BY <1>4, <2>1 DEF IdAt, Sound
    <3>2. Stacks' = ByIdentity!WithTop(t, 0)
      BY <1>3, <1>6, <3>1, OthersTop
    <3> QED
      BY <1>7, <2>1, <3>1, <3>2
  <2>2. CASE current[t] # a
    <3>1. Sound(current[t])' /\ IdAt(current[t])' = IdAt(current[t])
      BY <1>2, <1>4, <1>5, <2>2 DEF IdAt, Sound, ValidCtx, IsKind
    <3>2. Stacks' = Stacks
      BY <1>3, <1>6, <3>1, StacksSame
    <3>3. IdAt(current[t]) # IdAt(a)
      BY <1>3, <1>5, <2>2, SoundIds
    <3> QED
      BY <1>7, <3>1, <3>2, <3>3
  <2> QED
    BY <2>1, <2>2
<1>9. \A u \in Thread : SoundIn(u)'
  BY <1>6, <1>8 DEF SoundIn, Sound, ValidCtx, IsKind
<1>10. IdAt(a) \notin ByIdentity!NamedByOthers(t)
  <2>1. \A x \in Pointer : Sound(x) /\ x # a => IdAt(x) # IdAt(a)
    BY <1>3, SoundIds
  <2>2. ASSUME NEW u \in Thread \ {t} PROVE ByIdentity!Top(u) # IdAt(a)
    <3>1. ByIdentity!Top(u) = IdAt(current[u])
      BY <1>3, StackOf
    <3> QED
      BY <1>1, <1>5, <2>1, <3>1
  <2>3. ASSUME NEW u \in Thread, NEW i \in 1..(Len(Stacks[u]) - 1) PROVE Stacks[u][i] # IdAt(a)
    <3>1. /\ Stacks[u] = StackIds(u) /\ Len(StackIds(u)) = Len(stack[u]) + 1
          /\ Len(stack[u]) \in Nat /\ DOMAIN stack[u] = 1..Len(stack[u])
      BY <1>3, StackOf, NamesTyped
    <3>2. i \in DOMAIN stack[u] /\ Stacks[u][i] = IdAt(stack[u][i])
      BY <3>1 DEF StackIds
    <3> QED
      BY <1>1, <1>5, <2>1, <3>2
  <2>4. ASSUME NEW b \in Bound PROVE b[2] # IdAt(a)
    <3>1. PICK s \in Addr : obj[s].kind = "stream" /\ b = <<obj[s].id, IdAt(obj[s].ctx)>>
      BY <2>4, Members
    <3>2. s \in Live("stream") /\ b[2] = IdAt(obj[s].ctx) /\ obj[s].ctx \in Pointer
      BY <1>3, <3>1 DEF Live, TypeOK, Struct
    <3> QED
      BY <1>1, <1>5, <2>1, <3>2
  <2> QED
    BY <2>2, <2>3, <2>4 DEF ByIdentity!NamedByOthers, ByIdentity!NamedBelow
<1> QED
  BY <1>2, <1>8, <1>9, <1>10

\* A context that is not the primary one is destroyed.
LEMMA SimDestroy ==
  ASSUME IdentityInv, PrimaryIsOne, Careful, TypeOK', NEW t \in Thread, NEW a \in Addr, CtxDestroy(t, a)
  PROVE  Simulates
<1>1. /\ obj[a].kind = "ctx" /\ ~obj[a].primary /\ ~NamedElsewhere(t, a) /\ ForgetOwn(t, a)
      /\ obj' = [obj EXCEPT ![a] = Blank] /\ UNCHANGED <<primary, stack, nextId>>
  BY DEF CtxDestroy, MayDestroy, ValidCtx, IsKind
<1>2. /\ \A u \in Thread : SoundIn(u)'
      /\ (\A x \in Live("stream") : Sound(obj[x].ctx))' /\ IdsInv'
      /\ Existing' = Existing \ {IdAt(a)} /\ IdAt(a) \in Existing /\ Bound' = Bound
      /\ Stacks' = IF ByIdentity!Top(t) = IdAt(a) THEN ByIdentity!WithTop(t, 0) ELSE Stacks
      /\ IdAt(a) \notin ByIdentity!NamedByOthers(t)
  BY <1>1, SimFreed
<1>3. primary # a /\ Sound(primary) /\ primary \in Pointer /\ a \in Pointer /\ Sound(a) /\ a # Nil /\ obj \in [Addr -> Struct]
  BY <1>1, NilAssumption DEF PrimaryIsOne, IdentityInv, NamedInv, TypeOK, Pointer, Sound, ValidCtx, IsKind
<1>4. Sound(primary)' /\ IdAt(primary)' = IdAt(primary)
  BY <1>1, <1>3 DEF Sound, ValidCtx, IsKind, IdAt
<1>5. IdAt(primary) # IdAt(a) /\ IdAt(a) \in Id
  BY <1>3, SoundIds
<1>6. ByIdentity!DestroyContext(t, IdAt(a))
  BY <1>2, <1>4, <1>5 DEF ByIdentity!DestroyContext
<1> QED
  BY <1>2, <1>4, <1>5, <1>6 DEF Simulates, NamedInv, ByIdentity!StacksNext

\* The primary context is destroyed.
LEMMA SimReset ==
  ASSUME IdentityInv, Careful, TypeOK', NEW t \in Thread, PrimaryCtxReset(t)
  PROVE  Simulates
<1>1. /\ primary # Nil /\ ~NamedElsewhere(t, primary) /\ ForgetOwn(t, primary)
      /\ obj' = [obj EXCEPT ![primary] = Blank] /\ primary' = Nil /\ UNCHANGED <<stack, nextId>>
  BY DEF PrimaryCtxReset, MayDestroy
<1>2. primary \in Addr /\ obj[primary].kind = "ctx" /\ primary \in Pointer /\ Sound(primary)
  BY <1>1 DEF IdentityInv, NamedInv, TypeOK, Pointer, Sound, ValidCtx, IsKind
<1>3. /\ \A u \in Thread : SoundIn(u)'
      /\ (\A x \in Live("stream") : Sound(obj[x].ctx))' /\ IdsInv'
      /\ Existing' = Existing \ {IdAt(primary)} /\ IdAt(primary) \in Existing /\ Bound' = Bound
      /\ Stacks' = IF ByIdentity!Top(t) = IdAt(primary) THEN ByIdentity!WithTop(t, 0) ELSE Stacks
      /\ IdAt(primary) \notin ByIdentity!NamedByOthers(t)
  <2> DEFINE a == primary
  <2>1. /\ a \in Addr /\ obj[a].kind = "ctx" /\ ~NamedElsewhere(t, a) /\ ForgetOwn(t, a)
        /\ obj' = [obj EXCEPT ![a] = Blank] /\ nextId' = nextId /\ stack' = stack
    BY <1>1, <1>2
  <2> QED
    BY <2>1, SimFreed
<1>4. Sound(primary)' /\ IdAt(primary)' = 0 /\ IdAt(primary) # 0
  <2>1. IdAt(primary) # 0
    BY <1>1, <1>2, SoundIds
  <2> QED
    BY <1>1, <2>1 DEF Sound, IdAt
<1>5. ByIdentity!ResetPrimary(t)
  BY <1>3, <1>4 DEF ByIdentity!ResetPrimary
<1> QED
  BY <1>3, <1>4, <1>5 DEF Simulates, NamedInv, ByIdentity!StacksNext

\* A context is made current, or none.
LEMMA SimSetCurrent ==
  ASSUME IdentityInv, TypeOK', NEW t \in Thread, NEW a \in Pointer, Sound(a), SetTls(t, a),
         UNCHANGED <<obj, primary, stack, nextId>>
  PROVE  NamedInv' /\ IdsInv' /\ Existing' = Existing /\ Bound' = Bound /\ IdAt(primary)' = IdAt(primary)
         /\ Stacks' = ByIdentity!WithTop(t, IdAt(a))
<1>1. TypeOK /\ NamedInv /\ current' = [current EXCEPT ![t] = a] /\ current \in [Thread -> Pointer]
  BY DEF IdentityInv, TypeOK, SetTls
<1>2. current'[t] = a /\ \A u \in Thread \ {t} : current'[u] = current[u]
  BY <1>1
<1>3. \A x : (Sound(x)' <=> Sound(x)) /\ IdAt(x)' = IdAt(x)
  BY DEF Sound, ValidCtx, IsKind, IdAt
<1>4. IdAt(current[t])' = IdAt(a) /\ Sound(current[t])'
  BY <1>2 DEF Sound, ValidCtx, IsKind, IdAt
<1>5. /\ \A u \in Thread \ {t} : Sound(current[u])' /\ IdAt(current[u])' = IdAt(current[u])
      /\ \A u \in Thread : \A i \in DOMAIN stack[u] : Sound(stack[u][i])' /\ IdAt(stack[u][i])' = IdAt(stack[u][i])
      /\ Sound(primary)' /\ IdAt(primary)' = IdAt(primary)
  BY <1>1, <1>2, <1>3, NamesKept
<1> DEFINE c == IdAt(a)
<1>6. Stacks' = ByIdentity!WithTop(t, c)
  <2>1. IdAt(current[t])' = c
    BY <1>4
  <2> HIDE DEF c
  <2> QED
    BY <1>1, <1>5, <2>1, OthersTop
<1>7. IdsInv' /\ Existing' = Existing /\ Bound' = Bound
  BY DEF IdentityInv, IdsInv, Existing, Bound, Live, Numbered, IdAt
<1>8. (\A s \in Live("stream") : Sound(obj[s].ctx))'
  BY <1>1 DEF NamedInv, Live, Sound, ValidCtx, IsKind
<1>9. NamedInv'
  BY <1>4, <1>5, <1>8 DEF NamedInv, SoundIn, Sound, ValidCtx, IsKind
<1> QED
  BY <1>5, <1>6, <1>7, <1>9

\* What Append is, entry by entry.
LEMMA AppendIs ==
  ASSUME NEW S, NEW s \in Seq(S), NEW e \in S
  PROVE  Append(s, e) = [i \in 1..(Len(s) + 1) |-> IF i \in 1..Len(s) THEN s[i] ELSE e]
<1> DEFINE n == Len(s)
           f == [i \in 1..(n + 1) |-> IF i \in 1..n THEN s[i] ELSE e]
<1>1. /\ n \in Nat /\ DOMAIN s = 1..n /\ \A i \in 1..n : s[i] \in S
      /\ Append(s, e) \in Seq(S) /\ Len(Append(s, e)) = n + 1
      /\ \A i \in 1..n : Append(s, e)[i] = s[i]
      /\ Append(s, e)[n + 1] = e
  BY LenProperties, ElementOfSeq, AppendProperties
<1> HIDE DEF n
<1>2. f \in Seq(S) /\ Len(f) = n + 1
  <2>1. f \in [1..(n + 1) -> S] /\ n + 1 \in Nat
    BY <1>1
  <2> HIDE DEF f
  <2> QED
    BY <2>1, SequenceOf
<1>3. \A i \in 1..(n + 1) : i \in 1..n \/ (i = n + 1 /\ i \notin 1..n)
  BY <1>1
<1>4. \A i \in 1..(n + 1) : Append(s, e)[i] = f[i]
  BY <1>1, <1>3
<1> HIDE DEF f
<1>5. Append(s, e) = f
  BY <1>1, <1>2, <1>4, SeqEqual
<1> QED
  BY <1>5 DEF f, n

\* A context is made current, or none: as ContextStacks says.
LEMMA SimMakeCurrent ==
  ASSUME IdentityInv, TypeOK', NEW t \in Thread, NEW a \in Pointer, CtxSetCurrent(t, a)
  PROVE  Simulates
<1>1. Sound(a) /\ SetTls(t, a) /\ UNCHANGED <<obj, primary, stack, nextId>>
  BY DEF CtxSetCurrent, Sound
<1>2. /\ NamedInv' /\ IdsInv' /\ Existing' = Existing /\ Bound' = Bound /\ IdAt(primary)' = IdAt(primary)
      /\ Stacks' = ByIdentity!WithTop(t, IdAt(a))
  BY <1>1, SimSetCurrent
<1>3. IdAt(a) \in Existing \cup {0} /\ IdAt(a) \in Id \cup {0}
  BY <1>1, SoundIds
<1>4. ByIdentity!MakeCurrent(t, IdAt(a))
  BY <1>2, <1>3 DEF ByIdentity!MakeCurrent
<1> QED
  BY <1>2, <1>3, <1>4 DEF Simulates, ByIdentity!StacksNext

\* A call of one thread that changes its stack and what it has current, and no struct.
LEMMA OwnStack ==
  ASSUME IdentityInv, NEW t \in Thread, UNCHANGED <<obj, primary, nextId>>, SoundIn(t)',
         \A u \in Thread \ {t} : current'[u] = current[u] /\ stack'[u] = stack[u]
  PROVE  /\ NamedInv' /\ IdsInv' /\ Existing' = Existing /\ Bound' = Bound /\ IdAt(primary)' = IdAt(primary)
         /\ \A u \in Thread \ {t} : StackIds(u)' = StackIds(u)
<1>1. TypeOK /\ NamedInv
  BY DEF IdentityInv
<1>2. \A x : (Sound(x)' <=> Sound(x)) /\ IdAt(x)' = IdAt(x)
  BY DEF Sound, ValidCtx, IsKind, IdAt
<1>3. \A u \in Thread \ {t} : StackIds(u)' = StackIds(u)
  <2>1. ASSUME NEW u \in Thread \ {t} PROVE StackIds(u)' = StackIds(u)
    <3>1. stack'[u] = stack[u] /\ IdAt(current[u])' = IdAt(current[u])
      BY DEF IdAt
    <3>2. \A i \in DOMAIN stack[u] : IdAt(stack[u][i])' = IdAt(stack[u][i])
      BY <3>1 DEF IdAt
    <3> QED
      BY <1>1, <3>1, <3>2, StackSame
  <2> QED
    BY <2>1
<1>4. IdsInv' /\ Existing' = Existing /\ Bound' = Bound
  BY DEF IdentityInv, IdsInv, Existing, Bound, Live, Numbered, IdAt
<1>5. (\A s \in Live("stream") : Sound(obj[s].ctx))' /\ Sound(primary)' /\ IdAt(primary)' = IdAt(primary)
  BY <1>1 DEF NamedInv, Live, Sound, ValidCtx, IsKind, IdAt
<1>6. \A u \in Thread \ {t} : SoundIn(u)'
  BY <1>1 DEF NamedInv, SoundIn, Sound, ValidCtx, IsKind
<1> QED
  BY <1>3, <1>4, <1>5, <1>6 DEF NamedInv

\* A context is pushed.
LEMMA SimPush ==
  ASSUME IdentityInv, TypeOK', NEW t \in Thread, NEW a \in Addr, CtxPushCurrent(t, a)
  PROVE  Simulates
<1> DEFINE n == Len(stack[t])
<1>1. /\ Sound(a) /\ a # Nil /\ a \in Pointer /\ n < Depth /\ UNCHANGED <<obj, primary, nextId>>
      /\ stack' = [stack EXCEPT ![t] = Append(@, current[t])] /\ current' = [current EXCEPT ![t] = a]
  BY DEF CtxPushCurrent, Sound, SetTls, Pointer, ValidCtx, IsKind
<1>2. TypeOK /\ NamedInv /\ stack \in [Thread -> Seq(Pointer)] /\ current \in [Thread -> Pointer]
  BY DEF IdentityInv, TypeOK
<1>3. /\ stack'[t] = Append(stack[t], current[t]) /\ current'[t] = a
      /\ \A u \in Thread \ {t} : current'[u] = current[u] /\ stack'[u] = stack[u]
  BY <1>1, <1>2
<1>4. /\ n \in Nat /\ DOMAIN stack[t] = 1..n /\ stack[t] \in Seq(Pointer) /\ current[t] \in Pointer
      /\ \A i \in 1..n : Sound(stack[t][i]) /\ Sound(current[t])
  BY <1>2, NamesTyped DEF NamedInv, SoundIn
<1>5. /\ Len(stack'[t]) = n + 1 /\ DOMAIN stack'[t] = 1..(n + 1)
      /\ \A i \in 1..n : stack'[t][i] = stack[t][i]
      /\ stack'[t][n + 1] = current[t]
  BY <1>3, <1>4, AppendProperties
<1> HIDE DEF n
<1>6. \A i \in 1..(n + 1) : i = n + 1 \/ i \in 1..n
  BY <1>4
<1>6a. Sound(current[t])
  BY <1>2 DEF NamedInv, SoundIn
<1>7. SoundIn(t)'
  <2>1. \A i \in 1..(n + 1) : Sound(stack'[t][i])
    BY <1>4, <1>5, <1>6, <1>6a
  <2>2. Sound(current'[t])
    BY <1>1, <1>3
  <2> QED
    BY <1>1, <1>5, <2>1, <2>2 DEF SoundIn, Sound, ValidCtx, IsKind
<1>8. /\ NamedInv' /\ IdsInv' /\ Existing' = Existing /\ Bound' = Bound /\ IdAt(primary)' = IdAt(primary)
      /\ \A u \in Thread \ {t} : StackIds(u)' = StackIds(u)
  BY <1>1, <1>3, <1>7, OwnStack
<1>9. /\ StackIds(t) \in Seq(Id \cup {0}) /\ Len(StackIds(t)) = n + 1 /\ Stacks[t] = StackIds(t)
      /\ \A i \in 1..(n + 1) : StackIds(t)[i] = IF i > n THEN IdAt(current[t]) ELSE IdAt(stack[t][i])
  BY <1>2, <1>4, StackOf DEF StackIds, n
<1>10. StackIds(t)' = Append(StackIds(t), IdAt(a))
  <2>1. StackIds(t)' = [i \in 1..(n + 2) |-> IF i > n + 1 THEN IdAt(a) ELSE IdAt(stack'[t][i])]
    <3>1. (Len(stack[t]) + 1)' = n + 2 /\ Len(stack[t])' = n + 1
      BY <1>4, <1>5
    <3>2. \A i : IdAt(stack[t][i])' = IdAt(stack'[t][i]) /\ IdAt(current[t])' = IdAt(a)
      BY <1>1, <1>3 DEF IdAt
    <3> QED
      BY <3>1, <3>2 DEF StackIds
  <2>2. \A i \in 1..(n + 1) : IdAt(stack'[t][i]) = StackIds(t)[i]
    <3>1. \A i \in 1..n : IdAt(stack'[t][i]) = StackIds(t)[i]
      BY <1>4, <1>5, <1>9
    <3>2. IdAt(stack'[t][n + 1]) = StackIds(t)[n + 1]
      BY <1>4, <1>5, <1>9
    <3> QED
      BY <1>6, <3>1, <3>2
  <2>3. \A i \in 1..(n + 2) : i > n + 1 <=> i \notin 1..(n + 1)
    BY <1>4
  <2>4. Append(StackIds(t), IdAt(a)) = [i \in 1..(n + 2) |-> IF i > n + 1 THEN IdAt(a) ELSE StackIds(t)[i]]
    <3>1. Append(StackIds(t), IdAt(a)) = [i \in 1..(n + 1 + 1) |-> IF i \in 1..(n + 1) THEN StackIds(t)[i] ELSE IdAt(a)]
      <4>1. IdAt(a) \in Id \cup {0}
        BY <1>1, <1>2, NamesTyped
      <4>2. Append(StackIds(t), IdAt(a))
              = [i \in 1..(Len(StackIds(t)) + 1) |-> IF i \in 1..Len(StackIds(t)) THEN StackIds(t)[i] ELSE IdAt(a)]
        BY <1>9, <4>1, AppendIs
      <4>3. Len(StackIds(t)) = n + 1
        BY <1>9
      <4> QED
        BY <4>2, <4>3
    <3> QED
      BY <1>4, <2>3, <3>1
  <2> QED
    BY <2>1, <2>2, <2>3, <2>4
<1>11. Stacks' = [Stacks EXCEPT ![t] = Append(@, IdAt(a))]
  <2> DEFINE s == Append(StackIds(t), IdAt(a))
  <2>1. StackIds(t)' = s
    BY <1>10
  <2> HIDE DEF s
  <2>2. Stacks' = [Stacks EXCEPT ![t] = s]
    BY <1>8, <2>1, OneStack
  <2> QED
    BY <1>9, <2>2 DEF s
<1>12. IdAt(a) \in Existing /\ IdAt(a) \in Id
  BY <1>1, SoundIds
<1>13. Len(Stacks[t]) <= Depth
  BY <1>1, <1>4, <1>9, BoundAssumption
<1>14. ByIdentity!PushContext(t, IdAt(a))
  BY <1>8, <1>11, <1>12, <1>13 DEF ByIdentity!PushContext
<1> QED
  BY <1>8, <1>12, <1>14 DEF Simulates, ByIdentity!StacksNext

\* The current context is popped.
LEMMA SimPop ==
  ASSUME IdentityInv, TypeOK', NEW t \in Thread, CtxPopCurrent(t)
  PROVE  Simulates
<1> DEFINE n == Len(stack[t])
<1>1. /\ UNCHANGED <<obj, primary, nextId>>
      /\ stack' = [stack EXCEPT ![t] = IF @ = <<>> THEN @ ELSE SubSeq(@, 1, Len(@) - 1)]
      /\ current' = [current EXCEPT ![t] = IF stack[t] = <<>> THEN Nil ELSE stack[t][Len(stack[t])]]
  BY DEF CtxPopCurrent, SetTls
<1>2. TypeOK /\ NamedInv /\ stack \in [Thread -> Seq(Pointer)] /\ current \in [Thread -> Pointer]
  BY DEF IdentityInv, TypeOK
<1>3. /\ stack'[t] = IF stack[t] = <<>> THEN <<>> ELSE SubSeq(stack[t], 1, n - 1)
      /\ current'[t] = IF stack[t] = <<>> THEN Nil ELSE stack[t][n]
      /\ \A u \in Thread \ {t} : current'[u] = current[u] /\ stack'[u] = stack[u]
  BY <1>1, <1>2
<1>4. /\ n \in Nat /\ DOMAIN stack[t] = 1..n /\ stack[t] \in Seq(Pointer)
      /\ \A i \in 1..n : Sound(stack[t][i])
      /\ stack[t] = <<>> <=> n = 0
  BY <1>2, NamesTyped, EmptySeq DEF NamedInv, SoundIn
<1>9. /\ StackIds(t) \in Seq(Id \cup {0}) /\ Len(StackIds(t)) = n + 1 /\ Stacks[t] = StackIds(t)
      /\ \A i \in 1..(n + 1) : StackIds(t)[i] = IF i > n THEN IdAt(current[t]) ELSE IdAt(stack[t][i])
  BY <1>2, <1>4, StackOf DEF StackIds
<1>5. ASSUME NEW s, SoundIn(t)', StackIds(t)' = s, s = IF n = 0 THEN << 0 >> ELSE SubSeq(StackIds(t), 1, n)
      PROVE  Simulates
  <2>1. /\ NamedInv' /\ IdsInv' /\ Existing' = Existing /\ Bound' = Bound /\ IdAt(primary)' = IdAt(primary)
        /\ \A u \in Thread \ {t} : StackIds(u)' = StackIds(u)
    BY <1>1, <1>3, <1>5, OwnStack
  <2>2. Stacks' = [Stacks EXCEPT ![t] = s]
    BY <1>5, <2>1, OneStack
  <2>3. s = IF Len(Stacks[t]) = 1 THEN <<0>> ELSE SubSeq(Stacks[t], 1, Len(Stacks[t]) - 1)
    BY <1>4, <1>5, <1>9
  <2>4. ByIdentity!PopContext(t)
    BY <2>1, <2>2, <2>3 DEF ByIdentity!PopContext
  <2> QED
    BY <2>1, <2>4 DEF Simulates, ByIdentity!StacksNext
<1>6. CASE n = 0
  <2>1. stack'[t] = <<>> /\ current'[t] = Nil /\ Len(stack'[t]) = 0 /\ DOMAIN stack'[t] = {}
    BY <1>3, <1>4, <1>6, EmptySeq
  <2>2. SoundIn(t)'
    BY <2>1 DEF SoundIn, Sound
  <2>3. StackIds(t)' = [i \in 1..1 |-> IF i > 0 THEN 0 ELSE IdAt(stack[t][i])']
    <3>1. IdAt(current[t])' = 0
      BY <2>1 DEF IdAt
    <3> QED
      BY <2>1, <3>1 DEF StackIds
  <2>4. StackIds(t)' = <<0>>
    BY <2>3
  <2> QED
    BY <1>5, <1>6, <2>2, <2>4
<1>7. CASE n # 0
  <2>1. stack'[t] = SubSeq(stack[t], 1, n - 1) /\ current'[t] = stack[t][n]
    BY <1>3, <1>4, <1>7
  <2>2. Len(stack'[t]) = n - 1 /\ DOMAIN stack'[t] = 1..(n - 1) /\ \A i \in 1..(n - 1) : stack'[t][i] = stack[t][i]
    BY <1>4, <1>7, <2>1, SubSeqProperties
  <2>3. n \in 1..n /\ \A i \in 1..n : i > n - 1 <=> i = n
    BY <1>4, <1>7
  <2> HIDE DEF n
  <2>4. SoundIn(t)'
    <3>1. \A i \in 1..(n - 1) : i \in 1..n
      BY <1>4
    <3>2. Sound(current'[t]) /\ \A i \in 1..(n - 1) : Sound(stack'[t][i])
      BY <1>4, <2>1, <2>2, <2>3, <3>1
    <3> QED
      BY <1>1, <2>2, <3>2 DEF SoundIn, Sound, ValidCtx, IsKind
  <2>5. StackIds(t)' = [i \in 1..n |-> IF i > n - 1 THEN IdAt(stack[t][n]) ELSE IdAt(stack'[t][i])]
    <3>1. (Len(stack[t]) + 1)' = n /\ Len(stack[t])' = n - 1
      BY <1>4, <2>2
    <3>2. \A i : IdAt(stack[t][i])' = IdAt(stack'[t][i]) /\ IdAt(current[t])' = IdAt(stack[t][n])
      BY <1>1, <2>1 DEF IdAt
    <3> QED
      BY <3>1, <3>2 DEF StackIds
  <2>6. \A i \in 1..n : (IF i > n - 1 THEN IdAt(stack[t][n]) ELSE IdAt(stack'[t][i])) = StackIds(t)[i]
    <3>1. \A i \in 1..n : i \in 1..(n + 1) /\ ~(i > n) /\ (i # n => i \in 1..(n - 1))
      BY <1>4
    <3>2. \A i \in 1..n : StackIds(t)[i] = IdAt(stack[t][i])
      BY <1>9, <3>1
    <3>3. \A i \in 1..n : i # n => IdAt(stack'[t][i]) = IdAt(stack[t][i])
      BY <2>2, <3>1
    <3> QED
      BY <2>3, <3>2, <3>3
  <2>7. SubSeq(StackIds(t), 1, n) = [i \in 1..n |-> StackIds(t)[i]]
    <3>1. SubSeq(StackIds(t), 1, n) = [i \in 1..((n + 1) - 1) |-> StackIds(t)[i + 1 - 1]]
      BY <1>4, <1>9, SMT
    <3>2. (n + 1) - 1 = n /\ \A i \in 1..n : i + 1 - 1 = i
      BY <1>4
    <3> QED
      BY <3>1, <3>2
  <2>8. StackIds(t)' = SubSeq(StackIds(t), 1, n)
    BY <2>5, <2>6, <2>7
  <2> QED
    BY <1>5, <1>7, <2>4, <2>8
<1> QED
  BY <1>6, <1>7

\* The primary context is made.
LEMMA PrimaryMade ==
  ASSUME IdentityInv, TypeOK', primary = Nil, NEW a \in FreeChunk, MakePrimary(a), UNCHANGED stack
  PROVE  /\ \A u \in Thread : current'[u] = current[u] => Sound(current[u])' /\ IdAt(current[u])' = IdAt(current[u])
         /\ \A u \in Thread : \A i \in DOMAIN stack[u] : Sound(stack[u][i])' /\ IdAt(stack[u][i])' = IdAt(stack[u][i])
         /\ Sound(a)' /\ (\A x : x = a => IdAt(x)' = nextId) /\ Sound(primary)' /\ Bound' = Bound
         /\ nextId \in Id /\ ByIdentity!WithPrimary(nextId)
         /\ IdsInv' /\ (\A s \in Live("stream") : Sound(obj[s].ctx))'
<1>1. MakeContext(a, primaryFlags, TRUE) /\ primary' = a /\ primaryFlags \in Flags
  BY DEF MakePrimary, IdentityInv, TypeOK
<1>2. /\ \A x \in Pointer : Sound(x) => Sound(x)' /\ IdAt(x)' = IdAt(x)
      /\ a \in Addr /\ Sound(a)' /\ a # Nil
      /\ \A x : x = a => IdAt(x)' = nextId
      /\ nextId \in Id \ Existing /\ Existing' = Existing \cup {nextId} /\ Bound' = Bound
      /\ IdsInv' /\ (\A s \in Live("stream") : Sound(obj[s].ctx))'
  <2>1. TRUE \in BOOLEAN
    OBVIOUS
  <2> QED
    BY <1>1, <2>1, ContextMade
<1>3. /\ \A u \in Thread : current'[u] = current[u] => Sound(current[u])' /\ IdAt(current[u])' = IdAt(current[u])
      /\ \A u \in Thread : \A i \in DOMAIN stack[u] : Sound(stack[u][i])' /\ IdAt(stack[u][i])' = IdAt(stack[u][i])
  BY <1>2, NamesKept DEF IdentityInv
<1>4. IdAt(primary) = 0 /\ IdAt(primary)' = nextId /\ Sound(primary)'
  BY <1>1, <1>2 DEF IdAt, Sound, ValidCtx, IsKind
<1>5. ByIdentity!WithPrimary(nextId)
  BY <1>2, <1>4 DEF ByIdentity!WithPrimary
<1> QED
  BY <1>2, <1>3, <1>4, <1>5

\* The primary context is made current, after it was made or not.
LEMMA SimRetain ==
  ASSUME IdentityInv, TypeOK', NEW t \in Thread, PrimaryCtxRetain(t)
  PROVE  Simulates
<1>1. CASE primary # Nil /\ SetTls(t, primary) /\ UNCHANGED <<obj, primary, nextId>>
  <2> DEFINE a == primary
  <2>1. a \in Pointer /\ Sound(a) /\ SetTls(t, a) /\ UNCHANGED <<obj, primary, stack, nextId>>
    BY <1>1 DEF PrimaryCtxRetain, IdentityInv, NamedInv, TypeOK
  <2>2. /\ NamedInv' /\ IdsInv' /\ Existing' = Existing /\ Bound' = Bound /\ IdAt(primary)' = IdAt(primary)
        /\ Stacks' = ByIdentity!WithTop(t, IdAt(a))
    <3> HIDE DEF a
    <3> QED
      BY <2>1, SimSetCurrent
  <2>3. IdAt(primary) # 0 /\ IdAt(primary) \in Id
    BY <1>1, <2>1, SoundIds
  <2>4. ByIdentity!WithPrimary(IdAt(primary))
    BY <2>2, <2>3 DEF ByIdentity!WithPrimary
  <2>5. ByIdentity!RetainPrimary(t)
    BY <2>2, <2>3, <2>4 DEF ByIdentity!RetainPrimary
  <2> QED
    BY <2>2, <2>5 DEF Simulates, ByIdentity!StacksNext
<1>2. ASSUME primary = Nil, NEW a \in FreeChunk, MakePrimary(a), SetTls(t, a) PROVE Simulates
  <2>1. /\ \A u \in Thread : current'[u] = current[u] => Sound(current[u])' /\ IdAt(current[u])' = IdAt(current[u])
        /\ \A u \in Thread : \A i \in DOMAIN stack[u] : Sound(stack[u][i])' /\ IdAt(stack[u][i])' = IdAt(stack[u][i])
        /\ Sound(a)' /\ (\A x : x = a => IdAt(x)' = nextId) /\ Sound(primary)' /\ Bound' = Bound
        /\ nextId \in Id /\ ByIdentity!WithPrimary(nextId)
        /\ IdsInv' /\ (\A s \in Live("stream") : Sound(obj[s].ctx))'
    BY <1>2, PrimaryMade DEF PrimaryCtxRetain
  <2>2. TypeOK /\ stack' = stack /\ current'[t] = a /\ \A u \in Thread \ {t} : current'[u] = current[u]
    BY <1>2 DEF PrimaryCtxRetain, SetTls, IdentityInv, TypeOK
  <2>3. Sound(current[t])' /\ IdAt(current[t])' = nextId
    BY <2>1, <2>2 DEF Sound, ValidCtx, IsKind, IdAt
  <2>4. Stacks' = ByIdentity!WithTop(t, nextId)
    BY <2>1, <2>2, <2>3, OthersTop
  <2>5. NamedInv'
    BY <2>1, <2>2, <2>3 DEF NamedInv, SoundIn, Sound, ValidCtx, IsKind
  <2>6. ByIdentity!RetainPrimary(t)
    BY <2>1, <2>4 DEF ByIdentity!RetainPrimary
  <2> QED
    BY <2>1, <2>5, <2>6 DEF Simulates, ByIdentity!StacksNext
<1> QED
  BY <1>1, <1>2 DEF PrimaryCtxRetain

\* The primary context is made for a call that asks for one.
LEMMA SimUse ==
  ASSUME IdentityInv, TypeOK', NEW t \in Thread, UseCurrent(t)
  PROVE  Simulates
<1>1. primary = Nil /\ ~ValidCtx(current[t]) /\ UNCHANGED <<current, stack>>
  BY DEF UseCurrent
<1>2. PICK a \in FreeChunk : MakePrimary(a)
  BY DEF UseCurrent
<1>3. /\ \A u \in Thread : Sound(current[u])' /\ IdAt(current[u])' = IdAt(current[u])
      /\ \A u \in Thread : \A i \in DOMAIN stack[u] : Sound(stack[u][i])' /\ IdAt(stack[u][i])' = IdAt(stack[u][i])
      /\ Sound(primary)' /\ Bound' = Bound /\ nextId \in Id /\ ByIdentity!WithPrimary(nextId)
      /\ IdsInv' /\ (\A s \in Live("stream") : Sound(obj[s].ctx))'
  BY <1>1, <1>2, PrimaryMade
<1>4. TypeOK /\ current[t] = Nil
  BY <1>1 DEF IdentityInv, NamedInv, SoundIn, Sound
<1>5. ByIdentity!Top(t) = 0
  BY <1>4, StackOf DEF IdAt
<1>6. Stacks' = Stacks
  BY <1>1, <1>3, <1>4, StacksSame
<1>7. NamedInv'
  BY <1>1, <1>3 DEF NamedInv, SoundIn, Sound, ValidCtx, IsKind
<1>8. ByIdentity!UseContext(t)
  BY <1>3, <1>5, <1>6 DEF ByIdentity!UseContext, ByIdentity!WorksOn
<1> QED
  BY <1>3, <1>7, <1>8 DEF Simulates, ByIdentity!StacksNext

\* A struct that no one names is made or freed, and threads keep what they have.
LEMMA NamesStay ==
  ASSUME IdentityInv, UNCHANGED <<primary, current, stack>>, \A x \in Pointer : Sound(x) => Sound(x)' /\ IdAt(x)' = IdAt(x)
  PROVE  /\ Stacks' = Stacks /\ IdAt(primary)' = IdAt(primary) /\ Sound(primary)'
         /\ \A u \in Thread : SoundIn(u)'
<1>1. /\ \A u \in Thread : Sound(current[u])' /\ IdAt(current[u])' = IdAt(current[u])
      /\ \A u \in Thread : \A i \in DOMAIN stack[u] : Sound(stack[u][i])' /\ IdAt(stack[u][i])' = IdAt(stack[u][i])
      /\ Sound(primary)' /\ IdAt(primary)' = IdAt(primary)
  BY NamesKept DEF IdentityInv
<1>2. Stacks' = Stacks
  BY <1>1, StacksSame DEF IdentityInv
<1>3. \A u \in Thread : SoundIn(u)'
  BY <1>1 DEF SoundIn, Sound, ValidCtx, IsKind
<1> QED
  BY <1>1, <1>2, <1>3

\* A stream or an event is destroyed, or an event is made.
LEMMA SimStruct ==
  ASSUME IdentityInv, TypeOK', NEW a \in Addr, StreamDestroy(a) \/ EventDestroy(a) \/ EventCreate(a)
  PROVE  Simulates
<1>1. /\ UNCHANGED <<primary, current, stack, nextId>> /\ obj[a].kind # "ctx"
      /\ obj' = [obj EXCEPT ![a] = Blank] \/ obj' = [obj EXCEPT ![a] = Event]
  BY DEF StreamDestroy, EventDestroy, EventCreate, FreeStruct, IsKind, FreeChunk
<1>2. Blank.kind \notin {"ctx", "stream"} /\ Event.kind \notin {"ctx", "stream"}
  BY BlankType
<1>3. /\ \A x \in Pointer : Sound(x) => Sound(x)' /\ IdAt(x)' = IdAt(x)
      /\ Existing' = Existing
      /\ Bound' = IF obj[a].kind = "stream" THEN Bound \ {<<obj[a].id, IdAt(obj[a].ctx)>>} ELSE Bound
      /\ IdsInv' /\ (\A x \in Live("stream") : Sound(obj[x].ctx))'
  <2>1. PICK new : obj' = [obj EXCEPT ![a] = new] /\ new.kind \notin {"ctx", "stream"}
    BY <1>1, <1>2
  <2> QED
    BY <1>1, <2>1, StructReplaced
<1>4. /\ Stacks' = Stacks /\ IdAt(primary)' = IdAt(primary) /\ Sound(primary)' /\ \A u \in Thread : SoundIn(u)'
  BY <1>1, <1>3, NamesStay
<1>5. NamedInv' /\ IdsInv'
  BY <1>3, <1>4 DEF NamedInv
<1>6. ByIdentity!StacksNext \/ UNCHANGED ByIdentity!stackVars
  <2>1. CASE obj[a].kind = "stream"
    <3> DEFINE b == <<obj[a].id, IdAt(obj[a].ctx)>>
    <3>1. b \in Bound
      BY <2>1, Members
    <3> HIDE DEF b
    <3>2. Bound' = Bound \ {b}
      BY <1>3, <2>1 DEF b
    <3>3. ByIdentity!CloseStream(b)
      BY <1>3, <1>4, <3>2 DEF ByIdentity!CloseStream
    <3> QED
      BY <3>1, <3>3 DEF ByIdentity!StacksNext
  <2>2. CASE obj[a].kind # "stream"
    BY <1>3, <1>4, <2>2 DEF ByIdentity!stackVars
  <2> QED
    BY <2>1, <2>2
<1> QED
  BY <1>5, <1>6 DEF Simulates

\* The flags of the primary context say nothing of identities.
LEMMA SimFlags ==
  ASSUME IdentityInv, TypeOK', NEW f \in Flags, PrimaryCtxSetFlags(f)
  PROVE  Simulates
<1>1. UNCHANGED <<primary, current, stack, nextId>> /\ obj' = IF primary = Nil THEN obj ELSE [obj EXCEPT ![primary].flags = f]
  BY DEF PrimaryCtxSetFlags
<1>2. obj \in [Addr -> Struct] /\ (primary = Nil \/ primary \in Addr) /\ Nil \notin Addr /\ \A x \in Addr : obj[x].ctx \in Pointer
  BY NamesTyped DEF IdentityInv, Pointer
<1>3. \A x \in Addr : obj'[x].kind = obj[x].kind /\ obj'[x].id = obj[x].id /\ obj'[x].ctx = obj[x].ctx
  BY <1>1, <1>2 DEF Struct
<1>4. \A x \in Pointer : (Sound(x)' <=> Sound(x)) /\ IdAt(x)' = IdAt(x)
  BY <1>2, <1>3 DEF Sound, ValidCtx, IsKind, IdAt, Pointer
<1>5. /\ Stacks' = Stacks /\ IdAt(primary)' = IdAt(primary) /\ Sound(primary)' /\ \A u \in Thread : SoundIn(u)'
  BY <1>1, <1>4, NamesStay
<1>6. IdsInv'
  BY <1>1, <1>3 DEF IdentityInv, IdsInv, Numbered
<1>7. Existing' = Existing
  <2>1. \A c : c \in Existing' <=> \E x \in Addr : obj'[x].kind = "ctx" /\ c = obj'[x].id
    BY DEF Existing, Live
  <2>2. \A c : c \in Existing' <=> c \in Existing
    BY <1>3, <2>1, Members
  <2> QED
    BY <2>2, Zenon
<1>8. Bound' = Bound
  <2>1. \A b : b \in Bound' <=> \E s \in Addr : obj'[s].kind = "stream" /\ b = <<obj'[s].id, IdAt(obj[s].ctx)'>>
    BY DEF Bound, Live, IdAt
  <2>2. \A s \in Addr : IdAt(obj[s].ctx)' = IdAt(obj[s].ctx)
    BY <1>2, <1>3, <1>4 DEF IdAt
  <2>3. \A b : b \in Bound' <=> b \in Bound
    BY <1>3, <2>1, <2>2, Members
  <2> QED
    BY <2>3, Zenon
<1>9. (\A s \in Live("stream") : Sound(obj[s].ctx))'
  BY <1>2, <1>3, <1>4 DEF IdentityInv, NamedInv, Live, Sound, ValidCtx, IsKind
<1> QED
  BY <1>5, <1>6, <1>7, <1>8, <1>9 DEF Simulates, NamedInv, ByIdentity!stackVars

\* A stream is opened in a context that exists, or in none.
LEMMA SimStreamIn ==
  ASSUME IdentityInv, TypeOK', NEW t \in Thread, nextId \in Id, NEW s \in FreeChunk, NEW c \in Pointer, StreamIn(s, c),
         UNCHANGED <<current, stack>>,
         \/ c # Nil /\ c = current[t]
         \/ current[t] = Nil /\ c = primary
  PROVE  Simulates
<1>1. Sound(c) /\ Sound(current[t]) /\ Sound(primary) /\ current[t] \in Pointer /\ primary \in Pointer /\ TypeOK
  BY NamesTyped DEF IdentityInv, NamedInv, SoundIn
<1>2. /\ \A x \in Pointer : Sound(x) => Sound(x)' /\ IdAt(x)' = IdAt(x)
      /\ Existing' = Existing /\ Bound' = Bound \cup {<<nextId, IdAt(c)>>}
      /\ \A b \in Bound : b[1] # nextId
      /\ IdsInv' /\ (\A x \in Live("stream") : Sound(obj[x].ctx))'
  BY <1>1, StreamMade DEF StreamIn
<1>3. /\ Stacks' = Stacks /\ IdAt(primary)' = IdAt(primary) /\ Sound(primary)' /\ \A u \in Thread : SoundIn(u)'
  BY <1>2, NamesStay DEF StreamIn
<1>4. ByIdentity!Top(t) = IdAt(current[t])
  BY <1>1, StackOf
<1>5. /\ IdAt(Nil) = 0 /\ \A x \in Pointer : Sound(x) /\ x # Nil => IdAt(x) \in Id /\ IdAt(x) # 0
  BY SoundIds DEF IdAt
<1>6. ByIdentity!OpenStream(t)
  <2>1. CASE c # Nil
    <3>1. ByIdentity!WorksOn(t, IdAt(c)) /\ IdAt(c) \in Id
      BY <1>1, <1>2, <1>3, <1>4, <1>5, <2>1 DEF ByIdentity!WorksOn, ByIdentity!WithPrimary
    <3> QED
      BY <1>2, <1>3, <3>1 DEF ByIdentity!OpenStream
  <2>2. CASE c = Nil
    <3>1. ByIdentity!Top(t) = 0 /\ IdAt(primary) = 0 /\ IdAt(c) = 0
      BY <1>4, <1>5, <2>2
    <3> QED
      BY <1>2, <1>3, <3>1 DEF ByIdentity!OpenStream
  <2> QED
    BY <2>1, <2>2
<1> QED
  BY <1>2, <1>3, <1>6 DEF Simulates, NamedInv, ByIdentity!StacksNext

\* A stream is opened in a primary context that is made for it.
LEMMA SimStreamInNew ==
  ASSUME IdentityInv, TypeOK', NEW t \in Thread, nextId \in Id, NEW s \in FreeChunk, NEW a \in FreeChunk \ {s},
         StreamInNewPrimary(s, a), current[t] = Nil, primary = Nil, UNCHANGED <<primaryFlags, current, stack>>
  PROVE  Simulates
<1> DEFINE str == Stream(nextId, a)
           new == Context(nextId + 1, primaryFlags, TRUE)
           m   == nextId + 1
<1>1. /\ s \in Addr /\ a \in Addr /\ s # a /\ obj[s].kind = "free" /\ obj[a].kind = "free"
      /\ s # Nil /\ a # Nil /\ Nil \notin Addr /\ a \in Pointer
      /\ obj \in [Addr -> Struct] /\ primaryFlags \in Flags /\ TypeOK
      /\ \A x \in Addr : obj[x].ctx \in Pointer
  BY NilAssumption, NamesTyped DEF IdentityInv, TypeOK, FreeChunk, Pointer
<1>2. /\ obj' = [obj EXCEPT ![s] = str, ![a] = new] /\ nextId' = nextId + 2 /\ primary' = a
      /\ nextId \in Nat /\ m \in Id /\ m \in Nat
  BY IdType DEF StreamInNewPrimary
<1>3. str.kind = "stream" /\ str.id = nextId /\ str.ctx = a
  BY <1>1, <1>2, IdType, StreamType
<1>4. new.kind = "ctx" /\ new.id = m
  BY DEF Context, Blank
<1>m. m = nextId + 1
  OBVIOUS
<1> HIDE DEF str, new, m
<1>5. \A x \in Addr : obj'[x] = IF x = a THEN new ELSE IF x = s THEN str ELSE obj[x]
  BY <1>1, <1>2
<1>6. \A x \in Pointer : Sound(x) => x # a /\ x # s
  BY <1>1 DEF Sound, ValidCtx, IsKind
<1>7. \A x \in Pointer : Sound(x) => Sound(x)' /\ IdAt(x)' = IdAt(x)
  BY <1>1, <1>5, <1>6 DEF Sound, ValidCtx, IsKind, IdAt, Pointer
<1>8. \A b \in Addr : Numbered(b) => obj[b].id \in Id /\ obj[b].id < nextId /\ obj[b].id # nextId /\ obj[b].id # m
  BY <1>2, <1>m, IdType DEF IdentityInv, IdsInv
<1>9. \A x \in Addr : obj'[x].id = IF x = a THEN m ELSE IF x = s THEN nextId ELSE obj[x].id
  BY <1>1, <1>3, <1>4, <1>5
<1>10. \A x \in Addr : Numbered(x)' <=> x = a \/ x = s \/ (x # a /\ x # s /\ Numbered(x))
  BY <1>1, <1>3, <1>4, <1>5 DEF Numbered
<1>11. IdsInv'
  <2>1. ASSUME NEW x \in Addr, Numbered(x)' PROVE obj'[x].id \in Id /\ obj'[x].id < nextId'
    <3>1. nextId < nextId' /\ m < nextId'
      BY <1>2, <1>m
    <3>2. CASE x = a \/ x = s
      BY <1>1, <1>2, <1>9, <3>1, <3>2
    <3>3. CASE x # a /\ x # s
      <4>1. obj[x].id \in Id /\ obj[x].id < nextId /\ obj'[x].id = obj[x].id
        BY <1>8, <1>9, <1>10, <2>1, <3>3
      <4>2. obj[x].id \in Nat
        BY <4>1, IdType
      <4> QED
        BY <1>2, <4>1, <4>2
    <3> QED
      BY <3>2, <3>3
  <2>2. ASSUME NEW x \in Addr, NEW y \in Addr, Numbered(x)', Numbered(y)', obj'[x].id = obj'[y].id PROVE x = y
    <3>1. m # nextId
      BY <1>2, <1>m
    <3> QED
      BY <1>1, <1>8, <1>9, <1>10, <2>2, <3>1 DEF IdentityInv, IdsInv
  <2> QED
    BY <2>1, <2>2 DEF IdsInv
<1>12. m \in Id \ Existing
  BY <1>2, <1>8, Members DEF Numbered
<1>13. Existing' = Existing \cup {m}
  <2>1. \A c : c \in Existing' <=> \E b \in Addr : obj'[b].kind = "ctx" /\ c = obj'[b].id
    BY DEF Existing, Live
  <2>2. \A b \in Addr : obj'[b].kind = "ctx" <=> b = a \/ (b # a /\ b # s /\ obj[b].kind = "ctx")
    BY <1>1, <1>3, <1>4, <1>5
  <2>3. \A b \in Addr : obj[b].kind = "ctx" => b # a /\ b # s
    BY <1>1
  <2>4. \A c : c \in Existing' <=> c = m \/ \E b \in Addr : obj[b].kind = "ctx" /\ c = obj[b].id
    BY <1>1, <1>9, <2>1, <2>2, <2>3
  <2>5. \A c : c \in Existing' <=> c = m \/ c \in Existing
    BY <2>4, Members
  <2> QED
    BY <2>5, Zenon
<1>14. IdAt(a)' = m /\ Sound(a)' /\ IdAt(obj[s].ctx)' = m /\ Sound(obj[s].ctx)'
  BY <1>1, <1>3, <1>4, <1>5 DEF Sound, ValidCtx, IsKind, IdAt
<1>15. \A x \in Addr : obj'[x].kind = "stream" <=> x = s \/ (x # a /\ x # s /\ obj[x].kind = "stream")
  BY <1>1, <1>3, <1>4, <1>5
<1>16. \A x \in Addr : obj[x].kind = "stream" => x # a /\ x # s /\ obj'[x] = obj[x] /\ Sound(obj[x].ctx)
  BY <1>1, <1>5 DEF IdentityInv, NamedInv, Live
<1>17. Bound' = Bound \cup {<<nextId, m>>}
  <2>1. \A b : b \in Bound' <=> \E x \in Addr : obj'[x].kind = "stream" /\ b = <<obj'[x].id, IdAt(obj[x].ctx)'>>
    BY DEF Bound, Live, IdAt
  <2>2. \A x \in Addr : obj[x].kind = "stream" => <<obj'[x].id, IdAt(obj[x].ctx)'>> = <<obj[x].id, IdAt(obj[x].ctx)>>
    BY <1>1, <1>7, <1>16 DEF IdAt
  <2>3. \A b : b \in Bound' <=> b = <<obj'[s].id, IdAt(obj[s].ctx)'>> \/ \E x \in Addr : obj[x].kind = "stream" /\ b = <<obj[x].id, IdAt(obj[x].ctx)>>
    BY <1>1, <1>15, <1>16, <2>1, <2>2
  <2>4. obj'[s].id = nextId
    BY <1>1, <1>9
  <2>5. \A b : b \in Bound' <=> b = <<nextId, m>> \/ b \in Bound
    BY <1>14, <2>3, <2>4, Members
  <2> QED
    BY <2>5, Zenon
<1>18. \A b \in Bound : b[1] # nextId
  <2>1. ASSUME NEW b \in Bound PROVE b[1] # nextId
    <3>1. PICK x \in Addr : obj[x].kind = "stream" /\ b = <<obj[x].id, IdAt(obj[x].ctx)>>
      BY <2>1, Members
    <3>2. b[1] = obj[x].id
      BY <3>1
    <3> QED
      BY <1>8, <3>1, <3>2 DEF Numbered
  <2> QED
    BY <2>1
<1>19. (\A x \in Live("stream") : Sound(obj[x].ctx))'
  BY <1>1, <1>7, <1>14, <1>15, <1>16 DEF Live, Sound, ValidCtx, IsKind
<1>20. /\ \A u \in Thread : Sound(current[u])' /\ IdAt(current[u])' = IdAt(current[u])
       /\ \A u \in Thread : \A i \in DOMAIN stack[u] : Sound(stack[u][i])' /\ IdAt(stack[u][i])' = IdAt(stack[u][i])
  BY <1>7, NamesKept DEF IdentityInv
<1>21. Stacks' = Stacks
  BY <1>1, <1>20, StacksSame
<1>22. NamedInv'
  BY <1>2, <1>14, <1>19, <1>20 DEF NamedInv, SoundIn, Sound, ValidCtx, IsKind
<1>23. ByIdentity!Top(t) = 0 /\ IdAt(primary) = 0 /\ IdAt(primary)' = m
  <2>1. ByIdentity!Top(t) = IdAt(current[t])
    BY <1>1, StackOf
  <2> QED
    BY <1>2, <1>14, <2>1 DEF IdAt
<1>24. ByIdentity!WorksOn(t, m)
  BY <1>12, <1>13, <1>23 DEF ByIdentity!WorksOn, ByIdentity!WithPrimary
<1>25. ByIdentity!OpenStream(t)
  BY <1>2, <1>17, <1>18, <1>21, <1>24 DEF ByIdentity!OpenStream
<1> QED
  BY <1>11, <1>22, <1>25 DEF Simulates, ByIdentity!StacksNext

\* A stream is created.
LEMMA SimStream ==
  ASSUME IdentityInv, TypeOK', NEW t \in Thread, StreamCreate(t)
  PROVE  Simulates
<1>1. nextId \in Id /\ UNCHANGED <<primaryFlags, current, stack>>
  BY DEF StreamCreate
<1>2. PICK s \in FreeChunk :
       \/ ValidCtx(current[t]) /\ StreamIn(s, current[t])
       \/ ~ValidCtx(current[t]) /\ primary # Nil /\ StreamIn(s, primary)
       \/ ~ValidCtx(current[t]) /\ primary = Nil /\ StreamIn(s, Nil)
       \/ /\ ~ValidCtx(current[t]) /\ primary = Nil
          /\ \E a \in FreeChunk \ {s} : StreamInNewPrimary(s, a)
  BY DEF StreamCreate
<1>3. /\ ValidCtx(current[t]) => current[t] # Nil
      /\ ~ValidCtx(current[t]) => current[t] = Nil
      /\ current[t] \in Pointer /\ primary \in Pointer /\ Nil \in Pointer
  BY NamesTyped DEF IdentityInv, NamedInv, SoundIn, Sound, ValidCtx, IsKind, Pointer
<1>4. CASE ValidCtx(current[t]) /\ StreamIn(s, current[t])
  <2> DEFINE c == current[t]
  <2>1. c \in Pointer /\ StreamIn(s, c) /\ c # Nil /\ c = current[t]
    BY <1>3, <1>4
  <2> HIDE DEF c
  <2> QED
    BY <1>1, <2>1, SimStreamIn
<1>5. CASE ~ValidCtx(current[t]) /\ StreamIn(s, primary)
  <2> DEFINE c == primary
  <2>1. c \in Pointer /\ StreamIn(s, c) /\ current[t] = Nil /\ c = primary
    BY <1>3, <1>5
  <2> HIDE DEF c
  <2> QED
    BY <1>1, <2>1, SimStreamIn
<1>6. CASE ~ValidCtx(current[t]) /\ primary = Nil /\ StreamIn(s, Nil)
  BY <1>1, <1>3, <1>6, SimStreamIn
<1>7. ASSUME ~ValidCtx(current[t]), primary = Nil, NEW a \in FreeChunk \ {s}, StreamInNewPrimary(s, a) PROVE Simulates
  BY <1>1, <1>3, <1>7, SimStreamInNew
<1> QED
  BY <1>2, <1>4, <1>5, <1>6, <1>7

\* Nothing is called.
LEMMA SimStutter ==
  ASSUME IdentityInv, vars' = vars
  PROVE  Simulates
<1>1. UNCHANGED <<obj, primary, primaryFlags, current, stack, nextId>>
  BY DEF vars
<1>2. NamedInv' /\ IdsInv'
  BY <1>1 DEF IdentityInv, NamedInv, IdsInv, SoundIn, Sound, ValidCtx, IsKind, Numbered, Live
<1>3. Existing' = Existing /\ Bound' = Bound /\ Stacks' = Stacks /\ IdAt(primary)' = IdAt(primary)
  BY <1>1 DEF Existing, Bound, Stacks, StackIds, IdAt, Live
<1> QED
  BY <1>2, <1>3 DEF Simulates, ByIdentity!stackVars

\* Every call of a careful program is a step of ContextStacks or changes nothing of it.
LEMMA SimNext ==
  ASSUME IdentityInv, PrimaryIsOne, Careful, TypeOK', [Next]_vars
  PROVE  Simulates
<1>1. CASE vars' = vars
  BY <1>1, SimStutter
<1>2. ASSUME NEW t \in Thread,
             CtxCreate(t) \/ CtxPopCurrent(t) \/ PrimaryCtxRetain(t) \/ PrimaryCtxReset(t) \/ UseCurrent(t) \/ StreamCreate(t)
      PROVE Simulates
  BY <1>2, SimCreate, SimPop, SimRetain, SimReset, SimUse, SimStream
<1>3. ASSUME NEW t \in Thread, NEW a \in Addr, CtxDestroy(t, a) \/ CtxPushCurrent(t, a) PROVE Simulates
  BY <1>3, SimDestroy, SimPush
<1>4. ASSUME NEW t \in Thread, NEW a \in Pointer, CtxSetCurrent(t, a) PROVE Simulates
  BY <1>4, SimMakeCurrent
<1>5. ASSUME NEW f \in Flags, PrimaryCtxSetFlags(f) PROVE Simulates
  BY <1>5, SimFlags
<1>6. ASSUME NEW a \in Addr, StreamDestroy(a) \/ EventCreate(a) \/ EventDestroy(a) PROVE Simulates
  BY <1>6, SimStruct
<1> QED
  BY <1>1, <1>2, <1>3, <1>4, <1>5, <1>6 DEF Next

\* At first nothing exists, and every thread has no context current.
LEMMA SimInit ==
  ASSUME Init PROVE NamedInv /\ IdsInv /\ ByIdentity!StacksInit
<1>1. /\ \A a \in Addr : obj[a].kind = "free"
      /\ primary = Nil /\ \A t \in Thread : current[t] = Nil /\ stack[t] = <<>>
  BY BlankType DEF Init
<1>2. Live("ctx") = {} /\ Live("stream") = {} /\ \A a \in Addr : ~Numbered(a)
  BY <1>1 DEF Live, Numbered
<1>3. NamedInv /\ IdsInv
  BY <1>1, <1>2 DEF NamedInv, IdsInv, SoundIn, Sound
<1>4. Existing = {} /\ Bound = {} /\ IdAt(primary) = 0
  BY <1>1, <1>2 DEF Existing, Bound, IdAt
<1>5. Stacks = [t \in Thread |-> <<0>>]
  <2>1. ASSUME NEW t \in Thread PROVE StackIds(t) = <<0>>
    <3>1. Len(stack[t]) = 0 /\ IdAt(current[t]) = 0
      BY <1>1 DEF IdAt
    <3>2. StackIds(t) = [i \in 1..1 |-> IF i > 0 THEN 0 ELSE IdAt(stack[t][i])]
      BY <3>1 DEF StackIds
    <3> QED
      BY <3>2
  <2> QED
    BY <2>1 DEF Stacks
<1> QED
  BY <1>3, <1>4, <1>5 DEF ByIdentity!StacksInit

\* To a program that destroys a context only when nothing else names it, it makes no
\* difference that a context is an address: however threads' calls interleave and chunks
\* are used again, what each has current and pushed and what streams belong to is what
\* the same calls make of identities (ContextStacks).  That is the code's own behaviour;
\* what cuda.h says of the stack instead is StackAsDocumented, which the code violates.
THEOREM CarefulKeepsStacks == Careful => (Spec => ImplementsStacks)
PROOF
<1> SUFFICES ASSUME Careful PROVE Spec => ImplementsStacks
  OBVIOUS
<1> DEFINE Inv == NamedInv /\ IdsInv
<1>1. Init => Inv /\ ByIdentity!StacksInit
  BY SimInit
<1>2. TypeOK /\ OnePrimary /\ TypeOK' /\ Inv /\ [Next]_vars => Inv' /\ [ByIdentity!StacksNext]_(ByIdentity!stackVars)
  BY SimNext, OnePrimaryMeans DEF IdentityInv, Simulates
<1> HIDE DEF Inv
<1> QED
  BY <1>1, <1>2, TypeCorrect, PrimaryIsOnly, PTL DEF Spec, ImplementsStacks, ByIdentity!StacksSpec
=============================================================================
