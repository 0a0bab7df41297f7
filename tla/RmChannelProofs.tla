-------------------------- MODULE RmChannelProofs --------------------------
(***************************************************************************)
(* The RM objects behind the channel, for any number of pages, classes and *)
(* staging buffers and a failure of any kernel call: at every call nothing *)
(* is freed under a user, between operations nothing is left behind, and   *)
(* the channel that is up stays up.                                        *)
(***************************************************************************)
EXTENDS RmChannel, SequenceTheorems, TLAPS

(***************************************************************************)
(* Where an operation is: the calls of s from the i-th on are still to be  *)
(* made, and those before it did op about at.                              *)
(***************************************************************************)
Rest(s, i) == SubSeq(s, i, Len(s))
Did(s, i, op, at) == \E k \in 1..(i - 1) : s[k].op = op /\ s[k].at = at

InitAt(i)       == i \in 1..5 /\ todo = Rest(RmInit, i)
RaiseAt(i)      == i \in 1..15 /\ todo = Rest(BringUp, i)
TryAt(op, n)    == /\ op \in {"userAlloc", "userMap"} /\ n \in 1..Tries
                   /\ todo = <<CallN(op, "usermode", n)>> \o Rest(BringUp, 13)
LowerAt(j)      == j \in 1..15 /\ todo = Rest(TearDown, j)
StageAt(b, i, n)  == i \in 1..4 /\ todo = Rest(Stage(b, n), i)
ReleaseAt(b, i, next) == i \in 1..4 /\ todo = Rest(Release(b), i) \o next
ComputeAt(op, n)  == /\ op \in {"compute", "computeId"} /\ n \in 1..ComputeClasses
                     /\ todo = <<CallN(op, "compute", n)>>

(***************************************************************************)
(* Handles are drawn once, so no two objects have the same one; an object  *)
(* has the handle the library holds for it, unless it is being tried.      *)
(***************************************************************************)
Base == {"client", "device", "subdevice"}
BaseHandle(o) == CASE o = "client" -> 1 [] o = "device" -> 2 [] o = "subdevice" -> 3
Made == Object \ Base

HandleInv ==
  /\ nextHandle \in Nat /\ nextHandle >= 4
  /\ \A o \in Base : h[o] \in {0, BaseHandle(o)}
  /\ \A o \in Made : h[o] = 0 \/ h[o] \in 4..(nextHandle - 1)
  /\ \A o, p \in Made : h[o] = h[p] /\ h[o] # 0 => o = p

Tried(s) == s # <<>> /\ Head(s).op \in {"userMap", "computeId"}
Trial == Tried(todo)
OwnHandle(o) ==
  IF o.at \in Base THEN o.h = BaseHandle(o.at)
  ELSE /\ o.h \in 4..(nextHandle - 1)
       /\ o.h = h[o.at] \/ (Trial /\ o.at = At /\ o.h = nextHandle - 1)
ParentOk(o) ==
  \/ o.at = "client" /\ o.parent = "none"
  \/ o.at = "device" /\ o.parent = "client"
  \/ o.at \notin {"client", "device"} /\ o.parent = "device"
  \/ o.at = "ctxdma" /\ o.parent = "client"
  \/ o.at \in Made /\ o.parent = "subdevice" /\ h["subdevice"] # 0
  \/ o.at = "compute" /\ o.parent = "channel"
ObjInv ==
  /\ \A o \in objs : o.at \in Object /\ OwnHandle(o) /\ ParentOk(o)
  /\ Trial => /\ At \in Made /\ h[At] = 0 /\ nextHandle > 4
              /\ \A o \in Made : h[o] # nextHandle - 1
MapInv ==
  /\ \A k \in klin \cup kdma : k # 0 /\ \E m \in Memory : h[m] = k
  /\ files \subseteq Memory

(***************************************************************************)
(* What the library believes of a mapped memory, and what the kernel still *)
(* has of it.                                                              *)
(***************************************************************************)
MemOk(m, pages, freed, unmapped, undma, left) ==
  /\ lin[m] => h[m] # 0 /\ (freed \/ Exists(m))
  /\ cpu[m] = IF lin[m] THEN pages ELSE 0
  /\ mapped[m] = IF unmapped THEN left ELSE cpu[m]
  /\ h[m] \in klin <=> lin[m] /\ ~unmapped
  /\ va[m] => lin[m]
  /\ h[m] \in kdma <=> va[m] /\ ~undma
  /\ fd[m] <=> m \in files

Pg(m) == IF m = "gpfifo" THEN Pages ELSE 1
Left(m) == IF m = "gpfifo" /\ dmaFailed THEN Pages - 1 ELSE 0
ChanObj == Channel \cup {"vaspace", "ctxdma", "channel"}

\* The channel when the first j-1 calls of a clean-up are made (j is 1 before it).
ChanMem(j) ==
  \A m \in Channel :
    /\ MemOk(m, Pg(m), Did(TearDown, j, "free", m), Did(TearDown, j, "unmapCpu", m),
             Did(TearDown, j, "unmapDma", m), Left(m))
    /\ va[m] => m \in {"notifier", "gpfifo"} /\ h["vaspace"] # 0
    /\ size[m] = IF m = "gpfifo" /\ va[m] THEN Pages ELSE 0
ChanObjs(j) ==
  /\ \A o \in ChanObj : Exists(o) => ~Did(TearDown, j, "free", o)
  /\ (\E m \in Channel : va[m]) => Exists("vaspace") \/ Did(TearDown, j, "free", "vaspace")
  /\ Exists("ctxdma") => Exists("notifier")
  /\ Exists("channel") =>
       Exists("vaspace") /\ Exists("ctxdma") /\ Exists("userd") /\ Exists("gpfifo") /\ va["gpfifo"]
Chan(j) == ChanMem(j) /\ ChanObjs(j)

(***************************************************************************)
(* The stages of the system.                                               *)
(***************************************************************************)
Nothing(m) == Absent(m) /\ mapped[m] = Left(m)
NoBufs == (\A b \in Buf : Nothing(b)) /\ ~Exists("compute") /\ h["compute"] = 0
Bare ==
  /\ ~ready /\ under = "none"
  /\ \A m \in Memory : Nothing(m)
  /\ \A o \in Made : h[o] = 0 /\ ~Exists(o)
BaseDown == objs = {} /\ \A o \in Base : h[o] = 0
BaseUp ==
  /\ rm = "ready" /\ Exists("client") /\ Exists("device") /\ h["client"] = 1 /\ h["device"] = 2
  /\ h["subdevice"] # 0 <=> Exists("subdevice")

\* rm_init_locked at its i-th call.
Started(i) ==
  /\ Bare /\ rm = "failed" /\ ~attempted /\ ~dmaFailed
  /\ \A o \in Base : h[o] = 0
  /\ Exists("client") <=> i > 2
  /\ Exists("device") <=> i > 3
  /\ Exists("subdevice") => i > 4

\* The bring-up at its i-th call.
Making == {"object", "memory"}
Raised(i) ==
  /\ BaseUp /\ NoBufs /\ attempted /\ ~ready /\ ~dmaFailed /\ Chan(1)
  /\ \A o \in ChanObj \ {"usermode"} :
       /\ h[o] # 0 <=> \E op \in Making : Did(BringUp, i, op, o)
       /\ Exists(o) <=> \E op \in Making : Did(BringUp, i, op, o)
  /\ \A m \in Channel \ {"usermode"} : lin[m] <=> Did(BringUp, i, "mapCpu", m)
  /\ \A m \in Channel : /\ va[m] <=> Did(BringUp, i, "mapDma", m)
                        /\ fd[m] <=> i > 1
  /\ IF Doorbell /\ i > 12
       THEN Exists("usermode") /\ lin["usermode"] /\ under # "none"
       ELSE h["usermode"] = 0 /\ ~lin["usermode"] /\ under = "none"

Lowered(j) ==
  /\ BaseUp /\ NoBufs /\ attempted /\ ~ready /\ Chan(j)
  /\ dmaFailed <=> lin["gpfifo"] /\ ~va["gpfifo"]

\* The channel is up.
Up ==
  /\ BaseUp /\ ready /\ attempted /\ ~dmaFailed /\ Chan(1)
  /\ \A o \in ChanObj \ {"usermode"} : Exists(o)
  /\ \A m \in Channel \ {"usermode"} : lin[m]
  /\ va["notifier"] /\ va["gpfifo"]
  /\ \A m \in Channel : fd[m]
  /\ Doorbell => Exists("usermode") /\ lin["usermode"] /\ under # "none"

\* A staging buffer between operations, at a call of its staging, and of its release.
Whole(b) == Exists(b) /\ lin[b] /\ va[b] /\ fd[b] /\ size[b] >= asked[b] /\ size[b] # 0
Settled(b) ==
  /\ MemOk(b, size[b], FALSE, FALSE, FALSE, 0)
  /\ Whole(b) \/ Nothing(b)
Staged(b, i, n) ==
  /\ MemOk(b, size[b], FALSE, FALSE, FALSE, 0) /\ n # 0 /\ asked[b] = n
  /\ (Exists(b) <=> i > 2) /\ (h[b] # 0 <=> i > 2) /\ size[b] = IF i > 2 THEN n ELSE 0
  /\ (lin[b] <=> i > 3) /\ ~va[b] /\ (fd[b] <=> i > 1)
Released(b, i) ==
  /\ MemOk(b, size[b], i > 3, i > 2, i > 1, 0)
  /\ Exists(b) => i <= 3
  /\ lin[b] => size[b] # 0
Others(b) == \A c \in Buf \ {b} : Settled(c)

Continuations(b) == {<<>>} \cup {Stage(b, n) : n \in {asked[b]} \ {0}}

PhaseInv ==
  \/ todo = <<>> /\ Bare /\ BaseDown /\ rm \in {"new", "failed"} /\ ~dmaFailed /\ (rm = "new" => ~attempted)
  \/ todo = <<>> /\ Bare /\ BaseUp /\ (~attempted => ~dmaFailed)
  \/ todo = <<>> /\ Up /\ \A b \in Buf : Settled(b)
  \/ \E i \in 1..5 : InitAt(i) /\ Started(i)
  \/ \E i \in 1..15 : RaiseAt(i) /\ Raised(i)
  \/ \E op \in {"userAlloc", "userMap"}, n \in 1..Tries :
        TryAt(op, n) /\ Raised(12) /\ Doorbell /\ (op = "userMap" => Exists("usermode"))
  \/ \E j \in 1..15 : LowerAt(j) /\ Lowered(j)
  \/ \E b \in Buf, i \in 1..4 : StageAt(b, i, asked[b]) /\ Up /\ Staged(b, i, asked[b]) /\ Others(b)
  \/ \E b \in Buf, i \in 1..4 : \E next \in Continuations(b) :
        ReleaseAt(b, i, next) /\ Up /\ Released(b, i) /\ Others(b)
  \/ \E op \in {"compute", "computeId"}, n \in 1..ComputeClasses :
        /\ ComputeAt(op, n) /\ Up /\ h["compute"] = 0 /\ \A b \in Buf : Settled(b)
        /\ op = "computeId" => Exists("compute")

UnderInv == under \in {"none", "device"} \/ (under = "subdevice" /\ h["subdevice"] # 0)

\* The types of what the steps change.
TypeInv ==
  /\ rm \in {"new", "ready", "failed"} /\ attempted \in BOOLEAN /\ ready \in BOOLEAN
  /\ h \in [Object -> Nat] /\ cpu \in [Memory -> Nat] /\ size \in [Memory -> Nat]
  /\ lin \in [Memory -> BOOLEAN] /\ va \in [Memory -> BOOLEAN] /\ fd \in [Memory -> BOOLEAN]
  /\ objs \subseteq [at : Object, h : Nat, parent : Object \cup {"none"}]
  /\ mapped \in [Memory -> Nat] /\ klin \subseteq Nat /\ kdma \subseteq Nat
  /\ asked \in [Buf -> Nat]

Basis == TypeInv /\ HandleInv /\ ObjInv /\ MapInv /\ UnderInv
RmInv == Basis /\ PhaseInv

-----------------------------------------------------------------------------
(***************************************************************************)
(* Sequences of calls.                                                     *)
(***************************************************************************)
\* The first of the calls that are left, and those after it.
LEMMA RestStep ==
  ASSUME NEW s \in Seq(CallSet), NEW i \in 1..Len(s)
  PROVE  /\ Rest(s, i) # <<>> /\ Rest(s, i) \in Seq(CallSet)
         /\ Head(Rest(s, i)) = s[i] /\ Tail(Rest(s, i)) = Rest(s, i + 1)
<1>1. Len(s) \in Nat /\ i \in Int /\ Len(s) \in i..Len(s)
  BY LenProperties
<1>2. \A k \in i..Len(s) : s[k] \in CallSet
  BY <1>1, ElementOfSeq
<1>3. Rest(s, i) \in Seq(CallSet) /\ Len(Rest(s, i)) > 0
  BY <1>1, <1>2, SubSeqProperties DEF Rest
<1>4. Rest(s, i) # <<>>
  BY <1>3, EmptySeq
<1> QED
  BY <1>1, <1>3, <1>4, HeadTailOfSubSeq DEF Rest

\* All of the calls, and none of them.
LEMMA RestEnds ==
  ASSUME NEW s \in Seq(CallSet) PROVE Rest(s, 1) = s /\ Rest(s, Len(s) + 1) = <<>>
BY SubSeqFull, SubSeqEmpty, LenProperties DEF Rest

\* The calls that are left of s and then t.
LEMMA ThenStep ==
  ASSUME NEW s \in Seq(CallSet), s # <<>>, NEW t \in Seq(CallSet)
  PROVE  /\ s \o t # <<>> /\ s \o t \in Seq(CallSet)
         /\ Head(s \o t) = Head(s) /\ Tail(s \o t) = Tail(s) \o t
<1>1. Len(s) \in Nat \ {0} /\ Len(t) \in Nat
  BY EmptySeq, LenProperties
<1>2. /\ s \o t \in Seq(CallSet) /\ Len(s \o t) = Len(s) + Len(t)
      /\ \A i \in 1..(Len(s) + Len(t)) : (s \o t)[i] = IF i <= Len(s) THEN s[i] ELSE t[i - Len(s)]
  BY ConcatProperties
<1>3. s \o t # <<>>
  BY <1>1, <1>2, EmptySeq
<1>4. Head(s \o t) = Head(s)
  BY <1>1, <1>2
<1>5. /\ Tail(s) \in Seq(CallSet) /\ Len(Tail(s)) = Len(s) - 1
      /\ \A i \in 1..Len(Tail(s)) : Tail(s)[i] = s[i + 1]
      /\ Tail(s \o t) \in Seq(CallSet) /\ Len(Tail(s \o t)) = Len(s \o t) - 1
      /\ \A i \in 1..Len(Tail(s \o t)) : Tail(s \o t)[i] = (s \o t)[i + 1]
  BY <1>2, <1>3, HeadTailProperties
<1>6. /\ Tail(s) \o t \in Seq(CallSet) /\ Len(Tail(s) \o t) = Len(Tail(s)) + Len(t)
      /\ \A i \in 1..(Len(Tail(s)) + Len(t)) :
            (Tail(s) \o t)[i] = IF i <= Len(Tail(s)) THEN Tail(s)[i] ELSE t[i - Len(Tail(s))]
  BY <1>5, ConcatProperties
<1>7. Tail(s \o t) = Tail(s) \o t
  <2>1. \A i \in 1..Len(Tail(s \o t)) : Tail(s \o t)[i] = (Tail(s) \o t)[i]
    BY <1>1, <1>2, <1>5, <1>6
  <2> QED
    BY <1>1, <1>2, <1>5, <1>6, <2>1, SeqEqual
<1> QED
  BY <1>2, <1>3, <1>4, <1>7

\* A single call in front of others.
LEMMA FrontStep ==
  ASSUME NEW c \in CallSet, NEW t \in Seq(CallSet)
  PROVE  /\ <<c>> \o t # <<>> /\ <<c>> \o t \in Seq(CallSet)
         /\ Head(<<c>> \o t) = c /\ Tail(<<c>> \o t) = t
<1>1. <<c>> \in Seq(CallSet) /\ <<c>> # <<>> /\ Head(<<c>>) = c /\ Tail(<<c>>) = <<>>
  OBVIOUS
<1> QED
  BY <1>1, ThenStep, ConcatEmptySeq

\* What the calls made so far did, when one more is made.
LEMMA DidStep ==
  ASSUME NEW s, NEW i \in Nat \ {0}
  PROVE  /\ \A op, at : Did(s, i + 1, op, at) <=> Did(s, i, op, at) \/ (s[i].op = op /\ s[i].at = at)
         /\ \A op, at : ~Did(s, 1, op, at)
BY DEF Did

\* The calls are calls.
LEMMA CallType ==
  ASSUME NEW op \in Ops, NEW at \in Object, NEW n \in Nat
  PROVE  CallN(op, at, n) \in CallSet /\ Call(op, at) \in CallSet
BY DEF CallSet, CallN, Call, Ops

\* The objects have names of their own.
LEMMA Names ==
  /\ {"notifier", "gpfifo", "userd", "usermode"} \cup Buf \subseteq Object
  /\ {"client", "device", "subdevice", "vaspace", "ctxdma", "channel", "compute"} \subseteq Object
  /\ Channel \subseteq Memory /\ Buf \subseteq Memory /\ Memory \subseteq Object
  /\ \A m \in Memory : m \notin Buf => m \in Channel
  /\ \A b \in Buf : b \notin Channel /\ b \notin Base /\ b \notin ChanObj /\ b # "compute"
BY BufAssumption DEF Object, Memory, Channel, Base, ChanObj

\* The operations are sequences of calls.
LEMMA Operations ==
  /\ RmInit \in Seq(CallSet) /\ Len(RmInit) = 5
  /\ BringUp \in Seq(CallSet) /\ Len(BringUp) = 15
  /\ TearDown \in Seq(CallSet) /\ Len(TearDown) = 15
  /\ \A b \in Buf : Release(b) \in Seq(CallSet) /\ Len(Release(b)) = 4
  /\ \A b \in Buf, n \in Nat : Stage(b, n) \in Seq(CallSet) /\ Len(Stage(b, n)) = 4
<1>1. \A op \in Ops, at \in Object, n \in Nat : CallN(op, at, n) \in CallSet /\ Call(op, at) \in CallSet
  BY CallType
<1>2. Pages \in Nat /\ 1 \in Nat
  BY PagesAssumption
<1>3. RmInit \in Seq(CallSet) /\ Len(RmInit) = 5
  <2>1. /\ Call("query", "client") \in CallSet /\ Call("root", "client") \in CallSet
        /\ Call("device", "device") \in CallSet /\ Call("subdevice", "subdevice") \in CallSet
        /\ Call("rmReady", "client") \in CallSet
    BY <1>1, Names DEF Ops
  <2> QED
    BY <2>1 DEF RmInit
<1>4. BringUp \in Seq(CallSet) /\ Len(BringUp) = 15
  <2>1. /\ Call("openAll", "channel") \in CallSet /\ Call("object", "vaspace") \in CallSet
        /\ CallN("memory", "notifier", 1) \in CallSet /\ CallN("mapCpu", "notifier", 1) \in CallSet
        /\ Call("mapDma", "notifier") \in CallSet /\ Call("object", "ctxdma") \in CallSet
        /\ CallN("memory", "gpfifo", Pages) \in CallSet /\ CallN("mapCpu", "gpfifo", Pages) \in CallSet
        /\ Call("mapDma", "gpfifo") \in CallSet /\ CallN("memory", "userd", 1) \in CallSet
        /\ CallN("mapCpu", "userd", 1) \in CallSet /\ Call("usermode", "usermode") \in CallSet
        /\ Call("object", "channel") \in CallSet /\ Call("control", "channel") \in CallSet
        /\ Call("channelReady", "channel") \in CallSet
    BY <1>1, <1>2, Names DEF Ops
  <2> QED
    BY <2>1 DEF BringUp
<1>5. TearDown \in Seq(CallSet) /\ Len(TearDown) = 15
  <2>1. /\ Call("free", "compute") \in CallSet /\ Call("free", "channel") \in CallSet
        /\ Call("unmapCpu", "usermode") \in CallSet /\ Call("free", "usermode") \in CallSet
        /\ Call("unmapCpu", "userd") \in CallSet /\ Call("free", "userd") \in CallSet
        /\ Call("unmapDma", "gpfifo") \in CallSet /\ Call("unmapCpu", "gpfifo") \in CallSet
        /\ Call("free", "gpfifo") \in CallSet /\ Call("free", "ctxdma") \in CallSet
        /\ Call("unmapCpu", "notifier") \in CallSet /\ Call("unmapDma", "notifier") \in CallSet
        /\ Call("free", "notifier") \in CallSet /\ Call("free", "vaspace") \in CallSet
        /\ Call("reset", "channel") \in CallSet
    BY <1>1, Names DEF Ops
  <2> QED
    BY <2>1 DEF TearDown
<1>6. ASSUME NEW b \in Buf PROVE Release(b) \in Seq(CallSet) /\ Len(Release(b)) = 4
  <2>1. /\ Call("unmapDma", b) \in CallSet /\ Call("unmapCpu", b) \in CallSet
        /\ Call("free", b) \in CallSet /\ Call("close", b) \in CallSet
    BY <1>1, Names DEF Ops
  <2> QED
    BY <2>1 DEF Release
<1>7. ASSUME NEW b \in Buf, NEW n \in Nat PROVE Stage(b, n) \in Seq(CallSet) /\ Len(Stage(b, n)) = 4
  <2>1. /\ Call("open", b) \in CallSet /\ CallN("memory", b, n) \in CallSet
        /\ CallN("mapCpu", b, n) \in CallSet /\ Call("mapDma", b) \in CallSet
    BY <1>1, Names DEF Ops
  <2> QED
    BY <2>1 DEF Stage
<1> QED
  BY <1>3, <1>4, <1>5, <1>6, <1>7

\* The calls of a bring-up, and what has been done when each is made.
LEMMA BringUpCalls ==
  /\ BringUp[1] = Call("openAll", "channel") /\ BringUp[2] = Call("object", "vaspace")
  /\ BringUp[3] = CallN("memory", "notifier", 1) /\ BringUp[4] = CallN("mapCpu", "notifier", 1)
  /\ BringUp[5] = Call("mapDma", "notifier") /\ BringUp[6] = Call("object", "ctxdma")
  /\ BringUp[7] = CallN("memory", "gpfifo", Pages) /\ BringUp[8] = CallN("mapCpu", "gpfifo", Pages)
  /\ BringUp[9] = Call("mapDma", "gpfifo") /\ BringUp[10] = CallN("memory", "userd", 1)
  /\ BringUp[11] = CallN("mapCpu", "userd", 1) /\ BringUp[12] = Call("usermode", "usermode")
  /\ BringUp[13] = Call("object", "channel") /\ BringUp[14] = Call("control", "channel")
  /\ BringUp[15] = Call("channelReady", "channel")
BY DEF BringUp

\* What a bring-up has done when it comes to a call.
LEMMA BringUpOrder ==
  ASSUME NEW i \in 1..15
  PROVE  /\ BringUp[i].op \in {"openAll", "object", "memory", "mapCpu", "mapDma", "usermode",
                               "control", "channelReady"}
         /\ BringUp[i].op = "openAll" <=> i = 1
         /\ BringUp[i].op = "usermode" <=> i = 12
         /\ BringUp[i].op = "control" <=> i = 14
         /\ BringUp[i].op = "channelReady" <=> i = 15
         /\ BringUp[i].op \in {"object", "memory"} =>
              /\ 1 < i /\ i < 14 /\ i # 12
              /\ ~Did(BringUp, i, "object", BringUp[i].at) /\ ~Did(BringUp, i, "memory", BringUp[i].at)
         /\ BringUp[i].op = "object" =>
              /\ BringUp[i].at \in {"vaspace", "ctxdma", "channel"}
              /\ BringUp[i].at = "ctxdma" => Did(BringUp, i, "memory", "notifier")
              /\ BringUp[i].at = "channel" =>
                   /\ Did(BringUp, i, "object", "vaspace") /\ Did(BringUp, i, "object", "ctxdma")
                   /\ Did(BringUp, i, "memory", "userd") /\ Did(BringUp, i, "memory", "gpfifo")
                   /\ Did(BringUp, i, "mapDma", "gpfifo")
         /\ BringUp[i].op \in {"memory", "mapCpu"} =>
              /\ BringUp[i].at \in {"notifier", "gpfifo", "userd"} /\ BringUp[i].n = Pg(BringUp[i].at)
              /\ ~Did(BringUp, i, "mapCpu", BringUp[i].at) /\ ~Did(BringUp, i, "mapDma", BringUp[i].at)
         /\ BringUp[i].op = "mapCpu" => i # 12 /\ 1 < i /\ Did(BringUp, i, "memory", BringUp[i].at)
         /\ BringUp[i].op = "mapDma" =>
              /\ BringUp[i].at \in {"notifier", "gpfifo"} /\ i # 12 /\ 1 < i
              /\ Did(BringUp, i, "mapCpu", BringUp[i].at) /\ ~Did(BringUp, i, "mapDma", BringUp[i].at)
              /\ Did(BringUp, i, "object", "vaspace")
         /\ Did(BringUp, i, "mapDma", "gpfifo") => Did(BringUp, i, "mapCpu", "gpfifo")
         /\ Did(BringUp, i, "mapCpu", "gpfifo") /\ ~Did(BringUp, i, "mapDma", "gpfifo") =>
              BringUp[i].op = "mapDma" /\ BringUp[i].at = "gpfifo"
         /\ i >= 14 =>
              /\ \A o \in {"vaspace", "ctxdma", "channel"} : Did(BringUp, i, "object", o)
              /\ \A m \in {"notifier", "gpfifo", "userd"} :
                    Did(BringUp, i, "memory", m) /\ Did(BringUp, i, "mapCpu", m)
              /\ \A m \in {"notifier", "gpfifo"} : Did(BringUp, i, "mapDma", m)
BY BringUpCalls, SMTT(60) DEF Did, Call, CallN, Pg

\* The calls of a clean-up, and what has been undone when each is made.
LEMMA TearDownCalls ==
  /\ TearDown[1] = Call("free", "compute") /\ TearDown[2] = Call("free", "channel")
  /\ TearDown[3] = Call("unmapCpu", "usermode") /\ TearDown[4] = Call("free", "usermode")
  /\ TearDown[5] = Call("unmapCpu", "userd") /\ TearDown[6] = Call("free", "userd")
  /\ TearDown[7] = Call("unmapDma", "gpfifo") /\ TearDown[8] = Call("unmapCpu", "gpfifo")
  /\ TearDown[9] = Call("free", "gpfifo") /\ TearDown[10] = Call("free", "ctxdma")
  /\ TearDown[11] = Call("unmapCpu", "notifier") /\ TearDown[12] = Call("unmapDma", "notifier")
  /\ TearDown[13] = Call("free", "notifier") /\ TearDown[14] = Call("free", "vaspace")
  /\ TearDown[15] = Call("reset", "channel")
BY DEF TearDown

\* What a clean-up has undone when it comes to a call.
LEMMA TearDownOrder ==
  ASSUME NEW j \in 1..15
  PROVE  /\ TearDown[j].op \in {"free", "unmapCpu", "unmapDma", "reset"}
         /\ TearDown[j].op = "reset" <=> j = 15
         /\ TearDown[j].op = "free" =>
              /\ TearDown[j].at \in ChanObj \cup {"compute"}
              /\ TearDown[j].at = "notifier" => Did(TearDown, j, "free", "ctxdma")
              /\ TearDown[j].at \in {"vaspace", "ctxdma", "userd", "gpfifo"} => Did(TearDown, j, "free", "channel")
              /\ TearDown[j].at \in Channel => Did(TearDown, j, "unmapCpu", TearDown[j].at)
              /\ TearDown[j].at \in {"notifier", "gpfifo"} => Did(TearDown, j, "unmapDma", TearDown[j].at)
              /\ TearDown[j].at = "vaspace" =>
                   Did(TearDown, j, "unmapDma", "notifier") /\ Did(TearDown, j, "unmapDma", "gpfifo")
         /\ TearDown[j].op = "unmapCpu" =>
              /\ TearDown[j].at \in Channel /\ ~Did(TearDown, j, "unmapCpu", TearDown[j].at)
              /\ ~Did(TearDown, j, "free", TearDown[j].at)
         /\ TearDown[j].op = "unmapDma" =>
              /\ TearDown[j].at \in {"notifier", "gpfifo"} /\ ~Did(TearDown, j, "unmapDma", TearDown[j].at)
              /\ ~Did(TearDown, j, "free", TearDown[j].at) /\ ~Did(TearDown, j, "free", "vaspace")
              /\ Did(TearDown, j, "free", "channel")
         /\ \A m \in Channel : Did(TearDown, j, "free", m) => Did(TearDown, j, "unmapCpu", m)
         /\ \A m \in {"notifier", "gpfifo"} : Did(TearDown, j, "free", m) => Did(TearDown, j, "unmapDma", m)
         /\ \A m \in {"notifier", "gpfifo"} : Did(TearDown, j, "free", "vaspace") => Did(TearDown, j, "unmapDma", m)
         /\ Did(TearDown, j, "unmapDma", "gpfifo") => Did(TearDown, j, "free", "channel")
         /\ j = 15 => /\ \A o \in ChanObj : Did(TearDown, j, "free", o)
                      /\ \A m \in Channel : Did(TearDown, j, "unmapCpu", m)
                      /\ \A m \in {"notifier", "gpfifo"} : Did(TearDown, j, "unmapDma", m)
<1> USE TearDownCalls DEF Call, CallN
<1> DEFINE c == TearDown[j]
<1>1. c.op \in {"free", "unmapCpu", "unmapDma", "reset"} /\ (c.op = "reset" <=> j = 15)
  OBVIOUS
<1>2. ASSUME c.op = "free"
      PROVE  /\ c.at \in ChanObj \cup {"compute"}
             /\ c.at = "notifier" => Did(TearDown, j, "free", "ctxdma")
             /\ c.at \in {"vaspace", "ctxdma", "userd", "gpfifo"} => Did(TearDown, j, "free", "channel")
             /\ c.at \in Channel => Did(TearDown, j, "unmapCpu", c.at)
             /\ c.at \in {"notifier", "gpfifo"} => Did(TearDown, j, "unmapDma", c.at)
             /\ c.at = "vaspace" =>
                  Did(TearDown, j, "unmapDma", "notifier") /\ Did(TearDown, j, "unmapDma", "gpfifo")
  BY <1>2, SMTT(60) DEF Did, ChanObj, Channel
<1>3. ASSUME c.op = "unmapCpu"
      PROVE  /\ c.at \in Channel /\ ~Did(TearDown, j, "unmapCpu", c.at)
             /\ ~Did(TearDown, j, "free", c.at)
  BY <1>3, SMTT(60) DEF Did, Channel
<1>4. ASSUME c.op = "unmapDma"
      PROVE  /\ c.at \in {"notifier", "gpfifo"} /\ ~Did(TearDown, j, "unmapDma", c.at)
             /\ ~Did(TearDown, j, "free", c.at) /\ ~Did(TearDown, j, "free", "vaspace")
             /\ Did(TearDown, j, "free", "channel")
  BY <1>4, SMTT(60) DEF Did
<1>5. ASSUME NEW m \in Channel, Did(TearDown, j, "free", m) PROVE Did(TearDown, j, "unmapCpu", m)
  BY <1>5, SMTT(60) DEF Did, Channel
<1>6. ASSUME NEW m \in {"notifier", "gpfifo"}
      PROVE  /\ Did(TearDown, j, "free", m) => Did(TearDown, j, "unmapDma", m)
             /\ Did(TearDown, j, "free", "vaspace") => Did(TearDown, j, "unmapDma", m)
  BY <1>6, SMTT(60) DEF Did
<1>7. Did(TearDown, j, "unmapDma", "gpfifo") => Did(TearDown, j, "free", "channel")
  BY SMTT(60) DEF Did
<1>8. ASSUME j = 15
      PROVE  /\ \A o \in ChanObj : Did(TearDown, j, "free", o)
             /\ \A m \in Channel : Did(TearDown, j, "unmapCpu", m)
             /\ \A m \in {"notifier", "gpfifo"} : Did(TearDown, j, "unmapDma", m)
  BY <1>8, SMTT(60) DEF Did, Channel, ChanObj
<1> QED
  BY <1>1, <1>2, <1>3, <1>4, <1>5, <1>6, <1>7, <1>8

\* The calls of the other operations.
LEMMA ShortCalls ==
  /\ RmInit[1].op = "query" /\ RmInit[2].op = "root" /\ RmInit[3].op = "device"
  /\ RmInit[4].op = "subdevice" /\ RmInit[5].op = "rmReady"
  /\ \A b, n : /\ Stage(b, n)[1] = Call("open", b) /\ Stage(b, n)[2] = CallN("memory", b, n)
               /\ Stage(b, n)[3] = CallN("mapCpu", b, n) /\ Stage(b, n)[4] = Call("mapDma", b)
  /\ \A b : /\ Release(b)[1] = Call("unmapDma", b) /\ Release(b)[2] = Call("unmapCpu", b)
            /\ Release(b)[3] = Call("free", b) /\ Release(b)[4] = Call("close", b)
<1>1. /\ RmInit[1].op = "query" /\ RmInit[2].op = "root" /\ RmInit[3].op = "device"
      /\ RmInit[4].op = "subdevice" /\ RmInit[5].op = "rmReady"
  BY DEF RmInit, Call, CallN
<1>2. ASSUME NEW b, NEW n
      PROVE  /\ Stage(b, n)[1] = Call("open", b) /\ Stage(b, n)[2] = CallN("memory", b, n)
             /\ Stage(b, n)[3] = CallN("mapCpu", b, n) /\ Stage(b, n)[4] = Call("mapDma", b)
  BY DEF Stage
<1>3. ASSUME NEW b
      PROVE  /\ Release(b)[1] = Call("unmapDma", b) /\ Release(b)[2] = Call("unmapCpu", b)
             /\ Release(b)[3] = Call("free", b) /\ Release(b)[4] = Call("close", b)
  BY DEF Release
<1> QED
  BY <1>1, <1>2, <1>3

-----------------------------------------------------------------------------
(***************************************************************************)
(* What a call about x does to everything else: nothing.                   *)
(***************************************************************************)
SameObj(o) == h'[o] = h[o] /\ (Exists(o)' <=> Exists(o))
SameMem(m) ==
  /\ SameObj(m) /\ cpu'[m] = cpu[m] /\ lin'[m] = lin[m] /\ va'[m] = va[m] /\ fd'[m] = fd[m]
  /\ size'[m] = size[m] /\ mapped'[m] = mapped[m]
  /\ (h'[m] \in klin' <=> h[m] \in klin) /\ (h'[m] \in kdma' <=> h[m] \in kdma)
  /\ (m \in files' <=> m \in files)
OnlyAt(x) ==
  /\ \A o \in Object \ {x} : SameObj(o)
  /\ \A m \in Memory \ {x} : SameMem(m)

\* An object of the library's making has the handle the library holds for it.
LEMMA HeldHandle ==
  ASSUME Basis, ~Trial, NEW o \in objs, o.at \in Made
  PROVE  o.h = h[o.at] /\ h[o.at] \in 4..(nextHandle - 1) /\ h[o.at] # 0 /\ nextHandle \in Nat
BY DEF Basis, ObjInv, OwnHandle, HandleInv, Made

\* Memory is of the library's making.
LEMMA MadeNames == Memory \subseteq Made /\ ChanObj \subseteq Made /\ "compute" \in Made /\ Made \subseteq Object
BY Names, BufAssumption DEF Made, Base, Memory, ChanObj, Channel

\* A handle is drawn for x, and the object is made or not.
LEMMA Allocated ==
  ASSUME Basis, ~Trial, ~Trial', NEW x \in Made, h[x] = 0,
         h' = [h EXCEPT ![x] = nextHandle], nextHandle' = nextHandle + 1,
         NEW p, p = "device" \/ (p = "client" /\ x = "ctxdma"),
         objs' = objs \/ objs' = objs \cup {Obj(x, nextHandle, p)},
         size' \in [Memory -> Nat], \A m \in Memory \ {x} : size'[m] = size[m],
         UNCHANGED <<rm, attempted, ready, cpu, lin, va, fd, under, mapped, klin, kdma, files, asked>>
  PROVE  /\ Basis' /\ OnlyAt(x)
         /\ h'[x] = nextHandle /\ h'[x] # 0 /\ h'[x] \notin klin' /\ h'[x] \notin kdma'
         /\ objs' = objs => ~Exists(x)'
         /\ objs' = objs \cup {Obj(x, nextHandle, p)} => Exists(x)'
<1>1. nextHandle \in Nat /\ nextHandle >= 4 /\ nextHandle' = nextHandle + 1
  BY DEF Basis, HandleInv
<1>2. x \in Object /\ x \notin Base /\ h'[x] = nextHandle /\ \A o \in Object \ {x} : h'[o] = h[o]
  BY MadeNames DEF Basis, TypeInv, Made
<1>3. \A o \in objs : o.at # x
  BY HeldHandle
<1>4. /\ objs' = objs => ~Exists(x)'
      /\ objs' = objs \cup {Obj(x, nextHandle, p)} => Exists(x)'
  <2>1. Obj(x, nextHandle, p).at = x
    BY DEF Obj
  <2> QED
    BY <1>3, <2>1 DEF Exists
<1>5. ASSUME NEW y \in Object \ {x} PROVE Exists(y)' <=> Exists(y)
  <2>1. \A o \in objs' : o.at = y => o \in objs
    BY DEF Obj
  <2>2. objs \subseteq objs'
    OBVIOUS
  <2> QED
    BY <2>1, <2>2 DEF Exists
<1>6. \A o \in Made : h[o] < nextHandle
  BY <1>1 DEF Basis, HandleInv
<1>7. \A k \in klin \cup kdma : k < nextHandle /\ \E m \in Memory : m # x /\ h[m] = k
  <2> TAKE k \in klin \cup kdma
  <2>1. PICK m \in Memory : h[m] = k /\ k # 0
    BY DEF Basis, MapInv
  <2> QED
    BY <1>6, <2>1, MadeNames
<1>8. h'[x] \notin klin' /\ h'[x] \notin kdma' /\ h'[x] # 0
  BY <1>1, <1>2, <1>7
<1>9. OnlyAt(x)
  BY <1>2, <1>5, Names DEF OnlyAt, SameObj, SameMem
<1>10. TypeInv'
  BY <1>1, <1>2, MadeNames, Names DEF Basis, TypeInv, Obj
<1>11. HandleInv'
  BY <1>1, <1>2, <1>6, MadeNames DEF Basis, HandleInv, Made, Base
<1>12. ObjInv'
  <2> SUFFICES ASSUME NEW o \in objs' PROVE o.at \in Object /\ OwnHandle(o)' /\ ParentOk(o)'
    BY DEF ObjInv
  <2>1. "subdevice" \in Object \ {x}
    BY <1>2, Names DEF Base
  <2>2. CASE o \in objs
    <3>1. o.at \in Object /\ o.at # x /\ OwnHandle(o) /\ ParentOk(o)
      BY <2>2, <1>3 DEF Basis, ObjInv
    <3> QED
      BY <1>1, <1>2, <2>1, <3>1 DEF OwnHandle, ParentOk
  <2>3. CASE o = Obj(x, nextHandle, p)
    BY <1>1, <1>2, <2>3 DEF OwnHandle, ParentOk, Obj, Base
  <2> QED
    BY <2>2, <2>3
<1>13. MapInv'
  BY <1>2, <1>7, Names DEF Basis, MapInv
<1>14. UnderInv'
  BY <1>2, Names DEF Basis, UnderInv, Base
<1> QED
  BY <1>2, <1>4, <1>8, <1>9, <1>10, <1>11, <1>12, <1>13, <1>14 DEF Basis

\* Nothing but mappings, descriptors and what the library remembers of them
\* changes, and the mappings stay those of memory it has a handle for.
LEMMA Remapped ==
  ASSUME Basis, ~Trial, ~Trial', NEW x \in Memory, h[x] # 0 \/ (klin' \subseteq klin /\ kdma' \subseteq kdma),
         klin' \in {klin, klin \cup {h[x]}, klin \ {h[x]}}, kdma' \in {kdma, kdma \cup {h[x]}, kdma \ {h[x]}},
         cpu' \in [Memory -> Nat], size' \in [Memory -> Nat], mapped' \in [Memory -> Nat],
         lin' \in [Memory -> BOOLEAN], va' \in [Memory -> BOOLEAN],
         \A m \in Memory \ {x} : /\ cpu'[m] = cpu[m] /\ size'[m] = size[m] /\ mapped'[m] = mapped[m]
                                 /\ lin'[m] = lin[m] /\ va'[m] = va[m],
         UNCHANGED <<rm, attempted, ready, h, fd, under, nextHandle, objs, files, asked>>
  PROVE  Basis' /\ OnlyAt(x) /\ (Exists(x)' <=> Exists(x))
<1>1. \A o : Exists(o)' <=> Exists(o)
  BY DEF Exists
<1>2. \A m \in Memory \ {x} : h[m] = h[x] => h[x] = 0
  BY MadeNames DEF Basis, HandleInv
<1>3. 0 \notin klin /\ 0 \notin kdma /\ h[x] \in Nat
  BY Names DEF Basis, MapInv, TypeInv
<1>4. \A m \in Memory \ {x} : (h[m] \in klin' <=> h[m] \in klin) /\ (h[m] \in kdma' <=> h[m] \in kdma)
  BY <1>2, <1>3
<1>5. OnlyAt(x)
  BY <1>1, <1>4 DEF OnlyAt, SameObj, SameMem
<1>6. TypeInv'
  BY <1>3 DEF Basis, TypeInv
<1>7. HandleInv' /\ UnderInv'
  BY DEF Basis, HandleInv, UnderInv
<1>8. ObjInv'
  BY DEF Basis, ObjInv, OwnHandle, ParentOk
<1>9. MapInv'
  BY <1>3 DEF Basis, MapInv
<1> QED
  BY <1>1, <1>5, <1>6, <1>7, <1>8, <1>9 DEF Basis

\* The object the library has for x is freed.
LEMMA Freed ==
  ASSUME Basis, ~Trial, ~Trial', NEW x \in Made, objs' = Without(h[x]),
         UNCHANGED <<lib, nextHandle, mapped, klin, kdma, files, asked>>
  PROVE  Basis' /\ OnlyAt(x) /\ ~Exists(x)'
<1>1. \A o \in objs : o.at = x => o.h = h[x]
  BY HeldHandle
<1>2. \A o \in objs : o.h = h[x] => o.at = x
  <2> SUFFICES ASSUME NEW o \in objs, o.h = h[x] PROVE o.at = x
    OBVIOUS
  <2>1. o.at \in Object /\ OwnHandle(o)
    BY DEF Basis, ObjInv
  <2>2. h[x] = 0 \/ h[x] >= 4
    BY DEF Basis, HandleInv
  <2>3. CASE o.at \in Base
    BY <2>1, <2>2, <2>3 DEF OwnHandle, Base, BaseHandle
  <2>4. CASE o.at \notin Base
    BY <2>1, <2>4, HeldHandle DEF Made, Basis, HandleInv
  <2> QED
    BY <2>3, <2>4
<1>3. ~Exists(x)' /\ \A o \in Object \ {x} : Exists(o)' <=> Exists(o)
  BY <1>1, <1>2 DEF Exists, Without
<1>4. OnlyAt(x)
  BY <1>3, Names DEF OnlyAt, SameObj, SameMem, lib
<1>5. Basis'
  BY DEF Basis, TypeInv, HandleInv, ObjInv, MapInv, UnderInv, OwnHandle, ParentOk, Without, lib
<1> QED
  BY <1>3, <1>4, <1>5

\* Only the calls that are left change.
LEMMA OnlyCallsLeft ==
  ASSUME Basis, ~Trial, ~Trial', UNCHANGED <<lib, nextHandle, kernel, asked>>
  PROVE  Basis' /\ (\A o : Exists(o)' <=> Exists(o)) /\ \A x : OnlyAt(x)
BY DEF Basis, TypeInv, HandleInv, ObjInv, MapInv, UnderInv, OwnHandle, ParentOk, lib, kernel, Exists,
       OnlyAt, SameObj, SameMem

\* A handle is drawn for a try, which may get no object at all.
LEMMA TryFailed ==
  ASSUME Basis, ~Trial, ~Trial', nextHandle' = nextHandle + 1,
         UNCHANGED <<lib, kernel, asked>>
  PROVE  Basis' /\ (\A o : Exists(o)' <=> Exists(o)) /\ \A x : OnlyAt(x)
<1>1. nextHandle \in Nat
  BY DEF Basis, HandleInv
<1>2. (\A o : Exists(o)' <=> Exists(o)) /\ \A x : OnlyAt(x)
  BY DEF lib, kernel, Exists, OnlyAt, SameObj, SameMem
<1>3. HandleInv'
  BY <1>1 DEF Basis, HandleInv, lib
<1>4. ObjInv'
  BY <1>1 DEF Basis, ObjInv, OwnHandle, ParentOk, lib, kernel
<1>5. TypeInv' /\ MapInv' /\ UnderInv'
  BY DEF Basis, TypeInv, MapInv, UnderInv, lib, kernel
<1> QED
  BY <1>2, <1>3, <1>4, <1>5 DEF Basis

\* The object of a try, until it is kept or dropped.
LEMMA TryBegun ==
  ASSUME Basis, ~Trial, Trial', NEW x \in Made, x = At', h[x] = 0, nextHandle' = nextHandle + 1,
         NEW p, objs' = objs \cup {Obj(x, nextHandle, p)},
         p = "device" \/ (p = "subdevice" /\ h["subdevice"] # 0) \/ (p = "channel" /\ x = "compute"),
         UNCHANGED <<lib, mapped, klin, kdma, files, asked>>
  PROVE  Basis' /\ OnlyAt(x) /\ Exists(x)'
<1>1. nextHandle \in Nat /\ nextHandle >= 4 /\ x \in Object /\ x \notin Base
  BY MadeNames DEF Basis, HandleInv, Made
<1>2. Obj(x, nextHandle, p).at = x /\ Obj(x, nextHandle, p).h = nextHandle /\ Obj(x, nextHandle, p).parent = p
  BY DEF Obj
<1>3. Exists(x)'
  BY <1>2 DEF Exists
<1>4. ASSUME NEW y \in Object \ {x} PROVE Exists(y)' <=> Exists(y)
  <2>1. \A o \in objs' : o.at = y => o \in objs
    BY <1>2
  <2>2. objs \subseteq objs'
    OBVIOUS
  <2> QED
    BY <2>1, <2>2 DEF Exists
<1>5. OnlyAt(x)
  BY <1>4, Names DEF OnlyAt, SameObj, SameMem, lib
<1>6. TypeInv'
  <2>1. p \in Object \cup {"none"}
    BY Names
  <2>2. Obj(x, nextHandle, p) \in [at : Object, h : Nat, parent : Object \cup {"none"}]
    BY <1>1, <2>1 DEF Obj
  <2> QED
    BY <2>2 DEF Basis, TypeInv, lib
<1>7. HandleInv'
  BY <1>1 DEF Basis, HandleInv, lib
<1>8. ObjInv'
  <2>1. \A o \in Made : h'[o] # nextHandle' - 1
    BY <1>1 DEF Basis, HandleInv, lib
  <2>2. h' = h /\ \A o \in Object : h'[o] = h[o]
    BY DEF lib
  <2>3. ASSUME NEW o \in objs PROVE o.at \in Object /\ OwnHandle(o)' /\ ParentOk(o)'
    <3>1. o.at \in Object /\ OwnHandle(o) /\ ParentOk(o)
      BY DEF Basis, ObjInv
    <3>2. OwnHandle(o)'
      BY <1>1, <2>2, <3>1 DEF OwnHandle
    <3> QED
      BY <2>2, <3>1, <3>2 DEF ParentOk
  <2>4. ASSUME NEW o, o = Obj(x, nextHandle, p) PROVE o.at \in Object /\ OwnHandle(o)' /\ ParentOk(o)'
    BY <1>1, <1>2, <2>2, <2>4 DEF OwnHandle, ParentOk, Base
  <2>5. \A o \in objs' : o.at \in Object /\ OwnHandle(o)' /\ ParentOk(o)'
    BY <2>3, <2>4
  <2>6. Trial' => At' \in Made /\ h'[At'] = 0 /\ nextHandle' > 4 /\ \A o \in Made : h'[o] # nextHandle' - 1
    BY <1>1, <2>1, <2>2
  <2> QED
    BY <2>5, <2>6 DEF ObjInv
<1>9. MapInv' /\ UnderInv'
  BY DEF Basis, MapInv, UnderInv, lib
<1> QED
  BY <1>3, <1>5, <1>6, <1>7, <1>8, <1>9 DEF Basis

\* The object being tried is the only one of its name.
LEMMA TriedObject ==
  ASSUME Basis, Trial, NEW o \in objs
  PROVE  /\ o.at = At <=> o.h = nextHandle - 1
         /\ o.at # At => OwnHandle(o) /\ (o.at \in Made => o.h = h[o.at])
<1>1. o.at \in Object /\ OwnHandle(o) /\ At \in Made /\ h[At] = 0
      /\ (\A p \in Made : h[p] # nextHandle - 1) /\ nextHandle \in Nat /\ nextHandle > 4
  BY DEF Basis, ObjInv, HandleInv
<1>2. o.at = At <=> o.h = nextHandle - 1
  <2>1. CASE o.at \in Base
    BY <1>1, <2>1 DEF OwnHandle, Base, BaseHandle, Made
  <2>2. CASE o.at \notin Base
    BY <1>1, <2>2 DEF OwnHandle, Made
  <2> QED
    BY <2>1, <2>2
<1>3. o.at # At => (o.at \in Made => o.h = h[o.at])
  BY <1>1 DEF OwnHandle, Made
<1> QED
  BY <1>1, <1>2, <1>3

\* The object of a try is kept: the library takes its handle, and maps it.
LEMMA TryKept ==
  ASSUME Basis, Trial, ~Trial', NEW x \in Made, x = At,
         h' = [h EXCEPT ![x] = nextHandle - 1], under' \in {under, "device", "subdevice"},
         under' = "subdevice" => h["subdevice"] # 0,
         \/ UNCHANGED <<cpu, lin, mapped, klin>>
         \/ /\ x \in Memory /\ cpu' = [cpu EXCEPT ![x] = 1] /\ lin' = [lin EXCEPT ![x] = TRUE]
            /\ mapped' = [mapped EXCEPT ![x] = 1] /\ klin' = klin \cup {nextHandle - 1},
         UNCHANGED <<rm, attempted, ready, va, fd, size, nextHandle, objs, kdma, files, asked>>
  PROVE  Basis' /\ OnlyAt(x) /\ h'[x] = nextHandle - 1 /\ h'[x] # 0 /\ nextHandle - 1 \notin klin \cup kdma
<1>1. x \in Object /\ x \notin Base /\ nextHandle \in Nat /\ nextHandle > 4 /\ h[x] = 0
  BY MadeNames DEF Basis, HandleInv, ObjInv, Made
<1>2. h'[x] = nextHandle - 1 /\ \A o \in Object \ {x} : h'[o] = h[o]
  BY <1>1 DEF Basis, TypeInv
<1>3. \A o \in Made : h[o] # nextHandle - 1
  BY DEF Basis, ObjInv
<1>4. \A k \in klin \cup kdma : k # 0 /\ k # nextHandle - 1 /\ \E m \in Memory : m # x /\ h[m] = k
  <2> TAKE k \in klin \cup kdma
  <2>1. PICK m \in Memory : h[m] = k /\ k # 0
    BY DEF Basis, MapInv
  <2> QED
    BY <1>1, <1>3, <2>1, MadeNames
<1>5. OnlyAt(x)
  <2>1. \A o \in Object \ {x} : SameObj(o)
    BY <1>2 DEF SameObj, Exists
  <2>2. \A m \in Memory \ {x} : h[m] # nextHandle - 1 /\ h'[m] = h[m]
    BY <1>2, <1>3, MadeNames, Names
  <2>3. \A m \in Memory \ {x} : SameMem(m)
    BY <2>1, <2>2, Names DEF SameMem, Basis, TypeInv
  <2> QED
    BY <2>1, <2>3 DEF OnlyAt
<1>6. TypeInv'
  <2>1. h' \in [Object -> Nat]
    BY <1>1 DEF Basis, TypeInv
  <2>2. cpu' \in [Memory -> Nat] /\ lin' \in [Memory -> BOOLEAN] /\ mapped' \in [Memory -> Nat] /\ klin' \subseteq Nat
    <3>1. CASE UNCHANGED <<cpu, lin, mapped, klin>>
      BY <3>1 DEF Basis, TypeInv
    <3>2. CASE /\ x \in Memory /\ cpu' = [cpu EXCEPT ![x] = 1] /\ lin' = [lin EXCEPT ![x] = TRUE]
               /\ mapped' = [mapped EXCEPT ![x] = 1] /\ klin' = klin \cup {nextHandle - 1}
      <4>1. nextHandle - 1 \in Nat /\ klin' = klin \cup {nextHandle - 1} /\ klin \subseteq Nat
        BY <1>1, <3>2 DEF Basis, TypeInv
      <4>2. cpu' \in [Memory -> Nat] /\ mapped' \in [Memory -> Nat]
        BY <3>2 DEF Basis, TypeInv
      <4>3. lin' \in [Memory -> BOOLEAN]
        BY <3>2 DEF Basis, TypeInv
      <4> QED
        BY <4>1, <4>2, <4>3
    <3> QED
      BY <3>1, <3>2
  <2> QED
    BY <2>1, <2>2 DEF Basis, TypeInv
<1>7. HandleInv'
  BY <1>1, <1>2, <1>3 DEF Basis, HandleInv, Base, Made
<1>8. ObjInv'
  <2> SUFFICES ASSUME NEW o \in objs PROVE o.at \in Object /\ OwnHandle(o)' /\ ParentOk(o)'
    BY DEF ObjInv
  <2>1. o.at \in Object /\ OwnHandle(o) /\ ParentOk(o)
    BY DEF Basis, ObjInv
  <2>2. o.at = x <=> o.h = nextHandle - 1
    BY TriedObject
  <2>3. OwnHandle(o)'
    BY <1>1, <1>2, <2>1, <2>2 DEF OwnHandle
  <2>4. h'["subdevice"] = h["subdevice"]
    BY <1>1, <1>2, Names DEF Base
  <2> QED
    BY <2>1, <2>3, <2>4 DEF ParentOk
<1>9. MapInv'
  BY <1>1, <1>2, <1>4, Names DEF Basis, MapInv
<1>10. UnderInv'
  BY <1>1, <1>2, Names DEF Basis, UnderInv, Base
<1> QED
  BY <1>1, <1>2, <1>4, <1>5, <1>6, <1>7, <1>8, <1>9, <1>10 DEF Basis

\* The object of a try is freed.
LEMMA TryDropped ==
  ASSUME Basis, Trial, ~Trial', NEW x \in Made, x = At, objs' = Without(nextHandle - 1),
         UNCHANGED <<lib, nextHandle, mapped, klin, kdma, files, asked>>
  PROVE  Basis' /\ OnlyAt(x) /\ ~Exists(x)'
<1>1. \A o \in objs : o.at = x <=> o.h = nextHandle - 1
  BY TriedObject
<1>2. ~Exists(x)' /\ \A o \in Object \ {x} : Exists(o)' <=> Exists(o)
  BY <1>1 DEF Exists, Without
<1>3. OnlyAt(x)
  BY <1>2, Names DEF OnlyAt, SameObj, SameMem, lib
<1>4. ObjInv'
  <2> SUFFICES ASSUME NEW o \in objs' PROVE o.at \in Object /\ OwnHandle(o)' /\ ParentOk(o)'
    BY DEF ObjInv
  <2>1. o \in objs /\ o.at # x /\ OwnHandle(o) /\ ParentOk(o) /\ o.at \in Object
    BY <1>1 DEF Basis, ObjInv, Without
  <2> QED
    BY <2>1 DEF OwnHandle, ParentOk, lib
<1>5. TypeInv' /\ HandleInv' /\ MapInv' /\ UnderInv'
  BY DEF Basis, TypeInv, HandleInv, MapInv, UnderInv, Without, lib
<1> QED
  BY <1>2, <1>3, <1>4, <1>5 DEF Basis

\* The call an operation is at, and what is left after it.
NextCall(s, i) ==
  /\ Rest(s, i) # <<>> /\ Rest(s, i) \in Seq(CallSet)
  /\ Head(Rest(s, i)) = s[i] /\ Tail(Rest(s, i)) = Rest(s, i + 1)
  /\ i = Len(s) => Tail(Rest(s, i)) = <<>>

\* Every call of an operation is followed by the rest of it.
LEMMA CallsLeft ==
  /\ \A i \in 1..5 : NextCall(RmInit, i)
  /\ \A i \in 1..15 : NextCall(BringUp, i) /\ NextCall(TearDown, i)
  /\ \A b \in Buf, i \in 1..4 : NextCall(Release(b), i)
  /\ \A b \in Buf, n \in Nat, i \in 1..4 : NextCall(Stage(b, n), i)
<1>1. ASSUME NEW s \in Seq(CallSet), NEW i \in 1..Len(s) PROVE NextCall(s, i)
  BY RestStep, RestEnds DEF NextCall
<1>2. ASSUME NEW i \in 1..5 PROVE NextCall(RmInit, i)
  <2>1. RmInit \in Seq(CallSet) /\ i \in 1..Len(RmInit)
    BY Operations
  <2> QED
    BY <1>1, <2>1
<1>3. ASSUME NEW i \in 1..15 PROVE NextCall(BringUp, i) /\ NextCall(TearDown, i)
  <2>1. BringUp \in Seq(CallSet) /\ i \in 1..Len(BringUp) /\ TearDown \in Seq(CallSet) /\ i \in 1..Len(TearDown)
    BY Operations
  <2> QED
    BY <1>1, <2>1
<1>4. ASSUME NEW b \in Buf, NEW i \in 1..4 PROVE NextCall(Release(b), i)
  <2>1. Release(b) \in Seq(CallSet) /\ i \in 1..Len(Release(b))
    BY Operations
  <2> QED
    BY <1>1, <2>1
<1>5. ASSUME NEW b \in Buf, NEW n \in Nat, NEW i \in 1..4 PROVE NextCall(Stage(b, n), i)
  <2>1. Stage(b, n) \in Seq(CallSet) /\ i \in 1..Len(Stage(b, n))
    BY Operations
  <2> QED
    BY <1>1, <2>1
<1> QED
  BY <1>2, <1>3, <1>4, <1>5

\* Of the sequences an operation leaves, only those of a try begin with one.
LEMMA Untried ==
  /\ ~Tried(<<>>)
  /\ \A i \in 1..5 : ~Tried(Rest(RmInit, i))
  /\ \A i \in 1..15 : ~Tried(Rest(BringUp, i)) /\ ~Tried(Rest(TearDown, i))
  /\ \A b \in Buf, n \in Nat, i \in 1..4 : ~Tried(Rest(Stage(b, n), i))
  /\ \A b \in Buf, next \in Seq(CallSet), i \in 1..4 : ~Tried(Rest(Release(b), i) \o next)
<1>1. ~Tried(<<>>)
  BY DEF Tried
<1>2. ASSUME NEW i \in 1..5 PROVE ~Tried(Rest(RmInit, i))
  <2>1. RmInit[i].op \notin {"userMap", "computeId"}
    BY ShortCalls
  <2> QED
    BY <2>1, CallsLeft DEF Tried, NextCall
<1>3. ASSUME NEW i \in 1..15 PROVE ~Tried(Rest(BringUp, i)) /\ ~Tried(Rest(TearDown, i))
  <2>1. Head(Rest(BringUp, i)) = BringUp[i] /\ Head(Rest(TearDown, i)) = TearDown[i]
    BY CallsLeft DEF NextCall
  <2> QED
    BY <2>1, BringUpOrder, TearDownOrder, ZenonT(60) DEF Tried
<1>4. ASSUME NEW b \in Buf, NEW n \in Nat, NEW i \in 1..4 PROVE ~Tried(Rest(Stage(b, n), i))
  <2>1. Head(Rest(Stage(b, n), i)) = Stage(b, n)[i]
    BY CallsLeft DEF NextCall
  <2>2. Stage(b, n)[i].op \in {"open", "memory", "mapCpu", "mapDma"}
    BY DEF Stage, Call, CallN
  <2> QED
    BY <2>1, <2>2 DEF Tried
<1>5. ASSUME NEW b \in Buf, NEW next \in Seq(CallSet), NEW i \in 1..4 PROVE ~Tried(Rest(Release(b), i) \o next)
  <2>1. Head(Rest(Release(b), i) \o next) = Release(b)[i]
    <3>1. NextCall(Release(b), i)
      BY CallsLeft
    <3>2. Rest(Release(b), i) # <<>> /\ Rest(Release(b), i) \in Seq(CallSet) /\ Head(Rest(Release(b), i)) = Release(b)[i]
      BY <3>1 DEF NextCall
    <3> QED
      BY <3>2, ThenStep, Zenon
  <2>2. Release(b)[i].op \in {"unmapDma", "unmapCpu", "free", "close"}
    BY DEF Release, Call, CallN
  <2> QED
    BY <2>1, <2>2 DEF Tried
<1> QED
  BY <1>1, <1>2, <1>3, <1>4, <1>5

\* The next call of an operation, and those after it.
LEMMA RaiseHead ==
  ASSUME NEW i \in 1..15, RaiseAt(i)
  PROVE  /\ todo # <<>> /\ Head(todo) = BringUp[i] /\ At = BringUp[i].at /\ ~Trial
         /\ Tail(todo) = Rest(BringUp, i + 1) /\ (i = 15 => Tail(todo) = <<>>)
BY CallsLeft, Operations, Untried DEF NextCall, RaiseAt, Trial, At

\* The same of a clean-up.
LEMMA LowerHead ==
  ASSUME NEW j \in 1..15, LowerAt(j)
  PROVE  /\ todo # <<>> /\ Head(todo) = TearDown[j] /\ At = TearDown[j].at /\ ~Trial
         /\ Tail(todo) = Rest(TearDown, j + 1) /\ (j = 15 => Tail(todo) = <<>>)
BY CallsLeft, Operations, Untried DEF NextCall, LowerAt, Trial, At

\* The same of rm_init_locked.
LEMMA InitHead ==
  ASSUME NEW i \in 1..5, InitAt(i)
  PROVE  /\ todo # <<>> /\ Head(todo) = RmInit[i] /\ ~Trial
         /\ Tail(todo) = Rest(RmInit, i + 1) /\ (i = 5 => Tail(todo) = <<>>)
BY CallsLeft, Operations, Untried DEF NextCall, InitAt, Trial

\* The same of a staging.
LEMMA StageHead ==
  ASSUME NEW b \in Buf, NEW n \in Nat, NEW i \in 1..4, StageAt(b, i, n)
  PROVE  /\ todo # <<>> /\ Head(todo) = Stage(b, n)[i] /\ At = b /\ ~Trial
         /\ Tail(todo) = Rest(Stage(b, n), i + 1) /\ (i = 4 => Tail(todo) = <<>>)
<1>1. Stage(b, n)[i].at = b
  BY DEF Stage, Call, CallN
<1> QED
  <2>1. Len(Stage(b, n)) = 4 /\ NextCall(Stage(b, n), i) /\ ~Tried(Rest(Stage(b, n), i)) /\ todo = Rest(Stage(b, n), i)
    BY CallsLeft, Operations, Untried DEF StageAt
  <2> QED
    BY <1>1, <2>1 DEF NextCall, Trial, At

\* The same of a release, which may be followed by a staging.
LEMMA ReleaseHead ==
  ASSUME NEW b \in Buf, NEW next \in Seq(CallSet), NEW i \in 1..4, ReleaseAt(b, i, next)
  PROVE  /\ todo # <<>> /\ Head(todo) = Release(b)[i] /\ At = b /\ ~Trial
         /\ Tail(todo) = Rest(Release(b), i + 1) \o next /\ (i = 4 => Tail(todo) = next)
<1>1. Release(b)[i].at = b
  BY DEF Release, Call, CallN
<1>2. Release(b) \in Seq(CallSet) /\ Len(Release(b)) = 4
  BY Operations
<1>3. /\ Rest(Release(b), i) # <<>> /\ Rest(Release(b), i) \in Seq(CallSet)
      /\ Head(Rest(Release(b), i)) = Release(b)[i] /\ Tail(Rest(Release(b), i)) = Rest(Release(b), i + 1)
  BY CallsLeft DEF NextCall
<1>4. /\ todo # <<>> /\ Head(todo) = Release(b)[i]
      /\ Tail(todo) = Rest(Release(b), i + 1) \o next
  <2>1. todo = Rest(Release(b), i) \o next
    BY DEF ReleaseAt
  <2>2. /\ Rest(Release(b), i) \o next # <<>>
        /\ Head(Rest(Release(b), i) \o next) = Head(Rest(Release(b), i))
        /\ Tail(Rest(Release(b), i) \o next) = Tail(Rest(Release(b), i)) \o next
    BY <1>3, ThenStep, Zenon
  <2> QED
    BY <1>3, <2>1, <2>2
<1>5. i = 4 => Rest(Release(b), i + 1) = <<>>
  <2>1. Rest(Release(b), Len(Release(b)) + 1) = <<>>
    BY <1>2, RestEnds
  <2> QED
    BY <1>2, <2>1
<1>6. <<>> \o next = next
  BY ConcatEmptySeq
<1> QED
  BY <1>1, <1>4, <1>5, <1>6, Untried DEF ReleaseAt, Trial, At

\* A try of a usermode class is followed by the rest of the bring-up.
LEMMA TryHead ==
  ASSUME NEW op \in {"userAlloc", "userMap"}, NEW n \in 1..Tries, TryAt(op, n)
  PROVE  /\ todo # <<>> /\ Head(todo) = CallN(op, "usermode", n) /\ At = "usermode"
         /\ Head(todo).op = op /\ Head(todo).n = n
         /\ Tail(todo) = Rest(BringUp, 13) /\ (Trial <=> op = "userMap")
<1>1. n \in Nat
  BY ClassAssumption DEF Tries
<1>2. CallN(op, "usermode", n) \in CallSet
  BY <1>1, CallType, Names DEF Ops
<1>3. Rest(BringUp, 13) \in Seq(CallSet)
  BY CallsLeft DEF NextCall
<1>4. todo # <<>> /\ Head(todo) = CallN(op, "usermode", n) /\ Tail(todo) = Rest(BringUp, 13)
  BY <1>2, <1>3, FrontStep DEF TryAt
<1> QED
  BY <1>4 DEF CallN, At, Trial, Tried

\* A try of a compute class is followed by nothing.
LEMMA ComputeHead ==
  ASSUME NEW op \in {"compute", "computeId"}, NEW n \in 1..ComputeClasses, ComputeAt(op, n)
  PROVE  /\ todo # <<>> /\ Head(todo) = CallN(op, "compute", n) /\ At = "compute"
         /\ Head(todo).op = op /\ Head(todo).n = n
         /\ Tail(todo) = <<>> /\ (Trial <=> op = "computeId")
<1>1. todo # <<>> /\ Head(todo) = CallN(op, "compute", n) /\ Tail(todo) = <<>>
  BY DEF ComputeAt
<1> QED
  BY <1>1 DEF CallN, At, Trial, Tried

\* What a call does not concern stays as it is.
LEMMA BaseKept ==
  ASSUME BaseUp, NEW x \in Made, OnlyAt(x), rm' = rm PROVE BaseUp'
BY Names DEF BaseUp, OnlyAt, SameObj, Made, Base

\* The staging buffers do not notice a call about the channel.
LEMMA BufsKept ==
  ASSUME NoBufs, NEW x \in ChanObj, OnlyAt(x) PROVE NoBufs'
<1>1. x # "compute" /\ "compute" \in Object \ {x}
  BY Names, BufAssumption DEF ChanObj, Channel
<1>2. \A b \in Buf : b \in Memory \ {x} /\ b # "gpfifo"
  BY Names DEF Channel
<1> QED
  BY <1>1, <1>2 DEF NoBufs, OnlyAt, SameObj, SameMem, Nothing, Absent, Left

\* A staging buffer does not notice a call about another.
LEMMA SettledKept ==
  ASSUME NEW b \in Buf, SameMem(b), asked'[b] = asked[b], Settled(b) PROVE Settled(b)'
BY Names DEF Settled, SameMem, SameObj, MemOk, Whole, Nothing, Absent, Left, Channel

\* The channel does not notice a call about a buffer or the compute object.
LEMMA UpKept ==
  ASSUME Up, NEW x \in Buf \cup {"compute"}, OnlyAt(x), UNCHANGED <<rm, ready, attempted, under>>,
         dmaFailed' => dmaFailed
  PROVE  Up'
<1>1. x \in Made /\ x \notin ChanObj /\ ChanObj \subseteq Object \ {x} /\ Channel \subseteq Memory \ {x}
      /\ Channel \subseteq ChanObj
  BY Names, MadeNames, BufAssumption DEF ChanObj, Channel
<1>2. (\A o \in ChanObj : SameObj(o)) /\ (\A m \in Channel : SameMem(m))
  BY <1>1 DEF OnlyAt
<1>3. BaseUp'
  BY <1>1, BaseKept DEF Up
<1>4. ChanMem(1)'
  <2>1. \A op, at : ~Did(TearDown, 1, op, at)
    BY DEF Did
  <2> QED
    BY <1>2, <2>1 DEF Up, Chan, ChanMem, SameMem, SameObj, MemOk, ChanObj
<1>5. ChanObjs(1)'
  BY <1>2 DEF Up, Chan, ChanObjs, SameMem, SameObj, ChanObj, Channel
<1> QED
  BY <1>2, <1>3, <1>4, <1>5 DEF Up, Chan, SameMem, SameObj, ChanObj, Channel

\* A handle for an object of the channel that had none.
LEMMA ChanMade ==
  ASSUME Basis, ~Trial, Chan(1), ~dmaFailed, ~dmaFailed', NEW x \in ChanObj, h[x] = 0, OnlyAt(x),
         h'[x] # 0, h'[x] \notin klin', h'[x] \notin kdma',
         UNCHANGED <<cpu, lin, va, fd, size, mapped, files>>,
         Exists(x)' /\ x = "ctxdma" => Exists("notifier"),
         Exists(x)' /\ x = "channel" =>
           Exists("vaspace") /\ Exists("ctxdma") /\ Exists("userd") /\ Exists("gpfifo") /\ va["gpfifo"]
  PROVE  Chan(1)'
<1>1. \A op, at : ~Did(TearDown, 1, op, at)
  BY DEF Did
<1>2. \A m \in Channel \ {x} : SameMem(m)
  BY Names DEF OnlyAt
<1>3. \A o \in ChanObj \ {x} : SameObj(o)
  BY MadeNames DEF OnlyAt
<1>4. x \in Channel => ~lin[x] /\ ~va[x]
  BY <1>1 DEF Chan, ChanMem, MemOk
<1>5. ChanMem(1)'
  <2> SUFFICES ASSUME NEW m \in Channel
               PROVE  /\ MemOk(m, Pg(m), FALSE, FALSE, FALSE, Left(m))'
                      /\ va'[m] => m \in {"notifier", "gpfifo"} /\ h'["vaspace"] # 0
                      /\ size'[m] = IF m = "gpfifo" /\ va'[m] THEN Pages ELSE 0
    BY <1>1 DEF ChanMem, MemOk
  <2>1. /\ MemOk(m, Pg(m), FALSE, FALSE, FALSE, Left(m))
        /\ va[m] => m \in {"notifier", "gpfifo"} /\ h["vaspace"] # 0
        /\ size[m] = IF m = "gpfifo" /\ va[m] THEN Pages ELSE 0
    BY <1>1 DEF Chan, ChanMem, MemOk
  <2>2. va'[m] => m \in {"notifier", "gpfifo"} /\ h'["vaspace"] # 0
    BY <1>3, <2>1 DEF SameObj, ChanObj
  <2>3. CASE m = x
    BY <1>4, <2>1, <2>2, <2>3 DEF MemOk, Left
  <2>4. CASE m # x
    BY <1>2, <2>1, <2>2, <2>4 DEF MemOk, SameMem, SameObj, Left
  <2> QED
    BY <2>3, <2>4
<1>6. ChanObjs(1)'
  <2>1. \A m \in Channel : va[m] => "vaspace" # x
    BY <1>1 DEF Chan, ChanMem, MemOk
  <2>2. ~Exists(x)
    <3>1. x \in Made
      BY MadeNames
    <3> QED
      BY <3>1, HeldHandle DEF Exists
  <2> QED
    BY <1>1, <1>3, <2>1, <2>2 DEF Chan, ChanObjs, SameObj, ChanObj, Channel
<1> QED
  BY <1>5, <1>6 DEF Chan

\* What the calls of the bring-up did, when one more is made.
LEMMA RaiseDid ==
  ASSUME NEW i \in 1..15
  PROVE  \A op, at : Did(BringUp, i + 1, op, at) <=>
                       Did(BringUp, i, op, at) \/ (BringUp[i].op = op /\ BringUp[i].at = at)
BY DidStep

\* A failure turns the bring-up into the clean-up.
LEMMA RaiseFails ==
  ASSUME todo' = TearDown, Lowered(1)' PROVE PhaseInv' /\ ~Trial'
<1>1. TearDown = Rest(TearDown, 1)
  BY RestEnds, Operations
<1>2. LowerAt(1)'
  BY <1>1 DEF LowerAt
<1>3. ~Trial'
  BY <1>1, Untried DEF Trial
<1> QED
  BY <1>2, <1>3 DEF PhaseInv

\* The next call of the bring-up.
LEMMA RaiseGoesOn ==
  ASSUME NEW i \in 1..14, RaiseAt(i), todo' = Tail(todo), Raised(i + 1)' PROVE PhaseInv' /\ ~Trial'
<1>1. i + 1 \in 1..15 /\ RaiseAt(i + 1)'
  BY RaiseHead, SMTT(30) DEF RaiseAt
<1>2. ~Trial'
  BY <1>1, Untried DEF Trial, RaiseAt
<1> QED
  BY <1>1, <1>2 DEF PhaseInv

\* The bring-up draws a handle for an object or a memory.
LEMMA RaiseMakes ==
  ASSUME Basis, NEW i \in 1..15, RaiseAt(i), Raised(i), AllocObject \/ AllocMemory
  PROVE  Basis' /\ PhaseInv'
<1> DEFINE c == BringUp[i]
           x == BringUp[i].at
           p == IF c.op = "object" /\ x = "ctxdma" THEN "client" ELSE "device"
<1>1. At = x /\ Head(todo) = c /\ ~Trial /\ Tail(todo) = Rest(BringUp, i + 1)
  BY RaiseHead
<1>2. c.op \in {"object", "memory"}
  BY <1>1 DEF AllocObject, AllocMemory, Doing
<1>3. /\ i \in 1..14 /\ i # 12 /\ 1 < i
      /\ ~Did(BringUp, i, "object", x) /\ ~Did(BringUp, i, "memory", x)
      /\ x \in {"vaspace", "ctxdma", "channel", "notifier", "gpfifo", "userd"}
      /\ x = "ctxdma" => Did(BringUp, i, "memory", "notifier")
      /\ x = "channel" =>
           /\ Did(BringUp, i, "object", "vaspace") /\ Did(BringUp, i, "object", "ctxdma")
           /\ Did(BringUp, i, "memory", "userd") /\ Did(BringUp, i, "memory", "gpfifo")
           /\ Did(BringUp, i, "mapDma", "gpfifo")
  BY <1>2, BringUpOrder
<1>4. h[x] = 0 /\ BaseUp /\ NoBufs /\ attempted /\ ~ready /\ ~dmaFailed /\ Chan(1)
  BY <1>3 DEF Raised, Making, ChanObj, Channel
<1>5. x \in Made /\ x \in ChanObj /\ x \in Object
  BY <1>3, MadeNames DEF ChanObj, Channel
<1>6. /\ h' = [h EXCEPT ![x] = nextHandle] /\ nextHandle' = nextHandle + 1
      /\ size' = size /\ attempted' = attempted /\ ready' = ready /\ dmaFailed' = dmaFailed /\ under' = under
      /\ UNCHANGED <<rm, attempted, ready, cpu, lin, va, fd, under, mapped, klin, kdma, files, asked>>
      /\ \/ objs' = objs \cup {Obj(x, nextHandle, p)} /\ todo' = Tail(todo)
         \/ objs' = objs /\ todo' = TearDown
      /\ p = "device" \/ (p = "client" /\ x = "ctxdma")
  <2>1. x \notin Buf
    BY <1>3, BufAssumption
  <2> QED
    BY <1>1, <1>2, <1>3, <2>1 DEF AllocObject, AllocMemory, ObjectParent, Doing, NewHandle, Done, Undo, hist
<1>7. ~Trial'
  <2>1. TearDown = Rest(TearDown, 1) /\ i + 1 \in 1..15
    BY <1>3, RestEnds, Operations
  <2>2. ~Tried(Rest(BringUp, i + 1)) /\ ~Tried(TearDown)
    BY <2>1, Untried
  <2>3. todo' = Rest(BringUp, i + 1) \/ todo' = TearDown
    BY <1>1, <1>6
  <2> QED
    BY <2>2, <2>3 DEF Trial
<1>8. /\ Basis' /\ OnlyAt(x)
      /\ h'[x] # 0 /\ h'[x] \notin klin' /\ h'[x] \notin kdma'
      /\ objs' = objs => ~Exists(x)'
      /\ objs' = objs \cup {Obj(x, nextHandle, p)} => Exists(x)'
  <2>1. size' \in [Memory -> Nat] /\ \A m \in Memory \ {x} : size'[m] = size[m]
    BY <1>6 DEF Basis, TypeInv
  <2> QED
    BY <1>1, <1>4, <1>5, <1>6, <1>7, <2>1, Allocated, Zenon
<1>9. BaseUp' /\ NoBufs'
  BY <1>4, <1>5, <1>6, <1>8, BaseKept, BufsKept
<1>10. Chan(1)'
  <2>1. x = "ctxdma" => Exists("notifier")
    BY <1>3 DEF Raised, Making, ChanObj, Channel
  <2>2. x = "channel" => Exists("vaspace") /\ Exists("ctxdma") /\ Exists("userd") /\ Exists("gpfifo") /\ va["gpfifo"]
    BY <1>3 DEF Raised, Making, ChanObj, Channel
  <2> QED
    BY <1>1, <1>4, <1>5, <1>6, <1>8, <2>1, <2>2, ChanMade
<1>11. CASE todo' = TearDown /\ objs' = objs
  <2>1. lin["gpfifo"] <=> va["gpfifo"]
    BY <1>2, BringUpOrder DEF Raised, Channel
  <2>2. Lowered(1)'
    BY <1>4, <1>6, <1>9, <1>10, <2>1 DEF Lowered
  <2> QED
    BY <1>8, <1>11, <2>2, RaiseFails
<1>12. CASE todo' = Tail(todo) /\ Exists(x)'
  <2>1. \A op, at : Did(BringUp, i + 1, op, at) <=> Did(BringUp, i, op, at) \/ (c.op = op /\ c.at = at)
    BY RaiseDid
  <2>2. \A o \in ChanObj \ {"usermode"} :
          /\ h'[o] # 0 <=> \E op \in Making : Did(BringUp, i + 1, op, o)
          /\ Exists(o)' <=> \E op \in Making : Did(BringUp, i + 1, op, o)
    <3> SUFFICES ASSUME NEW o \in ChanObj \ {"usermode"}
                 PROVE  /\ h'[o] # 0 <=> \E op \in Making : Did(BringUp, i + 1, op, o)
                        /\ Exists(o)' <=> \E op \in Making : Did(BringUp, i + 1, op, o)
      OBVIOUS
    <3>1. CASE o = x
      BY <1>2, <1>8, <1>12, <2>1, <3>1 DEF Making
    <3>2. CASE o # x
      BY <1>8, <2>1, <3>2, MadeNames DEF Raised, OnlyAt, SameObj
    <3> QED
      BY <3>1, <3>2
  <2>3. \A m \in Channel \ {"usermode"} : lin'[m] <=> Did(BringUp, i + 1, "mapCpu", m)
    BY <1>2, <1>6, <2>1 DEF Raised
  <2>4. \A m \in Channel : /\ va'[m] <=> Did(BringUp, i + 1, "mapDma", m)
                           /\ fd'[m] <=> i + 1 > 1
    BY <1>2, <1>3, <1>6, <2>1 DEF Raised
  <2>5. IF Doorbell /\ i + 1 > 12
          THEN Exists("usermode")' /\ lin'["usermode"] /\ under' # "none"
          ELSE h'["usermode"] = 0 /\ ~lin'["usermode"] /\ under' = "none"
    <3>1. "usermode" \in Object \ {x} /\ (i + 1 > 12 <=> i > 12)
      BY <1>3, Names
    <3>2. SameObj("usermode")
      BY <1>8, <3>1 DEF OnlyAt
    <3> QED
      BY <1>6, <3>1, <3>2 DEF Raised, SameObj
  <2>6. Raised(i + 1)'
    BY <1>4, <1>6, <1>9, <1>10, <2>2, <2>3, <2>4, <2>5 DEF Raised
  <2> QED
    BY <1>3, <1>8, <1>12, <2>6, RaiseGoesOn
<1> QED
  BY <1>6, <1>8, <1>11, <1>12

\* A call that fails, and so leaves everything as it is.
LEMMA RaisedSame ==
  ASSUME Basis, ~Trial, NEW i \in 1..15, Raised(i), UNCHANGED <<lib, nextHandle, kernel, asked>>
  PROVE  /\ ~Trial' => Basis'
         /\ BaseUp' /\ NoBufs' /\ attempted' /\ ~ready' /\ Chan(1)'
         /\ dmaFailed' = dmaFailed =>
              /\ Raised(i)'
              /\ ~(BringUp[i].op = "mapDma" /\ BringUp[i].at = "gpfifo") => Lowered(1)'
<1>1. BaseUp /\ NoBufs /\ Chan(1) /\ attempted /\ ~ready /\ ~dmaFailed
  BY DEF Raised
<1>2. (\A o \in Object : SameObj(o)) /\ \A m \in Memory : SameMem(m)
  BY DEF SameObj, SameMem, Exists, lib, kernel
<1>3. BaseUp'
  BY <1>1 DEF BaseUp, Exists, lib, kernel
<1>4. NoBufs'
  BY <1>1, Names DEF NoBufs, Nothing, Absent, Left, Exists, lib, kernel, Channel
<1>5. \A op, at : ~Did(TearDown, 1, op, at)
  BY DEF Did
<1>6. ChanMem(1)'
  BY <1>1, <1>5 DEF Chan, ChanMem, MemOk, Exists, lib, kernel
<1>7. ChanObjs(1)'
  BY <1>1, <1>5 DEF Chan, ChanObjs, Exists, lib, kernel
<1>8. ~Trial' => Basis'
  BY OnlyCallsLeft
<1>9. ASSUME dmaFailed' = dmaFailed PROVE Raised(i)'
  BY <1>1, <1>3, <1>4, <1>6, <1>7, <1>9 DEF Raised, Chan, Exists, lib, kernel
<1>10. ASSUME dmaFailed' = dmaFailed, ~(BringUp[i].op = "mapDma" /\ BringUp[i].at = "gpfifo") PROVE Lowered(1)'
  <2>1. lin["gpfifo"] <=> va["gpfifo"]
    BY <1>10, BringUpOrder DEF Raised, Channel
  <2> QED
    BY <1>1, <1>3, <1>4, <1>6, <1>7, <1>10, <2>1 DEF Lowered, Chan, lib
<1> QED
  BY <1>1, <1>3, <1>4, <1>6, <1>7, <1>8, <1>9, <1>10 DEF Chan, lib

\* The bring-up maps a memory for the CPU, or fails to.
LEMMA RaiseMapsCpu ==
  ASSUME Basis, NEW i \in 1..15, RaiseAt(i), Raised(i), MapCpu
  PROVE  Basis' /\ PhaseInv'
<1> DEFINE c == BringUp[i]
           x == BringUp[i].at
<1>1. At = x /\ Head(todo) = c /\ ~Trial /\ Tail(todo) = Rest(BringUp, i + 1)
  BY RaiseHead
<1>2. c.op = "mapCpu"
  BY <1>1 DEF MapCpu, Doing
<1>3. /\ i \in 1..14 /\ i # 12 /\ 1 < i
      /\ x \in {"notifier", "gpfifo", "userd"} /\ c.n = Pg(x)
      /\ ~Did(BringUp, i, "mapCpu", x) /\ ~Did(BringUp, i, "mapDma", x) /\ Did(BringUp, i, "memory", x)
  BY <1>2, BringUpOrder
<1>4. BaseUp /\ NoBufs /\ attempted /\ ~ready /\ ~dmaFailed /\ Chan(1)
  BY DEF Raised
<1>5. x \in Made /\ x \in ChanObj /\ x \in Object /\ x \in Memory /\ x \in Channel
  BY <1>3, MadeNames, Names DEF ChanObj, Channel
<1>6. h[x] # 0 /\ Exists(x) /\ ~lin[x] /\ ~va[x]
  BY <1>3 DEF Raised, Making, ChanObj, Channel
<1>7. CASE todo' = Undo(At) /\ UNCHANGED <<cpu, lin, mapped, klin>>
  <2>1. todo' = TearDown
    BY <1>1, <1>3, <1>7, BufAssumption DEF Undo
  <2>2. UNCHANGED <<lib, nextHandle, kernel, asked, dmaFailed>>
    BY <1>7 DEF MapCpu, lib, kernel, hist
  <2>3. Lowered(1)'
    BY <1>1, <1>2, <2>2, RaisedSame
  <2> QED
    BY <1>1, <2>1, <2>2, <2>3, RaisedSame, RaiseFails
<1>8. CASE /\ cpu' = [cpu EXCEPT ![At] = Head(todo).n] /\ lin' = [lin EXCEPT ![At] = TRUE]
           /\ mapped' = [mapped EXCEPT ![At] = Head(todo).n] /\ klin' = klin \cup {h[At]}
           /\ Done
  <2>1. /\ cpu' = [cpu EXCEPT ![x] = Pg(x)] /\ lin' = [lin EXCEPT ![x] = TRUE]
        /\ mapped' = [mapped EXCEPT ![x] = Pg(x)] /\ klin' = klin \cup {h[x]} /\ todo' = Rest(BringUp, i + 1)
        /\ UNCHANGED <<rm, attempted, ready, h, va, fd, size, under, nextHandle, objs, kdma, files, asked, dmaFailed>>
    BY <1>1, <1>3, <1>8 DEF MapCpu, Done, hist
  <2>2. ~Trial'
    BY <1>3, <2>1, Untried DEF Trial
  <2>3. Pg(x) \in Nat
    BY PagesAssumption DEF Pg
  <2>4. /\ cpu' \in [Memory -> Nat] /\ size' \in [Memory -> Nat] /\ mapped' \in [Memory -> Nat]
        /\ lin' \in [Memory -> BOOLEAN] /\ va' \in [Memory -> BOOLEAN]
        /\ \A m \in Memory \ {x} : /\ cpu'[m] = cpu[m] /\ size'[m] = size[m] /\ mapped'[m] = mapped[m]
                                   /\ lin'[m] = lin[m] /\ va'[m] = va[m]
        /\ lin'[x] /\ cpu'[x] = Pg(x) /\ mapped'[x] = Pg(x) /\ va'[x] = va[x] /\ size'[x] = size[x]
    BY <1>5, <2>1, <2>3 DEF Basis, TypeInv
  <2>5. Basis' /\ OnlyAt(x) /\ (Exists(x)' <=> Exists(x))
    BY <1>1, <1>5, <1>6, <2>1, <2>2, <2>4, Remapped
  <2>6. BaseUp' /\ NoBufs'
    BY <1>4, <1>5, <2>1, <2>5, BaseKept, BufsKept
  <2>7. \A op, at : ~Did(TearDown, 1, op, at)
    BY DEF Did
  <2>8. ChanMem(1)'
    <3> SUFFICES ASSUME NEW m \in Channel
                 PROVE  /\ MemOk(m, Pg(m), FALSE, FALSE, FALSE, Left(m))'
                        /\ va'[m] => m \in {"notifier", "gpfifo"} /\ h'["vaspace"] # 0
                        /\ size'[m] = IF m = "gpfifo" /\ va'[m] THEN Pages ELSE 0
      BY <2>7 DEF ChanMem, MemOk
    <3>1. /\ MemOk(m, Pg(m), FALSE, FALSE, FALSE, Left(m))
          /\ va[m] => m \in {"notifier", "gpfifo"} /\ h["vaspace"] # 0
          /\ size[m] = IF m = "gpfifo" /\ va[m] THEN Pages ELSE 0
      BY <1>4, <2>7 DEF Chan, ChanMem, MemOk
    <3>2. CASE m = x
      BY <1>6, <2>1, <2>4, <2>5, <3>1, <3>2 DEF MemOk
    <3>3. CASE m # x
      <4>1. SameMem(m)
        BY <2>5, <3>3, Names DEF OnlyAt
      <4> QED
        BY <2>1, <3>1, <4>1 DEF MemOk, SameMem, SameObj
    <3> QED
      BY <3>2, <3>3
  <2>9. ChanObjs(1)'
    BY <1>4, <2>1, <2>7 DEF Chan, ChanObjs, Exists
  <2>10. Raised(i + 1)'
    <3>1. \A op, at : Did(BringUp, i + 1, op, at) <=> Did(BringUp, i, op, at) \/ (c.op = op /\ c.at = at)
      BY RaiseDid
    <3>2. \A o \in ChanObj \ {"usermode"} :
            /\ h'[o] # 0 <=> \E op \in Making : Did(BringUp, i + 1, op, o)
            /\ Exists(o)' <=> \E op \in Making : Did(BringUp, i + 1, op, o)
      BY <1>2, <2>1, <3>1 DEF Raised, Making, Exists
    <3>3. \A m \in Channel \ {"usermode"} : lin'[m] <=> Did(BringUp, i + 1, "mapCpu", m)
      BY <1>2, <1>5, <2>4, <3>1, Names DEF Raised
    <3>4. \A m \in Channel : (va'[m] <=> Did(BringUp, i + 1, "mapDma", m)) /\ (fd'[m] <=> i + 1 > 1)
      BY <1>2, <1>3, <2>1, <3>1 DEF Raised
    <3>5. IF Doorbell /\ i + 1 > 12
            THEN Exists("usermode")' /\ lin'["usermode"] /\ under' # "none"
            ELSE h'["usermode"] = 0 /\ ~lin'["usermode"] /\ under' = "none"
      <4>1. (i + 1 > 12 <=> i > 12) /\ lin'["usermode"] = lin["usermode"]
        BY <1>3, <2>4, Names DEF Channel
      <4> QED
        BY <2>1, <4>1 DEF Raised, Exists
    <3> QED
      BY <1>4, <2>1, <2>6, <2>8, <2>9, <3>2, <3>3, <3>4, <3>5 DEF Raised, Chan
  <2> QED
    BY <1>1, <1>3, <2>1, <2>5, <2>10, RaiseGoesOn
<1> QED
  BY <1>7, <1>8 DEF MapCpu

\* The bring-up maps a memory for the GPU, or fails to.
LEMMA RaiseMapsDma ==
  ASSUME Basis, NEW i \in 1..15, RaiseAt(i), Raised(i), MapDma
  PROVE  Basis' /\ PhaseInv'
<1> DEFINE c == BringUp[i]
           x == BringUp[i].at
<1>1. At = x /\ Head(todo) = c /\ ~Trial /\ Tail(todo) = Rest(BringUp, i + 1)
  BY RaiseHead
<1>2. c.op = "mapDma"
  BY <1>1 DEF MapDma, Doing
<1>3. /\ i \in 1..14 /\ i # 12 /\ 1 < i /\ x \in {"notifier", "gpfifo"}
      /\ Did(BringUp, i, "mapCpu", x) /\ ~Did(BringUp, i, "mapDma", x) /\ Did(BringUp, i, "object", "vaspace")
  BY <1>2, BringUpOrder
<1>4. BaseUp /\ NoBufs /\ attempted /\ ~ready /\ ~dmaFailed /\ Chan(1)
  BY DEF Raised
<1>5. x \in Made /\ x \in ChanObj /\ x \in Object /\ x \in Memory /\ x \in Channel
  BY <1>3, MadeNames, Names DEF ChanObj, Channel
<1>6. \A op, at : ~Did(TearDown, 1, op, at)
  BY DEF Did
<1>7. h[x] # 0 /\ lin[x] /\ ~va[x] /\ Exists("vaspace") /\ h["vaspace"] # 0
  <2>1. lin[x] /\ ~va[x]
    BY <1>3 DEF Raised, Channel
  <2>2. Exists("vaspace") /\ h["vaspace"] # 0
    BY <1>3 DEF Raised, Making, ChanObj
  <2> QED
    BY <1>4, <1>5, <2>1, <2>2 DEF Chan, ChanMem, MemOk
<1>8. CASE UNCHANGED <<va, kdma, size>> /\ todo' = Undo(At) /\ dmaFailed' = (dmaFailed \/ At = "gpfifo")
  <2>1. todo' = TearDown
    BY <1>1, <1>3, <1>8, BufAssumption DEF Undo
  <2>2. UNCHANGED <<lib, nextHandle, kernel, asked>>
    BY <1>8 DEF MapDma, lib, kernel
  <2>3. ~Trial' /\ TearDown = Rest(TearDown, 1)
    BY <2>1, RestEnds, Operations, Untried DEF Trial
  <2>4. Basis' /\ BaseUp' /\ NoBufs' /\ attempted' /\ ~ready' /\ Chan(1)'
    BY <1>1, <2>2, <2>3, RaisedSame
  <2>5. dmaFailed' <=> lin["gpfifo"] /\ ~va["gpfifo"]
    <3>1. x = "gpfifo" \/ (lin["gpfifo"] <=> va["gpfifo"])
      BY BringUpOrder DEF Raised, Channel
    <3>2. dmaFailed' <=> x = "gpfifo"
      BY <1>1, <1>4, <1>8
    <3> QED
      BY <1>7, <3>1, <3>2
  <2>6. Lowered(1)'
    BY <2>2, <2>4, <2>5 DEF Lowered, lib
  <2> QED
    BY <2>1, <2>4, <2>6, RaiseFails
<1>9. CASE /\ va' = [va EXCEPT ![At] = TRUE] /\ kdma' = kdma \cup {h[At]}
           /\ size' = IF At = "gpfifo" THEN [size EXCEPT ![At] = Pages] ELSE size
           /\ dmaFailed' = dmaFailed /\ Done
  <2>1. /\ va' = [va EXCEPT ![x] = TRUE] /\ kdma' = kdma \cup {h[x]}
        /\ size' = IF x = "gpfifo" THEN [size EXCEPT ![x] = Pages] ELSE size
        /\ todo' = Rest(BringUp, i + 1)
        /\ UNCHANGED <<rm, attempted, ready, h, cpu, lin, fd, under, nextHandle, objs, mapped, klin, files, asked, dmaFailed>>
    BY <1>1, <1>9 DEF MapDma, Done
  <2>2. ~Trial'
    BY <1>3, <2>1, Untried DEF Trial
  <2>3. Pages \in Nat
    BY PagesAssumption
  <2>4. /\ cpu' \in [Memory -> Nat] /\ size' \in [Memory -> Nat] /\ mapped' \in [Memory -> Nat]
        /\ lin' \in [Memory -> BOOLEAN] /\ va' \in [Memory -> BOOLEAN]
        /\ \A m \in Memory \ {x} : /\ cpu'[m] = cpu[m] /\ size'[m] = size[m] /\ mapped'[m] = mapped[m]
                                   /\ lin'[m] = lin[m] /\ va'[m] = va[m]
        /\ va'[x] /\ (x = "gpfifo" => size'[x] = Pages) /\ (x # "gpfifo" => size'[x] = size[x])
    BY <1>5, <2>1, <2>3 DEF Basis, TypeInv
  <2>5. Basis' /\ OnlyAt(x) /\ (Exists(x)' <=> Exists(x))
    BY <1>1, <1>5, <1>7, <2>1, <2>2, <2>4, Remapped
  <2>6. BaseUp' /\ NoBufs'
    BY <1>4, <1>5, <2>1, <2>5, BaseKept, BufsKept
  <2>8. ChanMem(1)'
    <3> SUFFICES ASSUME NEW m \in Channel
                 PROVE  /\ MemOk(m, Pg(m), FALSE, FALSE, FALSE, Left(m))'
                        /\ va'[m] => m \in {"notifier", "gpfifo"} /\ h'["vaspace"] # 0
                        /\ size'[m] = IF m = "gpfifo" /\ va'[m] THEN Pages ELSE 0
      BY <1>6 DEF ChanMem, MemOk
    <3>1. /\ MemOk(m, Pg(m), FALSE, FALSE, FALSE, Left(m))
          /\ va[m] => m \in {"notifier", "gpfifo"} /\ h["vaspace"] # 0
          /\ size[m] = IF m = "gpfifo" /\ va[m] THEN Pages ELSE 0
      BY <1>4, <1>6 DEF Chan, ChanMem, MemOk
    <3>2. CASE m = x
      BY <1>3, <1>7, <2>1, <2>4, <2>5, <3>1, <3>2 DEF MemOk
    <3>3. CASE m # x
      <4>1. SameMem(m)
        BY <2>5, <3>3, Names DEF OnlyAt
      <4> QED
        BY <2>1, <3>1, <4>1 DEF MemOk, SameMem, SameObj
    <3> QED
      BY <3>2, <3>3
  <2>9. ChanObjs(1)'
    <3>1. va["gpfifo"] => va'["gpfifo"]
      BY <2>4, Names DEF Channel
    <3> QED
      BY <1>4, <1>6, <1>7, <2>1, <3>1 DEF Chan, ChanObjs, Exists
  <2>10. Raised(i + 1)'
    <3>1. \A op, at : Did(BringUp, i + 1, op, at) <=> Did(BringUp, i, op, at) \/ (c.op = op /\ c.at = at)
      BY RaiseDid
    <3>2. \A o \in ChanObj \ {"usermode"} :
            /\ h'[o] # 0 <=> \E op \in Making : Did(BringUp, i + 1, op, o)
            /\ Exists(o)' <=> \E op \in Making : Did(BringUp, i + 1, op, o)
      BY <1>2, <2>1, <3>1 DEF Raised, Making, Exists
    <3>3. \A m \in Channel \ {"usermode"} : lin'[m] <=> Did(BringUp, i + 1, "mapCpu", m)
      BY <1>2, <2>1, <3>1 DEF Raised
    <3>4. \A m \in Channel : (va'[m] <=> Did(BringUp, i + 1, "mapDma", m)) /\ (fd'[m] <=> i + 1 > 1)
      BY <1>2, <1>3, <1>5, <2>1, <2>4, <3>1, Names DEF Raised
    <3>5. IF Doorbell /\ i + 1 > 12
            THEN Exists("usermode")' /\ lin'["usermode"] /\ under' # "none"
            ELSE h'["usermode"] = 0 /\ ~lin'["usermode"] /\ under' = "none"
      <4>1. (i + 1 > 12 <=> i > 12)
        BY <1>3
      <4> QED
        BY <2>1, <4>1 DEF Raised, Exists
    <3> QED
      BY <1>4, <2>1, <2>6, <2>8, <2>9, <3>2, <3>3, <3>4, <3>5 DEF Raised, Chan
  <2> QED
    BY <1>1, <1>3, <2>1, <2>5, <2>10, RaiseGoesOn
<1> QED
  BY <1>8, <1>9 DEF MapDma

\* The descriptors of the channel are opened.
LEMMA RaiseOpens ==
  ASSUME Basis, NEW i \in 1..15, RaiseAt(i), Raised(i), OpenAll
  PROVE  Basis' /\ PhaseInv'
<1>1. Head(todo) = BringUp[i] /\ ~Trial /\ Tail(todo) = Rest(BringUp, i + 1)
  BY RaiseHead
<1>2. i = 1
  BY <1>1, BringUpOrder DEF OpenAll, Doing
<1>3. PICK opened \in SUBSET Channel :
        /\ files' = files \cup opened
        /\ fd' = [m \in Memory |-> IF m \in Channel THEN m \in opened ELSE fd[m]]
        /\ IF opened = Channel THEN Done ELSE todo' = TearDown
  BY DEF OpenAll
<1>4. UNCHANGED <<rm, attempted, ready, h, cpu, lin, va, size, under, nextHandle,
                  objs, mapped, klin, kdma, asked, dmaFailed>>
  BY DEF OpenAll, hist
<1>5. BaseUp /\ NoBufs /\ attempted /\ ~ready /\ ~dmaFailed /\ Chan(1)
  BY DEF Raised
<1>6. (\A op, at : ~Did(TearDown, 1, op, at)) /\ \A op, at : ~Did(BringUp, 1, op, at)
  BY DEF Did
<1>7. ~Trial'
  <2>1. todo' = Rest(BringUp, 2) \/ todo' = Rest(TearDown, 1)
    <3>1. TearDown = Rest(TearDown, 1)
      BY RestEnds, Operations
    <3>2. Tail(todo) = Rest(BringUp, 2)
      BY <1>1, <1>2
    <3> QED
      BY <1>3, <3>1, <3>2 DEF Done
  <2> QED
    BY <2>1, Untried DEF Trial
<1>8. Basis'
  <2>1. files' \subseteq Memory /\ fd' \in [Memory -> BOOLEAN]
    <3>1. files \subseteq Memory /\ opened \subseteq Memory /\ \A m \in Memory : fd[m] \in BOOLEAN
      BY <1>3, Names DEF Basis, MapInv, TypeInv
    <3>2. \A m \in Memory : (IF m \in Channel THEN m \in opened ELSE fd[m]) \in BOOLEAN
      <4> TAKE m \in Memory
      <4>1. CASE m \in Channel
        <5>1. (m \in opened) \in BOOLEAN
          OBVIOUS
        <5> QED
          BY <4>1, <5>1, Zenon
      <4>2. CASE m \notin Channel
        BY <3>1, <4>2, Zenon
      <4> QED
        BY <4>1, <4>2
    <3>3. fd' \in [Memory -> BOOLEAN]
      BY <1>3, <3>2, Zenon
    <3> QED
      BY <1>3, <3>1, <3>3
  <2>2. TypeInv' /\ HandleInv' /\ UnderInv'
    BY <1>4, <2>1 DEF Basis, TypeInv, HandleInv, UnderInv
  <2>3. ObjInv'
    BY <1>1, <1>4, <1>7 DEF Basis, ObjInv, OwnHandle, ParentOk
  <2>4. MapInv'
    BY <1>4, <2>1 DEF Basis, MapInv
  <2> QED
    BY <2>2, <2>3, <2>4 DEF Basis
<1>9. BaseUp' /\ NoBufs'
  <2>1. \A b \in Buf : (fd'[b] <=> fd[b]) /\ (b \in files' <=> b \in files)
    BY <1>3, Names
  <2> QED
    BY <1>4, <1>5, <2>1, Names DEF BaseUp, NoBufs, Nothing, Absent, Left, Exists
<1>10. \A m \in Channel : (fd'[m] <=> m \in opened) /\ (fd'[m] <=> m \in files')
  <2>1. \A m \in Channel : m \notin files
    BY <1>2, <1>5, <1>6 DEF Chan, ChanMem, MemOk, Raised
  <2> QED
    BY <1>3, <2>1, Names
<1>11. Chan(1)'
  <2>1. ChanMem(1)'
    BY <1>4, <1>5, <1>6, <1>10 DEF Chan, ChanMem, MemOk, Exists
  <2>2. ChanObjs(1)'
    BY <1>4, <1>5, <1>6 DEF Chan, ChanObjs, Exists
  <2> QED
    BY <2>1, <2>2 DEF Chan
<1>12. CASE opened = Channel
  <2>1. todo' = Tail(todo)
    BY <1>3, <1>12 DEF Done
  <2>2. \A op, at : op # "openAll" => ~Did(BringUp, 2, op, at)
    BY BringUpCalls DEF Did, Call, CallN
  <2>3. Raised(2)'
    BY <1>2, <1>4, <1>5, <1>6, <1>9, <1>10, <1>11, <1>12, <2>2 DEF Raised, Making, Exists
  <2> QED
    BY <1>2, <1>8, <2>1, <2>3, RaiseGoesOn
<1>13. CASE opened # Channel
  <2>1. Lowered(1)'
    BY <1>2, <1>4, <1>5, <1>6, <1>9, <1>11 DEF Lowered, Raised, Channel
  <2> QED
    BY <1>3, <1>8, <1>13, <2>1, RaiseFails
<1> QED
  BY <1>12, <1>13

\* The bring-up comes to the usermode page.
LEMMA RaiseUsermode ==
  ASSUME Basis, NEW i \in 1..15, RaiseAt(i), Raised(i), Usermode
  PROVE  Basis' /\ PhaseInv'
<1>1. Head(todo) = BringUp[i] /\ At = BringUp[i].at /\ ~Trial /\ Tail(todo) = Rest(BringUp, i + 1)
  BY RaiseHead
<1>2. i = 12 /\ At = "usermode"
  <2>1. BringUp[i].op = "usermode"
    BY <1>1 DEF Usermode, Doing
  <2>2. i = 12
    BY <2>1, BringUpOrder
  <2> QED
    BY <1>1, <2>2, BringUpCalls DEF Call, CallN
<1>3. UNCHANGED <<lib, nextHandle, kernel, asked, dmaFailed>>
  BY DEF Usermode, hist
<1>4. Raised(12)'
  BY <1>1, <1>2, <1>3, RaisedSame
<1>5. CASE Doorbell
  <2>1. todo' = <<CallN("userAlloc", "usermode", Tries)>> \o Rest(BringUp, 13)
    <3>1. Tail(todo) = Rest(BringUp, 13)
      BY <1>1, <1>2
    <3> QED
      BY <1>2, <1>5, <3>1 DEF Usermode
  <2>2. Tries' = Tries /\ Tries \in Nat /\ Tries \in 1..Tries
    BY <1>3, ClassAssumption DEF Tries, lib
  <2>3. \E k \in (1..Tries)' : TryAt("userAlloc", k)'
    BY <2>1, <2>2 DEF TryAt
  <2>4. ~Trial'
    <3>1. CallN("userAlloc", "usermode", Tries) \in CallSet /\ Rest(BringUp, 13) \in Seq(CallSet)
      <4>1. NextCall(BringUp, 13)
        BY CallsLeft
      <4>2. "userAlloc" \in Ops /\ "usermode" \in Object
        BY Names DEF Ops
      <4> QED
        BY <2>2, <4>1, <4>2, CallType DEF NextCall
    <3>2. Head(todo') = CallN("userAlloc", "usermode", Tries)
      BY <2>1, <3>1, FrontStep
    <3> QED
      BY <3>2 DEF Trial, Tried, CallN
  <2>5. PhaseInv'
    <3>1. \E op \in {"userAlloc", "userMap"}, n \in (1..Tries)' : TryAt(op, n)' /\ Raised(12)' /\ Doorbell
                                                                /\ (op = "userMap" => Exists("usermode")')
      BY <1>4, <1>5, <2>3
    <3> QED
      BY <3>1, Zenon DEF PhaseInv
  <2> QED
    BY <1>1, <1>3, <2>4, <2>5, OnlyCallsLeft
<1>6. CASE ~Doorbell
  <2>1. todo' = Tail(todo)
    BY <1>6 DEF Usermode, Done
  <2>2. \A op, at : op # "usermode" => (Did(BringUp, 13, op, at) <=> Did(BringUp, 12, op, at))
    BY RaiseDid, BringUpOrder
  <2>3. Raised(13)'
    BY <1>4, <1>6, <2>2 DEF Raised, Making
  <2> QED
    BY <1>1, <1>2, <1>3, <2>1, <2>3, RaiseGoesOn, OnlyCallsLeft
<1> QED
  BY <1>5, <1>6

\* The channel is bound and scheduled, or the bring-up fails.
LEMMA RaiseControls ==
  ASSUME Basis, NEW i \in 1..15, RaiseAt(i), Raised(i), Control
  PROVE  Basis' /\ PhaseInv'
<1>1. Head(todo) = BringUp[i] /\ ~Trial
  BY RaiseHead
<1>2. i = 14 /\ BringUp[14].op = "control"
  BY <1>1, BringUpOrder DEF Control, Doing
<1>3. UNCHANGED <<lib, nextHandle, kernel, asked, dmaFailed>>
  BY DEF Control, hist
<1>4. Raised(14)' /\ Lowered(1)' /\ (~Trial' => Basis')
  BY <1>1, <1>2, <1>3, RaisedSame
<1>5. CASE todo' = TearDown
  BY <1>4, <1>5, RaiseFails
<1>6. CASE Done
  <2>1. \A op, at : op # "control" => (Did(BringUp, 15, op, at) <=> Did(BringUp, 14, op, at))
    BY <1>2, RaiseDid
  <2>2. Raised(15)'
    BY <1>4, <2>1 DEF Raised, Making
  <2> QED
    BY <1>2, <1>4, <1>6, <2>2, RaiseGoesOn DEF Done
<1> QED
  BY <1>5, <1>6 DEF Control

\* The bring-up ends with a channel that is up.
LEMMA RaiseEnds ==
  ASSUME Basis, NEW i \in 1..15, RaiseAt(i), Raised(i), ChannelReady
  PROVE  Basis' /\ PhaseInv'
<1>1. Head(todo) = BringUp[i] /\ ~Trial /\ (i = 15 => Tail(todo) = <<>>)
  BY RaiseHead
<1>2. i = 15
  BY <1>1, BringUpOrder DEF ChannelReady, Doing
<1>3. /\ todo' = <<>> /\ ready' = TRUE
      /\ UNCHANGED <<rm, attempted, h, cpu, lin, va, fd, size, under, nextHandle, kernel, hist>>
  BY <1>1, <1>2 DEF ChannelReady, Done
<1>4. ~Trial'
  BY <1>3, Untried DEF Trial
<1>5. Basis'
  BY <1>1, <1>3, <1>4 DEF Basis, TypeInv, HandleInv, ObjInv, MapInv, UnderInv, OwnHandle, ParentOk, kernel, hist
<1>6. Up'
  <2>1. BaseUp' /\ ~dmaFailed'
    BY <1>3 DEF Raised, BaseUp, Exists, kernel, hist
  <2>2. ChanMem(1)'
    BY <1>3 DEF Raised, Chan, ChanMem, MemOk, Exists, Left, kernel, hist
  <2>3. ChanObjs(1)'
    BY <1>3 DEF Raised, Chan, ChanObjs, Exists, kernel, hist
  <2>4. \A o \in ChanObj \ {"usermode"} : Exists(o)
    BY <1>2, BringUpOrder DEF Raised, Making, ChanObj, Channel
  <2>5. (\A m \in Channel \ {"usermode"} : lin[m]) /\ va["notifier"] /\ va["gpfifo"] /\ \A m \in Channel : fd[m]
    BY <1>2, BringUpOrder DEF Raised, Channel
  <2>6. Doorbell => Exists("usermode") /\ lin["usermode"] /\ under # "none"
    BY <1>2 DEF Raised
  <2> QED
    BY <1>3, <2>1, <2>2, <2>3, <2>4, <2>5, <2>6 DEF Up, Chan, Raised, Exists, kernel
<1>7. \A b \in Buf : Settled(b)'
  <2> SUFFICES ASSUME NEW b \in Buf PROVE Settled(b)'
    OBVIOUS
  <2>1. Nothing(b) /\ mapped[b] = 0 /\ h[b] \notin klin /\ h[b] \notin kdma
    BY Names DEF Raised, NoBufs, Nothing, Absent, Left, Channel, Basis, MapInv
  <2> QED
    BY <1>3, <2>1, Names DEF Settled, MemOk, Nothing, Absent, Left, Exists, kernel, hist, Channel
<1> QED
  BY <1>3, <1>5, <1>6, <1>7, Zenon DEF PhaseInv

\* A try of a usermode class in front of the rest of the bring-up.
LEMMA TryFront ==
  ASSUME NEW op \in {"userAlloc", "userMap"}, NEW n \in Nat
  PROVE  /\ Head(<<CallN(op, "usermode", n)>> \o Rest(BringUp, 13)) = CallN(op, "usermode", n)
         /\ Head(<<CallN(op, "usermode", n)>> \o Rest(BringUp, 13)).at = "usermode"
         /\ Tried(<<CallN(op, "usermode", n)>> \o Rest(BringUp, 13)) <=> op = "userMap"
<1>1. NextCall(BringUp, 13)
  BY CallsLeft
<1>2. op \in Ops /\ "usermode" \in Object
  BY Names DEF Ops
<1>3. CallN(op, "usermode", n) \in CallSet /\ Rest(BringUp, 13) \in Seq(CallSet)
  BY <1>1, <1>2, CallType DEF NextCall
<1>4. /\ Head(<<CallN(op, "usermode", n)>> \o Rest(BringUp, 13)) = CallN(op, "usermode", n)
      /\ <<CallN(op, "usermode", n)>> \o Rest(BringUp, 13) # <<>>
  BY <1>3, FrontStep
<1> QED
  BY <1>4 DEF CallN, Tried

\* A try that failed is followed by the next, or by the clean-up.
LEMMA TryGoesOn ==
  ASSUME NEW op \in {"userAlloc", "userMap"}, NEW n \in 1..Tries, TryAt(op, n),
         NextTry("userAlloc", TearDown), Tries' = Tries, Raised(12)', Doorbell
  PROVE  PhaseInv' /\ ~Trial'
<1>1. Tries \in Nat /\ n \in Nat
  BY ClassAssumption DEF Tries
<1>2. Head(todo).n = n /\ At = "usermode" /\ Tail(todo) = Rest(BringUp, 13)
  BY TryHead
<1>3. CASE n > 1
  <2>1. todo' = <<CallN("userAlloc", "usermode", n - 1)>> \o Rest(BringUp, 13) /\ n - 1 \in 1..Tries /\ n - 1 \in Nat
    <3>1. Head(todo).n > 1 /\ n - 1 \in 1..Tries /\ n - 1 \in Nat
      BY <1>1, <1>2, <1>3
    <3>2. todo' = <<CallN("userAlloc", At, Head(todo).n - 1)>> \o Tail(todo)
      BY <3>1 DEF NextTry
    <3> QED
      BY <1>2, <3>1, <3>2
  <2>2. ~Trial'
    BY <2>1, TryFront DEF Trial
  <2>3. \E p \in {"userAlloc", "userMap"}, k \in (1..Tries)' : TryAt(p, k)' /\ Raised(12)' /\ Doorbell
                                                              /\ (p = "userMap" => Exists("usermode")')
    BY <2>1 DEF TryAt
  <2> QED
    BY <2>2, <2>3, Zenon DEF PhaseInv
<1>4. CASE ~(n > 1)
  <2>1. todo' = TearDown
    BY <1>2, <1>4 DEF NextTry
  <2>2. lin'["gpfifo"] <=> va'["gpfifo"]
    <3>1. BringUp[12].op # "mapDma"
      BY BringUpOrder
    <3> QED
      BY <3>1, BringUpOrder DEF Raised, Channel
  <2>3. Lowered(1)'
    BY <2>2 DEF Lowered, Raised
  <2> QED
    BY <2>1, <2>3, RaiseFails
<1> QED
  BY <1>3, <1>4

\* During the tries the rest of the channel stays as it is.
LEMMA TryRaised ==
  ASSUME Raised(12), OnlyAt("usermode"), UNCHANGED <<lib, mapped, klin, kdma, files, asked, dmaFailed>>
  PROVE  Raised(12)' /\ Tries' = Tries
<1>1. "usermode" \in Made /\ "usermode" \in ChanObj /\ "usermode" \in Object /\ "usermode" \in Memory
  BY MadeNames, Names DEF ChanObj, Channel
<1>2. BaseUp' /\ NoBufs'
  BY <1>1, BaseKept, BufsKept DEF Raised, lib
<1>3. \A op, at : ~Did(TearDown, 1, op, at)
  BY DEF Did
<1>4. \A o \in ChanObj \ {"usermode"} : Exists(o)' <=> Exists(o)
  BY MadeNames DEF OnlyAt, SameObj
<1>5. ~lin["usermode"]
  BY DEF Raised
<1>6. ChanMem(1)'
  <2> SUFFICES ASSUME NEW m \in Channel
               PROVE  /\ MemOk(m, Pg(m), FALSE, FALSE, FALSE, Left(m))'
                      /\ va'[m] => m \in {"notifier", "gpfifo"} /\ h'["vaspace"] # 0
                      /\ size'[m] = IF m = "gpfifo" /\ va'[m] THEN Pages ELSE 0
    BY <1>3 DEF ChanMem, MemOk
  <2>1. /\ MemOk(m, Pg(m), FALSE, FALSE, FALSE, Left(m))
        /\ va[m] => m \in {"notifier", "gpfifo"} /\ h["vaspace"] # 0
        /\ size[m] = IF m = "gpfifo" /\ va[m] THEN Pages ELSE 0
    BY <1>3 DEF Raised, Chan, ChanMem, MemOk
  <2>2. m # "usermode" => (Exists(m)' <=> Exists(m))
    BY <1>4 DEF ChanObj
  <2> QED
    BY <1>5, <2>1, <2>2 DEF MemOk, lib
<1>7. ChanObjs(1)'
  BY <1>3, <1>4 DEF Raised, Chan, ChanObjs, lib, ChanObj, Channel
<1> QED
  BY <1>2, <1>4, <1>6, <1>7 DEF Raised, Chan, lib, Tries

\* A class of the usermode page is tried.
LEMMA TryAllocates ==
  ASSUME Basis, NEW n \in 1..Tries, TryAt("userAlloc", n), Raised(12), Doorbell, UserAlloc
  PROVE  Basis' /\ PhaseInv'
<1>1. At = "usermode" /\ Head(todo).n = n /\ Tail(todo) = Rest(BringUp, 13) /\ ~Trial /\ n \in Nat
  BY TryHead, ClassAssumption DEF Tries
<1>2. UNCHANGED <<lib, mapped, klin, kdma, files, asked, dmaFailed>> /\ nextHandle' = nextHandle + 1
  BY DEF UserAlloc, NewHandle, hist
<1>3. h["usermode"] = 0 /\ "usermode" \in Made
  BY MadeNames DEF Raised, ChanObj, Channel
<1>4. CASE objs' = objs /\ NextTry("userAlloc", TearDown)
  <2>1. OnlyAt("usermode")
    BY <1>2, <1>4 DEF OnlyAt, SameObj, SameMem, Exists, lib
  <2>2. Raised(12)' /\ Tries' = Tries
    BY <1>2, <2>1, TryRaised
  <2>3. PhaseInv' /\ ~Trial'
    BY <1>4, <2>2, TryGoesOn
  <2> QED
    BY <1>1, <1>2, <1>4, <2>3, TryFailed DEF kernel
<1>5. CASE objs' = objs \cup {Obj(At, nextHandle, Parent)} /\ Then("userMap")
  <2>1. todo' = <<CallN("userMap", "usermode", n)>> \o Rest(BringUp, 13)
    BY <1>1, <1>5 DEF Then
  <2>2. Trial' /\ At' = "usermode"
    BY <1>1, <2>1, TryFront DEF Trial, At
  <2>3. Parent = "device" \/ (Parent = "subdevice" /\ h["subdevice"] # 0)
    BY <1>1, ClassAssumption DEF Parent, Tries
  <2>4. Basis' /\ OnlyAt("usermode") /\ Exists("usermode")'
    BY <1>1, <1>2, <1>3, <1>5, <2>2, <2>3, TryBegun
  <2>5. Raised(12)' /\ Tries' = Tries
    BY <1>2, <2>4, TryRaised
  <2>6. \E p \in {"userAlloc", "userMap"}, k \in (1..Tries)' : TryAt(p, k)' /\ Raised(12)' /\ Doorbell
                                                              /\ (p = "userMap" => Exists("usermode")')
    BY <2>1, <2>4, <2>5 DEF TryAt
  <2> QED
    BY <2>4, <2>6, Zenon DEF PhaseInv
<1> QED
  BY <1>4, <1>5 DEF UserAlloc

\* The object of a try is mapped and kept, or it is freed again.
LEMMA TryMaps ==
  ASSUME Basis, NEW n \in 1..Tries, TryAt("userMap", n), Raised(12), Doorbell, Exists("usermode"), UserMap
  PROVE  Basis' /\ PhaseInv'
<1>1. At = "usermode" /\ Head(todo).n = n /\ Tail(todo) = Rest(BringUp, 13) /\ Trial /\ n \in Nat
  BY TryHead, ClassAssumption DEF Tries
<1>2. UNCHANGED <<rm, attempted, ready, va, fd, size, nextHandle, kdma, files, asked, dmaFailed>>
  BY DEF UserMap, hist
<1>3. /\ "usermode" \in Made /\ "usermode" \in ChanObj /\ "usermode" \in Object /\ "usermode" \in Memory
      /\ "usermode" \in Channel
  BY MadeNames, Names DEF ChanObj, Channel
<1>4. CASE objs' = Without(nextHandle - 1) /\ NextTry("userAlloc", TearDown) /\ UNCHANGED <<h, under, cpu, lin, mapped, klin>>
  <2>1. UNCHANGED <<lib, nextHandle, mapped, klin, kdma, files, asked, dmaFailed>>
    BY <1>2, <1>4 DEF lib
  <2>2. ~Trial'
    <3>1. TearDown = Rest(TearDown, 1) /\ ~Tried(Rest(TearDown, 1))
      BY RestEnds, Operations, Untried
    <3>2. n > 1 => ~Tried(<<CallN("userAlloc", "usermode", n - 1)>> \o Rest(BringUp, 13))
      BY <1>1, TryFront
    <3>3. todo' = TearDown \/ (n > 1 /\ todo' = <<CallN("userAlloc", "usermode", n - 1)>> \o Rest(BringUp, 13))
      BY <1>1, <1>4 DEF NextTry
    <3> QED
      BY <3>1, <3>2, <3>3 DEF Trial
  <2>3. Basis' /\ OnlyAt("usermode")
    BY <1>1, <1>3, <1>4, <2>1, <2>2, TryDropped
  <2>4. Raised(12)' /\ Tries' = Tries
    BY <2>1, <2>3, TryRaised
  <2> QED
    BY <1>4, <2>3, <2>4, TryGoesOn
<1>5. CASE /\ h' = [h EXCEPT !["usermode"] = nextHandle - 1] /\ under' = Parent
           /\ cpu' = [cpu EXCEPT !["usermode"] = 1] /\ lin' = [lin EXCEPT !["usermode"] = TRUE]
           /\ mapped' = [mapped EXCEPT !["usermode"] = 1] /\ klin' = klin \cup {nextHandle - 1}
           /\ objs' = objs /\ Done
  <2>1. todo' = Rest(BringUp, 13) /\ ~Trial'
    <3>1. ~Tried(Rest(BringUp, 13))
      BY Untried
    <3> QED
      BY <1>1, <1>5, <3>1 DEF Trial, Done
  <2>2. under' \in {"device", "subdevice"} /\ (under' = "subdevice" => h["subdevice"] # 0)
    BY <1>1, <1>5, ClassAssumption DEF Parent, Tries
  <2>3. /\ Basis' /\ OnlyAt("usermode") /\ h'["usermode"] = nextHandle - 1 /\ h'["usermode"] # 0
        /\ nextHandle - 1 \notin klin \cup kdma
    BY <1>1, <1>2, <1>3, <1>5, <2>1, <2>2, TryKept
  <2>4. (\A o : Exists(o)' <=> Exists(o)) /\ \A op, at : ~Did(TearDown, 1, op, at)
    BY <1>5 DEF Exists, Did
  <2>5. /\ lin'["usermode"] /\ cpu'["usermode"] = 1 /\ mapped'["usermode"] = 1 /\ h'["usermode"] \in klin'
        /\ h'["usermode"] \notin kdma' /\ \A o \in Object \ {"usermode"} : h'[o] = h[o]
        /\ \A m \in Memory \ {"usermode"} : lin'[m] = lin[m]
    BY <1>2, <1>3, <1>5, <2>3 DEF Basis, TypeInv
  <2>6. BaseUp' /\ NoBufs'
    BY <1>2, <1>3, <2>3, BaseKept, BufsKept DEF Raised
  <2>7. ChanMem(1)'
    <3> SUFFICES ASSUME NEW m \in Channel
                 PROVE  /\ MemOk(m, Pg(m), FALSE, FALSE, FALSE, Left(m))'
                        /\ va'[m] => m \in {"notifier", "gpfifo"} /\ h'["vaspace"] # 0
                        /\ size'[m] = IF m = "gpfifo" /\ va'[m] THEN Pages ELSE 0
      BY <2>4 DEF ChanMem, MemOk
    <3>1. /\ MemOk(m, Pg(m), FALSE, FALSE, FALSE, Left(m))
          /\ va[m] => m \in {"notifier", "gpfifo"} /\ h["vaspace"] # 0
          /\ size[m] = IF m = "gpfifo" /\ va[m] THEN Pages ELSE 0
      BY <2>4 DEF Raised, Chan, ChanMem, MemOk
    <3>2. h'["vaspace"] = h["vaspace"]
      BY <2>5, Names
    <3>3. CASE m = "usermode"
      BY <1>2, <2>3, <2>4, <2>5, <3>1, <3>2, <3>3 DEF MemOk, Pg
    <3>4. CASE m # "usermode"
      <4>1. SameMem(m)
        BY <2>3, <3>4, Names DEF OnlyAt
      <4> QED
        BY <1>2, <3>1, <3>2, <4>1 DEF MemOk, SameMem, SameObj
    <3> QED
      BY <3>3, <3>4
  <2>8. ChanObjs(1)'
    BY <1>2, <2>4 DEF Raised, Chan, ChanObjs
  <2>9. Raised(13)'
    <3>1. \A op, at : op # "usermode" => (Did(BringUp, 13, op, at) <=> Did(BringUp, 12, op, at))
      BY RaiseDid, BringUpOrder
    <3>2. \A o \in ChanObj \ {"usermode"} : h'[o] = h[o]
      BY <2>5, MadeNames
    <3>3. \A m \in Channel \ {"usermode"} : lin'[m] = lin[m]
      BY <2>5, Names
    <3> QED
      BY <1>2, <2>2, <2>4, <2>5, <2>6, <2>7, <2>8, <3>1, <3>2, <3>3 DEF Raised, Making, Chan
  <2>10. PhaseInv'
    <3>1. RaiseAt(13)'
      BY <2>1 DEF RaiseAt
    <3> QED
      BY <2>9, <3>1 DEF PhaseInv
  <2> QED
    BY <2>3, <2>10
<1> QED
  BY <1>1, <1>4, <1>5 DEF UserMap

\* What the calls of the clean-up did, when one more is made.
LEMMA LowerDid ==
  ASSUME NEW j \in 1..15
  PROVE  \A op, at : Did(TearDown, j + 1, op, at) <=>
                       Did(TearDown, j, op, at) \/ (TearDown[j].op = op /\ TearDown[j].at = at)
<1>1. j \in Nat \ {0}
  OBVIOUS
<1> QED
  BY <1>1, DidStep

\* The next call of the clean-up.
LEMMA LowerGoesOn ==
  ASSUME NEW j \in 1..14, LowerAt(j), todo' = Tail(todo), Lowered(j + 1)' PROVE PhaseInv'
<1>1. j + 1 \in 1..15 /\ LowerAt(j + 1)'
  BY LowerHead, SMTT(30) DEF LowerAt
<1> QED
  BY <1>1 DEF PhaseInv

\* A clean-up tries nothing.
LEMMA LowerUntried ==
  ASSUME NEW j \in 1..15, LowerAt(j), todo' = Tail(todo) PROVE ~Trial'
<1>1. todo' = Rest(TearDown, j + 1) /\ (j = 15 => todo' = <<>>)
  BY LowerHead
<1>2. ~Tried(<<>>) /\ (j # 15 => ~Tried(Rest(TearDown, j + 1)))
  BY Untried
<1> QED
  BY <1>1, <1>2 DEF Trial

\* The clean-up frees an object, or nothing when there is none.
LEMMA LowerFrees ==
  ASSUME Basis, NEW j \in 1..15, LowerAt(j), Lowered(j), FreeObject
  PROVE  Basis' /\ PhaseInv'
<1> DEFINE c == TearDown[j]
           x == TearDown[j].at
<1>1. At = x /\ Head(todo) = c /\ ~Trial
  BY LowerHead
<1>2. c.op = "free"
  BY <1>1 DEF FreeObject, Doing
<1>3. /\ j \in 1..14 /\ x \in ChanObj \cup {"compute"}
      /\ x = "notifier" => Did(TearDown, j, "free", "ctxdma")
      /\ x \in {"vaspace", "ctxdma", "userd", "gpfifo"} => Did(TearDown, j, "free", "channel")
  BY <1>2, TearDownOrder
<1>4. x \in Made
  BY <1>3, MadeNames
<1>5. objs' = Without(h[x]) /\ UNCHANGED <<lib, nextHandle, mapped, klin, kdma, files, asked, dmaFailed>>
  BY <1>1 DEF FreeObject, hist
<1>6. todo' = Tail(todo) /\ ~Trial'
  BY LowerUntried DEF FreeObject, Done
<1>7. Basis' /\ OnlyAt(x) /\ ~Exists(x)'
  BY <1>1, <1>4, <1>5, <1>6, Freed
<1>8. \A op, at : Did(TearDown, j + 1, op, at) <=> Did(TearDown, j, op, at) \/ (c.op = op /\ c.at = at)
  BY LowerDid
<1>9. (\A o \in ChanObj : Exists(o)' => Exists(o)) /\ \A o \in ChanObj \ {x} : Exists(o)' <=> Exists(o)
  BY <1>7, MadeNames DEF OnlyAt, SameObj
<1>10. BaseUp'
  BY <1>4, <1>5, <1>7, BaseKept DEF Lowered, lib
<1>11. NoBufs'
  <2>1. CASE x \in ChanObj
    BY <1>7, <2>1, BufsKept DEF Lowered
  <2>2. CASE x = "compute"
    <3>1. \A b \in Buf : b \in Object \ {x} /\ b # "gpfifo"
      BY <2>2, Names DEF Channel
    <3>2. \A b \in Buf : ~Exists(b)'
      BY <1>7, <3>1 DEF OnlyAt, SameObj, Lowered, NoBufs, Nothing, Absent
    <3> QED
      BY <1>5, <1>7, <2>2, <3>1, <3>2 DEF Lowered, NoBufs, Nothing, Absent, Left, lib
  <2> QED
    BY <1>3, <2>1, <2>2
<1>12. ChanMem(j + 1)'
  <2> SUFFICES ASSUME NEW m \in Channel
               PROVE  /\ MemOk(m, Pg(m), Did(TearDown, j + 1, "free", m), Did(TearDown, j + 1, "unmapCpu", m),
                               Did(TearDown, j + 1, "unmapDma", m), Left(m))'
                      /\ va'[m] => m \in {"notifier", "gpfifo"} /\ h'["vaspace"] # 0
                      /\ size'[m] = IF m = "gpfifo" /\ va'[m] THEN Pages ELSE 0
    BY DEF ChanMem
  <2>1. /\ MemOk(m, Pg(m), Did(TearDown, j, "free", m), Did(TearDown, j, "unmapCpu", m),
                 Did(TearDown, j, "unmapDma", m), Left(m))
        /\ va[m] => m \in {"notifier", "gpfifo"} /\ h["vaspace"] # 0
        /\ size[m] = IF m = "gpfifo" /\ va[m] THEN Pages ELSE 0
    BY DEF Lowered, Chan, ChanMem
  <2>2. m \in ChanObj
    BY DEF ChanObj
  <2> QED
    BY <1>2, <1>5, <1>8, <1>9, <2>1, <2>2 DEF MemOk, Left, lib
<1>13. ChanObjs(j + 1)'
  <2>1. \A o \in ChanObj : Exists(o)' => ~Did(TearDown, j + 1, "free", o)
    BY <1>2, <1>7, <1>8, <1>9 DEF Lowered, Chan, ChanObjs
  <2>2. (\E m \in Channel : va'[m]) => Exists("vaspace")' \/ Did(TearDown, j + 1, "free", "vaspace")
    BY <1>2, <1>5, <1>8, <1>9 DEF Lowered, Chan, ChanObjs, lib, ChanObj
  <2>3. Exists("ctxdma")' => Exists("notifier")'
    BY <1>3, <1>9 DEF Lowered, Chan, ChanObjs, ChanObj, Channel
  <2>4. Exists("channel")' =>
           Exists("vaspace")' /\ Exists("ctxdma")' /\ Exists("userd")' /\ Exists("gpfifo")' /\ va'["gpfifo"]
    BY <1>3, <1>5, <1>9 DEF Lowered, Chan, ChanObjs, ChanObj, Channel, lib
  <2> QED
    BY <2>1, <2>2, <2>3, <2>4 DEF ChanObjs
<1>14. Lowered(j + 1)'
  BY <1>5, <1>10, <1>11, <1>12, <1>13 DEF Lowered, Chan, lib
<1> QED
  BY <1>3, <1>6, <1>7, <1>14, LowerGoesOn

\* The clean-up unmaps a memory of the channel from the process.
LEMMA LowerUnmapsCpu ==
  ASSUME Basis, NEW j \in 1..15, LowerAt(j), Lowered(j), UnmapCpu
  PROVE  Basis' /\ PhaseInv'
<1> DEFINE c == TearDown[j]
           x == TearDown[j].at
<1>1. At = x /\ Head(todo) = c /\ ~Trial
  BY LowerHead
<1>2. c.op = "unmapCpu"
  BY <1>1 DEF UnmapCpu, Doing
<1>3. j \in 1..14 /\ x \in Channel /\ ~Did(TearDown, j, "unmapCpu", x) /\ ~Did(TearDown, j, "free", x)
  BY <1>2, TearDownOrder
<1>4. x \in Made /\ x \in Memory /\ x \in ChanObj
  BY <1>3, MadeNames, Names DEF ChanObj
<1>5. /\ mapped' = IF cpu[x] # 0 THEN [mapped EXCEPT ![x] = @ - (IF size[x] # 0 THEN size[x] ELSE 1)] ELSE mapped
      /\ klin' = IF h[x] # 0 /\ lin[x] THEN klin \ {h[x]} ELSE klin
      /\ UNCHANGED <<lib, nextHandle, objs, kdma, files, asked, dmaFailed>>
  BY <1>1 DEF UnmapCpu, hist
<1>6. todo' = Tail(todo) /\ ~Trial'
  BY LowerUntried DEF UnmapCpu, Done
<1>7. /\ MemOk(x, Pg(x), FALSE, FALSE, Did(TearDown, j, "unmapDma", x), Left(x))
      /\ size[x] = IF x = "gpfifo" /\ va[x] THEN Pages ELSE 0
  BY <1>3 DEF Lowered, Chan, ChanMem, MemOk
<1>8. mapped[x] \in Nat /\ Pages \in Nat \ {0}
  BY <1>4, PagesAssumption DEF Basis, TypeInv
<1>9. mapped'[x] = Left(x)
  <2>1. mapped'[x] = IF cpu[x] # 0 THEN mapped[x] - (IF size[x] # 0 THEN size[x] ELSE 1) ELSE mapped[x]
    BY <1>4, <1>5 DEF Basis, TypeInv
  <2>2. x = "gpfifo" => (dmaFailed <=> lin[x] /\ ~va[x])
    BY DEF Lowered
  <2> QED
    BY <1>7, <1>8, <2>1, <2>2 DEF MemOk, Left, Pg
<1>10. Left(x) \in Nat
  BY <1>8 DEF Left
<1>11. mapped' \in [Memory -> Nat] /\ \A m \in Memory \ {x} : mapped'[m] = mapped[m]
  BY <1>4, <1>5, <1>9, <1>10 DEF Basis, TypeInv
<1>12. Basis' /\ OnlyAt(x) /\ (Exists(x)' <=> Exists(x))
  <2>1. /\ klin' \in {klin, klin \cup {h[x]}, klin \ {h[x]}} /\ klin' \subseteq klin /\ kdma' \subseteq kdma
        /\ kdma' \in {kdma, kdma \cup {h[x]}, kdma \ {h[x]}}
        /\ UNCHANGED <<rm, attempted, ready, h, fd, under, nextHandle, objs, files, asked>>
    BY <1>5 DEF lib
  <2>2. /\ cpu' \in [Memory -> Nat] /\ size' \in [Memory -> Nat] /\ mapped' \in [Memory -> Nat]
        /\ lin' \in [Memory -> BOOLEAN] /\ va' \in [Memory -> BOOLEAN]
        /\ \A m \in Memory \ {x} : /\ cpu'[m] = cpu[m] /\ size'[m] = size[m] /\ mapped'[m] = mapped[m]
                                   /\ lin'[m] = lin[m] /\ va'[m] = va[m]
    BY <1>5, <1>11 DEF lib, Basis, TypeInv
  <2> QED
    BY <1>1, <1>4, <1>6, <2>1, <2>2, Remapped
<1>13. \A op, at : Did(TearDown, j + 1, op, at) <=> Did(TearDown, j, op, at) \/ (c.op = op /\ c.at = at)
  BY LowerDid
<1>14. \A o : Exists(o)' <=> Exists(o)
  BY <1>5 DEF Exists
<1>15. BaseUp' /\ NoBufs'
  BY <1>4, <1>5, <1>12, BaseKept, BufsKept DEF Lowered, lib
<1>16. ChanMem(j + 1)'
  <2> SUFFICES ASSUME NEW m \in Channel
               PROVE  /\ MemOk(m, Pg(m), Did(TearDown, j + 1, "free", m), Did(TearDown, j + 1, "unmapCpu", m),
                               Did(TearDown, j + 1, "unmapDma", m), Left(m))'
                      /\ va'[m] => m \in {"notifier", "gpfifo"} /\ h'["vaspace"] # 0
                      /\ size'[m] = IF m = "gpfifo" /\ va'[m] THEN Pages ELSE 0
    BY DEF ChanMem
  <2>1. /\ MemOk(m, Pg(m), Did(TearDown, j, "free", m), Did(TearDown, j, "unmapCpu", m),
                 Did(TearDown, j, "unmapDma", m), Left(m))
        /\ va[m] => m \in {"notifier", "gpfifo"} /\ h["vaspace"] # 0
        /\ size[m] = IF m = "gpfifo" /\ va[m] THEN Pages ELSE 0
    BY DEF Lowered, Chan, ChanMem
  <2>2. CASE m = x
    BY <1>2, <1>3, <1>5, <1>9, <1>13, <1>14, <2>1, <2>2 DEF MemOk, Left, lib
  <2>3. CASE m # x
    <3>1. SameMem(m)
      BY <1>12, <2>3, Names DEF OnlyAt
    <3> QED
      BY <1>2, <1>5, <1>13, <1>14, <2>1, <2>3, <3>1 DEF MemOk, Left, lib, SameMem, SameObj
  <2> QED
    BY <2>2, <2>3
<1>17. ChanObjs(j + 1)'
  BY <1>2, <1>5, <1>13, <1>14 DEF Lowered, Chan, ChanObjs, lib
<1>18. Lowered(j + 1)'
  BY <1>5, <1>15, <1>16, <1>17 DEF Lowered, Chan, lib
<1> QED
  BY <1>3, <1>6, <1>12, <1>18, LowerGoesOn

\* The clean-up unmaps a memory of the channel from the GPU.
LEMMA LowerUnmapsDma ==
  ASSUME Basis, NEW j \in 1..15, LowerAt(j), Lowered(j), UnmapDma
  PROVE  Basis' /\ PhaseInv'
<1> DEFINE c == TearDown[j]
           x == TearDown[j].at
<1>1. At = x /\ Head(todo) = c /\ ~Trial
  BY LowerHead
<1>2. c.op = "unmapDma"
  BY <1>1 DEF UnmapDma, Doing
<1>3. /\ j \in 1..14 /\ x \in {"notifier", "gpfifo"} /\ ~Did(TearDown, j, "unmapDma", x)
      /\ ~Did(TearDown, j, "free", x)
  BY <1>2, TearDownOrder
<1>4. x \in Made /\ x \in Memory /\ x \in ChanObj /\ x \in Channel
  BY <1>3, MadeNames, Names DEF ChanObj, Channel
<1>5. /\ kdma' = IF h["vaspace"] # 0 /\ h[x] # 0 /\ va[x] THEN kdma \ {h[x]} ELSE kdma
      /\ UNCHANGED <<lib, nextHandle, objs, mapped, klin, files, asked, dmaFailed>>
  BY <1>1 DEF UnmapDma, hist
<1>6. todo' = Tail(todo) /\ ~Trial'
  BY LowerUntried DEF UnmapDma, Done
<1>7. /\ MemOk(x, Pg(x), Did(TearDown, j, "free", x), Did(TearDown, j, "unmapCpu", x), FALSE, Left(x))
      /\ va[x] => h["vaspace"] # 0
  BY <1>3, <1>4 DEF Lowered, Chan, ChanMem, MemOk
<1>8. h[x] \notin kdma'
  BY <1>5, <1>7 DEF MemOk
<1>12. Basis' /\ OnlyAt(x) /\ (Exists(x)' <=> Exists(x))
  <2>1. /\ klin' \in {klin, klin \cup {h[x]}, klin \ {h[x]}} /\ klin' \subseteq klin /\ kdma' \subseteq kdma
        /\ kdma' \in {kdma, kdma \cup {h[x]}, kdma \ {h[x]}}
        /\ UNCHANGED <<rm, attempted, ready, h, fd, under, nextHandle, objs, files, asked>>
    BY <1>5 DEF lib
  <2>2. /\ cpu' \in [Memory -> Nat] /\ size' \in [Memory -> Nat] /\ mapped' \in [Memory -> Nat]
        /\ lin' \in [Memory -> BOOLEAN] /\ va' \in [Memory -> BOOLEAN]
        /\ \A m \in Memory \ {x} : /\ cpu'[m] = cpu[m] /\ size'[m] = size[m] /\ mapped'[m] = mapped[m]
                                   /\ lin'[m] = lin[m] /\ va'[m] = va[m]
    BY <1>5 DEF lib, Basis, TypeInv
  <2> QED
    BY <1>1, <1>4, <1>6, <2>1, <2>2, Remapped
<1>13. \A op, at : Did(TearDown, j + 1, op, at) <=> Did(TearDown, j, op, at) \/ (c.op = op /\ c.at = at)
  BY LowerDid
<1>14. \A o : Exists(o)' <=> Exists(o)
  BY <1>5 DEF Exists
<1>15. BaseUp' /\ NoBufs'
  BY <1>4, <1>5, <1>12, BaseKept, BufsKept DEF Lowered, lib
<1>16. ChanMem(j + 1)'
  <2> SUFFICES ASSUME NEW m \in Channel
               PROVE  /\ MemOk(m, Pg(m), Did(TearDown, j + 1, "free", m), Did(TearDown, j + 1, "unmapCpu", m),
                               Did(TearDown, j + 1, "unmapDma", m), Left(m))'
                      /\ va'[m] => m \in {"notifier", "gpfifo"} /\ h'["vaspace"] # 0
                      /\ size'[m] = IF m = "gpfifo" /\ va'[m] THEN Pages ELSE 0
    BY DEF ChanMem
  <2>1. /\ MemOk(m, Pg(m), Did(TearDown, j, "free", m), Did(TearDown, j, "unmapCpu", m),
                 Did(TearDown, j, "unmapDma", m), Left(m))
        /\ va[m] => m \in {"notifier", "gpfifo"} /\ h["vaspace"] # 0
        /\ size[m] = IF m = "gpfifo" /\ va[m] THEN Pages ELSE 0
    BY DEF Lowered, Chan, ChanMem
  <2>2. CASE m = x
    BY <1>2, <1>3, <1>5, <1>8, <1>13, <1>14, <2>1, <2>2 DEF MemOk, Left, lib
  <2>3. CASE m # x
    <3>1. SameMem(m)
      BY <1>12, <2>3, Names DEF OnlyAt
    <3> QED
      BY <1>2, <1>5, <1>13, <1>14, <2>1, <2>3, <3>1 DEF MemOk, Left, lib, SameMem, SameObj
  <2> QED
    BY <2>2, <2>3
<1>17. ChanObjs(j + 1)'
  BY <1>2, <1>5, <1>13, <1>14 DEF Lowered, Chan, ChanObjs, lib
<1>18. Lowered(j + 1)'
  BY <1>5, <1>15, <1>16, <1>17 DEF Lowered, Chan, lib
<1> QED
  BY <1>3, <1>6, <1>12, <1>18, LowerGoesOn

\* The clean-up ends: the library forgets the channel, which is not there any more.
LEMMA LowerEnds ==
  ASSUME Basis, NEW j \in 1..15, LowerAt(j), Lowered(j), Reset
  PROVE  Basis' /\ PhaseInv'
<1>1. Head(todo) = TearDown[j] /\ ~Trial /\ (j = 15 => Tail(todo) = <<>>)
  BY LowerHead
<1>2. j = 15
  BY <1>1, TearDownOrder DEF Reset, Doing
<1>3. /\ todo' = <<>> /\ under' = "none" /\ ready' = FALSE
      /\ UNCHANGED <<rm, attempted, nextHandle, objs, mapped, klin, kdma, asked, dmaFailed>>
      /\ h' = [o \in Object |-> IF o \in Buf \cup Base THEN h[o] ELSE 0]
      /\ cpu' = [m \in Memory |-> IF m \in Channel THEN 0 ELSE cpu[m]]
      /\ lin' = [m \in Memory |-> m \notin Channel /\ lin[m]]
      /\ va' = [m \in Memory |-> m \notin Channel /\ va[m]]
      /\ size' = [m \in Memory |-> IF m \in Channel THEN 0 ELSE size[m]]
      /\ files' = files \ {m \in Channel : fd[m]}
      /\ fd' = [m \in Memory |-> m \notin Channel /\ fd[m]]
  BY <1>1, <1>2 DEF Reset, Forget, Done, hist, Base
<1>4. ~Trial'
  BY <1>3, Untried DEF Trial
<1>5. /\ \A o \in ChanObj : ~Exists(o)
      /\ \A m \in Channel : /\ h[m] \notin klin /\ h[m] \notin kdma
                            /\ mapped[m] = Left(m) /\ (fd[m] <=> m \in files)
  <2>1. /\ \A o \in ChanObj : Did(TearDown, j, "free", o)
        /\ \A m \in Channel : Did(TearDown, j, "unmapCpu", m)
        /\ \A m \in {"notifier", "gpfifo"} : Did(TearDown, j, "unmapDma", m)
    BY <1>2, TearDownOrder
  <2>2. \A o \in ChanObj : ~Exists(o)
    BY <2>1 DEF Lowered, Chan, ChanObjs
  <2>3. ASSUME NEW m \in Channel
        PROVE h[m] \notin klin /\ h[m] \notin kdma /\ mapped[m] = Left(m) /\ (fd[m] <=> m \in files)
    BY <2>1 DEF Lowered, Chan, ChanMem, MemOk
  <2> QED
    BY <2>2, <2>3
<1>6. klin = {} /\ kdma = {}
  <2>1. \A k \in klin \cup kdma : k # 0 /\ \E m \in Memory : h[m] = k
    BY DEF Basis, MapInv
  <2>2. \A b \in Buf : h[b] = 0
    BY DEF Lowered, NoBufs, Nothing, Absent
  <2> QED
    BY <1>5, <2>1, <2>2, Names
<1>7. Made \subseteq ChanObj \cup Buf \cup {"compute"} /\ ChanObj \cap Base = {} /\ "compute" \notin Buf \cup Base
  BY BufAssumption DEF Made, Object, Memory, ChanObj, Channel, Base
<1>8. /\ \A o \in Made : h'[o] = 0 /\ ~Exists(o) /\ ~Exists(o)'
      /\ \A o \in Base : h'[o] = h[o]
      /\ \A o : Exists(o)' <=> Exists(o)
  <2>1. \A o : Exists(o)' <=> Exists(o)
    BY <1>3 DEF Exists
  <2>2. \A b \in Buf : h[b] = 0 /\ ~Exists(b)
    BY DEF Lowered, NoBufs, Nothing, Absent
  <2>3. h["compute"] = 0 /\ ~Exists("compute")
    BY DEF Lowered, NoBufs
  <2>4. Base \subseteq Object /\ Made \subseteq Object /\ \A o \in Made : o \notin Base
    BY Names DEF Base, Made
  <2> QED
    BY <1>3, <1>5, <1>7, <2>1, <2>2, <2>3, <2>4
<1>9. \A m \in Channel : /\ cpu'[m] = 0 /\ ~lin'[m] /\ ~va'[m] /\ size'[m] = 0 /\ ~fd'[m] /\ m \notin files'
                         /\ mapped'[m] = Left(m)'
  BY <1>3, <1>5, Names DEF Left
<1>10. \A b \in Buf : /\ cpu'[b] = 0 /\ ~lin'[b] /\ ~va'[b] /\ size'[b] = 0 /\ ~fd'[b] /\ b \notin files'
                      /\ mapped'[b] = Left(b)'
  BY <1>3, Names DEF Lowered, NoBufs, Nothing, Absent, Left, Channel
<1>11. Bare'
  <2>1. \A m \in Memory : h'[m] = 0 /\ ~Exists(m)'
    BY <1>8, MadeNames
  <2>2. \A m \in Memory : Nothing(m)'
    BY <1>9, <1>10, <2>1, Names DEF Nothing, Absent
  <2> QED
    BY <1>3, <1>8, <2>2 DEF Bare
<1>12. BaseUp'
  BY <1>3, <1>8 DEF Lowered, BaseUp, Base
<1>13. TypeInv'
  <2>1. h' \in [Object -> Nat] /\ cpu' \in [Memory -> Nat] /\ size' \in [Memory -> Nat]
    BY <1>3, Names DEF Basis, TypeInv
  <2>2. lin' \in [Memory -> BOOLEAN] /\ va' \in [Memory -> BOOLEAN] /\ fd' \in [Memory -> BOOLEAN]
    <3>1. \A m \in Memory : ~lin'[m] /\ ~va'[m] /\ ~fd'[m]
      BY <1>9, <1>10, Names
    <3> QED
      BY <1>3, <3>1
  <2> QED
    BY <1>3, <2>1, <2>2 DEF Basis, TypeInv
<1>14. HandleInv' /\ UnderInv'
  BY <1>3, <1>8 DEF Basis, HandleInv, UnderInv
<1>15. ObjInv'
  <2> SUFFICES ASSUME NEW o \in objs PROVE o.at \in Object /\ OwnHandle(o)' /\ ParentOk(o)'
    BY <1>3, <1>4 DEF ObjInv
  <2>1. o.at \in Object /\ OwnHandle(o) /\ ParentOk(o) /\ o.at \notin Made
    BY <1>8 DEF Basis, ObjInv, Exists
  <2>2. o.at \in Base
    BY <2>1 DEF Made
  <2> QED
    BY <1>8, <2>1, <2>2 DEF OwnHandle, ParentOk, Base
<1>16. MapInv'
  BY <1>3, <1>6 DEF Basis, MapInv
<1> QED
  <2>1. Basis'
    BY <1>13, <1>14, <1>15, <1>16 DEF Basis
  <2>2. attempted'
    BY <1>3 DEF Lowered
  <2>3. PhaseInv'
    BY <1>3, <1>11, <1>12, <2>2, Zenon DEF PhaseInv
  <2> QED
    BY <2>1, <2>3

\* rm_init_locked makes no objects but the three it names.
LEMMA StartBasis ==
  ASSUME Basis, ~Trial, ~Trial', Bare,
         objs' \subseteq objs \cup {Obj("client", 1, "none"), Obj("device", 2, "client"), Obj("subdevice", 3, "device")},
         UNCHANGED <<lib, nextHandle, mapped, klin, kdma, files, asked, dmaFailed>>
  PROVE  Basis' /\ Bare'
<1>1. ASSUME NEW o \in objs'
      PROVE  \/ o \in objs
             \/ o.at = "client" /\ o.h = 1 /\ o.parent = "none"
             \/ o.at = "device" /\ o.h = 2 /\ o.parent = "client"
             \/ o.at = "subdevice" /\ o.h = 3 /\ o.parent = "device"
  BY DEF Obj
<1>2. TypeInv' /\ HandleInv' /\ MapInv' /\ UnderInv'
  <2>1. {Obj("client", 1, "none"), Obj("device", 2, "client"), Obj("subdevice", 3, "device")}
          \subseteq [at : Object, h : Nat, parent : Object \cup {"none"}]
    BY Names DEF Obj
  <2> QED
    BY <2>1 DEF Basis, TypeInv, HandleInv, MapInv, UnderInv, lib
<1>3. ObjInv'
  <2> SUFFICES ASSUME NEW o \in objs' PROVE o.at \in Object /\ OwnHandle(o)' /\ ParentOk(o)'
    BY DEF ObjInv
  <2>1. CASE o \in objs
    BY <2>1 DEF Basis, ObjInv, OwnHandle, ParentOk, lib
  <2>2. CASE o \notin objs
    BY <1>1, <2>2, Names DEF OwnHandle, ParentOk, Base, BaseHandle
  <2> QED
    BY <2>1, <2>2
<1>4. \A o \in Made : ~Exists(o)'
  <2>1. \A o \in objs' : o.at \notin Made
    BY <1>1 DEF Bare, Exists, Made, Base
  <2> QED
    BY <2>1 DEF Exists
<1>5. Bare'
  BY <1>4, MadeNames DEF Bare, Nothing, Absent, Left, lib
<1> QED
  BY <1>2, <1>3, <1>5 DEF Basis

\* The objects there are while rm_init_locked runs.
LEMMA StartObjects ==
  ASSUME Basis, ~Trial, Bare, NEW o \in objs
  PROVE  \/ o.at = "client" /\ o.h = 1
         \/ o.at = "device" /\ o.h = 2
         \/ o.at = "subdevice" /\ o.h = 3
<1>1. o.at \in Object /\ OwnHandle(o) /\ o.at \notin Made
  BY DEF Basis, ObjInv, Bare, Exists
<1> QED
  BY <1>1 DEF OwnHandle, Made, Base, BaseHandle

\* The next call of rm_init_locked.
LEMMA StartGoesOn ==
  ASSUME NEW i \in 1..4, InitAt(i), todo' = Tail(todo), Started(i + 1)' PROVE PhaseInv'
<1>1. i + 1 \in 1..5 /\ InitAt(i + 1)'
  BY InitHead DEF InitAt
<1> QED
  BY <1>1 DEF PhaseInv

\* RM is not available.
LEMMA StartFails ==
  ASSUME todo' = <<>>, Bare', objs' = {}, rm = "failed", ~dmaFailed, \A o \in Base : h[o] = 0,
         UNCHANGED <<rm, h, dmaFailed>>
  PROVE  PhaseInv'
BY Zenon DEF PhaseInv, BaseDown

\* A call of rm_init_locked.
LEMMA StartStep ==
  ASSUME Basis, NEW i \in 1..5, InitAt(i), Started(i), Query \/ Root \/ Device \/ Subdevice
  PROVE  Basis' /\ PhaseInv'
<1>1. Head(todo) = RmInit[i] /\ ~Trial /\ Tail(todo) = Rest(RmInit, i + 1)
  BY InitHead
<1>2. i \in 1..4 /\ i + 1 \in 1..5
  BY <1>1, ShortCalls DEF Query, Root, Device, Subdevice, Doing
<1>3. /\ Bare /\ rm = "failed" /\ ~attempted /\ ~dmaFailed /\ \A o \in Base : h[o] = 0
      /\ (Exists("client") <=> i > 2) /\ (Exists("device") <=> i > 3) /\ (Exists("subdevice") => i > 4)
  BY DEF Started
<1>4. UNCHANGED <<lib, nextHandle, mapped, klin, kdma, files, asked, dmaFailed>>
  BY DEF Query, Root, Device, Subdevice, kernel, hist
<1>5. (todo' = Tail(todo) \/ todo' = <<>>) /\ ~Trial'
  <2>1. todo' = Tail(todo) \/ todo' = <<>>
    BY DEF Query, Root, Device, Subdevice, Done
  <2>2. ~Tried(<<>>) /\ ~Tried(Rest(RmInit, i + 1))
    BY <1>2, Untried
  <2> QED
    BY <1>1, <2>1, <2>2 DEF Trial
<1>6. \A o \in objs : \/ o.at = "client" /\ o.h = 1 /\ i > 2
                      \/ o.at = "device" /\ o.h = 2 /\ i > 3
  BY <1>1, <1>2, <1>3, StartObjects DEF Exists
<1>7. ASSUME objs' \subseteq objs \cup {Obj("client", 1, "none"), Obj("device", 2, "client"), Obj("subdevice", 3, "device")},
             todo' = <<>>, objs' = {}
      PROVE  Basis' /\ PhaseInv'
  <2>1. Basis' /\ Bare'
    BY <1>1, <1>3, <1>4, <1>5, <1>7, StartBasis
  <2> QED
    BY <1>3, <1>4, <1>7, <2>1, StartFails DEF lib
<1>8. ASSUME objs' \subseteq objs \cup {Obj("client", 1, "none"), Obj("device", 2, "client"), Obj("subdevice", 3, "device")},
             todo' = Tail(todo), Exists("client")' <=> i > 1, Exists("device")' <=> i > 2, Exists("subdevice")' => i > 3
      PROVE  Basis' /\ PhaseInv'
  <2>1. Basis' /\ Bare'
    BY <1>1, <1>3, <1>4, <1>5, <1>8, StartBasis
  <2>2. Started(i + 1)'
    BY <1>2, <1>3, <1>4, <1>8, <2>1 DEF Started, lib
  <2> QED
    BY <1>2, <1>8, <2>1, <2>2, StartGoesOn
<1>9. /\ Obj("client", 1, "none").at = "client" /\ Obj("device", 2, "client").at = "device"
      /\ Obj("subdevice", 3, "device").at = "subdevice"
  BY DEF Obj
<1>10. CASE Query
  <2>1. i = 1 /\ objs' = objs
    BY <1>1, <1>2, <1>10, ShortCalls DEF Query, Doing, kernel
  <2>2. objs = {}
    BY <1>6, <2>1
  <2>3. CASE todo' = <<>>
    BY <1>7, <2>1, <2>2, <2>3
  <2>4. CASE todo' = Tail(todo)
    BY <1>8, <2>1, <2>2, <2>4 DEF Exists
  <2> QED
    BY <1>5, <2>3, <2>4
<1>11. CASE Root
  <2>1. i = 2
    BY <1>1, <1>2, <1>11, ShortCalls DEF Root, Doing
  <2>2. CASE objs' = {} /\ todo' = <<>>
    BY <1>7, <2>2
  <2>3. CASE objs' = {Obj("client", 1, "none")} /\ todo' = Tail(todo)
    BY <1>8, <1>9, <2>1, <2>3 DEF Exists
  <2> QED
    BY <1>11, <2>2, <2>3 DEF Root, Done
<1>12. CASE Device
  <2>1. i = 3
    BY <1>1, <1>2, <1>12, ShortCalls DEF Device, Doing
  <2>2. CASE objs' = Without(1) /\ todo' = <<>>
    <3>1. objs' = {}
      BY <1>6, <2>1, <2>2 DEF Without
    <3> QED
      BY <1>7, <2>2, <3>1
  <2>3. CASE objs' = objs \cup {Obj("device", 2, "client")} /\ todo' = Tail(todo)
    <3>1. Exists("client")' /\ Exists("device")' /\ ~Exists("subdevice")'
      <4>1. Exists("client")
        BY <1>3, <2>1
      <4> QED
        BY <1>6, <1>9, <2>3, <4>1 DEF Exists
    <3> QED
      BY <1>8, <2>1, <2>3, <3>1
  <2> QED
    BY <1>12, <2>2, <2>3 DEF Device, Done
<1>13. CASE Subdevice
  <2>1. i = 4
    BY <1>1, <1>2, <1>13, ShortCalls DEF Subdevice, Doing
  <2>2. objs' \in {objs, objs \cup {Obj("subdevice", 3, "device")}} /\ todo' = Tail(todo)
    BY <1>13 DEF Subdevice, Done
  <2>3. Exists("client")' /\ Exists("device")'
    BY <1>3, <2>1, <2>2 DEF Exists
  <2> QED
    BY <1>8, <2>1, <2>2, <2>3
<1> QED
  BY <1>10, <1>11, <1>12, <1>13

\* RM is up, with or without a subdevice.
LEMMA StartEnds ==
  ASSUME Basis, NEW i \in 1..5, InitAt(i), Started(i), RmReady
  PROVE  Basis' /\ PhaseInv'
<1>1. Head(todo) = RmInit[i] /\ ~Trial /\ (i = 5 => Tail(todo) = <<>>)
  BY InitHead
<1>2. i = 5
  BY <1>1, ShortCalls DEF RmReady, Doing
<1>3. /\ Bare /\ ~attempted /\ ~dmaFailed /\ (\A o \in Base : h[o] = 0)
      /\ Exists("client") /\ Exists("device")
  BY <1>2 DEF Started
<1>4. /\ todo' = <<>> /\ rm' = "ready"
      /\ h' = [h EXCEPT !["client"] = 1, !["device"] = 2, !["subdevice"] = IF Exists("subdevice") THEN 3 ELSE 0]
      /\ UNCHANGED <<attempted, ready, cpu, lin, va, fd, size, under, nextHandle, kernel, asked, dmaFailed>>
  BY <1>1, <1>2 DEF RmReady, Done, hist
<1>5. ~Trial'
  BY <1>4, Untried DEF Trial
<1>6. /\ h' \in [Object -> Nat] /\ h'["client"] = 1 /\ h'["device"] = 2
      /\ h'["subdevice"] = (IF Exists("subdevice") THEN 3 ELSE 0)
      /\ \A o \in Made : h'[o] = h[o]
  <2>1. {"client", "device", "subdevice"} \subseteq Object /\ h \in [Object -> Nat]
    BY Names DEF Basis, TypeInv
  <2> QED
    BY <1>4, <2>1 DEF Made, Base
<1>7. (\A o : Exists(o)' <=> Exists(o))
  BY <1>4 DEF Exists, kernel
<1>8. Basis'
  <2>1. TypeInv'
    BY <1>4, <1>6 DEF Basis, TypeInv, kernel
  <2>2. HandleInv'
    BY <1>4, <1>6, ZenonT(60) DEF Basis, HandleInv, Base, BaseHandle
  <2>3. ObjInv'
    <3> SUFFICES ASSUME NEW o \in objs PROVE o.at \in Object /\ OwnHandle(o)' /\ ParentOk(o)'
      BY <1>4, <1>5 DEF ObjInv, kernel
    <3>1. o.at \in Object /\ OwnHandle(o) /\ ParentOk(o)
      BY DEF Basis, ObjInv
    <3>2. o.at \notin Made
      BY <1>3 DEF Bare, Exists
    <3> QED
      BY <1>3, <3>1, <3>2 DEF OwnHandle, ParentOk, Base, Made
  <2>4. MapInv'
    BY <1>4, <1>6, MadeNames DEF Basis, MapInv, kernel
  <2>5. UnderInv'
    BY <1>3, <1>4 DEF UnderInv, Bare
  <2> QED
    BY <2>1, <2>2, <2>3, <2>4, <2>5 DEF Basis
<1>9. BaseUp'
  BY <1>3, <1>4, <1>6, <1>7 DEF BaseUp
<1>10. Bare'
  BY <1>3, <1>4, <1>6, <1>7, MadeNames DEF Bare, Nothing, Absent, Left, kernel
<1> QED
  BY <1>3, <1>4, <1>8, <1>9, <1>10, Zenon DEF PhaseInv

\* The other buffers do not notice a call about one.
LEMMA OthersKept ==
  ASSUME NEW b \in Buf, Others(b), OnlyAt(b), asked' = asked PROVE Others(b)'
BY SettledKept, Names DEF Others, OnlyAt

\* A release tries nothing.
LEMMA ReleaseUntried ==
  ASSUME NEW b \in Buf PROVE Release(b) = Rest(Release(b), 1) \o <<>> /\ ~Tried(Release(b))
<1>1. Release(b) \in Seq(CallSet) /\ <<>> \in Seq(CallSet)
  BY Operations
<1>2. Rest(Release(b), 1) = Release(b) /\ Release(b) \o <<>> = Release(b)
  BY <1>1, RestEnds, ConcatEmptySeq
<1>3. ~Tried(Rest(Release(b), 1) \o <<>>)
  <2>1. 1 \in 1..4
    OBVIOUS
  <2> QED
    BY <1>1, <2>1, Untried, Zenon
<1> QED
  BY <1>2, <1>3

\* A staging that fails is followed by the release of the buffer.
LEMMA StageFails ==
  ASSUME NEW b \in Buf, todo' = Release(b), Up', Released(b, 1)', Others(b)' PROVE PhaseInv'
<1>1. ReleaseAt(b, 1, <<>>)'
  BY ReleaseUntried DEF ReleaseAt
<1>2. \E i \in 1..4 : \E next \in Continuations(b)' : ReleaseAt(b, i, next)' /\ Up' /\ Released(b, i)' /\ Others(b)'
  BY <1>1 DEF Continuations
<1> QED
  BY <1>2, Zenon DEF PhaseInv

\* The next call of a staging.
LEMMA StageGoesOn ==
  ASSUME NEW b \in Buf, NEW n \in Nat, NEW i \in 1..3, StageAt(b, i, n), todo' = Tail(todo), asked'[b] = n,
         Up', Staged(b, i + 1, n)', Others(b)'
  PROVE  PhaseInv'
<1>1. i + 1 \in 1..4 /\ StageAt(b, i + 1, n)'
  BY StageHead DEF StageAt
<1>2. \E k \in 1..4 : StageAt(b, k, asked[b])' /\ Up' /\ Staged(b, k, asked[b])' /\ Others(b)'
  BY <1>1
<1> QED
  BY <1>2, Zenon DEF PhaseInv

\* A buffer's operation is over.
LEMMA BufsSettle ==
  ASSUME NEW b \in Buf, todo' = <<>>, Up', Settled(b)', Others(b)' PROVE PhaseInv'
<1>1. \A c \in Buf : Settled(c)'
  BY DEF Others
<1> QED
  BY <1>1, Zenon DEF PhaseInv

\* A buffer gets its descriptor, or is left as it is.
LEMMA StageOpens ==
  ASSUME Basis, NEW b \in Buf, NEW n \in Nat, n = asked[b], NEW i \in 1..4, StageAt(b, i, n), Up, Staged(b, i, n),
         Others(b), Open
  PROVE  Basis' /\ PhaseInv' /\ OnlyAt(b)
<1>1. Head(todo) = Stage(b, n)[i] /\ At = b /\ ~Trial /\ Tail(todo) = Rest(Stage(b, n), i + 1)
  BY StageHead
<1>2. i = 1
  BY <1>1 DEF Open, Doing, Stage, Call, CallN
<1>3. UNCHANGED <<rm, attempted, ready, h, cpu, lin, va, size, under, nextHandle, objs, mapped, klin, kdma, asked, dmaFailed>>
  BY DEF Open, hist
<1>4. ~Trial'
  <2>1. Tail(todo) = Rest(Stage(b, n), 2)
    BY <1>1, <1>2
  <2>2. ~Tried(<<>>) /\ ~Tried(Rest(Stage(b, n), 2))
    BY Untried
  <2>3. todo' = <<>> \/ todo' = Tail(todo)
    BY DEF Open, Done
  <2> QED
    BY <2>1, <2>2, <2>3 DEF Trial
<1>5. b \in Memory /\ b \in Made /\ b \notin ChanObj
  BY Names, MadeNames
<1>6. \/ files' = files \cup {b} /\ fd' = [fd EXCEPT ![b] = TRUE] /\ todo' = Tail(todo)
      \/ UNCHANGED <<files, fd>> /\ todo' = <<>>
  BY <1>1 DEF Open, Done
<1>7. OnlyAt(b)
  <2>1. \A m \in Memory \ {b} : fd'[m] = fd[m] /\ (m \in files' <=> m \in files)
    BY <1>6 DEF Basis, TypeInv
  <2> QED
    BY <1>3, <2>1 DEF OnlyAt, SameObj, SameMem, Exists
<1>8. Basis'
  <2>1. files' \subseteq Memory /\ fd' \in [Memory -> BOOLEAN]
    BY <1>5, <1>6 DEF Basis, TypeInv, MapInv
  <2>2. TypeInv' /\ HandleInv' /\ UnderInv'
    BY <1>3, <2>1 DEF Basis, TypeInv, HandleInv, UnderInv
  <2>3. ObjInv'
    BY <1>1, <1>3, <1>4 DEF Basis, ObjInv, OwnHandle, ParentOk
  <2>4. MapInv'
    BY <1>3, <2>1 DEF Basis, MapInv
  <2> QED
    BY <2>2, <2>3, <2>4 DEF Basis
<1>9. Up' /\ Others(b)'
  BY <1>3, <1>7, UpKept, OthersKept
<1>10. CASE files' = files \cup {b} /\ fd' = [fd EXCEPT ![b] = TRUE] /\ todo' = Tail(todo)
  <2>1. fd'[b] /\ b \in files'
    BY <1>5, <1>10 DEF Basis, TypeInv
  <2>2. Staged(b, 2, n)'
    BY <1>2, <1>3, <2>1 DEF Staged, MemOk, Exists
  <2> QED
    BY <1>2, <1>3, <1>7, <1>8, <1>9, <1>10, <2>2, StageGoesOn
<1>11. CASE UNCHANGED <<files, fd>> /\ todo' = <<>>
  <2>1. Settled(b)'
    BY <1>2, <1>3, <1>11, Names DEF Staged, MemOk, Settled, Nothing, Absent, Left, Channel, Exists
  <2> QED
    BY <1>7, <1>8, <1>9, <1>11, <2>1, BufsSettle
<1> QED
  BY <1>6, <1>10, <1>11

\* A buffer gets its memory, or the handle of one that was never made.
LEMMA StageMakes ==
  ASSUME Basis, NEW b \in Buf, NEW n \in Nat, n = asked[b], NEW i \in 1..4, StageAt(b, i, n), Up, Staged(b, i, n),
         Others(b), AllocMemory
  PROVE  Basis' /\ PhaseInv' /\ OnlyAt(b)
<1>1. Head(todo) = Stage(b, n)[i] /\ At = b /\ ~Trial /\ Tail(todo) = Rest(Stage(b, n), i + 1)
  BY StageHead
<1>2. i = 2 /\ Head(todo).n = n
  BY <1>1 DEF AllocMemory, Doing, Stage, Call, CallN
<1>3. b \in Memory /\ b \in Made /\ b \notin ChanObj /\ b \in Object
  BY Names, MadeNames
<1>4. /\ h' = [h EXCEPT ![b] = nextHandle] /\ nextHandle' = nextHandle + 1 /\ size' = [size EXCEPT ![b] = n]
      /\ UNCHANGED <<rm, attempted, ready, cpu, lin, va, fd, under, mapped, klin, kdma, files, asked, dmaFailed>>
      /\ \/ objs' = objs \cup {Obj(b, nextHandle, "device")} /\ todo' = Tail(todo)
         \/ objs' = objs /\ todo' = Release(b)
  BY <1>1, <1>2 DEF AllocMemory, NewHandle, Done, Undo, hist
<1>5. ~Trial'
  <2>1. Tail(todo) = Rest(Stage(b, n), 3)
    BY <1>1, <1>2
  <2>2. ~Tried(Rest(Stage(b, n), 3))
    BY Untried
  <2>3. ~Tried(Release(b))
    BY ReleaseUntried
  <2> QED
    BY <1>4, <2>1, <2>2, <2>3 DEF Trial
<1>6. h[b] = 0 /\ ~lin[b] /\ ~va[b] /\ cpu[b] = 0 /\ mapped[b] = 0 /\ n # 0
  BY <1>2 DEF Staged, MemOk
<1>7. size' \in [Memory -> Nat] /\ size'[b] = n /\ \A m \in Memory \ {b} : size'[m] = size[m]
  BY <1>3, <1>4 DEF Basis, TypeInv
<1>8. /\ Basis' /\ OnlyAt(b)
      /\ h'[b] # 0 /\ h'[b] \notin klin' /\ h'[b] \notin kdma'
      /\ objs' = objs => ~Exists(b)'
      /\ objs' = objs \cup {Obj(b, nextHandle, "device")} => Exists(b)'
  BY <1>1, <1>3, <1>4, <1>5, <1>6, <1>7, Allocated
<1>9. Up' /\ Others(b)'
  BY <1>4, <1>8, UpKept, OthersKept
<1>10. CASE objs' = objs \cup {Obj(b, nextHandle, "device")} /\ todo' = Tail(todo)
  <2>1. Staged(b, 3, n)'
    BY <1>2, <1>4, <1>6, <1>7, <1>8, <1>10 DEF Staged, MemOk
  <2> QED
    BY <1>2, <1>4, <1>8, <1>9, <1>10, <2>1, StageGoesOn
<1>11. CASE objs' = objs /\ todo' = Release(b)
  <2>1. Released(b, 1)'
    BY <1>2, <1>4, <1>6, <1>7, <1>8, <1>11 DEF Staged, Released, MemOk
  <2> QED
    BY <1>8, <1>9, <1>11, <2>1, StageFails
<1> QED
  BY <1>4, <1>10, <1>11

\* A buffer is mapped for the CPU, or released.
LEMMA StageMapsCpu ==
  ASSUME Basis, NEW b \in Buf, NEW n \in Nat, n = asked[b], NEW i \in 1..4, StageAt(b, i, n), Up, Staged(b, i, n),
         Others(b), MapCpu
  PROVE  Basis' /\ PhaseInv' /\ OnlyAt(b)
<1>1. Head(todo) = Stage(b, n)[i] /\ At = b /\ ~Trial /\ Tail(todo) = Rest(Stage(b, n), i + 1)
  BY StageHead
<1>2. i = 3 /\ Head(todo).n = n
  BY <1>1 DEF MapCpu, Doing, Stage, Call, CallN
<1>3. b \in Memory /\ b \in Made /\ b \notin ChanObj /\ b \in Object
  BY Names, MadeNames
<1>4. h[b] # 0 /\ Exists(b) /\ size[b] = n /\ ~lin[b] /\ ~va[b] /\ n # 0
  BY <1>2 DEF Staged
<1>5. UNCHANGED <<rm, attempted, ready, h, va, fd, size, under, nextHandle, objs, kdma, files, asked, dmaFailed>>
  BY DEF MapCpu, hist
<1>6. ~Trial'
  <2>1. Tail(todo) = Rest(Stage(b, n), 4)
    BY <1>1, <1>2
  <2>2. ~Tried(Rest(Stage(b, n), 4))
    BY Untried
  <2>3. ~Tried(Release(b))
    BY ReleaseUntried
  <2>4. todo' = Tail(todo) \/ todo' = Release(b)
    BY <1>1 DEF MapCpu, Done, Undo
  <2> QED
    BY <2>1, <2>2, <2>3, <2>4 DEF Trial
<1>7. CASE /\ cpu' = [cpu EXCEPT ![At] = Head(todo).n] /\ lin' = [lin EXCEPT ![At] = TRUE]
           /\ mapped' = [mapped EXCEPT ![At] = Head(todo).n] /\ klin' = klin \cup {h[At]}
           /\ Done
  <2>1. /\ cpu' = [cpu EXCEPT ![b] = n] /\ lin' = [lin EXCEPT ![b] = TRUE]
        /\ mapped' = [mapped EXCEPT ![b] = n] /\ klin' = klin \cup {h[b]} /\ todo' = Tail(todo)
    BY <1>1, <1>2, <1>7 DEF Done
  <2>2. /\ cpu' \in [Memory -> Nat] /\ size' \in [Memory -> Nat] /\ mapped' \in [Memory -> Nat]
        /\ lin' \in [Memory -> BOOLEAN] /\ va' \in [Memory -> BOOLEAN]
        /\ \A m \in Memory \ {b} : /\ cpu'[m] = cpu[m] /\ size'[m] = size[m] /\ mapped'[m] = mapped[m]
                                   /\ lin'[m] = lin[m] /\ va'[m] = va[m]
        /\ lin'[b] /\ cpu'[b] = n /\ mapped'[b] = n
    BY <1>3, <1>5, <2>1 DEF Basis, TypeInv
  <2>3. Basis' /\ OnlyAt(b) /\ (Exists(b)' <=> Exists(b))
    BY <1>1, <1>3, <1>4, <1>5, <1>6, <2>1, <2>2, Remapped
  <2>4. Up' /\ Others(b)'
    BY <1>5, <2>3, UpKept, OthersKept
  <2>5. Staged(b, 4, n)'
    BY <1>2, <1>4, <1>5, <2>1, <2>2, <2>3 DEF Staged, MemOk
  <2> QED
    BY <1>2, <1>5, <2>1, <2>3, <2>4, <2>5, StageGoesOn
<1>8. CASE UNCHANGED <<cpu, lin, mapped, klin>> /\ todo' = Undo(At)
  <2>1. UNCHANGED <<lib, nextHandle, kernel, asked, dmaFailed>> /\ todo' = Release(b)
    BY <1>1, <1>5, <1>8 DEF lib, kernel, Undo
  <2>2. Basis' /\ OnlyAt(b) /\ (Exists(b)' <=> Exists(b))
    BY <1>1, <1>6, <2>1, OnlyCallsLeft
  <2>3. Up' /\ Others(b)'
    BY <1>5, <2>2, UpKept, OthersKept
  <2>4. Released(b, 1)'
    BY <1>2, <1>5, <1>8, <2>2 DEF Staged, Released, MemOk
  <2> QED
    BY <2>1, <2>2, <2>3, <2>4, StageFails
<1> QED
  BY <1>7, <1>8 DEF MapCpu

\* A buffer is mapped for the GPU, and so staged, or it is released.
LEMMA StageMapsDma ==
  ASSUME Basis, NEW b \in Buf, NEW n \in Nat, n = asked[b], NEW i \in 1..4, StageAt(b, i, n), Up, Staged(b, i, n),
         Others(b), MapDma
  PROVE  Basis' /\ PhaseInv' /\ OnlyAt(b)
<1>1. Head(todo) = Stage(b, n)[i] /\ At = b /\ ~Trial /\ (i = 4 => Tail(todo) = <<>>)
  BY StageHead
<1>2. i = 4
  BY <1>1 DEF MapDma, Doing, Stage, Call, CallN
<1>3. b \in Memory /\ b \in Made /\ b \notin ChanObj /\ b \in Object /\ b # "gpfifo"
  BY Names, MadeNames DEF Channel
<1>4. h[b] # 0 /\ Exists(b) /\ size[b] = n /\ lin[b] /\ ~va[b] /\ fd[b] /\ n # 0
  BY <1>2 DEF Staged
<1>5. /\ UNCHANGED <<rm, attempted, ready, h, cpu, lin, fd, size, under, nextHandle, objs, mapped, klin, files, asked>>
      /\ dmaFailed' => dmaFailed
  <2>1. UNCHANGED <<rm, attempted, ready, h, cpu, lin, fd, under, nextHandle, objs, mapped, klin, files, asked>>
    BY DEF MapDma
  <2>2. size' = size
    BY <1>1, <1>3 DEF MapDma
  <2>3. dmaFailed' = dmaFailed \/ dmaFailed' = (dmaFailed \/ At = "gpfifo")
    BY DEF MapDma
  <2>4. At # "gpfifo"
    BY <1>1, <1>3
  <2>5. dmaFailed' => dmaFailed
    BY <2>3, <2>4, Zenon
  <2> QED
    BY <2>1, <2>2, <2>5
<1>6. ~Trial'
  <2>1. ~Tried(<<>>)
    BY Untried
  <2>2. ~Tried(Release(b))
    BY ReleaseUntried
  <2>3. todo' = <<>> \/ todo' = Release(b)
    BY <1>1, <1>2 DEF MapDma, Done, Undo
  <2> QED
    BY <2>1, <2>2, <2>3 DEF Trial
<1>7. CASE va' = [va EXCEPT ![At] = TRUE] /\ kdma' = kdma \cup {h[At]} /\ Done
  <2>1. va' = [va EXCEPT ![b] = TRUE] /\ kdma' = kdma \cup {h[b]} /\ todo' = <<>>
    BY <1>1, <1>2, <1>7 DEF Done
  <2>2. /\ cpu' \in [Memory -> Nat] /\ size' \in [Memory -> Nat] /\ mapped' \in [Memory -> Nat]
        /\ lin' \in [Memory -> BOOLEAN] /\ va' \in [Memory -> BOOLEAN]
        /\ \A m \in Memory \ {b} : /\ cpu'[m] = cpu[m] /\ size'[m] = size[m] /\ mapped'[m] = mapped[m]
                                   /\ lin'[m] = lin[m] /\ va'[m] = va[m]
        /\ va'[b]
    BY <1>3, <1>5, <2>1 DEF Basis, TypeInv
  <2>3. Basis' /\ OnlyAt(b) /\ (Exists(b)' <=> Exists(b))
    BY <1>1, <1>3, <1>4, <1>5, <1>6, <2>1, <2>2, Remapped
  <2>4. Up' /\ Others(b)'
    BY <1>5, <2>3, UpKept, OthersKept
  <2>5. Settled(b)'
    BY <1>4, <1>5, <2>1, <2>2, <2>3 DEF Staged, Settled, Whole, MemOk
  <2> QED
    BY <2>1, <2>3, <2>4, <2>5, BufsSettle
<1>8. CASE UNCHANGED <<va, kdma, size>> /\ todo' = Undo(At)
  <2>1. UNCHANGED <<lib, nextHandle, kernel, asked>> /\ todo' = Release(b)
    BY <1>1, <1>5, <1>8 DEF lib, kernel, Undo
  <2>2. Basis' /\ OnlyAt(b) /\ (Exists(b)' <=> Exists(b))
    BY <1>1, <1>6, <2>1, OnlyCallsLeft
  <2>3. Up' /\ Others(b)'
    BY <1>5, <2>2, UpKept, OthersKept
  <2>4. Released(b, 1)'
    BY <1>2, <1>5, <1>8, <2>2 DEF Staged, Released, MemOk
  <2> QED
    BY <2>1, <2>2, <2>3, <2>4, StageFails
<1> QED
  BY <1>7, <1>8 DEF MapDma

\* What follows a release are calls, and not those of a try.
LEMMA NextCalls ==
  ASSUME Basis, NEW b \in Buf, NEW next \in Continuations(b)
  PROVE  next \in Seq(CallSet) /\ ~Tried(next) /\ (next = <<>> \/ (asked[b] # 0 /\ next = Stage(b, asked[b])))
<1>1. next = <<>> \/ (asked[b] # 0 /\ next = Stage(b, asked[b]))
  BY DEF Continuations
<1>2. CASE next = <<>>
  BY <1>2, Untried
<1>3. CASE asked[b] # 0 /\ next = Stage(b, asked[b])
  <2>1. asked[b] \in Nat
    BY DEF Basis, TypeInv
  <2>2. Stage(b, asked[b]) \in Seq(CallSet)
    BY <2>1, Operations
  <2>3. Rest(Stage(b, asked[b]), 1) = Stage(b, asked[b])
    BY <2>2, RestEnds
  <2>4. ~Tried(Rest(Stage(b, asked[b]), 1))
    BY <2>1, Untried
  <2> QED
    BY <1>3, <2>2, <2>3, <2>4
<1> QED
  BY <1>1, <1>2, <1>3

\* Nor do the calls of a release and what follows it.
LEMMA ReleaseUntriedNext ==
  ASSUME Basis, NEW b \in Buf, NEW next \in Continuations(b), NEW i \in 1..4, ReleaseAt(b, i, next), todo' = Tail(todo)
  PROVE  ~Trial'
<1>1. next \in Seq(CallSet) /\ ~Tried(next)
  BY NextCalls
<1>2. Tail(todo) = Rest(Release(b), i + 1) \o next /\ (i = 4 => Tail(todo) = next)
  BY <1>1, ReleaseHead
<1>3. i # 4 => ~Tried(Rest(Release(b), i + 1) \o next)
  <2>1. i # 4 => i + 1 \in 1..4
    OBVIOUS
  <2> QED
    BY <1>1, <2>1, Untried
<1> QED
  BY <1>1, <1>2, <1>3 DEF Trial

\* The next call of a release.
LEMMA ReleaseGoesOn ==
  ASSUME Basis, NEW b \in Buf, NEW next \in Continuations(b), NEW i \in 1..3, ReleaseAt(b, i, next), todo' = Tail(todo),
         asked' = asked, Up', Released(b, i + 1)', Others(b)'
  PROVE  PhaseInv'
<1>1. next \in Seq(CallSet) /\ next \in Continuations(b)'
  BY NextCalls DEF Continuations
<1>2. i \in 1..4 /\ i + 1 \in 1..4 /\ Tail(todo) = Rest(Release(b), i + 1) \o next
  <2>1. i \in 1..4 /\ i + 1 \in 1..4
    OBVIOUS
  <2> QED
    BY <1>1, <2>1, ReleaseHead, Zenon
<1>3. ReleaseAt(b, i + 1, next)'
  BY <1>2 DEF ReleaseAt
<1>4. \E k \in 1..4 : \E s \in Continuations(b)' : ReleaseAt(b, k, s)' /\ Up' /\ Released(b, k)' /\ Others(b)'
  BY <1>1, <1>2, <1>3
<1> QED
  BY <1>4, Zenon DEF PhaseInv

\* The release of a buffer unmaps it from the GPU.
LEMMA ReleaseUnmapsDma ==
  ASSUME Basis, NEW b \in Buf, NEW next \in Continuations(b), NEW i \in 1..4, ReleaseAt(b, i, next), Up, Released(b, i),
         Others(b), UnmapDma
  PROVE  Basis' /\ PhaseInv' /\ OnlyAt(b)
<1>1. Head(todo) = Release(b)[i] /\ At = b /\ ~Trial
  BY NextCalls, ReleaseHead
<1>2. i = 1
  BY <1>1 DEF UnmapDma, Doing, Release, Call, CallN
<1>3. b \in Memory /\ b \in Made
  BY Names, MadeNames
<1>4. /\ kdma' = IF h["vaspace"] # 0 /\ h[b] # 0 /\ va[b] THEN kdma \ {h[b]} ELSE kdma
      /\ UNCHANGED <<lib, nextHandle, objs, mapped, klin, files, asked, dmaFailed>>
  BY <1>1 DEF UnmapDma, hist
<1>5. todo' = Tail(todo) /\ ~Trial'
  BY ReleaseUntriedNext DEF UnmapDma, Done
<1>6. h["vaspace"] # 0
  <2>1. Exists("vaspace") /\ "vaspace" \in Made
    BY MadeNames DEF Up, ChanObj, Channel
  <2> QED
    BY <1>1, <2>1, HeldHandle DEF Exists
<1>7. MemOk(b, size[b], FALSE, FALSE, FALSE, 0) /\ (lin[b] => size[b] # 0)
  BY <1>2 DEF Released, MemOk
<1>8. h[b] \notin kdma'
  BY <1>4, <1>6, <1>7 DEF MemOk
<1>9. Basis' /\ OnlyAt(b) /\ (Exists(b)' <=> Exists(b))
  <2>1. /\ klin' \in {klin, klin \cup {h[b]}, klin \ {h[b]}} /\ klin' \subseteq klin /\ kdma' \subseteq kdma
        /\ kdma' \in {kdma, kdma \cup {h[b]}, kdma \ {h[b]}}
        /\ UNCHANGED <<rm, attempted, ready, h, fd, under, nextHandle, objs, files, asked>>
    BY <1>4 DEF lib
  <2>2. /\ cpu' \in [Memory -> Nat] /\ size' \in [Memory -> Nat] /\ mapped' \in [Memory -> Nat]
        /\ lin' \in [Memory -> BOOLEAN] /\ va' \in [Memory -> BOOLEAN]
        /\ \A m \in Memory \ {b} : /\ cpu'[m] = cpu[m] /\ size'[m] = size[m] /\ mapped'[m] = mapped[m]
                                   /\ lin'[m] = lin[m] /\ va'[m] = va[m]
    BY <1>4 DEF lib, Basis, TypeInv
  <2> QED
    BY <1>1, <1>3, <1>5, <2>1, <2>2, Remapped
<1>10. Up' /\ Others(b)'
  BY <1>4, <1>9, UpKept, OthersKept DEF lib
<1>11. Released(b, 2)'
  BY <1>2, <1>4, <1>7, <1>8, <1>9 DEF Released, MemOk, lib
<1> QED
  BY <1>2, <1>4, <1>5, <1>9, <1>10, <1>11, ReleaseGoesOn

\* The release of a buffer unmaps all of its pages.
LEMMA ReleaseUnmapsCpu ==
  ASSUME Basis, NEW b \in Buf, NEW next \in Continuations(b), NEW i \in 1..4, ReleaseAt(b, i, next), Up, Released(b, i),
         Others(b), UnmapCpu
  PROVE  Basis' /\ PhaseInv' /\ OnlyAt(b)
<1>1. Head(todo) = Release(b)[i] /\ At = b /\ ~Trial
  BY NextCalls, ReleaseHead
<1>2. i = 2
  BY <1>1 DEF UnmapCpu, Doing, Release, Call, CallN
<1>3. b \in Memory /\ b \in Made
  BY Names, MadeNames
<1>4. /\ mapped' = IF cpu[b] # 0 THEN [mapped EXCEPT ![b] = @ - (IF size[b] # 0 THEN size[b] ELSE 1)] ELSE mapped
      /\ klin' = IF h[b] # 0 /\ lin[b] THEN klin \ {h[b]} ELSE klin
      /\ UNCHANGED <<lib, nextHandle, objs, kdma, files, asked, dmaFailed>>
  BY <1>1 DEF UnmapCpu, hist
<1>5. todo' = Tail(todo) /\ ~Trial'
  BY ReleaseUntriedNext DEF UnmapCpu, Done
<1>6. MemOk(b, size[b], FALSE, FALSE, TRUE, 0) /\ (lin[b] => size[b] # 0)
  BY <1>2 DEF Released, MemOk
<1>7. mapped \in [Memory -> Nat] /\ size[b] \in Nat
  BY <1>3 DEF Basis, TypeInv
<1>8. mapped'[b] = 0
  <2>1. mapped'[b] = IF cpu[b] # 0 THEN mapped[b] - (IF size[b] # 0 THEN size[b] ELSE 1) ELSE mapped[b]
    BY <1>3, <1>4, <1>7
  <2> QED
    BY <1>6, <1>7, <2>1 DEF MemOk
<1>9. mapped' \in [Memory -> Nat] /\ \A m \in Memory \ {b} : mapped'[m] = mapped[m]
  BY <1>3, <1>4, <1>7, <1>8
<1>10. h[b] \notin klin'
  BY <1>4, <1>6 DEF MemOk
<1>11. Basis' /\ OnlyAt(b) /\ (Exists(b)' <=> Exists(b))
  <2>1. /\ klin' \in {klin, klin \cup {h[b]}, klin \ {h[b]}} /\ klin' \subseteq klin /\ kdma' \subseteq kdma
        /\ kdma' \in {kdma, kdma \cup {h[b]}, kdma \ {h[b]}}
        /\ UNCHANGED <<rm, attempted, ready, h, fd, under, nextHandle, objs, files, asked>>
    BY <1>4 DEF lib
  <2>2. /\ cpu' \in [Memory -> Nat] /\ size' \in [Memory -> Nat] /\ mapped' \in [Memory -> Nat]
        /\ lin' \in [Memory -> BOOLEAN] /\ va' \in [Memory -> BOOLEAN]
        /\ \A m \in Memory \ {b} : /\ cpu'[m] = cpu[m] /\ size'[m] = size[m] /\ mapped'[m] = mapped[m]
                                   /\ lin'[m] = lin[m] /\ va'[m] = va[m]
    BY <1>4, <1>9 DEF lib, Basis, TypeInv
  <2> QED
    BY <1>1, <1>3, <1>5, <2>1, <2>2, Remapped
<1>12. Up' /\ Others(b)'
  BY <1>4, <1>11, UpKept, OthersKept DEF lib
<1>13. Released(b, 3)'
  BY <1>2, <1>4, <1>6, <1>8, <1>10, <1>11 DEF Released, MemOk, lib
<1> QED
  BY <1>2, <1>4, <1>5, <1>11, <1>12, <1>13, ReleaseGoesOn

\* The release of a buffer frees its memory.
LEMMA ReleaseFrees ==
  ASSUME Basis, NEW b \in Buf, NEW next \in Continuations(b), NEW i \in 1..4, ReleaseAt(b, i, next), Up, Released(b, i),
         Others(b), FreeObject
  PROVE  Basis' /\ PhaseInv' /\ OnlyAt(b)
<1>1. Head(todo) = Release(b)[i] /\ At = b /\ ~Trial
  BY NextCalls, ReleaseHead
<1>2. i = 3
  BY <1>1 DEF FreeObject, Doing, Release, Call, CallN
<1>3. b \in Memory /\ b \in Made
  BY Names, MadeNames
<1>4. objs' = Without(h[b]) /\ UNCHANGED <<lib, nextHandle, mapped, klin, kdma, files, asked, dmaFailed>>
  BY <1>1 DEF FreeObject, hist
<1>5. todo' = Tail(todo) /\ ~Trial'
  BY ReleaseUntriedNext DEF FreeObject, Done
<1>6. Basis' /\ OnlyAt(b) /\ ~Exists(b)'
  BY <1>1, <1>3, <1>4, <1>5, Freed
<1>7. Up' /\ Others(b)'
  BY <1>4, <1>6, UpKept, OthersKept DEF lib
<1>8. Released(b, 4)'
  BY <1>2, <1>4, <1>6 DEF Released, MemOk, lib
<1> QED
  BY <1>2, <1>4, <1>5, <1>6, <1>7, <1>8, ReleaseGoesOn

\* The release of a buffer ends: the library forgets it.
LEMMA ReleaseEnds ==
  ASSUME Basis, NEW b \in Buf, NEW next \in Continuations(b), NEW i \in 1..4, ReleaseAt(b, i, next), Up, Released(b, i),
         Others(b), Close
  PROVE  Basis' /\ PhaseInv' /\ OnlyAt(b)
<1>1. Head(todo) = Release(b)[i] /\ At = b /\ ~Trial /\ (i = 4 => Tail(todo) = next)
  BY NextCalls, ReleaseHead
<1>2. i = 4
  BY <1>1 DEF Close, Doing, Release, Call, CallN
<1>3. b \in Memory /\ b \in Made /\ b \in Object /\ b \notin ChanObj /\ b \notin Base
  BY Names, MadeNames
<1>4. /\ todo' = next
      /\ h' = [h EXCEPT ![b] = 0]
      /\ cpu' = [m \in Memory |-> IF m \in {b} THEN 0 ELSE cpu[m]]
      /\ lin' = [m \in Memory |-> m \notin {b} /\ lin[m]]
      /\ va' = [m \in Memory |-> m \notin {b} /\ va[m]]
      /\ size' = [m \in Memory |-> IF m \in {b} THEN 0 ELSE size[m]]
      /\ files' = files \ {m \in {b} : fd[m]}
      /\ fd' = [m \in Memory |-> m \notin {b} /\ fd[m]]
      /\ UNCHANGED <<rm, attempted, ready, under, nextHandle, objs, mapped, klin, kdma, asked, dmaFailed>>
  BY <1>1, <1>2 DEF Close, Forget, Done, hist
<1>5. ~Trial' /\ (next = <<>> \/ (asked[b] # 0 /\ next = Stage(b, asked[b])))
  BY <1>4, NextCalls DEF Trial
<1>6. /\ ~Exists(b) /\ h[b] \notin klin /\ h[b] \notin kdma /\ mapped[b] = 0 /\ (fd[b] <=> b \in files)
  BY <1>2 DEF Released, MemOk
<1>7. /\ h'[b] = 0 /\ cpu'[b] = 0 /\ ~lin'[b] /\ ~va'[b] /\ size'[b] = 0 /\ ~fd'[b] /\ b \notin files'
      /\ \A o \in Object \ {b} : h'[o] = h[o]
      /\ \A m \in Memory \ {b} : /\ cpu'[m] = cpu[m] /\ (lin'[m] <=> lin[m]) /\ (va'[m] <=> va[m])
                                 /\ size'[m] = size[m] /\ (fd'[m] <=> fd[m]) /\ (m \in files' <=> m \in files)
      /\ \A o : Exists(o)' <=> Exists(o)
  BY <1>3, <1>4, <1>6 DEF Basis, TypeInv, Exists
<1>8. TypeInv'
  <2>1. h' \in [Object -> Nat] /\ cpu' \in [Memory -> Nat] /\ size' \in [Memory -> Nat]
    BY <1>4 DEF Basis, TypeInv
  <2>2. \A m \in Memory : (m \notin {b} /\ lin[m]) \in BOOLEAN /\ (m \notin {b} /\ va[m]) \in BOOLEAN
                          /\ (m \notin {b} /\ fd[m]) \in BOOLEAN
    OBVIOUS
  <2>3. lin' \in [Memory -> BOOLEAN] /\ va' \in [Memory -> BOOLEAN] /\ fd' \in [Memory -> BOOLEAN]
    BY <1>4, <2>2, Zenon
  <2> QED
    BY <1>4, <2>1, <2>3 DEF Basis, TypeInv
<1>9. \A m \in Memory \ {b} : lin'[m] = lin[m] /\ va'[m] = va[m] /\ fd'[m] = fd[m]
  <2>1. \A m \in Memory : /\ lin'[m] \in BOOLEAN /\ lin[m] \in BOOLEAN /\ va'[m] \in BOOLEAN /\ va[m] \in BOOLEAN
                          /\ fd'[m] \in BOOLEAN /\ fd[m] \in BOOLEAN
    BY <1>8 DEF Basis, TypeInv
  <2> QED
    BY <1>7, <2>1
<1>10. OnlyAt(b)
  BY <1>4, <1>7, <1>9, Names DEF OnlyAt, SameObj, SameMem
<1>11. Basis'
  <2>1. HandleInv'
    BY <1>3, <1>4, <1>7, MadeNames DEF Basis, HandleInv, Base, Made
  <2>2. ObjInv'
    <3> SUFFICES ASSUME NEW o \in objs PROVE o.at \in Object /\ OwnHandle(o)' /\ ParentOk(o)'
      BY <1>4, <1>5 DEF ObjInv
    <3>1. o.at \in Object /\ OwnHandle(o) /\ ParentOk(o) /\ o.at # b
      BY <1>6 DEF Basis, ObjInv, Exists
    <3>2. "subdevice" \in Object \ {b}
      BY <1>3, Names DEF Base
    <3> QED
      BY <1>1, <1>4, <1>7, <3>1, <3>2 DEF OwnHandle, ParentOk
  <2>3. MapInv'
    <3>1. \A k \in klin \cup kdma : k # 0 /\ \E m \in Memory : m # b /\ h[m] = k
      <4> TAKE k \in klin \cup kdma
      <4>1. k # 0 /\ \E m \in Memory : h[m] = k
        BY DEF Basis, MapInv
      <4> QED
        BY <1>6, <4>1
    <3>2. files' \subseteq Memory
      BY <1>4 DEF Basis, MapInv
    <3> QED
      BY <1>4, <1>7, <3>1, <3>2, Names DEF MapInv
  <2>4. UnderInv'
    BY <1>3, <1>4, <1>7, Names DEF Basis, UnderInv, Base
  <2> QED
    BY <1>8, <2>1, <2>2, <2>3, <2>4 DEF Basis
<1>12. Up' /\ Others(b)'
  BY <1>4, <1>10, UpKept, OthersKept
<1>13. 0 \notin klin /\ 0 \notin kdma
  BY DEF Basis, MapInv
<1>14. CASE next = <<>>
  <2>1. Settled(b)'
    BY <1>4, <1>6, <1>7, <1>13, Names DEF Settled, Nothing, Absent, MemOk, Left, Channel
  <2> QED
    BY <1>4, <1>10, <1>11, <1>12, <1>14, <2>1, BufsSettle
<1>15. CASE asked[b] # 0 /\ next = Stage(b, asked[b])
  <2>1. asked[b] \in Nat /\ asked' = asked
    BY <1>4 DEF Basis, TypeInv
  <2>2. Staged(b, 1, asked[b])'
    BY <1>4, <1>6, <1>7, <1>13, <1>15 DEF Staged, MemOk
  <2>3. Rest(Stage(b, asked[b]), 1) = Stage(b, asked[b])
    BY <2>1, Operations, RestEnds
  <2>4. StageAt(b, 1, asked[b])'
    BY <1>4, <1>15, <2>3 DEF StageAt
  <2>5. \E k \in 1..4 : StageAt(b, k, asked[b])' /\ Up' /\ Staged(b, k, asked[b])' /\ Others(b)'
    BY <1>12, <2>2, <2>4
  <2> QED
    BY <1>10, <1>11, <2>5, Zenon DEF PhaseInv
<1> QED
  BY <1>5, <1>14, <1>15

\* Asking for the engine id is what is done to an object that is tried.
LEMMA ComputeUntried ==
  ASSUME NEW op \in {"compute", "computeId"}, NEW n \in Nat
  PROVE  /\ Tried(<<CallN(op, "compute", n)>>) <=> op = "computeId"
         /\ Head(<<CallN(op, "compute", n)>>).at = "compute"
<1>1. Head(<<CallN(op, "compute", n)>>) = CallN(op, "compute", n) /\ <<CallN(op, "compute", n)>> # <<>>
  OBVIOUS
<1> QED
  BY <1>1 DEF Tried, CallN

\* A compute class that failed is followed by the next, or the operation ends.
LEMMA ComputeGoesOn ==
  ASSUME NEW op \in {"compute", "computeId"}, NEW n \in 1..ComputeClasses, ComputeAt(op, n), NextTry("compute", <<>>),
         Up', h'["compute"] = 0, \A b \in Buf : Settled(b)'
  PROVE  PhaseInv'
<1>1. Head(todo).n = n /\ At = "compute" /\ Tail(todo) = <<>>
  BY ComputeHead
<1>2. n \in Nat /\ ComputeClasses \in Nat
  BY ClassAssumption
<1>3. CASE n > 1
  <2>1. n - 1 \in 1..ComputeClasses /\ Head(todo).n > 1
    BY <1>1, <1>2, <1>3
  <2>2. todo' = <<CallN("compute", At, Head(todo).n - 1)>> \o Tail(todo)
    BY <2>1 DEF NextTry
  <2>3. CallN("compute", "compute", n - 1) \in CallSet
    <3>1. "compute" \in Ops /\ "compute" \in Object /\ n - 1 \in Nat
      BY <1>2, <1>3, Names DEF Ops
    <3> QED
      BY <3>1, CallType
  <2>4. todo' = <<CallN("compute", "compute", n - 1)>>
    <3>1. <<CallN("compute", "compute", n - 1)>> \o <<>> = <<CallN("compute", "compute", n - 1)>>
      BY <2>3, ConcatEmptySeq
    <3> QED
      BY <1>1, <2>2, <3>1
  <2>5. ComputeAt("compute", n - 1)'
    BY <2>1, <2>4 DEF ComputeAt
  <2>6. \E p \in {"compute", "computeId"}, k \in 1..ComputeClasses :
           /\ ComputeAt(p, k)' /\ Up' /\ h'["compute"] = 0 /\ \A b \in Buf : Settled(b)'
           /\ p = "computeId" => Exists("compute")'
    BY <2>1, <2>5
  <2> QED
    BY <2>6, Zenon DEF PhaseInv
<1>4. CASE ~(n > 1)
  <2>1. todo' = <<>>
    BY <1>1, <1>4 DEF NextTry
  <2> QED
    BY <2>1, Zenon DEF PhaseInv
<1> QED
  BY <1>3, <1>4

\* After an object was freed, or none was made, none is tried.
LEMMA ComputeNextUntried ==
  ASSUME NEW op \in {"compute", "computeId"}, NEW n \in 1..ComputeClasses, ComputeAt(op, n), NextTry("compute", <<>>)
  PROVE  ~Trial'
<1>1. Head(todo).n = n /\ At = "compute" /\ Tail(todo) = <<>>
  BY ComputeHead
<1>2. n \in Nat /\ ComputeClasses \in Nat
  BY ClassAssumption
<1>3. CASE n > 1
  <2>1. todo' = <<CallN("compute", "compute", n - 1)>> \o <<>>
    BY <1>1, <1>2, <1>3 DEF NextTry
  <2>2. n - 1 \in Nat /\ CallN("compute", "compute", n - 1) \in CallSet
    <3>1. "compute" \in Ops /\ "compute" \in Object /\ n - 1 \in Nat
      BY <1>2, <1>3, Names DEF Ops
    <3> QED
      BY <3>1, CallType
  <2>3. todo' = <<CallN("compute", "compute", n - 1)>>
    BY <2>1, <2>2, ConcatEmptySeq
  <2> QED
    BY <2>2, <2>3, ComputeUntried DEF Trial
<1>4. CASE ~(n > 1)
  <2>1. todo' = <<>>
    BY <1>1, <1>4 DEF NextTry
  <2> QED
    BY <2>1, Untried DEF Trial
<1> QED
  BY <1>3, <1>4

\* The staging buffers do not notice a call about the compute object.
LEMMA AllSettledKept ==
  ASSUME \A b \in Buf : Settled(b), OnlyAt("compute"), asked' = asked PROVE \A b \in Buf : Settled(b)'
<1>1. \A b \in Buf : SameMem(b)
  BY Names DEF OnlyAt
<1> QED
  BY <1>1, SettledKept

\* A compute class is tried.
LEMMA ComputeAllocates ==
  ASSUME Basis, NEW n \in 1..ComputeClasses, ComputeAt("compute", n), Up, h["compute"] = 0,
         \A b \in Buf : Settled(b), ComputeAlloc
  PROVE  Basis' /\ PhaseInv' /\ OnlyAt("compute")
<1>1. At = "compute" /\ Head(todo).n = n /\ Tail(todo) = <<>> /\ ~Trial /\ n \in Nat
  BY ComputeHead, ClassAssumption
<1>2. UNCHANGED <<lib, mapped, klin, kdma, files, asked, dmaFailed>> /\ nextHandle' = nextHandle + 1
  BY DEF ComputeAlloc, NewHandle, hist
<1>3. CASE objs' = objs /\ NextTry("compute", <<>>)
  <2>1. ~Trial'
    BY <1>3, ComputeNextUntried
  <2>2. Basis' /\ OnlyAt("compute")
    BY <1>1, <1>2, <1>3, <2>1, TryFailed DEF kernel
  <2>3. Up' /\ h'["compute"] = 0 /\ \A b \in Buf : Settled(b)'
    BY <1>2, <2>2, UpKept, AllSettledKept DEF lib
  <2> QED
    BY <1>3, <2>2, <2>3, ComputeGoesOn
<1>4. CASE objs' = objs \cup {Obj(At, nextHandle, "channel")} /\ Then("computeId")
  <2>1. CallN("computeId", "compute", n) \in CallSet
    <3>1. "computeId" \in Ops /\ "compute" \in Object
      BY Names DEF Ops
    <3> QED
      BY <1>1, <3>1, CallType
  <2>2. todo' = <<CallN("computeId", "compute", n)>>
    <3>1. todo' = <<CallN("computeId", "compute", n)>> \o <<>>
      BY <1>1, <1>4 DEF Then
    <3> QED
      BY <2>1, <3>1, ConcatEmptySeq
  <2>3. Trial' /\ At' = "compute"
    BY <1>1, <2>2, ComputeUntried DEF Trial, At
  <2>4. Basis' /\ OnlyAt("compute") /\ Exists("compute")'
    BY <1>1, <1>2, <1>4, <2>3, MadeNames, TryBegun
  <2>5. Up' /\ h'["compute"] = 0 /\ \A b \in Buf : Settled(b)'
    BY <1>2, <2>4, UpKept, AllSettledKept DEF lib
  <2>6. \E p \in {"compute", "computeId"}, k \in 1..ComputeClasses :
           /\ ComputeAt(p, k)' /\ Up' /\ h'["compute"] = 0 /\ \A b \in Buf : Settled(b)'
           /\ p = "computeId" => Exists("compute")'
    BY <2>2, <2>4, <2>5 DEF ComputeAt
  <2> QED
    BY <2>4, <2>6, Zenon DEF PhaseInv
<1> QED
  BY <1>3, <1>4 DEF ComputeAlloc

\* A compute object whose engine id is known is kept; another is freed.
LEMMA ComputeIdentifies ==
  ASSUME Basis, NEW n \in 1..ComputeClasses, ComputeAt("computeId", n), Up, h["compute"] = 0,
         \A b \in Buf : Settled(b), ComputeId
  PROVE  Basis' /\ PhaseInv' /\ OnlyAt("compute")
<1>1. At = "compute" /\ Tail(todo) = <<>> /\ Trial /\ "compute" \in Made
  BY ComputeHead, MadeNames
<1>2. UNCHANGED <<rm, attempted, ready, cpu, lin, va, fd, size, under, nextHandle, mapped, klin, kdma, files, asked, dmaFailed>>
  BY DEF ComputeId, hist
<1>3. CASE h' = h /\ objs' = Without(nextHandle - 1) /\ NextTry("compute", <<>>)
  <2>1. ~Trial'
    BY <1>3, ComputeNextUntried
  <2>2. Basis' /\ OnlyAt("compute")
    BY <1>1, <1>2, <1>3, <2>1, TryDropped DEF lib
  <2>3. Up' /\ h'["compute"] = 0 /\ \A b \in Buf : Settled(b)'
    BY <1>2, <1>3, <2>2, UpKept, AllSettledKept
  <2> QED
    BY <1>3, <2>2, <2>3, ComputeGoesOn
<1>4. CASE h' = [h EXCEPT ![At] = nextHandle - 1] /\ objs' = objs /\ Done
  <2>1. todo' = <<>> /\ ~Trial'
    BY <1>1, <1>4, Untried DEF Done, Trial
  <2>2. Basis' /\ OnlyAt("compute")
    BY <1>1, <1>2, <1>4, <2>1, TryKept DEF Basis, UnderInv
  <2>3. Up' /\ \A b \in Buf : Settled(b)'
    BY <1>2, <2>2, UpKept, AllSettledKept
  <2> QED
    BY <2>1, <2>2, <2>3, Zenon DEF PhaseInv
<1> QED
  BY <1>3, <1>4 DEF ComputeId

\* Between operations RM is down, or up without or with its channel.
RmDown == Bare /\ BaseDown /\ rm \in {"new", "failed"} /\ ~dmaFailed /\ (rm = "new" => ~attempted)
ChanDown == Bare /\ BaseUp /\ (~attempted => ~dmaFailed)
ChanUp == Up /\ \A b \in Buf : Settled(b)

\* Without a call to make, one of the three holds.
LEMMA IdlePhases ==
  ASSUME Basis, PhaseInv, todo = <<>> PROVE RmDown \/ ChanDown \/ ChanUp
<1>1. \A i \in 1..5 : ~InitAt(i)
  BY InitHead
<1>2. \A i \in 1..15 : ~RaiseAt(i) /\ ~LowerAt(i)
  BY RaiseHead, LowerHead
<1>3. \A op \in {"userAlloc", "userMap"}, n \in 1..Tries : ~TryAt(op, n)
  BY TryHead
<1>4. \A b \in Buf, i \in 1..4 : ~StageAt(b, i, asked[b])
  BY StageHead DEF Basis, TypeInv
<1>5. \A b \in Buf, i \in 1..4 : \A next \in Continuations(b) : ~ReleaseAt(b, i, next)
  BY NextCalls, ReleaseHead
<1>6. \A op \in {"compute", "computeId"}, n \in 1..ComputeClasses : ~ComputeAt(op, n)
  BY ComputeHead
<1> QED
  BY <1>1, <1>2, <1>3, <1>4, <1>5, <1>6, Zenon DEF PhaseInv, RmDown, ChanDown, ChanUp

\* An operation is over.
LEMMA IdleAgain ==
  ASSUME todo' = <<>>, RmDown' \/ ChanDown' \/ ChanUp' PROVE PhaseInv'
BY Zenon DEF PhaseInv, RmDown, ChanDown, ChanUp

\* Without a channel there are no buffers.
LEMMA BareBufs ==
  ASSUME Bare PROVE NoBufs /\ \A b \in Buf : h[b] = 0
BY Names, MadeNames DEF Bare, NoBufs, Nothing, Absent

\* rm_init_locked starts, once.
LEMMA RmStarts ==
  ASSUME Basis, PhaseInv, StartRm PROVE Basis' /\ PhaseInv'
<1>1. /\ todo = <<>> /\ rm = "new" /\ rm' = "failed" /\ todo' = RmInit
      /\ UNCHANGED <<attempted, ready, h, cpu, lin, va, fd, size, under, nextHandle, kernel, asked, dmaFailed>>
  BY DEF StartRm, hist
<1>2. RmDown
  BY <1>1, IdlePhases DEF ChanDown, ChanUp, Up, BaseUp
<1>3. RmInit = Rest(RmInit, 1) /\ ~Tried(Rest(RmInit, 1)) /\ ~Tried(<<>>)
  BY RestEnds, Operations, Untried
<1>4. ~Trial /\ ~Trial'
  BY <1>1, <1>3 DEF Trial
<1>5. Basis'
  BY <1>1, <1>4 DEF Basis, TypeInv, HandleInv, ObjInv, MapInv, UnderInv, OwnHandle, ParentOk, kernel
<1>6. Started(1)'
  <2>1. \A o : ~Exists(o)'
    BY <1>1, <1>2 DEF RmDown, BaseDown, Exists, kernel
  <2>2. Bare'
    BY <1>1, <1>2, <2>1 DEF RmDown, Bare, Nothing, Absent, Left, kernel
  <2> QED
    BY <1>1, <1>2, <2>1, <2>2 DEF Started, RmDown, BaseDown
<1>7. InitAt(1)'
  BY <1>1, <1>3 DEF InitAt
<1> QED
  BY <1>5, <1>6, <1>7 DEF PhaseInv

\* rm_channel_init_locked starts, once, and does nothing without RM.
LEMMA ChannelStarts ==
  ASSUME Basis, PhaseInv, StartChannel PROVE Basis' /\ PhaseInv'
<1>1. /\ todo = <<>> /\ rm # "new" /\ ~attempted /\ attempted' = TRUE
      /\ todo' = IF rm = "ready" THEN BringUp ELSE <<>>
      /\ UNCHANGED <<rm, ready, h, cpu, lin, va, fd, size, under, nextHandle, kernel, asked, dmaFailed>>
  BY DEF StartChannel, hist
<1>2. BringUp = Rest(BringUp, 1) /\ ~Tried(Rest(BringUp, 1)) /\ ~Tried(<<>>)
  BY RestEnds, Operations, Untried
<1>3. ~Trial /\ ~Trial'
  BY <1>1, <1>2 DEF Trial
<1>4. Basis'
  BY <1>1, <1>3 DEF Basis, TypeInv, HandleInv, ObjInv, MapInv, UnderInv, OwnHandle, ParentOk, kernel
<1>5. Bare => Bare'
  BY <1>1 DEF Bare, Nothing, Absent, Left, Exists, kernel
<1>6. RmDown \/ ChanDown
  BY <1>1, IdlePhases DEF ChanUp, Up
<1>7. CASE RmDown
  <2>1. RmDown'
    BY <1>1, <1>5, <1>7 DEF RmDown, BaseDown, kernel
  <2>2. todo' = <<>>
    BY <1>1, <1>7 DEF RmDown
  <2> QED
    BY <1>4, <2>1, <2>2, IdleAgain
<1>8. CASE ChanDown
  <2>1. rm = "ready" /\ Bare /\ ~dmaFailed
    BY <1>1, <1>8 DEF ChanDown, BaseUp
  <2>2. BaseUp'
    BY <1>1, <1>8 DEF ChanDown, BaseUp, Exists, kernel
  <2>3. \A op, at : ~Did(BringUp, 1, op, at) /\ ~Did(TearDown, 1, op, at)
    BY DEF Did
  <2>4. NoBufs'
    BY <1>1, <2>1, BareBufs DEF NoBufs, Nothing, Absent, Left, Exists, kernel
  <2>5. /\ \A o \in ChanObj : h'[o] = 0 /\ ~Exists(o)'
        /\ \A m \in Channel : /\ ~lin'[m] /\ ~va'[m] /\ ~fd'[m] /\ cpu'[m] = 0 /\ size'[m] = 0 /\ mapped'[m] = 0
                              /\ m \notin files'
        /\ 0 \notin klin' /\ 0 \notin kdma'
    <3>1. \A o \in ChanObj : h'[o] = 0 /\ ~Exists(o)'
      BY <1>1, <2>1, MadeNames DEF Bare, Exists, kernel
    <3>2. 0 \notin klin' /\ 0 \notin kdma'
      BY <1>4 DEF Basis, MapInv
    <3> QED
      BY <1>1, <2>1, <3>1, <3>2, Names DEF Bare, Nothing, Absent, Left, kernel
  <2>6. ChanMem(1)'
    BY <2>3, <2>5 DEF ChanMem, MemOk, ChanObj
  <2>7. ChanObjs(1)'
    BY <2>3, <2>5 DEF ChanObjs, ChanObj
  <2>8. Raised(1)'
    BY <1>1, <2>1, <2>2, <2>3, <2>4, <2>5, <2>6, <2>7 DEF Raised, Chan, Making, Bare, ChanObj, Channel
  <2>9. RaiseAt(1)'
    BY <1>1, <1>2, <2>1 DEF RaiseAt
  <2> QED
    BY <1>4, <2>8, <2>9 DEF PhaseInv
<1> QED
  BY <1>6, <1>7, <1>8

\* The compute object is tried for, by a launch.
LEMMA ComputeStarts ==
  ASSUME Basis, PhaseInv, StartCompute PROVE Basis' /\ PhaseInv'
<1>1. /\ todo = <<>> /\ ready /\ h["compute"] = 0 /\ todo' = <<CallN("compute", "compute", ComputeClasses)>>
      /\ UNCHANGED <<lib, nextHandle, kernel, asked, dmaFailed>>
  BY DEF StartCompute, hist
<1>2. ChanUp
  BY <1>1, IdlePhases DEF RmDown, ChanDown, Bare
<1>3. ComputeClasses \in Nat /\ ComputeClasses \in 1..ComputeClasses
  BY ClassAssumption
<1>4. ~Trial /\ ~Trial'
  <2>1. ~Tried(<<CallN("compute", "compute", ComputeClasses)>>)
    BY <1>3, ComputeUntried
  <2> QED
    BY <1>1, <2>1, Untried DEF Trial
<1>5. Basis' /\ OnlyAt("compute")
  BY <1>1, <1>4, OnlyCallsLeft
<1>6. Up' /\ h'["compute"] = 0 /\ \A b \in Buf : Settled(b)'
  BY <1>1, <1>2, <1>5, UpKept, AllSettledKept DEF ChanUp, lib
<1>7. ComputeAt("compute", ComputeClasses)'
  BY <1>1, <1>3 DEF ComputeAt
<1>8. \E p \in {"compute", "computeId"}, k \in 1..ComputeClasses :
         /\ ComputeAt(p, k)' /\ Up' /\ h'["compute"] = 0 /\ \A b \in Buf : Settled(b)'
         /\ p = "computeId" => Exists("compute")'
  BY <1>3, <1>6, <1>7
<1> QED
  BY <1>5, <1>8, Zenon DEF PhaseInv

\* A release begins, perhaps with a staging after it.
LEMMA ReleaseBegins ==
  ASSUME NEW b \in Buf, NEW next \in Continuations(b)', next \in Seq(CallSet), todo' = Release(b) \o next,
         Up', Released(b, 1)', Others(b)'
  PROVE  PhaseInv'
<1>1. Rest(Release(b), 1) = Release(b)
  BY RestEnds, Operations
<1>2. ReleaseAt(b, 1, next)'
  BY <1>1 DEF ReleaseAt
<1>3. \E k \in 1..4 : \E s \in Continuations(b)' : ReleaseAt(b, k, s)' /\ Up' /\ Released(b, k)' /\ Others(b)'
  BY <1>2
<1> QED
  BY <1>3, Zenon DEF PhaseInv

\* A buffer is released when its module is unloaded.
LEMMA ReleaseStarts ==
  ASSUME Basis, PhaseInv, NEW b \in Buf, StartRelease(b) PROVE Basis' /\ PhaseInv'
<1>1. /\ todo = <<>> /\ h[b] # 0 /\ todo' = Release(b) /\ UNCHANGED <<lib, nextHandle, kernel, asked, dmaFailed>>
  BY DEF StartRelease, hist
<1>2. ChanUp
  BY <1>1, IdlePhases, BareBufs DEF RmDown, ChanDown
<1>3. ~Trial /\ ~Trial'
  BY <1>1, Untried, ReleaseUntried DEF Trial
<1>4. Basis' /\ OnlyAt(b) /\ (Exists(b)' <=> Exists(b))
  BY <1>1, <1>3, OnlyCallsLeft
<1>5. Up' /\ Others(b)'
  BY <1>1, <1>2, <1>4, UpKept, OthersKept DEF ChanUp, Others, lib
<1>6. MemOk(b, size[b], FALSE, FALSE, FALSE, 0) /\ size[b] # 0
  BY <1>1, <1>2 DEF ChanUp, Settled, Whole, Nothing, Absent
<1>7. Released(b, 1)'
  BY <1>1, <1>4, <1>6 DEF Released, MemOk, lib, kernel
<1>8. <<>> \in Continuations(b)' /\ <<>> \in Seq(CallSet) /\ todo' = Release(b) \o <<>>
  BY <1>1, Operations, ConcatEmptySeq DEF Continuations
<1> QED
  BY <1>4, <1>5, <1>7, <1>8, ReleaseBegins

\* A buffer is asked for n pages: kept, mapped anew, or mapped for the first time.
LEMMA StageStarts ==
  ASSUME Basis, PhaseInv, NEW b \in Buf, NEW n \in 1..MaxPages, StartStage(b, n) PROVE Basis' /\ PhaseInv'
<1>1. /\ todo = <<>> /\ attempted
      /\ todo' = IF Reusable(b, n) THEN <<>>
                 ELSE (IF h[b] = 0 THEN <<>> ELSE Release(b)) \o (IF ready THEN Stage(b, n) ELSE <<>>)
      /\ asked' = [asked EXCEPT ![b] = n]
      /\ UNCHANGED <<lib, nextHandle, kernel, dmaFailed>>
  BY DEF StartStage
<1>2. n \in Nat \ {0} /\ Stage(b, n) \in Seq(CallSet) /\ Release(b) \in Seq(CallSet) /\ <<>> \in Seq(CallSet)
  <2>1. n \in Nat \ {0}
    BY PagesAssumption
  <2> QED
    BY <2>1, Operations
<1>3. asked' \in [Buf -> Nat] /\ asked'[b] = n /\ \A c \in Buf \ {b} : asked'[c] = asked[c]
  BY <1>1, <1>2 DEF Basis, TypeInv
<1>4. ~Trial
  BY <1>1, Untried DEF Trial
<1>5. (\A o : Exists(o)' <=> Exists(o)) /\ \A x : OnlyAt(x)
  BY <1>1 DEF Exists, OnlyAt, SameObj, SameMem, lib, kernel
<1>6. ~Trial' => Basis'
  BY <1>1, <1>3, <1>4 DEF Basis, TypeInv, HandleInv, ObjInv, MapInv, UnderInv, OwnHandle, ParentOk, lib, kernel
<1>7. CASE RmDown \/ ChanDown
  <2>1. ~ready /\ h[b] = 0 /\ Bare
    BY <1>7, BareBufs DEF RmDown, ChanDown, Bare
  <2>2. todo' = <<>>
    BY <1>1, <1>2, <2>1, ConcatEmptySeq DEF Reusable
  <2>3. Bare'
    BY <1>1, <1>5, <2>1 DEF Bare, Nothing, Absent, Left, lib, kernel
  <2>4. RmDown' \/ ChanDown'
    BY <1>1, <1>5, <1>7, <2>3 DEF RmDown, ChanDown, BaseDown, BaseUp, lib, kernel
  <2> QED
    BY <1>6, <2>2, <2>4, IdleAgain, Untried DEF Trial
<1>8. CASE ChanUp
  <2>1. Up'
    BY <1>1, <1>5, <1>8, UpKept DEF ChanUp, lib
  <2>2. Others(b)'
    <3>1. \A c \in Buf \ {b} : SameMem(c)
      BY <1>5, Names DEF OnlyAt
    <3> QED
      BY <1>3, <1>8, <3>1, SettledKept DEF ChanUp, Others
  <2>3. MemOk(b, size[b], FALSE, FALSE, FALSE, 0) /\ (Whole(b) \/ Nothing(b)) /\ ready
    BY <1>8 DEF ChanUp, Settled, Up
  <2>4. CASE Reusable(b, n)
    <3>1. todo' = <<>>
      BY <1>1, <2>4
    <3>2. Whole(b)
      BY <2>3, <2>4 DEF Reusable, Nothing, Absent
    <3>3. Settled(b)'
      BY <1>1, <1>3, <1>5, <2>3, <2>4, <3>2 DEF Settled, Whole, MemOk, Reusable, lib, kernel
    <3>4. ~Trial'
      BY <3>1, Untried DEF Trial
    <3> QED
      BY <1>6, <2>1, <2>2, <3>1, <3>3, <3>4, BufsSettle
  <2>5. CASE ~Reusable(b, n) /\ h[b] = 0
    <3>1. todo' = Stage(b, n)
      BY <1>1, <1>2, <2>3, <2>5, ConcatEmptySeq
    <3>2. Rest(Stage(b, n), 1) = Stage(b, n) /\ ~Tried(Rest(Stage(b, n), 1))
      BY <1>2, RestEnds, Untried
    <3>3. ~Trial' /\ StageAt(b, 1, n)'
      BY <3>1, <3>2 DEF Trial, StageAt
    <3>4. Nothing(b) /\ b # "gpfifo"
      <4>1. h[b] # 0 \/ ~lin[b]
        BY <2>3 DEF MemOk
      <4> QED
        BY <2>3, <2>5, <4>1, Names DEF Whole, Channel
    <3>5. Staged(b, 1, n)'
      BY <1>1, <1>2, <1>3, <1>5, <2>3, <2>5, <3>4 DEF Staged, MemOk, Nothing, Absent, Left, lib, kernel
    <3>6. \E k \in 1..4 : StageAt(b, k, asked[b])' /\ Up' /\ Staged(b, k, asked[b])' /\ Others(b)'
      BY <1>3, <2>1, <2>2, <3>3, <3>5
    <3> QED
      BY <1>6, <3>3, <3>6, Zenon DEF PhaseInv
  <2>6. CASE ~Reusable(b, n) /\ h[b] # 0
    <3>1. todo' = Release(b) \o Stage(b, n)
      BY <1>1, <2>3, <2>6
    <3>2. ~Trial'
      <4>1. Rest(Release(b), 1) = Release(b) /\ 1 \in 1..4
        BY <1>2, RestEnds
      <4>2. ~Tried(Rest(Release(b), 1) \o Stage(b, n))
        BY <1>2, <4>1, Untried, Zenon
      <4> QED
        BY <3>1, <4>1, <4>2 DEF Trial
    <3>3. Whole(b)
      BY <2>3, <2>6 DEF Nothing, Absent
    <3>4. Released(b, 1)'
      BY <1>1, <1>5, <2>3, <3>3 DEF Released, MemOk, Whole, lib, kernel
    <3>5. Stage(b, n) \in Continuations(b)'
      BY <1>2, <1>3 DEF Continuations
    <3> QED
      BY <1>2, <1>6, <2>1, <2>2, <3>1, <3>2, <3>4, <3>5, ReleaseBegins
  <2> QED
    BY <2>4, <2>5, <2>6
<1> QED
  BY <1>1, <1>7, <1>8, IdlePhases

\* A step makes the call the operation is at.
LEMMA CallMade ==
  ASSUME Next, todo # <<>>, NEW op, op = Head(todo).op
  PROVE  /\ (op = "query" => Query) /\ (op = "root" => Root) /\ (op = "device" => Device)
         /\ (op = "subdevice" => Subdevice) /\ (op = "rmReady" => RmReady) /\ (op = "openAll" => OpenAll)
         /\ (op = "open" => Open) /\ (op = "object" => AllocObject) /\ (op = "memory" => AllocMemory)
         /\ (op = "mapCpu" => MapCpu) /\ (op = "mapDma" => MapDma) /\ (op = "usermode" => Usermode)
         /\ (op = "userAlloc" => UserAlloc) /\ (op = "userMap" => UserMap) /\ (op = "control" => Control)
         /\ (op = "channelReady" => ChannelReady) /\ (op = "compute" => ComputeAlloc) /\ (op = "computeId" => ComputeId)
         /\ (op = "unmapDma" => UnmapDma) /\ (op = "unmapCpu" => UnmapCpu) /\ (op = "free" => FreeObject)
         /\ (op = "close" => Close) /\ (op = "reset" => Reset)
<1>1. ~StartRm /\ ~StartChannel /\ ~StartCompute
  BY DEF StartRm, StartChannel, StartCompute
<1>2. \A b \in Buf : ~StartRelease(b) /\ \A n \in 1..MaxPages : ~StartStage(b, n)
  BY DEF StartRelease, StartStage
<1>3. /\ (Query => op = "query") /\ (Root => op = "root") /\ (Device => op = "device")
      /\ (Subdevice => op = "subdevice") /\ (RmReady => op = "rmReady") /\ (OpenAll => op = "openAll")
      /\ (Open => op = "open") /\ (AllocObject => op = "object")
  BY DEF Doing, Query, Root, Device, Subdevice, RmReady, OpenAll, Open, AllocObject
<1>4. /\ (AllocMemory => op = "memory") /\ (MapCpu => op = "mapCpu") /\ (MapDma => op = "mapDma")
      /\ (Usermode => op = "usermode") /\ (UserAlloc => op = "userAlloc") /\ (UserMap => op = "userMap")
      /\ (Control => op = "control") /\ (ChannelReady => op = "channelReady")
  BY DEF Doing, AllocMemory, MapCpu, MapDma, Usermode, UserAlloc, UserMap, Control, ChannelReady
<1>5. /\ (ComputeAlloc => op = "compute") /\ (ComputeId => op = "computeId") /\ (UnmapDma => op = "unmapDma")
      /\ (UnmapCpu => op = "unmapCpu") /\ (FreeObject => op = "free") /\ (Close => op = "close")
      /\ (Reset => op = "reset")
  BY DEF Doing, ComputeAlloc, ComputeId, UnmapDma, UnmapCpu, FreeObject, Close, Reset
<1> QED
  BY <1>1, <1>2, <1>3, <1>4, <1>5, Zenon DEF Next

\* Between operations a step begins one.
LEMMA OperationBegun ==
  ASSUME Next, todo = <<>>
  PROVE  \/ StartRm \/ StartChannel \/ StartCompute
         \/ \E b \in Buf : StartRelease(b) \/ \E n \in 1..MaxPages : StartStage(b, n)
<1>1. /\ ~Query /\ ~Root /\ ~Device /\ ~Subdevice /\ ~RmReady /\ ~OpenAll
      /\ ~Open /\ ~AllocObject /\ ~AllocMemory /\ ~MapCpu /\ ~MapDma /\ ~Usermode
      /\ ~UserAlloc /\ ~UserMap /\ ~Control /\ ~ChannelReady /\ ~ComputeAlloc /\ ~ComputeId
      /\ ~UnmapDma /\ ~UnmapCpu /\ ~FreeObject /\ ~Close /\ ~Reset
  BY DEF Doing, Query, Root, Device, Subdevice, RmReady, OpenAll, Open, AllocObject, AllocMemory,
         MapCpu, MapDma, Usermode, UserAlloc, UserMap, Control, ChannelReady, ComputeAlloc, ComputeId,
         UnmapDma, UnmapCpu, FreeObject, Close, Reset
<1> QED
  BY <1>1, Zenon DEF Next

\* What a step may do to a channel that is up: it is about one buffer, or it
\* is about a compute object and there is none yet.
ServiceStep == ready' /\ ((\E b \in Buf : OnlyAt(b)) \/ (OnlyAt("compute") /\ h["compute"] = 0))

\* An operation that begins changes nothing else.
LEMMA Begun ==
  ASSUME Basis, PhaseInv, Next, todo = <<>>
  PROVE  Basis' /\ PhaseInv' /\ (ready => ServiceStep)
<1>1. StartRm \/ StartChannel => ~ready
  BY IdlePhases DEF StartRm, StartChannel, RmDown, ChanDown, ChanUp, Bare, Up, BaseUp
<1>2. ASSUME UNCHANGED <<lib, nextHandle, kernel>> PROVE (ready => ready') /\ \A x : OnlyAt(x)
  BY <1>2 DEF OnlyAt, SameObj, SameMem, Exists, lib, kernel
<1>3. StartRm \/ StartChannel => Basis' /\ PhaseInv' /\ (ready => ServiceStep)
  BY <1>1, RmStarts, ChannelStarts
<1>4. ASSUME StartCompute PROVE Basis' /\ PhaseInv' /\ (ready => ServiceStep)
  <2>1. h["compute"] = 0 /\ UNCHANGED <<lib, nextHandle, kernel>>
    BY <1>4 DEF StartCompute
  <2> QED
    BY <1>2, <1>4, <2>1, ComputeStarts DEF ServiceStep
<1>5. ASSUME NEW b \in Buf, StartRelease(b) \/ \E n \in 1..MaxPages : StartStage(b, n)
      PROVE  Basis' /\ PhaseInv' /\ (ready => ServiceStep)
  <2>1. UNCHANGED <<lib, nextHandle, kernel>>
    BY <1>5 DEF StartRelease, StartStage
  <2> QED
    BY <1>2, <1>5, <2>1, ReleaseStarts, StageStarts DEF ServiceStep
<1> QED
  BY <1>3, <1>4, <1>5, OperationBegun

\* Every step keeps the invariant, and a channel that is up.
LEMMA StepKeeps ==
  ASSUME Basis, PhaseInv, Next
  PROVE  Basis' /\ PhaseInv' /\ (ready => ServiceStep)
<1>1. CASE todo = <<>>
  BY <1>1, Begun
<1>2. ASSUME NEW i \in 1..5, InitAt(i), Started(i) PROVE Basis' /\ PhaseInv' /\ (ready => ServiceStep)
  <2>1. todo # <<>> /\ Head(todo) = RmInit[i]
    BY <1>2, InitHead
  <2>2. Head(todo).op \in {"query", "root", "device", "subdevice", "rmReady"}
    BY <2>1, ShortCalls
  <2>3. Query \/ Root \/ Device \/ Subdevice \/ RmReady
    BY <2>1, <2>2, CallMade
  <2> QED
    BY <1>2, <2>3, StartStep, StartEnds DEF Started, Bare
<1>3. ASSUME NEW i \in 1..15, RaiseAt(i), Raised(i) PROVE Basis' /\ PhaseInv' /\ (ready => ServiceStep)
  <2>1. todo # <<>> /\ Head(todo) = BringUp[i]
    BY <1>3, RaiseHead
  <2>2. Head(todo).op \in {"openAll", "object", "memory", "mapCpu", "mapDma", "usermode", "control", "channelReady"}
    BY <2>1, BringUpOrder
  <2>3. OpenAll \/ AllocObject \/ AllocMemory \/ MapCpu \/ MapDma \/ Usermode \/ Control \/ ChannelReady
    BY <2>1, <2>2, CallMade
  <2> QED
    BY <1>3, <2>3, RaiseOpens, RaiseMakes, RaiseMapsCpu, RaiseMapsDma, RaiseUsermode,
       RaiseControls, RaiseEnds DEF Raised
<1>4. ASSUME NEW op \in {"userAlloc", "userMap"}, NEW n \in 1..Tries, TryAt(op, n), Raised(12), Doorbell,
             op = "userMap" => Exists("usermode")
      PROVE  Basis' /\ PhaseInv' /\ (ready => ServiceStep)
  <2>1. todo # <<>> /\ Head(todo).op = op
    BY <1>4, TryHead
  <2>2. (op = "userAlloc" => UserAlloc) /\ (op = "userMap" => UserMap)
    BY <2>1, CallMade
  <2> QED
    BY <1>4, <2>2, TryAllocates, TryMaps DEF Raised
<1>5. ASSUME NEW j \in 1..15, LowerAt(j), Lowered(j) PROVE Basis' /\ PhaseInv' /\ (ready => ServiceStep)
  <2>1. todo # <<>> /\ Head(todo) = TearDown[j]
    BY <1>5, LowerHead
  <2>2. Head(todo).op \in {"free", "unmapCpu", "unmapDma", "reset"}
    BY <2>1, TearDownOrder
  <2>3. FreeObject \/ UnmapCpu \/ UnmapDma \/ Reset
    BY <2>1, <2>2, CallMade
  <2> QED
    BY <1>5, <2>3, LowerFrees, LowerUnmapsCpu, LowerUnmapsDma, LowerEnds DEF Lowered
<1>6. ASSUME NEW b \in Buf, NEW i \in 1..4, StageAt(b, i, asked[b]), Up, Staged(b, i, asked[b]), Others(b)
      PROVE  Basis' /\ PhaseInv' /\ (ready => ServiceStep)
  <2>1. asked[b] \in Nat
    BY DEF Basis, TypeInv
  <2>2. todo # <<>> /\ Head(todo) = Stage(b, asked[b])[i]
    BY <1>6, <2>1, StageHead
  <2>3. Stage(b, asked[b])[i].op \in {"open", "memory", "mapCpu", "mapDma"}
    BY DEF Stage, Call, CallN
  <2>4. Open \/ AllocMemory \/ MapCpu \/ MapDma
    BY <2>2, <2>3, CallMade
  <2>5. ready' = ready
    BY <2>4 DEF Open, AllocMemory, MapCpu, MapDma
  <2> QED
    BY <1>6, <2>1, <2>4, <2>5, StageOpens, StageMakes, StageMapsCpu, StageMapsDma DEF ServiceStep
<1>7. ASSUME NEW b \in Buf, NEW i \in 1..4, NEW next \in Continuations(b), ReleaseAt(b, i, next), Up,
             Released(b, i), Others(b)
      PROVE  Basis' /\ PhaseInv' /\ (ready => ServiceStep)
  <2>1. todo # <<>> /\ Head(todo) = Release(b)[i]
    BY <1>7, NextCalls, ReleaseHead
  <2>2. Release(b)[i].op \in {"unmapDma", "unmapCpu", "free", "close"}
    BY DEF Release, Call, CallN
  <2>3. UnmapDma \/ UnmapCpu \/ FreeObject \/ Close
    BY <2>1, <2>2, CallMade
  <2>4. ready' = ready
    BY <2>3 DEF UnmapDma, UnmapCpu, FreeObject, Close, lib
  <2> QED
    BY <1>7, <2>3, <2>4, ReleaseUnmapsDma, ReleaseUnmapsCpu, ReleaseFrees, ReleaseEnds DEF ServiceStep
<1>8. ASSUME NEW op \in {"compute", "computeId"}, NEW n \in 1..ComputeClasses, ComputeAt(op, n), Up,
             h["compute"] = 0, \A b \in Buf : Settled(b)
      PROVE  Basis' /\ PhaseInv' /\ (ready => ServiceStep)
  <2>1. todo # <<>> /\ Head(todo).op = op
    BY <1>8, ComputeHead
  <2>2. (op = "compute" => ComputeAlloc) /\ (op = "computeId" => ComputeId)
    BY <2>1, CallMade
  <2>3. ready' = ready
    BY <1>8, <2>2 DEF ComputeAlloc, ComputeId, lib
  <2> QED
    BY <1>8, <2>2, <2>3, ComputeAllocates, ComputeIdentifies DEF ServiceStep
<1> QED
  BY <1>1, <1>2, <1>3, <1>4, <1>5, <1>6, <1>7, <1>8, Zenon DEF PhaseInv

\* A stutter keeps it.
LEMMA StutterKeeps ==
  ASSUME Basis, PhaseInv, UNCHANGED vars PROVE Basis' /\ PhaseInv'
<1>1. Basis'
  BY DEF Basis, TypeInv, HandleInv, ObjInv, MapInv, UnderInv, OwnHandle, ParentOk, Trial, At, vars, lib, kernel, hist
<1>2. (\A at : Exists(at)' <=> Exists(at)) /\ (\A m : Absent(m)' <=> Absent(m)) /\ \A m : Left(m)' = Left(m)
  BY DEF Exists, Absent, Left, vars, lib, kernel, hist
<1>3. \A m : Nothing(m)' <=> Nothing(m)
  BY <1>2 DEF Nothing, vars, kernel
<1>4. (Bare' <=> Bare) /\ (BaseUp' <=> BaseUp) /\ (BaseDown' <=> BaseDown) /\ (NoBufs' <=> NoBufs)
  BY <1>2, <1>3 DEF Bare, BaseUp, BaseDown, NoBufs, vars, lib, kernel
<1>5. \A m, pages, freed, unmapped, undma, left :
        MemOk(m, pages, freed, unmapped, undma, left)' <=> MemOk(m, pages, freed, unmapped, undma, left)
  BY <1>2 DEF MemOk, vars, lib, kernel
<1>6. \A j : Chan(j)' <=> Chan(j)
  BY <1>2, <1>5 DEF Chan, ChanMem, ChanObjs, vars, lib
<1>7. (Up' <=> Up) /\ (\A i : Started(i)' <=> Started(i)) /\ (\A i : Raised(i)' <=> Raised(i))
      /\ \A j : Lowered(j)' <=> Lowered(j)
  BY <1>2, <1>4, <1>6 DEF Up, Started, Raised, Lowered, vars, lib, hist
<1>8. /\ \A b : Settled(b)' <=> Settled(b)
      /\ \A b, i, n : Staged(b, i, n)' <=> Staged(b, i, n)
      /\ \A b, i : Released(b, i)' <=> Released(b, i)
  <2>1. \A b : Settled(b)' <=> Settled(b)
    BY <1>2, <1>3 DEF Settled, Whole, MemOk, vars, lib, kernel, hist
  <2>2. \A b, i, n : Staged(b, i, n)' <=> Staged(b, i, n)
    BY <1>2 DEF Staged, MemOk, vars, lib, kernel, hist
  <2>3. \A b, i : Released(b, i)' <=> Released(b, i)
    BY <1>2 DEF Released, MemOk, vars, lib, kernel
  <2> QED
    BY <2>1, <2>2, <2>3
<1>9. (\A b : Others(b)' <=> Others(b)) /\ (\A b : Continuations(b)' = Continuations(b)) /\ Tries' = Tries
      /\ asked' = asked
  BY <1>8 DEF Others, Continuations, Tries, vars, lib, hist
<1>10. todo' = todo /\ rm' = rm /\ attempted' = attempted /\ dmaFailed' = dmaFailed /\ h' = h
  BY DEF vars, lib, hist
<1> QED
  BY <1>1, <1>2, <1>4, <1>7, <1>8, <1>9, <1>10
  DEF PhaseInv, InitAt, RaiseAt, TryAt, LowerAt, StageAt, ReleaseAt, ComputeAt

\* Nothing has been done yet.
LEMMA InitHolds == ASSUME Init PROVE Basis /\ PhaseInv
<1>1. ~Trial
  BY Untried DEF Init, Trial
<1>2. \A o \in Object : h[o] = 0
  BY DEF Init
<1>3. Basis
  <2>1. HandleInv
    BY <1>2, MadeNames, Names DEF Init, HandleInv, Base
  <2>2. TypeInv /\ MapInv /\ UnderInv
    BY DEF Init, TypeInv, MapInv, UnderInv
  <2>3. ObjInv
    BY <1>1 DEF Init, ObjInv
  <2> QED
    BY <2>1, <2>2, <2>3 DEF Basis
<1>4. Bare
  BY <1>2, MadeNames, Names DEF Init, Bare, Nothing, Absent, Left, Exists
<1> QED
  BY <1>2, <1>3, <1>4, Names DEF Init, PhaseInv, BaseDown, Base

\* The invariant of every behaviour.
THEOREM SystemInvariant == Spec => []RmInv
<1>1. Init => RmInv
  BY InitHolds DEF RmInv
<1>2. RmInv /\ [Next]_vars => RmInv'
  BY StepKeeps, StutterKeeps DEF RmInv
<1> QED
  BY <1>1, <1>2, PTL DEF Spec

-----------------------------------------------------------------------------
(***************************************************************************)
(* What the invariant says of all phases alike.                            *)
(***************************************************************************)
\* RM without a channel, being brought up or not.
Early == Bare /\ ~ready /\ (BaseDown \/ BaseUp \/ \E i \in 1..5 : Started(i))
\* A channel on its way up or down: no buffers.
Midway == BaseUp /\ NoBufs /\ ~ready /\ \E j \in 1..15 : Chan(j)
\* A channel that is up, with its buffers in any state.
BufOk(b) ==
  \E freed, unmapped, undma \in BOOLEAN :
    /\ (freed => unmapped) /\ (freed => undma)
    /\ MemOk(b, size[b], freed, unmapped, undma, 0)
Serving == Up /\ \A b \in Buf : BufOk(b)

\* Every phase is one of the three.
LEMMA Views ==
  ASSUME Basis, PhaseInv PROVE Early \/ Midway \/ Serving
<1>1. ASSUME \A b \in Buf : Settled(b), Up PROVE Serving
  BY <1>1 DEF Serving, Settled, BufOk
<1>2. ASSUME NEW i \in 1..5, Started(i) PROVE Early
  BY <1>2 DEF Early, Started, Bare
<1>3. ASSUME NEW i \in 1..15, Raised(i) PROVE Midway
  BY <1>3 DEF Midway, Raised
<1>4. ASSUME NEW j \in 1..15, Lowered(j) PROVE Midway
  BY <1>4 DEF Midway, Lowered
<1>5. ASSUME NEW b \in Buf, NEW i \in 1..4, Up, Staged(b, i, asked[b]), Others(b) PROVE Serving
  BY <1>5 DEF Serving, Staged, Others, Settled, BufOk
<1>6. ASSUME NEW b \in Buf, NEW i \in 1..4, Up, Released(b, i), Others(b) PROVE Serving
  <2>1. BufOk(b)
    <3>1. MemOk(b, size[b], i > 3, i > 2, i > 1, 0) /\ (i > 3) \in BOOLEAN /\ (i > 2) \in BOOLEAN /\ (i > 1) \in BOOLEAN
      BY <1>6 DEF Released
    <3>2. (i > 3 => i > 2) /\ (i > 3 => i > 1)
      OBVIOUS
    <3> QED
      BY <3>1, <3>2, Zenon DEF BufOk
  <2>2. \A c \in Buf \ {b} : BufOk(c)
    BY <1>6 DEF Others, Settled, BufOk
  <2> QED
    BY <1>6, <2>1, <2>2 DEF Serving
<1>7. Bare /\ (BaseDown \/ BaseUp) => Early
  BY DEF Early, Bare
<1>8. 12 \in 1..15
  OBVIOUS
<1> QED
  BY <1>1, <1>2, <1>3, <1>4, <1>5, <1>6, <1>7, <1>8, Zenon DEF PhaseInv

\* What is left to do is a sequence of calls, and only two kinds of object are tried.
LEMMA TodoTyped ==
  ASSUME Basis, PhaseInv PROVE todo \in Seq(CallSet) /\ (Trial => At \in {"usermode", "compute"})
<1>1. CASE todo = <<>>
  BY <1>1, Untried DEF Trial
<1>2. ASSUME NEW i \in 1..5, InitAt(i) PROVE todo \in Seq(CallSet) /\ ~Trial
  BY <1>2, CallsLeft, InitHead DEF InitAt, NextCall
<1>3. ASSUME NEW i \in 1..15, RaiseAt(i) PROVE todo \in Seq(CallSet) /\ ~Trial
  BY <1>3, CallsLeft, RaiseHead DEF RaiseAt, NextCall
<1>4. ASSUME NEW op \in {"userAlloc", "userMap"}, NEW n \in 1..Tries, TryAt(op, n)
      PROVE  todo \in Seq(CallSet) /\ At = "usermode"
  <2>1. Rest(BringUp, 13) \in Seq(CallSet)
    BY CallsLeft DEF NextCall
  <2>2. CallN(op, "usermode", n) \in CallSet
    <3>1. n \in Nat /\ op \in Ops /\ "usermode" \in Object
      BY ClassAssumption, Names DEF Ops, Tries
    <3> QED
      BY <3>1, CallType
  <2>3. <<CallN(op, "usermode", n)>> \o Rest(BringUp, 13) \in Seq(CallSet)
    BY <2>1, <2>2, FrontStep, Zenon
  <2> QED
    BY <1>4, <2>3, TryHead DEF TryAt
<1>5. ASSUME NEW j \in 1..15, LowerAt(j) PROVE todo \in Seq(CallSet) /\ ~Trial
  BY <1>5, CallsLeft, LowerHead DEF LowerAt, NextCall
<1>6. ASSUME NEW b \in Buf, NEW i \in 1..4, StageAt(b, i, asked[b]) PROVE todo \in Seq(CallSet) /\ ~Trial
  <2>1. asked[b] \in Nat
    BY DEF Basis, TypeInv
  <2> QED
    BY <1>6, <2>1, CallsLeft, StageHead DEF StageAt, NextCall
<1>7. ASSUME NEW b \in Buf, NEW i \in 1..4, NEW next \in Continuations(b), ReleaseAt(b, i, next)
      PROVE  todo \in Seq(CallSet) /\ ~Trial
  <2>1. next \in Seq(CallSet)
    BY NextCalls
  <2>2. Rest(Release(b), i) # <<>> /\ Rest(Release(b), i) \in Seq(CallSet)
    BY CallsLeft DEF NextCall
  <2>3. Rest(Release(b), i) \o next \in Seq(CallSet)
    BY <2>1, <2>2, ThenStep, Zenon
  <2> QED
    BY <1>7, <2>1, <2>3, ReleaseHead DEF ReleaseAt
<1>8. ASSUME NEW op \in {"compute", "computeId"}, NEW n \in 1..ComputeClasses, ComputeAt(op, n)
      PROVE  todo \in Seq(CallSet) /\ At = "compute"
  <2>1. CallN(op, "compute", n) \in CallSet
    <3>1. n \in Nat /\ op \in Ops /\ "compute" \in Object
      BY ClassAssumption, Names DEF Ops
    <3> QED
      BY <3>1, CallType
  <2> QED
    BY <1>8, <2>1, ComputeHead DEF ComputeAt
<1> QED
  BY <1>1, <1>2, <1>3, <1>4, <1>5, <1>6, <1>7, <1>8, Zenon DEF PhaseInv

\* The kernel has an object under the handle the library holds, unless it is being tried.
LEMMA ExistsHas ==
  ASSUME Basis, NEW x \in Made, Exists(x), ~(Trial /\ At = x) PROVE Has(x) /\ h[x] # 0
<1>1. PICK o \in objs : o.at = x
  BY DEF Exists
<1>2. o.h = h[x] /\ o.h \in 4..(nextHandle - 1) /\ nextHandle \in Nat
  BY <1>1 DEF Basis, ObjInv, OwnHandle, HandleInv, Made
<1> QED
  BY <1>1, <1>2 DEF Has

\* An RM mapping of the channel's memory, or of a buffer's, has its object, and its address space.
LEMMA MappingBacked ==
  ASSUME Basis, Early \/ Midway \/ Serving, NEW k \in klin \cup kdma
  PROVE  (\E o \in objs : o.h = k) /\ (k \in kdma => Exists("vaspace"))
<1>1. PICK m \in Memory : k # 0 /\ h[m] = k
  BY DEF Basis, MapInv
<1>2. m \in Made /\ ~(Trial /\ At = m)
  BY <1>1, MadeNames DEF Basis, ObjInv
<1>3. SUFFICES Exists(m) /\ (k \in kdma => Exists("vaspace"))
  BY <1>1, <1>2, ExistsHas DEF Has
<1>4. CASE Early
  BY <1>1, <1>2, <1>4 DEF Early, Bare
<1>5. ASSUME NEW j \in 1..15, Chan(j), m \in Channel PROVE Exists(m) /\ (k \in kdma => Exists("vaspace"))
  <2>1. /\ MemOk(m, Pg(m), Did(TearDown, j, "free", m), Did(TearDown, j, "unmapCpu", m),
                 Did(TearDown, j, "unmapDma", m), Left(m))
        /\ va[m] => m \in {"notifier", "gpfifo"}
    BY <1>5 DEF Chan, ChanMem
  <2>2. /\ Did(TearDown, j, "free", m) => Did(TearDown, j, "unmapCpu", m)
        /\ m \in {"notifier", "gpfifo"} /\ Did(TearDown, j, "free", m) => Did(TearDown, j, "unmapDma", m)
        /\ m \in {"notifier", "gpfifo"} /\ Did(TearDown, j, "free", "vaspace") => Did(TearDown, j, "unmapDma", m)
    BY <1>5, TearDownOrder
  <2>3. Exists(m)
    BY <1>1, <2>1, <2>2 DEF MemOk
  <2>4. ASSUME k \in kdma PROVE Exists("vaspace")
    <3>1. va[m] /\ ~Did(TearDown, j, "unmapDma", m)
      BY <1>1, <2>1, <2>4 DEF MemOk
    <3> QED
      BY <1>5, <2>1, <2>2, <3>1 DEF Chan, ChanObjs
  <2> QED
    BY <2>3, <2>4
<1>6. CASE Midway
  <2>1. m \notin Buf
    BY <1>1, <1>6 DEF Midway, NoBufs, Nothing, Absent
  <2> QED
    BY <1>5, <1>6, <2>1, Names DEF Midway
<1>7. CASE Serving
  <2>1. CASE m \in Buf
    <3>1. Exists(m)
      BY <1>1, <1>7, <2>1 DEF Serving, BufOk, MemOk
    <3> QED
      BY <1>7, <3>1 DEF Serving, Up, ChanObj, Channel
  <2>2. CASE m \notin Buf
    <3>1. m \in Channel
      BY <2>2, Names
    <3>2. Chan(1) /\ 1 \in 1..15
      BY <1>7 DEF Serving, Up
    <3> QED
      BY <1>5, <3>1, <3>2
  <2> QED
    BY <2>1, <2>2
<1> QED
  BY <1>4, <1>6, <1>7

\* Nothing is freed under a user.
LEMMA BackedHolds ==
  ASSUME Basis, PhaseInv PROVE Backed
<1>1. Early \/ Midway \/ Serving
  BY Views
<1>2. Trial => At \in {"usermode", "compute"}
  BY TodoTyped
<1>3. ASSUME NEW o \in objs, o.parent # "none" PROVE Exists(o.parent)
  <2>1. Exists(o.at) /\ ParentOk(o)
    BY DEF Exists, Basis, ObjInv
  <2>2. CASE Early
    <3>1. o.at \notin Made
      BY <2>1, <2>2 DEF Early, Bare
    <3>2. "compute" \in Made
      BY MadeNames
    <3>3. objs # {}
      BY <1>3
    <3>4. CASE BaseUp
      BY <1>3, <2>1, <3>1, <3>2, <3>4 DEF ParentOk, BaseUp
    <3>5. ASSUME NEW i \in 1..5, Started(i) PROVE Exists(o.parent)
      <4>1. o.at \in Base
        BY <2>1, <3>1 DEF Basis, ObjInv, Made
      <4> QED
        BY <1>3, <2>1, <3>1, <3>2, <3>5, <4>1 DEF ParentOk, Started, Base
    <3> QED
      BY <2>2, <3>3, <3>4, <3>5 DEF Early, BaseDown
  <2>3. CASE Midway
    BY <1>3, <2>1, <2>3 DEF ParentOk, Midway, BaseUp, NoBufs
  <2>4. CASE Serving
    BY <1>3, <2>1, <2>4 DEF ParentOk, Serving, Up, BaseUp, ChanObj, Channel
  <2> QED
    BY <1>1, <2>2, <2>3, <2>4
<1>4. \A k \in klin \cup kdma : (\E o \in objs : o.h = k) /\ (k \in kdma => Exists("vaspace"))
  BY <1>1, MappingBacked
<1>5. ASSUME NEW j \in 1..15, Chan(j)
      PROVE  /\ Exists("ctxdma") => Exists("notifier")
             /\ Exists("channel") =>
                  /\ Has("vaspace") /\ Has("ctxdma") /\ Has("userd")
                  /\ Has("gpfifo") /\ h["gpfifo"] \in kdma
  <2>1. Exists("ctxdma") => Exists("notifier")
    BY <1>5 DEF Chan, ChanObjs
  <2>2. ASSUME Exists("channel")
        PROVE  /\ Has("vaspace") /\ Has("ctxdma") /\ Has("userd")
               /\ Has("gpfifo") /\ h["gpfifo"] \in kdma
    <3>1. Exists("vaspace") /\ Exists("ctxdma") /\ Exists("userd") /\ Exists("gpfifo") /\ va["gpfifo"]
      BY <1>5, <2>2 DEF Chan, ChanObjs
    <3>2. "vaspace" \in Made /\ "ctxdma" \in Made /\ "userd" \in Made /\ "gpfifo" \in Made
      BY MadeNames DEF ChanObj, Channel
    <3>3. Has("vaspace") /\ Has("ctxdma") /\ Has("userd") /\ Has("gpfifo")
      BY <1>2, <3>1, <3>2, ExistsHas
    <3>4. ~Did(TearDown, j, "free", "channel") /\ ~Did(TearDown, j, "unmapDma", "gpfifo")
      BY <1>5, <2>2, TearDownOrder DEF Chan, ChanObjs, ChanObj
    <3>5. h["gpfifo"] \in kdma
      BY <1>5, <3>1, <3>4 DEF Chan, ChanMem, MemOk, Channel
    <3> QED
      BY <3>3, <3>5
  <2> QED
    BY <2>1, <2>2
<1>6. /\ Exists("ctxdma") => Exists("notifier")
      /\ Exists("channel") =>
           /\ Has("vaspace") /\ Has("ctxdma") /\ Has("userd")
           /\ Has("gpfifo") /\ h["gpfifo"] \in kdma
  <2>1. CASE Early
    <3>1. ~Exists("ctxdma") /\ ~Exists("channel")
      BY <2>1, MadeNames DEF Early, Bare, ChanObj
    <3> QED
      BY <3>1
  <2>2. CASE Midway
    BY <1>5, <2>2 DEF Midway
  <2>3. CASE Serving
    <3>1. Chan(1) /\ 1 \in 1..15
      BY <2>3 DEF Serving, Up
    <3> QED
      BY <1>5, <3>1
  <2> QED
    BY <1>1, <2>1, <2>2, <2>3
<1> QED
  BY <1>3, <1>4, <1>6 DEF Backed

\* Between operations the library holds the handle of every object.
LEMMA NoStrayHolds ==
  ASSUME Basis, PhaseInv PROVE NoStray
<1> SUFFICES ASSUME todo = <<>>, NEW o \in objs PROVE h[o.at] = o.h
  BY DEF NoStray, Idle
<1>1. ~Trial
  BY Untried DEF Trial
<1>2. OwnHandle(o) /\ o.at \in Object /\ Exists(o.at)
  BY DEF Basis, ObjInv, Exists
<1>3. CASE o.at \notin Base
  BY <1>1, <1>2, <1>3 DEF OwnHandle
<1>4. CASE o.at \in Base
  <2>1. BaseUp
    BY IdlePhases DEF RmDown, ChanDown, ChanUp, Up, BaseDown
  <2>2. "subdevice" \in Base /\ h["subdevice"] \in {0, 3}
    BY DEF Basis, HandleInv, Base, BaseHandle
  <2> QED
    BY <1>2, <1>4, <2>1, <2>2 DEF OwnHandle, BaseUp, Base, BaseHandle
<1> QED
  BY <1>3, <1>4

(***************************************************************************)
(* Whatever call of rm_init, rm_channel_init, a staging or a clean-up      *)
(* fails, at every call the state is of its type and nothing is freed      *)
(* under a user, and between operations no object is left that the library *)
(* does not know.                                                          *)
(***************************************************************************)
THEOREM NothingLeaks == Spec => []Accounted
<1>1. RmInv => Accounted
  <2> SUFFICES ASSUME RmInv PROVE Accounted
    OBVIOUS
  <2>1. Basis /\ PhaseInv
    BY DEF RmInv
  <2>2. TypeOK
    <3>1. nextHandle \in Nat /\ under \in {"none", "subdevice", "device"} /\ files \subseteq Memory
      BY <2>1 DEF Basis, HandleInv, UnderInv, MapInv
    <3> QED
      BY <2>1, <3>1, TodoTyped DEF Basis, TypeInv, TypeOK
  <2> QED
    BY <2>1, <2>2, BackedHolds, NoStrayHolds DEF Accounted
<1> QED
  BY <1>1, SystemInvariant, PTL

\* A buffer is staged or it is not there.
LEMMA StagedHolds ==
  ASSUME Basis, PhaseInv PROVE StagedOrAbsent
<1> SUFFICES ASSUME todo = <<>>, NEW b \in Buf
             PROVE  \/ Complete(b, size[b]) /\ va[b] /\ h[b] \in kdma /\ size[b] >= asked[b]
                    \/ Absent(b) /\ mapped[b] = 0
  BY DEF StagedOrAbsent, Idle
<1>1. b \in Memory /\ b \in Made /\ b # "gpfifo" /\ ~Trial
  BY Names, MadeNames, Untried DEF Trial, Channel
<1>2. ASSUME Nothing(b) PROVE Absent(b) /\ mapped[b] = 0
  BY <1>1, <1>2 DEF Nothing, Left
<1>3. CASE Bare
  BY <1>1, <1>2, <1>3 DEF Bare
<1>4. CASE Settled(b) /\ ~Nothing(b)
  <2>1. Has(b)
    BY <1>1, <1>4, ExistsHas DEF Settled, Whole
  <2> QED
    BY <1>4, <2>1 DEF Settled, Whole, MemOk, Complete
<1> QED
  BY <1>2, <1>3, <1>4, IdlePhases DEF RmDown, ChanDown, ChanUp, Settled

\* The channel is up or it is not there.
LEMMA ChannelHolds ==
  ASSUME Basis, PhaseInv PROVE ChannelOrAbsent
<1> SUFFICES ASSUME todo = <<>>
             PROVE  IF ready
               THEN /\ \A o \in {"vaspace", "ctxdma", "channel"} : Has(o)
                    /\ Complete("notifier", 1) /\ h["notifier"] \in kdma
                    /\ Complete("gpfifo", Pages) /\ h["gpfifo"] \in kdma /\ size["gpfifo"] = Pages
                    /\ Complete("userd", 1)
                    /\ Doorbell => Complete("usermode", 1) /\ Exists(under)
               ELSE /\ \A m \in Channel : Absent(m)
                    /\ ~\E o \in objs : o.at \in {"vaspace", "ctxdma", "channel", "compute"}
                    /\ klin = {} /\ kdma = {}
                    /\ \A m \in Memory : mapped[m] = IF m = "gpfifo" /\ dmaFailed THEN Pages - 1 ELSE 0
  BY Zenon DEF ChannelOrAbsent, Idle
<1>1. ~Trial
  BY Untried DEF Trial
<1>2. CASE Bare
  <2>1. ~ready
    BY <1>2 DEF Bare
  <2>2. \A m \in Memory : Absent(m) /\ mapped[m] = Left(m)
    BY <1>2 DEF Bare, Nothing
  <2>3. ~\E o \in objs : o.at \in {"vaspace", "ctxdma", "channel", "compute"}
    BY <1>2, MadeNames DEF Bare, Exists, ChanObj
  <2>4. klin = {} /\ kdma = {}
    BY <1>2, MadeNames DEF Bare, Basis, MapInv
  <2> QED
    BY <2>1, <2>2, <2>3, <2>4, Names DEF Left
<1>3. CASE ChanUp
  <2>1. Up /\ ready /\ Chan(1)
    BY <1>3 DEF ChanUp, Up
  <2>2. \A op, at : ~Did(TearDown, 1, op, at)
    BY DEF Did
  <2>3. \A o \in ChanObj : Exists(o) => Has(o)
    BY <1>1, ExistsHas, MadeNames
  <2>4. \A m \in Channel : Exists(m) /\ lin[m] => Complete(m, Pg(m)) /\ (va[m] => h[m] \in kdma)
    <3> TAKE m \in Channel
    <3>1. MemOk(m, Pg(m), FALSE, FALSE, FALSE, Left(m)) /\ fd[m]
      BY <2>1, <2>2 DEF Chan, ChanMem, MemOk, Up
    <3> QED
      BY <2>3, <3>1 DEF MemOk, Complete, ChanObj
  <2>5. /\ Complete("notifier", 1) /\ h["notifier"] \in kdma
        /\ Complete("gpfifo", Pages) /\ h["gpfifo"] \in kdma /\ Complete("userd", 1)
    BY <2>1, <2>4 DEF Up, ChanObj, Channel, Pg
  <2>6. size["gpfifo"] = Pages
    BY <2>1 DEF Up, Chan, ChanMem, Channel
  <2>7. Doorbell => Complete("usermode", 1) /\ Exists(under)
    <3>1. Doorbell => Complete("usermode", 1) /\ under # "none"
      BY <2>1, <2>4 DEF Up, Channel, Pg
    <3> QED
      BY <2>1, <3>1 DEF Basis, UnderInv, Up, BaseUp
  <2>8. \A o \in {"vaspace", "ctxdma", "channel"} : Has(o)
    BY <2>1, <2>3 DEF Up, ChanObj, Channel
  <2> QED
    BY <2>1, <2>5, <2>6, <2>7, <2>8
<1> QED
  BY <1>2, <1>3, IdlePhases DEF RmDown, ChanDown

(***************************************************************************)
(* After rm_stage_alloc or rm_channel_init returned, wherever it failed, a *)
(* buffer and the channel are whole or nothing of them is left.            *)
(***************************************************************************)
THEOREM WholeAfterFailure == Spec => []WholeOrAbsent
<1>1. RmInv => WholeOrAbsent
  BY StagedHolds, ChannelHolds DEF RmInv, WholeOrAbsent
<1> QED
  BY <1>1, SystemInvariant, PTL

-----------------------------------------------------------------------------
(***************************************************************************)
(* The service the launch path relies on.                                  *)
(***************************************************************************)
up == ready /\ Has("channel")
compute == Has("compute")
staged == {b \in Buf : Has(b) /\ h[b] \in klin /\ h[b] \in kdma}

\* What the launch path sees of a channel that is up, and of one that is not.
LEMMA ServiceView ==
  Basis /\ PhaseInv => (ready => up) /\ (~ready => ~compute /\ staged = {})
<1> SUFFICES ASSUME Basis, PhaseInv PROVE (ready => up) /\ (~ready => ~compute /\ staged = {})
  OBVIOUS
<1>1. Early \/ Midway \/ Serving
  BY Views
<1>2. \A x : Has(x) => Exists(x)
  BY DEF Has, Exists
<1>3. CASE Early
  <2>1. ~Exists("compute") /\ \A b \in Buf : ~Exists(b)
    BY <1>3, MadeNames, Names DEF Early, Bare
  <2> QED
    BY <1>2, <1>3, <2>1 DEF Early, compute, staged
<1>4. CASE Midway
  BY <1>2, <1>4 DEF Midway, NoBufs, Nothing, Absent, compute, staged
<1>5. CASE Serving
  <2>1. ready /\ Exists("channel") /\ "channel" \in Made
    BY <1>5, MadeNames DEF Serving, Up, ChanObj, Channel
  <2>2. ~(Trial /\ At = "channel")
    BY TodoTyped
  <2> QED
    BY <2>1, <2>2, ExistsHas DEF up
<1> QED
  BY <1>1, <1>3, <1>4, <1>5

\* What the kernel has under the handle the library holds exists, and is not being tried.
LEMMA HasMeans == Basis => \A x \in Made : Has(x) <=> Exists(x) /\ h[x] # 0
<1> SUFFICES ASSUME Basis, NEW x \in Made PROVE Has(x) <=> Exists(x) /\ h[x] # 0
  OBVIOUS
<1>1. Has(x) => Exists(x) /\ h[x] # 0
  BY DEF Has, Exists, Basis, ObjInv, OwnHandle, Made
<1>2. ASSUME Exists(x), h[x] # 0 PROVE Has(x)
  <2>1. ~(Trial /\ At = x)
    BY <1>2 DEF Basis, ObjInv
  <2> QED
    BY <1>2, <2>1, ExistsHas
<1> QED
  BY <1>1, <1>2

\* A step is one of the service's, or is not seen.
LEMMA ServiceKept ==
  ASSUME RmInv, RmInv', ready => ServiceStep, ~ready /\ ready' => UNCHANGED <<h, objs, klin, kdma>>
  PROVE  \/ ~up /\ up' = TRUE /\ compute' \in BOOLEAN /\ staged' = staged
         \/ up /\ compute' = TRUE /\ UNCHANGED <<up, staged>>
         \/ up /\ staged' \in SUBSET Buf /\ UNCHANGED <<up, compute>>
         \/ UNCHANGED <<up, compute, staged>>
<1>1. /\ (ready => up) /\ (~ready => ~compute /\ staged = {}) /\ (~ready => ~up)
  BY ServiceView DEF up, RmInv
<1>2. (ready' => up') /\ (~ready' => ~compute' /\ staged' = {}) /\ (~ready' => ~up')
  <2>1. (RmInv => /\ (ready => up) /\ (~ready => ~compute /\ staged = {}) /\ (~ready => ~up))'
    BY ServiceView, PTL DEF up, RmInv
  <2> QED
    BY <2>1
<1>3. (\A x \in Made : Has(x) <=> Exists(x) /\ h[x] # 0) /\ \A x \in Made : Has(x)' <=> Exists(x)' /\ h'[x] # 0
  <2>1. (Basis => \A x \in Made : Has(x) <=> Exists(x) /\ h[x] # 0)'
    BY HasMeans, PTL
  <2> QED
    BY <2>1, HasMeans DEF RmInv
<1>4. up \in BOOLEAN /\ up' \in BOOLEAN /\ compute \in BOOLEAN /\ compute' \in BOOLEAN /\ staged' \in SUBSET Buf
  BY DEF up, compute, staged, Has
<1>5. CASE ~ready /\ ~ready'
  BY <1>1, <1>2, <1>4, <1>5
<1>6. CASE ~ready /\ ready'
  <2>1. staged' = staged
    BY <1>6 DEF staged, Has
  <2> QED
    BY <1>1, <1>2, <1>4, <1>6, <2>1
<1>7. CASE ready
  <2>1. up /\ up' = TRUE /\ up' = up
    BY <1>1, <1>2, <1>4, <1>7 DEF ServiceStep
  <2>2. ASSUME NEW b \in Buf, OnlyAt(b) PROVE compute' = compute
    <3>1. "compute" \in Object \ {b} /\ "compute" \in Made
      BY Names, MadeNames
    <3> QED
      BY <1>3, <1>4, <2>2, <3>1 DEF OnlyAt, SameObj, compute
  <2>3. ASSUME OnlyAt("compute"), h["compute"] = 0 PROVE staged' = staged
    <3>1. \A b \in Buf : b \in Memory \ {"compute"} /\ b \in Made
      BY Names, MadeNames
    <3>2. \A b \in Buf : Has(b)' <=> Has(b)
      BY <1>3, <2>3, <3>1 DEF OnlyAt, SameMem, SameObj
    <3>3. \A b \in Buf : h'[b] \in klin' /\ h'[b] \in kdma' <=> h[b] \in klin /\ h[b] \in kdma
      BY <2>3, <3>1 DEF OnlyAt, SameMem
    <3> QED
      BY <3>2, <3>3 DEF staged
  <2>4. h["compute"] = 0 => ~compute
    BY <1>3, MadeNames DEF compute
  <2> QED
    BY <1>4, <1>7, <2>1, <2>2, <2>3, <2>4 DEF ServiceStep
<1> QED
  BY <1>5, <1>6, <1>7

\* The channel comes up in a single step, which changes nothing in the kernel.
LEMMA ComesUp ==
  ASSUME Next, ~ready, ready' PROVE UNCHANGED <<h, objs, klin, kdma>>
<1>1. ~StartRm /\ ~StartChannel /\ ~StartCompute
  BY DEF StartRm, StartChannel, StartCompute, lib
<1>2. \A b \in Buf : ~StartRelease(b) /\ \A n \in 1..MaxPages : ~StartStage(b, n)
  BY DEF StartRelease, StartStage, lib
<1>3. ~Query /\ ~Root /\ ~Device /\ ~Subdevice /\ ~RmReady /\ ~OpenAll /\ ~Open /\ ~AllocObject
  BY DEF Query, Root, Device, Subdevice, RmReady, OpenAll, Open, AllocObject, lib
<1>4. ~AllocMemory /\ ~MapCpu /\ ~MapDma /\ ~Usermode /\ ~UserAlloc /\ ~UserMap /\ ~Control
  BY DEF AllocMemory, MapCpu, MapDma, Usermode, UserAlloc, UserMap, Control, lib
<1>5. ~ComputeAlloc /\ ~ComputeId /\ ~UnmapDma /\ ~UnmapCpu /\ ~FreeObject /\ ~Close /\ ~Reset
  BY DEF ComputeAlloc, ComputeId, UnmapDma, UnmapCpu, FreeObject, Close, Reset, lib
<1>6. ChannelReady
  BY <1>1, <1>2, <1>3, <1>4, <1>5, Zenon DEF Next
<1> QED
  BY <1>6 DEF ChannelReady, kernel

(***************************************************************************)
(* Seen by the launch path, rm_channel_init brings up a channel that stays *)
(* up, rm_compute_init obtains a compute object that is kept, and buffers  *)
(* come and go only while the channel is up: the calls in between, and     *)
(* their failures, are not seen.                                           *)
(***************************************************************************)
THEOREM KeepsService == Spec => ImplementsService
<1> USE DEF up, compute, staged
<1>1. Init => Service!Init
  BY DEF Init, Service!Init, Has
<1>2. RmInv /\ RmInv' /\ [Next]_vars => [Service!Next]_(Service!vars)
  <2> SUFFICES ASSUME RmInv, RmInv', [Next]_vars PROVE [Service!Next]_(Service!vars)
    OBVIOUS
  <2>1. CASE Next
    <3>1. ready => ServiceStep
      BY <2>1, StepKeeps DEF RmInv
    <3>2. \/ ~up /\ up' = TRUE /\ compute' \in BOOLEAN /\ staged' = staged
          \/ up /\ compute' = TRUE /\ UNCHANGED <<up, staged>>
          \/ up /\ staged' \in SUBSET Buf /\ UNCHANGED <<up, compute>>
          \/ UNCHANGED <<up, compute, staged>>
      BY <2>1, <3>1, ComesUp, ServiceKept
    <3> QED
      BY <3>2 DEF Service!Next, Service!Start, Service!Obtain, Service!Stage, Service!vars
  <2>2. CASE UNCHANGED vars
    BY <2>2 DEF vars, lib, kernel, Has, Service!vars
  <2> QED
    BY <2>1, <2>2
<1> QED
  BY <1>1, <1>2, SystemInvariant, PTL DEF Spec, ImplementsService, Service!Spec
=============================================================================
