----------------------------- MODULE RmChannel -----------------------------
(***************************************************************************)
(* The RM objects behind the channel: rm_init, rm_channel_init with its    *)
(* usermode page, rm_channel_destroy, rm_compute_init, and the staging     *)
(* buffers, with a failure of every call into the kernel.                  *)
(*                                                                         *)
(* g_lock is held from the first to the last kernel call of an operation,  *)
(* so an operation is the sequence todo of calls it still has to make: a   *)
(* step makes one, and a failure replaces the rest by the clean-up.  What  *)
(* the kernel keeps (objects, mappings, descriptors) is external; unmap,   *)
(* free and close take away what is there.                                 *)
(***************************************************************************)
EXTENDS Naturals, Sequences, FiniteSets

CONSTANTS
  Buf,        \* staging buffers
  Pages,      \* pages of the GPFIFO memory (LANXIN_NVIDIA_CUDA_GPFIFO_BYTES)
  MaxPages,   \* bound: pages of a staging buffer
  Doorbell,   \* LANXIN_NVIDIA_CUDA_DOORBELL is not 0
  UserClasses,    \* usermode classes tried under each parent
  ComputeClasses, \* compute classes tried
  MaxHandle   \* bound: handles drawn

ASSUME PagesAssumption == Pages \in Nat \ {0} /\ MaxPages \in Nat \ {0}
ASSUME ClassAssumption == UserClasses \in Nat \ {0} /\ ComputeClasses \in Nat \ {0}
ASSUME FlagAssumption  == Doorbell \in BOOLEAN /\ MaxHandle \in Nat
ASSUME BufAssumption   ==
  Buf \cap {"notifier", "gpfifo", "userd", "usermode", "client", "device", "subdevice",
            "vaspace", "ctxdma", "channel", "compute"} = {}

Memory == {"notifier", "gpfifo", "userd", "usermode"} \cup Buf   \* what is mapped
Object == Memory \cup {"client", "device", "subdevice", "vaspace", "ctxdma", "channel", "compute"}

VARIABLES
  rm,         \* rm_attempted / rm_ready: "new", "ready" or "failed"
  attempted,  \* rm_channel_attempted
  ready,      \* rm_channel_ready
  h,          \* object -> handle the library keeps for it, 0 for none
  cpu,        \* memory -> pages behind its cpu pointer, 0 for NULL
  lin,        \* memory -> the linear address of its RM mapping is set
  va,         \* memory -> its GPU address is set
  fd,         \* memory -> its file descriptor is open in the library's eyes
  size,       \* memory -> size the library keeps for it, in pages
  under,      \* rm_usermode_parent
  nextHandle, \* g.next_rm_handle
  todo,       \* kernel calls the operation in progress has to make
  objs,       \* kernel: objects, with the handle and the parent of each
  mapped,     \* kernel: memory -> pages mapped into the process
  klin,       \* kernel: handles with an RM mapping
  kdma,       \* kernel: handles mapped in the GPU address space
  files,      \* kernel: open descriptors
  asked,      \* history: buffer -> pages the last staging asked for
  dmaFailed   \* history: the GPU mapping of the GPFIFO failed

lib    == <<rm, attempted, ready, h, cpu, lin, va, fd, size, under>>
kernel == <<objs, mapped, klin, kdma, files>>
hist   == <<asked, dmaFailed>>
vars   == <<lib, nextHandle, todo, kernel, hist>>

\* A kernel call about an object; n is a number of pages or of tries left.
CallN(op, at, n) == [op |-> op, at |-> at, n |-> n]
Call(op, at) == CallN(op, at, 0)

Init ==
  /\ rm = "new" /\ attempted = FALSE /\ ready = FALSE
  /\ h = [o \in Object |-> 0] /\ under = "none"
  /\ cpu = [m \in Memory |-> 0] /\ size = [m \in Memory |-> 0]
  /\ lin = [m \in Memory |-> FALSE] /\ va = [m \in Memory |-> FALSE]
  /\ fd = [m \in Memory |-> FALSE]
  /\ nextHandle = 4 /\ todo = <<>>
  /\ objs = {} /\ mapped = [m \in Memory |-> 0]
  /\ klin = {} /\ kdma = {} /\ files = {}
  /\ asked = [b \in Buf |-> 0] /\ dmaFailed = FALSE

-----------------------------------------------------------------------------
(***************************************************************************)
(* The operations as sequences of calls.                                   *)
(***************************************************************************)
RmInit == <<Call("query", "client"), Call("root", "client"), Call("device", "device"),
            Call("subdevice", "subdevice"), Call("rmReady", "client")>>

Channel == {"notifier", "gpfifo", "userd", "usermode"}

BringUp ==
  <<Call("openAll", "channel"), Call("object", "vaspace"),
    CallN("memory", "notifier", 1), CallN("mapCpu", "notifier", 1), Call("mapDma", "notifier"),
    Call("object", "ctxdma"),
    CallN("memory", "gpfifo", Pages), CallN("mapCpu", "gpfifo", Pages), Call("mapDma", "gpfifo"),
    CallN("memory", "userd", 1), CallN("mapCpu", "userd", 1),
    Call("usermode", "usermode"), Call("object", "channel"),
    Call("control", "channel"), Call("channelReady", "channel")>>

\* Mutant: the address space goes before the mappings that live in it.
TearDownSpaceFirst ==
  <<Call("free", "compute"), Call("free", "channel"), Call("free", "vaspace"),
    Call("unmapCpu", "usermode"), Call("free", "usermode"),
    Call("unmapCpu", "userd"), Call("free", "userd"),
    Call("unmapDma", "gpfifo"), Call("unmapCpu", "gpfifo"), Call("free", "gpfifo"),
    Call("free", "ctxdma"),
    Call("unmapCpu", "notifier"), Call("unmapDma", "notifier"), Call("free", "notifier"),
    Call("reset", "channel")>>

TearDown ==
  <<Call("free", "compute"), Call("free", "channel"),
    Call("unmapCpu", "usermode"), Call("free", "usermode"),
    Call("unmapCpu", "userd"), Call("free", "userd"),
    Call("unmapDma", "gpfifo"), Call("unmapCpu", "gpfifo"), Call("free", "gpfifo"),
    Call("free", "ctxdma"),
    Call("unmapCpu", "notifier"), Call("unmapDma", "notifier"), Call("free", "notifier"),
    Call("free", "vaspace"), Call("reset", "channel")>>

Stage(b, n) ==
  <<Call("open", b), CallN("memory", b, n), CallN("mapCpu", b, n), Call("mapDma", b)>>

Release(b) == <<Call("unmapDma", b), Call("unmapCpu", b), Call("free", b), Call("close", b)>>

\* Mutant: a buffer that cannot be staged takes the channel with it.
UndoAll(at) == TearDown

\* Where a failure goes on: a buffer is released, the channel is destroyed.
Undo(at) ==
  IF at \in Buf THEN Release(at) ELSE TearDown

Doing(op) == todo # <<>> /\ Head(todo).op = op
At == Head(todo).at
Done == todo' = Tail(todo)

-----------------------------------------------------------------------------
(***************************************************************************)
(* The entry points.                                                       *)
(***************************************************************************)
\* ensure_initialized_locked: rm_init_locked is tried once.
StartRm ==
  /\ todo = <<>> /\ rm = "new"
  /\ rm' = "failed" /\ todo' = RmInit
  /\ UNCHANGED <<attempted, ready, h, cpu, lin, va, fd, size, under, nextHandle, kernel, hist>>

\* rm_channel_init_locked: tried once, and only when RM is up.
StartChannel ==
  /\ todo = <<>> /\ rm # "new" /\ ~attempted
  /\ attempted' = TRUE /\ todo' = IF rm = "ready" THEN BringUp ELSE <<>>
  /\ UNCHANGED <<rm, ready, h, cpu, lin, va, fd, size, under, nextHandle, kernel, hist>>

\* Mutant: a mapped buffer is reused whatever its size.
ReusableAnySize(b, n) == h[b] # 0 /\ cpu[b] # 0 /\ va[b]
Reusable(b, n) == h[b] # 0 /\ cpu[b] # 0 /\ va[b] /\ size[b] >= n

\* rm_stage_alloc_locked: a buffer that will do is cleared and kept.
StartStage(b, n) ==
  /\ todo = <<>> /\ attempted /\ nextHandle <= MaxHandle
  /\ todo' = IF Reusable(b, n) THEN <<>>
             ELSE (IF h[b] = 0 THEN <<>> ELSE Release(b)) \o (IF ready THEN Stage(b, n) ELSE <<>>)
  /\ asked' = [asked EXCEPT ![b] = n]
  /\ UNCHANGED <<lib, nextHandle, kernel, dmaFailed>>

\* rm_stage_release_locked, when a module is unloaded.
StartRelease(b) ==
  /\ todo = <<>> /\ h[b] # 0 /\ todo' = Release(b)
  /\ UNCHANGED <<lib, nextHandle, kernel, hist>>

\* rm_compute_init_locked: tried again by every launch until it succeeds.
StartCompute ==
  /\ todo = <<>> /\ ready /\ h["compute"] = 0 /\ nextHandle <= MaxHandle
  /\ todo' = <<CallN("compute", "compute", ComputeClasses)>>
  /\ UNCHANGED <<lib, nextHandle, kernel, hist>>

-----------------------------------------------------------------------------
(***************************************************************************)
(* rm_init_locked, call by call.  Without a device the client is freed;    *)
(* without a subdevice RM is used all the same.                            *)
(***************************************************************************)
Obj(at, handle, parent) == [at |-> at, h |-> handle, parent |-> parent]
Exists(at) == \E o \in objs : o.at = at
Without(handle) == {o \in objs : o.h # handle}

Query ==
  /\ Doing("query")
  /\ Done \/ todo' = <<>>
  /\ UNCHANGED <<lib, nextHandle, kernel, hist>>

Root ==
  /\ Doing("root")
  /\ \/ objs' = {Obj("client", 1, "none")} /\ Done
     \/ objs' = {} /\ todo' = <<>>
  /\ UNCHANGED <<lib, nextHandle, mapped, klin, kdma, files, hist>>

\* Mutant: the client stays behind.
DeviceNoUndo ==
  /\ Doing("device")
  /\ \/ objs' = objs \cup {Obj("device", 2, "client")} /\ Done
     \/ objs' = objs /\ todo' = <<>>
  /\ UNCHANGED <<lib, nextHandle, mapped, klin, kdma, files, hist>>

Device ==
  /\ Doing("device")
  /\ \/ objs' = objs \cup {Obj("device", 2, "client")} /\ Done
     \/ objs' = Without(1) /\ todo' = <<>>
  /\ UNCHANGED <<lib, nextHandle, mapped, klin, kdma, files, hist>>

Subdevice ==
  /\ Doing("subdevice") /\ Done
  /\ objs' \in {objs, objs \cup {Obj("subdevice", 3, "device")}}
  /\ UNCHANGED <<lib, nextHandle, mapped, klin, kdma, files, hist>>

RmReady ==
  /\ Doing("rmReady") /\ Done
  /\ rm' = "ready"
  /\ h' = [h EXCEPT !["client"] = 1, !["device"] = 2,
                    !["subdevice"] = IF Exists("subdevice") THEN 3 ELSE 0]
  /\ UNCHANGED <<attempted, ready, cpu, lin, va, fd, size, under, nextHandle, kernel, hist>>

-----------------------------------------------------------------------------
(***************************************************************************)
(* The calls of a bring-up and of a staging.  A handle is drawn, and kept, *)
(* before the call that may fail.                                          *)
(***************************************************************************)
\* Mutant: a failed open returns at once.
OpenAllReturning ==
  /\ Doing("openAll")
  /\ \E opened \in SUBSET Channel :
       /\ files' = files \cup opened
       /\ fd' = [m \in Memory |-> IF m \in Channel THEN m \in opened ELSE fd[m]]
       /\ IF opened = Channel THEN Done ELSE todo' = <<>>
  /\ UNCHANGED <<rm, attempted, ready, h, cpu, lin, va, size, under, nextHandle,
                 objs, mapped, klin, kdma, hist>>

\* All four descriptors are opened before any is looked at.
OpenAll ==
  /\ Doing("openAll")
  /\ \E opened \in SUBSET Channel :
       /\ files' = files \cup opened
       /\ fd' = [m \in Memory |-> IF m \in Channel THEN m \in opened ELSE fd[m]]
       /\ IF opened = Channel THEN Done ELSE todo' = TearDown
  /\ UNCHANGED <<rm, attempted, ready, h, cpu, lin, va, size, under, nextHandle,
                 objs, mapped, klin, kdma, hist>>

\* A staging buffer that gets no descriptor is left empty.
Open ==
  /\ Doing("open")
  /\ \/ files' = files \cup {At} /\ fd' = [fd EXCEPT ![At] = TRUE] /\ Done
     \/ UNCHANGED <<files, fd>> /\ todo' = <<>>
  /\ UNCHANGED <<rm, attempted, ready, h, cpu, lin, va, size, under, nextHandle,
                 objs, mapped, klin, kdma, hist>>

NewHandle == nextHandle' = nextHandle + 1

\* rm_alloc_object_locked and rm_alloc_ctxdma_locked; the context DMA is the client's.
ObjectParent == IF At = "ctxdma" THEN "client" ELSE "device"

AllocObject ==
  /\ Doing("object") /\ NewHandle
  /\ h' = [h EXCEPT ![At] = nextHandle]
  /\ \/ objs' = objs \cup {Obj(At, nextHandle, ObjectParent)} /\ Done
     \/ objs' = objs /\ todo' = TearDown
  /\ UNCHANGED <<rm, attempted, ready, cpu, lin, va, fd, size, under, mapped, klin, kdma, files, hist>>

\* rm_alloc_memory_locked; a staging buffer's size is set here.
AllocMemory ==
  /\ Doing("memory") /\ NewHandle
  /\ h' = [h EXCEPT ![At] = nextHandle]
  /\ size' = IF At \in Buf THEN [size EXCEPT ![At] = Head(todo).n] ELSE size
  /\ \/ objs' = objs \cup {Obj(At, nextHandle, "device")} /\ Done
     \/ objs' = objs /\ todo' = Undo(At)
  /\ UNCHANGED <<rm, attempted, ready, cpu, lin, va, fd, under, mapped, klin, kdma, files, hist>>

\* rm_map_cpu_locked: when the mmap fails the RM mapping is taken back.
MapCpu ==
  /\ Doing("mapCpu")
  /\ \/ /\ cpu' = [cpu EXCEPT ![At] = Head(todo).n] /\ lin' = [lin EXCEPT ![At] = TRUE]
        /\ mapped' = [mapped EXCEPT ![At] = Head(todo).n] /\ klin' = klin \cup {h[At]}
        /\ Done
     \/ UNCHANGED <<cpu, lin, mapped, klin>> /\ todo' = Undo(At)
  /\ UNCHANGED <<rm, attempted, ready, h, va, fd, size, under, nextHandle, objs, kdma, files, hist>>

\* rm_map_dma_locked; the GPFIFO's size is recorded only now.
MapDma ==
  /\ Doing("mapDma")
  /\ \/ /\ va' = [va EXCEPT ![At] = TRUE] /\ kdma' = kdma \cup {h[At]}
        /\ size' = IF At = "gpfifo" THEN [size EXCEPT ![At] = Pages] ELSE size
        /\ dmaFailed' = dmaFailed /\ Done
     \/ /\ UNCHANGED <<va, kdma, size>> /\ todo' = Undo(At)
        /\ dmaFailed' = (dmaFailed \/ At = "gpfifo")
  /\ UNCHANGED <<rm, attempted, ready, h, cpu, lin, fd, under, nextHandle, objs, mapped, klin, files, asked>>
-----------------------------------------------------------------------------
(***************************************************************************)
(* rm_alloc_usermode_locked: every class under every parent, until one can *)
(* be allocated and mapped.  The handle of a try is kept only when it is.  *)
(***************************************************************************)
Tries == UserClasses * IF h["subdevice"] # 0 THEN 2 ELSE 1
Parent == IF Head(todo).n > UserClasses THEN "subdevice" ELSE "device"

\* The next try, or what is done when there is none left.
NextTry(op, otherwise) ==
  todo' = IF Head(todo).n > 1 THEN <<CallN(op, At, Head(todo).n - 1)>> \o Tail(todo) ELSE otherwise
Then(op) == todo' = <<CallN(op, At, Head(todo).n)>> \o Tail(todo)

Usermode ==
  /\ Doing("usermode")
  /\ IF Doorbell THEN todo' = <<CallN("userAlloc", At, Tries)>> \o Tail(todo) ELSE Done
  /\ UNCHANGED <<lib, nextHandle, kernel, hist>>

UserAlloc ==
  /\ Doing("userAlloc") /\ NewHandle
  /\ \/ objs' = objs \cup {Obj(At, nextHandle, Parent)} /\ Then("userMap")
     \/ objs' = objs /\ NextTry("userAlloc", TearDown)
  /\ UNCHANGED <<lib, mapped, klin, kdma, files, hist>>

\* Mutant: the object of a try that cannot be mapped stays allocated.
UserMapNoFree ==
  /\ Doing("userMap")
  /\ LET handle == nextHandle - 1 IN
       \/ /\ h' = [h EXCEPT ![At] = handle] /\ under' = Parent
          /\ cpu' = [cpu EXCEPT ![At] = 1] /\ lin' = [lin EXCEPT ![At] = TRUE]
          /\ mapped' = [mapped EXCEPT ![At] = 1] /\ klin' = klin \cup {handle}
          /\ objs' = objs /\ Done
       \/ /\ NextTry("userAlloc", TearDown)
          /\ UNCHANGED <<h, under, cpu, lin, mapped, klin, objs>>
  /\ UNCHANGED <<rm, attempted, ready, va, fd, size, nextHandle, kdma, files, hist>>

UserMap ==
  /\ Doing("userMap")
  /\ LET handle == nextHandle - 1 IN
       \/ /\ h' = [h EXCEPT ![At] = handle] /\ under' = Parent
          /\ cpu' = [cpu EXCEPT ![At] = 1] /\ lin' = [lin EXCEPT ![At] = TRUE]
          /\ mapped' = [mapped EXCEPT ![At] = 1] /\ klin' = klin \cup {handle}
          /\ objs' = objs /\ Done
       \/ /\ objs' = Without(handle) /\ NextTry("userAlloc", TearDown)
          /\ UNCHANGED <<h, under, cpu, lin, mapped, klin>>
  /\ UNCHANGED <<rm, attempted, ready, va, fd, size, nextHandle, kdma, files, hist>>

\* Bind, schedule, the token and its notifier; a doorbell needs a token.
Control ==
  /\ Doing("control")
  /\ Done \/ todo' = TearDown
  /\ UNCHANGED <<lib, nextHandle, kernel, hist>>

ChannelReady ==
  /\ Doing("channelReady") /\ Done
  /\ ready' = TRUE
  /\ UNCHANGED <<rm, attempted, h, cpu, lin, va, fd, size, under, nextHandle, kernel, hist>>

-----------------------------------------------------------------------------
(***************************************************************************)
(* rm_compute_init_locked: the first class that can be allocated and has   *)
(* an engine id; the objects of the others are freed.                      *)
(***************************************************************************)
ComputeAlloc ==
  /\ Doing("compute") /\ NewHandle
  /\ \/ objs' = objs \cup {Obj(At, nextHandle, "channel")} /\ Then("computeId")
     \/ objs' = objs /\ NextTry("compute", <<>>)
  /\ UNCHANGED <<lib, mapped, klin, kdma, files, hist>>

ComputeId ==
  /\ Doing("computeId")
  /\ LET handle == nextHandle - 1 IN
       \/ h' = [h EXCEPT ![At] = handle] /\ objs' = objs /\ Done
       \/ h' = h /\ objs' = Without(handle) /\ NextTry("compute", <<>>)
  /\ UNCHANGED <<rm, attempted, ready, cpu, lin, va, fd, size, under, nextHandle,
                 mapped, klin, kdma, files, hist>>

-----------------------------------------------------------------------------
(***************************************************************************)
(* The calls of a clean-up: each undoes what the library believes is       *)
(* there; handles that were drawn but never allocated free nothing.        *)
(***************************************************************************)
UnmapDma ==
  /\ Doing("unmapDma") /\ Done
  /\ kdma' = IF h["vaspace"] # 0 /\ h[At] # 0 /\ va[At] THEN kdma \ {h[At]} ELSE kdma
  /\ UNCHANGED <<lib, nextHandle, objs, mapped, klin, files, hist>>

\* Mutant: memory without a recorded size is unmapped as if it were the GPFIFO.
UnmapCpuPages ==
  /\ Doing("unmapCpu") /\ Done
  /\ LET pages == IF size[At] # 0 THEN size[At] ELSE Pages IN
       mapped' = IF cpu[At] # 0 THEN [mapped EXCEPT ![At] = @ - pages] ELSE mapped
  /\ klin' = IF h[At] # 0 /\ lin[At] THEN klin \ {h[At]} ELSE klin
  /\ UNCHANGED <<lib, nextHandle, objs, kdma, files, hist>>

\* The channel's memory is unmapped by its recorded size, or one page.
UnmapCpu ==
  /\ Doing("unmapCpu") /\ Done
  /\ LET pages == IF size[At] # 0 THEN size[At] ELSE 1 IN
       mapped' = IF cpu[At] # 0 THEN [mapped EXCEPT ![At] = @ - pages] ELSE mapped
  /\ klin' = IF h[At] # 0 /\ lin[At] THEN klin \ {h[At]} ELSE klin
  /\ UNCHANGED <<lib, nextHandle, objs, kdma, files, hist>>

FreeObject ==
  /\ Doing("free") /\ Done
  /\ objs' = Without(h[At])
  /\ UNCHANGED <<lib, nextHandle, mapped, klin, kdma, files, hist>>

Forget(s) ==
  /\ cpu' = [m \in Memory |-> IF m \in s THEN 0 ELSE cpu[m]]
  /\ lin' = [m \in Memory |-> m \notin s /\ lin[m]]
  /\ va' = [m \in Memory |-> m \notin s /\ va[m]]
  /\ size' = [m \in Memory |-> IF m \in s THEN 0 ELSE size[m]]
  /\ files' = files \ {m \in s : fd[m]}
  /\ fd' = [m \in Memory |-> m \notin s /\ fd[m]]

Close ==
  /\ Doing("close") /\ Done
  /\ Forget({At}) /\ h' = [h EXCEPT ![At] = 0]
  /\ UNCHANGED <<rm, attempted, ready, under, nextHandle, objs, mapped, klin, kdma, hist>>

Reset ==
  /\ Doing("reset") /\ Done
  /\ Forget(Channel)
  /\ h' = [o \in Object |-> IF o \in Buf \cup {"client", "device", "subdevice"} THEN h[o] ELSE 0]
  /\ under' = "none" /\ ready' = FALSE
  /\ UNCHANGED <<rm, attempted, nextHandle, objs, mapped, klin, kdma, hist>>

-----------------------------------------------------------------------------
Next ==
  \/ StartRm \/ StartChannel \/ StartCompute
  \/ \E b \in Buf : StartRelease(b) \/ \E n \in 1..MaxPages : StartStage(b, n)
  \/ Query \/ Root \/ Device \/ Subdevice \/ RmReady
  \/ OpenAll \/ Open \/ AllocObject \/ AllocMemory \/ MapCpu \/ MapDma
  \/ Usermode \/ UserAlloc \/ UserMap \/ Control \/ ChannelReady
  \/ ComputeAlloc \/ ComputeId
  \/ UnmapDma \/ UnmapCpu \/ FreeObject \/ Close \/ Reset

Spec == Init /\ [][Next]_vars

-----------------------------------------------------------------------------
(***************************************************************************)
(* Properties.                                                             *)
(***************************************************************************)
Idle == todo = <<>>
Has(at) == \E o \in objs : o.at = at /\ o.h = h[at]

Ops == {"query", "root", "device", "subdevice", "rmReady", "openAll", "open", "object", "memory",
        "mapCpu", "mapDma", "usermode", "userAlloc", "userMap", "control", "channelReady",
        "compute", "computeId", "unmapDma", "unmapCpu", "free", "close", "reset"}
CallSet == [op : Ops, at : Object, n : Nat]

\* Type correctness.
TypeOK ==
  /\ rm \in {"new", "ready", "failed"} /\ attempted \in BOOLEAN /\ ready \in BOOLEAN
  /\ h \in [Object -> Nat] /\ under \in {"none", "subdevice", "device"}
  /\ cpu \in [Memory -> Nat] /\ size \in [Memory -> Nat]
  /\ lin \in [Memory -> BOOLEAN] /\ va \in [Memory -> BOOLEAN] /\ fd \in [Memory -> BOOLEAN]
  /\ nextHandle \in Nat /\ todo \in Seq(CallSet)
  /\ objs \subseteq [at : Object, h : Nat, parent : Object \cup {"none"}]
  /\ mapped \in [Memory -> Nat] /\ klin \subseteq Nat /\ kdma \subseteq Nat /\ files \subseteq Memory

(***************************************************************************)
(* At every single kernel call, bring-up or clean-up: an object has its    *)
(* parent, a mapping its object and its address space, and the channel the *)
(* memory the GPU uses on its behalf.  Nothing is freed under a user.      *)
(***************************************************************************)
Backed ==
  /\ \A o \in objs : o.parent # "none" => Exists(o.parent)
  /\ \A k \in klin \cup kdma : \E o \in objs : o.h = k
  /\ kdma # {} => Exists("vaspace")
  /\ Exists("ctxdma") => Exists("notifier")
  /\ Exists("channel") =>
       /\ Has("vaspace") /\ Has("ctxdma") /\ Has("userd")
       /\ Has("gpfifo") /\ h["gpfifo"] \in kdma

(***************************************************************************)
(* Between operations every kernel object is one the library holds the     *)
(* handle of: no failed try, no failed bring-up and no failed staging      *)
(* leaves one behind.                                                      *)
(***************************************************************************)
NoStray == Idle => \A o \in objs : h[o.at] = o.h

\* A buffer or the channel's memory m is completely there, or nothing of it is.
Complete(m, pages) ==
  /\ Has(m) /\ h[m] \in klin /\ lin[m] /\ cpu[m] = pages /\ mapped[m] = pages
  /\ fd[m] /\ m \in files
Absent(m) ==
  /\ h[m] = 0 /\ ~Exists(m) /\ ~lin[m] /\ ~va[m] /\ cpu[m] = 0 /\ size[m] = 0
  /\ ~fd[m] /\ m \notin files

(***************************************************************************)
(* Between operations a staging buffer is mapped, for the CPU and for the  *)
(* GPU, with at least the pages last asked for, or it is not there at all. *)
(***************************************************************************)
StagedOrAbsent ==
  Idle => \A b \in Buf :
    \/ Complete(b, size[b]) /\ va[b] /\ h[b] \in kdma /\ size[b] >= asked[b]
    \/ Absent(b) /\ mapped[b] = 0

(***************************************************************************)
(* A channel that is up has everything it needs; one that is not has given *)
(* everything back, except that when the GPU mapping of the GPFIFO fails   *)
(* all of its pages but one stay mapped into the process.                  *)
(***************************************************************************)
ChannelOrAbsent ==
  Idle =>
    IF ready
      THEN /\ \A o \in {"vaspace", "ctxdma", "channel"} : Has(o)
           /\ Complete("notifier", 1) /\ h["notifier"] \in kdma
           /\ Complete("gpfifo", Pages) /\ h["gpfifo"] \in kdma /\ size["gpfifo"] = Pages
           /\ Complete("userd", 1)
           /\ Doorbell => Complete("usermode", 1) /\ Exists(under)
      ELSE /\ \A m \in Channel : Absent(m)
           /\ ~\E o \in objs : o.at \in {"vaspace", "ctxdma", "channel", "compute"}
           /\ klin = {} /\ kdma = {}
           /\ \A m \in Memory : mapped[m] = IF m = "gpfifo" /\ dmaFailed THEN Pages - 1 ELSE 0

(***************************************************************************)
(* At every kernel call, also after one has failed, what the library has   *)
(* and what the kernel has is of its type, backed and accounted for.       *)
(***************************************************************************)
Accounted == TypeOK /\ Backed /\ NoStray

(***************************************************************************)
(* After an operation that failed anywhere, staging buffers and channel    *)
(* are whole or absent.                                                    *)
(***************************************************************************)
WholeOrAbsent == StagedOrAbsent /\ ChannelOrAbsent

(***************************************************************************)
(* What the launch path relies on: seen through the kernel's state, the    *)
(* channel that is up stays up, the compute object is kept, and buffers    *)
(* are mapped only for such a channel.                                     *)
(***************************************************************************)
Service == INSTANCE ChannelService WITH
  Buffer  <- Buf,
  up      <- ready /\ Has("channel"),
  compute <- Has("compute"),
  staged  <- {b \in Buf : Has(b) /\ h[b] \in klin /\ h[b] \in kdma}

ImplementsService == Service!Spec
=============================================================================
