------------------------------ MODULE Runtime ------------------------------
(***************************************************************************)
(* What libcudart keeps besides the registrations of ModuleTable: the      *)
(* table of allocations, by which cudaFree picks the allocator and a copy  *)
(* of kind cudaMemcpyDefault its direction, the call configuration a       *)
(* <<<...>>> leaves for the launch, and the last error.                    *)
(*                                                                         *)
(* A call is a sequence of steps, each one section of libcudart's g_lock,  *)
(* a call of libcuda or of the C library, or the write of the last error.  *)
(*                                                                         *)
(* External: memory is a set of blocks in one address space, those of      *)
(* libcuda, of posix_memalign and the program's own, and addresses are     *)
(* used again.  Assumed of the program: it passes pointers it was given,   *)
(* frees each once with no other call on it in progress, and unregisters   *)
(* what it registered before it unmaps it.                                 *)
(***************************************************************************)
EXTENDS Naturals, Sequences, FiniteSets, SequencesExt

CONSTANTS
  Thread,
  Top,        \* bound: addresses are 1..Top
  Sizes,      \* byte counts asked for
  MaxBlocks,  \* bound: blocks at a time
  Config,     \* call configurations
  MaxNest,    \* bound: launches whose arguments are being evaluated
  Uses        \* what the threads of a program do

ASSUME SizesAssumption == Sizes \subseteq Nat /\ Top \in Nat
ASSUME BoundAssumption == MaxBlocks \in Nat /\ MaxNest \in Nat
ASSUME ConfigAssumption == Config # {}
ASSUME UsesAssumption  == Uses \subseteq [Thread -> SUBSET {"device", "host", "user", "copy", "launch"}]

Addr == 1..Top

VARIABLES
  use,        \* what each thread does
  mem,        \* blocks
  table,      \* g_allocs, newest first
  registered, \* what the program has registered
  op,         \* thread -> the call it is in
  tls,        \* thread -> tls_has_config, tls_grid and the rest
  last,       \* g_last_error
  pending,    \* history: thread -> configurations of launches not made yet, innermost first
  unrecorded  \* history: pointers there was no memory for an entry for

vars == <<use, mem, table, registered, op, tls, last, pending, unrecorded>>

Idle == [todo |-> <<>>, on |-> {}, dst |-> 0, src |-> 0, err |-> FALSE]

Init ==
  /\ use \in Uses
  /\ mem = {} /\ table = <<>> /\ registered = {}
  /\ op = [t \in Thread |-> Idle]
  /\ tls \in [Thread -> [has : {FALSE}, config : {CHOOSE c \in Config : TRUE}]]
  /\ last = FALSE /\ pending = [t \in Thread |-> <<>>] /\ unrecorded = {}

-----------------------------------------------------------------------------
(***************************************************************************)
(* Blocks.  An empty one still takes an address.                           *)
(***************************************************************************)
Block(kind, at, size) == [kind |-> kind, at |-> at, size |-> size]
End(b) == b.at + IF b.size = 0 THEN 1 ELSE b.size
Bytes(b) == b.at..(b.at + b.size - 1)
Fits(b) ==
  /\ End(b) <= Top + 1 /\ Cardinality(mem) < MaxBlocks
  /\ \A c \in mem : End(b) <= c.at \/ End(c) <= b.at
InUse(b) == \E t \in Thread : b \in op[t].on
Ready(t, what) == op[t] = Idle /\ what \in use[t]
Doing(t, step) == op[t].todo # <<>> /\ Head(op[t].todo) = step

-----------------------------------------------------------------------------
(***************************************************************************)
(* The table.                                                              *)
(***************************************************************************)
Entry(ptr, bytes, host) == [ptr |-> ptr, bytes |-> bytes, host |-> host]

\* Mutant: any entry the pointer is in will do.
PositionInside(ptr) ==
  SelectInSeq(table, LAMBDA a : a.ptr <= ptr /\ ptr <= a.ptr + a.bytes)
\* The first entry of a pointer, 0 if there is none.
Position(ptr) == SelectInSeq(table, LAMBDA a : a.ptr = ptr)

RemoveAlloc(ptr) ==
  table' = IF Position(ptr) = 0 THEN table ELSE RemoveAt(table, Position(ptr))

\* Mutant: the end of an allocation counts as inside.
IsDevicePtrClosed(p) ==
  \E i \in DOMAIN table :
    ~table[i].host /\ table[i].ptr <= p /\ p <= table[i].ptr + table[i].bytes
IsDevicePtr(p) ==
  \E i \in DOMAIN table :
    ~table[i].host /\ table[i].ptr <= p /\ p < table[i].ptr + table[i].bytes

-----------------------------------------------------------------------------
(***************************************************************************)
(* The calls.  An allocation is made first and entered in the table later. *)
(***************************************************************************)
Begin(t, todo, on, dst, src) ==
  op' = [op EXCEPT ![t] = [todo |-> todo, on |-> on, dst |-> dst, src |-> src, err |-> FALSE]]

Allocate(t, kind, n) ==
  \E at \in Addr :
    LET b == Block(kind, at, n) IN
      /\ Ready(t, kind) /\ Fits(b)
      /\ mem' = mem \cup {b}
      /\ Begin(t, <<"add", "set_last">>, {b}, at, 0)
      /\ UNCHANGED <<use, table, registered, tls, last, pending, unrecorded>>

\* cudaMalloc, cudaMallocManaged; cudaHostAlloc, cudaMallocHost.
Malloc(t, n) == Allocate(t, "device", n)
HostAlloc(t, n) == Allocate(t, "host", n)

AllocateFails(t) ==
  /\ \E kind \in {"device", "host"} : Ready(t, kind)
  /\ op' = [op EXCEPT ![t] = [todo |-> <<"set_last">>, on |-> {}, dst |-> 0, src |-> 0, err |-> TRUE]]
  /\ UNCHANGED <<use, mem, table, registered, tls, last, pending, unrecorded>>

Call(t, todo, on, dst, src) ==
  Begin(t, todo, on, dst, src)
  /\ UNCHANGED <<use, mem, table, registered, tls, last, pending, unrecorded>>

\* cudaFree takes memory of either allocator.
\* Mutant: memory is freed before its entry is removed.
FreeMemoryFirst(t, b) ==
  /\ Ready(t, b.kind) /\ b.kind \in {"device", "host"} /\ ~InUse(b)
  /\ Call(t, IF b.kind = "host" THEN <<"free", "remove", "set_last">>
             ELSE <<"cuMemFree", "remove", "set_last">>, {b}, b.at, 0)
Free(t, b) ==
  /\ Ready(t, b.kind) /\ b.kind \in {"device", "host"} /\ ~InUse(b)
  /\ Call(t, <<"remove_known", "set_last">>, {b}, b.at, 0)

\* Mutant: memory is freed before its entry is removed.
FreeHostMemoryFirst(t, b) ==
  /\ Ready(t, "host") /\ b.kind = "host" /\ ~InUse(b)
  /\ Call(t, <<"free", "remove", "set_last">>, {b}, b.at, 0)
FreeHost(t, b) ==
  /\ Ready(t, "host") /\ b.kind = "host" /\ ~InUse(b)
  /\ Call(t, <<"remove", "free", "set_last">>, {b}, b.at, 0)

\* cudaHostRegister of the program's memory from an address to its end.
HostRegister(t, b, ptr) ==
  /\ Ready(t, "user") /\ b.kind = "user" /\ ~InUse(b) /\ ptr \in Bytes(b) \ registered
  /\ registered' = registered \cup {ptr}
  /\ Begin(t, <<"add", "set_last">>, {b}, ptr, 0)
  /\ UNCHANGED <<use, mem, table, tls, last, pending, unrecorded>>

HostUnregister(t, b, ptr) ==
  /\ Ready(t, "user") /\ b.kind = "user" /\ ~InUse(b) /\ ptr \in Bytes(b) \cap registered
  /\ registered' = registered \ {ptr}
  /\ Begin(t, <<"remove", "set_last">>, {b}, ptr, 0)
  /\ UNCHANGED <<use, mem, table, tls, last, pending, unrecorded>>

\* The program's own memory comes and goes.
Map(t, n) ==
  \E at \in Addr :
    /\ Ready(t, "user") /\ n > 0 /\ Fits(Block("user", at, n))
    /\ mem' = mem \cup {Block("user", at, n)}
    /\ UNCHANGED <<use, table, registered, op, tls, last, pending, unrecorded>>

Unmap(t, b) ==
  /\ Ready(t, "user") /\ b \in mem /\ b.kind = "user" /\ ~InUse(b) /\ Bytes(b) \cap registered = {}
  /\ mem' = mem \ {b}
  /\ UNCHANGED <<use, table, registered, op, tls, last, pending, unrecorded>>

\* cudaMemcpyAsync of one byte, kind cudaMemcpyDefault.
MemcpyDefault(t, b, c, dst, src) ==
  /\ Ready(t, "copy") /\ ~InUse(b) /\ ~InUse(c)
  /\ dst \in Bytes(b) /\ src \in Bytes(c) /\ dst # src
  /\ Call(t, <<"classify">>, {b, c}, dst, src)

-----------------------------------------------------------------------------
(***************************************************************************)
(* Their steps.                                                            *)
(***************************************************************************)
After(t) == [op EXCEPT ![t].todo = Tail(@)]
Pointee(t) == CHOOSE b \in op[t].on : TRUE   \* the block of a call on one

\* add_alloc_locked, which gives up quietly when there is no memory.
AddAlloc(t) ==
  /\ Doing(t, "add")
  /\ LET b == Pointee(t)
         ptr == op[t].dst
         a == Entry(ptr, b.at + b.size - ptr, b.kind # "device") IN
       \/ table' = <<a>> \o table /\ unrecorded' = unrecorded \ {ptr}
       \/ table' = table /\ unrecorded' = unrecorded \cup {ptr}
  /\ op' = After(t)
  /\ UNCHANGED <<use, mem, registered, tls, last, pending>>

RemoveEntry(t) ==
  /\ Doing(t, "remove")
  /\ RemoveAlloc(op[t].dst) /\ op' = After(t)
  /\ UNCHANGED <<use, mem, registered, tls, last, pending, unrecorded>>

\* cudaFree: the entry says which allocator, libcuda when there is none.
RemoveKnown(t) ==
  /\ Doing(t, "remove_known")
  /\ LET i == Position(op[t].dst)
         by == IF i # 0 /\ table[i].host THEN "free" ELSE "cuMemFree" IN
       op' = [op EXCEPT ![t].todo = <<by, "set_last">>]
  /\ RemoveAlloc(op[t].dst)
  /\ UNCHANGED <<use, mem, registered, tls, last, pending, unrecorded>>

HeapFree(t) ==
  /\ Doing(t, "free")
  /\ mem' = mem \ op[t].on /\ op' = After(t)
  /\ UNCHANGED <<use, table, registered, tls, last, pending, unrecorded>>

\* libcuda knows its own allocations and refuses others.
DriverFree(t) ==
  /\ Doing(t, "cuMemFree")
  /\ LET own == Pointee(t).kind = "device" IN
       /\ mem' = IF own THEN mem \ op[t].on ELSE mem
       /\ op' = [op EXCEPT ![t].todo = Tail(@), ![t].err = ~own]
  /\ UNCHANGED <<use, table, registered, tls, last, pending, unrecorded>>

Direction(dst, src) ==
  IF dst THEN IF src THEN "DeviceToDevice" ELSE "HostToDevice"
  ELSE IF src THEN "DeviceToHost" ELSE "HostToHost"

Classify(t) ==
  /\ Doing(t, "classify")
  /\ op' = [op EXCEPT ![t].todo =
              <<Direction(IsDevicePtr(op[t].dst), IsDevicePtr(op[t].src)), "set_last">>]
  /\ UNCHANGED <<use, mem, table, registered, tls, last, pending, unrecorded>>

\* libcuda refuses what it takes for an address of its own and does not know.
InDriver(p) == \E b \in mem : b.kind = "device" /\ p \in Bytes(b)
Transfer(t) ==
  \E dst, src \in BOOLEAN :
    /\ Doing(t, Direction(dst, src))
    /\ op' = [op EXCEPT ![t].todo = Tail(@),
                        ![t].err = (dst /\ ~InDriver(op[t].dst)) \/ (src /\ ~InDriver(op[t].src))]
    /\ UNCHANGED <<use, mem, table, registered, tls, last, pending, unrecorded>>

\* set_last, with success as with errors.
SetLast(t) ==
  /\ Doing(t, "set_last")
  /\ last' = op[t].err /\ op' = [op EXCEPT ![t] = Idle]
  /\ UNCHANGED <<use, mem, table, registered, tls, pending, unrecorded>>

\* cudaGetLastError reads, then resets.
GetLastError(t) ==
  /\ op[t] = Idle
  /\ op' = [op EXCEPT ![t].todo = <<"set_last">>]
  /\ UNCHANGED <<use, mem, table, registered, tls, last, pending, unrecorded>>

-----------------------------------------------------------------------------
(***************************************************************************)
(* f<<<config>>>(args) pushes the configuration, evaluates the arguments,  *)
(* which may launch kernels themselves, and pops it in the stub of f.      *)
(***************************************************************************)
PushCallConfiguration(t, c) ==
  /\ Ready(t, "launch") /\ Len(pending[t]) < MaxNest
  /\ tls' = [tls EXCEPT ![t] = [has |-> TRUE, config |-> c]]
  /\ pending' = [pending EXCEPT ![t] = <<c>> \o @]
  /\ UNCHANGED <<use, mem, table, registered, op, last, unrecorded>>

\* Mutant: a configuration can be taken twice.
PopKeeps(t) ==
  /\ Ready(t, "launch") /\ pending[t] # <<>> /\ tls[t].has
  /\ pending' = [pending EXCEPT ![t] = Tail(@)]
  /\ UNCHANGED <<use, mem, table, registered, op, tls, last, unrecorded>>

\* Mutant: what is taken is cleared.
PopClears(t) ==
  /\ Ready(t, "launch") /\ pending[t] # <<>> /\ tls[t].has
  /\ tls' = [tls EXCEPT ![t] = [has |-> FALSE, config |-> 0]]
  /\ pending' = [pending EXCEPT ![t] = Tail(@)]
  /\ UNCHANGED <<use, mem, table, registered, op, last, unrecorded>>

PopCallConfiguration(t) ==
  /\ Ready(t, "launch") /\ pending[t] # <<>> /\ tls[t].has
  /\ tls' = [tls EXCEPT ![t].has = FALSE]
  /\ pending' = [pending EXCEPT ![t] = Tail(@)]
  /\ UNCHANGED <<use, mem, table, registered, op, last, unrecorded>>

\* There is none left; the stub returns without launching.
PopFails(t) ==
  /\ Ready(t, "launch") /\ pending[t] # <<>> /\ ~tls[t].has
  /\ pending' = [pending EXCEPT ![t] = Tail(@)]
  /\ UNCHANGED <<use, mem, table, registered, op, tls, last, unrecorded>>

-----------------------------------------------------------------------------
Start(t) ==
  \/ \E n \in Sizes : Malloc(t, n) \/ HostAlloc(t, n) \/ Map(t, n)
  \/ AllocateFails(t) \/ GetLastError(t)
  \/ \E b \in mem : Free(t, b) \/ FreeHost(t, b) \/ Unmap(t, b)
  \/ \E b \in mem, p \in Addr : HostRegister(t, b, p) \/ HostUnregister(t, b, p)
  \/ \E b, c \in mem, p, q \in Addr : MemcpyDefault(t, b, c, p, q)
  \/ \E c \in Config : PushCallConfiguration(t, c)
  \/ PopCallConfiguration(t) \/ PopFails(t)

Step(t) ==
  \/ AddAlloc(t) \/ RemoveEntry(t) \/ RemoveKnown(t) \/ HeapFree(t) \/ DriverFree(t)
  \/ Classify(t) \/ Transfer(t) \/ SetLast(t)

Next == \E t \in Thread : Start(t) \/ Step(t)

Spec == Init /\ [][Next]_vars

-----------------------------------------------------------------------------
(***************************************************************************)
(* Properties.                                                             *)
(***************************************************************************)
BlockType == [kind : {"device", "host", "user"}, at : Addr, size : Sizes]

\* Type correctness.
TypeOK ==
  /\ use \in Uses /\ mem \subseteq BlockType /\ registered \subseteq Addr
  /\ table \in Seq([ptr : Addr, bytes : Nat, host : BOOLEAN])
  /\ \A t \in Thread :
       op[t].on \subseteq BlockType /\ op[t].dst \in {0} \cup Addr /\ op[t].err \in BOOLEAN
  /\ tls \in [Thread -> [has : BOOLEAN, config : Config]] /\ last \in BOOLEAN
  /\ pending \in [Thread -> Seq(Config)] /\ unrecorded \subseteq Addr

Adding(p) == \E t \in Thread : Doing(t, "add") /\ op[t].dst = p
Removing(p) ==
  \E t \in Thread : op[t].dst = p /\ op[t].todo # <<>>
                    /\ Head(op[t].todo) \in {"remove", "remove_known", "free", "cuMemFree"}

(***************************************************************************)
(* An entry describes memory that is there: a block of its allocator, or   *)
(* the program's memory at an address it has registered.  An address that  *)
(* was freed and handed out again never finds the entry of its last owner. *)
(***************************************************************************)
NoStaleEntry ==
  \A i \in DOMAIN table :
    LET a == table[i] IN
      \E b \in mem :
        /\ a.ptr \in b.at..(End(b) - 1) /\ a.ptr + a.bytes = b.at + b.size
        /\ a.host = (b.kind # "device")
        /\ IF b.kind = "user" THEN a.ptr \in registered \/ Removing(a.ptr) ELSE a.ptr = b.at

(***************************************************************************)
(* What is allocated and what is registered has one entry, but while the   *)
(* call that makes or removes it is in progress, unless there was no       *)
(* memory for the entry: no call removes the entry of another.             *)
(***************************************************************************)
EntryKept ==
  LET owners == registered \cup {b.at : b \in {x \in mem : x.kind # "user"}} IN
    \A p \in owners :
      Adding(p) \/ Removing(p) \/ p \in unrecorded
      \/ Cardinality({i \in DOMAIN table : table[i].ptr = p}) = 1

(***************************************************************************)
(* The table, which several threads change between calls of allocators, is *)
(* of its type, has no stale entry and lacks none.                         *)
(***************************************************************************)
TableExact == TypeOK /\ NoStaleEntry /\ EntryKept

(***************************************************************************)
(* free is called on memory of posix_memalign only, and cudaFree passes    *)
(* only libcuda's memory on to libcuda, unless there was no memory for an  *)
(* entry.                                                                  *)
(***************************************************************************)
RightAllocator ==
  \A t \in Thread :
    /\ Doing(t, "free") => Pointee(t).kind = "host"
    /\ Doing(t, "cuMemFree") => Pointee(t).kind = "device" \/ op[t].dst \in unrecorded

\* Both pointers of a copy are in memory the table knows.
Recorded(t) == \A b \in op[t].on : b.at \notin unrecorded

(***************************************************************************)
(* A copy of kind cudaMemcpyDefault goes in the direction its pointers     *)
(* have when it is made, also at the edges of allocations that touch.      *)
(***************************************************************************)
CopyDirection ==
  \A t \in Thread :
    \A dst, src \in BOOLEAN :
      Doing(t, Direction(dst, src)) /\ Recorded(t) =>
        dst = InDriver(op[t].dst) /\ src = InDriver(op[t].src)

(***************************************************************************)
(* A launch that gets a configuration gets its own, also when its          *)
(* arguments launch kernels or other threads do.                           *)
(***************************************************************************)
LaunchedAsConfigured ==
  [][\A t \in Thread :
       Len(pending'[t]) < Len(pending[t]) /\ tls[t].has => tls[t].config = Head(pending[t])]_vars
=============================================================================
