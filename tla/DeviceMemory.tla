---------------------------- MODULE DeviceMemory ----------------------------
(***************************************************************************)
(* The allocation registry of libcuda: cuMemAlloc and its variants,        *)
(* cuMemFree, cuMemFreeHost, cuMemHostRegister, cuMemHostUnregister and    *)
(* the lookups behind copies, address ranges and pointer attributes.       *)
(*                                                                         *)
(* The list g.allocs is a set of records: a record's id is drawn under     *)
(* g_lock when it is put at the head, so the list order is descending id.  *)
(* Memory itself is external: the C heap and the RM mappings are the set   *)
(* live of blocks, the RM memory objects the set objs.                     *)
(***************************************************************************)
EXTENDS Integers, FiniteSets, FiniteSetsExt

CONSTANTS
  Thread,     \* threads calling the API
  Top,        \* bound: addresses are 1..Top
  Sizes,      \* byte counts callers ask for
  Page,       \* page size, the granularity of RM mappings
  HostOnly,   \* LANXIN_NVIDIA_CUDA_HOST_ALLOC_ONLY
  RegPtrs,    \* addresses callers pass to cuMemHostRegister
  MaxId,      \* bound: registrations made
  MaxHandle   \* bound: RM handles drawn

ASSUME SizesAssumption == Sizes \subseteq Nat /\ Top \in Nat /\ Page \in Nat \ {0}
ASSUME PtrAssumption   == RegPtrs \subseteq 1..Top
ASSUME BoundAssumption == MaxId \in Nat /\ MaxHandle \in Nat /\ HostOnly \in BOOLEAN

Addr  == 1..Top
Types == {"device", "unified", "host"}

VARIABLES
  allocs,      \* g.allocs
  bytes,       \* g.allocated_bytes
  nextId,      \* g.next_id
  nextHandle,  \* g.next_rm_handle
  objs,        \* RM memory objects allocated
  live,        \* blocks of heap and of mapped RM memory
  pc,          \* thread -> step of the allocation call it is in
  loc,         \* thread -> the allocation it is making
  dropped      \* history: blocks whose owner was unregistered without a free

reg  == <<allocs, bytes, nextId>>
rm   == <<objs, nextHandle>>
vars == <<reg, rm, live, pc, loc, dropped>>

NoLoc == [base |-> 0, size |-> 0, type |-> "device"]

Init ==
  /\ allocs = {} /\ bytes = 0 /\ nextId = 1
  /\ objs = {} /\ nextHandle = 1 /\ live = {}
  /\ pc = [t \in Thread |-> "idle"] /\ loc = [t \in Thread |-> NoLoc]
  /\ dropped = {}

-----------------------------------------------------------------------------
(***************************************************************************)
(* Blocks.  A heap block is followed by the allocator's header, so two of  *)
(* them never touch; RM mappings are whole pages and may.                  *)
(***************************************************************************)
\* Mutant: a request for nothing is passed on as it is.
AtLeastNothing(n) == n
AtLeastOne(n)     == IF n = 0 THEN 1 ELSE n

PageAlign(n) == LET x == AtLeastOne(n) + Page - 1 IN x - (x % Page)

Block(k, base, len) == [kind |-> k, base |-> base, len |-> len]
Apart(b, c) == b.base + b.len < c.base \/ c.base + c.len < b.base
Beside(b, c) == b.base + b.len <= c.base \/ c.base + c.len <= b.base

Fits(b) ==
  /\ b.base + b.len <= Top + 1
  /\ \A c \in live : IF b.kind = "rm" /\ c.kind = "rm" THEN Beside(b, c) ELSE Apart(b, c)

-----------------------------------------------------------------------------
(***************************************************************************)
(* range_contains and find_alloc: offsets up to and including the size are *)
(* inside, and the newest registration wins.                               *)
(***************************************************************************)
\* Mutants: the bytes are compared with the whole size; the offset may exceed it.
RangeContainsLoose(base, size, ptr, n) == base <= ptr /\ ptr - base <= size /\ n <= size
RangeContainsPast(base, size, ptr, n)  == base <= ptr /\ ptr - base <= size + 1 /\ n <= size + 1 - (ptr - base)

RangeContains(base, size, ptr, n) ==
  base <= ptr /\ ptr - base <= size /\ n <= size - (ptr - base)

Containing(ptr, n) == {a \in allocs : RangeContains(a.dptr, a.size, ptr, n)}
Newest(s) == CHOOSE a \in s : \A b \in s : b.id <= a.id
Found(ptr, n) == Containing(ptr, n) # {}
FindAlloc(ptr, n) == Newest(Containing(ptr, n))

Counted(type) == type \in {"device", "unified"}

\* Mutant: only cuMemAlloc's memory is added to the total.
CountedDevice(n, type) == IF type = "device" THEN n ELSE 0
SizeCounted(n, type) == IF Counted(type) THEN n ELSE 0

Record(dptr, size, type, owns, h) ==
  [id |-> nextId, dptr |-> dptr, size |-> size, type |-> type, owns |-> owns, rm |-> h]

AddAllocation(dptr, size, type, owns, h) ==
  /\ nextId <= MaxId
  /\ allocs' = allocs \cup {Record(dptr, size, type, owns, h)}
  /\ bytes' = bytes + SizeCounted(size, type)
  /\ nextId' = nextId + 1

-----------------------------------------------------------------------------
(***************************************************************************)
(* cuMemAlloc: an RM object, mapped, under the lock; when any step fails   *)
(* what was made is undone and heap memory is used instead.                *)
(***************************************************************************)
RmAlloc(t, n) ==
  /\ pc[t] = "idle" /\ ~HostOnly /\ nextHandle <= MaxHandle
  /\ \E base \in Addr :
       LET b == Block("rm", base, PageAlign(n)) IN
         /\ base % Page = 0 /\ Fits(b)
         /\ live' = live \cup {b}
         /\ objs' = objs \cup {nextHandle}
         /\ AddAllocation(base, n, "device", FALSE, nextHandle)
  /\ nextHandle' = nextHandle + 1
  /\ UNCHANGED <<pc, loc, dropped>>

\* Mutant: a failed mmap leaves the RM object behind.
RmAllocFailsLeaking(t, n) ==
  /\ pc[t] = "idle" /\ ~HostOnly /\ nextHandle <= MaxHandle
  /\ nextHandle' = nextHandle + 1
  /\ objs' \in {objs, objs \cup {nextHandle}}
  /\ pc' = [pc EXCEPT ![t] = "heap"]
  /\ loc' = [loc EXCEPT ![t] = [base |-> 0, size |-> n, type |-> "device"]]
  /\ UNCHANGED <<reg, live, dropped>>

\* A handle is drawn before the first ioctl, but only once RM is up.
RmAllocFails(t, n) ==
  /\ pc[t] = "idle" /\ ~HostOnly
  /\ nextHandle' \in {nextHandle} \cup {h \in {nextHandle + 1} : nextHandle <= MaxHandle}
  /\ pc' = [pc EXCEPT ![t] = "heap"]
  /\ loc' = [loc EXCEPT ![t] = [base |-> 0, size |-> n, type |-> "device"]]
  /\ UNCHANGED <<reg, objs, live, dropped>>

\* cuMemAllocManaged, cuMemAllocHost, and cuMemAlloc with RM switched off.
HeapRequest(t, n, type) ==
  /\ pc[t] = "idle" /\ (type = "device" => HostOnly)
  /\ pc' = [pc EXCEPT ![t] = "heap"]
  /\ loc' = [loc EXCEPT ![t] = [base |-> 0, size |-> n, type |-> type]]
  /\ UNCHANGED <<reg, rm, live, dropped>>

\* posix_memalign, outside the lock: a block of at least one byte, or out of memory.
HeapAlloc(t) ==
  /\ pc[t] = "heap"
  /\ \/ \E base \in Addr :
          LET b == Block("heap", base, AtLeastOne(loc[t].size)) IN
            /\ Fits(b)
            /\ live' = live \cup {b}
            /\ loc' = [loc EXCEPT ![t].base = base]
            /\ pc' = [pc EXCEPT ![t] = "add"]
     \/ /\ pc' = [pc EXCEPT ![t] = "idle"]
        /\ loc' = [loc EXCEPT ![t] = NoLoc]
        /\ UNCHANGED live
  /\ UNCHANGED <<reg, rm, dropped>>

\* Registration under the lock.
Register(t) ==
  /\ pc[t] = "add"
  /\ AddAllocation(loc[t].base, loc[t].size, loc[t].type, TRUE, 0)
  /\ pc' = [pc EXCEPT ![t] = "idle"]
  /\ loc' = [loc EXCEPT ![t] = NoLoc]
  /\ UNCHANGED <<rm, live, dropped>>

\* No memory for the record: the block is given back after the unlock.
RegisterFails(t) ==
  /\ pc[t] = "add"
  /\ live' = live \ {b \in live : b.kind = "heap" /\ b.base = loc[t].base}
  /\ pc' = [pc EXCEPT ![t] = "idle"]
  /\ loc' = [loc EXCEPT ![t] = NoLoc]
  /\ UNCHANGED <<reg, rm, dropped>>

-----------------------------------------------------------------------------
(***************************************************************************)
(* remove_allocation: the newest registration at exactly this address.     *)
(***************************************************************************)
At(ptr) == {a \in allocs : a.dptr = ptr}

Freed(a, freeOwned) ==
  {b \in live : b.base = a.dptr /\ \/ a.rm # 0 /\ b.kind = "rm"
                                   \/ a.owns /\ freeOwned /\ b.kind = "heap"}
Kept(a, freeOwned) ==
  {b \in live : b.base = a.dptr /\ b.kind = "heap" /\ a.owns /\ ~freeOwned}

RemoveAllocation(ptr, freeOwned) ==
  /\ At(ptr) # {}
  /\ LET a == Newest(At(ptr)) IN
       /\ allocs' = allocs \ {a}
       /\ bytes' = bytes - SizeCounted(a.size, a.type)
       /\ live' = live \ Freed(a, freeOwned)
       /\ objs' = objs \ {a.rm}
       /\ dropped' = (dropped \ Freed(a, freeOwned)) \cup Kept(a, freeOwned)
  /\ UNCHANGED <<nextId, nextHandle, pc, loc>>

\* cuMemFree and cuMemFreeHost, whatever kind of memory ptr names.
MemFree(ptr) == RemoveAllocation(ptr, TRUE)

\* Mutant: a registration is taken for memory the library allocated.
HostRegisterOwned(ptr, n) ==
  /\ AddAllocation(ptr, n, "host", TRUE, 0)
  /\ UNCHANGED <<rm, live, pc, loc, dropped>>

HostRegister(ptr, n) ==
  /\ AddAllocation(ptr, n, "host", FALSE, 0)
  /\ UNCHANGED <<rm, live, pc, loc, dropped>>

HostUnregister(ptr) == RemoveAllocation(ptr, FALSE)

-----------------------------------------------------------------------------
Next ==
  \/ \E t \in Thread, n \in Sizes :
       \/ RmAlloc(t, n) \/ RmAllocFails(t, n)
       \/ \E type \in Types : HeapRequest(t, n, type)
  \/ \E t \in Thread : HeapAlloc(t) \/ Register(t) \/ RegisterFails(t)
  \/ \E ptr \in Addr : MemFree(ptr)
  \/ \E ptr \in RegPtrs, n \in Sizes : HostRegister(ptr, n)
  \/ \E ptr \in RegPtrs : HostUnregister(ptr)

Spec == Init /\ [][Next]_vars

-----------------------------------------------------------------------------
(***************************************************************************)
(* Properties.                                                             *)
(***************************************************************************)
AllocType == [id : Nat \ {0}, dptr : Addr, size : Nat, type : Types, owns : BOOLEAN, rm : Nat]
BlockType == [kind : {"heap", "rm"}, base : Addr, len : Nat \ {0}]
LocType   == [base : Addr \cup {0}, size : Nat, type : Types]

\* Type correctness.
TypeOK ==
  /\ allocs \subseteq AllocType /\ bytes \in Int
  /\ nextId \in Nat \ {0} /\ nextHandle \in Nat \ {0}
  /\ objs \subseteq Nat \ {0}
  /\ live \subseteq BlockType /\ dropped \subseteq BlockType
  /\ pc \in [Thread -> {"idle", "heap", "add"}] /\ loc \in [Thread -> LocType]

\* Who is responsible for giving a block back.
Owns(a, b)  == a.dptr = b.base /\ ((a.owns /\ b.kind = "heap") \/ (a.rm # 0 /\ b.kind = "rm"))
Holds(t, b) == pc[t] = "add" /\ b.kind = "heap" /\ loc[t].base = b.base

(***************************************************************************)
(* Every registration that owns memory names a live block large enough for *)
(* it, and no block has two owners, be they registrations or calls in      *)
(* progress: nothing is freed twice, whatever pointers callers free,       *)
(* register and unregister.  Of a registration that does not own its       *)
(* memory nothing is said: the program may free that under it, and a copy  *)
(* that resolves to it would then reach freed memory.                      *)
(***************************************************************************)
SoleOwner ==
  /\ \A a \in allocs : a.owns \/ a.rm # 0 => \E b \in live : Owns(a, b) /\ a.size <= b.len
  /\ \A t \in Thread : pc[t] = "add" => \E b \in live : Holds(t, b) /\ loc[t].size <= b.len
  /\ \A b \in live :
       /\ \A a1, a2 \in allocs : Owns(a1, b) /\ Owns(a2, b) => a1 = a2
       /\ \A t1, t2 \in Thread : Holds(t1, b) /\ Holds(t2, b) => t1 = t2
       /\ \A a \in allocs, t \in Thread : ~(Owns(a, b) /\ Holds(t, b))

(***************************************************************************)
(* No block and no RM object is left without an owner, on any failure path *)
(* of an allocation; the exception is memory whose owner a caller          *)
(* unregistered.                                                           *)
(***************************************************************************)
NoOrphan ==
  /\ objs = {a.rm : a \in allocs} \ {0}
  /\ \A b \in live \ dropped : (\E a \in allocs : Owns(a, b)) \/ (\E t \in Thread : Holds(t, b))

\* The total cuMemGetInfo reports is the sum of the device and managed registrations.
AccountingExact ==
  bytes = MapThenSumSet(LAMBDA a : IF Counted(a.type) THEN a.size ELSE 0, allocs)

(***************************************************************************)
(* A range that a copy or a fill resolves lies within the memory of the    *)
(* registration it resolves to.                                            *)
(***************************************************************************)
ResolvedIsInside ==
  \A ptr \in Addr, n \in Sizes \ {0} :
    Found(ptr, n) =>
      LET a == FindAlloc(ptr, n) IN a.owns \/ a.rm # 0 =>
        \E b \in live : Owns(a, b) /\ b.base <= ptr /\ ptr + n <= b.base + b.len

(***************************************************************************)
(* While every registration is the library's own heap memory, the lookups  *)
(* of cuMemGetAddressRange and cuPointerGetAttribute find the allocation   *)
(* that contains a pointer, although they accept one past the end.         *)
(***************************************************************************)
Inside(a, ptr) == a.dptr <= ptr /\ ptr < a.dptr + a.size
HeapRangeExact ==
  (\A b \in allocs : b.owns) =>
    \A ptr \in Addr, a \in allocs : Inside(a, ptr) => Found(ptr, 0) /\ FindAlloc(ptr, 0) = a

-----------------------------------------------------------------------------
(***************************************************************************)
(* The inductive invariant: what keeps ownership apart.  Ids and handles   *)
(* are drawn in order, and no two live blocks begin at one address.        *)
(***************************************************************************)
IdInv ==
  /\ \A a \in allocs : a.id < nextId
  /\ \A a, b \in allocs : a.id = b.id => a = b

HandleInv ==
  /\ \A a \in allocs : a.rm < nextHandle /\ (a.owns => a.rm = 0)
  /\ \A a, b \in allocs : a.rm = b.rm => a = b \/ a.rm = 0

BlockInv == \A b, c \in live : b.base = c.base => b = c

MemInv == IdInv /\ HandleInv /\ BlockInv /\ SoleOwner /\ NoOrphan

-----------------------------------------------------------------------------
(***************************************************************************)
(* What cuda.h says and the code does not keep: cuMemGetAddressRange       *)
(* returns the allocation that contains the pointer.                       *)
(***************************************************************************)
AddressRangeExact ==
  \A ptr \in Addr, a \in allocs :
    Inside(a, ptr) /\ (\A b \in allocs : Inside(b, ptr) => b = a)
      => Found(ptr, 0) /\ FindAlloc(ptr, 0) = a
=============================================================================
