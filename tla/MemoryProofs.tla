---------------------------- MODULE MemoryProofs ----------------------------
(***************************************************************************)
(* Ownership and the total in the allocation registry, and that copies and *)
(* fills touch live memory only, for every number of threads, addresses,   *)
(* sizes, registrations, pitches and rows.                                 *)
(***************************************************************************)
EXTENDS Copies, FiniteSetTheorems, WellFoundedInduction, TLAPS

\* The order of the natural numbers, as a relation the provers can use.
LEMMA LessThanWellFounded ==
  \E R : IsWellFoundedOn(R, Nat) /\ \A x, y \in Nat : x < y => <<x, y>> \in R
<1>1. \A x, y \in Nat : x < y => <<x, y>> \in OpToRel(<, Nat)
  BY DEF OpToRel
<1>2. QED
  BY <1>1, NatLessThanWellFounded, Zenon

\* A set of natural numbers that is not empty has a least element.
LEMMA LeastElement ==
  ASSUME NEW S, S \subseteq Nat, S # {}
  PROVE  \E x \in S : \A y \in S : x <= y
<1>1. PICK R : IsWellFoundedOn(R, Nat) /\ \A x, y \in Nat : x < y => <<x, y>> \in R
  BY LessThanWellFounded
<1>2. IsWellFoundedOn(R, Nat)
  BY <1>1
<1>3. \A T \in SUBSET Nat : T # {} => \E x \in T : \A y \in T : ~(<<y, x>> \in R)
  BY <1>2, WFMin, Zenon
<1>4. PICK x \in S : \A y \in S : ~(<<y, x>> \in R)
  BY <1>3
<1>5. \A y \in S : ~(y < x)
  BY <1>1, <1>4
<1>6. QED
  BY <1>4, <1>5

\* The newest of some registrations is one of them: the walk of g.allocs ends at it.
LEMMA NewestIsMember ==
  ASSUME TypeOK, IdInv, NEW S, S \subseteq allocs, S # {}
  PROVE  Newest(S) \in S
<1> DEFINE Ages == {nextId - a.id : a \in S}
<1>1. Ages \subseteq Nat /\ Ages # {}
  BY DEF TypeOK, IdInv, AllocType
<1>2. PICK age \in Ages : \A y \in Ages : age <= y
  BY <1>1, LeastElement
<1>3. PICK a \in S : age = nextId - a.id
  BY <1>2
<1>4. \A b \in S : b.id <= a.id
  <2> SUFFICES ASSUME NEW b \in S PROVE b.id <= a.id
    OBVIOUS
  <2>1. nextId - a.id <= nextId - b.id
    BY <1>2, <1>3
  <2>2. a.id \in Nat /\ b.id \in Nat /\ nextId \in Nat
    BY DEF TypeOK, AllocType
  <2>3. QED
    BY <2>1, <2>2
<1>5. QED
  BY <1>3, <1>4 DEF Newest

\* A mapping is whole pages, at least as many bytes as were asked for.
LEMMA PageAlignCovers ==
  ASSUME NEW n \in Nat PROVE PageAlign(n) \in Nat \ {0} /\ n <= PageAlign(n)
<1> DEFINE x == AtLeastOne(n) + Page - 1
<1>1. Page \in Nat \ {0}
  BY SizesAssumption
<1>2. x \in Nat /\ AtLeastOne(n) \in Nat \ {0} /\ n <= AtLeastOne(n)
  BY <1>1 DEF AtLeastOne
<1>3. x % Page \in 0..(Page - 1)
  BY <1>1, <1>2
<1>4. \A r \in 0..(Page - 1) : x - r \in Nat \ {0} /\ n <= x - r
  BY <1>1, <1>2
<1>5. PageAlign(n) = x - (x % Page)
  BY DEF PageAlign
<1> HIDE DEF x
<1>6. QED
  BY <1>3, <1>4, <1>5
-----------------------------------------------------------------------------
Inv == TypeOK /\ MemInv

\* The invariant holds at the start.
LEMMA InitInv == Init => Inv
<1> SUFFICES ASSUME Init PROVE Inv
  OBVIOUS
<1> USE DEF Init, NoLoc
<1>1. TypeOK
  BY DEF TypeOK, LocType, Types
<1>2. IdInv /\ HandleInv /\ BlockInv
  BY DEF IdInv, HandleInv, BlockInv
<1>3. SoleOwner /\ NoOrphan
  BY DEF SoleOwner, NoOrphan
<1>4. QED
  BY <1>1, <1>2, <1>3 DEF Inv, MemInv

(***************************************************************************)
(* A new record: ids and handles stay distinct.                            *)
(***************************************************************************)
LEMMA AddKeepsIds ==
  ASSUME TypeOK, IdInv, NEW dptr, NEW n, NEW type, NEW owns, NEW h,
         AddAllocation(dptr, n, type, owns, h)
  PROVE  IdInv'
<1>1. nextId \in Nat /\ nextId' = nextId + 1 /\ \A a \in allocs : a.id \in Nat
  BY DEF TypeOK, AllocType, AddAllocation
<1>2. allocs' = allocs \cup {Record(dptr, n, type, owns, h)}
  BY DEF AddAllocation
<1>3. Record(dptr, n, type, owns, h).id = nextId
  BY DEF Record
<1>4. QED
  BY <1>1, <1>2, <1>3 DEF IdInv

\* An added registration has the types of one.
LEMMA AddKeepsTypes ==
  ASSUME TypeOK, NEW dptr \in Addr, NEW n \in Nat, NEW type \in Types,
         NEW owns \in BOOLEAN, NEW h \in Nat, AddAllocation(dptr, n, type, owns, h)
  PROVE  allocs' \subseteq AllocType /\ bytes' \in Int /\ nextId' \in Nat \ {0}
<1>1. Record(dptr, n, type, owns, h) \in AllocType
  BY DEF TypeOK, Record, AllocType
<1>2. QED
  BY <1>1 DEF AddAllocation, TypeOK, SizeCounted

\* A record that is no owner changes nobody's ownership.
LEMMA BorrowKeepsOwners ==
  ASSUME SoleOwner, NoOrphan, NEW a, ~a.owns, a.rm = 0, allocs' = allocs \cup {a},
         UNCHANGED <<objs, live, pc, loc, dropped>>
  PROVE  SoleOwner' /\ NoOrphan'
<1>1. \A b : ~Owns(a, b)
  BY DEF Owns
<1>2. SoleOwner'
  BY <1>1 DEF SoleOwner, Owns, Holds
<1>3. NoOrphan'
  BY DEF NoOrphan, Owns, Holds
<1>4. QED
  BY <1>2, <1>3

\* Registering host memory keeps the invariant.
LEMMA HostRegisterInv ==
  ASSUME Inv, NEW ptr \in RegPtrs, NEW n \in Sizes, HostRegister(ptr, n)
  PROVE  Inv'
<1> DEFINE a == Record(ptr, n, "host", FALSE, 0)
<1>1. ptr \in Addr /\ n \in Nat
  BY PtrAssumption, SizesAssumption DEF Addr
<1>2. TypeOK /\ IdInv /\ HandleInv /\ BlockInv /\ SoleOwner /\ NoOrphan
  BY DEF Inv, MemInv
<1>3. AddAllocation(ptr, n, "host", FALSE, 0) /\ allocs' = allocs \cup {a}
      /\ UNCHANGED <<objs, nextHandle, live, pc, loc, dropped>>
  BY DEF HostRegister, AddAllocation, rm
<1>4. a.rm = 0 /\ ~a.owns
  BY DEF Record
<1>5. TypeOK'
  BY <1>1, <1>2, <1>3, AddKeepsTypes DEF TypeOK, Types
<1>6. IdInv'
  BY <1>2, <1>3, AddKeepsIds
<1>7. HandleInv' /\ BlockInv'
  <2> HIDE DEF a
  <2>1. nextHandle \in Nat \ {0}
    BY <1>2 DEF TypeOK
  <2>2. QED
    BY <2>1, <1>2, <1>3, <1>4 DEF HandleInv, BlockInv
<1>8. SoleOwner' /\ NoOrphan'
  BY <1>2, <1>3, <1>4, BorrowKeepsOwners
<1>9. QED
  BY <1>5, <1>6, <1>7, <1>8 DEF Inv, MemInv

\* A call that has no block yet: RmAllocFails and HeapRequest.
LEMMA AskInv ==
  ASSUME Inv, NEW t \in Thread, NEW n \in Sizes, NEW type \in Types,
         pc[t] = "idle", pc' = [pc EXCEPT ![t] = "heap"],
         loc' = [loc EXCEPT ![t] = [base |-> 0, size |-> n, type |-> type]],
         nextHandle' \in {nextHandle, nextHandle + 1},
         UNCHANGED <<reg, objs, live, dropped>>
  PROVE  Inv'
<1>1. n \in Nat
  BY SizesAssumption
<1>2. TypeOK /\ IdInv /\ HandleInv /\ BlockInv /\ SoleOwner /\ NoOrphan
  BY DEF Inv, MemInv
<1>3. TypeOK'
  BY <1>1, <1>2 DEF TypeOK, reg, LocType
<1>4. IdInv' /\ BlockInv'
  BY <1>2 DEF IdInv, BlockInv, reg
<1>5. HandleInv'
  <2>1. nextHandle \in Nat /\ \A a \in allocs : a.rm \in Nat
    BY <1>2 DEF TypeOK, AllocType
  <2>2. QED
    BY <2>1, <1>2 DEF HandleInv, reg
<1>6. /\ \A u \in Thread : pc'[u] = "add" <=> pc[u] = "add"
      /\ \A u \in Thread : pc[u] = "add" => loc'[u] = loc[u]
  BY <1>2 DEF TypeOK
<1>7. SoleOwner'
  BY <1>2, <1>6 DEF SoleOwner, Owns, Holds, reg
<1>8. NoOrphan'
  BY <1>2, <1>6 DEF NoOrphan, Owns, Holds, reg
<1>9. QED
  BY <1>3, <1>4, <1>5, <1>7, <1>8 DEF Inv, MemInv

(***************************************************************************)
(* A block from the heap begins where no live block begins, so nobody      *)
(* holds or owns it yet.                                                   *)
(***************************************************************************)
LEMMA FreshBase ==
  ASSUME TypeOK, NEW b \in BlockType, Fits(b)
  PROVE  \A c \in live : c.base # b.base
<1> SUFFICES ASSUME NEW c \in live, c.base = b.base PROVE FALSE
  OBVIOUS
<1>1. c.base \in Int /\ b.len \in Nat \ {0} /\ c.len \in Nat \ {0}
  BY DEF TypeOK, BlockType, Addr
<1>2. Beside(b, c) \/ Apart(b, c)
  BY DEF Fits
<1>3. QED
  BY <1>1, <1>2 DEF Beside, Apart

\* An allocation from the heap keeps the invariant.
LEMMA HeapAllocInv ==
  ASSUME Inv, NEW t \in Thread, HeapAlloc(t)
  PROVE  Inv'
<1>1. TypeOK /\ IdInv /\ HandleInv /\ BlockInv /\ SoleOwner /\ NoOrphan
  BY DEF Inv, MemInv
<1>2. pc[t] = "heap" /\ UNCHANGED <<allocs, bytes, nextId, objs, nextHandle, dropped>>
  BY DEF HeapAlloc, reg, rm
<1>3. IdInv' /\ HandleInv'
  BY <1>1, <1>2 DEF IdInv, HandleInv
<1>4. CASE pc' = [pc EXCEPT ![t] = "idle"] /\ loc' = [loc EXCEPT ![t] = NoLoc] /\ UNCHANGED live
  <2>1. TypeOK' /\ BlockInv'
    BY <1>1, <1>2, <1>4 DEF TypeOK, LocType, NoLoc, Types, BlockInv
  <2>2. \A u \in Thread : /\ pc'[u] = "add" <=> pc[u] = "add"
                         /\ pc[u] = "add" => loc'[u] = loc[u]
    BY <1>1, <1>2, <1>4 DEF TypeOK
  <2>3. SoleOwner'
    BY <1>1, <1>2, <1>4, <2>2 DEF SoleOwner, Owns, Holds
  <2>4. NoOrphan'
    BY <1>1, <1>2, <1>4, <2>2 DEF NoOrphan, Owns, Holds
  <2>5. QED
    BY <1>3, <2>1, <2>3, <2>4 DEF Inv, MemInv
<1>5. CASE ~(pc' = [pc EXCEPT ![t] = "idle"] /\ loc' = [loc EXCEPT ![t] = NoLoc] /\ UNCHANGED live)
  <2>0. PICK len : len = AtLeastOne(loc[t].size)
    OBVIOUS
  <2>1. PICK base \in Addr : /\ Fits(Block("heap", base, len))
                             /\ live' = live \cup {Block("heap", base, len)}
                             /\ loc' = [loc EXCEPT ![t].base = base]
                             /\ pc' = [pc EXCEPT ![t] = "add"]
    BY <1>5, <2>0 DEF HeapAlloc
  <2> PICK b : b = Block("heap", base, len)
    OBVIOUS
  <2>2. loc[t] \in LocType /\ len \in Nat \ {0} /\ loc[t].size <= len
    BY <1>1, <2>0 DEF TypeOK, LocType, AtLeastOne
  <2>3. b \in BlockType /\ b.base = base /\ b.kind = "heap" /\ b.len = len
    BY <2>2 DEF Block, BlockType
  <2>4. \A c \in live : c.base # base
    BY <1>1, <2>1, <2>3, FreshBase
  <2>5. live' = live \cup {b}
    BY <2>1
  <2>6. loc'[t].base = base /\ loc'[t].size = loc[t].size /\ loc'[t] \in LocType /\ pc'[t] = "add"
    BY <1>1, <2>1, <2>2 DEF TypeOK, LocType
  <2>7. \A u \in Thread \ {t} : pc'[u] = pc[u] /\ loc'[u] = loc[u]
    BY <1>1, <2>1 DEF TypeOK
  <2>8. TypeOK'
    <3>1. pc' \in [Thread -> {"idle", "heap", "add"}] /\ loc' \in [Thread -> LocType]
      BY <1>1, <2>1, <2>2 DEF TypeOK, LocType
    <3>2. QED
      BY <1>1, <1>2, <2>3, <2>5, <3>1 DEF TypeOK
  <2>9. BlockInv'
    BY <1>1, <2>3, <2>4, <2>5 DEF BlockInv
  <2>10. \A a \in allocs : ~Owns(a, b)
    BY <1>1, <2>3, <2>4 DEF SoleOwner, Owns
  <2>11. \A u \in Thread \ {t} : ~(pc[u] = "add" /\ loc[u].base = base)
    BY <1>1, <2>4 DEF SoleOwner, Holds
  <2>12. \A c \in live, u \in Thread : Holds(u, c)' <=> Holds(u, c)
    BY <1>2, <2>4, <2>6, <2>7 DEF Holds
  <2>13. \A u \in Thread : Holds(u, b)' <=> u = t
    BY <2>3, <2>6, <2>7, <2>11 DEF Holds
  <2>14. \A a, c : Owns(a, c)' <=> Owns(a, c)
    BY DEF Owns
  <2>15. SoleOwner'
    <3>1. \A a \in allocs' : a.owns \/ a.rm # 0 => \E c \in live' : Owns(a, c)' /\ a.size <= c.len
      BY <1>1, <1>2, <2>5 DEF SoleOwner, Owns
    <3>2. \A u \in Thread : pc'[u] = "add" => \E c \in live' : Holds(u, c)' /\ loc'[u].size <= c.len
      <4> SUFFICES ASSUME NEW u \in Thread, pc'[u] = "add"
                   PROVE  \E c \in live' : Holds(u, c)' /\ loc'[u].size <= c.len
        OBVIOUS
      <4>1. CASE u = t
        BY <4>1, <2>2, <2>3, <2>5, <2>6, <2>13
      <4>2. CASE u # t
        BY <4>2, <1>1, <2>5, <2>7, <2>12 DEF SoleOwner
      <4>3. QED
        BY <4>1, <4>2
    <3>3. \A c \in live' :
            /\ \A a1, a2 \in allocs : Owns(a1, c) /\ Owns(a2, c) => a1 = a2
            /\ \A t1, t2 \in Thread : Holds(t1, c)' /\ Holds(t2, c)' => t1 = t2
            /\ \A a \in allocs, u \in Thread : ~(Owns(a, c) /\ Holds(u, c)')
      BY <1>1, <2>5, <2>10, <2>12, <2>13 DEF SoleOwner
    <3>4. QED
      BY <1>2, <2>14, <3>1, <3>2, <3>3 DEF SoleOwner
  <2>16. NoOrphan'
    BY <1>1, <1>2, <2>5, <2>12, <2>13, <2>14 DEF NoOrphan
  <2>17. QED
    BY <1>3, <2>8, <2>9, <2>15, <2>16 DEF Inv, MemInv
<1>6. QED
  BY <1>4, <1>5

\* The block the call held becomes the registration's.
LEMMA RegisterInv ==
  ASSUME Inv, NEW t \in Thread, Register(t)
  PROVE  Inv'
<1>1. TypeOK /\ IdInv /\ HandleInv /\ BlockInv /\ SoleOwner /\ NoOrphan
  BY DEF Inv, MemInv
<1> PICK a : a = Record(loc[t].base, loc[t].size, loc[t].type, TRUE, 0)
  OBVIOUS
<1>2. /\ pc[t] = "add" /\ pc' = [pc EXCEPT ![t] = "idle"] /\ loc' = [loc EXCEPT ![t] = NoLoc]
      /\ AddAllocation(loc[t].base, loc[t].size, loc[t].type, TRUE, 0)
      /\ UNCHANGED <<objs, nextHandle, live, dropped>>
  BY DEF Register, rm
<1>3. allocs' = allocs \cup {a} /\ a.dptr = loc[t].base /\ a.size = loc[t].size /\ a.owns /\ a.rm = 0
  BY <1>2 DEF AddAllocation, Record
<1>4. PICK b \in live : Holds(t, b) /\ loc[t].size <= b.len
  BY <1>1, <1>2 DEF SoleOwner
<1>5. loc[t].base \in Addr /\ loc[t].size \in Nat /\ loc[t].type \in Types
  BY <1>1, <1>4 DEF TypeOK, LocType, Holds, BlockType
<1>6. TypeOK'
  <2>1. allocs' \subseteq AllocType /\ bytes' \in Int /\ nextId' \in Nat \ {0}
    BY <1>1, <1>2, <1>5, AddKeepsTypes
  <2>2. pc' \in [Thread -> {"idle", "heap", "add"}] /\ loc' \in [Thread -> LocType]
    BY <1>1, <1>2 DEF TypeOK, LocType, NoLoc, Types
  <2>3. QED
    BY <1>1, <1>2, <2>1, <2>2 DEF TypeOK
<1>7. IdInv'
  BY <1>1, <1>2, AddKeepsIds
<1>8. HandleInv' /\ BlockInv'
  <2>1. \A d \in allocs' : d.rm < nextHandle
    <3>1. allocs' = allocs \cup {a} /\ a.rm = 0
      BY <1>3
    <3>2. \A d \in allocs : d.rm < nextHandle
      BY <1>1 DEF HandleInv
    <3>3. 0 < nextHandle
      BY <1>1 DEF TypeOK
    <3>4. QED
      BY <3>1, <3>2, <3>3
  <2>2. \A d \in allocs' : d.owns => d.rm = 0
    BY <1>1, <1>3 DEF HandleInv
  <2>3. \A d, e \in allocs' : d.rm = e.rm => d = e \/ d.rm = 0
    BY <1>1, <1>3, ZenonT(60) DEF HandleInv
  <2>4. QED
    BY <1>1, <1>2, <2>1, <2>2, <2>3 DEF HandleInv, BlockInv
<1>9. \A c \in live : Owns(a, c) <=> Holds(t, c)
  BY <1>2, <1>3 DEF Owns, Holds
<1>10. \A u \in Thread, c \in live : Holds(u, c)' <=> u # t /\ Holds(u, c)
  BY <1>1, <1>2 DEF TypeOK, Holds
<1>11. \A u \in Thread : pc'[u] = "add" => u # t /\ pc[u] = "add" /\ loc'[u] = loc[u]
  BY <1>1, <1>2 DEF TypeOK
<1>12. SoleOwner'
  <2>1. \A d \in allocs' : d.owns \/ d.rm # 0 => \E c \in live : Owns(d, c) /\ d.size <= c.len
    BY <1>1, <1>3, <1>4, <1>9 DEF SoleOwner
  <2>2. \A u \in Thread : pc'[u] = "add" => \E c \in live : Holds(u, c)' /\ loc'[u].size <= c.len
    BY <1>1, <1>10, <1>11 DEF SoleOwner
  <2>3. \A c \in live :
          /\ \A a1, a2 \in allocs' : Owns(a1, c) /\ Owns(a2, c) => a1 = a2
          /\ \A t1, t2 \in Thread : Holds(t1, c)' /\ Holds(t2, c)' => t1 = t2
          /\ \A d \in allocs', u \in Thread : ~(Owns(d, c) /\ Holds(u, c)')
    <3> SUFFICES ASSUME NEW c \in live
                 PROVE  /\ \A a1, a2 \in allocs' : Owns(a1, c) /\ Owns(a2, c) => a1 = a2
                        /\ \A t1, t2 \in Thread : Holds(t1, c)' /\ Holds(t2, c)' => t1 = t2
                        /\ \A d \in allocs', u \in Thread : ~(Owns(d, c) /\ Holds(u, c)')
      OBVIOUS
    <3>1. /\ \A a1, a2 \in allocs : Owns(a1, c) /\ Owns(a2, c) => a1 = a2
          /\ \A t1, t2 \in Thread : Holds(t1, c) /\ Holds(t2, c) => t1 = t2
          /\ \A d \in allocs, u \in Thread : ~(Owns(d, c) /\ Holds(u, c))
      BY <1>1 DEF SoleOwner
    <3>2. allocs' = allocs \cup {a} /\ (Owns(a, c) <=> Holds(t, c))
      BY <1>3, <1>9
    <3>3. \A a1, a2 \in allocs' : Owns(a1, c) /\ Owns(a2, c) => a1 = a2
      BY <3>1, <3>2
    <3>4. \A u \in Thread : Holds(u, c)' <=> u # t /\ Holds(u, c)
      BY <1>10
    <3>5. \A d \in allocs', u \in Thread : ~(Owns(d, c) /\ Holds(u, c)')
      BY <3>1, <3>2, <3>4
    <3>6. QED
      BY <3>1, <3>3, <3>4, <3>5
  <2>4. QED
    BY <1>2, <2>1, <2>2, <2>3 DEF SoleOwner, Owns
<1>13. NoOrphan'
  <2>1. objs' = {d.rm : d \in allocs'} \ {0}
    BY <1>1, <1>2, <1>3, ZenonT(60) DEF NoOrphan
  <2>2. \A c \in live \ dropped : (\E d \in allocs' : Owns(d, c)) \/ (\E u \in Thread : Holds(u, c)')
    BY <1>1, <1>3, <1>9, <1>10 DEF NoOrphan
  <2>3. QED
    BY <1>2, <2>1, <2>2 DEF NoOrphan, Owns
<1>14. QED
  BY <1>6, <1>7, <1>8, <1>12, <1>13 DEF Inv, MemInv

\* The call gives back exactly the block it holds.
LEMMA RegisterFailsInv ==
  ASSUME Inv, NEW t \in Thread, RegisterFails(t)
  PROVE  Inv'
<1>1. TypeOK /\ IdInv /\ HandleInv /\ BlockInv /\ SoleOwner /\ NoOrphan
  BY DEF Inv, MemInv
<1>2. /\ pc[t] = "add" /\ pc' = [pc EXCEPT ![t] = "idle"] /\ loc' = [loc EXCEPT ![t] = NoLoc]
      /\ live' = live \ {b \in live : b.kind = "heap" /\ b.base = loc[t].base}
      /\ UNCHANGED <<allocs, bytes, nextId, objs, nextHandle, dropped>>
  BY DEF RegisterFails, reg, rm
<1>3. live' = {b \in live : ~Holds(t, b)}
  BY <1>2 DEF Holds
<1>4. TypeOK'
  BY <1>1, <1>2 DEF TypeOK, LocType, NoLoc, Types
<1>5. IdInv' /\ HandleInv' /\ BlockInv'
  BY <1>1, <1>2 DEF IdInv, HandleInv, BlockInv
<1>6. \A u \in Thread, c \in live : Holds(u, c)' <=> u # t /\ Holds(u, c)
  BY <1>1, <1>2 DEF TypeOK, Holds
<1>7. \A u \in Thread : pc'[u] = "add" => u # t /\ pc[u] = "add" /\ loc'[u] = loc[u]
  BY <1>1, <1>2 DEF TypeOK
<1>8. SoleOwner'
  <2>1. \A d \in allocs : d.owns \/ d.rm # 0 => \E c \in live' : Owns(d, c) /\ d.size <= c.len
    BY <1>1, <1>3 DEF SoleOwner
  <2>2. \A u \in Thread : pc'[u] = "add" => \E c \in live' : Holds(u, c)' /\ loc'[u].size <= c.len
    BY <1>1, <1>3, <1>6, <1>7 DEF SoleOwner
  <2>3. QED
    BY <1>1, <1>2, <1>3, <1>6, <2>1, <2>2 DEF SoleOwner, Owns
<1>9. NoOrphan'
  BY <1>1, <1>2, <1>3, <1>6 DEF NoOrphan, Owns
<1>10. QED
  BY <1>4, <1>5, <1>8, <1>9 DEF Inv, MemInv

\* An allocation from RM keeps the invariant.
LEMMA RmAllocInv ==
  ASSUME Inv, NEW t \in Thread, NEW n \in Sizes, RmAlloc(t, n)
  PROVE  Inv'
<1>1. TypeOK /\ IdInv /\ HandleInv /\ BlockInv /\ SoleOwner /\ NoOrphan
  BY DEF Inv, MemInv
<1>2. PICK base \in Addr :
        /\ Fits(Block("rm", base, PageAlign(n)))
        /\ live' = live \cup {Block("rm", base, PageAlign(n))}
        /\ AddAllocation(base, n, "device", FALSE, nextHandle)
  BY DEF RmAlloc
<1>3. objs' = objs \cup {nextHandle} /\ nextHandle' = nextHandle + 1 /\ UNCHANGED <<pc, loc, dropped>>
  BY DEF RmAlloc
<1> PICK b : b = Block("rm", base, PageAlign(n))
  OBVIOUS
<1> PICK a : a = Record(base, n, "device", FALSE, nextHandle)
  OBVIOUS
<1>4. n \in Nat /\ nextHandle \in Nat \ {0}
  BY <1>1, SizesAssumption DEF TypeOK
<1>5. b \in BlockType /\ b.base = base /\ b.kind = "rm" /\ n <= b.len /\ live' = live \cup {b}
  BY <1>2, <1>4, PageAlignCovers DEF Block, BlockType
<1>6. allocs' = allocs \cup {a} /\ a.dptr = base /\ a.size = n /\ ~a.owns /\ a.rm = nextHandle
  BY <1>2 DEF AddAllocation, Record
<1>7. \A c \in live : c.base # base
  BY <1>1, <1>2, <1>5, FreshBase
<1>8. TypeOK'
  <2>1. allocs' \subseteq AllocType /\ bytes' \in Int /\ nextId' \in Nat \ {0}
    BY <1>1, <1>2, <1>4, AddKeepsTypes DEF Types
  <2>2. QED
    BY <1>1, <1>3, <1>4, <1>5, <2>1 DEF TypeOK
<1>9. IdInv'
  BY <1>1, <1>2, AddKeepsIds
<1>10. HandleInv' /\ BlockInv'
  <2>1. \A d \in allocs : d.rm \in Nat
    BY <1>1 DEF TypeOK, AllocType
  <2>2. HandleInv'
    <3>0. allocs' = allocs \cup {a} /\ a.rm = nextHandle
      BY <1>6
    <3>1. \A d \in allocs' : d.rm < nextHandle'
      <4>1. \A d \in allocs : d.rm < nextHandle
        BY <1>1 DEF HandleInv
      <4>2. nextHandle \in Nat /\ nextHandle' = nextHandle + 1
        BY <1>3, <1>4
      <4>3. \A d \in allocs : d.rm < nextHandle + 1
        BY <2>1, <4>1, <4>2
      <4>4. a.rm < nextHandle + 1
        <5>1. nextHandle < nextHandle + 1
          BY <4>2
        <5>2. a.rm = nextHandle
          BY <3>0
        <5>3. QED
          BY <5>1, <5>2, Zenon
      <4>5. \A d \in allocs' : d.rm < nextHandle + 1
        BY <3>0, <4>3, <4>4
      <4>6. QED
        BY <4>2, <4>5
    <3>2. \A d \in allocs' : d.owns => d.rm = 0
      BY <1>1, <1>6 DEF HandleInv
    <3>3. \A d, e \in allocs' : d.rm = e.rm => d = e \/ d.rm = 0
      <4>1. \A d \in allocs : d.rm < nextHandle
        BY <1>1 DEF HandleInv
      <4>2. \A d \in allocs : d.rm # nextHandle
        BY <1>4, <2>1, <4>1
      <4>3. QED
        BY <1>1, <3>0, <4>2 DEF HandleInv
    <3>4. QED
      BY <3>1, <3>2, <3>3 DEF HandleInv
  <2>3. BlockInv'
    BY <1>1, <1>5, <1>7 DEF BlockInv
  <2>4. QED
    BY <2>2, <2>3
<1>11. /\ Owns(a, b)
       /\ \A d \in allocs : ~Owns(d, b)
       /\ \A c \in live : ~Owns(a, c)
       /\ \A u \in Thread : ~Holds(u, b)
  <2>1. Owns(a, b)
    BY <1>4, <1>5, <1>6 DEF Owns
  <2>2. \A c \in live : ~Owns(a, c)
    BY <1>6, <1>7 DEF Owns
  <2>3. \A u \in Thread : ~Holds(u, b)
    BY <1>5 DEF Holds
  <2>4. ASSUME NEW d \in allocs, Owns(d, b) PROVE FALSE
    <3>1. d.dptr = base /\ (d.owns \/ d.rm # 0)
      BY <1>5, <2>4 DEF Owns
    <3>2. PICK c \in live : Owns(d, c)
      BY <1>1, <3>1 DEF SoleOwner
    <3>3. QED
      BY <1>7, <3>1, <3>2 DEF Owns
  <2>5. QED
    BY <2>1, <2>2, <2>3, <2>4
<1>12. \A u, c : Holds(u, c)' <=> Holds(u, c)
  BY <1>3 DEF Holds
<1>13. SoleOwner'
  <2>1. \A d \in allocs' : d.owns \/ d.rm # 0 => \E c \in live' : Owns(d, c) /\ d.size <= c.len
    BY <1>1, <1>5, <1>6, <1>11 DEF SoleOwner
  <2>2. \A c \in live' :
          /\ \A a1, a2 \in allocs' : Owns(a1, c) /\ Owns(a2, c) => a1 = a2
          /\ \A t1, t2 \in Thread : Holds(t1, c) /\ Holds(t2, c) => t1 = t2
          /\ \A d \in allocs', u \in Thread : ~(Owns(d, c) /\ Holds(u, c))
    <3> SUFFICES ASSUME NEW c \in live'
                 PROVE  /\ \A a1, a2 \in allocs' : Owns(a1, c) /\ Owns(a2, c) => a1 = a2
                        /\ \A t1, t2 \in Thread : Holds(t1, c) /\ Holds(t2, c) => t1 = t2
                        /\ \A d \in allocs', u \in Thread : ~(Owns(d, c) /\ Holds(u, c))
      OBVIOUS
    <3>1. CASE c = b
      BY <1>6, <1>11, <3>1
    <3>2. CASE c \in live
      <4>1. allocs' = allocs \cup {a} /\ ~Owns(a, c)
        BY <1>6, <1>11, <3>2
      <4>2. /\ \A a1, a2 \in allocs : Owns(a1, c) /\ Owns(a2, c) => a1 = a2
            /\ \A t1, t2 \in Thread : Holds(t1, c) /\ Holds(t2, c) => t1 = t2
            /\ \A d \in allocs, u \in Thread : ~(Owns(d, c) /\ Holds(u, c))
        BY <1>1, <3>2 DEF SoleOwner
      <4>3. QED
        BY <4>1, <4>2
    <3>3. QED
      BY <1>5, <3>1, <3>2
  <2>3. \A u \in Thread : pc[u] = "add" => \E c \in live' : Holds(u, c) /\ loc[u].size <= c.len
    BY <1>1, <1>5 DEF SoleOwner
  <2>4. QED
    BY <1>3, <1>12, <2>1, <2>2, <2>3 DEF SoleOwner, Owns
<1>14. NoOrphan'
  <2>1. objs' = {d.rm : d \in allocs'} \ {0}
    BY <1>1, <1>3, <1>4, <1>6 DEF NoOrphan
  <2>2. \A c \in live' \ dropped : (\E d \in allocs' : Owns(d, c)) \/ (\E u \in Thread : Holds(u, c))
    BY <1>1, <1>5, <1>6, <1>11 DEF NoOrphan
  <2>3. QED
    BY <1>3, <1>12, <2>1, <2>2 DEF NoOrphan, Owns
<1>15. QED
  BY <1>8, <1>9, <1>10, <1>13, <1>14 DEF Inv, MemInv

(***************************************************************************)
(* A removal takes its record away and with it exactly the block the       *)
(* record owns, or drops that block.                                       *)
(***************************************************************************)
LEMMA RemoveInv ==
  ASSUME Inv, NEW ptr \in Addr, NEW freeOwned \in BOOLEAN, RemoveAllocation(ptr, freeOwned)
  PROVE  Inv'
<1>1. TypeOK /\ IdInv /\ HandleInv /\ BlockInv /\ SoleOwner /\ NoOrphan
  BY DEF Inv, MemInv
<1> PICK a : a = Newest(At(ptr))
  OBVIOUS
<1>2. a \in allocs
  BY <1>1, NewestIsMember DEF RemoveAllocation, At
<1>3. /\ allocs' = allocs \ {a} /\ bytes' = bytes - SizeCounted(a.size, a.type)
      /\ live' = live \ Freed(a, freeOwned) /\ objs' = objs \ {a.rm}
      /\ dropped' = (dropped \ Freed(a, freeOwned)) \cup Kept(a, freeOwned)
      /\ UNCHANGED <<nextId, nextHandle, pc, loc>>
  BY DEF RemoveAllocation
<1>4. Freed(a, freeOwned) \cup Kept(a, freeOwned) = {b \in live : Owns(a, b)}
  <2>1. \A b \in live : Owns(a, b) <=> b \in Freed(a, freeOwned) \/ b \in Kept(a, freeOwned)
    BY DEF Owns, Freed, Kept
  <2>2. Freed(a, freeOwned) \subseteq live /\ Kept(a, freeOwned) \subseteq live
    BY DEF Freed, Kept
  <2>3. QED
    BY <2>1, <2>2
<1>5. TypeOK'
  <2>1. SizeCounted(a.size, a.type) \in Int
    BY <1>1, <1>2 DEF TypeOK, AllocType, SizeCounted
  <2>2. Kept(a, freeOwned) \subseteq BlockType
    BY <1>1 DEF TypeOK, Kept
  <2>3. bytes' \in Int
    BY <1>1, <1>3, <2>1 DEF TypeOK
  <2>4. /\ allocs' \subseteq AllocType /\ live' \subseteq BlockType
        /\ objs' \subseteq Nat \ {0} /\ dropped' \subseteq BlockType
    BY <1>1, <1>3, <2>2 DEF TypeOK
  <2>5. QED
    BY <1>1, <1>3, <2>3, <2>4 DEF TypeOK
<1>6. IdInv' /\ HandleInv' /\ BlockInv'
  BY <1>1, <1>3 DEF IdInv, HandleInv, BlockInv
<1>7. \A u, c : Holds(u, c)' <=> Holds(u, c)
  BY <1>3 DEF Holds
<1>8. SoleOwner'
  <2>1. \A d \in allocs \ {a}, c \in live : Owns(d, c) => c \in live'
    BY <1>1, <1>2, <1>3, <1>4 DEF SoleOwner
  <2>2. \A u \in Thread, c \in live : Holds(u, c) => c \in live'
    BY <1>1, <1>2, <1>3, <1>4 DEF SoleOwner
  <2>3. \A d \in allocs' : d.owns \/ d.rm # 0 => \E c \in live' : Owns(d, c) /\ d.size <= c.len
    BY <1>1, <1>3, <2>1 DEF SoleOwner
  <2>4. \A u \in Thread : pc[u] = "add" => \E c \in live' : Holds(u, c) /\ loc[u].size <= c.len
    BY <1>1, <2>2 DEF SoleOwner
  <2>5. \A c \in live' :
          /\ \A a1, a2 \in allocs' : Owns(a1, c) /\ Owns(a2, c) => a1 = a2
          /\ \A t1, t2 \in Thread : Holds(t1, c) /\ Holds(t2, c) => t1 = t2
          /\ \A d \in allocs', u \in Thread : ~(Owns(d, c) /\ Holds(u, c))
    BY <1>1, <1>3 DEF SoleOwner
  <2>6. QED
    BY <1>3, <1>7, <2>3, <2>4, <2>5 DEF SoleOwner, Owns
<1>9. NoOrphan'
  <2>1. objs' = {d.rm : d \in allocs'} \ {0}
    BY <1>1, <1>2, <1>3 DEF NoOrphan, HandleInv
  <2>2. \A c \in live' \ dropped' : (\E d \in allocs' : Owns(d, c)) \/ (\E u \in Thread : Holds(u, c))
    BY <1>1, <1>3, <1>4 DEF NoOrphan
  <2>3. QED
    BY <1>7, <2>1, <2>2 DEF NoOrphan, Owns
<1>10. QED
  BY <1>5, <1>6, <1>8, <1>9 DEF Inv, MemInv

-----------------------------------------------------------------------------
\* Every step keeps the invariant.
LEMMA StepInv == Inv /\ [Next]_vars => Inv'
<1> SUFFICES ASSUME Inv, [Next]_vars PROVE Inv'
  OBVIOUS
<1>1. ASSUME NEW t \in Thread, NEW n \in Sizes, RmAlloc(t, n) PROVE Inv'
  BY <1>1, RmAllocInv
<1>2. ASSUME NEW t \in Thread, NEW n \in Sizes, RmAllocFails(t, n) PROVE Inv'
  <2>1. /\ pc[t] = "idle" /\ pc' = [pc EXCEPT ![t] = "heap"]
        /\ loc' = [loc EXCEPT ![t] = [base |-> 0, size |-> n, type |-> "device"]]
        /\ nextHandle' \in {nextHandle, nextHandle + 1}
        /\ UNCHANGED <<reg, objs, live, dropped>>
    BY <1>2 DEF RmAllocFails
  <2>2. "device" \in Types
    BY DEF Types
  <2>3. QED
    BY <2>1, <2>2, AskInv
<1>3. ASSUME NEW t \in Thread, NEW n \in Sizes, NEW type \in Types, HeapRequest(t, n, type) PROVE Inv'
  BY <1>3, AskInv DEF HeapRequest, rm
<1>4. ASSUME NEW t \in Thread, HeapAlloc(t) PROVE Inv'
  BY <1>4, HeapAllocInv
<1>5. ASSUME NEW t \in Thread, Register(t) PROVE Inv'
  BY <1>5, RegisterInv
<1>6. ASSUME NEW t \in Thread, RegisterFails(t) PROVE Inv'
  BY <1>6, RegisterFailsInv
<1>7. ASSUME NEW ptr \in Addr, MemFree(ptr) PROVE Inv'
  BY <1>7, RemoveInv DEF MemFree
<1>8. ASSUME NEW ptr \in RegPtrs, NEW n \in Sizes, HostRegister(ptr, n) PROVE Inv'
  BY <1>8, HostRegisterInv
<1>9. ASSUME NEW ptr \in RegPtrs, HostUnregister(ptr) PROVE Inv'
  BY <1>9, RemoveInv, PtrAssumption DEF HostUnregister, Addr
<1>10. CASE UNCHANGED vars
  BY <1>10 DEF Inv, MemInv, TypeOK, IdInv, HandleInv, BlockInv, SoleOwner, NoOrphan, Owns, Holds,
               vars, reg, rm
<1>11. QED
  BY <1>1, <1>2, <1>3, <1>4, <1>5, <1>6, <1>7, <1>8, <1>9, <1>10 DEF Next

(***************************************************************************)
(* Every reachable state is of its type and keeps the ownership invariant. *)
(***************************************************************************)
THEOREM MemoryInvariant == Spec => [](TypeOK /\ MemInv)
<1>1. Spec => []Inv
  BY InitInv, StepInv, PTL DEF Spec
<1>2. Inv => TypeOK /\ MemInv
  BY DEF Inv
<1>3. QED
  BY <1>1, <1>2, PTL

(***************************************************************************)
(* No block has two owners and every owner's block is live, whatever       *)
(* addresses callers free, register and unregister, in any interleaving.   *)
(***************************************************************************)
THEOREM OneOwner == Spec => []SoleOwner
<1>1. TypeOK /\ MemInv => SoleOwner
  BY DEF MemInv
<1>2. QED
  BY <1>1, MemoryInvariant, PTL

(***************************************************************************)
(* No block and no RM object is lost on any path of an allocation.         *)
(***************************************************************************)
THEOREM NothingLost == Spec => []NoOrphan
<1>1. TypeOK /\ MemInv => NoOrphan
  BY DEF MemInv
<1>2. QED
  BY <1>1, MemoryInvariant, PTL

(***************************************************************************)
(* A range that a copy or a fill resolves lies in live memory that belongs *)
(* to the registration it resolves to.                                     *)
(***************************************************************************)
THEOREM ResolvedInLiveMemory == Spec => []ResolvedIsInside
<1>1. TypeOK /\ MemInv => ResolvedIsInside
  <2> SUFFICES ASSUME TypeOK, MemInv, NEW ptr \in Addr, NEW n \in Sizes \ {0}, Found(ptr, n),
                      NEW a, a = FindAlloc(ptr, n), a.owns \/ a.rm # 0
               PROVE  \E b \in live : Owns(a, b) /\ b.base <= ptr /\ ptr + n <= b.base + b.len
    BY DEF ResolvedIsInside
  <2>1. a \in Containing(ptr, n)
    BY NewestIsMember DEF MemInv, Found, FindAlloc, Containing
  <2>2. a \in allocs /\ a.dptr <= ptr /\ n <= a.size - (ptr - a.dptr)
    BY <2>1 DEF Containing, RangeContains
  <2>3. PICK b \in live : Owns(a, b) /\ a.size <= b.len
    BY <2>2 DEF MemInv, SoleOwner
  <2>4. b.base = a.dptr
    BY <2>3 DEF Owns
  <2>5. a.dptr \in Int /\ a.size \in Int /\ b.len \in Int /\ ptr \in Int /\ n \in Int
    BY <2>2, SizesAssumption DEF TypeOK, AllocType, BlockType, Addr
  <2>6. QED
    BY <2>2, <2>3, <2>4, <2>5
<1>2. QED
  BY <1>1, MemoryInvariant, PTL

(***************************************************************************)
(* Live blocks never overlap, and heap blocks never touch another.         *)
(***************************************************************************)
ApartInv == \A b, c \in live : b # c => IF b.kind = "rm" /\ c.kind = "rm" THEN Beside(b, c) ELSE Apart(b, c)

\* A block is new where it fits, and a block is taken away.
LEMMA ApartStep ==
  ASSUME TypeOK, ApartInv, [Next]_vars
  PROVE  ApartInv'
<1>1. live' \subseteq live \/ \E b : Fits(b) /\ live' = live \cup {b}
  BY DEF Next, vars, rm, RmAlloc, RmAllocFails, HeapRequest, HeapAlloc, Register, RegisterFails, MemFree,
     RemoveAllocation, HostRegister, HostUnregister
<1>2. CASE live' \subseteq live
  BY <1>2 DEF ApartInv
<1>3. ASSUME NEW b, Fits(b), live' = live \cup {b} PROVE ApartInv'
  <2>1. \A c \in live : IF b.kind = "rm" /\ c.kind = "rm" THEN Beside(b, c) ELSE Apart(b, c)
    BY <1>3 DEF Fits
  <2> QED
    BY <1>3, <2>1 DEF ApartInv, Beside, Apart
<1> QED
  BY <1>1, <1>2, <1>3

\* While every registration is heap memory of the library's own, the pointer anywhere in an
\* allocation is found to be that allocation's, whatever lies next to it.
THEOREM RangesAreExact == Spec => []HeapRangeExact
<1>1. Init => ApartInv
  BY DEF Init, ApartInv
<1>2. Inv /\ ApartInv /\ [Next]_vars => ApartInv'
  BY ApartStep DEF Inv
<1>3. Inv /\ ApartInv => HeapRangeExact
  <2> SUFFICES ASSUME Inv, ApartInv, \A b \in allocs : b.owns,
                      NEW ptr \in Addr, NEW a \in allocs, Inside(a, ptr)
               PROVE  Found(ptr, 0) /\ FindAlloc(ptr, 0) = a
    BY DEF HeapRangeExact
  <2>1. /\ allocs \subseteq AllocType /\ live \subseteq BlockType /\ SoleOwner
        /\ \A b \in allocs : b.dptr \in Nat /\ b.size \in Nat /\ b.id \in Nat
        /\ \A b \in live : b.base \in Nat /\ b.len \in Nat
        /\ ptr \in Nat
    BY DEF Inv, TypeOK, MemInv, AllocType, BlockType, Addr
  <2>2. HandleInv
    BY DEF Inv, MemInv
  <2>3. a \in Containing(ptr, 0)
    BY <2>1 DEF Inside, Containing, RangeContains
  <2>4. ASSUME NEW b \in Containing(ptr, 0) PROVE b = a
    <3>1. b \in allocs /\ b.dptr <= ptr /\ ptr <= b.dptr + b.size
      BY <2>1 DEF Containing, RangeContains
    <3>2. PICK x \in live : Owns(a, x) /\ a.size <= x.len
      BY <2>1 DEF SoleOwner
    <3>3. PICK y \in live : Owns(b, y) /\ b.size <= y.len
      BY <2>1, <3>1 DEF SoleOwner
    <3>4. /\ x.base = a.dptr /\ y.base = b.dptr /\ x.kind = "heap" /\ y.kind = "heap"
      BY <2>2, <3>1, <3>2, <3>3 DEF Owns, HandleInv
    <3>5. x = y
      <4>1. SUFFICES ASSUME x # y PROVE FALSE
        OBVIOUS
      <4>2. Apart(x, y)
        BY <3>4, <4>1 DEF ApartInv
      <4> QED
        BY <2>1, <3>1, <3>2, <3>3, <3>4, <4>2 DEF Apart, Inside
    <3> QED
      BY <2>1, <3>1, <3>2, <3>3, <3>5 DEF SoleOwner
  <2>5. Containing(ptr, 0) = {a} /\ a.id <= a.id
    BY <2>1, <2>3, <2>4
  <2> QED
    BY <2>5 DEF Found, FindAlloc, Newest
<1> QED
  BY <1>1, <1>2, <1>3, MemoryInvariant, PTL DEF Spec, Inv

-----------------------------------------------------------------------------
(***************************************************************************)
(* Sums over finite sets, made as MapThenSumSet makes them, one picked     *)
(* element after the other; that the order does not matter is shown by a   *)
(* smallest counterexample.  g is the sum of the weights w over each of    *)
(* the subsets of S.                                                       *)
(***************************************************************************)
Pick(s) == CHOOSE x \in s : TRUE
SumsTo(w, g, S) == g = [s \in SUBSET S |-> IF s = {} THEN 0 ELSE w[Pick(s)] + g[s \ {Pick(s)}]]
Summing(w, S) == CHOOSE g : SumsTo(w, g, S)
Sum(w, S) == Summing(w, S)[S]

\* A set that is not empty has the element that is picked.
LEMMA Picked == \A s : s # {} => Pick(s) \in s
  BY DEF Pick

\* A summing function, step by step.
LEMMA SumStep ==
  ASSUME NEW w, NEW S, NEW g, SumsTo(w, g, S), NEW s, s \subseteq S
  PROVE  /\ s = {} => g[s] = 0
         /\ s # {} => Pick(s) \in s /\ g[s] = w[Pick(s)] + g[s \ {Pick(s)}]
<1>1. \A u \in SUBSET S : g[u] = IF u = {} THEN 0 ELSE w[Pick(u)] + g[u \ {Pick(u)}]
  BY DEF SumsTo
<1>2. g[s] = IF s = {} THEN 0 ELSE w[Pick(s)] + g[s \ {Pick(s)}]
  BY <1>1
<1> QED
  BY <1>2, Picked

\* Of finite sets with a property one is smallest.
LEMMA SmallestSet ==
  ASSUME NEW C, C # {}, \A s \in C : IsFiniteSet(s)
  PROVE  \E s \in C : \A u \in C : Cardinality(s) <= Cardinality(u)
<1> DEFINE Cards == {Cardinality(s) : s \in C}
<1>1. Cards \subseteq Nat /\ Cards # {}
  BY FS_CardinalityType
<1>2. PICK n \in Cards : \A m \in Cards : n <= m
  BY <1>1, LeastElement
<1> QED
  BY <1>2

\* A set without one of its elements is a smaller one.
LEMMA SmallerSet ==
  ASSUME NEW S, IsFiniteSet(S), NEW x \in S
  PROVE  IsFiniteSet(S \ {x}) /\ ~(Cardinality(S) <= Cardinality(S \ {x}))
<1>1. IsFiniteSet(S \ {x}) /\ Cardinality(S \ {x}) = Cardinality(S) - 1
  BY FS_RemoveElement
<1>2. Cardinality(S) \in Nat
  BY FS_CardinalityType
<1> QED
  BY <1>1, <1>2

\* Where two summing functions are both defined they agree.
LEMMA SumsAgree ==
  ASSUME NEW w, NEW S, NEW T, NEW g, NEW h, SumsTo(w, g, S), SumsTo(w, h, T), NEW s, s \subseteq S, s \subseteq T, IsFiniteSet(s)
  PROVE  g[s] = h[s]
<1> DEFINE C == {u \in SUBSET s : g[u] # h[u]}
<1>1. CASE C = {}
  BY <1>1
<1>2. CASE C # {}
  <2>1. \A u \in C : IsFiniteSet(u)
    BY FS_Subset
  <2>2. PICK u \in C : \A v \in C : Cardinality(u) <= Cardinality(v)
    BY <1>2, <2>1, SmallestSet
  <2>3. u \in SUBSET S /\ u \in SUBSET T /\ u \in SUBSET s /\ IsFiniteSet(u) /\ g[u] # h[u]
    BY <2>1, <2>2
  <2>4. u # {}
    BY <2>3, SumStep
  <2>5. Pick(u) \in u
    BY <2>4, Picked
  <2> DEFINE v == u \ {Pick(u)}
  <2>6. g[u] = w[Pick(u)] + g[v] /\ h[u] = w[Pick(u)] + h[v]
    BY <2>3, <2>4, SumStep
  <2>7. v \in SUBSET s /\ ~(Cardinality(u) <= Cardinality(v))
    BY <2>3, <2>5, SmallerSet
  <2>8. v \notin C
    BY <2>2, <2>7
  <2> QED
    BY <2>3, <2>6, <2>7, <2>8
<1> QED
  BY <1>1, <1>2

\* Every finite set has a summing function.
LEMMA SumExists ==
  ASSUME NEW w, NEW S, IsFiniteSet(S)
  PROVE  SumsTo(w, Summing(w, S), S)
<1> DEFINE C == {s \in SUBSET S : ~\E g : SumsTo(w, g, s)}
<1>1. CASE C = {}
  <2>1. \E g : SumsTo(w, g, S)
    BY <1>1
  <2> QED
    BY <2>1 DEF Summing
<1>2. CASE C # {}
  <2>1. \A u \in C : IsFiniteSet(u)
    BY FS_Subset
  <2>2. PICK u \in C : \A v \in C : Cardinality(u) <= Cardinality(v)
    BY <1>2, <2>1, SmallestSet
  <2>3. u \in SUBSET S /\ IsFiniteSet(u) /\ ~\E g : SumsTo(w, g, u)
    BY <2>1, <2>2
  <2>4. \A s \in SUBSET u : s # {} =>
          LET v == s \ {Pick(s)} IN v \in SUBSET u /\ IsFiniteSet(v) /\ SumsTo(w, Summing(w, v), v)
    <3>1. ASSUME NEW s \in SUBSET u, s # {} 
          PROVE  LET v == s \ {Pick(s)} IN v \in SUBSET u /\ IsFiniteSet(v) /\ SumsTo(w, Summing(w, v), v)
      <4> DEFINE v == s \ {Pick(s)}
      <4>1. Pick(s) \in s /\ IsFiniteSet(s) /\ Cardinality(s) <= Cardinality(u)
        BY <2>3, <3>1, Picked, FS_Subset
      <4>2. v \in SUBSET u /\ IsFiniteSet(v) /\ ~(Cardinality(s) <= Cardinality(v))
        BY <4>1, SmallerSet
      <4>3. ~(Cardinality(u) <= Cardinality(v))
        BY <2>3, <4>1, <4>2, FS_CardinalityType
      <4>4. v \notin C /\ v \in SUBSET S
        BY <2>2, <2>3, <4>2, <4>3
      <4>5. \E g : SumsTo(w, g, v)
        BY <4>4
      <4>6. SumsTo(w, Summing(w, v), v)
        BY <4>5 DEF Summing
      <4> QED
        BY <4>2, <4>6
    <3> QED
      BY <3>1
  <2> DEFINE h == [s \in SUBSET u |-> IF s = {} THEN 0 ELSE w[Pick(s)] + Summing(w, s \ {Pick(s)})[s \ {Pick(s)}]]
  <2>5. \A s \in SUBSET u : h[s] = IF s = {} THEN 0 ELSE w[Pick(s)] + Summing(w, s \ {Pick(s)})[s \ {Pick(s)}]
    OBVIOUS
  <2>5a. DOMAIN h = SUBSET u /\ h = [s \in SUBSET u |-> h[s]]
    OBVIOUS
  <2> HIDE DEF h
  <2>6. ASSUME NEW s \in SUBSET u, s # {} PROVE h[s \ {Pick(s)}] = Summing(w, s \ {Pick(s)})[s \ {Pick(s)}]
    <3> DEFINE v == s \ {Pick(s)}
    <3>1. v \in SUBSET u /\ IsFiniteSet(v) /\ SumsTo(w, Summing(w, v), v)
      BY <2>4, <2>6
    <3> HIDE DEF v
    <3>2. CASE v = {}
      <4>1. h[v] = 0
        BY <2>5, <3>1, <3>2
      <4>2. Summing(w, v)[v] = 0
        BY <3>1, <3>2, SumStep
      <4> QED
        BY <4>1, <4>2 DEF v
    <3>3. CASE v # {}
      <4> DEFINE z == v \ {Pick(v)}
      <4>1. z \in SUBSET u /\ IsFiniteSet(z) /\ SumsTo(w, Summing(w, z), z) /\ z \subseteq v
        BY <2>4, <3>1, <3>3
      <4>2. h[v] = w[Pick(v)] + Summing(w, z)[z]
        BY <2>5, <3>1, <3>3
      <4>3. v \in SUBSET v
        OBVIOUS
      <4>4. Summing(w, v)[v] = w[Pick(v)] + Summing(w, v)[z]
        BY <3>1, <3>3, <4>3, SumStep
      <4> HIDE DEF z
      <4>5. Summing(w, v)[z] = Summing(w, z)[z]
        BY <3>1, <4>1, SumsAgree
      <4>6. h[v] = Summing(w, v)[v]
        BY <4>2, <4>4, <4>5
      <4> QED
        BY <4>6 DEF v
    <3> QED
      BY <3>2, <3>3
  <2>7. \A s \in SUBSET u : h[s] = IF s = {} THEN 0 ELSE w[Pick(s)] + h[s \ {Pick(s)}]
    BY <2>5, <2>6
  <2>8. SumsTo(w, h, u)
    BY <2>5a, <2>7 DEF SumsTo
  <2> QED
    BY <2>3, <2>8
<1> QED
  BY <1>1, <1>2

\* A sum is the weight of any of its elements and the sum of the others.
LEMMA SumAny ==
  ASSUME NEW w, NEW S, NEW g, SumsTo(w, g, S), IsFiniteSet(S), \A a \in S : w[a] \in Nat
  PROVE  \A s \in SUBSET S : g[s] \in Nat /\ \A x \in s : g[s] = w[x] + g[s \ {x}]
<1> DEFINE Good(s) == g[s] \in Nat /\ \A x \in s : g[s] = w[x] + g[s \ {x}]
           C == {s \in SUBSET S : ~Good(s)}
<1>1. CASE C = {}
  BY <1>1
<1>2. CASE C # {}
  <2>1. \A u \in C : IsFiniteSet(u)
    BY FS_Subset
  <2> HIDE DEF C
  <2>2. PICK u \in C : \A v \in C : Cardinality(u) <= Cardinality(v)
    BY <1>2, <2>1, SmallestSet
  <2>3. u \in SUBSET S /\ IsFiniteSet(u) /\ ~Good(u)
    BY <2>1, <2>2 DEF C
  <2>4. \A x \in u : u \ {x} \in SUBSET S /\ Good(u \ {x})
    <3>1. ASSUME NEW x \in u PROVE u \ {x} \in SUBSET S /\ Good(u \ {x})
      <4>1. ~(Cardinality(u) <= Cardinality(u \ {x})) /\ u \ {x} \in SUBSET S
        BY <2>3, SmallerSet
      <4>2. u \ {x} \notin C
        BY <2>2, <4>1
      <4> QED
        BY <4>1, <4>2 DEF C
    <3> QED
      BY <3>1
  <2>5. u # {}
    <3>1. g[{}] = 0 /\ \A x \in {} : FALSE
      BY SumStep
    <3>2. Good({})
      BY <3>1
    <3> QED
      BY <2>3, <3>2
  <2> DEFINE c == Pick(u)
  <2>6. c \in u /\ g[u] = w[c] + g[u \ {c}]
    BY <2>3, <2>5, Picked, SumStep
  <2> HIDE DEF c
  <2>7. \A x \in u : w[x] \in Nat /\ g[u \ {x}] \in Nat
    BY <2>3, <2>4
  <2>8. g[u] \in Nat
    <3>1. w[c] \in Nat /\ g[u \ {c}] \in Nat
      BY <2>6, <2>7, Zenon
    <3>2. \A i, j \in Nat : i + j \in Nat
      OBVIOUS
    <3> QED
      BY <2>6, <3>1, <3>2, Zenon
  <2>9. ASSUME NEW x \in u, x # c PROVE g[u] = w[x] + g[u \ {x}]
    <3> DEFINE v == (u \ {c}) \ {x}
    <3>1. v = (u \ {x}) \ {c} /\ x \in u \ {c} /\ c \in u \ {x}
      BY <2>6, <2>9
    <3>2. g[u \ {c}] = w[x] + g[v] /\ g[u \ {x}] = w[c] + g[v]
      BY <2>4, <2>6, <3>1
    <3>3. g[v] \in Nat
      <4>1. v \in SUBSET S
        BY <2>3
      <4>2. ~(Cardinality(u) <= Cardinality(v))
        <5>1. IsFiniteSet(u \ {c}) /\ ~(Cardinality(u) <= Cardinality(u \ {c}))
          BY <2>3, <2>6, SmallerSet
        <5>2. IsFiniteSet(v) /\ ~(Cardinality(u \ {c}) <= Cardinality(v))
          BY <3>1, <5>1, SmallerSet
        <5> QED
          BY <2>3, <5>1, <5>2, FS_CardinalityType
      <4>3. v \notin C
        BY <2>2, <4>2
      <4> QED
        BY <4>1, <4>3 DEF C
    <3> QED
      BY <2>6, <2>7, <3>2, <3>3
  <2> QED
    BY <2>3, <2>6, <2>8, <2>9
<1> QED
  BY <1>1, <1>2

\* The sum of one element more, or of none.
LEMMA SumAdds ==
  ASSUME NEW w, NEW S, IsFiniteSet(S), \A a \in S : w[a] \in Nat, NEW x \in S
  PROVE  Sum(w, S) = w[x] + Sum(w, S \ {x}) /\ Sum(w, S \ {x}) \in Nat
<1> DEFINE T == S \ {x}
<1>1. IsFiniteSet(T) /\ T \subseteq S /\ T \subseteq T /\ S \subseteq S
  BY SmallerSet
<1> HIDE DEF T
<1>2. SumsTo(w, Summing(w, S), S) /\ SumsTo(w, Summing(w, T), T)
  BY <1>1, SumExists
<1>3. Summing(w, S)[T] = Summing(w, T)[T]
  BY <1>1, <1>2, SumsAgree
<1>4. \A s \in SUBSET S : Summing(w, S)[s] \in Nat
                          /\ \A y \in s : Summing(w, S)[s] = w[y] + Summing(w, S)[s \ {y}]
  BY <1>2, SumAny
<1>5. Summing(w, S)[S] = w[x] + Summing(w, S)[T] /\ Summing(w, S)[T] \in Nat
  BY <1>1, <1>4, Zenon DEF T
<1> QED
  BY <1>3, <1>5 DEF Sum, T

LEMMA SumOfNone == ASSUME NEW w PROVE Sum(w, {}) = 0
<1>1. SumsTo(w, Summing(w, {}), {})
  BY SumExists, FS_EmptySet
<1> QED
  BY <1>1, SumStep DEF Sum

\* The sum over a part is not more than the sum over the whole.
LEMMA SumOfPart ==
  ASSUME NEW w, NEW S, IsFiniteSet(S), \A a \in S : w[a] \in Nat, NEW T, T \subseteq S
  PROVE  Sum(w, T) <= Sum(w, S) /\ Sum(w, T) \in Nat /\ Sum(w, S) \in Nat
<1> DEFINE C == {u \in SUBSET S : T \subseteq u /\ ~(Sum(w, T) <= Sum(w, u))}
<1>1. ASSUME NEW u \in SUBSET S PROVE IsFiniteSet(u) /\ Sum(w, u) \in Nat
  <2>1. IsFiniteSet(u)
    BY <1>1, FS_Subset
  <2>2. SumsTo(w, Summing(w, u), u) /\ \A a \in u : w[a] \in Nat
    BY <1>1, <2>1, SumExists
  <2>3. \A s \in SUBSET u : Summing(w, u)[s] \in Nat
    BY <2>1, <2>2, SumAny
  <2> QED
    BY <2>1, <2>3 DEF Sum
<1>2. CASE C = {}
  <2>1. S \notin C /\ T \in SUBSET S /\ S \in SUBSET S
    BY <1>2
  <2> QED
    BY <1>1, <2>1
<1>3. CASE C # {}
  <2>1. \A u \in C : IsFiniteSet(u)
    BY <1>1
  <2> HIDE DEF C
  <2>2. PICK u \in C : \A v \in C : Cardinality(u) <= Cardinality(v)
    BY <1>3, <2>1, SmallestSet
  <2>3. u \in SUBSET S /\ T \subseteq u /\ ~(Sum(w, T) <= Sum(w, u)) /\ T \in SUBSET S
    BY DEF C
  <2>4. T # u
    BY <1>1, <2>3
  <2>5. PICK x \in u : x \notin T
    BY <2>3, <2>4
  <2> DEFINE v == u \ {x}
  <2>6. v \in SUBSET S /\ T \subseteq v
    BY <2>3, <2>5
  <2>7. ~(Cardinality(u) <= Cardinality(v))
    BY <1>1, <2>3, SmallerSet
  <2>8. Sum(w, T) <= Sum(w, v)
    BY <2>2, <2>6, <2>7 DEF C
  <2>9. Sum(w, u) = w[x] + Sum(w, v) /\ w[x] \in Nat
    BY <1>1, <2>3, SumAdds
  <2> HIDE DEF v
  <2> QED
    BY <1>1, <2>3, <2>6, <2>8, <2>9
<1> QED
  BY <1>2, <1>3

-----------------------------------------------------------------------------
(***************************************************************************)
(* The total: a sum over the registrations, in whatever order they are     *)
(* taken.                                                                  *)
(***************************************************************************)
Weights == [a \in AllocType |-> IF Counted(a.type) THEN a.size ELSE 0]
Total(S) == Sum(Weights, S)

\* What the property says is the sum.
LEMMA AccountingMeans ==
  ASSUME allocs \subseteq AllocType, IsFiniteSet(allocs), bytes = Total(allocs)
  PROVE  AccountingExact
<1> DEFINE Weight(a) == IF Counted(a.type) THEN a.size ELSE 0
           Adds(g) == g = [s \in SUBSET allocs |-> IF s = {} THEN 0 ELSE Weight(Pick(s)) + g[s \ {Pick(s)}]]
<1>1. ASSUME NEW g PROVE Adds(g) <=> SumsTo(Weights, g, allocs)
  <2>1. \A s \in SUBSET allocs : s # {} => Weights[Pick(s)] = Weight(Pick(s))
    BY Picked DEF Weights
  <2> HIDE DEF Weight
  <2>2. [s \in SUBSET allocs |-> IF s = {} THEN 0 ELSE Weight(Pick(s)) + g[s \ {Pick(s)}]]
        = [s \in SUBSET allocs |-> IF s = {} THEN 0 ELSE Weights[Pick(s)] + g[s \ {Pick(s)}]]
    BY <2>1
  <2> QED
    BY <2>2 DEF SumsTo
<1> DEFINE h == CHOOSE g : Adds(g)
<1>2. AccountingExact <=> bytes = h[allocs]
  BY DEF AccountingExact, MapThenSumSet, MapThenFoldSet, Pick
<1> HIDE DEF Adds
<1>3. SumsTo(Weights, Summing(Weights, allocs), allocs)
  BY SumExists
<1>4. Adds(h)
  BY <1>1, <1>3
<1> HIDE DEF h
<1>5. SumsTo(Weights, h, allocs)
  BY <1>1, <1>4
<1>6. h[allocs] = Summing(Weights, allocs)[allocs]
  BY <1>3, <1>5, SumsAgree
<1> QED
  BY <1>2, <1>6 DEF Sum, Total

\* The total of one registration more.
LEMMA TotalAdds ==
  ASSUME NEW S, IsFiniteSet(S), S \subseteq AllocType, NEW x \in S
  PROVE  /\ Total(S) = SizeCounted(x.size, x.type) + Total(S \ {x}) /\ Total(S \ {x}) \in Nat
         /\ SizeCounted(x.size, x.type) \in Nat
<1>1. \A a \in AllocType : Weights[a] = SizeCounted(a.size, a.type) /\ Weights[a] \in Nat
  BY DEF Weights, SizeCounted, AllocType
<1>2. \A a \in S : Weights[a] \in Nat
  BY <1>1
<1>3. Sum(Weights, S) = Weights[x] + Sum(Weights, S \ {x}) /\ Sum(Weights, S \ {x}) \in Nat
  BY <1>2, SumAdds
<1>4. Weights[x] = SizeCounted(x.size, x.type) /\ Weights[x] \in Nat
  BY <1>1
<1> QED
  BY <1>3, <1>4 DEF Total

\* There are finitely many registrations, and the total is theirs.
AccountInv == IsFiniteSet(allocs) /\ bytes = Total(allocs)

\* A registration is added.
LEMMA AddKeepsTotal ==
  ASSUME TypeOK, IdInv, AccountInv, NEW dptr \in Addr, NEW n \in Nat, NEW type \in Types,
         NEW owns \in BOOLEAN, NEW h \in Nat, AddAllocation(dptr, n, type, owns, h)
  PROVE  AccountInv'
<1> DEFINE x == Record(dptr, n, type, owns, h)
<1>1. allocs' = allocs \cup {x} /\ bytes' = bytes + SizeCounted(n, type)
  BY DEF AddAllocation
<1>2. x \notin allocs
  BY DEF Record, TypeOK, IdInv, AllocType
<1>3. x.size = n /\ x.type = type
  BY DEF Record
<1>4. allocs' \subseteq AllocType
  BY AddKeepsTypes
<1> HIDE DEF x
<1>5. IsFiniteSet(allocs')
  BY <1>1, FS_AddElement DEF AccountInv
<1>6. allocs = allocs' \ {x} /\ x \in allocs'
  BY <1>1, <1>2
<1>7. /\ Total(allocs') = SizeCounted(n, type) + Total(allocs) /\ Total(allocs) \in Nat
      /\ SizeCounted(n, type) \in Nat
  BY <1>3, <1>4, <1>5, <1>6, TotalAdds
<1>8. bytes' = Total(allocs')
  BY <1>1, <1>7 DEF AccountInv
<1> QED
  BY <1>5, <1>8 DEF AccountInv, Total

\* A registration is removed.
LEMMA RemoveKeepsTotal ==
  ASSUME TypeOK, IdInv, AccountInv, NEW ptr, NEW freeOwned, RemoveAllocation(ptr, freeOwned)
  PROVE  AccountInv'
<1> DEFINE x == Newest(At(ptr))
<1>1. allocs' = allocs \ {x} /\ bytes' = bytes - SizeCounted(x.size, x.type)
  BY DEF RemoveAllocation
<1>2. x \in allocs
  <2>1. At(ptr) \subseteq allocs /\ At(ptr) # {}
    BY DEF RemoveAllocation, At
  <2> QED
    BY <2>1, NewestIsMember
<1> HIDE DEF x
<1>3. allocs \subseteq AllocType
  BY DEF TypeOK
<1>4. IsFiniteSet(allocs) /\ bytes = Total(allocs)
  BY DEF AccountInv
<1>5. /\ Total(allocs) = SizeCounted(x.size, x.type) + Total(allocs') /\ Total(allocs') \in Nat
      /\ SizeCounted(x.size, x.type) \in Nat
  BY <1>1, <1>2, <1>3, <1>4, TotalAdds
<1>6. IsFiniteSet(allocs')
  BY <1>1, <1>2, <1>4, SmallerSet
<1>7. bytes' = Total(allocs')
  BY <1>1, <1>4, <1>5
<1> QED
  BY <1>6, <1>7 DEF AccountInv, Total

\* Nothing is registered or removed.
LEMMA SameTotal ==
  ASSUME AccountInv, UNCHANGED <<allocs, bytes>> PROVE AccountInv'
<1>1. bytes' = Total(allocs') /\ IsFiniteSet(allocs')
  BY DEF AccountInv
<1> QED
  BY <1>1 DEF AccountInv, Total

\* Every call counts what it registers and takes off what it removes.
LEMMA AccountStep ==
  ASSUME Inv, AccountInv, [Next]_vars PROVE AccountInv'
<1>0. TypeOK /\ IdInv /\ \A n \in Sizes : n \in Nat
  BY SizesAssumption DEF Inv, MemInv
<1>1. CASE UNCHANGED vars
  BY <1>1, SameTotal DEF vars, reg
<1>2. ASSUME NEW t \in Thread, NEW n \in Sizes, RmAlloc(t, n) PROVE AccountInv'
  <2>1. PICK base \in Addr : AddAllocation(base, n, "device", FALSE, nextHandle)
    BY <1>2 DEF RmAlloc
  <2>2. "device" \in Types /\ FALSE \in BOOLEAN /\ nextHandle \in Nat
    BY <1>0 DEF Types, TypeOK
  <2> QED
    BY <1>0, <2>1, <2>2, AddKeepsTotal
<1>3. ASSUME NEW t \in Thread, NEW n \in Sizes,
             RmAllocFails(t, n) \/ (\E type \in Types : HeapRequest(t, n, type)) PROVE AccountInv'
  BY <1>3, SameTotal DEF RmAllocFails, HeapRequest, reg
<1>4. ASSUME NEW t \in Thread, HeapAlloc(t) \/ RegisterFails(t) PROVE AccountInv'
  BY <1>4, SameTotal DEF HeapAlloc, RegisterFails, reg
<1>5. ASSUME NEW t \in Thread, Register(t) PROVE AccountInv'
  <2>1. AddAllocation(loc[t].base, loc[t].size, loc[t].type, TRUE, 0)
    BY <1>5 DEF Register
  <2>2. loc[t].size \in Nat /\ loc[t].type \in Types /\ TRUE \in BOOLEAN /\ 0 \in Nat
    BY <1>0 DEF TypeOK, LocType
  <2>3. loc[t].base \in Addr
    <3>1. pc[t] = "add"
      BY <1>5 DEF Register
    <3>2. PICK b \in live : Holds(t, b)
      BY <3>1 DEF Inv, MemInv, SoleOwner
    <3> QED
      BY <1>0, <3>2 DEF Holds, TypeOK, BlockType
  <2> QED
    BY <1>0, <2>1, <2>2, <2>3, AddKeepsTotal
<1>6. ASSUME NEW ptr, MemFree(ptr) \/ HostUnregister(ptr) PROVE AccountInv'
  BY <1>0, <1>6, RemoveKeepsTotal DEF MemFree, HostUnregister
<1>7. ASSUME NEW ptr \in RegPtrs, NEW n \in Sizes, HostRegister(ptr, n) PROVE AccountInv'
  <2>1. AddAllocation(ptr, n, "host", FALSE, 0) /\ ptr \in Addr /\ n \in Nat
    BY <1>0, <1>7, PtrAssumption DEF HostRegister, Addr
  <2>2. "host" \in Types /\ FALSE \in BOOLEAN /\ 0 \in Nat
    BY DEF Types
  <2> QED
    BY <1>0, <2>1, <2>2, AddKeepsTotal
<1> QED
  BY <1>1, <1>2, <1>3, <1>4, <1>5, <1>6, <1>7 DEF Next

(***************************************************************************)
(* However many threads allocate, register, unregister and free, and       *)
(* whichever allocations fail half way, the total that cuMemGetInfo takes  *)
(* off the free memory is the sum of the registered device and managed     *)
(* sizes (add_allocation_locked, remove_allocation_locked).                *)
(***************************************************************************)
THEOREM TotalIsExact == Spec => []AccountingExact
<1>1. Init => AccountInv
  BY FS_EmptySet, SumOfNone DEF Init, AccountInv, Total
<1>2. Inv /\ AccountInv /\ [Next]_vars => AccountInv'
  BY AccountStep
<1>3. Inv /\ AccountInv => AccountingExact
  BY AccountingMeans DEF Inv, TypeOK, AccountInv
<1>4. Spec => []Inv
  BY MemoryInvariant, PTL DEF Inv
<1> QED
  BY <1>1, <1>2, <1>3, <1>4, PTL DEF Spec

-----------------------------------------------------------------------------
(***************************************************************************)
(* Copies: the ownership carried to the calls that use what was resolved.  *)
(***************************************************************************)
(***************************************************************************)
(* What TouchesLive rests on: ownership, the type of the copy in progress, *)
(* that beside copies every registration is RM memory of the library, and  *)
(* that nothing is touched without them.                                   *)
(***************************************************************************)
SideType == [type : {"device", "host"}, at : Nat, pitch : Nat]
CopyType == [active : BOOLEAN, to : SideType, from : SideType, width : Nat, height : Nat, row : Nat]
CopyUse ==
  /\ use = "copy" => \A a \in allocs : a.rm # 0
  /\ use # "copy" => touched = {}
CopyInv == Inv /\ copy \in CopyType /\ CopyUse /\ TouchesLive

\* Every side a program may give has an address and a pitch.
LEMMA SidesType == Sides \subseteq SideType /\ Side("host", 0, 0) \in SideType
<1>1. \A at \in Addr : at \in Nat
  BY SizesAssumption DEF Addr
<1>2. \A p \in Pitches : p \in Nat
  BY ShapeAssumption
<1>3. Side("host", 0, 0) \in SideType
  BY DEF Side, SideType
<1>4. \A at \in Addr, p \in Pitches : Side("device", at, p) \in SideType
  BY <1>1, <1>2 DEF Side, SideType
<1> QED
  BY <1>3, <1>4 DEF Sides

\* The pieces of the sides are addresses and the number of bytes they are resolved for.
LEMMA PiecesType ==
  ASSUME NEW sides, sides \subseteq SideType, NEW row \in Nat, NEW n \in Nat
  PROVE  \A p \in Resolved(sides, row, n) : p[1] \in Nat /\ p[2] \in Nat
<1>1. \A s \in SideType : s.at + row * s.pitch \in Nat
  BY DEF SideType
<1> QED
  BY <1>1 DEF Resolved, Piece, RowAt

\* A range that resolves is live memory of the registration it resolves to.
LEMMA FoundIsLive ==
  ASSUME Inv, \A a \in allocs : a.rm # 0, NEW ptr \in Nat, NEW n \in Nat, Found(ptr, n)
  PROVE  /\ FindAlloc(ptr, n) \in allocs
         /\ \E b \in live : /\ Owns(FindAlloc(ptr, n), b)
                            /\ b.base <= ptr /\ ptr + n <= b.base + b.len
<1> DEFINE a == FindAlloc(ptr, n)
<1>1. a \in Containing(ptr, n)
  BY NewestIsMember DEF Inv, MemInv, Found, FindAlloc, Containing
<1>2. a \in allocs /\ a.dptr <= ptr /\ n <= a.size - (ptr - a.dptr)
  BY <1>1 DEF Containing, RangeContains
<1>3. PICK b \in live : Owns(a, b) /\ a.size <= b.len
  BY <1>2 DEF Inv, MemInv, SoleOwner
<1>4. b.base = a.dptr
  BY <1>3 DEF Owns
<1>5. a.dptr \in Int /\ a.size \in Int /\ b.len \in Int
  BY <1>2 DEF Inv, TypeOK, AllocType, BlockType, Addr
<1> QED
  BY <1>2, <1>3, <1>4, <1>5

\* What a section of g_lock resolved and touches is live: nothing else changes in it.
LEMMA TouchIsLive ==
  ASSUME CopyInv, use = "copy", UNCHANGED vars, NEW pieces,
         \A p \in pieces : p[1] \in Nat /\ p[2] \in Nat,
         Resolves(pieces), Touch(pieces)
  PROVE  TouchesLive'
<1>1. Inv /\ \A a \in allocs : a.rm # 0
  BY DEF CopyInv, CopyUse
<1>2. allocs' = allocs /\ live' = live
  BY DEF vars, reg
<1> SUFFICES ASSUME NEW x \in touched'
             PROVE  /\ x.alloc \in allocs
                    /\ \E b \in live : Owns(x.alloc, b) /\ b.base <= x.ptr /\ x.ptr + x.n <= b.base + b.len
  BY <1>2 DEF TouchesLive, Owns
<1>3. PICK p \in pieces : x = [alloc |-> FindAlloc(p[1], p[2]), ptr |-> p[1], n |-> p[2]]
  BY DEF Touch
<1>4. Found(p[1], p[2])
  BY DEF Resolves
<1>5. /\ FindAlloc(p[1], p[2]) \in allocs
      /\ \E b \in live : /\ Owns(FindAlloc(p[1], p[2]), b)
                         /\ b.base <= p[1] /\ p[1] + p[2] <= b.base + b.len
  BY <1>1, <1>4, FoundIsLive
<1> QED
  BY <1>3, <1>5

-----------------------------------------------------------------------------
\* No byte is touched before the first call.
LEMMA CopiesInitInv == CopiesInit => CopyInv
<1> SUFFICES ASSUME CopiesInit PROVE CopyInv
  OBVIOUS
<1>1. Inv
  BY InitInv DEF CopiesInit
<1>2. copy \in CopyType
  BY SidesType DEF CopiesInit, NoCopy, CopyType
<1> QED
  BY <1>1, <1>2 DEF CopiesInit, CopyInv, CopyUse, TouchesLive, Init

\* Beside copies, memory is allocated from RM and freed.
LEMMA OthersKeepCopyInv ==
  ASSUME CopyInv, AllocOrFree, touched' = {}, UNCHANGED <<use, copy>>
  PROVE  CopyInv'
<1>1. Inv'
  <2>1. Next
    BY DEF AllocOrFree, Next
  <2> QED
    BY <2>1, StepInv DEF CopyInv
<1>2. CopyUse'
  <2>1. ASSUME NEW t \in Thread, NEW n \in Sizes, RmAlloc(t, n) PROVE CopyUse'
    <3>1. nextHandle # 0
      BY DEF CopyInv, Inv, TypeOK
    <3>2. PICK base \in Addr : AddAllocation(base, n, "device", FALSE, nextHandle)
      BY <2>1 DEF RmAlloc
    <3> QED
      BY <3>1, <3>2 DEF AddAllocation, Record, CopyInv, CopyUse
  <2>2. ASSUME NEW ptr \in Addr, MemFree(ptr) PROVE CopyUse'
    BY <2>2 DEF MemFree, RemoveAllocation, CopyInv, CopyUse
  <2> QED
    BY <2>1, <2>2 DEF AllocOrFree
<1>3. TouchesLive'
  BY DEF TouchesLive
<1> QED
  BY <1>1, <1>2, <1>3 DEF CopyInv

(***************************************************************************)
(* A step of a copy: it touches only what it resolved in this step, be it  *)
(* the whole copy or the next row of one.                                  *)
(***************************************************************************)
LEMMA CopyStepKeepsInv ==
  ASSUME CopyInv, use = "copy", CopyStep, UNCHANGED <<use, vars>>
  PROVE  CopyInv'
<1>1. UNCHANGED vars /\ use' = use
  OBVIOUS
<1>2. Inv' /\ CopyUse'
  <2>1. Inv'
    BY <1>1, StepInv DEF CopyInv
  <2> QED
    BY <1>1, <2>1 DEF CopyInv, CopyUse, vars, reg
<1>3. copy \in CopyType /\ copy.to \in SideType /\ copy.from \in SideType
      /\ copy.width \in Nat /\ copy.height \in Nat /\ copy.row \in Nat
  BY DEF CopyInv, CopyType
<1>4. \A n \in Widths \cup Heights \cup Element : n \in Nat
  BY ShapeAssumption, ElementAssumption
<1> SUFFICES copy' \in CopyType /\ TouchesLive'
  BY <1>2 DEF CopyInv
<1>5. CASE CopyRow
  <2>1. copy' \in CopyType
    BY <1>3, <1>5 DEF CopyRow, CopyType
  <2>2. \A p \in RowPieces : p[1] \in Nat /\ p[2] \in Nat
    BY <1>3, PiecesType DEF RowPieces
  <2> QED
    BY <1>1, <1>5, <2>1, <2>2, TouchIsLive DEF CopyRow
<1>6. CASE CopyRowFails \/ CopyReturns
  <2>1. copy' = NoCopy /\ touched' = {}
    BY <1>6 DEF CopyRowFails, CopyReturns
  <2>2. NoCopy \in CopyType
    BY SidesType DEF NoCopy, CopyType
  <2> QED
    BY <2>1, <2>2 DEF TouchesLive
<1>7. ASSUME NEW to \in Sides, NEW n \in Widths, NEW from \in Sides, Copy1D(to, from, n)
      PROVE  copy' \in CopyType /\ TouchesLive'
  <2>1. \A p \in Resolved({to, from}, 0, n) : p[1] \in Nat /\ p[2] \in Nat
    BY <1>4, SidesType, PiecesType
  <2> QED
    BY <1>1, <1>3, <1>7, <2>1, TouchIsLive DEF Copy1D
<1>8. ASSUME NEW to \in Sides, NEW n \in Widths, NEW from \in Sides, CopyUva(to, from, n)
      PROVE  copy' \in CopyType /\ TouchesLive'
  <2> DEFINE known == {p \in Resolved({to, from}, 0, n) : Found(p[1], p[2])}
  <2>1. \A p \in known : p[1] \in Nat /\ p[2] \in Nat
    BY <1>4, SidesType, PiecesType
  <2>2. Resolves(known)
    BY DEF Resolves
  <2> QED
    BY <1>1, <1>3, <1>8, <2>1, <2>2, TouchIsLive DEF CopyUva
<1>9. ASSUME NEW to \in Sides, NEW n \in Widths, NEW from \in Sides, NEW rows \in Heights,
             Copy2D(to, from, n, rows)
      PROVE  copy' \in CopyType /\ TouchesLive'
  <2>1. copy' \in CopyType
    BY <1>4, <1>9, SidesType DEF Copy2D, CopyType
  <2>2. TouchesLive'
    BY <1>1, <1>9 DEF Copy2D, CopyInv, TouchesLive, vars, reg, Owns
  <2> QED
    BY <2>1, <2>2
<1>10. ASSUME NEW to \in Sides, NEW n \in Widths, NEW size \in Element, Fill(to, n, size)
       PROVE  copy' \in CopyType /\ TouchesLive'
  <2> DEFINE piece == {<<to.at, n * size>>}
  <2>1. to.at \in Nat /\ n * size \in Nat
    BY <1>4, SidesType DEF SideType
  <2>2. \A p \in piece : p[1] \in Nat /\ p[2] \in Nat
    BY <2>1
  <2>3. Resolves(piece)
    BY <1>10 DEF Fill, Resolves
  <2> QED
    BY <1>1, <1>3, <1>10, <2>2, <2>3, TouchIsLive DEF Fill
<1> QED
  BY <1>5, <1>6, <1>7, <1>8, <1>9, <1>10 DEF CopyStep

(***************************************************************************)
(* Whatever RM memory other threads allocate and free between two rows, a  *)
(* copy or a fill touches, through device pointers, only live memory of    *)
(* the allocation it resolved.                                             *)
(***************************************************************************)
THEOREM CopiesStayInside == CopiesSpec => []TouchesLive
<1>1. CopyInv /\ [CopiesNext]_<<vars, copyVars>> => CopyInv'
  <2> SUFFICES ASSUME CopyInv, [CopiesNext]_<<vars, copyVars>> PROVE CopyInv'
    OBVIOUS
  <2>1. CASE use = "memory" /\ Next /\ UNCHANGED copyVars
    <3>1. Inv' /\ UNCHANGED <<use, copy, touched>> /\ use # "copy"
      BY <2>1, StepInv DEF CopyInv, copyVars
    <3> QED
      BY <3>1 DEF CopyInv, CopyUse, TouchesLive
  <2>2. CASE use = "copy" /\ AllocOrFree /\ touched' = {} /\ UNCHANGED <<use, copy>>
    BY <2>2, OthersKeepCopyInv
  <2>3. CASE use = "copy" /\ CopyStep /\ UNCHANGED <<use, vars>>
    BY <2>3, CopyStepKeepsInv
  <2>4. CASE UNCHANGED <<vars, copyVars>>
    <3>1. Inv'
      BY <2>4, StepInv DEF CopyInv
    <3> QED
      BY <2>4, <3>1 DEF CopyInv, CopyUse, TouchesLive, Owns, vars, reg, copyVars
  <2> QED
    BY <2>1, <2>2, <2>3, <2>4 DEF CopiesNext
<1>2. CopyInv => TouchesLive
  BY DEF CopyInv
<1> QED
  BY <1>1, <1>2, CopiesInitInv, PTL DEF CopiesSpec
=============================================================================
