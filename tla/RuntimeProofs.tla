--------------------------- MODULE RuntimeProofs ---------------------------
(***************************************************************************)
(* Proofs about Runtime.  An entry of the table is that of one block, and  *)
(* between its allocation and its free only one call at a time is about a  *)
(* block; so what a call has read of the table in one section of the lock  *)
(* still holds in the next.                                                *)
(***************************************************************************)
EXTENDS Runtime, FiniteSetTheorems, SequenceTheorems, TLAPS

(***************************************************************************)
(* The calls, by what they still have to do.                               *)
(***************************************************************************)
Directions == {"DeviceToDevice", "HostToDevice", "DeviceToHost", "HostToHost"}
Ended    == {<<>>, <<"set_last">>}
Adds     == <<"add", "set_last">>
Removes  == <<"remove", "set_last">>
Unhosts  == <<"remove", "free", "set_last">>
Frees    == <<"remove_known", "set_last">>
Heap     == <<"free", "set_last">>
Driver   == <<"cuMemFree", "set_last">>
Sorts    == <<"classify">>
Copying  == {<<d, "set_last">> : d \in Directions}
Programs == Ended \cup {Adds, Removes, Unhosts, Frees, Heap, Driver, Sorts} \cup Copying

OpType == [todo : Programs, on : SUBSET BlockType, dst : {0} \cup Addr, src : {0} \cup Addr,
           err : BOOLEAN]
Types == TypeOK /\ op \in [Thread -> OpType]

(***************************************************************************)
(* The invariant.                                                          *)
(***************************************************************************)
RowType == [ptr : Addr, bytes : Nat, host : BOOLEAN]
Rows == {table[i] : i \in DOMAIN table}
NoEntry(p) == \A a \in Rows : a.ptr # p

Active(t) == op[t].todo \notin Ended
Lone(t)   == op[t].todo \in {Adds, Removes, Unhosts, Frees, Heap, Driver}

\* Blocks are apart.
Apart == \A b, c \in mem : b = c \/ End(b) <= c.at \/ End(c) <= b.at

\* A call is about blocks that are there and no other call is about.
Exclusive ==
  /\ \A t \in Thread : Active(t) => op[t].on \subseteq mem
  /\ \A t, u \in Thread : t # u /\ Active(t) /\ Active(u) => op[t].on \cap op[u].on = {}

\* What the program registered is its own memory.
Registered == \A p \in registered : \E b \in mem : b.kind = "user" /\ p \in Bytes(b)

\* A call on one block has that block's pointer, and the entry its kind says.
About(t, b) ==
  /\ op[t].todo = Adds =>
       IF b.kind = "user" THEN op[t].dst \in Bytes(b) /\ op[t].dst \in registered
                          ELSE op[t].dst = b.at
  /\ op[t].todo = Removes =>
       b.kind = "user" /\ op[t].dst \in Bytes(b) /\ op[t].dst \notin registered
  /\ op[t].todo \in {Unhosts, Frees, Heap, Driver} => b.kind # "user" /\ op[t].dst = b.at
  /\ op[t].todo \in {Unhosts, Heap} => b.kind = "host"
  /\ op[t].todo = Driver => b.kind = "device" \/ op[t].dst \in unrecorded
  /\ op[t].todo \in {Adds, Heap, Driver} => NoEntry(op[t].dst)
Route(b, c) == <<Direction(b.kind = "device", c.kind = "device"), "set_last">>
CallOk(t) ==
  /\ Lone(t) => \E b \in BlockType : op[t].on = {b} /\ About(t, b)
  /\ op[t].todo \in {Sorts} \cup Copying =>
       \E b, c \in op[t].on :
         /\ op[t].dst \in Bytes(b) /\ op[t].src \in Bytes(c)
         /\ op[t].todo \in Copying /\ Recorded(t) => op[t].todo = Route(b, c)
Calls == \A t \in Thread : CallOk(t)

\* Every entry is of a block, and of registered memory until it is being removed.
Leaves(t, p) == op[t].todo \in {Removes, Unhosts, Frees, Heap, Driver} /\ op[t].dst = p
Span(b) == b.at..(End(b) - 1)
Good(a) ==
  \E b \in mem :
    /\ a.ptr \in Span(b) /\ a.ptr + a.bytes = b.at + b.size
    /\ a.host <=> b.kind # "device"
    /\ b.kind = "user"  => a.ptr \in registered \/ \E t \in Thread : Leaves(t, a.ptr)
    /\ b.kind # "user" => a.ptr = b.at
Entered == \A a \in Rows : Good(a)

\* A pointer has one entry at most, and one in which it is entered until it is removed.
OneEntry == \A i, j \in DOMAIN table : table[i].ptr = table[j].ptr => i = j
Enters(t, p) == op[t].todo = Adds /\ op[t].dst = p
Gone(t, p)   == op[t].todo \in {Heap, Driver} /\ op[t].dst = p
Owned == registered \cup {b.at : b \in {x \in mem : x.kind # "user"}}
Kept ==
  \A p \in Owned :
    \/ \E t \in Thread : Enters(t, p) \/ Gone(t, p)
    \/ p \in unrecorded \/ ~NoEntry(p)

TableInv ==
  /\ Types /\ Apart /\ Exclusive /\ Registered /\ Calls
  /\ Entered /\ OneEntry /\ Kept

-----------------------------------------------------------------------------
(***************************************************************************)
(* Calls and blocks.                                                       *)
(***************************************************************************)
\* What a call does next tells which call it is.
LEMMA NextStep ==
  ASSUME Types, NEW t \in Thread
  PROVE  /\ Doing(t, "add")          <=> op[t].todo = Adds
         /\ Doing(t, "remove")       <=> op[t].todo \in {Removes, Unhosts}
         /\ Doing(t, "remove_known") <=> op[t].todo = Frees
         /\ Doing(t, "free")         <=> op[t].todo = Heap
         /\ Doing(t, "cuMemFree")    <=> op[t].todo = Driver
         /\ Doing(t, "classify")     <=> op[t].todo = Sorts
         /\ Doing(t, "set_last")     <=> op[t].todo = <<"set_last">>
         /\ \A d \in Directions : Doing(t, d) <=> op[t].todo = <<d, "set_last">>
<1>1. op[t].todo \in Programs
  BY DEF Types, OpType
<1> QED
  BY <1>1 DEF Doing, Programs, Ended, Adds, Removes, Unhosts, Frees, Heap, Driver, Sorts, Copying, Directions

\* What is left of a call after its next step.
LEMMA Tails ==
  /\ Tail(Adds) = <<"set_last">> /\ Tail(Removes) = <<"set_last">> /\ Tail(Heap) = <<"set_last">>
  /\ Tail(Driver) = <<"set_last">> /\ Tail(Unhosts) = Heap /\ Tail(Frees) = <<"set_last">>
  /\ \A d \in Directions : Tail(<<d, "set_last">>) = <<"set_last">>
<1>1. \A x, y : Tail(<<x, y>>) = <<y>>
  OBVIOUS
<1>2. Tail(<<"remove", "free", "set_last">>) = <<"free", "set_last">>
  OBVIOUS
<1> QED
  BY <1>1, <1>2 DEF Adds, Removes, Unhosts, Frees, Heap, Driver

\* The calls that enter or remove a pointer.
LEMMA AddingIs ==
  ASSUME Types, NEW p
  PROVE  /\ Adding(p) <=> \E t \in Thread : op[t].todo = Adds /\ op[t].dst = p
         /\ Removing(p) <=> \E t \in Thread :
              op[t].todo \in {Removes, Unhosts, Frees, Heap, Driver} /\ op[t].dst = p
<1>1. \A t \in Thread : op[t].todo \in Programs
  BY DEF Types, OpType
<1>2. \A t \in Thread :
        op[t].todo # <<>> /\ Head(op[t].todo) \in {"remove", "remove_known", "free", "cuMemFree"}
          <=> op[t].todo \in {Removes, Unhosts, Frees, Heap, Driver}
  BY <1>1 DEF Programs, Ended, Adds, Removes, Unhosts, Frees, Heap, Driver, Sorts, Copying, Directions
<1> QED
  BY <1>2, NextStep DEF Adding, Removing

\* A direction tells which pointers are taken to be the device's.
LEMMA DirectionIs ==
  /\ \A d, s \in BOOLEAN : Direction(d, s) \in Directions
  /\ \A d, s, e, r \in BOOLEAN : Direction(d, s) = Direction(e, r) => d = e /\ s = r
  BY DEF Direction, Directions

\* The addresses a block takes.
LEMMA SpanIs ==
  ASSUME NEW b \in BlockType
  PROVE  /\ b.at \in Nat /\ b.at # 0 /\ b.size \in Nat /\ b.at \in Addr
         /\ b.at \in Span(b) /\ Bytes(b) \subseteq Span(b) /\ b.at < End(b) /\ End(b) \in Nat
         /\ \A p \in Span(b) : p \in Nat /\ p <= b.at + b.size
         /\ \A p \in Bytes(b) : p \in Nat /\ p < b.at + b.size
         /\ b.at + b.size <= End(b)
<1>1. b.at \in Addr /\ b.at \in Nat /\ b.at # 0 /\ b.size \in Nat
  <2>1. b.at \in Addr /\ b.size \in Sizes
    BY DEF BlockType
  <2>2. b.size \in Nat
    BY <2>1, SizesAssumption
  <2>3. \A a \in Addr : a \in Nat /\ a # 0
    BY SizesAssumption DEF Addr
  <2> QED
    BY <2>1, <2>2, <2>3
<1>2. CASE b.size = 0
  <2>1. End(b) = b.at + 1
    BY <1>2 DEF End
  <2> QED
    BY <1>1, <1>2, <2>1 DEF Span, Bytes
<1>3. CASE b.size # 0
  <2>1. End(b) = b.at + b.size
    BY <1>3 DEF End
  <2> QED
    BY <1>1, <1>3, <2>1 DEF Span, Bytes
<1> QED
  BY <1>2, <1>3

\* An address is of one block.
LEMMA OneBlock ==
  ASSUME Types, Apart, NEW b \in mem, NEW c \in mem, NEW p \in Span(b), p \in Span(c)
  PROVE  b = c
<1>1. b \in BlockType /\ c \in BlockType
  BY DEF Types, TypeOK
<1>2. End(b) \in Nat /\ End(c) \in Nat /\ b.at \in Nat /\ c.at \in Nat
  BY <1>1, SpanIs
<1> QED
  BY <1>2 DEF Apart, Span

-----------------------------------------------------------------------------
(***************************************************************************)
(* The table.                                                              *)
(***************************************************************************)
\* Position finds the entry of a pointer if there is one.
LEMMA PositionIs ==
  ASSUME table \in Seq(RowType), OneEntry, NEW p
  PROVE  \/ Position(p) = 0 /\ NoEntry(p)
         \/ Position(p) \in DOMAIN table /\ table[Position(p)].ptr = p
<1> DEFINE I == {i \in 1..Len(table) : table[i].ptr = p}
<1>1. Position(p) = IF I # {} THEN CHOOSE x \in I : \A y \in I : x =< y ELSE 0
  BY DEF Position, SelectInSeq, Min
<1>2. DOMAIN table = 1..Len(table) /\ Len(table) \in Nat
  OBVIOUS
<1>3. CASE I = {}
  BY <1>1, <1>2, <1>3 DEF NoEntry, Rows
<1>4. CASE I # {}
  <2>1. PICK x \in I : TRUE
    BY <1>4
  <2>2. \A y \in I : x =< y
    BY <1>2, <2>1 DEF OneEntry
  <2>3. (CHOOSE z \in I : \A y \in I : z =< y) \in I
    BY <2>1, <2>2
  <2> QED
    BY <1>1, <1>2, <1>4, <2>3
<1> QED
  BY <1>3, <1>4

\* remove_alloc_locked takes out the entry of a pointer and no other.
LEMMA RemoveEffect ==
  ASSUME table \in Seq(RowType), OneEntry, NEW p, RemoveAlloc(p)
  PROVE  /\ table' \in Seq(RowType) /\ OneEntry'
         /\ Rows' = {a \in Rows : a.ptr # p}
<1> DEFINE k == Position(p)
           n == Len(table)
           s == SubSeq(table, 1, k - 1)
           r == SubSeq(table, k + 1, n)
<1>1. CASE k = 0
  BY <1>1, PositionIs DEF RemoveAlloc, NoEntry, OneEntry, Rows
<1>2. CASE k # 0
  <2>1. k \in 1..n /\ n \in Nat /\ DOMAIN table = 1..n /\ table[k].ptr = p
    BY <1>2, PositionIs
  <2>2. table' = s \o r
    BY <1>2 DEF RemoveAlloc, RemoveAt
  <2>3. /\ s \in Seq(RowType) /\ Len(s) = k - 1
        /\ \A i \in 1..(k - 1) : s[i] = table[i]
    BY <2>1
  <2>4. /\ r \in Seq(RowType) /\ Len(r) = n - k
        /\ \A i \in 1..(n - k) : r[i] = table[k + i]
    BY <2>1, SMTT(30)
  <2> HIDE DEF s, r, k, n
  <2>5. /\ table' \in Seq(RowType) /\ Len(table') = n - 1
        /\ \A i \in 1..(n - 1) : table'[i] = IF i < k THEN table[i] ELSE table[i + 1]
    <3>1. /\ s \o r \in Seq(RowType) /\ Len(s \o r) = (k - 1) + (n - k)
          /\ \A i \in 1..((k - 1) + (n - k)) : (s \o r)[i] = IF i <= k - 1 THEN s[i] ELSE r[i - (k - 1)]
      <4>1. /\ s \o r \in Seq(RowType) /\ Len(s \o r) = Len(s) + Len(r)
            /\ \A i \in 1..(Len(s) + Len(r)) :
                 (s \o r)[i] = IF i <= Len(s) THEN s[i] ELSE r[i - Len(s)]
        BY <2>3, <2>4, ConcatProperties
      <4> QED
        BY <2>3, <2>4, <4>1
    <3>2. (k - 1) + (n - k) = n - 1
      BY <2>1
    <3>3. ASSUME NEW i \in 1..(n - 1) PROVE table'[i] = IF i < k THEN table[i] ELSE table[i + 1]
      <4>1. CASE i < k
        BY <2>1, <2>2, <2>3, <3>1, <3>2, <4>1
      <4>2. CASE ~(i < k)
        <5>1. i - (k - 1) \in 1..(n - k) /\ k + (i - (k - 1)) = i + 1
          BY <2>1, <4>2
        <5> QED
          BY <2>1, <2>2, <2>4, <3>1, <3>2, <4>2, <5>1
      <4> QED
        BY <4>1, <4>2
    <3> QED
      BY <2>2, <3>1, <3>2, <3>3
  <2>6. DOMAIN table' = 1..(n - 1)
    BY <2>5
  <2>0. \A i \in 1..(n - 1) :
          \E m \in 1..n : m # k /\ table'[i] = table[m] /\ i = IF m < k THEN m ELSE m - 1
    <3> SUFFICES ASSUME NEW i \in 1..(n - 1)
                 PROVE  \E m \in 1..n : m # k /\ table'[i] = table[m] /\ i = IF m < k THEN m ELSE m - 1
      OBVIOUS
    <3>1. CASE i < k
      <4>1. i \in 1..n /\ i # k
        BY <2>1, <3>1
      <4> QED
        BY <2>5, <3>1, <4>1
    <3>2. CASE ~(i < k)
      <4>1. i + 1 \in 1..n /\ i + 1 # k /\ ~(i + 1 < k) /\ (i + 1) - 1 = i
        BY <2>1, <3>2
      <4> QED
        BY <2>5, <3>2, <4>1
    <3> QED
      BY <3>1, <3>2
  <2>7. OneEntry'
    <3> SUFFICES ASSUME NEW i \in 1..(n - 1), NEW j \in 1..(n - 1), table'[i].ptr = table'[j].ptr
                 PROVE  i = j
      BY <2>6 DEF OneEntry
    <3>1. PICK m \in 1..n : table'[i] = table[m] /\ i = IF m < k THEN m ELSE m - 1
      BY <2>0
    <3>2. PICK o \in 1..n : table'[j] = table[o] /\ j = IF o < k THEN o ELSE o - 1
      BY <2>0
    <3>3. m = o
      BY <2>1, <3>1, <3>2 DEF OneEntry
    <3> QED
      BY <3>1, <3>2, <3>3
  <2>8. ASSUME NEW a \in Rows' PROVE a \in Rows /\ a.ptr # p
    <3>1. PICK i \in 1..(n - 1) : a = table'[i]
      BY <2>6 DEF Rows
    <3>2. PICK m \in 1..n : m # k /\ a = table[m]
      BY <2>0, <3>1
    <3> QED
      BY <2>1, <3>2 DEF OneEntry, Rows
  <2>9. ASSUME NEW a \in Rows, a.ptr # p PROVE a \in Rows'
    <3>1. PICK i \in 1..n : a = table[i] /\ i # k
      BY <2>1, <2>9 DEF Rows
    <3>2. CASE i < k
      BY <2>1, <2>5, <2>6, <3>1, <3>2 DEF Rows
    <3>3. CASE i > k
      <4>1. i - 1 \in 1..(n - 1) /\ ~(i - 1 < k) /\ (i - 1) + 1 = i
        BY <2>1, <3>3
      <4> QED
        BY <2>5, <2>6, <3>1, <4>1 DEF Rows
    <3> QED
      BY <2>1, <3>1, <3>2, <3>3
  <2> QED
    BY <2>5, <2>7, <2>8, <2>9
<1> QED
  BY <1>1, <1>2

\* add_alloc_locked puts an entry in front of the others.
LEMMA AddEffect ==
  ASSUME table \in Seq(RowType), OneEntry, NEW a \in RowType, NoEntry(a.ptr), table' = <<a>> \o table
  PROVE  /\ table' \in Seq(RowType) /\ OneEntry'
         /\ Rows' = Rows \cup {a}
<1>1. <<a>> \in Seq(RowType) /\ Len(<<a>>) = 1 /\ <<a>>[1] = a /\ Len(table) \in Nat
  OBVIOUS
<1>2. /\ table' \in Seq(RowType) /\ Len(table') = 1 + Len(table)
      /\ \A i \in 1..(1 + Len(table)) : table'[i] = IF i <= 1 THEN <<a>>[i] ELSE table[i - 1]
  BY <1>1, ConcatProperties
<1>3. DOMAIN table' = 1..(1 + Len(table)) /\ DOMAIN table = 1..Len(table)
  BY <1>2
<1>4. table'[1] = a /\ \A i \in 1..Len(table) : table'[i + 1] = table[i]
  BY <1>1, <1>2
<1>5. \A i \in DOMAIN table' : i = 1 \/ \E j \in DOMAIN table : i = j + 1
  <2> SUFFICES ASSUME NEW i \in DOMAIN table', i # 1 PROVE \E j \in DOMAIN table : i = j + 1
    OBVIOUS
  <2>1. i - 1 \in DOMAIN table /\ i = (i - 1) + 1
    BY <1>1, <1>3
  <2> QED
    BY <2>1
<1>6. OneEntry'
  <2>1. \A i \in DOMAIN table : table[i].ptr # a.ptr
    BY DEF NoEntry, Rows
  <2> QED
    BY <1>3, <1>4, <1>5, <2>1 DEF OneEntry
<1>7. Rows' = Rows \cup {a}
  <2>1. \A x \in Rows' : x \in Rows \cup {a}
    BY <1>3, <1>4, <1>5 DEF Rows
  <2>2. a \in Rows' /\ \A x \in Rows : x \in Rows'
    <3>1. 1 \in DOMAIN table' /\ \A i \in DOMAIN table : i + 1 \in DOMAIN table'
      BY <1>1, <1>3
    <3> QED
      BY <1>3, <1>4, <3>1 DEF Rows
  <2> QED
    BY <2>1, <2>2
<1> QED
  BY <1>2, <1>6, <1>7

-----------------------------------------------------------------------------
(***************************************************************************)
(* What all steps have in common.                                          *)
(***************************************************************************)
Others(t) == \A u \in Thread \ {t} : op'[u] = op[u]

\* The programs are programs.
LEMMA ProgramsAre ==
  /\ {Adds, Removes, Unhosts, Frees, Heap, Driver, Sorts, <<>>, <<"set_last">>} \subseteq Programs
  /\ \A d \in Directions : <<d, "set_last">> \in Copying /\ <<d, "set_last">> \in Programs
  BY DEF Programs, Ended, Copying

\* What calls are of a call that has not begun or has only its result to set.
LEMMA EndedIs ==
  ASSUME NEW x \in Ended
  PROVE  /\ x \notin {Adds, Removes, Unhosts, Frees, Heap, Driver, Sorts}
         /\ x \notin Copying
  BY DEF Ended, Adds, Removes, Unhosts, Frees, Heap, Driver, Sorts, Copying

\* A call of one block is not a copy, and the programs of calls differ.
LEMMA Distinct ==
  /\ Adds \notin {Removes, Unhosts, Frees, Heap, Driver, Sorts} /\ Adds \notin Copying \cup Ended
  /\ Removes \notin {Unhosts, Frees, Heap, Driver, Sorts} /\ Removes \notin Copying \cup Ended
  /\ Unhosts \notin {Frees, Heap, Driver, Sorts} /\ Unhosts \notin Copying \cup Ended
  /\ Frees \notin {Heap, Driver, Sorts} /\ Frees \notin Copying \cup Ended
  /\ Heap \notin {Driver, Sorts} /\ Heap \notin Copying \cup Ended
  /\ Driver # Sorts /\ Driver \notin Copying \cup Ended
  /\ Sorts \notin Copying \cup Ended
  /\ \A x \in Copying : x \notin Ended
<1>1. /\ Adds \notin {Removes, Unhosts, Frees, Heap, Driver, Sorts}
      /\ Removes \notin {Unhosts, Frees, Heap, Driver, Sorts}
      /\ Unhosts \notin {Frees, Heap, Driver, Sorts} /\ Frees \notin {Heap, Driver, Sorts}
      /\ Heap \notin {Driver, Sorts} /\ Driver # Sorts
  BY DEF Adds, Removes, Unhosts, Frees, Heap, Driver, Sorts
<1>2. \A x \in {Adds, Removes, Unhosts, Frees, Heap, Driver, Sorts} : x \notin Ended
  BY EndedIs
<1>3. \A x \in Copying : x \notin {Adds, Removes, Unhosts, Frees, Heap, Driver, Sorts}
  BY DEF Copying, Directions, Adds, Removes, Unhosts, Frees, Heap, Driver, Sorts
<1>4. \A x \in Copying : x \notin Ended
  BY EndedIs
<1> QED
  BY <1>1, <1>2, <1>3, <1>4

\* The state is of its type if each part a step changes is.
LEMMA TypesFrom ==
  ASSUME Types, UNCHANGED <<use, tls, pending>>, op' \in [Thread -> OpType],
         mem' \subseteq BlockType, table' \in Seq(RowType), registered' \subseteq Addr,
         unrecorded' \subseteq Addr, last' \in BOOLEAN
  PROVE  Types'
<1>1. \A t \in Thread :
        op'[t].on \subseteq BlockType /\ op'[t].dst \in {0} \cup Addr /\ op'[t].err \in BOOLEAN
  BY DEF OpType
<1> QED
  BY <1>1 DEF Types, TypeOK, RowType

\* A call that begins.
LEMMA BeginIs ==
  ASSUME Types, NEW t \in Thread, NEW x \in Programs, NEW on \in SUBSET BlockType,
         NEW d \in {0} \cup Addr, NEW s \in {0} \cup Addr, Begin(t, x, on, d, s)
  PROVE  /\ op' \in [Thread -> OpType] /\ Others(t)
         /\ op'[t].todo = x /\ op'[t].on = on /\ op'[t].dst = d /\ op'[t].src = s
<1>1. [todo |-> x, on |-> on, dst |-> d, src |-> s, err |-> FALSE] \in OpType
  BY DEF OpType
<1> QED
  BY <1>1 DEF Begin, Types, Others

\* A call that goes on.
LEMMA MovesOn ==
  ASSUME Types, NEW t \in Thread, NEW x \in Programs, NEW e \in BOOLEAN,
         \/ op' = [op EXCEPT ![t].todo = x]
         \/ op' = [op EXCEPT ![t].todo = x, ![t].err = e]
  PROVE  /\ op' \in [Thread -> OpType] /\ Others(t)
         /\ op'[t].todo = x /\ op'[t].on = op[t].on /\ op'[t].dst = op[t].dst
         /\ op'[t].src = op[t].src
<1>1. op \in [Thread -> OpType]
  BY DEF Types
<1> QED
  BY <1>1 DEF OpType, Others

\* A call on one block is about a block that is there, at a pointer into it.
LEMMA LoneIs ==
  ASSUME TableInv, NEW t \in Thread, Lone(t)
  PROVE  \E b \in mem : op[t].on = {b} /\ About(t, b) /\ op[t].dst \in Span(b)
<1>1. PICK b \in BlockType : op[t].on = {b} /\ About(t, b)
  BY DEF TableInv, Calls, CallOk
<1>2. Active(t)
  BY EndedIs DEF Active, Lone
<1>3. b \in mem
  BY <1>1, <1>2 DEF TableInv, Exclusive
<1>4. op[t].dst = b.at \/ op[t].dst \in Bytes(b)
  BY <1>1 DEF Lone, About
<1> QED
  BY <1>1, <1>3, <1>4, SpanIs

\* No other call is about the block of a call.
LEMMA Alone ==
  ASSUME TableInv, NEW b \in mem, NEW p \in Span(b), NEW u \in Thread, Lone(u), op[u].dst = p
  PROVE  b \in op[u].on /\ Active(u) /\ \A t \in Thread \ {u} : Active(t) => b \notin op[t].on
<1>1. PICK c \in mem : op[u].on = {c} /\ op[u].dst \in Span(c)
  BY LoneIs
<1>2. b = c
  BY <1>1, OneBlock DEF TableInv
<1>3. Active(u)
  BY EndedIs DEF Active, Lone
<1> QED
  BY <1>1, <1>2, <1>3 DEF TableInv, Exclusive

\* An entry at an address of a block is of that block.
LEMMA EntryIs ==
  ASSUME TableInv, NEW b \in mem, NEW a \in Rows, a.ptr \in Span(b)
  PROVE  /\ a.ptr + a.bytes = b.at + b.size
         /\ a.host <=> b.kind # "device"
         /\ b.kind = "user"  => a.ptr \in registered \/ \E t \in Thread : Leaves(t, a.ptr)
         /\ b.kind # "user" => a.ptr = b.at
<1>1. PICK c \in mem :
        /\ a.ptr \in Span(c) /\ a.ptr + a.bytes = c.at + c.size
        /\ a.host <=> c.kind # "device"
        /\ c.kind = "user"  => a.ptr \in registered \/ \E t \in Thread : Leaves(t, a.ptr)
        /\ c.kind # "user" => a.ptr = c.at
  BY DEF TableInv, Entered, Good
<1>2. b = c
  BY <1>1, OneBlock DEF TableInv
<1> QED
  BY <1>1, <1>2

(***************************************************************************)
(* A step of one call keeps what the invariant says of the others, if it   *)
(* leaves them their blocks and what they know of the table.               *)
(***************************************************************************)
LEMMA CallsKept ==
  ASSUME TableInv, NEW t \in Thread, Others(t),
         \A u \in Thread \ {t} : Active(u) => op[u].on \subseteq mem',
         Active(t)' => /\ op'[t].on \subseteq mem'
                       /\ \A u \in Thread \ {t} : Active(u) => op[u].on \cap op'[t].on = {},
         CallOk(t)',
         \A u \in Thread \ {t} : Lone(u) =>
           /\ op[u].todo \in {Adds, Heap, Driver} => \A a \in Rows' : a.ptr # op[u].dst
           /\ \A b \in BlockType : op[u].on = {b} /\ b.kind = "user" =>
                (op[u].dst \in registered <=> op[u].dst \in registered'),
         \A u \in Thread \ {t} : Active(u) =>
           \A b \in op[u].on : b.at \in unrecorded <=> b.at \in unrecorded'
  PROVE  Exclusive' /\ Calls'
<1>1. \A u \in Thread \ {t} : op'[u] = op[u]
  BY DEF Others
<1>2. \A u \in Thread \ {t} : Active(u)' <=> Active(u)
  BY <1>1 DEF Active
<1>3. Exclusive'
  BY <1>1, <1>2 DEF TableInv, Exclusive
<1>4. ASSUME NEW u \in Thread \ {t} PROVE CallOk(u)'
  <2>1. CallOk(u)
    BY DEF TableInv, Calls
  <2>2. ASSUME Lone(u)' PROVE \E b \in BlockType : op'[u].on = {b} /\ About(u, b)'
    <3>1. Lone(u)
      BY <1>1, <2>2 DEF Lone
    <3>2. PICK b \in BlockType : op[u].on = {b} /\ About(u, b)
      BY <2>1, <3>1 DEF CallOk
    <3>3. Active(u)
      BY <3>1, EndedIs DEF Active, Lone
    <3>4. b.at \in unrecorded <=> b.at \in unrecorded'
      BY <3>2, <3>3
    <3>5. op[u].todo \in {Adds, Heap, Driver} => NoEntry(op[u].dst)'
      BY <1>1, <3>1 DEF NoEntry
    <3>6. op[u].todo = Driver => op[u].dst = b.at
      BY <3>2 DEF About
    <3>7. b.kind = "user" => (op[u].dst \in registered <=> op[u].dst \in registered')
      BY <3>1, <3>2
    <3>8. About(u, b)'
      BY <1>1, <3>2, <3>4, <3>5, <3>6, <3>7 DEF About
    <3> QED
      BY <1>1, <3>2, <3>8
  <2>3. ASSUME op'[u].todo \in {Sorts} \cup Copying
        PROVE  \E b, c \in op'[u].on :
                 /\ op'[u].dst \in Bytes(b) /\ op'[u].src \in Bytes(c)
                 /\ op'[u].todo \in Copying /\ Recorded(u)' => op'[u].todo = Route(b, c)
    <3>1. Active(u)
      BY <1>1, <2>3, Distinct DEF Active
    <3>2. Recorded(u)' <=> Recorded(u)
      BY <1>1, <3>1 DEF Recorded
    <3> QED
      BY <1>1, <2>1, <2>3, <3>2 DEF CallOk
  <2> QED
    BY <2>2, <2>3 DEF CallOk
<1> QED
  BY <1>3, <1>4 DEF Calls

(***************************************************************************)
(* A step of a call that touches neither the table nor memory, and is not  *)
(* of a call on one block that is in progress.                             *)
(***************************************************************************)
LEMMA CallOnly ==
  ASSUME TableInv, Types', NEW t \in Thread, Others(t), ~Lone(t), CallOk(t)',
         UNCHANGED <<mem, table, registered, unrecorded>>,
         Active(t)' => /\ op'[t].on \subseteq mem
                       /\ \A u \in Thread \ {t} : Active(u) => op[u].on \cap op'[t].on = {}
  PROVE  TableInv'
<1>1. \A u \in Thread \ {t} : op'[u] = op[u]
  BY DEF Others
<1>2. Rows' = Rows
  BY DEF Rows
<1>3. Exclusive' /\ Calls'
  <2>1. \A u \in Thread \ {t} : Lone(u) /\ op[u].todo \in {Adds, Heap, Driver} =>
            \A a \in Rows' : a.ptr # op[u].dst
    BY <1>2, LoneIs DEF About, NoEntry
  <2>2. \A u \in Thread \ {t} : Active(u) => op[u].on \subseteq mem'
    BY DEF TableInv, Exclusive
  <2> QED
    BY <2>1, <2>2, CallsKept
<1>4. \A u \in Thread : \A p : (Leaves(u, p) => Leaves(u, p)') /\ (Enters(u, p) \/ Gone(u, p) => Enters(u, p)' \/ Gone(u, p)')
  <2>1. \A u \in Thread \ {t} : \A p : (Leaves(u, p) => Leaves(u, p)') /\ (Enters(u, p) \/ Gone(u, p) => Enters(u, p)' \/ Gone(u, p)')
    BY <1>1 DEF Leaves, Enters, Gone
  <2>2. \A p : ~Leaves(t, p) /\ ~Enters(t, p) /\ ~Gone(t, p)
    BY DEF Lone, Leaves, Enters, Gone
  <2> QED
    BY <2>1, <2>2
<1>5. Entered'
  <2> SUFFICES ASSUME NEW a \in Rows PROVE Good(a)'
    BY <1>2 DEF Entered
  <2>1. PICK b \in mem :
          /\ a.ptr \in Span(b) /\ a.ptr + a.bytes = b.at + b.size
          /\ a.host <=> b.kind # "device"
          /\ b.kind = "user"  => a.ptr \in registered \/ \E u \in Thread : Leaves(u, a.ptr)
          /\ b.kind # "user" => a.ptr = b.at
    BY DEF TableInv, Entered, Good
  <2>2. b.kind = "user" => a.ptr \in registered' \/ \E u \in Thread : Leaves(u, a.ptr)'
    BY <1>4, <2>1
  <2> QED
    BY <2>1, <2>2 DEF Good
<1>6. Kept'
  <2> SUFFICES ASSUME NEW p \in Owned
               PROVE  \/ \E u \in Thread : Enters(u, p)' \/ Gone(u, p)'
                      \/ p \in unrecorded \/ ~NoEntry(p)
    BY <1>2 DEF Kept, Owned, NoEntry
  <2> QED
    BY <1>4 DEF TableInv, Kept
<1>7. Apart' /\ Registered' /\ OneEntry'
  BY DEF TableInv, Apart, Registered, OneEntry
<1> QED
  BY <1>3, <1>5, <1>6, <1>7 DEF TableInv

\* A block no call is about is one of no other call.
LEMMA NotInUse ==
  ASSUME NEW b, ~InUse(b) PROVE \A u \in Thread : b \notin op[u].on
  BY DEF InUse

\* A thread that can make a call is in none.
LEMMA ReadyIs ==
  ASSUME NEW t, op[t] = Idle
  PROVE  op[t].todo = <<>> /\ op[t].on = {} /\ op[t].dst = 0 /\ ~Active(t) /\ ~Lone(t)
<1>1. op[t].todo \in Ended
  BY DEF Idle, Ended
<1> QED
  BY <1>1, EndedIs DEF Idle, Active, Lone

\* A call that has ended, or has only its result to set, is about nothing.
LEMMA EndedOk ==
  ASSUME NEW t, op'[t].todo \in Ended PROVE CallOk(t)' /\ ~Active(t)'
  BY EndedIs DEF CallOk, Lone, Active

\* cudaFree and cudaFreeHost begin.
LEMMA FreeKeeps ==
  ASSUME TableInv, NEW t \in Thread, NEW b \in mem, Free(t, b) \/ FreeHost(t, b)
  PROVE  TableInv'
<1>1. /\ op[t] = Idle /\ ~InUse(b) /\ b.kind \in {"device", "host"}
      /\ UNCHANGED <<use, mem, table, registered, tls, last, pending, unrecorded>>
      /\ \/ Begin(t, Frees, {b}, b.at, 0)
         \/ b.kind = "host" /\ Begin(t, Unhosts, {b}, b.at, 0)
  BY DEF Free, FreeHost, Call, Ready, Frees, Unhosts
<1>2. Types /\ b \in BlockType /\ b.at \in Addr
  BY SpanIs DEF TableInv, Types, TypeOK
<1>3. /\ op' \in [Thread -> OpType] /\ Others(t) /\ op'[t].on = {b} /\ op'[t].dst = b.at
      /\ (op'[t].todo = Frees \/ (b.kind = "host" /\ op'[t].todo = Unhosts))
  <2>1. /\ {b} \in SUBSET BlockType /\ Frees \in Programs /\ Unhosts \in Programs
        /\ 0 \in {0} \cup Addr /\ b.at \in {0} \cup Addr
    BY <1>2, ProgramsAre
  <2>2. ASSUME NEW x \in Programs, Begin(t, x, {b}, b.at, 0)
        PROVE  /\ op' \in [Thread -> OpType] /\ Others(t)
               /\ op'[t].todo = x /\ op'[t].on = {b} /\ op'[t].dst = b.at
    BY <1>2, <2>1, <2>2, BeginIs
  <2> QED
    BY <1>1, <2>1, <2>2
<1>4. Types'
  BY <1>1, <1>2, <1>3, TypesFrom DEF Types, TypeOK, RowType
<1>5. CallOk(t)'
  <2>1. About(t, b)'
    BY <1>1, <1>3, Distinct DEF About
  <2> QED
    BY <1>2, <1>3, <2>1, Distinct DEF CallOk
<1> QED
  BY <1>1, <1>3, <1>4, <1>5, CallOnly, NotInUse, ReadyIs

\* cudaMemcpyAsync begins.
LEMMA MemcpyKeeps ==
  ASSUME TableInv, NEW t \in Thread, NEW b \in mem, NEW c \in mem, NEW p \in Addr, NEW q \in Addr,
         MemcpyDefault(t, b, c, p, q)
  PROVE  TableInv'
<1>1. /\ op[t] = Idle /\ ~InUse(b) /\ ~InUse(c) /\ p \in Bytes(b) /\ q \in Bytes(c)
      /\ UNCHANGED <<use, mem, table, registered, tls, last, pending, unrecorded>>
      /\ Begin(t, Sorts, {b, c}, p, q)
  BY DEF MemcpyDefault, Call, Ready, Sorts
<1>2. Types /\ {b, c} \in SUBSET BlockType
  BY DEF TableInv, Types, TypeOK
<1>3. /\ op' \in [Thread -> OpType] /\ Others(t) /\ op'[t].on = {b, c} /\ op'[t].dst = p
      /\ op'[t].todo = Sorts /\ op'[t].src = q
  BY <1>1, <1>2, BeginIs, ProgramsAre
<1>4. Types'
  BY <1>1, <1>2, <1>3, TypesFrom DEF Types, TypeOK, RowType
<1>5. CallOk(t)'
  BY <1>1, <1>3, Distinct DEF CallOk, Lone
<1>6. \A u \in Thread : op[u].on \cap {b, c} = {}
  BY <1>1, NotInUse
<1> QED
  BY <1>1, <1>3, <1>4, <1>5, <1>6, CallOnly, ReadyIs

\* A call that has nothing to do with memory begins, goes on or ends.
LEMMA QuietKeeps ==
  ASSUME TableInv, NEW t \in Thread,
         \/ AllocateFails(t) \/ GetLastError(t) \/ Transfer(t) \/ SetLast(t)
  PROVE  TableInv'
<1>1. Types /\ op[t] \in OpType /\ <<"set_last">> \in Programs
  BY ProgramsAre DEF TableInv, Types
<1>2. CASE AllocateFails(t)
  <2>1. [todo |-> <<"set_last">>, on |-> {}, dst |-> 0, src |-> 0, err |-> TRUE] \in OpType
    BY <1>1 DEF OpType
  <2>2. op' \in [Thread -> OpType] /\ Others(t) /\ op'[t].todo \in Ended
    BY <1>1, <1>2, <2>1 DEF AllocateFails, Types, Others, Ended
  <2>3. UNCHANGED <<use, mem, table, registered, tls, last, pending, unrecorded>> /\ op[t] = Idle
    BY <1>2 DEF AllocateFails, Ready
  <2>4. Types'
    BY <1>1, <2>2, <2>3, TypesFrom DEF Types, TypeOK, RowType
  <2> QED
    BY <2>2, <2>3, <2>4, EndedOk, ReadyIs, CallOnly
<1>3. CASE GetLastError(t)
  <2>1. op' = [op EXCEPT ![t].todo = <<"set_last">>] /\ op[t] = Idle
        /\ UNCHANGED <<use, mem, table, registered, tls, last, pending, unrecorded>>
    BY <1>3 DEF GetLastError
  <2>2. op' \in [Thread -> OpType] /\ Others(t) /\ op'[t].todo \in Ended
    BY <1>1, <2>1, MovesOn DEF Ended
  <2>4. Types'
    BY <1>1, <2>1, <2>2, TypesFrom DEF Types, TypeOK, RowType
  <2> QED
    BY <2>1, <2>2, <2>4, EndedOk, ReadyIs, CallOnly
<1>4. CASE Transfer(t)
  <2>1. PICK d \in Directions, e \in BOOLEAN :
          /\ Doing(t, d) /\ op' = [op EXCEPT ![t].todo = Tail(@), ![t].err = e]
          /\ UNCHANGED <<use, mem, table, registered, tls, last, pending, unrecorded>>
    BY <1>4, DirectionIs DEF Transfer
  <2>2. op[t].todo \in Copying /\ Tail(op[t].todo) = <<"set_last">>
    BY <1>1, <2>1, NextStep, Tails, ProgramsAre
  <2>3. op' \in [Thread -> OpType] /\ Others(t) /\ op'[t].todo \in Ended
    <3>1. op' = [op EXCEPT ![t].todo = <<"set_last">>, ![t].err = e]
      BY <1>1, <2>1, <2>2 DEF Types
    <3> QED
      BY <1>1, <3>1, MovesOn DEF Ended
  <2>4. Types'
    BY <1>1, <2>1, <2>3, TypesFrom DEF Types, TypeOK, RowType
  <2>5. ~Lone(t)
    BY <2>2, Distinct DEF Lone
  <2> QED
    BY <2>1, <2>3, <2>4, <2>5, EndedOk, CallOnly
<1>5. CASE SetLast(t)
  <2>1. op' = [op EXCEPT ![t] = Idle] /\ last' = op[t].err /\ op[t].todo \in Ended
        /\ UNCHANGED <<use, mem, table, registered, tls, pending, unrecorded>>
    BY <1>1, <1>5, NextStep DEF SetLast, Ended
  <2>2. Idle \in OpType /\ Idle.todo \in Ended
    BY ProgramsAre DEF Idle, OpType, Ended
  <2>3. op' \in [Thread -> OpType] /\ Others(t) /\ op'[t].todo \in Ended
    BY <1>1, <2>1, <2>2 DEF Types, Others
  <2>4. op[t].err \in BOOLEAN
    BY <1>1 DEF OpType
  <2>5. Types'
    BY <1>1, <2>1, <2>3, <2>4, TypesFrom DEF Types, TypeOK, RowType
  <2>6. ~Lone(t)
    BY <2>1, EndedIs DEF Lone
  <2> QED
    BY <2>1, <2>3, <2>5, <2>6, EndedOk, CallOnly
<1> QED
  BY <1>2, <1>3, <1>4, <1>5

\* The table tells the direction of a copy, unless there was no memory for an entry.
LEMMA DevicePointer ==
  ASSUME TableInv, NEW t \in Thread, op[t].todo = Sorts, Recorded(t),
         NEW b \in op[t].on, NEW p \in Bytes(b)
  PROVE  IsDevicePtr(p) <=> b.kind = "device"
<1>1. Active(t) /\ b \in mem
  BY Distinct DEF TableInv, Exclusive, Active
<1>2. Types /\ b \in BlockType /\ p \in Span(b)
  BY <1>1, SpanIs DEF TableInv, Types, TypeOK
<1>3. IsDevicePtr(p) <=> \E a \in Rows : ~a.host /\ a.ptr <= p /\ p < a.ptr + a.bytes
  BY DEF IsDevicePtr, Rows
<1>4. ASSUME NEW a \in Rows, ~a.host, a.ptr <= p, p < a.ptr + a.bytes
      PROVE  b.kind = "device"
  <2>1. PICK c \in mem :
          /\ a.ptr \in Span(c) /\ a.ptr + a.bytes = c.at + c.size
          /\ a.host <=> c.kind # "device"
          /\ c.kind # "user" => a.ptr = c.at
    BY DEF TableInv, Entered, Good
  <2>2. c \in BlockType /\ c.kind = "device" /\ a.ptr = c.at
    BY <1>2, <1>4, <2>1 DEF Types, TypeOK
  <2>3. p \in Nat /\ c.at \in Nat /\ c.size \in Nat /\ c.at + c.size <= End(c) /\ End(c) \in Nat
    BY <1>2, <2>2, SpanIs
  <2>4. p \in Span(c)
    BY <1>4, <2>1, <2>2, <2>3 DEF Span
  <2> QED
    BY <1>1, <1>2, <2>2, <2>4, OneBlock DEF TableInv
<1>5. ASSUME b.kind = "device"
      PROVE  \E a \in Rows : ~a.host /\ a.ptr <= p /\ p < a.ptr + a.bytes
  <2>1. b.at \in Owned /\ b.at \in Span(b) /\ b.at \notin unrecorded
    BY <1>1, <1>2, <1>5, SpanIs DEF Owned, Recorded
  <2>2. \A u \in Thread : ~Enters(u, b.at) /\ ~Gone(u, b.at)
    <3> SUFFICES ASSUME NEW u \in Thread, Enters(u, b.at) \/ Gone(u, b.at) PROVE FALSE
      OBVIOUS
    <3>1. Lone(u) /\ op[u].dst = b.at
      BY DEF Enters, Gone, Lone
    <3>2. u # t
      BY <3>1, Distinct DEF Lone
    <3> QED
      BY <1>1, <2>1, <3>1, <3>2, Alone
  <2>3. PICK a \in Rows : a.ptr = b.at
    BY <2>1, <2>2 DEF TableInv, Kept, NoEntry
  <2>4. a.ptr + a.bytes = b.at + b.size /\ ~a.host
    BY <1>1, <1>5, <2>1, <2>3, EntryIs
  <2>5. p >= b.at /\ p < b.at + b.size
    BY <1>2, SpanIs DEF Bytes
  <2> QED
    BY <2>3, <2>4, <2>5
<1> QED
  BY <1>3, <1>4, <1>5

\* A copy of kind cudaMemcpyDefault takes its direction.
LEMMA ClassifyKeeps == ASSUME TableInv, NEW t \in Thread, Classify(t) PROVE TableInv'
<1> DEFINE d == Direction(IsDevicePtr(op[t].dst), IsDevicePtr(op[t].src))
<1>1. Types
  BY DEF TableInv
<1>2. /\ op[t].todo = Sorts /\ op' = [op EXCEPT ![t].todo = <<d, "set_last">>]
      /\ UNCHANGED <<use, mem, table, registered, tls, last, pending, unrecorded>>
  BY <1>1, NextStep DEF Classify
<1>3. d \in Directions
  BY DEF Direction, Directions
<1>4. <<d, "set_last">> \in Copying /\ <<d, "set_last">> \in Programs
  BY <1>3, ProgramsAre
<1>5. /\ op' \in [Thread -> OpType] /\ Others(t) /\ op'[t].todo = <<d, "set_last">>
      /\ op'[t].on = op[t].on /\ op'[t].dst = op[t].dst /\ op'[t].src = op[t].src
  BY <1>1, <1>2, <1>4, MovesOn
<1>6. Types'
  BY <1>1, <1>2, <1>5, TypesFrom DEF Types, TypeOK, RowType
<1>7. Active(t) /\ ~Lone(t)
  BY <1>2, Distinct DEF Active, Lone
<1>8. CallOk(t)'
  <2>1. PICK b, c \in op[t].on : op[t].dst \in Bytes(b) /\ op[t].src \in Bytes(c)
    BY <1>2 DEF TableInv, Calls, CallOk
  <2>2. ASSUME Recorded(t) PROVE <<d, "set_last">> = Route(b, c)
    <3>1. /\ IsDevicePtr(op[t].dst) <=> b.kind = "device"
          /\ IsDevicePtr(op[t].src) <=> c.kind = "device"
      BY <1>2, <2>1, <2>2, DevicePointer
    <3> QED
      BY <3>1 DEF Route, Direction
  <2>3. Recorded(t)' <=> Recorded(t)
    BY <1>2, <1>5 DEF Recorded
  <2>4. ~Lone(t)'
    BY <1>4, <1>5, Distinct DEF Lone
  <2> QED
    BY <1>5, <2>1, <2>2, <2>3, <2>4 DEF CallOk
<1>9. op'[t].on \subseteq mem /\ \A u \in Thread \ {t} : Active(u) => op[u].on \cap op'[t].on = {}
  BY <1>5, <1>7 DEF TableInv, Exclusive
<1> QED
  BY <1>2, <1>5, <1>6, <1>7, <1>8, <1>9, CallOnly

\* A call configuration is pushed or popped.
LEMMA ConfigKeeps ==
  ASSUME TableInv, NEW t \in Thread,
         (\E c \in Config : PushCallConfiguration(t, c)) \/ PopCallConfiguration(t) \/ PopFails(t)
  PROVE  TableInv'
<1>1. Types /\ op[t] = Idle /\ UNCHANGED <<use, mem, table, registered, op, last, unrecorded>>
  BY DEF PushCallConfiguration, PopCallConfiguration, PopFails, Ready, TableInv
<1>2. tls' \in [Thread -> [has : BOOLEAN, config : Config]] /\ pending' \in [Thread -> Seq(Config)]
  <2>1. tls \in [Thread -> [has : BOOLEAN, config : Config]] /\ pending \in [Thread -> Seq(Config)]
    BY <1>1 DEF Types, TypeOK
  <2>2. ASSUME NEW c \in Config, PushCallConfiguration(t, c)
        PROVE  tls' \in [Thread -> [has : BOOLEAN, config : Config]] /\ pending' \in [Thread -> Seq(Config)]
    <3>1. <<c>> \o pending[t] \in Seq(Config)
      BY <2>1, ConcatProperties
    <3> QED
      BY <2>1, <2>2, <3>1 DEF PushCallConfiguration
  <2>3. ASSUME pending[t] # <<>> PROVE Tail(pending[t]) \in Seq(Config)
    BY <2>1, <2>3
  <2>4. CASE PopCallConfiguration(t)
    BY <2>1, <2>3, <2>4 DEF PopCallConfiguration
  <2>5. CASE PopFails(t)
    BY <2>1, <2>3, <2>5 DEF PopFails
  <2> QED
    BY <2>2, <2>4, <2>5
<1>3. Types'
  BY <1>1, <1>2 DEF Types, TypeOK
<1>4. Others(t) /\ op'[t].todo \in Ended
  BY <1>1, ReadyIs DEF Others, Ended
<1> QED
  BY <1>1, <1>3, <1>4, EndedOk, ReadyIs, CallOnly

-----------------------------------------------------------------------------
(***************************************************************************)
(* Memory comes and goes.                                                  *)
(***************************************************************************)
\* A new block is apart from the others and has no entries.
LEMMA NewBlock ==
  ASSUME TableInv, NEW b \in BlockType, Fits(b), mem' = mem \cup {b}
  PROVE  /\ b \notin mem /\ Apart' /\ \A p \in Span(b) : NoEntry(p)
         /\ \A u \in Thread : Active(u) => b \notin op[u].on
<1>1. mem \subseteq BlockType
  BY DEF TableInv, Types, TypeOK
<1>2. \A c \in mem : End(b) <= c.at \/ End(c) <= b.at
  BY DEF Fits
<1>3. b \notin mem
  BY <1>2, SpanIs
<1>4. Apart'
  BY <1>2 DEF TableInv, Apart
<1>5. ASSUME NEW p \in Span(b), NEW a \in Rows, a.ptr = p PROVE FALSE
  <2>1. PICK c \in mem : a.ptr \in Span(c)
    BY DEF TableInv, Entered, Good
  <2>2. /\ c.at \in Nat /\ End(c) \in Nat /\ b.at \in Nat /\ End(b) \in Nat
        /\ End(b) <= c.at \/ End(c) <= b.at
    BY <1>1, <1>2, SpanIs
  <2> QED
    BY <1>5, <2>1, <2>2 DEF Span
<1> QED
  BY <1>3, <1>4, <1>5 DEF NoEntry, TableInv, Exclusive

\* More memory leaves what entries and registrations are of.
LEMMA MoreMemory ==
  ASSUME TableInv, mem \subseteq mem', UNCHANGED <<table, registered>>,
         \A u \in Thread : \A p : Leaves(u, p) => Leaves(u, p)'
  PROVE  Entered' /\ Registered' /\ OneEntry'
<1>1. Rows' = Rows
  BY DEF Rows
<1>2. ASSUME NEW a \in Rows PROVE Good(a)'
  <2>1. PICK b \in mem :
          /\ a.ptr \in Span(b) /\ a.ptr + a.bytes = b.at + b.size
          /\ a.host <=> b.kind # "device"
          /\ b.kind = "user"  => a.ptr \in registered \/ \E u \in Thread : Leaves(u, a.ptr)
          /\ b.kind # "user" => a.ptr = b.at
    BY DEF TableInv, Entered, Good
  <2>2. b.kind = "user" => a.ptr \in registered' \/ \E u \in Thread : Leaves(u, a.ptr)'
    BY <2>1
  <2> QED
    BY <2>1, <2>2 DEF Good
<1>3. Registered' /\ OneEntry'
  BY DEF TableInv, Registered, OneEntry
<1> QED
  BY <1>1, <1>2, <1>3 DEF Entered

\* What every call but t's leaves, enters or has removed stays so.
LEMMA StillLeaves ==
  ASSUME NEW t \in Thread, Others(t), ~Lone(t)
  PROVE  \A u \in Thread : \A p :
           /\ Leaves(u, p) => Leaves(u, p)'
           /\ Enters(u, p) \/ Gone(u, p) => Enters(u, p)' \/ Gone(u, p)'
<1>1. \A u \in Thread \ {t} : op'[u] = op[u]
  BY DEF Others
<1>2. \A p : ~Leaves(t, p) /\ ~Enters(t, p) /\ ~Gone(t, p)
  BY DEF Lone, Leaves, Enters, Gone
<1> QED
  BY <1>1, <1>2 DEF Leaves, Enters, Gone

\* cudaMalloc, cudaHostAlloc and their like.
LEMMA AllocateKeeps ==
  ASSUME TableInv, NEW t \in Thread, NEW kind \in {"device", "host"}, NEW n \in Sizes,
         Allocate(t, kind, n)
  PROVE  TableInv'
<1>1. PICK at \in Addr :
        /\ op[t] = Idle /\ Fits(Block(kind, at, n)) /\ mem' = mem \cup {Block(kind, at, n)}
        /\ Begin(t, Adds, {Block(kind, at, n)}, at, 0)
        /\ UNCHANGED <<use, table, registered, tls, last, pending, unrecorded>>
  BY DEF Allocate, Ready, Adds
<1> DEFINE b == Block(kind, at, n)
<1>2. b \in BlockType /\ b.at = at /\ b.kind = kind /\ b.kind # "user"
  BY DEF Block, BlockType
<1> HIDE DEF b
<1>3. Types /\ at \in Span(b)
  BY <1>2, SpanIs DEF TableInv
<1>4. b \notin mem /\ Apart' /\ NoEntry(at) /\ \A u \in Thread : Active(u) => b \notin op[u].on
  BY <1>1, <1>2, <1>3, NewBlock DEF b
<1>5. /\ op' \in [Thread -> OpType] /\ Others(t)
      /\ op'[t].todo = Adds /\ op'[t].on = {b} /\ op'[t].dst = at
  <2>1. {b} \in SUBSET BlockType /\ at \in {0} \cup Addr /\ 0 \in {0} \cup Addr /\ Adds \in Programs
    BY <1>2, ProgramsAre
  <2>2. Begin(t, Adds, {b}, at, 0)
    BY <1>1 DEF b
  <2> QED
    BY <1>3, <2>1, <2>2, BeginIs
<1>6. mem' = mem \cup {b} /\ UNCHANGED <<use, table, registered, tls, last, pending, unrecorded>>
  BY <1>1 DEF b
<1>7. Types'
  BY <1>2, <1>3, <1>5, <1>6, TypesFrom DEF Types, TypeOK, RowType
<1>8. Rows' = Rows /\ ~Lone(t)
  BY <1>1, <1>6, ReadyIs DEF Rows
<1>9. CallOk(t)'
  <2>1. About(t, b)'
    BY <1>2, <1>4, <1>5, <1>8, Distinct DEF About, NoEntry
  <2> QED
    BY <1>2, <1>5, <2>1, Distinct DEF CallOk
<1>10. Exclusive' /\ Calls'
  <2>1. \A u \in Thread \ {t} : Lone(u) /\ op[u].todo \in {Adds, Heap, Driver} =>
            \A a \in Rows' : a.ptr # op[u].dst
    BY <1>8, LoneIs DEF About, NoEntry
  <2>2. \A u \in Thread \ {t} : Active(u) => op[u].on \subseteq mem'
    BY <1>6 DEF TableInv, Exclusive
  <2> QED
    BY <1>4, <1>5, <1>6, <1>9, <2>1, <2>2, CallsKept
<1>11. Entered' /\ Registered' /\ OneEntry'
  BY <1>5, <1>6, <1>8, StillLeaves, MoreMemory
<1>12. Kept'
  <2>1. Owned' \subseteq Owned \cup {at}
    BY <1>2, <1>6 DEF Owned
  <2>2. Enters(t, at)'
    BY <1>5 DEF Enters
  <2>3. \A p \in Owned : \/ \E u \in Thread : Enters(u, p)' \/ Gone(u, p)'
                         \/ p \in unrecorded \/ ~NoEntry(p)
    BY <1>5, <1>8, StillLeaves DEF TableInv, Kept
  <2>4. \A p : NoEntry(p)' => NoEntry(p)
    BY <1>8 DEF NoEntry
  <2> QED
    BY <1>6, <2>1, <2>2, <2>3, <2>4 DEF Kept
<1> QED
  BY <1>4, <1>7, <1>10, <1>11, <1>12 DEF TableInv

\* The program maps memory of its own.
LEMMA MapKeeps == ASSUME TableInv, NEW t \in Thread, NEW n \in Sizes, Map(t, n) PROVE TableInv'
<1>1. PICK at \in Addr :
        /\ op[t] = Idle /\ Fits(Block("user", at, n)) /\ mem' = mem \cup {Block("user", at, n)}
        /\ UNCHANGED <<use, table, registered, op, tls, last, pending, unrecorded>>
  BY DEF Map, Ready
<1> DEFINE b == Block("user", at, n)
<1>2. b \in BlockType /\ b.kind = "user"
  BY DEF Block, BlockType
<1> HIDE DEF b
<1>3. Types /\ mem' = mem \cup {b} /\ Fits(b)
  BY <1>1 DEF TableInv, b
<1>4. Apart' /\ Rows' = Rows /\ ~Lone(t) /\ Others(t) /\ op'[t].todo \in Ended
  BY <1>1, <1>2, <1>3, NewBlock, ReadyIs DEF Rows, Others, Ended
<1>5. Types'
  BY <1>1, <1>2, <1>3, TypesFrom DEF Types, TypeOK, RowType
<1>6. Exclusive' /\ Calls'
  <2>1. \A u \in Thread \ {t} : Lone(u) /\ op[u].todo \in {Adds, Heap, Driver} =>
            \A a \in Rows' : a.ptr # op[u].dst
    BY <1>4, LoneIs DEF About, NoEntry
  <2>2. \A u \in Thread \ {t} : Active(u) => op[u].on \subseteq mem'
    BY <1>3 DEF TableInv, Exclusive
  <2>3. CallOk(t)' /\ ~Active(t)'
    BY <1>4, EndedOk
  <2> QED
    BY <1>1, <1>4, <2>1, <2>2, <2>3, CallsKept
<1>7. Entered' /\ Registered' /\ OneEntry'
  BY <1>1, <1>3, <1>4, StillLeaves, MoreMemory
<1>8. Kept'
  <2>1. Owned' = Owned
    BY <1>1, <1>2, <1>3 DEF Owned
  <2>2. \A p : Enters(t, p)' <=> Enters(t, p)
    BY <1>1 DEF Enters
  <2> QED
    BY <1>1, <1>4, <2>1 DEF TableInv, Kept, Enters, Gone, NoEntry
<1> QED
  BY <1>4, <1>5, <1>6, <1>7, <1>8 DEF TableInv

\* Memory without entries and registrations can go.
LEMMA LessMemory ==
  ASSUME TableInv, NEW b \in mem, mem' = mem \ {b}, UNCHANGED <<table, registered>>,
         \A a \in Rows : a.ptr \notin Span(b),
         \A p \in registered : p \notin Span(b),
         \A u \in Thread : \A p : Leaves(u, p) /\ ~NoEntry(p) => Leaves(u, p)'
  PROVE  Apart' /\ Entered' /\ Registered' /\ OneEntry'
<1>1. Rows' = Rows
  BY DEF Rows
<1>2. ASSUME NEW a \in Rows PROVE Good(a)'
  <2>1. PICK c \in mem :
          /\ a.ptr \in Span(c) /\ a.ptr + a.bytes = c.at + c.size
          /\ a.host <=> c.kind # "device"
          /\ c.kind = "user"  => a.ptr \in registered \/ \E u \in Thread : Leaves(u, a.ptr)
          /\ c.kind # "user" => a.ptr = c.at
    BY DEF TableInv, Entered, Good
  <2>2. c \in mem' /\ ~NoEntry(a.ptr)
    BY <2>1 DEF NoEntry
  <2>3. c.kind = "user" => a.ptr \in registered' \/ \E u \in Thread : Leaves(u, a.ptr)'
    BY <2>1, <2>2
  <2> QED
    BY <2>1, <2>2, <2>3 DEF Good
<1>3. Registered'
  <2> SUFFICES ASSUME NEW p \in registered PROVE \E c \in mem' : c.kind = "user" /\ p \in Bytes(c)
    BY DEF Registered
  <2>1. PICK c \in mem : c.kind = "user" /\ p \in Bytes(c)
    BY DEF TableInv, Registered
  <2>2. c \in BlockType
    BY DEF TableInv, Types, TypeOK
  <2>3. p \in Span(c)
    BY <2>1, <2>2, SpanIs
  <2> QED
    BY <2>1, <2>3
<1>4. Apart' /\ OneEntry'
  BY DEF TableInv, Apart, OneEntry
<1> QED
  BY <1>1, <1>2, <1>3, <1>4 DEF Entered

\* A registered address is of the program's memory, whatever block it lies in.
LEMMA RegisteredIs ==
  ASSUME TableInv, NEW p \in registered, NEW b \in mem, p \in Span(b)
  PROVE  b.kind = "user" /\ p \in Bytes(b)
<1>1. PICK c \in mem : c.kind = "user" /\ p \in Bytes(c)
  BY DEF TableInv, Registered
<1>2. c \in BlockType
  BY DEF TableInv, Types, TypeOK
<1>3. p \in Span(c)
  BY <1>1, <1>2, SpanIs
<1> QED
  BY <1>1, <1>3, OneBlock DEF TableInv

\* The program unmaps memory it has nothing registered of.
LEMMA UnmapKeeps == ASSUME TableInv, NEW t \in Thread, NEW b \in mem, Unmap(t, b) PROVE TableInv'
<1>1. /\ op[t] = Idle /\ b.kind = "user" /\ ~InUse(b) /\ Bytes(b) \cap registered = {}
      /\ mem' = mem \ {b}
      /\ UNCHANGED <<use, table, registered, op, tls, last, pending, unrecorded>>
  BY DEF Unmap, Ready
<1>2. Types /\ b \in BlockType
  BY DEF TableInv, Types, TypeOK
<1>3. Rows' = Rows /\ ~Lone(t) /\ Others(t) /\ op'[t].todo \in Ended
  BY <1>1, ReadyIs DEF Rows, Others, Ended
<1>4. \A p \in registered : p \notin Span(b)
  BY <1>1, RegisteredIs
<1>5. ASSUME NEW a \in Rows PROVE a.ptr \notin Span(b)
  <2> SUFFICES ASSUME a.ptr \in Span(b) PROVE FALSE
    OBVIOUS
  <2>1. PICK u \in Thread : Leaves(u, a.ptr)
    BY <1>1, <1>4, EntryIs
  <2>2. Lone(u) /\ op[u].dst = a.ptr
    BY <2>1 DEF Leaves, Lone
  <2>3. b \in op[u].on
    BY <2>2, Alone
  <2> QED
    BY <1>1, <2>3, NotInUse
<1>6. Apart' /\ Entered' /\ Registered' /\ OneEntry'
  BY <1>1, <1>3, <1>4, <1>5, StillLeaves, LessMemory
<1>7. Types'
  <2>1. mem' \subseteq BlockType
    BY <1>1, <1>2 DEF Types, TypeOK
  <2> QED
    BY <1>1, <1>2, <2>1, TypesFrom DEF Types, TypeOK, RowType
<1>8. Exclusive' /\ Calls'
  <2>1. \A u \in Thread \ {t} : Lone(u) /\ op[u].todo \in {Adds, Heap, Driver} =>
            \A a \in Rows' : a.ptr # op[u].dst
    BY <1>3, LoneIs DEF About, NoEntry
  <2>2. \A u \in Thread \ {t} : Active(u) => op[u].on \subseteq mem'
    BY <1>1, NotInUse DEF TableInv, Exclusive
  <2>3. CallOk(t)' /\ ~Active(t)'
    BY <1>3, EndedOk
  <2> QED
    BY <1>1, <1>3, <2>1, <2>2, <2>3, CallsKept
<1>9. Kept'
  <2>1. Owned' = Owned
    BY <1>1 DEF Owned
  <2> QED
    BY <1>1, <1>3, <2>1 DEF TableInv, Kept, Enters, Gone, NoEntry
<1> QED
  BY <1>6, <1>7, <1>8, <1>9 DEF TableInv

\* free, or cuMemFree of libcuda's memory, of a block whose entry was removed.
LEMMA FreedKeeps ==
  ASSUME TableInv, NEW t \in Thread, op[t].todo \in {Heap, Driver}, mem' = mem \ op[t].on,
         op' \in [Thread -> OpType], Others(t), op'[t].todo \in Ended,
         UNCHANGED <<use, table, registered, tls, last, pending, unrecorded>>
  PROVE  TableInv'
<1>1. Lone(t) /\ Active(t)
  BY Distinct DEF Lone, Active
<1>2. PICK b \in mem : op[t].on = {b} /\ About(t, b) /\ op[t].dst \in Span(b)
  BY <1>1, LoneIs
<1>3. /\ b.kind # "user" /\ op[t].dst = b.at /\ NoEntry(b.at) /\ mem' = mem \ {b}
  BY <1>2, Distinct DEF About
<1>4. Types /\ b \in BlockType /\ Rows' = Rows
  BY DEF TableInv, Types, TypeOK, Rows
<1>5. \A u \in Thread \ {t} : op'[u] = op[u]
  BY DEF Others
<1>6. \A p \in registered : p \notin Span(b)
  BY <1>3, RegisteredIs
<1>7. \A a \in Rows : a.ptr \notin Span(b)
  BY <1>3, EntryIs DEF NoEntry
<1>8. \A u \in Thread : \A p : Leaves(u, p) /\ ~NoEntry(p) => Leaves(u, p)'
  BY <1>3, <1>5 DEF Leaves
<1>9. Apart' /\ Entered' /\ Registered' /\ OneEntry'
  BY <1>3, <1>6, <1>7, <1>8, LessMemory
<1>10. Types'
  <2>1. mem' \subseteq BlockType
    BY <1>3, <1>4 DEF Types, TypeOK
  <2> QED
    BY <1>4, <2>1, TypesFrom DEF Types, TypeOK, RowType
<1>11. Exclusive' /\ Calls'
  <2>1. \A u \in Thread \ {t} : Lone(u) /\ op[u].todo \in {Adds, Heap, Driver} =>
            \A a \in Rows' : a.ptr # op[u].dst
    BY <1>4, LoneIs DEF About, NoEntry
  <2>2. \A u \in Thread \ {t} : Active(u) => op[u].on \subseteq mem'
    BY <1>1, <1>2, <1>3 DEF TableInv, Exclusive
  <2>3. CallOk(t)' /\ ~Active(t)'
    BY EndedOk
  <2> QED
    BY <2>1, <2>2, <2>3, CallsKept
<1>12. Kept'
  <2> SUFFICES ASSUME NEW p \in Owned'
               PROVE  \/ \E u \in Thread : Enters(u, p)' \/ Gone(u, p)'
                      \/ p \in unrecorded \/ ~NoEntry(p)
    BY <1>4 DEF Kept, NoEntry
  <2>1. p \in Owned /\ p # b.at
    <3>1. CASE p \in registered
      BY <1>2, <1>3, <1>6, <3>1 DEF Owned
    <3>2. CASE p \notin registered
      <4>1. PICK c \in mem \ {b} : c.kind # "user" /\ p = c.at
        BY <1>3, <3>2 DEF Owned
      <4>2. c \in BlockType
        BY <1>4 DEF Types, TypeOK
      <4>3. p \in Span(c)
        BY <4>1, <4>2, SpanIs
      <4>4. p # b.at
        BY <1>2, <1>3, <1>4, <4>1, <4>3, OneBlock DEF TableInv
      <4> QED
        BY <4>1, <4>4 DEF Owned
    <3> QED
      BY <3>1, <3>2
  <2>2. ASSUME NEW u \in Thread, Enters(u, p) \/ Gone(u, p) PROVE Enters(u, p)' \/ Gone(u, p)'
    <3>1. u # t
      BY <1>3, <2>1, <2>2, Distinct DEF Enters, Gone
    <3> QED
      BY <1>5, <2>2, <3>1 DEF Enters, Gone
  <2> QED
    BY <2>1, <2>2 DEF TableInv, Kept
<1> QED
  BY <1>9, <1>10, <1>11, <1>12 DEF TableInv

\* cudaFreeHost calls free, cudaFree free or cuMemFree.
LEMMA ReleaseKeeps ==
  ASSUME TableInv, NEW t \in Thread, HeapFree(t) \/ DriverFree(t)
  PROVE  TableInv'
<1>1. Types /\ <<"set_last">> \in Programs
  BY ProgramsAre DEF TableInv
<1>2. CASE HeapFree(t)
  <2>1. op[t].todo = Heap /\ mem' = mem \ op[t].on
        /\ UNCHANGED <<use, table, registered, tls, last, pending, unrecorded>>
    BY <1>1, <1>2, NextStep DEF HeapFree
  <2>2. op' = [op EXCEPT ![t].todo = <<"set_last">>]
    BY <1>1, <1>2, <2>1, Tails DEF HeapFree, After, Types
  <2>3. op' \in [Thread -> OpType] /\ Others(t) /\ op'[t].todo \in Ended
    BY <1>1, <2>2, MovesOn DEF Ended
  <2> QED
    BY <2>1, <2>3, FreedKeeps
<1>3. CASE DriverFree(t)
  <2> DEFINE own == Pointee(t).kind = "device"
  <2>1. /\ op[t].todo = Driver /\ mem' = IF own THEN mem \ op[t].on ELSE mem
        /\ op' = [op EXCEPT ![t].todo = Tail(@), ![t].err = ~own]
        /\ UNCHANGED <<use, table, registered, tls, last, pending, unrecorded>>
    BY <1>1, <1>3, NextStep DEF DriverFree
  <2>2. op' = [op EXCEPT ![t].todo = <<"set_last">>, ![t].err = ~own]
    BY <1>1, <2>1, Tails DEF Types
  <2>3. op' \in [Thread -> OpType] /\ Others(t) /\ op'[t].todo \in Ended
        /\ op'[t].dst = op[t].dst
    BY <1>1, <2>2, MovesOn DEF Ended
  <2>4. CASE own
    BY <2>1, <2>3, <2>4, FreedKeeps
  <2>5. CASE ~own
    <3>1. Lone(t)
      BY <2>1 DEF Lone
    <3>2. PICK b \in mem : op[t].on = {b} /\ About(t, b)
      BY <3>1, LoneIs
    <3>3. Pointee(t) = b
      BY <3>2 DEF Pointee
    <3>4. b.kind # "user" /\ op[t].dst = b.at /\ b.at \in unrecorded
      BY <2>1, <2>5, <3>2, <3>3, Distinct DEF About
    <3>5. UNCHANGED mem /\ Rows' = Rows
      BY <2>1, <2>5 DEF Rows
    <3>6. Types'
      BY <1>1, <2>1, <2>3, <3>5, TypesFrom DEF Types, TypeOK, RowType
    <3>7. \A u \in Thread \ {t} : op'[u] = op[u]
      BY <2>3 DEF Others
    <3>8. Exclusive' /\ Calls'
      <4>1. \A u \in Thread \ {t} : Lone(u) /\ op[u].todo \in {Adds, Heap, Driver} =>
            \A a \in Rows' : a.ptr # op[u].dst
        BY <3>5, LoneIs DEF About, NoEntry
      <4>2. \A u \in Thread \ {t} : Active(u) => op[u].on \subseteq mem'
        BY <3>5 DEF TableInv, Exclusive
      <4>3. CallOk(t)' /\ ~Active(t)'
        BY <2>3, EndedOk
      <4> QED
        BY <2>1, <2>3, <4>1, <4>2, <4>3, CallsKept
    <3>9. \A u \in Thread : \A p : Leaves(u, p) /\ ~NoEntry(p) => Leaves(u, p)'
      <4>1. NoEntry(op[t].dst)
        BY <2>1, <3>2 DEF About
      <4> QED
        BY <3>7, <4>1 DEF Leaves
    <3>10. Entered'
      <4> SUFFICES ASSUME NEW a \in Rows PROVE Good(a)'
        BY <3>5 DEF Entered
      <4>1. PICK c \in mem :
              /\ a.ptr \in Span(c) /\ a.ptr + a.bytes = c.at + c.size
              /\ a.host <=> c.kind # "device"
              /\ c.kind = "user"  => a.ptr \in registered \/ \E u \in Thread : Leaves(u, a.ptr)
              /\ c.kind # "user" => a.ptr = c.at
        BY DEF TableInv, Entered, Good
      <4>2. ~NoEntry(a.ptr)
        BY DEF NoEntry
      <4>3. c.kind = "user" => a.ptr \in registered' \/ \E u \in Thread : Leaves(u, a.ptr)'
        BY <2>1, <3>9, <4>1, <4>2
      <4> QED
        BY <3>5, <4>1, <4>3 DEF Good
    <3>11. Kept'
      <4> SUFFICES ASSUME NEW p \in Owned
                   PROVE  \/ \E u \in Thread : Enters(u, p)' \/ Gone(u, p)'
                          \/ p \in unrecorded \/ ~NoEntry(p)
        BY <2>1, <3>5 DEF Kept, Owned, NoEntry
      <4>1. CASE p = b.at
        BY <3>4, <4>1
      <4>2. CASE p # b.at
        <5>1. \A u \in Thread : Enters(u, p) \/ Gone(u, p) => Enters(u, p)' \/ Gone(u, p)'
          BY <3>4, <3>7, <4>2 DEF Enters, Gone
        <5> QED
          BY <5>1 DEF TableInv, Kept
      <4> QED
        BY <4>1, <4>2
    <3>12. Apart' /\ Registered' /\ OneEntry'
      BY <2>1, <3>5 DEF TableInv, Apart, Registered, OneEntry
    <3> QED
      BY <3>6, <3>8, <3>10, <3>11, <3>12 DEF TableInv
  <2> QED
    BY <2>4, <2>5
<1> QED
  BY <1>2, <1>3

-----------------------------------------------------------------------------
(***************************************************************************)
(* Registrations.                                                          *)
(***************************************************************************)
\* The pointer of another call is no address of a block no call is about.
LEMMA Elsewhere ==
  ASSUME TableInv, NEW b \in mem, ~InUse(b), NEW u \in Thread, Lone(u)
  PROVE  op[u].dst \notin Span(b)
<1>1. op[u].dst \in Span(b) => b \in op[u].on
  BY Alone
<1> QED
  BY <1>1, NotInUse

\* cudaHostRegister begins.
LEMMA RegisterKeeps ==
  ASSUME TableInv, NEW t \in Thread, NEW b \in mem, NEW ptr \in Addr, HostRegister(t, b, ptr)
  PROVE  TableInv'
<1>1. /\ op[t] = Idle /\ b.kind = "user" /\ ~InUse(b) /\ ptr \in Bytes(b) /\ ptr \notin registered
      /\ registered' = registered \cup {ptr}
      /\ Begin(t, Adds, {b}, ptr, 0)
      /\ UNCHANGED <<use, mem, table, tls, last, pending, unrecorded>>
  BY DEF HostRegister, Ready, Adds
<1>2. Types /\ b \in BlockType /\ ptr \in Span(b) /\ Rows' = Rows /\ ~Lone(t)
  <2>1. Types /\ b \in BlockType
    BY DEF TableInv, Types, TypeOK
  <2> QED
    BY <1>1, <2>1, SpanIs, ReadyIs DEF Rows
<1>3. /\ op' \in [Thread -> OpType] /\ Others(t)
      /\ op'[t].todo = Adds /\ op'[t].on = {b} /\ op'[t].dst = ptr
  <2>1. {b} \in SUBSET BlockType /\ ptr \in {0} \cup Addr /\ 0 \in {0} \cup Addr /\ Adds \in Programs
    BY <1>2, ProgramsAre
  <2> QED
    BY <1>1, <1>2, <2>1, BeginIs
<1>4. Types'
  <2>1. registered' \subseteq Addr
    BY <1>1, <1>2 DEF Types, TypeOK
  <2> QED
    BY <1>1, <1>2, <1>3, <2>1, TypesFrom DEF Types, TypeOK, RowType
<1>5. \A u \in Thread : Lone(u) => op[u].dst # ptr
  BY <1>1, <1>2, Elsewhere
<1>6. NoEntry(ptr)
  <2> SUFFICES ASSUME NEW a \in Rows, a.ptr = ptr PROVE FALSE
    BY DEF NoEntry
  <2>1. PICK u \in Thread : Leaves(u, ptr)
    BY <1>1, <1>2, EntryIs
  <2> QED
    BY <1>5, <2>1 DEF Leaves, Lone
<1>7. CallOk(t)'
  <2>1. About(t, b)'
    BY <1>1, <1>2, <1>3, <1>6, Distinct DEF About, NoEntry
  <2> QED
    BY <1>2, <1>3, <2>1, Distinct DEF CallOk
<1>8. Exclusive' /\ Calls'
  <2>1. \A u \in Thread \ {t} : Lone(u) /\ op[u].todo \in {Adds, Heap, Driver} =>
            \A a \in Rows' : a.ptr # op[u].dst
    BY <1>2, LoneIs DEF About, NoEntry
  <2>2. \A u \in Thread \ {t} : Active(u) => op[u].on \subseteq mem'
    BY <1>1 DEF TableInv, Exclusive
  <2>3. \A u \in Thread : b \notin op[u].on
    BY <1>1, NotInUse
  <2>4. \A u \in Thread : Lone(u) => (op[u].dst \in registered <=> op[u].dst \in registered')
    BY <1>1, <1>5
  <2> QED
    BY <1>1, <1>3, <1>7, <2>1, <2>2, <2>3, <2>4, CallsKept
<1>9. Entered'
  <2> SUFFICES ASSUME NEW a \in Rows PROVE Good(a)'
    BY <1>2 DEF Entered
  <2>1. PICK c \in mem :
          /\ a.ptr \in Span(c) /\ a.ptr + a.bytes = c.at + c.size
          /\ a.host <=> c.kind # "device"
          /\ c.kind = "user"  => a.ptr \in registered \/ \E u \in Thread : Leaves(u, a.ptr)
          /\ c.kind # "user" => a.ptr = c.at
    BY DEF TableInv, Entered, Good
  <2>2. c.kind = "user" => a.ptr \in registered' \/ \E u \in Thread : Leaves(u, a.ptr)'
    BY <1>1, <1>2, <1>3, <2>1, StillLeaves
  <2> QED
    BY <1>1, <2>1, <2>2 DEF Good
<1>10. Kept'
  <2>1. Owned' = Owned \cup {ptr}
    BY <1>1 DEF Owned
  <2>2. Enters(t, ptr)'
    BY <1>3 DEF Enters
  <2>3. \A p \in Owned : \/ \E u \in Thread : Enters(u, p)' \/ Gone(u, p)'
                         \/ p \in unrecorded \/ ~NoEntry(p)
    BY <1>2, <1>3, StillLeaves DEF TableInv, Kept
  <2> QED
    BY <1>1, <1>2, <2>1, <2>2, <2>3 DEF Kept, NoEntry
<1>11. Apart' /\ Registered' /\ OneEntry'
  BY <1>1 DEF TableInv, Apart, Registered, OneEntry
<1> QED
  BY <1>4, <1>8, <1>9, <1>10, <1>11 DEF TableInv

\* cudaHostUnregister begins.
LEMMA UnregisterKeeps ==
  ASSUME TableInv, NEW t \in Thread, NEW b \in mem, NEW ptr \in Addr, HostUnregister(t, b, ptr)
  PROVE  TableInv'
<1>1. /\ op[t] = Idle /\ b.kind = "user" /\ ~InUse(b) /\ ptr \in Bytes(b) /\ ptr \in registered
      /\ registered' = registered \ {ptr}
      /\ Begin(t, Removes, {b}, ptr, 0)
      /\ UNCHANGED <<use, mem, table, tls, last, pending, unrecorded>>
  BY DEF HostUnregister, Ready, Removes
<1>2. Types /\ b \in BlockType /\ ptr \in Span(b) /\ Rows' = Rows /\ ~Lone(t)
  <2>1. Types /\ b \in BlockType
    BY DEF TableInv, Types, TypeOK
  <2> QED
    BY <1>1, <2>1, SpanIs, ReadyIs DEF Rows
<1>3. /\ op' \in [Thread -> OpType] /\ Others(t)
      /\ op'[t].todo = Removes /\ op'[t].on = {b} /\ op'[t].dst = ptr
  <2>1. {b} \in SUBSET BlockType /\ ptr \in {0} \cup Addr /\ 0 \in {0} \cup Addr /\ Removes \in Programs
    BY <1>2, ProgramsAre
  <2> QED
    BY <1>1, <1>2, <2>1, BeginIs
<1>4. Types'
  <2>1. registered' \subseteq Addr
    BY <1>1, <1>2 DEF Types, TypeOK
  <2> QED
    BY <1>1, <1>2, <1>3, <2>1, TypesFrom DEF Types, TypeOK, RowType
<1>5. \A u \in Thread : Lone(u) => op[u].dst # ptr
  BY <1>1, <1>2, Elsewhere
<1>6. CallOk(t)'
  <2>1. About(t, b)'
    BY <1>1, <1>3, Distinct DEF About
  <2> QED
    BY <1>2, <1>3, <2>1, Distinct DEF CallOk
<1>7. Exclusive' /\ Calls'
  <2>1. \A u \in Thread \ {t} : Lone(u) /\ op[u].todo \in {Adds, Heap, Driver} =>
            \A a \in Rows' : a.ptr # op[u].dst
    BY <1>2, LoneIs DEF About, NoEntry
  <2>2. \A u \in Thread \ {t} : Active(u) => op[u].on \subseteq mem'
    BY <1>1 DEF TableInv, Exclusive
  <2>3. \A u \in Thread : b \notin op[u].on
    BY <1>1, NotInUse
  <2>4. \A u \in Thread : Lone(u) => (op[u].dst \in registered <=> op[u].dst \in registered')
    BY <1>1, <1>5
  <2> QED
    BY <1>1, <1>3, <1>6, <2>1, <2>2, <2>3, <2>4, CallsKept
<1>8. Entered'
  <2> SUFFICES ASSUME NEW a \in Rows PROVE Good(a)'
    BY <1>2 DEF Entered
  <2>1. PICK c \in mem :
          /\ a.ptr \in Span(c) /\ a.ptr + a.bytes = c.at + c.size
          /\ a.host <=> c.kind # "device"
          /\ c.kind = "user"  => a.ptr \in registered \/ \E u \in Thread : Leaves(u, a.ptr)
          /\ c.kind # "user" => a.ptr = c.at
    BY DEF TableInv, Entered, Good
  <2>2. Leaves(t, ptr)'
    BY <1>3 DEF Leaves
  <2>3. c.kind = "user" => a.ptr \in registered' \/ \E u \in Thread : Leaves(u, a.ptr)'
    BY <1>1, <1>2, <1>3, <2>1, <2>2, StillLeaves
  <2> QED
    BY <1>1, <2>1, <2>3 DEF Good
<1>9. Kept'
  <2>1. Owned' \subseteq Owned
    BY <1>1 DEF Owned
  <2>2. \A p \in Owned : \/ \E u \in Thread : Enters(u, p)' \/ Gone(u, p)'
                         \/ p \in unrecorded \/ ~NoEntry(p)
    BY <1>2, <1>3, StillLeaves DEF TableInv, Kept
  <2> QED
    BY <1>1, <1>2, <2>1, <2>2 DEF Kept, NoEntry
<1>10. Apart' /\ Registered' /\ OneEntry'
  BY <1>1 DEF TableInv, Apart, Registered, OneEntry
<1> QED
  BY <1>4, <1>7, <1>8, <1>9, <1>10 DEF TableInv

-----------------------------------------------------------------------------
(***************************************************************************)
(* The table changes.                                                      *)
(***************************************************************************)
\* Calls are about blocks of their own, so their pointers differ.
LEMMA Different ==
  ASSUME TableInv, NEW t \in Thread, Lone(t), NEW u \in Thread \ {t}, Lone(u)
  PROVE  op[u].dst # op[t].dst
<1>1. PICK b \in mem : op[t].on = {b} /\ op[t].dst \in Span(b)
  BY LoneIs
<1>2. Active(t)
  BY EndedIs DEF Active, Lone
<1> QED
  BY <1>1, <1>2, Alone

\* add_alloc_locked enters a pointer, or has no memory to.
LEMMA AddKeeps == ASSUME TableInv, NEW t \in Thread, AddAlloc(t) PROVE TableInv'
<1>1. Types /\ op[t].todo = Adds /\ Lone(t) /\ Active(t)
  <2>1. Types
    BY DEF TableInv
  <2>2. op[t].todo = Adds
    BY <2>1, NextStep DEF AddAlloc
  <2> QED
    BY <2>1, <2>2, Distinct DEF Lone, Active
<1>2. PICK b \in mem : op[t].on = {b} /\ About(t, b) /\ op[t].dst \in Span(b)
  BY <1>1, LoneIs
<1> DEFINE ptr == op[t].dst
           a == Entry(ptr, b.at + b.size - ptr, b.kind # "device")
<1>3. Pointee(t) = b /\ b \in BlockType
  BY <1>1, <1>2 DEF Pointee, Types, TypeOK
<1>4. /\ \/ table' = <<a>> \o table /\ unrecorded' = unrecorded \ {ptr}
         \/ table' = table /\ unrecorded' = unrecorded \cup {ptr}
      /\ op' = [op EXCEPT ![t].todo = <<"set_last">>]
      /\ UNCHANGED <<use, mem, registered, tls, last, pending>>
  BY <1>1, <1>3, Tails DEF AddAlloc, After, Types
<1>5. /\ NoEntry(ptr) /\ ptr \in Addr /\ ptr \in Nat
      /\ IF b.kind = "user" THEN ptr \in registered ELSE ptr = b.at
  <2>1. NoEntry(ptr) /\ IF b.kind = "user" THEN ptr \in registered ELSE ptr = b.at
    BY <1>1, <1>2 DEF About
  <2>2. ptr \in Nat /\ ptr # 0
    BY <1>2, <1>3, SpanIs DEF Span
  <2>3. ptr \in {0} \cup Addr
    BY <1>1 DEF Types, OpType
  <2> QED
    BY <2>1, <2>2, <2>3
<1>6. a \in RowType /\ a.ptr = ptr /\ a.ptr + a.bytes = b.at + b.size
      /\ (a.host <=> b.kind # "device")
  <2>1. ptr <= b.at + b.size /\ b.at \in Nat /\ b.size \in Nat
    BY <1>2, <1>3, SpanIs
  <2>2. b.at + b.size - ptr \in Nat /\ ptr + (b.at + b.size - ptr) = b.at + b.size
    BY <1>5, <2>1
  <2> QED
    BY <1>5, <2>2 DEF Entry, RowType
<1>7. /\ op' \in [Thread -> OpType] /\ Others(t) /\ op'[t].todo \in Ended
  BY <1>1, <1>4, MovesOn, ProgramsAre DEF Ended
<1>8. \A u \in Thread \ {t} : op'[u] = op[u]
  BY <1>7 DEF Others
<1> HIDE DEF a
<1>9. /\ table' \in Seq(RowType) /\ OneEntry'
      /\ \/ Rows' = Rows \cup {a} /\ unrecorded' = unrecorded \ {ptr}
         \/ Rows' = Rows /\ unrecorded' = unrecorded \cup {ptr}
  <2>1. table \in Seq(RowType) /\ OneEntry
    BY <1>1 DEF TableInv, Types, TypeOK, RowType
  <2>2. CASE table' = <<a>> \o table /\ unrecorded' = unrecorded \ {ptr}
    BY <1>5, <1>6, <2>1, <2>2, AddEffect
  <2>3. CASE table' = table /\ unrecorded' = unrecorded \cup {ptr}
    BY <2>1, <2>3 DEF Rows, OneEntry
  <2> QED
    BY <1>4, <2>2, <2>3
<1>10. Types'
  <2>1. unrecorded' \subseteq Addr
    BY <1>1, <1>5, <1>9 DEF Types, TypeOK
  <2> QED
    BY <1>1, <1>4, <1>7, <1>9, <2>1, TypesFrom DEF Types, TypeOK
<1>11. Exclusive' /\ Calls'
  <2>1. \A u \in Thread \ {t} : Lone(u) /\ op[u].todo \in {Adds, Heap, Driver} =>
            \A x \in Rows' : x.ptr # op[u].dst
    <3>1. \A u \in Thread \ {t} : Lone(u) => op[u].dst # ptr
      BY <1>1, Different
    <3>2. \A u \in Thread : Lone(u) /\ op[u].todo \in {Adds, Heap, Driver} => \A x \in Rows : x.ptr # op[u].dst
      BY LoneIs DEF About, NoEntry
    <3> QED
      BY <1>6, <1>9, <3>1, <3>2
  <2>2. \A u \in Thread \ {t} : Active(u) => op[u].on \subseteq mem'
    BY <1>4 DEF TableInv, Exclusive
  <2>3. CallOk(t)' /\ ~Active(t)'
    BY <1>7, EndedOk
  <2>4. \A u \in Thread \ {t} : Active(u) => \A c \in op[u].on : c.at # ptr
    <3> SUFFICES ASSUME NEW u \in Thread \ {t}, Active(u), NEW c \in op[u].on, c.at = ptr PROVE FALSE
      OBVIOUS
    <3>1. c \in mem /\ c # b
      BY <1>1, <1>2 DEF TableInv, Exclusive
    <3>2. c \in BlockType
      BY <1>1, <3>1 DEF Types, TypeOK
    <3>3. ptr \in Span(c)
      BY <3>2, SpanIs
    <3> QED
      BY <1>1, <1>2, <3>1, <3>3, OneBlock DEF TableInv
  <2>5. \A u \in Thread \ {t} : Active(u) =>
          \A c \in op[u].on : c.at \in unrecorded <=> c.at \in unrecorded'
    BY <1>9, <2>4
  <2> QED
    BY <1>4, <1>7, <2>1, <2>2, <2>3, <2>5, CallsKept
<1>12. Entered'
  <2>1. ASSUME NEW x \in Rows PROVE Good(x)'
    <3>1. PICK c \in mem :
            /\ x.ptr \in Span(c) /\ x.ptr + x.bytes = c.at + c.size
            /\ x.host <=> c.kind # "device"
            /\ c.kind = "user"  => x.ptr \in registered \/ \E u \in Thread : Leaves(u, x.ptr)
            /\ c.kind # "user" => x.ptr = c.at
      BY DEF TableInv, Entered, Good
    <3>2. \A u \in Thread : Leaves(u, x.ptr) => Leaves(u, x.ptr)'
      <4>1. ~Leaves(t, x.ptr)
        BY <1>1, Distinct DEF Leaves
      <4> QED
        BY <1>8, <4>1 DEF Leaves
    <3>3. c.kind = "user" => x.ptr \in registered' \/ \E u \in Thread : Leaves(u, x.ptr)'
      BY <1>4, <3>1, <3>2
    <3> QED
      BY <1>4, <3>1, <3>3 DEF Good
  <2>2. ASSUME NEW x, x = a PROVE Good(x)'
    BY <1>2, <1>4, <1>5, <1>6, <2>2 DEF Good
  <2> QED
    BY <1>9, <2>1, <2>2 DEF Entered
<1>13. Kept'
  <2> SUFFICES ASSUME NEW p \in Owned
               PROVE  \/ \E u \in Thread : Enters(u, p)' \/ Gone(u, p)'
                      \/ p \in unrecorded' \/ \E x \in Rows' : x.ptr = p
    BY <1>4 DEF Kept, Owned, NoEntry
  <2>1. CASE p = ptr
    BY <1>6, <1>9, <2>1
  <2>2. CASE p # ptr
    <3>1. \A u \in Thread : Enters(u, p) \/ Gone(u, p) => Enters(u, p)' \/ Gone(u, p)'
      BY <1>8, <2>2 DEF Enters, Gone
    <3>2. \/ \E u \in Thread : Enters(u, p) \/ Gone(u, p)
          \/ p \in unrecorded \/ \E x \in Rows : x.ptr = p
      BY DEF TableInv, Kept, NoEntry
    <3> QED
      BY <1>9, <2>2, <3>1, <3>2
  <2> QED
    BY <2>1, <2>2
<1>14. Apart' /\ Registered'
  BY <1>4 DEF TableInv, Apart, Registered
<1> QED
  BY <1>9, <1>10, <1>11, <1>12, <1>13, <1>14 DEF TableInv

\* A removal takes the entry of the call's pointer and leaves all others as they are.
LEMMA RemovalKeeps ==
  ASSUME TableInv, NEW t \in Thread, op[t].todo \in {Removes, Unhosts, Frees}, RemoveAlloc(op[t].dst),
         op' \in [Thread -> OpType], Others(t), op'[t].on = op[t].on, op'[t].dst = op[t].dst,
         op'[t].todo \in Ended \cup {Heap, Driver},
         op[t].todo = Removes <=> op'[t].todo \in Ended,
         op'[t].todo = Heap => \A b \in op[t].on : b.kind = "host",
         op'[t].todo = Driver => \A b \in op[t].on : b.kind = "device" \/ op[t].dst \in unrecorded,
         UNCHANGED <<use, mem, registered, tls, last, pending, unrecorded>>
  PROVE  TableInv'
<1>1. Types /\ Lone(t) /\ Active(t)
  BY Distinct DEF TableInv, Lone, Active
<1>2. PICK b \in mem : op[t].on = {b} /\ About(t, b) /\ op[t].dst \in Span(b)
  BY <1>1, LoneIs
<1>3. b \in BlockType
  BY <1>1 DEF Types, TypeOK
<1>4. \A u \in Thread \ {t} : op'[u] = op[u]
  BY DEF Others
<1>5. table' \in Seq(RowType) /\ OneEntry' /\ Rows' = {a \in Rows : a.ptr # op[t].dst}
  <2>1. table \in Seq(RowType) /\ OneEntry
    BY <1>1 DEF TableInv, Types, TypeOK, RowType
  <2> QED
    BY <2>1, RemoveEffect
<1>6. Types'
  BY <1>1, <1>5, TypesFrom DEF Types, TypeOK
<1>7. CallOk(t)'
  <2>1. CASE op'[t].todo \in Ended
    BY <2>1, EndedOk
  <2>2. CASE op'[t].todo \in {Heap, Driver}
    <3>1. op[t].todo \in {Unhosts, Frees}
      BY <2>2, Distinct
    <3>2. b.kind # "user" /\ op[t].dst = b.at
      BY <1>2, <3>1 DEF About
    <3>3. NoEntry(op[t].dst)'
      BY <1>5 DEF NoEntry
    <3>4. About(t, b)'
      BY <1>2, <2>2, <3>2, <3>3, Distinct DEF About
    <3> QED
      BY <1>2, <1>3, <2>2, <3>4, Distinct DEF CallOk
  <2> QED
    BY <2>1, <2>2
<1>8. Exclusive' /\ Calls'
  <2>1. \A u \in Thread \ {t} : Lone(u) /\ op[u].todo \in {Adds, Heap, Driver} =>
            \A x \in Rows' : x.ptr # op[u].dst
    BY <1>5, LoneIs DEF About, NoEntry
  <2>2. \A u \in Thread : Active(u) => op[u].on \subseteq mem'
    BY DEF TableInv, Exclusive
  <2>3. \A u \in Thread \ {t} : Active(u) => op[u].on \cap op[t].on = {}
    BY <1>1 DEF TableInv, Exclusive
  <2> QED
    BY <1>1, <1>7, <2>1, <2>2, <2>3, CallsKept
<1>9. Entered'
  <2> SUFFICES ASSUME NEW x \in Rows, x.ptr # op[t].dst PROVE Good(x)'
    BY <1>5 DEF Entered
  <2>1. PICK c \in mem :
          /\ x.ptr \in Span(c) /\ x.ptr + x.bytes = c.at + c.size
          /\ x.host <=> c.kind # "device"
          /\ c.kind = "user"  => x.ptr \in registered \/ \E u \in Thread : Leaves(u, x.ptr)
          /\ c.kind # "user" => x.ptr = c.at
    BY DEF TableInv, Entered, Good
  <2>2. \A u \in Thread : Leaves(u, x.ptr) => Leaves(u, x.ptr)'
    BY <1>4 DEF Leaves
  <2>3. c.kind = "user" => x.ptr \in registered' \/ \E u \in Thread : Leaves(u, x.ptr)'
    BY <2>1, <2>2
  <2> QED
    BY <2>1, <2>3 DEF Good
<1>10. Kept'
  <2> SUFFICES ASSUME NEW p \in Owned
               PROVE  \/ \E u \in Thread : Enters(u, p)' \/ Gone(u, p)'
                      \/ p \in unrecorded \/ \E x \in Rows' : x.ptr = p
    BY DEF Kept, Owned, NoEntry
  <2>1. CASE p = op[t].dst
    <3>1. op[t].todo # Removes
      <4> SUFFICES ASSUME op[t].todo = Removes PROVE FALSE
        OBVIOUS
      <4>1. b.kind = "user" /\ p \notin registered
        BY <1>2, <2>1 DEF About
      <4>2. PICK c \in mem : c.kind # "user" /\ p = c.at
        BY <4>1 DEF Owned
      <4>3. c \in BlockType
        BY <1>1 DEF Types, TypeOK
      <4>4. p \in Span(c)
        BY <4>2, <4>3, SpanIs
      <4> QED
        BY <1>1, <1>2, <2>1, <4>1, <4>2, <4>4, OneBlock DEF TableInv
    <3>2. Gone(t, p)'
      BY <2>1, <3>1 DEF Gone
    <3> QED
      BY <3>2
  <2>2. CASE p # op[t].dst
    <3>1. \A u \in Thread : Enters(u, p) \/ Gone(u, p) => Enters(u, p)' \/ Gone(u, p)'
      BY <1>4, <2>2 DEF Enters, Gone
    <3>2. \/ \E u \in Thread : Enters(u, p) \/ Gone(u, p)
          \/ p \in unrecorded \/ \E x \in Rows : x.ptr = p
      BY DEF TableInv, Kept, NoEntry
    <3> QED
      BY <1>5, <2>2, <3>1, <3>2
  <2> QED
    BY <2>1, <2>2
<1>11. Apart' /\ Registered'
  BY DEF TableInv, Apart, Registered
<1> QED
  BY <1>5, <1>6, <1>8, <1>9, <1>10, <1>11 DEF TableInv

\* cudaFreeHost and cudaHostUnregister remove the entry they know.
LEMMA RemoveKeeps == ASSUME TableInv, NEW t \in Thread, RemoveEntry(t) PROVE TableInv'
<1>1. /\ Types /\ op[t].todo \in {Removes, Unhosts} /\ RemoveAlloc(op[t].dst) /\ op' = After(t)
      /\ UNCHANGED <<use, mem, registered, tls, last, pending, unrecorded>>
  BY NextStep DEF TableInv, RemoveEntry
<1>2. Lone(t)
  BY <1>1 DEF Lone
<1>3. PICK b \in mem : op[t].on = {b} /\ About(t, b)
  BY <1>2, LoneIs
<1>4. CASE op[t].todo = Removes
  <2>1. op' = [op EXCEPT ![t].todo = <<"set_last">>]
    BY <1>1, <1>4, Tails DEF After, Types
  <2>2. /\ op' \in [Thread -> OpType] /\ Others(t) /\ op'[t].todo \in Ended
        /\ op'[t].on = op[t].on /\ op'[t].dst = op[t].dst
    BY <1>1, <2>1, MovesOn, ProgramsAre DEF Ended
  <2>3. op'[t].todo \notin {Heap, Driver}
    BY <2>2, EndedIs
  <2> QED
    BY <1>1, <1>4, <2>2, <2>3, RemovalKeeps
<1>5. CASE op[t].todo = Unhosts
  <2>1. op' = [op EXCEPT ![t].todo = Heap]
    BY <1>1, <1>5, Tails DEF After, Types
  <2>2. /\ op' \in [Thread -> OpType] /\ Others(t) /\ op'[t].todo = Heap
        /\ op'[t].on = op[t].on /\ op'[t].dst = op[t].dst
    BY <1>1, <2>1, MovesOn, ProgramsAre
  <2>3. b.kind = "host" /\ Heap \notin Ended /\ Heap # Driver /\ Unhosts # Removes
    BY <1>3, <1>5, Distinct DEF About
  <2> QED
    BY <1>1, <1>3, <1>5, <2>2, <2>3, RemovalKeeps
<1> QED
  BY <1>1, <1>4, <1>5

\* cudaFree removes the entry and learns from it whose memory it is.
LEMMA KnownKeeps == ASSUME TableInv, NEW t \in Thread, RemoveKnown(t) PROVE TableInv'
<1> DEFINE i == Position(op[t].dst)
           known == i # 0 /\ table[i].host
<1>1. /\ Types /\ op[t].todo = Frees /\ RemoveAlloc(op[t].dst)
      /\ op' = [op EXCEPT ![t].todo = IF known THEN Heap ELSE Driver]
      /\ UNCHANGED <<use, mem, registered, tls, last, pending, unrecorded>>
  BY NextStep DEF TableInv, RemoveKnown, Heap, Driver
<1>2. Lone(t) /\ Active(t)
  BY <1>1, Distinct DEF Lone, Active
<1>3. PICK b \in mem : op[t].on = {b} /\ About(t, b) /\ op[t].dst \in Span(b)
  BY <1>2, LoneIs
<1>4. b.kind # "user" /\ op[t].dst = b.at /\ b \in BlockType
  BY <1>1, <1>3 DEF About, Types, TypeOK
<1>5. table \in Seq(RowType) /\ OneEntry
  BY <1>1 DEF TableInv, Types, TypeOK, RowType
<1>6. ASSUME known PROVE b.kind = "host"
  <2>1. table[i] \in Rows /\ table[i].ptr = op[t].dst /\ table[i].host
    BY <1>5, <1>6, PositionIs DEF Rows
  <2>2. b.kind # "device"
    BY <1>3, <2>1, EntryIs
  <2> QED
    BY <1>4, <2>2 DEF BlockType
<1>7. ASSUME ~known PROVE b.kind = "device" \/ op[t].dst \in unrecorded
  <2>1. CASE i # 0
    <3>1. table[i] \in Rows /\ table[i].ptr = op[t].dst /\ ~table[i].host
      BY <1>5, <1>7, <2>1, PositionIs DEF Rows
    <3> QED
      BY <1>3, <3>1, EntryIs
  <2>2. CASE i = 0
    <3>1. NoEntry(op[t].dst)
      <4>1. 0 \notin DOMAIN table
        BY <1>5
      <4> QED
        BY <1>5, <2>2, <4>1, PositionIs
    <3>2. op[t].dst \in Owned
      BY <1>3, <1>4 DEF Owned
    <3>3. \A u \in Thread : ~Enters(u, op[t].dst) /\ ~Gone(u, op[t].dst)
      <4> SUFFICES ASSUME NEW u \in Thread, Enters(u, op[t].dst) \/ Gone(u, op[t].dst) PROVE FALSE
        OBVIOUS
      <4>1. Lone(u) /\ op[u].dst = op[t].dst
        BY DEF Enters, Gone, Lone
      <4>2. u # t
        BY <1>1, Distinct DEF Enters, Gone
      <4> QED
        BY <1>2, <4>1, <4>2, Different
    <3> QED
      BY <3>1, <3>2, <3>3 DEF TableInv, Kept
  <2> QED
    BY <2>1, <2>2
<1>8. \E x \in {Heap, Driver} :
        /\ op' = [op EXCEPT ![t].todo = x]
        /\ x = Heap => b.kind = "host"
        /\ x = Driver => b.kind = "device" \/ op[t].dst \in unrecorded
  BY <1>1, <1>6, <1>7, Distinct
<1>9. PICK x \in {Heap, Driver} :
        /\ op' = [op EXCEPT ![t].todo = x]
        /\ x = Heap => b.kind = "host"
        /\ x = Driver => b.kind = "device" \/ op[t].dst \in unrecorded
  BY <1>8
<1>10. /\ op' \in [Thread -> OpType] /\ Others(t) /\ op'[t].todo = x
       /\ op'[t].on = op[t].on /\ op'[t].dst = op[t].dst
  <2>1. x \in Programs
    BY ProgramsAre
  <2> QED
    BY <1>1, <1>9, <2>1, MovesOn
<1>11. x \notin Ended /\ Frees # Removes
  BY Distinct
<1> QED
  BY <1>1, <1>3, <1>9, <1>10, <1>11, RemovalKeeps

-----------------------------------------------------------------------------
(***************************************************************************)
(* The invariant holds, and what follows from it.                          *)
(***************************************************************************)
\* At first there is no memory, no entry and no call.
LEMMA InitTable == Init => TableInv
<1> SUFFICES ASSUME Init PROVE TableInv
  OBVIOUS
<1>1. /\ use \in Uses /\ mem = {} /\ table = <<>> /\ registered = {} /\ last = FALSE
      /\ op = [t \in Thread |-> Idle] /\ unrecorded = {}
      /\ pending = [t \in Thread |-> <<>>]
      /\ tls \in [Thread -> [has : {FALSE}, config : {CHOOSE c \in Config : TRUE}]]
  BY DEF Init
<1>2. tls \in [Thread -> [has : BOOLEAN, config : Config]]
  <2>1. (CHOOSE c \in Config : TRUE) \in Config
    BY ConfigAssumption
  <2> QED
    BY <1>1, <2>1
<1>3. Idle \in OpType /\ Idle.todo \in Ended
  BY ProgramsAre DEF Idle, OpType, Ended
<1>4. op \in [Thread -> OpType] /\ \A t \in Thread : op[t].todo \in Ended
  BY <1>1, <1>3
<1>5. Types
  <2>1. table \in Seq(RowType) /\ pending \in [Thread -> Seq(Config)]
    BY <1>1
  <2>2. \A t \in Thread :
          op[t].on \subseteq BlockType /\ op[t].dst \in {0} \cup Addr /\ op[t].err \in BOOLEAN
    BY <1>4 DEF OpType
  <2> QED
    BY <1>1, <1>2, <1>4, <2>1, <2>2 DEF Types, TypeOK, RowType
<1>6. Rows = {} /\ OneEntry
  BY <1>1 DEF Rows, OneEntry
<1>7. \A t \in Thread : CallOk(t) /\ ~Active(t)
  BY <1>4, EndedIs DEF CallOk, Lone, Active
<1> QED
  BY <1>1, <1>5, <1>6, <1>7
  DEF TableInv, Apart, Exclusive, Registered, Calls, Entered, Kept, Owned

\* Every step keeps the invariant.
LEMMA NextTable == ASSUME TableInv, [Next]_vars PROVE TableInv'
<1>1. CASE UNCHANGED vars
  <2>1. UNCHANGED <<use, mem, table, registered, op, tls, last, pending, unrecorded>>
    BY <1>1 DEF vars
  <2>2. Types' /\ Apart' /\ Registered' /\ OneEntry'
    BY <2>1 DEF TableInv, Types, TypeOK, Apart, Registered, OneEntry
  <2>3. Rows' = Rows
    BY <2>1 DEF Rows
  <2>4. Exclusive' /\ Entered' /\ Kept'
    BY <2>1, <2>3 DEF TableInv, Exclusive, Active, Entered, Good, Leaves, Kept, Owned, Enters, Gone, NoEntry
  <2>5. \A t \in Thread : CallOk(t)'
    <3> SUFFICES ASSUME NEW t \in Thread PROVE CallOk(t)'
      OBVIOUS
    <3>1. CallOk(t)
      BY DEF TableInv, Calls
    <3>2. \A b : About(t, b) <=> About(t, b)'
      BY <2>1, <2>3 DEF About, NoEntry
    <3> QED
      BY <2>1, <3>1, <3>2 DEF CallOk, Lone, Recorded
  <2> QED
    BY <2>2, <2>4, <2>5 DEF TableInv, Calls
<1>2. ASSUME NEW t \in Thread, Start(t) PROVE TableInv'
  <2>1. ASSUME NEW n \in Sizes, Malloc(t, n) \/ HostAlloc(t, n) PROVE TableInv'
    BY <2>1, AllocateKeeps DEF Malloc, HostAlloc
  <2>2. ASSUME NEW n \in Sizes, Map(t, n) PROVE TableInv'
    BY <2>2, MapKeeps
  <2>3. CASE AllocateFails(t) \/ GetLastError(t)
    BY <2>3, QuietKeeps
  <2>4. ASSUME NEW b \in mem, Free(t, b) \/ FreeHost(t, b) PROVE TableInv'
    BY <2>4, FreeKeeps
  <2>5. ASSUME NEW b \in mem, Unmap(t, b) PROVE TableInv'
    BY <2>5, UnmapKeeps
  <2>6. ASSUME NEW b \in mem, NEW p \in Addr, HostRegister(t, b, p) PROVE TableInv'
    BY <2>6, RegisterKeeps
  <2>7. ASSUME NEW b \in mem, NEW p \in Addr, HostUnregister(t, b, p) PROVE TableInv'
    BY <2>7, UnregisterKeeps
  <2>8. ASSUME NEW b \in mem, NEW c \in mem, NEW p \in Addr, NEW q \in Addr,
               MemcpyDefault(t, b, c, p, q)
        PROVE  TableInv'
    BY <2>8, MemcpyKeeps
  <2>9. CASE (\E c \in Config : PushCallConfiguration(t, c)) \/ PopCallConfiguration(t) \/ PopFails(t)
    BY <2>9, ConfigKeeps
  <2> QED
    BY <1>2, <2>1, <2>2, <2>3, <2>4, <2>5, <2>6, <2>7, <2>8, <2>9 DEF Start
<1>3. ASSUME NEW t \in Thread, Step(t) PROVE TableInv'
  <2>1. CASE AddAlloc(t)
    BY <2>1, AddKeeps
  <2>2. CASE RemoveEntry(t) \/ RemoveKnown(t)
    BY <2>2, RemoveKeeps, KnownKeeps
  <2>3. CASE HeapFree(t) \/ DriverFree(t)
    BY <2>3, ReleaseKeeps
  <2>4. CASE Classify(t)
    BY <2>4, ClassifyKeeps
  <2>5. CASE Transfer(t) \/ SetLast(t)
    BY <2>5, QuietKeeps
  <2> QED
    BY <1>3, <2>1, <2>2, <2>3, <2>4, <2>5 DEF Step
<1> QED
  BY <1>1, <1>2, <1>3 DEF Next

(***************************************************************************)
(* In every state the table of libcudart, changed by any number of threads *)
(* between their calls of two allocators, describes the memory there is,   *)
(* one entry to a pointer, although addresses are used again.              *)
(***************************************************************************)
THEOREM TableDescribesMemory == Spec => []TableExact
<1>1. ASSUME TableInv PROVE TableExact
  <2>1. Types /\ table \in Seq(RowType)
    BY <1>1 DEF TableInv, Types, TypeOK, RowType
  <2>2. NoStaleEntry
    <3> SUFFICES ASSUME NEW i \in DOMAIN table
                 PROVE  \E b \in mem :
                          /\ table[i].ptr \in b.at..(End(b) - 1)
                          /\ table[i].ptr + table[i].bytes = b.at + b.size
                          /\ table[i].host = (b.kind # "device")
                          /\ IF b.kind = "user" THEN table[i].ptr \in registered \/ Removing(table[i].ptr)
                                                ELSE table[i].ptr = b.at
      BY DEF NoStaleEntry
    <3>1. table[i] \in Rows /\ table[i].host \in BOOLEAN
      <4>1. table[i] \in RowType
        BY <2>1
      <4> QED
        BY <4>1 DEF Rows, RowType
    <3>2. PICK b \in mem :
            /\ table[i].ptr \in Span(b) /\ table[i].ptr + table[i].bytes = b.at + b.size
            /\ table[i].host <=> b.kind # "device"
            /\ b.kind = "user"  => table[i].ptr \in registered \/ \E t \in Thread : Leaves(t, table[i].ptr)
            /\ b.kind # "user" => table[i].ptr = b.at
      BY <1>1, <3>1 DEF TableInv, Entered, Good
    <3>3. (\E t \in Thread : Leaves(t, table[i].ptr)) => Removing(table[i].ptr)
      BY <2>1, AddingIs DEF Leaves
    <3>4. table[i].host = (b.kind # "device")
      BY <3>1, <3>2
    <3> QED
      BY <3>2, <3>3, <3>4 DEF Span
  <2>3. EntryKept
    <3> SUFFICES ASSUME NEW p \in Owned, ~Adding(p), ~Removing(p), p \notin unrecorded
                 PROVE  Cardinality({i \in DOMAIN table : table[i].ptr = p}) = 1
      BY DEF EntryKept, Owned
    <3>1. \A t \in Thread : ~Enters(t, p) /\ ~Gone(t, p)
      BY <2>1, AddingIs DEF Enters, Gone
    <3>2. ~NoEntry(p)
      BY <1>1, <3>1 DEF TableInv, Kept
    <3>3. PICK i \in DOMAIN table : table[i].ptr = p
      BY <3>2 DEF NoEntry, Rows
    <3>4. {j \in DOMAIN table : table[j].ptr = p} = {i}
      BY <1>1, <3>3 DEF TableInv, OneEntry
    <3> QED
      BY <3>4, FS_Singleton
  <2> QED
    BY <2>1, <2>2, <2>3 DEF TableExact, Types
<1> QED
  BY <1>1, InitTable, NextTable, PTL DEF Spec

(***************************************************************************)
(* cudaFree and cudaFreeHost give memory back to the allocator it is from, *)
(* whatever other threads allocate and free between the look at the table  *)
(* and the call of the allocator.                                          *)
(***************************************************************************)
THEOREM FreedByItsAllocator == Spec => []RightAllocator
<1>1. ASSUME TableInv PROVE RightAllocator
  <2> SUFFICES ASSUME NEW t \in Thread
               PROVE  /\ Doing(t, "free") => Pointee(t).kind = "host"
                      /\ Doing(t, "cuMemFree") => Pointee(t).kind = "device" \/ op[t].dst \in unrecorded
    BY DEF RightAllocator
  <2>1. ASSUME op[t].todo \in {Heap, Driver}
        PROVE  /\ op[t].todo = Heap => Pointee(t).kind = "host"
               /\ op[t].todo = Driver => Pointee(t).kind = "device" \/ op[t].dst \in unrecorded
    <3>1. Lone(t)
      BY <2>1 DEF Lone
    <3>2. PICK b \in mem : op[t].on = {b} /\ About(t, b)
      BY <1>1, <3>1, LoneIs
    <3>3. Pointee(t) = b
      BY <3>2 DEF Pointee
    <3> QED
      BY <3>2, <3>3 DEF About
  <2>2. Types
    BY <1>1 DEF TableInv
  <2> QED
    BY <2>1, <2>2, NextStep
<1> QED
  BY <1>1, InitTable, NextTable, PTL DEF Spec

(***************************************************************************)
(* A default copy goes in the direction its pointers have when it is made, *)
(* not when they were looked up.                                           *)
(***************************************************************************)
THEOREM CopiesGoRight == Spec => []CopyDirection
<1>1. ASSUME TableInv PROVE CopyDirection
  <2> SUFFICES ASSUME NEW t \in Thread, NEW dst \in BOOLEAN, NEW src \in BOOLEAN,
                      Doing(t, Direction(dst, src)), Recorded(t)
               PROVE  dst = InDriver(op[t].dst) /\ src = InDriver(op[t].src)
    BY DEF CopyDirection
  <2>1. Types /\ Direction(dst, src) \in Directions
    BY <1>1, DirectionIs DEF TableInv
  <2>2. op[t].todo = <<Direction(dst, src), "set_last">> /\ op[t].todo \in Copying
    BY <2>1, NextStep, ProgramsAre
  <2>3. PICK b, c \in op[t].on :
          op[t].dst \in Bytes(b) /\ op[t].src \in Bytes(c) /\ op[t].todo = Route(b, c)
    BY <1>1, <2>2 DEF TableInv, Calls, CallOk
  <2>4. Direction(dst, src) = Direction(b.kind = "device", c.kind = "device")
    BY <2>2, <2>3 DEF Route
  <2>5. dst = (b.kind = "device") /\ src = (c.kind = "device")
    <3>1. (b.kind = "device") \in BOOLEAN /\ (c.kind = "device") \in BOOLEAN
      OBVIOUS
    <3> QED
      BY <2>4, <3>1, DirectionIs
  <2>6. b \in mem /\ c \in mem
    <3>1. Active(t)
      BY <2>2, Distinct DEF Active
    <3> QED
      BY <1>1, <2>3, <3>1 DEF TableInv, Exclusive
  <2>7. ASSUME NEW x \in mem, NEW p \in Bytes(x) PROVE InDriver(p) <=> x.kind = "device"
    <3>1. \A y \in mem : p \in Bytes(y) => p \in Span(y)
      BY <2>1, SpanIs DEF Types, TypeOK
    <3>2. \A y \in mem : p \in Bytes(y) => y = x
      BY <1>1, <2>7, <3>1, OneBlock DEF TableInv
    <3> QED
      BY <2>7, <3>2 DEF InDriver
  <2>8. /\ InDriver(op[t].dst) <=> b.kind = "device"
        /\ InDriver(op[t].src) <=> c.kind = "device"
    BY <2>3, <2>6, <2>7
  <2>9. InDriver(op[t].dst) \in BOOLEAN /\ InDriver(op[t].src) \in BOOLEAN
    BY DEF InDriver
  <2> QED
    BY <2>5, <2>8, <2>9
<1> QED
  BY <1>1, InitTable, NextTable, PTL DEF Spec

(***************************************************************************)
(* A thread that has a configuration has that of its innermost launch.     *)
(***************************************************************************)
ConfigInv ==
  \A t \in Thread : tls[t].has => pending[t] # <<>> /\ tls[t].config = Head(pending[t])

(***************************************************************************)
(* A launch that gets a configuration gets its own, however deep launches  *)
(* nest in the arguments of others and whatever other threads launch.      *)
(***************************************************************************)
THEOREM LaunchGetsItsConfiguration == Spec => LaunchedAsConfigured
<1>1. Init => ConfigInv
  <2> SUFFICES ASSUME Init, NEW t \in Thread PROVE ~tls[t].has
    BY DEF ConfigInv
  <2> QED
    BY DEF Init
<1>2. ASSUME TableInv, ConfigInv, [Next]_vars PROVE ConfigInv'
  <2>1. /\ tls \in [Thread -> [has : BOOLEAN, config : Config]]
        /\ pending \in [Thread -> Seq(Config)]
    BY <1>2 DEF TableInv, Types, TypeOK
  <2>2. CASE UNCHANGED <<tls, pending>>
    BY <1>2, <2>2 DEF ConfigInv
  <2>3. ASSUME NEW t \in Thread, NEW c \in Config, PushCallConfiguration(t, c) PROVE ConfigInv'
    <3>1. <<c>> \o pending[t] # <<>> /\ Head(<<c>> \o pending[t]) = c
      <4>1. <<c>> \in Seq(Config) /\ Len(<<c>>) = 1 /\ <<c>>[1] = c /\ pending[t] \in Seq(Config)
        BY <2>1
      <4>2. /\ <<c>> \o pending[t] \in Seq(Config) /\ Len(<<c>> \o pending[t]) = 1 + Len(pending[t])
            /\ (<<c>> \o pending[t])[1] = c
        BY <4>1, ConcatProperties
      <4> QED
        BY <4>1, <4>2
    <3> QED
      BY <1>2, <2>1, <2>3, <3>1 DEF ConfigInv, PushCallConfiguration
  <2>4. ASSUME NEW t \in Thread, PopCallConfiguration(t) PROVE ConfigInv'
    BY <1>2, <2>1, <2>4 DEF ConfigInv, PopCallConfiguration
  <2>5. ASSUME NEW t \in Thread, PopFails(t) PROVE ConfigInv'
    BY <1>2, <2>1, <2>5 DEF ConfigInv, PopFails
  <2>6. ASSUME NEW t \in Thread, Step(t) PROVE UNCHANGED <<tls, pending>>
    BY <2>6 DEF Step, AddAlloc, RemoveEntry, RemoveKnown, HeapFree, DriverFree, Classify, Transfer, SetLast
  <2>7. ASSUME NEW t \in Thread, Start(t)
        PROVE  \/ UNCHANGED <<tls, pending>> \/ PopCallConfiguration(t) \/ PopFails(t)
               \/ \E c \in Config : PushCallConfiguration(t, c)
    BY <2>7 DEF Start, Malloc, HostAlloc, Allocate, Map, AllocateFails, GetLastError, Free, FreeHost,
      Call, Unmap, HostRegister, HostUnregister, MemcpyDefault
  <2>8. CASE UNCHANGED vars
    BY <2>2, <2>8 DEF vars
  <2> QED
    BY <1>2, <2>2, <2>3, <2>4, <2>5, <2>6, <2>7, <2>8 DEF Next
<1>3. ConfigInv => [\A t \in Thread :
        Len(pending'[t]) < Len(pending[t]) /\ tls[t].has => tls[t].config = Head(pending[t])]_vars
  BY DEF ConfigInv
<1> QED
  BY <1>1, <1>2, <1>3, InitTable, NextTable, PTL DEF Spec, LaunchedAsConfigured
=============================================================================
