------------------------- MODULE ModuleTableProofs -------------------------
(***************************************************************************)
(* Proofs about ModuleTable.  A thread that adds to a list holds an entry  *)
(* nobody else has; if no other thread adds to that list, the head it read *)
(* is still the head when it writes, so that nothing is dropped and nobody *)
(* makes the symbol again.  A module is unloaded only when no call is on   *)
(* it, so whatever a call has found in its lists is not freed under it.    *)
(***************************************************************************)
EXTENDS ModuleTable, SequenceTheorems, WellFoundedInduction, TLAPS

Requests == [do   : List \cup {"discovered", "populate", "register"},
             name : Name \cup Variable \cup Host \cup {None},
             fn   : Nat \cup {None}]
OpType == [m    : Module \cup {None},
           todo : Seq(Requests),
           pc   : {"search", "link", "write"},
           new  : EntryType \cup {None},
           seen : Seq(EntryType),
           last : EntryType \cup {None}]
Types == TypeOK /\ op \in [Thread -> OpType]

(***************************************************************************)
(* The invariant: what is true of a call.                                  *)
(***************************************************************************)
Named(s, n) == \E i \in DOMAIN s : s[i].name = n
IsFunction(f, i, m, n) == f.in = "function" /\ f.id = i /\ f.m = m /\ f.name = n
Resolved(i, m, n) == \E f \in live : IsFunction(f, i, m, n)
Sound(e) == e \in live /\ (e.in = "kernel" => Resolved(e.fn, e.m, e.name))

\* A call is on a loaded module, or on one that could not be loaded to register it.
Shape(t) ==
  /\ op[t].todo = <<>> => op[t] = Idle
  /\ op[t].todo # <<>> => op[t].m \in Module /\ state[op[t].m] \in {"loaded", "null"}
  /\ op[t].pc = "search" => op[t].new = None
  /\ op[t].last # None => op[t].last \in live /\ op[t].last.m = op[t].m

\* A kernel is asked for with a function that is there, or after its function.
Asked(t) ==
  \A i \in DOMAIN op[t].todo :
    LET r == op[t].todo[i] IN
      /\ r.do \in List => r.name \in Name \cup Variable /\ state[op[t].m] = "loaded"
      /\ r.do = "register" => r.name \in Host /\ i = Len(op[t].todo)
      /\ r.do = "kernel" /\ r.fn # None => Resolved(r.fn, op[t].m, r.name)
      /\ r.do = "kernel" /\ r.fn = None /\ i = 1 =>
           op[t].last # None /\ op[t].last.in = "function" /\ op[t].last.name = r.name
      /\ r.do = "kernel" /\ r.fn = None /\ i # 1 =>
           op[t].todo[i - 1].do = "function" /\ op[t].todo[i - 1].name = r.name

\* What is being added is what was asked for, in front of entries that are there.
Adds(t) ==
  op[t].pc # "search" =>
    /\ op[t].todo # <<>> /\ Doing(t).do \in List /\ op[t].new # None
    /\ Sound(op[t].new) /\ op[t].new.in = Doing(t).do /\ op[t].new.m = op[t].m
    /\ op[t].new.name = Doing(t).name
    /\ op[t].pc = "write" =>
         \A e \in Entries(op[t].seen) : Sound(e) /\ e.in = Doing(t).do /\ e.m = op[t].m

\* Before a module is marked as discovered, each kernel is there or still to be asked for.
Remaining(t) ==
  \A j \in DOMAIN op[t].todo :
    op[t].todo[j].do = "discovered" /\ op[t].m \notin raced =>
      \A i \in DOMAIN Kernels[op[t].m] :
        \/ Named(list["function"][op[t].m], Kernels[op[t].m][i])
        \/ \E p \in 1..(j - 1) : op[t].todo[p].do = "function"
                                 /\ op[t].todo[p].name = Kernels[op[t].m][i]

CallOk(t) == Shape(t) /\ Asked(t) /\ Adds(t) /\ Remaining(t)
Calls == \A t \in Thread : CallOk(t)

(***************************************************************************)
(* What is true of the lists.                                              *)
(***************************************************************************)
\* What is in a list is there, and is of that kind and that module.
Lists == \A l \in List, m \in Module : \A e \in Entries(list[l][m]) :
           Sound(e) /\ e.in = l /\ e.m = m

\* Only loaded modules have entries, and only loaded ones ever had any.
Empty == \A m \in Module : state[m] # "loaded" => \A l \in List : list[l][m] = <<>>
Fresh == \A e \in live : state[e.m] # "none"

\* Without a race a list has one thread adding to it, and that thread has seen it all.
Into(t, m, l) == op[t].m = m /\ op[t].pc # "search" /\ Doing(t).do = l
Sole == \A m \in Module \ raced, l \in List : \A t, u \in Thread :
          Into(t, m, l) /\ Into(u, m, l) => t = u
Current == \A t \in Thread :
             op[t].pc = "write" /\ op[t].m \notin raced => op[t].seen = list[Doing(t).do][op[t].m]

\* A discovered module has its kernels.
Complete == \A m \in Module : state[m] = "loaded" /\ discovered[m] /\ m \notin raced =>
              \A i \in DOMAIN Kernels[m] : Named(list["function"][m], Kernels[m][i])

Owners == Lists /\ Empty /\ Fresh /\ Sole /\ Current /\ OneHandle /\ NothingLost /\ StagedLive
SymbolInv == Types /\ Calls /\ Owners /\ Complete /\ RegistrationCurrent

-----------------------------------------------------------------------------
(***************************************************************************)
(* Lists and requests.                                                     *)
(***************************************************************************)
\* The order of the natural numbers, as a relation the provers can use.
LEMMA LessThanWellFounded ==
  \E R : IsWellFoundedOn(R, Nat) /\ \A x, y \in Nat : x < y => <<x, y>> \in R
<1>1. \A x, y \in Nat : x < y => <<x, y>> \in OpToRel(<, Nat)
  BY DEF OpToRel
<1>2. QED
  BY <1>1, NatLessThanWellFounded, Zenon

\* A set of natural numbers that is not empty has a least element.
LEMMA LeastElement ==
  ASSUME NEW S, S \subseteq Nat, S # {}
  PROVE  \E x \in S : \A y \in S : x <= y
<1>1. PICK R : IsWellFoundedOn(R, Nat) /\ \A x, y \in Nat : x < y => <<x, y>> \in R
  BY LessThanWellFounded
<1>2. IsWellFoundedOn(R, Nat)
  BY <1>1
<1>3. \A T \in SUBSET Nat : T # {} => \E x \in T : \A y \in T : ~(<<y, x>> \in R)
  BY <1>2, WFMin, Zenon
<1>4. PICK x \in S : \A y \in S : ~(<<y, x>> \in R)
  BY <1>3
<1>5. \A y \in S : ~(y < x)
  BY <1>1, <1>4
<1>6. QED
  BY <1>4, <1>5

\* None is no entry and nothing a list or a set of entries can hold.
LEMMA NoneIsApart == None \notin Module /\ None \notin Nat /\ None \notin EntryType
BY NoneAssumption

\* A set of positions has a first one.
LEMMA FirstPosition ==
  ASSUME NEW I, I \subseteq Nat, I # {}
  PROVE  (CHOOSE i \in I : \A j \in I : i <= j) \in I
         /\ \A j \in I : (CHOOSE i \in I : \A k \in I : i <= k) <= j
BY LeastElement

\* A search finds an entry of the list with the name, or there is none.
LEMMA FirstFinds ==
  ASSUME NEW s \in Seq(EntryType), NEW n
  PROVE  /\ First(s, n) = None <=> ~Named(s, n)
         /\ First(s, n) # None => First(s, n) \in Entries(s) /\ First(s, n).name = n
<1> DEFINE hits == {i \in DOMAIN s : s[i].name = n}
           c == CHOOSE i \in hits : \A j \in hits : i <= j
<1>1. CASE hits = {}
  BY <1>1 DEF First, Named
<1>2. CASE hits # {}
  <2>1. hits \subseteq Nat /\ \A i \in hits : s[i] \in EntryType
    OBVIOUS
  <2>2. c \in hits
    <3> HIDE DEF hits
    <3> QED
      BY <1>2, <2>1, FirstPosition
  <2>3. First(s, n) = s[c]
    BY <1>2 DEF First
  <2> QED
    BY <2>1, <2>2, <2>3, NoneIsApart DEF Named, Entries
<1> QED
  BY <1>1, <1>2

\* The registration found for a host function is the newest one.
RegType == [host : Host, fn : EntryType \cup {None}]
\* A search of the registrations returns an entry or nothing.
LEMMA FunctionFinds ==
  ASSUME Types, NEW h \in Host
  PROVE  Function(h) \in EntryType \cup {None}
<1> DEFINE hits == {i \in DOMAIN reg : reg[i].host = h}
           c == CHOOSE i \in hits : \A j \in hits : i <= j
<1>1. reg \in Seq(RegType)
  BY DEF Types, TypeOK, RegType
<1>2. CASE hits = {}
  BY <1>2 DEF Function
<1>3. CASE hits # {}
  <2>1. hits \subseteq Nat /\ \A i \in hits : reg[i].fn \in EntryType \cup {None}
    <3>1. \A i \in DOMAIN reg : i \in Nat /\ reg[i] \in RegType
      BY <1>1
    <3> QED
      BY <3>1 DEF RegType
  <2>2. c \in hits
    <3> HIDE DEF hits
    <3> QED
      BY <1>3, <2>1, FirstPosition
  <2> QED
    BY <1>3, <2>1, <2>2 DEF Function
<1> QED
  BY <1>2, <1>3

\* A new registration is the one found for its host function, and changes no other.
LEMMA FunctionAfter ==
  ASSUME Types, NEW h \in Host, NEW k \in Host, NEW f \in EntryType \cup {None},
         reg' = <<[host |-> k, fn |-> f]>> \o reg
  PROVE  Function(h)' = IF h = k THEN f ELSE Function(h)
<1> DEFINE old == {i \in DOMAIN reg : reg[i].host = h}
           new == {i \in DOMAIN reg' : reg'[i].host = h}
           c == CHOOSE i \in old : \A j \in old : i <= j
           d == CHOOSE i \in new : \A j \in new : i <= j
<1>1. reg \in Seq(RegType) /\ Len(reg) \in Nat /\ DOMAIN reg = 1..Len(reg)
  BY DEF Types, TypeOK, RegType
<1>2. /\ DOMAIN reg' = 1..(Len(reg) + 1) /\ reg'[1] = [host |-> k, fn |-> f]
      /\ \A i \in 1..Len(reg) : reg'[i + 1] = reg[i]
  BY <1>1
<1>3. old \subseteq Nat /\ new \subseteq Nat /\ 0 \notin old
  BY <1>1, <1>2
<1>4. \A i \in 1..Len(reg) : i \in old <=> i + 1 \in new
  BY <1>1, <1>2
<1>5. 1 \in new <=> h = k
  BY <1>1, <1>2
<1>6. CASE h = k
  <2>1. d \in new /\ \A j \in new : d <= j
    <3> HIDE DEF new
    <3> QED
      BY <1>3, <1>5, <1>6, FirstPosition, Zenon
  <2>2. d = 1
    BY <1>2, <1>5, <1>6, <2>1
  <2> QED
    BY <1>2, <1>5, <1>6, <2>2 DEF Function
<1>7. CASE h # k /\ old = {}
  <2>1. new = {}
    <3> SUFFICES ASSUME NEW i \in new PROVE FALSE
      OBVIOUS
    <3>1. i \in 1..(Len(reg) + 1) /\ i # 1
      BY <1>2, <1>5, <1>7
    <3>2. i - 1 \in 1..Len(reg) /\ (i - 1) + 1 = i
      BY <1>1, <3>1
    <3> QED
      BY <1>4, <1>7, <3>2
  <2> QED
    BY <1>7, <2>1 DEF Function
<1>8. CASE h # k /\ old # {}
  <2>1. c \in old /\ \A j \in old : c <= j
    <3> HIDE DEF old
    <3> QED
      BY <1>3, <1>8, FirstPosition, Zenon
  <2>2. c \in 1..Len(reg) /\ c + 1 \in new
    <3> HIDE DEF c
    <3>1. c \in 1..Len(reg)
      BY <1>1, <2>1
    <3> QED
      BY <1>4, <2>1, <3>1
  <2>3. d \in new /\ \A j \in new : d <= j
    <3> HIDE DEF new
    <3> QED
      BY <1>3, <2>2, FirstPosition, Zenon
  <2>4. d \in 1..(Len(reg) + 1) /\ d # 1
    BY <1>2, <1>5, <1>8, <2>3
  <2>5. d - 1 \in 1..Len(reg) /\ (d - 1) + 1 = d
    <3> HIDE DEF d
    <3> QED
      BY <1>1, <2>4
  <2>6. d - 1 \in old
    <3> HIDE DEF d, new, old
    <3> QED
      BY <1>4, <2>3, <2>5
  <2>7. d = c + 1
    <3> HIDE DEF c, d
    <3>1. c <= d - 1 /\ d <= c + 1 /\ c \in Nat /\ d \in Nat
      BY <1>1, <2>1, <2>2, <2>3, <2>4, <2>6
    <3> QED
      BY <3>1
  <2>8. Function(h) = reg[c].fn /\ Function(h)' = reg'[d].fn
    BY <1>8, <2>2 DEF Function
  <2> QED
    <3> HIDE DEF c, d
    <3> QED
      BY <1>2, <1>8, <2>2, <2>7, <2>8
<1> QED
  BY <1>6, <1>7, <1>8


-----------------------------------------------------------------------------
(***************************************************************************)
(* Calls.                                                                  *)
(***************************************************************************)
\* The records of calls and entries have the fields the actions read.
LEMMA Fields ==
  ASSUME Types
  PROVE  /\ live \subseteq EntryType
         /\ \A t \in Thread :
              /\ op[t] \in OpType /\ op[t].m \in Module \cup {None}
              /\ op[t].todo \in Seq(Requests) /\ op[t].seen \in Seq(EntryType)
              /\ op[t].new \in EntryType \cup {None} /\ op[t].last \in EntryType \cup {None}
         /\ \A l \in List, m \in Module : list[l][m] \in Seq(EntryType)
BY DEF Types, TypeOK, OpType

\* A step that leaves a call and its module alone keeps what is true of the call.
LEMMA CallKeeps ==
  ASSUME Types, NEW u \in Thread, CallOk(u), op'[u] = op[u], raced \subseteq raced',
         \A e \in live : e.m = op[u].m => e \in live',
         op[u].m \in Module => state'[op[u].m] = state[op[u].m],
         op[u].m \in Module \ raced' => \A n : Named(list["function"][op[u].m], n)
                                          => Named(list'["function"][op[u].m], n)
  PROVE  CallOk(u)'
<1>1. \A i, n : Resolved(i, op[u].m, n) => Resolved(i, op[u].m, n)'
  BY DEF Resolved, IsFunction
<1>2. \A e : e.m = op[u].m /\ Sound(e) => Sound(e)'
  BY DEF Sound, Resolved, IsFunction
<1>3. Shape(u)'
  BY DEF CallOk, Shape
<1>4. Asked(u)'
  BY <1>1 DEF CallOk, Asked, Shape
<1>5. Adds(u)'
  BY <1>2 DEF CallOk, Adds, Doing
<1>6. Remaining(u)'
  BY DEF CallOk, Remaining, Shape
<1> QED
  BY <1>3, <1>4, <1>5, <1>6 DEF CallOk

\* What is left of a call after a request.
LEMMA RestIs ==
  ASSUME Types, NEW t \in Thread, op[t].todo # <<>>, NEW last \in EntryType \cup {None}
  PROVE  /\ Rest(t, last) \in OpType /\ Rest(t, last).pc = "search" /\ Rest(t, last).new = None
         /\ Rest(t, last).seen = <<>>
         /\ Rest(t, last).todo = Tail(op[t].todo)
         /\ Tail(op[t].todo) = <<>> => Rest(t, last) = Idle
         /\ Tail(op[t].todo) # <<>> => Rest(t, last).m = op[t].m /\ Rest(t, last).last = last
<1>1. op[t] \in OpType /\ op[t].todo \in Seq(Requests)
  BY Fields
<1>2. /\ Tail(op[t].todo) \in Seq(Requests) /\ Len(op[t].todo) \in Nat \ {0}
      /\ Len(Tail(op[t].todo)) = Len(op[t].todo) - 1
  BY <1>1
<1>3. Len(op[t].todo) = 1 <=> Tail(op[t].todo) = <<>>
  <2>1. Len(Tail(op[t].todo)) = 0 <=> Tail(op[t].todo) = <<>>
    BY <1>2, EmptySeq
  <2> QED
    BY <1>2, <2>1
<1>4. Idle \in OpType
  BY DEF Idle, Call, OpType
<1>5. CASE Tail(op[t].todo) = <<>>
  BY <1>3, <1>4, <1>5 DEF Rest, Idle, Call
<1>6. CASE Tail(op[t].todo) # <<>>
  <2>1. Rest(t, last) = [op[t] EXCEPT !.todo = Tail(op[t].todo), !.pc = "search", !.new = None,
                                      !.seen = <<>>, !.last = last]
    BY <1>3, <1>6 DEF Rest
  <2>2. op[t] = [m |-> op[t].m, todo |-> op[t].todo, pc |-> op[t].pc, new |-> op[t].new,
                 seen |-> op[t].seen, last |-> op[t].last]
    BY <1>1 DEF OpType
  <2>3. Rest(t, last) = [m |-> op[t].m, todo |-> Tail(op[t].todo), pc |-> "search", new |-> None,
                         seen |-> <<>>, last |-> last]
    BY <2>1, <2>2
  <2>4. op[t].m \in Module \cup {None}
    BY Fields
  <2> QED
    BY <1>2, <1>6, <2>3, <2>4 DEF OpType
<1> QED
  BY <1>5, <1>6

\* A call that has done a request goes on to the next.
LEMMA CallAdvances ==
  ASSUME Types, NEW t \in Thread, CallOk(t), op[t].todo # <<>>,
         NEW last \in EntryType \cup {None}, op' = [op EXCEPT ![t] = Rest(t, last)],
         live \subseteq live', state' = state, raced' = raced,
         last # None => last \in live /\ last.m = op[t].m,
         \A n : op[t].m \notin raced /\ Named(list["function"][op[t].m], n)
                  => Named(list'["function"][op[t].m], n),
         op[t].m \notin raced /\ Doing(t).do = "function"
           => \/ Named(list'["function"][op[t].m], Doing(t).name)
              \/ \A j \in DOMAIN op[t].todo : op[t].todo[j].do # "discovered",
         Tail(op[t].todo) # <<>> /\ Head(Tail(op[t].todo)).do = "kernel" /\ Doing(t).do = "function"
           => last # None /\ last.in = "function" /\ last.name = Doing(t).name
  PROVE  CallOk(t)'
<1> DEFINE todo == op[t].todo
           rest == Tail(todo)
<1>1. op[t] \in OpType /\ todo \in Seq(Requests) /\ op'[t] = Rest(t, last)
  BY Fields DEF Types
<1>2. /\ rest \in Seq(Requests) /\ DOMAIN rest = 1..Len(rest) /\ Len(rest) = Len(todo) - 1
      /\ DOMAIN todo = 1..Len(todo) /\ Len(todo) \in Nat \ {0} /\ Len(rest) \in Nat
      /\ \A i \in DOMAIN rest : i + 1 \in DOMAIN todo /\ rest[i] = todo[i + 1]
      /\ Doing(t) = todo[1] /\ (rest # <<>> => Head(rest) = todo[2])
  BY <1>1 DEF Doing
<1>3. op'[t].pc = "search" /\ op'[t].new = None /\ op'[t].todo = rest
  BY <1>1, RestIs
<1>4. CASE rest = <<>>
  <2>1. op'[t] = Idle
    BY <1>1, <1>4, RestIs
  <2>2. Idle.todo = <<>> /\ Idle.last = None /\ DOMAIN Idle.todo = {}
    BY DEF Idle, Call
  <2> QED
    BY <1>3, <2>1, <2>2 DEF CallOk, Shape, Asked, Adds, Remaining
<1>5. CASE rest # <<>>
  <2>1. op'[t].m = op[t].m /\ op'[t].last = last
    BY <1>1, <1>5, RestIs
  <2>2. Shape(t)'
    BY <1>3, <1>5, <2>1 DEF CallOk, Shape
  <2>3. Adds(t)'
    BY <1>3 DEF Adds
  <2>4. \A f \in live : f \in live'
    OBVIOUS
  <2>5. Asked(t)'
    <3> SUFFICES ASSUME NEW i \in DOMAIN rest
                 PROVE  /\ rest[i].do \in List => rest[i].name \in Name \cup Variable
                                                  /\ state[op[t].m] = "loaded"
                        /\ rest[i].do = "register" => rest[i].name \in Host /\ i = Len(rest)
                        /\ rest[i].do = "kernel" /\ rest[i].fn # None =>
                             \E f \in live' : IsFunction(f, rest[i].fn, op[t].m, rest[i].name)
                        /\ rest[i].do = "kernel" /\ rest[i].fn = None /\ i = 1 =>
                             last # None /\ last.in = "function" /\ last.name = rest[i].name
                        /\ rest[i].do = "kernel" /\ rest[i].fn = None /\ i # 1 =>
                             rest[i - 1].do = "function" /\ rest[i - 1].name = rest[i].name
      <4> SUFFICES ASSUME NEW i \in DOMAIN op'[t].todo
                   PROVE  LET r == op'[t].todo[i] IN
                            /\ r.do \in List => r.name \in Name \cup Variable
                                                /\ state'[op'[t].m] = "loaded"
                            /\ r.do = "register" => r.name \in Host /\ i = Len(op'[t].todo)
                            /\ r.do = "kernel" /\ r.fn # None =>
                                 \E f \in live' : IsFunction(f, r.fn, op'[t].m, r.name)
                            /\ r.do = "kernel" /\ r.fn = None /\ i = 1 =>
                                 /\ op'[t].last # None /\ op'[t].last.in = "function"
                                 /\ op'[t].last.name = r.name
                            /\ r.do = "kernel" /\ r.fn = None /\ i # 1 =>
                                 op'[t].todo[i - 1].do = "function" /\ op'[t].todo[i - 1].name = r.name
        BY DEF Asked, Resolved, IsFunction
      <4> QED
        BY <1>3, <2>1, ZenonT(60)
    <3>1. /\ i \in Nat \ {0} /\ i + 1 \in DOMAIN todo /\ rest[i] = todo[i + 1]
          /\ i + 1 # 1 /\ (i + 1) - 1 = i
      BY <1>2
    <3>2. i # 1 => rest[i - 1] = todo[i]
      <4> SUFFICES ASSUME i # 1 PROVE rest[i - 1] = todo[i]
        OBVIOUS
      <4>1. i - 1 \in DOMAIN rest /\ (i - 1) + 1 = i
        BY <1>2, <3>1
      <4> QED
        BY <1>2, <4>1
    <3>3. rest[i].do = "kernel" /\ rest[i].fn = None =>
            todo[i].do = "function" /\ todo[i].name = rest[i].name
      BY <3>1 DEF CallOk, Asked
    <3>4. i = 1 => rest[i] = Head(rest) /\ todo[i] = Doing(t)
      BY <1>2, <1>5, <3>1
    <3>5. /\ rest[i].do \in List => rest[i].name \in Name \cup Variable /\ state[op[t].m] = "loaded"
          /\ rest[i].do = "register" => rest[i].name \in Host /\ i = Len(rest)
          /\ rest[i].do = "kernel" /\ rest[i].fn # None => Resolved(rest[i].fn, op[t].m, rest[i].name)
      BY <1>2, <3>1 DEF CallOk, Asked
    <3>6. rest[i].do = "kernel" /\ rest[i].fn = None /\ i = 1 =>
            last # None /\ last.in = "function" /\ last.name = rest[i].name
      BY <1>5, <3>3, <3>4
    <3> QED
      BY <2>4, <3>2, <3>3, <3>5, <3>6 DEF Resolved
  <2>6. Remaining(t)'
    <3> SUFFICES ASSUME NEW j \in DOMAIN op'[t].todo, op'[t].todo[j].do = "discovered",
                        op'[t].m \notin raced', NEW i \in DOMAIN Kernels[op'[t].m]
                 PROVE  \/ Named(list'["function"][op'[t].m], Kernels[op'[t].m][i])
                        \/ \E p \in 1..(j - 1) : op'[t].todo[p].do = "function"
                                                 /\ op'[t].todo[p].name = Kernels[op'[t].m][i]
      BY DEF Remaining, Named
    <3> DEFINE k == Kernels[op[t].m][i]
    <3>0. /\ j \in DOMAIN rest /\ rest[j].do = "discovered" /\ op[t].m \notin raced
          /\ i \in DOMAIN Kernels[op[t].m] /\ Kernels[op'[t].m][i] = k
      <4>1. j \in DOMAIN rest /\ rest[j].do = "discovered"
        BY <1>3
      <4>2. op[t].m \notin raced
        BY <2>1
      <4>3. i \in DOMAIN Kernels[op[t].m] /\ Kernels[op'[t].m][i] = k
        BY <2>1, Zenon
      <4> QED
        BY <4>1, <4>2, <4>3
    <3>1. j \in Nat \ {0} /\ j + 1 \in DOMAIN todo /\ todo[j + 1].do = "discovered" /\ (j + 1) - 1 = j
      BY <1>2, <3>0
    <3>2. \/ Named(list["function"][op[t].m], k)
          \/ \E p \in 1..j : todo[p].do = "function" /\ todo[p].name = k
      BY <3>0, <3>1 DEF CallOk, Remaining
    <3>3. ASSUME NEW p \in 1..j, todo[p].do = "function", todo[p].name = k, p # 1
          PROVE  p - 1 \in 1..(j - 1) /\ rest[p - 1] = todo[p]
      <4>1. p - 1 \in 1..(j - 1) /\ p - 1 \in DOMAIN rest /\ (p - 1) + 1 = p
        BY <1>2, <3>0, <3>1, <3>3
      <4> QED
        BY <1>2, <4>1
    <3>4. \/ Named(list'["function"][op[t].m], k)
          \/ \E p \in 1..(j - 1) : rest[p].do = "function" /\ rest[p].name = k
      BY <1>2, <3>0, <3>1, <3>2, <3>3, ZenonT(60)
    <3> QED
      BY <1>3, <2>1, <3>0, <3>4
  <2> QED
    BY <2>2, <2>3, <2>5, <2>6 DEF CallOk
<1> QED
  BY <1>4, <1>5


-----------------------------------------------------------------------------
(***************************************************************************)
(* Steps that only move a call on.                                         *)
(***************************************************************************)
\* A step between two searches leaves every list with the threads adding to it.
LEMMA SearchKeeps ==
  ASSUME Types, Calls, Owners, NEW t \in Thread, NEW o \in OpType, op[t].pc = "search",
         o.pc = "search", o.new = None, op' = [op EXCEPT ![t] = o],
         UNCHANGED <<state, list, live, staged, raced>>
  PROVE  Owners'
<1>1. \A u \in Thread : op'[u] = IF u = t THEN o ELSE op[u]
  BY DEF Types
<1>2. Lists' /\ Empty' /\ Fresh' /\ OneHandle' /\ StagedLive'
  BY DEF Owners, Lists, Sound, Resolved, IsFunction, Empty, Fresh, OneHandle, StagedLive
<1>3. \A u \in Thread : \A m, l : Into(u, m, l)' => Into(u, m, l)
  BY <1>1 DEF Into, Doing
<1>4. Sole'
  BY <1>3 DEF Owners, Sole
<1>5. Current'
  BY <1>1 DEF Owners, Current, Doing
<1>6. \A e \in live : InFlight(e) => InFlight(e)'
  <2> SUFFICES ASSUME NEW e \in live, NEW u \in Thread, op[u].new = e PROVE op'[u].new = e
    BY DEF InFlight
  <2>1. op[t].new = None /\ e # None
    BY Fields, NoneIsApart DEF Calls, CallOk, Shape
  <2> QED
    BY <1>1, <2>1
<1>7. NothingLost'
  BY <1>6 DEF Owners, NothingLost, Listed
<1> QED
  BY <1>2, <1>4, <1>5, <1>7 DEF Owners

\* A step of one thread that leaves lists and entries alone keeps the other calls.
LEMMA OthersKeep ==
  ASSUME Types, Calls, NEW t \in Thread, NEW o, op' = [op EXCEPT ![t] = o],
         UNCHANGED <<state, list, live, raced>>
  PROVE  \A u \in Thread \ {t} : CallOk(u)'
<1> SUFFICES ASSUME NEW u \in Thread \ {t} PROVE CallOk(u)'
  OBVIOUS
<1>1. op'[u] = op[u] /\ CallOk(u)
  BY DEF Types, Calls
<1> QED
  BY <1>1, CallKeeps

\* What operations begin with: no kernel before its function, no mark before the kernels.
Plain(m, todo) ==
  /\ todo \in Seq(Requests) /\ todo # <<>> /\ state[m] \in {"loaded", "null"}
  /\ \A i \in DOMAIN todo :
       /\ todo[i].do \in List => todo[i].name \in Name \cup Variable /\ state[m] = "loaded"
       /\ todo[i].do = "register" => todo[i].name \in Host /\ i = Len(todo)
       /\ todo[i].do = "kernel" =>
            todo[i].fn = None /\ i # 1 /\ todo[i - 1].do = "function" /\ todo[i - 1].name = todo[i].name
       /\ todo[i].do = "discovered" =>
            \A k \in DOMAIN Kernels[m] : \E p \in 1..(i - 1) : todo[p].do = "function"
                                                              /\ todo[p].name = Kernels[m][k]

\* Every operation begins with plain requests, so beginning one keeps the invariant.
LEMMA BeginKeeps ==
  ASSUME SymbolInv, NEW t \in Thread, NEW m \in Module, NEW todo, Plain(m, todo), Begin(t, m, todo)
  PROVE  SymbolInv'
<1> DEFINE o == Call(m, todo)
<1>1. /\ o = [m |-> m, todo |-> todo, pc |-> "search", new |-> None, seen |-> <<>>, last |-> None]
      /\ o \in OpType
  BY DEF Call, OpType, Plain
<1>2. op' = [op EXCEPT ![t] = o] /\ op[t] = Idle
  BY DEF Begin, Free
<1>3. UNCHANGED <<plan, state, discovered, list, live, staged, reg, nextId, raced, bound>>
  BY DEF Begin, tables
<1>4. op[t].pc = "search"
  BY <1>2 DEF Idle, Call
<1> HIDE DEF o
<1>5. Types'
  BY <1>1, <1>2, <1>3 DEF SymbolInv, Types, TypeOK, OpType
<1>6. Owners'
  BY <1>1, <1>2, <1>3, <1>4, SearchKeeps DEF SymbolInv
<1>7. op'[t] = o
  BY <1>2 DEF SymbolInv, Types
<1>8. CallOk(t)'
  <2>1. o.m = m /\ o.todo = todo /\ o.pc = "search" /\ o.new = None /\ o.last = None
    BY <1>1
  <2>2. Shape(t)' /\ Adds(t)'
    BY <1>3, <1>7, <2>1 DEF Shape, Adds, Plain
  <2>3. Asked(t)'
    BY <1>3, <1>7, <2>1 DEF Asked, Plain
  <2>4. Remaining(t)'
    <3> SUFFICES ASSUME NEW j \in DOMAIN op'[t].todo, op'[t].todo[j].do = "discovered",
                        op'[t].m \notin raced', NEW i \in DOMAIN Kernels[op'[t].m]
                 PROVE  \/ Named(list'["function"][op'[t].m], Kernels[op'[t].m][i])
                        \/ \E p \in 1..(j - 1) : op'[t].todo[p].do = "function"
                                                 /\ op'[t].todo[p].name = Kernels[op'[t].m][i]
      BY DEF Remaining, Named
    <3> QED
      BY <1>7, <2>1 DEF Plain
  <2> QED
    BY <2>2, <2>3, <2>4 DEF CallOk
<1>9. Calls'
  BY <1>2, <1>3, <1>8, OthersKeep DEF SymbolInv, Calls
<1>10. Complete' /\ RegistrationCurrent'
  <2>1. \A h \in Host : Function(h)' = Function(h)
    BY <1>3 DEF Function
  <2> QED
    BY <1>3, <2>1 DEF SymbolInv, Complete, Named, RegistrationCurrent
<1> QED
  BY <1>5, <1>6, <1>9, <1>10 DEF SymbolInv

\* A discovery is a list of requests.
LEMMA DiscoverType ==
  ASSUME NEW m \in Module
  PROVE  Discover(m) \in Seq(Requests)
<1> DEFINE K == Kernels[m]
           F == [i \in DOMAIN K |-> Request("function", K[i], None)]
<1>1. K \in Seq(Name) /\ Len(K) \in Nat /\ DOMAIN K = 1..Len(K) /\ \A i \in DOMAIN K : K[i] \in Name
  BY KernelsAssumption
<1>2. /\ \A n \in Name : Request("function", n, None) \in Requests
      /\ Request("discovered", None, None) \in Requests
  BY DEF Request, Requests, List
<1>3. F \in Seq(Requests)
  BY <1>1, <1>2
<1> QED
  BY <1>2, <1>3 DEF Discover

\* A module is asked for the kernels it does not have, and marked after them.
LEMMA DiscoverIs ==
  ASSUME SymbolInv, NEW m \in Module, Usable(m),
         NEW s \in {<<>>, <<Request("populate", None, None)>>}, Discover(m) \o s # <<>>
  PROVE  Plain(m, Discover(m) \o s)
<1> DEFINE K == Kernels[m]
           F == [i \in DOMAIN K |-> Request("function", K[i], None)]
           D == <<Request("discovered", None, None)>>
<1>1. K \in Seq(Name) /\ Len(K) \in Nat /\ DOMAIN K = 1..Len(K) /\ \A i \in DOMAIN K : K[i] \in Name
  BY KernelsAssumption
<1>2. /\ \A n \in Name : Request("function", n, None) \in Requests
      /\ Request("discovered", None, None) \in Requests /\ Request("populate", None, None) \in Requests
  BY DEF Request, Requests, List
<1>3. /\ F \in Seq(Requests) /\ Len(F) = Len(K) /\ DOMAIN F = DOMAIN K
      /\ \A i \in DOMAIN K : F[i] = Request("function", K[i], None)
  BY <1>1, <1>2
<1>4. s \in Seq(Requests) /\ Len(s) \in {0, 1} /\ \A i \in DOMAIN s : s[i] = Request("populate", None, None)
  <2>1. CASE s = <<>>
    BY <2>1
  <2>2. CASE s = <<Request("populate", None, None)>>
    BY <1>2, <2>2
  <2> QED
    BY <2>1, <2>2
<1>5. state[m] = "loaded"
  BY DEF Usable
<1>6. CASE discovered[m]
  BY <1>4, <1>5, <1>6 DEF Discover, Plain, Request, List
<1>7. CASE ~discovered[m]
  <2> DEFINE todo == F \o D \o s
  <2>1. /\ todo \in Seq(Requests) /\ DOMAIN todo = 1..(Len(K) + 1 + Len(s))
        /\ \A i \in DOMAIN K : todo[i] = Request("function", K[i], None)
        /\ todo[Len(K) + 1] = Request("discovered", None, None)
        /\ Len(s) = 1 => todo[Len(K) + 2] = Request("populate", None, None)
    <3> HIDE DEF F
    <3>1. /\ F \o D \in Seq(Requests) /\ Len(F \o D) = Len(K) + 1
          /\ \A i \in DOMAIN K : (F \o D)[i] = Request("function", K[i], None)
          /\ (F \o D)[Len(K) + 1] = Request("discovered", None, None)
      BY <1>1, <1>2, <1>3
    <3> HIDE DEF D
    <3>2. /\ todo \in Seq(Requests) /\ DOMAIN todo = 1..(Len(K) + 1 + Len(s))
          /\ \A i \in 1..(Len(K) + 1) : todo[i] = (F \o D)[i]
          /\ Len(s) = 1 => todo[Len(K) + 2] = s[1]
      <4> DEFINE FD == F \o D
      <4>1. FD \in Seq(Requests) /\ Len(FD) = Len(K) + 1
        BY <3>1
      <4> HIDE DEF FD
      <4>2. /\ FD \o s \in Seq(Requests) /\ Len(FD \o s) = Len(FD) + Len(s)
            /\ \A i \in 1..Len(FD) : (FD \o s)[i] = FD[i]
            /\ Len(s) = 1 => (FD \o s)[Len(FD) + 1] = s[1]
        BY <1>4, <4>1
      <4> HIDE DEF K
      <4> QED
        BY <1>1, <1>4, <4>1, <4>2 DEF FD
    <3>3. \A i \in DOMAIN K : i \in 1..(Len(K) + 1)
      BY <1>1
    <3>4. Len(K) + 1 \in 1..(Len(K) + 1)
      BY <1>1
    <3>5. Len(s) = 1 => s[1] = Request("populate", None, None)
      BY <1>4
    <3> HIDE DEF todo, K
    <3> QED
      BY <3>1, <3>2, <3>3, <3>4, <3>5
  <2>2. Discover(m) \o s = todo
    BY <1>7 DEF Discover
  <2> HIDE DEF todo, F, D
  <2>3. \A i \in DOMAIN todo :
          \/ i \in DOMAIN K /\ todo[i] = Request("function", K[i], None)
          \/ i = Len(K) + 1 /\ todo[i] = Request("discovered", None, None)
          \/ todo[i] = Request("populate", None, None)
    <3> SUFFICES ASSUME NEW i \in DOMAIN todo
                 PROVE  i \in 1..Len(K) \/ i = Len(K) + 1 \/ (i = Len(K) + 2 /\ Len(s) = 1)
      BY <1>1, <2>1
    <3> QED
      BY <1>1, <1>4, <2>1, SMTT(30)
  <2>4. \A i \in DOMAIN todo : todo[i].do = "discovered" =>
          \A k \in DOMAIN K : \E p \in 1..(i - 1) : todo[p].do = "function" /\ todo[p].name = K[k]
    <3> SUFFICES ASSUME NEW i \in DOMAIN todo, todo[i].do = "discovered", NEW k \in DOMAIN K
                 PROVE  k \in 1..(i - 1) /\ todo[k].do = "function" /\ todo[k].name = K[k]
      OBVIOUS
    <3>1. i = Len(K) + 1
      BY <2>3 DEF Request
    <3> QED
      <4>1. k \in 1..(i - 1)
        BY <1>1, <3>1
      <4>2. todo[k] = Request("function", K[k], None)
        BY <2>1
      <4> QED
        BY <4>1, <4>2 DEF Request
  <2>5. todo # <<>>
    BY <1>1, <1>4, <2>1
  <2>6. \A i \in DOMAIN todo :
          /\ todo[i].do \in List => todo[i].name \in Name \cup Variable
          /\ todo[i].do # "register" /\ todo[i].do # "kernel"
    BY <1>1, <2>3 DEF Request, List
  <2> QED
    BY <1>5, <2>1, <2>2, <2>4, <2>5, <2>6 DEF Plain
<1> QED
  BY <1>6, <1>7


\* What each operation asks for is plain.
LEMMA StartKeeps ==
  ASSUME SymbolInv, NEW t \in Thread, NEW m \in Module, Start(t, m)
  PROVE  SymbolInv'
<1>1. ASSUME NEW n \in Name, GetFunction(t, m, n) PROVE SymbolInv'
  <2> DEFINE todo == <<Request("function", n, None)>>
  <2>1. Begin(t, m, todo) /\ state[m] = "loaded"
    BY <1>1 DEF GetFunction, Usable
  <2>2. Request("function", n, None) \in Requests
    BY DEF Request, Requests, List
  <2>3. Plain(m, todo)
    BY <2>1, <2>2 DEF Plain, Request, List
  <2> QED
    BY <2>1, <2>3, BeginKeeps
<1>2. ASSUME NEW n \in Variable, GetGlobal(t, m, n) PROVE SymbolInv'
  <2> DEFINE todo == <<Request("global", n, None)>>
  <2>1. Begin(t, m, todo) /\ state[m] = "loaded"
    BY <1>2 DEF GetGlobal, Usable
  <2>2. Request("global", n, None) \in Requests
    BY DEF Request, Requests, List
  <2>3. Plain(m, todo)
    BY <2>1, <2>2 DEF Plain, Request, List
  <2> QED
    BY <2>1, <2>3, BeginKeeps
<1>3. ASSUME NEW n \in Name, GetKernel(t, m, n) PROVE SymbolInv'
  <2> DEFINE todo == <<Request("function", n, None), Request("kernel", n, None)>>
  <2>1. Begin(t, m, todo) /\ state[m] = "loaded"
    BY <1>3 DEF GetKernel, Usable
  <2>2. Request("function", n, None) \in Requests /\ Request("kernel", n, None) \in Requests
    BY DEF Request, Requests, List
  <2>3. Plain(m, todo)
    BY <2>1, <2>2 DEF Plain, Request, List
  <2> QED
    BY <2>1, <2>3, BeginKeeps
<1>4. ASSUME FunctionCount(t, m) PROVE SymbolInv'
  <2>1. Begin(t, m, Discover(m)) /\ Usable(m) /\ Discover(m) # <<>>
    BY <1>4 DEF FunctionCount, Begin
  <2>2. Discover(m) \in Seq(Requests)
    BY DiscoverType
  <2>3. Discover(m) \o <<>> = Discover(m)
    BY <2>2, ConcatEmptySeq
  <2>4. Plain(m, Discover(m))
    BY <2>1, <2>3, DiscoverIs
  <2> QED
    BY <2>1, <2>4, BeginKeeps
<1>5. ASSUME Populate(t, m) PROVE SymbolInv'
  <2> DEFINE todo == Discover(m) \o <<Request("populate", None, None)>>
  <2>1. Begin(t, m, todo) /\ Usable(m) /\ todo # <<>>
    BY <1>5 DEF Populate, Begin
  <2>2. Plain(m, todo)
    BY <2>1, DiscoverIs
  <2> QED
    BY <2>1, <2>2, BeginKeeps
<1>6. ASSUME NEW h \in Host, NEW n \in Name, RegisterFunction(t, h, m, n) PROVE SymbolInv'
  <2> DEFINE todo == IF state[m] = "loaded"
                     THEN <<Request("function", n, None), Request("register", h, None)>>
                     ELSE <<Request("register", h, None)>>
  <2>1. Begin(t, m, todo) /\ state[m] \in {"loaded", "null"}
    BY <1>6 DEF RegisterFunction
  <2>2. Request("function", n, None) \in Requests /\ Request("register", h, None) \in Requests
    BY DEF Request, Requests, List
  <2>3. Plain(m, todo)
    <3>1. CASE state[m] = "loaded"
      <4>1. todo = <<Request("function", n, None), Request("register", h, None)>>
        BY <3>1
      <4> HIDE DEF todo
      <4> QED
        BY <2>2, <3>1, <4>1 DEF Plain, Request, List
    <3>2. CASE state[m] # "loaded"
      <4>1. todo = <<Request("register", h, None)>>
        BY <3>2
      <4> HIDE DEF todo
      <4> QED
        BY <2>1, <2>2, <3>2, <4>1 DEF Plain, Request, List
    <3> QED
      BY <3>1, <3>2
  <2> QED
    BY <2>1, <2>3, BeginKeeps
<1> QED
  BY <1>1, <1>2, <1>3, <1>4, <1>5, <1>6 DEF Start


-----------------------------------------------------------------------------
(***************************************************************************)
(* The steps of a call.                                                    *)
(***************************************************************************)
LEMMA IdleIsOk ==
  /\ Idle \in OpType /\ Idle.pc = "search" /\ Idle.new = None
  /\ \A t \in Thread : op'[t] = Idle => CallOk(t)'
<1>1. /\ Idle \in OpType /\ Idle.pc = "search" /\ Idle.new = None /\ Idle.last = None
      /\ Idle.todo = <<>> /\ DOMAIN Idle.todo = {}
  BY DEF Idle, Call, OpType
<1> QED
  BY <1>1 DEF CallOk, Shape, Asked, Adds, Remaining

\* The request a thread is on.
LEMMA DoingIs ==
  ASSUME Types, NEW t \in Thread, op[t].todo # <<>>
  PROVE  /\ 1 \in DOMAIN op[t].todo /\ Doing(t) = op[t].todo[1] /\ Doing(t) \in Requests
         /\ \A i \in 1..(1 - 1) : FALSE
<1>1. op[t].todo \in Seq(Requests)
  BY Fields
<1> QED
  BY <1>1 DEF Doing

\* A call that goes from one search to the next, or ends, and changes nothing else.
LEMMA MoveKeeps ==
  ASSUME SymbolInv, NEW t \in Thread, NEW o \in OpType, op[t].pc = "search",
         o.pc = "search", o.new = None, op' = [op EXCEPT ![t] = o],
         UNCHANGED <<plan, state, list, live, staged, nextId, raced>>, CallOk(t)'
  PROVE  /\ op' \in [Thread -> OpType] /\ Calls' /\ Owners'
         /\ UNCHANGED <<discovered, reg, bound>> => SymbolInv'
<1>1. op' \in [Thread -> OpType]
  BY DEF SymbolInv, Types
<1>2. Calls'
  BY OthersKeep DEF SymbolInv, Calls
<1>3. Owners'
  BY SearchKeeps DEF SymbolInv
<1>4. ASSUME UNCHANGED <<discovered, reg, bound>> PROVE SymbolInv'
  <2>1. Types'
    <3>1. op'[t] = o /\ \A u \in Thread \ {t} : op'[u] = op[u]
      BY DEF SymbolInv, Types
    <3>2. \A u \in Thread : op'[u] \in OpType
      BY <1>1
    <3>3. TypeOK'
      BY <1>4, <3>2 DEF SymbolInv, Types, TypeOK, OpType
    <3> QED
      BY <1>1, <3>3 DEF Types
  <2>2. \A h \in Host : Function(h)' = Function(h)
    BY <1>4 DEF Function
  <2>3. Complete' /\ RegistrationCurrent'
    BY <1>4, <2>2 DEF SymbolInv, Complete, Named, RegistrationCurrent
  <2> QED
    BY <1>2, <1>3, <2>1, <2>3 DEF SymbolInv
<1> QED
  BY <1>1, <1>2, <1>3, <1>4

\* The entry found is the one its next request may need.
LEMMA FoundKeeps ==
  ASSUME SymbolInv, NEW t \in Thread, Found(t)
  PROVE  SymbolInv'
<1> DEFINE m == op[t].m
           e == First(list[Doing(t).do][m], Doing(t).name)
<1>1. /\ op[t].todo # <<>> /\ op[t].pc = "search" /\ Doing(t).do \in List /\ e # None
      /\ op' = [op EXCEPT ![t] = Rest(t, e)]
      /\ UNCHANGED <<plan, state, discovered, list, live, staged, reg, nextId, raced, bound>>
  BY DEF Found, Searching, tables
<1>2. CallOk(t) /\ Types /\ m \in Module
  BY <1>1 DEF SymbolInv, Calls, CallOk, Shape
<1>3. list[Doing(t).do][m] \in Seq(EntryType)
  BY <1>1, <1>2, Fields
<1>4. e \in Entries(list[Doing(t).do][m]) /\ e.name = Doing(t).name
      /\ Named(list[Doing(t).do][m], Doing(t).name)
  BY <1>1, <1>3, FirstFinds
<1>5. e \in live /\ e.in = Doing(t).do /\ e.m = m /\ e \in EntryType
  BY <1>1, <1>2, <1>4, Fields DEF SymbolInv, Owners, Lists, Sound
<1> HIDE DEF e
<1>6. /\ Rest(t, e) \in OpType /\ Rest(t, e).pc = "search" /\ Rest(t, e).new = None
  BY <1>1, <1>2, <1>5, RestIs
<1>7. CallOk(t)'
  BY <1>1, <1>2, <1>4, <1>5, CallAdvances DEF Named
<1> QED
  BY <1>1, <1>6, <1>7, MoveKeeps

\* Giving up leaves no request that relies on the function that was not made.
LEMMA CreateFailsKeeps ==
  ASSUME SymbolInv, NEW t \in Thread, CreateFails(t)
  PROVE  SymbolInv'
<1> DEFINE rest == Tail(op[t].todo)
           o == IF rest # <<>> /\ Head(rest).do = "register" THEN Rest(t, None) ELSE Idle
<1>1. /\ op[t].todo # <<>> /\ op[t].pc = "search" /\ op' = [op EXCEPT ![t] = o]
      /\ UNCHANGED <<plan, state, discovered, list, live, staged, reg, nextId, raced, bound>>
  BY DEF CreateFails, Searching, tables
<1>2. CallOk(t) /\ Types
  BY DEF SymbolInv, Calls
<1>3. CASE rest # <<>> /\ Head(rest).do = "register"
  <2>1. Rest(t, None) \in OpType /\ Rest(t, None).pc = "search" /\ Rest(t, None).new = None
    BY <1>1, <1>2, RestIs
  <2>2. op' = [op EXCEPT ![t] = Rest(t, None)]
    BY <1>1, <1>3
  <2>3. \A j \in DOMAIN op[t].todo : op[t].todo[j].do # "discovered"
    <3>1. op[t].todo \in Seq(Requests) /\ rest \in Seq(Requests) /\ rest # <<>>
      BY <1>1, <1>2, <1>3, Fields
    <3>2. 2 \in DOMAIN op[t].todo /\ op[t].todo[2] = Head(rest)
      BY <3>1
    <3>3. Len(op[t].todo) = 2
      BY <1>2, <1>3, <3>2 DEF CallOk, Asked
    <3>4. 1 \in DOMAIN op[t].todo /\ Doing(t) = op[t].todo[1] /\ Doing(t).do \in List
      BY <1>1, <1>2, DoingIs DEF CreateFails, Searching
    <3> QED
      BY <1>3, <3>1, <3>2, <3>3, <3>4 DEF List
  <2>4. CallOk(t)'
    BY <1>1, <1>2, <1>3, <2>2, <2>3, CallAdvances
  <2> QED
    BY <1>1, <2>1, <2>2, <2>4, MoveKeeps
<1>4. CASE ~(rest # <<>> /\ Head(rest).do = "register")
  <2>1. op' = [op EXCEPT ![t] = Idle]
    BY <1>1, <1>4
  <2>2. op'[t] = Idle
    BY <1>2, <2>1 DEF Types
  <2> QED
    BY <1>1, <2>1, <2>2, IdleIsOk, MoveKeeps
<1> QED
  BY <1>3, <1>4

\* When the mark is set no kernel is left to be asked for.
LEMMA SetDiscoveredKeeps ==
  ASSUME SymbolInv, NEW t \in Thread, SetDiscovered(t)
  PROVE  SymbolInv'
<1> DEFINE m == op[t].m
<1>1. /\ op[t].todo # <<>> /\ Doing(t).do = "discovered"
      /\ discovered' = [discovered EXCEPT ![m] = TRUE] /\ op' = [op EXCEPT ![t] = Rest(t, None)]
      /\ UNCHANGED <<plan, state, list, live, staged, reg, nextId, raced, bound>>
  BY DEF SetDiscovered
<1>2. CallOk(t) /\ Types /\ m \in Module
  BY <1>1 DEF SymbolInv, Calls, CallOk, Shape
<1>3. op[t].pc = "search"
  BY <1>1, <1>2 DEF CallOk, Adds, List
<1>4. /\ Rest(t, None) \in OpType /\ Rest(t, None).pc = "search" /\ Rest(t, None).new = None
  BY <1>1, <1>2, RestIs
<1>5. CallOk(t)'
  <2>1. Doing(t).do # "function"
    BY <1>1
  <2> QED
    BY <1>1, <1>2, <2>1, CallAdvances
<1>6. op' \in [Thread -> OpType] /\ Calls' /\ Owners'
  BY <1>1, <1>3, <1>4, <1>5, MoveKeeps
<1>7. m \notin raced => \A i \in DOMAIN Kernels[m] : Named(list["function"][m], Kernels[m][i])
  BY <1>1, <1>2, DoingIs DEF CallOk, Remaining
<1>8. Complete'
  <2>1. discovered \in [Module -> BOOLEAN]
    BY <1>2 DEF Types, TypeOK
  <2>2. \A x \in Module : x = m \/ discovered'[x] = discovered[x]
    BY <1>1, <2>1
  <2>3. \A x \in Module : \A n : Named(list["function"][x], n)' <=> Named(list["function"][x], n)
    BY <1>1 DEF Named
  <2> QED
    BY <1>1, <1>7, <2>2, <2>3 DEF SymbolInv, Complete
<1>9. Types'
  <2>1. \A u \in Thread : op'[u] \in OpType
    BY <1>6
  <2>2. TypeOK'
    BY <1>1, <2>1 DEF SymbolInv, Types, TypeOK, OpType
  <2> QED
    BY <1>6, <2>2 DEF Types
<1>10. RegistrationCurrent'
  <2>1. \A h \in Host : Function(h)' = Function(h)
    BY <1>1 DEF Function
  <2> QED
    BY <1>1, <2>1 DEF SymbolInv, RegistrationCurrent
<1> QED
  BY <1>6, <1>8, <1>9, <1>10 DEF SymbolInv


\* The kernels of a library are asked for with functions of its list.
LEMMA PopulateKernelsKeeps ==
  ASSUME SymbolInv, NEW t \in Thread, PopulateKernels(t)
  PROVE  SymbolInv'
<1> DEFINE m == op[t].m
           fns == list["function"][m]
           todo == [i \in DOMAIN fns |-> Request("kernel", fns[i].name, fns[i].id)]
           call == [op[t] EXCEPT !.todo = todo]
<1>1. /\ op[t].todo # <<>> /\ Doing(t).do = "populate"
      /\ op' = [op EXCEPT ![t] = IF todo = <<>> THEN Idle ELSE call]
      /\ UNCHANGED <<plan, state, discovered, list, live, staged, reg, nextId, raced, bound>>
  BY DEF PopulateKernels, tables
<1>2. CallOk(t) /\ Types /\ m \in Module /\ op[t] \in OpType
  BY <1>1, Fields DEF SymbolInv, Calls, CallOk, Shape
<1>3. op[t].pc = "search" /\ op[t].new = None
  BY <1>1, <1>2 DEF CallOk, Adds, Shape, List
<1>4. /\ fns \in Seq(EntryType) /\ Len(fns) \in Nat /\ DOMAIN fns = 1..Len(fns)
      /\ \A i \in DOMAIN fns : fns[i] \in EntryType
  BY <1>2, Fields DEF List
<1>5. \A i \in DOMAIN fns :
        /\ fns[i] \in live /\ fns[i].in = "function" /\ fns[i].m = m
        /\ fns[i].id \in Nat /\ fns[i].name \in Name \cup Variable
  BY <1>2, <1>4, SMTT(30) DEF SymbolInv, Owners, Lists, Entries, Sound, List, EntryType
<1>6. /\ todo \in Seq(Requests) /\ DOMAIN todo = DOMAIN fns
      /\ \A i \in DOMAIN todo : todo[i] = Request("kernel", fns[i].name, fns[i].id)
  <2>1. \A i \in DOMAIN fns : Request("kernel", fns[i].name, fns[i].id) \in Requests
    BY <1>5 DEF Request, Requests, List
  <2>2. todo \in [1..Len(fns) -> Requests]
    BY <1>4, <2>1
  <2>3. todo \in Seq(Requests)
    BY <1>4, <2>2, SMTT(30)
  <2>4. \A i \in DOMAIN fns : todo[i] = Request("kernel", fns[i].name, fns[i].id)
    OBVIOUS
  <2> QED
    BY <2>3, <2>4
<1>7. CASE todo = <<>>
  <2>1. op' = [op EXCEPT ![t] = Idle]
    BY <1>1, <1>7
  <2>2. op'[t] = Idle
    BY <1>2, <2>1 DEF Types
  <2> QED
    BY <1>1, <1>3, <2>1, <2>2, IdleIsOk, MoveKeeps
<1>8. CASE todo # <<>>
  <2> HIDE DEF todo
  <2>1. /\ call \in OpType /\ call.pc = "search" /\ call.new = None /\ call.todo = todo
        /\ call.m = m /\ call.last = op[t].last
    BY <1>2, <1>3, <1>6 DEF OpType
  <2>2. op' = [op EXCEPT ![t] = call]
    BY <1>1, <1>8
  <2>3. op'[t] = call
    BY <1>2, <2>2 DEF Types
  <2> HIDE DEF call
  <2>4. state[m] = "loaded"
    <3>1. fns # <<>>
      BY <1>4, <1>6, <1>8
    <3> QED
      BY <1>2, <3>1 DEF SymbolInv, Owners, Empty, List
  <2>5. \A i \in DOMAIN todo :
          /\ todo[i].do = "kernel" /\ todo[i].name \in Name \cup Variable /\ todo[i].fn # None
          /\ Resolved(todo[i].fn, m, todo[i].name)
    <3> SUFFICES ASSUME NEW i \in DOMAIN todo
                 PROVE  /\ todo[i].do = "kernel" /\ todo[i].name \in Name \cup Variable
                        /\ todo[i].fn # None /\ Resolved(todo[i].fn, m, todo[i].name)
      OBVIOUS
    <3>1. todo[i].do = "kernel" /\ todo[i].name = fns[i].name /\ todo[i].fn = fns[i].id
      <4>1. todo[i] = Request("kernel", fns[i].name, fns[i].id)
        BY <1>6
      <4> QED
        BY <4>1 DEF Request
    <3>2. IsFunction(fns[i], todo[i].fn, m, todo[i].name) /\ fns[i] \in live
      BY <1>5, <1>6, <3>1 DEF IsFunction
    <3> QED
      BY <1>5, <1>6, <3>1, <3>2, NoneIsApart DEF Resolved
  <2>6. Shape(t)' /\ Adds(t)'
    BY <1>1, <1>2, <1>8, <2>1, <2>3 DEF CallOk, Shape, Adds
  <2>7. Asked(t)'
    <3> SUFFICES ASSUME NEW i \in DOMAIN op'[t].todo
                 PROVE  LET r == op'[t].todo[i] IN
                          /\ r.do = "kernel" /\ r.name \in Name \cup Variable
                          /\ state'[op'[t].m] = "loaded" /\ r.fn # None
                          /\ \E f \in live' : IsFunction(f, r.fn, op'[t].m, r.name)
      BY DEF Asked, Resolved, IsFunction
    <3> QED
      BY <1>1, <2>1, <2>3, <2>4, <2>5 DEF Resolved
  <2>8. Remaining(t)'
    <3>1. \A j \in DOMAIN op'[t].todo : op'[t].todo[j].do # "discovered"
      BY <2>1, <2>3, <2>5
    <3> QED
      BY <3>1 DEF Remaining
  <2> QED
    BY <1>1, <1>3, <2>1, <2>2, <2>6, <2>7, <2>8, MoveKeeps DEF CallOk
<1> QED
  BY <1>7, <1>8

\* A registration that is given up changes nothing.
LEMMA RegisterFailsKeeps ==
  ASSUME SymbolInv, NEW t \in Thread, RegisterFails(t)
  PROVE  SymbolInv'
<1>1. /\ op[t].todo # <<>> /\ Doing(t).do = "register" /\ op' = [op EXCEPT ![t] = Idle]
      /\ UNCHANGED <<plan, state, discovered, list, live, staged, reg, nextId, raced, bound>>
  BY DEF RegisterFails, tables
<1>2. CallOk(t) /\ Types
  BY DEF SymbolInv, Calls
<1>3. op[t].pc = "search" /\ op'[t] = Idle
  BY <1>1, <1>2 DEF CallOk, Adds, List, Types
<1> QED
  BY <1>1, <1>3, IdleIsOk, MoveKeeps

\* The function a registration enters is of the module it registers for.
LEMMA RegisterKeeps ==
  ASSUME SymbolInv, NEW t \in Thread, Register(t)
  PROVE  SymbolInv'
<1> DEFINE m == op[t].m
           h == Doing(t).name
           f == op[t].last
<1>1. /\ op[t].todo # <<>> /\ Doing(t).do = "register" /\ op' = [op EXCEPT ![t] = Idle]
      /\ reg' = <<[host |-> h, fn |-> f]>> \o reg /\ bound' = [bound EXCEPT ![h] = m]
      /\ UNCHANGED <<plan, state, discovered, list, live, staged, nextId, raced>>
  BY DEF Register, tables
<1>2. CallOk(t) /\ Types /\ m \in Module
  BY <1>1 DEF SymbolInv, Calls, CallOk, Shape
<1>3. op[t].pc = "search" /\ op'[t] = Idle
  BY <1>1, <1>2 DEF CallOk, Adds, List, Types
<1>4. h \in Host /\ f \in EntryType \cup {None}
  BY <1>1, <1>2, DoingIs, Fields DEF CallOk, Asked
<1>5. op' \in [Thread -> OpType] /\ Calls' /\ Owners'
  BY <1>1, <1>3, IdleIsOk, MoveKeeps
<1>6. Types'
  <2>1. reg' \in Seq(RegType)
    <3>1. [host |-> h, fn |-> f] \in RegType
      BY <1>4 DEF RegType
    <3>2. reg \in Seq(RegType)
      BY <1>2 DEF Types, TypeOK, RegType
    <3> QED
      BY <1>1, <3>1, <3>2
  <2>2. bound' \in [Host -> Module \cup {None}]
    BY <1>1, <1>2, <1>4 DEF Types, TypeOK
  <2>3. \A u \in Thread : op'[u] \in OpType
    BY <1>5
  <2>4. TypeOK'
    BY <1>1, <1>2, <2>1, <2>2, <2>3 DEF Types, TypeOK, OpType, RegType
  <2> QED
    BY <1>5, <2>4 DEF Types
<1>7. Complete'
  BY <1>1 DEF SymbolInv, Complete, Named
<1>8. RegistrationCurrent'
  <2> SUFFICES ASSUME NEW k \in Host, bound'[k] # None, Function(k)' # None
               PROVE  Function(k)' \in live' /\ Function(k)'.m = bound'[k]
    BY DEF RegistrationCurrent
  <2>1. CASE k = h
    <3>1. Function(k)' = f /\ bound'[k] = m
      BY <1>1, <1>2, <1>4, <2>1, FunctionAfter DEF Types, TypeOK
    <3> QED
      BY <1>1, <1>2, <3>1 DEF CallOk, Shape
  <2>2. CASE k # h
    <3>1. Function(k)' = Function(k) /\ bound'[k] = bound[k]
      BY <1>1, <1>2, <1>4, <2>2, FunctionAfter DEF Types, TypeOK
    <3> QED
      BY <1>1, <3>1 DEF SymbolInv, RegistrationCurrent
  <2> QED
    BY <2>1, <2>2
<1> QED
  BY <1>5, <1>6, <1>7, <1>8 DEF SymbolInv


\* A call that has yet to do what it had, on a module as it was, is asked for as much.
LEMMA SameRequests ==
  ASSUME NEW t \in Thread, Asked(t), Remaining(t),
         op'[t].m = op[t].m, op'[t].todo = op[t].todo, op'[t].last = op[t].last,
         state' = state, list' = list, raced \subseteq raced', live \subseteq live'
  PROVE  Asked(t)' /\ Remaining(t)'
<1>1. \A i, x, n : Resolved(i, x, n) => Resolved(i, x, n)'
  BY DEF Resolved, IsFunction
<1>2. Asked(t)'
  <2> SUFFICES ASSUME NEW i \in DOMAIN op[t].todo
               PROVE  LET r == op[t].todo[i] IN
                        /\ r.do \in List => r.name \in Name \cup Variable /\ state[op[t].m] = "loaded"
                        /\ r.do = "register" => r.name \in Host /\ i = Len(op[t].todo)
                        /\ r.do = "kernel" /\ r.fn # None => Resolved(r.fn, op[t].m, r.name)'
                        /\ r.do = "kernel" /\ r.fn = None /\ i = 1 =>
                             op[t].last # None /\ op[t].last.in = "function" /\ op[t].last.name = r.name
                        /\ r.do = "kernel" /\ r.fn = None /\ i # 1 =>
                             op[t].todo[i - 1].do = "function" /\ op[t].todo[i - 1].name = r.name
    BY DEF Asked, Resolved, IsFunction
  <2> QED
    BY <1>1 DEF Asked
<1>3. Remaining(t)'
  BY DEF Remaining, Named
<1> QED
  BY <1>2, <1>3

\* What is read of a list is there, and stays there while the call is on the module.
LEMMA ReadHeadKeeps ==
  ASSUME SymbolInv, NEW t \in Thread, ReadHead(t)
  PROVE  SymbolInv'
<1> DEFINE m == op[t].m
           l == Doing(t).do
           o == [op[t] EXCEPT !.pc = "write", !.seen = list[l][m]]
<1>1. /\ op[t].pc = "link" /\ op' = [op EXCEPT ![t] = o]
      /\ UNCHANGED <<plan, state, discovered, list, live, staged, reg, nextId, raced, bound>>
  BY DEF ReadHead, tables, SymbolInv, Types
<1>2. CallOk(t) /\ Types /\ op[t] \in OpType /\ op[t].todo # <<>> /\ l \in List /\ m \in Module
  BY <1>1, Fields DEF SymbolInv, Calls, CallOk, Adds, Shape
<1>3. list[l][m] \in Seq(EntryType)
  BY <1>2, Fields
<1>4. /\ o \in OpType /\ o.pc = "write" /\ o.seen = list[l][m] /\ o.todo = op[t].todo
      /\ o.m = m /\ o.new = op[t].new /\ o.last = op[t].last
  BY <1>2, <1>3 DEF OpType
<1>5. op'[t] = o /\ \A u \in Thread \ {t} : op'[u] = op[u]
  BY <1>1, <1>2 DEF Types
<1> HIDE DEF o
<1>6. Doing(t)' = Doing(t) /\ \A u \in Thread : op'[u].new = op[u].new /\ op'[u].m = op[u].m
  BY <1>4, <1>5 DEF Doing
<1>7. Types'
  <2>1. op' \in [Thread -> OpType]
    BY <1>1, <1>2, <1>4 DEF Types
  <2>2. \A u \in Thread : op'[u] \in OpType
    BY <2>1
  <2>3. TypeOK'
    BY <1>1, <2>2 DEF SymbolInv, Types, TypeOK, OpType
  <2> QED
    BY <2>1, <2>3 DEF Types
<1>8. CallOk(t)'
  <2>1. Shape(t)' /\ Asked(t)' /\ Remaining(t)'
    <3>0. /\ op'[t].m = op[t].m /\ op'[t].todo = op[t].todo /\ op'[t].last = op[t].last
          /\ op[t].todo # <<>> /\ op'[t].pc = "write"
      BY <1>2, <1>4, <1>5
    <3>1. Shape(t)'
      BY <1>1, <1>2, <3>0 DEF CallOk, Shape
    <3> QED
      BY <1>1, <1>2, <3>0, <3>1, SameRequests DEF CallOk
  <2>2. \A e \in Entries(list[l][m]) : Sound(e) /\ e.in = l /\ e.m = m
    BY <1>2 DEF SymbolInv, Owners, Lists
  <2>3. Adds(t)'
    <3>1. Sound(op[t].new) /\ op[t].new.in = l /\ op[t].new.m = m /\ op[t].new # None
          /\ op[t].new.name = Doing(t).name
      BY <1>1, <1>2 DEF CallOk, Adds
    <3>2. \A e : Sound(e) => Sound(e)'
      BY <1>1 DEF Sound, Resolved, IsFunction
    <3>3. Sound(op[t].new)'
      <4>1. \A e : e = op[t].new => Sound(e)'
        BY <3>1, <3>2
      <4> QED
        BY <1>4, <1>5, <4>1 DEF Sound
    <3>4. \A e \in Entries(list[l][m]) : Sound(e)' /\ e.in = l /\ e.m = m
      BY <2>2, <3>2
    <3>5. op'[t].seen = list[l][m] /\ op'[t].new = op[t].new /\ op'[t].todo = op[t].todo /\ op'[t].m = m
      BY <1>4, <1>5
    <3>6. \A e \in Entries(op[t].seen)' : Sound(e)' /\ e.in = l /\ e.m = m
      BY <3>4, <3>5 DEF Entries
    <3> QED
      BY <1>2, <1>6, <3>1, <3>3, <3>5, <3>6 DEF Adds
  <2> QED
    BY <2>1, <2>3 DEF CallOk
<1>9. Calls'
  BY <1>1, <1>2, <1>8, OthersKeep DEF SymbolInv, Calls
<1>10. Owners'
  <2>1. Lists' /\ Empty' /\ Fresh' /\ OneHandle' /\ StagedLive'
    BY <1>1 DEF SymbolInv, Owners, Lists, Sound, Resolved, IsFunction, Empty, Fresh, OneHandle, StagedLive
  <2>2. \A u \in Thread : \A x, k : Into(u, x, k)' => Into(u, x, k)
    BY <1>1, <1>4, <1>5 DEF Into, Doing
  <2>3. Sole'
    BY <1>1, <2>2 DEF SymbolInv, Owners, Sole
  <2>4. Current'
    BY <1>1, <1>4, <1>5, <1>6 DEF SymbolInv, Owners, Current, Doing
  <2>5. NothingLost'
    BY <1>1, <1>6 DEF SymbolInv, Owners, NothingLost, Listed, InFlight
  <2> QED
    BY <2>1, <2>3, <2>4, <2>5 DEF Owners
<1>11. Complete' /\ RegistrationCurrent'
  <2>1. \A h \in Host : Function(h)' = Function(h)
    BY <1>1 DEF Function
  <2> QED
    BY <1>1, <2>1 DEF SymbolInv, Complete, Named, RegistrationCurrent
<1> QED
  BY <1>7, <1>9, <1>10, <1>11 DEF SymbolInv

\* Writing the head drops nothing unless the module was raced for.
LEMMA WriteHeadKeeps ==
  ASSUME SymbolInv, NEW t \in Thread, WriteHead(t)
  PROVE  SymbolInv'
<1> DEFINE m == op[t].m
           l == Doing(t).do
           new == op[t].new
           seen == op[t].seen
<1>1. /\ op[t].pc = "write" /\ op' = [op EXCEPT ![t] = Rest(t, new)]
      /\ list' = [list EXCEPT ![l][m] = <<new>> \o seen]
      /\ UNCHANGED <<plan, state, discovered, live, staged, reg, nextId, raced, bound>>
  BY DEF WriteHead
<1>2. CallOk(t) /\ Types /\ op[t].todo # <<>> /\ l \in List /\ m \in Module
  BY <1>1 DEF SymbolInv, Calls, CallOk, Adds, Shape
<1>3. /\ new \in EntryType /\ seen \in Seq(EntryType) /\ new # None
      /\ Sound(new) /\ new.in = l /\ new.m = m /\ new.name = Doing(t).name
      /\ \A e \in Entries(seen) : Sound(e) /\ e.in = l /\ e.m = m
  BY <1>1, <1>2, Fields DEF CallOk, Adds
<1>4. /\ list' \in [List -> [Module -> Seq(EntryType)]]
      /\ list'[l][m] = <<new>> \o seen
      /\ \A k \in List, x \in Module : k # l \/ x # m => list'[k][x] = list[k][x]
  BY <1>1, <1>2, <1>3 DEF Types, TypeOK
<1>5. Entries(list'[l][m]) = {new} \cup Entries(seen)
  <2>1. /\ seen \in Seq(EntryType) /\ Len(seen) \in Nat /\ DOMAIN seen = 1..Len(seen)
        /\ DOMAIN (<<new>> \o seen) = 1..(Len(seen) + 1)
        /\ (<<new>> \o seen)[1] = new /\ \A i \in 1..Len(seen) : (<<new>> \o seen)[i + 1] = seen[i]
    BY <1>3
  <2>2. \A i \in 1..(Len(seen) + 1) : i = 1 \/ (i - 1 \in 1..Len(seen) /\ (i - 1) + 1 = i)
    BY <2>1
  <2>3. \A i \in 1..Len(seen) : i + 1 \in 1..(Len(seen) + 1)
    BY <2>1
  <2>4. 1 \in 1..(Len(seen) + 1)
    BY <2>1
  <2> DEFINE s == <<new>> \o seen
  <2>5. list'[l][m] = s
    BY <1>4
  <2>6. \A i \in DOMAIN s : s[i] = new \/ \E j \in DOMAIN seen : s[i] = seen[j]
    BY <2>1, <2>2
  <2>7. \A j \in DOMAIN seen : \E i \in DOMAIN s : s[i] = seen[j]
    BY <2>1, <2>3
  <2>8. \E i \in DOMAIN s : s[i] = new
    BY <2>1, <2>4
  <2> HIDE DEF s
  <2> QED
    BY <2>5, <2>6, <2>7, <2>8 DEF Entries
<1>6. Rest(t, new) \in OpType /\ Rest(t, new).pc = "search"
  BY <1>2, <1>3, RestIs
<1>7. op'[t] = Rest(t, new) /\ \A u \in Thread \ {t} : op'[u] = op[u]
  BY <1>1, <1>2 DEF Types
<1>8. m \notin raced => seen = list[l][m]
  BY <1>1 DEF SymbolInv, Owners, Current
<1>9. \A x \in Module, k \in List : x \notin raced => Entries(list[k][x]) \subseteq Entries(list'[k][x])
  BY <1>2, <1>4, <1>5, <1>8
<1>10. Types'
  <2>1. op' \in [Thread -> OpType]
    BY <1>1, <1>2, <1>6 DEF Types
  <2>2. \A u \in Thread : op'[u] \in OpType
    BY <2>1
  <2>3. TypeOK'
    BY <1>1, <1>2, <1>4, <2>2 DEF Types, TypeOK, OpType
  <2> QED
    BY <2>1, <2>3 DEF Types
<1>11. \A x \in Module : \A n : x \notin raced /\ Named(list["function"][x], n)
                                  => Named(list'["function"][x], n)
  BY <1>9 DEF Named, Entries, List
<1>12. CallOk(t)'
  <2>1. l = "function" => Named(list'["function"][m], Doing(t).name)
    <3>1. PICK i \in DOMAIN list'[l][m] : list'[l][m][i] = new
      BY <1>5 DEF Entries
    <3> QED
      BY <1>3, <3>1 DEF Named
  <2>2. new \in live
    BY <1>3 DEF Sound
  <2> QED
    BY <1>1, <1>2, <1>3, <1>11, <2>1, <2>2, CallAdvances
<1>13. ASSUME NEW u \in Thread \ {t} PROVE CallOk(u)'
  BY <1>1, <1>2, <1>7, <1>11, CallKeeps DEF SymbolInv, Calls
<1>14. Lists'
  <2>1. \A e : Sound(e) => Sound(e)'
    BY <1>1 DEF Sound, Resolved, IsFunction
  <2> SUFFICES ASSUME NEW k \in List, NEW x \in Module, NEW e \in Entries(list'[k][x])
               PROVE  Sound(e)' /\ e.in = k /\ e.m = x
    BY DEF Lists, Entries, Sound
  <2>2. CASE k = l /\ x = m
    BY <1>3, <1>5, <2>1, <2>2
  <2>3. CASE k # l \/ x # m
    <3>1. e \in Entries(list[k][x])
      BY <1>4, <2>3
    <3> QED
      BY <2>1, <3>1 DEF SymbolInv, Owners, Lists
  <2> QED
    BY <2>2, <2>3
<1>15. Empty'
  <2>1. state[m] = "loaded"
    BY <1>2, DoingIs DEF CallOk, Asked
  <2> QED
    BY <1>1, <1>4, <2>1 DEF SymbolInv, Owners, Empty
<1>16. \A u \in Thread : \A x, k : Into(u, x, k)' => u # t /\ Into(u, x, k)
  BY <1>6, <1>7 DEF Into, Doing
<1>17. Sole'
  BY <1>1, <1>16 DEF SymbolInv, Owners, Sole
<1>18. Current'
  <2> SUFFICES ASSUME NEW u \in Thread, op'[u].pc = "write", op'[u].m \notin raced
               PROVE  op'[u].seen = list'[Doing(u).do][op'[u].m]
    BY <1>1, <1>6, <1>7 DEF Current, Doing
  <2>1. u # t /\ op'[u] = op[u]
    BY <1>6, <1>7
  <2>2. op[u].m \in Module /\ Doing(u).do \in List
    BY <2>1 DEF SymbolInv, Calls, CallOk, Adds, Shape
  <2>3. Doing(u).do # l \/ op[u].m # m
    <3>1. Doing(u).do = l /\ op[u].m = m => Into(u, m, l) /\ Into(t, m, l)
      BY <1>1, <2>1 DEF Into
    <3> QED
      BY <1>2, <2>1, <3>1 DEF SymbolInv, Owners, Sole
  <2>4. op[u].seen = list[Doing(u).do][op[u].m]
    BY <2>1 DEF SymbolInv, Owners, Current
  <2> QED
    BY <1>4, <2>1, <2>2, <2>3, <2>4
<1>19. Fresh' /\ OneHandle' /\ StagedLive'
  BY <1>1 DEF SymbolInv, Owners, Fresh, OneHandle, StagedLive
<1>20. NothingLost'
  <2> SUFFICES ASSUME NEW e \in live, e.m \notin raced, ~(e.in = "kernel" /\ state[e.m] = "failed")
               PROVE  (\E k \in List : e \in Entries(list'[k][e.m])) \/ \E u \in Thread : op'[u].new = e
    BY <1>1 DEF NothingLost, Listed, InFlight, Entries
  <2>1. e.m \in Module
    BY <1>2, Fields DEF EntryType
  <2>2. CASE e \in Listed(e.m)
    BY <1>9, <2>1, <2>2 DEF Listed
  <2>3. CASE InFlight(e)
    <3>1. PICK u \in Thread : op[u].new = e
      BY <2>3 DEF InFlight
    <3>2. CASE u = t
      BY <1>2, <1>3, <1>5, <3>1, <3>2
    <3>3. CASE u # t
      BY <1>7, <3>1, <3>3
    <3> QED
      BY <3>2, <3>3
  <2> QED
    BY <2>2, <2>3 DEF SymbolInv, Owners, NothingLost
<1>21. Complete'
  BY <1>1, <1>11 DEF SymbolInv, Complete
<1>22. RegistrationCurrent'
  <2>1. \A h \in Host : Function(h)' = Function(h)
    BY <1>1 DEF Function
  <2> QED
    BY <1>1, <2>1 DEF SymbolInv, RegistrationCurrent
<1> QED
  BY <1>10, <1>12, <1>13, <1>14, <1>15, <1>17, <1>18, <1>19, <1>20, <1>21, <1>22
  DEF SymbolInv, Calls, Owners


\* A new entry is of a symbol nobody has, unless another thread is adding to the list.
LEMMA CreateKeeps ==
  ASSUME SymbolInv, NEW t \in Thread, Create(t)
  PROVE  SymbolInv'
<1>0. PICK m, r, fn, e, o :
        /\ m = op[t].m /\ r = Doing(t)
        /\ fn = (IF r.do # "kernel" THEN None ELSE IF r.fn # None THEN r.fn ELSE op[t].last.id)
        /\ e = Entry(r.do, nextId, m, r.name, fn)
        /\ o = [op[t] EXCEPT !.pc = "link", !.new = e]
  OBVIOUS
<1> DEFINE l == r.do
<1>1. /\ op[t].todo # <<>> /\ op[t].pc = "search" /\ l \in List
      /\ First(list[l][m], r.name) = None
      /\ live' = live \cup {e} /\ op' = [op EXCEPT ![t] = o]
      /\ raced' = (IF Adding(m, l) THEN raced \cup {m} ELSE raced) /\ nextId' = nextId + 1
      /\ UNCHANGED <<plan, state, discovered, list, staged, reg, bound>>
  BY <1>0 DEF Create, Searching, SymbolInv, Types
<1>2. CallOk(t) /\ Types /\ m \in Module /\ op[t] \in OpType /\ r \in Requests
  BY <1>0, <1>1, Fields, DoingIs DEF SymbolInv, Calls, CallOk, Shape
<1>3. /\ r.name \in Name \cup Variable /\ state[m] = "loaded"
      /\ l = "kernel" => fn \in Nat /\ Resolved(fn, m, r.name)
  <2>1. /\ r.name \in Name \cup Variable /\ state[m] = "loaded"
        /\ l = "kernel" /\ r.fn # None => Resolved(r.fn, m, r.name)
        /\ l = "kernel" /\ r.fn = None =>
             op[t].last # None /\ op[t].last.in = "function" /\ op[t].last.name = r.name
    BY <1>0, <1>1, <1>2, DoingIs DEF CallOk, Asked
  <2>2. CASE l = "kernel" /\ r.fn # None
    BY <1>0, <1>2, <2>1, <2>2 DEF Requests
  <2>3. CASE l = "kernel" /\ r.fn = None
    <3>1. op[t].last \in live /\ op[t].last.m = m
      BY <1>0, <1>2, <2>1, <2>3 DEF CallOk, Shape
    <3>2. op[t].last.id \in Nat
      BY <1>2, <3>1, Fields DEF EntryType
    <3>3. IsFunction(op[t].last, fn, m, r.name)
      BY <1>0, <2>1, <2>3, <3>1 DEF IsFunction
    <3> QED
      BY <1>0, <2>1, <2>3, <3>1, <3>2, <3>3 DEF Resolved
  <2> QED
    BY <2>1, <2>2, <2>3
<1>4. /\ e.in = l /\ e.m = m /\ e.name = r.name /\ e.fn = fn /\ e \in EntryType /\ e # None
  <2>1. fn \in Nat \cup {None}
    BY <1>0, <1>3
  <2>2. nextId \in Nat
    BY <1>2 DEF Types, TypeOK
  <2>3. e \in EntryType
    BY <1>0, <1>1, <1>2, <1>3, <2>1, <2>2 DEF Entry, EntryType
  <2> QED
    BY <1>0, <2>3, NoneIsApart DEF Entry
<1>5. /\ o \in OpType /\ o.pc = "link" /\ o.new = e /\ o.todo = op[t].todo /\ o.m = m
      /\ o.last = op[t].last
  BY <1>0, <1>2, <1>4, ZenonT(60) DEF OpType
<1>6. op'[t] = o /\ \A u \in Thread \ {t} : op'[u] = op[u]
  BY <1>1, <1>2 DEF Types
<1>7. Doing(t)' = r /\ live \subseteq live' /\ raced \subseteq raced' /\ raced' \subseteq raced \cup {m}
  BY <1>0, <1>1, <1>5, <1>6 DEF Doing
<1>8. Types'
  <2>1. op' \in [Thread -> OpType]
    BY <1>1, <1>2, <1>5 DEF Types
  <2>2. \A u \in Thread : op'[u] \in OpType
    BY <2>1
  <2>3. live' \subseteq EntryType /\ nextId' \in Nat /\ raced' \subseteq Module
    BY <1>1, <1>2, <1>4, <1>7 DEF Types, TypeOK
  <2>4. TypeOK'
    BY <1>1, <1>2, <2>2, <2>3 DEF Types, TypeOK, OpType
  <2> QED
    BY <2>1, <2>4 DEF Types
<1>9. \A i, x, n : Resolved(i, x, n) => Resolved(i, x, n)'
  BY <1>7 DEF Resolved, IsFunction
<1>10. \A x : Sound(x) => Sound(x)'
  BY <1>7, <1>9 DEF Sound
<1>11. CallOk(t)'
  <2>1. Shape(t)'
    BY <1>0, <1>1, <1>2, <1>5, <1>6, <1>7 DEF CallOk, Shape
  <2>2. op'[t].m = op[t].m /\ op'[t].todo = op[t].todo /\ op'[t].last = op[t].last
    BY <1>0, <1>5, <1>6
  <2>3. Asked(t)' /\ Remaining(t)'
    BY <1>1, <1>2, <1>7, <2>2, SameRequests DEF CallOk
  <2>4. Adds(t)'
    <3>1. Sound(e)'
      BY <1>0, <1>1, <1>3, <1>4, <1>9 DEF Sound
    <3> QED
      BY <1>1, <1>4, <1>5, <1>6, <1>7, <3>1 DEF Adds
  <2> QED
    BY <2>1, <2>3, <2>4 DEF CallOk

<1>12. ASSUME NEW u \in Thread \ {t} PROVE CallOk(u)'
  BY <1>1, <1>2, <1>6, <1>7, CallKeeps DEF SymbolInv, Calls
<1>13. Lists' /\ Empty' /\ StagedLive'
  BY <1>1, <1>7, <1>10 DEF SymbolInv, Owners, Lists, Sound, Empty, StagedLive
<1>14. Fresh'
  BY <1>1, <1>3, <1>4 DEF SymbolInv, Owners, Fresh
<1>15. \A u \in Thread : \A x, k : Into(u, x, k)' => (u = t /\ x = m /\ k = l) \/ (u # t /\ Into(u, x, k))
  BY <1>5, <1>6, <1>7 DEF Into, Doing
<1>16. m \notin raced' => ~Adding(m, l) /\ \A u \in Thread : ~Into(u, m, l)
  BY <1>1 DEF Into, Adding
<1>17. Sole'
  BY <1>7, <1>15, <1>16 DEF SymbolInv, Owners, Sole
<1>18. Current'
  <2> SUFFICES ASSUME NEW u \in Thread, op'[u].pc = "write", op'[u].m \notin raced'
               PROVE  op'[u].seen = list'[Doing(u)'.do][op'[u].m]
    BY DEF Current, Doing
  <2>1. u # t /\ op'[u] = op[u] /\ Doing(u)' = Doing(u)
    BY <1>5, <1>6 DEF Doing
  <2> QED
    BY <1>1, <1>7, <2>1 DEF SymbolInv, Owners, Current
<1>19. \A x \in live : InFlight(x) => InFlight(x)'
  <2> SUFFICES ASSUME NEW x \in live, NEW u \in Thread, op[u].new = x PROVE op'[u].new = x
    BY DEF InFlight
  <2>1. op[t].new = None /\ x # None
    BY <1>1, <1>2, Fields, NoneIsApart DEF CallOk, Shape
  <2> QED
    BY <1>6, <2>1
<1>20. InFlight(e)'
  BY <1>5, <1>6 DEF InFlight
<1>21. NothingLost'
  BY <1>1, <1>7, <1>19, <1>20 DEF SymbolInv, Owners, NothingLost, Listed
<1>22. ASSUME m \notin raced', NEW x \in live, SameSymbol(x, e) PROVE FALSE
  <2>1. x.in = l /\ x.m = m /\ x.name = r.name /\ m \notin raced
    BY <1>4, <1>7, <1>22 DEF SameSymbol
  <2>2. CASE x \in Listed(m)
    <3>1. PICK k \in List : x \in Entries(list[k][m])
      BY <2>2 DEF Listed
    <3>2. k = l
      BY <1>2, <2>1, <3>1 DEF SymbolInv, Owners, Lists
    <3>3. Named(list[l][m], r.name)
      BY <2>1, <3>1, <3>2 DEF Named, Entries
    <3>4. list[l][m] \in Seq(EntryType)
      BY <1>1, <1>2, Fields
    <3> QED
      BY <1>1, <3>3, <3>4, FirstFinds
  <2>3. CASE InFlight(x)
    <3>1. PICK u \in Thread : op[u].new = x
      BY <2>3 DEF InFlight
    <3>2. op[u].new # None
      BY <1>2, <3>1, Fields, NoneIsApart
    <3>3. op[u].pc # "search" /\ Doing(u).do = l /\ op[u].m = m
      BY <2>1, <3>1, <3>2 DEF SymbolInv, Calls, CallOk, Shape, Adds
    <3> QED
      BY <1>16, <1>22, <3>3 DEF Into
  <2> QED
    BY <1>3, <2>1, <2>2, <2>3 DEF SymbolInv, Owners, NothingLost
<1>23. OneHandle'
  <2> SUFFICES ASSUME NEW x \in live', NEW y \in live', SameSymbol(x, y), x.m \notin raced'
               PROVE  x = y
    BY DEF OneHandle, SameSymbol
  <2>1. CASE x \in live /\ y \in live
    BY <1>7, <2>1 DEF SymbolInv, Owners, OneHandle
  <2>2. CASE x = e /\ y \in live
    <3>1. SameSymbol(y, e) /\ m \notin raced'
      BY <1>4, <2>2 DEF SameSymbol
    <3> QED
      BY <1>22, <2>2, <3>1
  <2>3. CASE y = e /\ x \in live
    <3>1. SameSymbol(x, e) /\ m \notin raced'
      BY <1>4, <2>3 DEF SameSymbol
    <3> QED
      BY <1>22, <2>3, <3>1
  <2> QED
    BY <1>1, <2>1, <2>2, <2>3
<1>24. Complete'
  BY <1>1, <1>7 DEF SymbolInv, Complete, Named
<1>25. RegistrationCurrent'
  <2>1. \A h \in Host : Function(h)' = Function(h)
    BY <1>1 DEF Function
  <2> QED
    BY <1>1, <1>7, <2>1 DEF SymbolInv, RegistrationCurrent
<1> QED
  BY <1>8, <1>11, <1>12, <1>13, <1>14, <1>17, <1>18, <1>21, <1>23, <1>24, <1>25
  DEF SymbolInv, Calls, Owners


-----------------------------------------------------------------------------
(***************************************************************************)
(* Launching, loading and unloading.                                       *)
(***************************************************************************)
LEMMA LaunchKeeps ==
  ASSUME SymbolInv, LaunchHandle \/ \E h \in Host : LaunchHost(h)
  PROVE  SymbolInv'
<1>1. PICK f \in live : Launch(f)
  <2>1. CASE LaunchHandle
    BY <2>1 DEF LaunchHandle, Handles
  <2>2. CASE \E h \in Host : LaunchHost(h)
    BY <2>2 DEF LaunchHost, SymbolInv, RegistrationCurrent
  <2> QED
    BY <2>1, <2>2
<1>2. /\ staged' = staged \cup {f}
      /\ UNCHANGED <<plan, state, discovered, list, live, reg, op, nextId, raced, bound>>
  BY <1>1 DEF Launch
<1>3. Types'
  BY <1>2 DEF SymbolInv, Types, TypeOK
<1>4. ASSUME NEW t \in Thread PROVE CallOk(t)'
  BY <1>2, CallKeeps DEF SymbolInv, Calls
<1>5. Owners'
  BY <1>2 DEF SymbolInv, Owners, Lists, Sound, Resolved, IsFunction, Empty, Fresh, Sole, Into, Doing,
              Current, OneHandle, NothingLost, Listed, InFlight, StagedLive
<1>6. Complete' /\ RegistrationCurrent'
  <2>1. \A h \in Host : Function(h)' = Function(h)
    BY <1>2 DEF Function
  <2> QED
    BY <1>2, <2>1 DEF SymbolInv, Complete, Named, RegistrationCurrent
<1> QED
  BY <1>3, <1>4, <1>5, <1>6 DEF SymbolInv, Calls

\* Nothing is about a module that was never loaded.
LEMMA Untouched ==
  ASSUME SymbolInv, NEW m \in Module, state[m] = "none"
  PROVE  /\ \A e \in live : e.m # m
         /\ \A t \in Thread : op[t].m # m
         /\ \A l \in List : list[l][m] = <<>>
<1>1. \A t \in Thread : op[t].todo = <<>> => op[t].m = None
  BY DEF SymbolInv, Calls, CallOk, Shape, Idle, Call
<1> QED
  BY <1>1, NoneIsApart DEF SymbolInv, Calls, CallOk, Shape, Owners, Fresh, Empty

\* A load adds entries of its module only, each symbol once.
Loads(m, outcome, New) ==
  /\ state[m] = "none" /\ state' = [state EXCEPT ![m] = outcome]
  /\ live' = live \cup New /\ \A e \in New : e \in EntryType /\ e.m = m
  /\ \A x, y \in New : SameSymbol(x, y) => x = y
  /\ list' \in [List -> [Module -> Seq(EntryType)]]
  /\ \A l \in List, x \in Module : x # m => list'[l][x] = list[l][x]
  /\ \A l \in List : \A e \in Entries(list'[l][m]) :
       /\ e \in New /\ e.in = l
       /\ e.in = "kernel" => \E f \in New : IsFunction(f, e.fn, e.m, e.name)
  /\ outcome # "loaded" => \A l \in List : list'[l][m] = <<>>
  /\ \A e \in New : (\E l \in List : e \in Entries(list'[l][m]))
                    \/ (e.in = "kernel" /\ outcome = "failed")
  /\ discovered' \in [Module -> BOOLEAN]
  /\ \A x \in Module : x # m => discovered'[x] = discovered[x]
  /\ discovered'[m] /\ outcome = "loaded" =>
       \A i \in DOMAIN Kernels[m] : Named(list'["function"][m], Kernels[m][i])
  /\ nextId' \in Nat /\ UNCHANGED <<plan, staged, reg, op, raced, bound>>

\* A load keeps the invariant.
LEMMA LoadKeeps ==
  ASSUME SymbolInv, NEW m \in Module, NEW outcome \in {"loaded", "null", "failed"},
         NEW New, Loads(m, outcome, New)
  PROVE  SymbolInv'
<1> USE DEF Loads
<1>1. /\ \A e \in live : e.m # m
      /\ \A t \in Thread : op[t].m # m
      /\ \A l \in List : list[l][m] = <<>>
  BY Untouched
<1>2. state'[m] = outcome /\ \A x \in Module : x # m => state'[x] = state[x]
  BY DEF SymbolInv, Types, TypeOK
<1>3. Types'
  <2>1. state' \in [Module -> {"none", "loaded", "null", "failed", "unloaded"}]
    BY DEF SymbolInv, Types, TypeOK
  <2>2. live' \subseteq EntryType
    BY DEF SymbolInv, Types, TypeOK
  <2> QED
    BY <2>1, <2>2 DEF SymbolInv, Types, TypeOK
<1>4. ASSUME NEW t \in Thread PROVE CallOk(t)'
  <2>1. CallOk(t) /\ Types /\ op[t].m # m
    BY <1>1 DEF SymbolInv, Calls
  <2>2. op[t].m \in Module => state'[op[t].m] = state[op[t].m]
                              /\ list'["function"][op[t].m] = list["function"][op[t].m]
    BY <1>2, <2>1 DEF List
  <2> QED
    BY <2>1, <2>2, CallKeeps
<1>5. \A e : Sound(e) => Sound(e)'
  BY DEF Sound, Resolved, IsFunction
<1>6. Lists'
  <2> SUFFICES ASSUME NEW l \in List, NEW x \in Module, NEW e \in Entries(list'[l][x])
               PROVE  Sound(e)' /\ e.in = l /\ e.m = x
    BY DEF Lists, Entries, Sound
  <2>1. CASE x = m
    <3>1. e \in New /\ e.in = l /\ e.m = m
      BY <2>1
    <3>2. e.in = "kernel" => \E f \in live' : IsFunction(f, e.fn, e.m, e.name)
      BY <2>1
    <3> QED
      BY <2>1, <3>1, <3>2 DEF Sound, Resolved, IsFunction
  <2>2. CASE x # m
    <3>1. e \in Entries(list[l][x])
      BY <2>2
    <3> QED
      BY <1>5, <3>1 DEF SymbolInv, Owners, Lists
  <2> QED
    BY <2>1, <2>2
<1>7. Empty' /\ Fresh' /\ StagedLive'
  <2>1. \A e \in live : e.m \in Module
    BY Fields DEF SymbolInv, EntryType
  <2>2. Fresh'
    <3> SUFFICES ASSUME NEW e \in live' PROVE state'[e.m] # "none"
      BY DEF Fresh
    <3> QED
      BY <1>2, <2>1 DEF SymbolInv, Owners, Fresh
  <2>3. Empty'
    <3> SUFFICES ASSUME NEW x \in Module, state'[x] # "loaded", NEW l \in List PROVE list'[l][x] = <<>>
      BY DEF Empty
    <3> QED
      BY <1>2 DEF SymbolInv, Owners, Empty
  <2> QED
    BY <2>2, <2>3 DEF SymbolInv, Owners, StagedLive
<1>8. Sole'
  BY DEF SymbolInv, Owners, Sole, Into, Doing
<1>9. Current'
  <2> SUFFICES ASSUME NEW t \in Thread, op[t].pc = "write", op[t].m \notin raced
               PROVE  op[t].seen = list'[Doing(t).do][op[t].m]
    BY DEF Current, Doing
  <2>1. op[t].m \in Module /\ op[t].m # m /\ Doing(t).do \in List
    BY <1>1 DEF SymbolInv, Calls, CallOk, Shape, Adds
  <2>2. list'[Doing(t).do][op[t].m] = list[Doing(t).do][op[t].m]
    BY <2>1
  <2> QED
    BY <2>2 DEF SymbolInv, Owners, Current
<1>10. OneHandle'
  BY <1>1 DEF SymbolInv, Owners, OneHandle, SameSymbol
<1>11. NothingLost'
  <2> SUFFICES ASSUME NEW e \in live'
               PROVE  \/ \E l \in List : e \in Entries(list'[l][e.m])
                      \/ InFlight(e) \/ e.m \in raced
                      \/ (e.in = "kernel" /\ state'[e.m] = "failed")
    <3>1. \A e : InFlight(e) => InFlight(e)'
      BY DEF InFlight
    <3>2. \A e : (\E l \in List : e \in Entries(list'[l][e.m])) => e \in Listed(e.m)'
      BY DEF Listed, Entries
    <3> HIDE DEF Loads
    <3>3. raced' = raced
      BY DEF Loads
    <3> QED
      BY <3>1, <3>2, <3>3 DEF NothingLost
  <2>1. CASE e \in New
    BY <1>2, <2>1
  <2>2. CASE e \in live
    <3>1. e.m # m /\ e.m \in Module
      BY <1>1, <2>2, Fields DEF SymbolInv, EntryType
    <3>2. state'[e.m] = state[e.m] /\ \A l \in List : list'[l][e.m] = list[l][e.m]
      BY <1>2, <3>1
    <3>3. \/ \E l \in List : e \in Entries(list[l][e.m])
          \/ InFlight(e) \/ e.m \in raced
          \/ (e.in = "kernel" /\ state[e.m] = "failed")
      BY <2>2 DEF SymbolInv, Owners, NothingLost, Listed
    <3> QED
      BY <3>2, <3>3
  <2> QED
    BY <2>1, <2>2
<1>12. Complete'
  <2> SUFFICES ASSUME NEW x \in Module, state'[x] = "loaded", discovered'[x], x \notin raced,
                      NEW i \in DOMAIN Kernels[x]
               PROVE  Named(list'["function"][x], Kernels[x][i])
    BY DEF Complete, Named
  <2>1. CASE x = m
    BY <1>2, <2>1
  <2>2. CASE x # m
    <3>1. list'["function"][x] = list["function"][x] /\ state[x] = "loaded" /\ discovered[x]
      BY <1>2, <2>2 DEF List
    <3> QED
      BY <3>1 DEF SymbolInv, Complete
  <2> QED
    BY <2>1, <2>2
<1>13. RegistrationCurrent'
  <2>1. \A h \in Host : Function(h)' = Function(h)
    BY DEF Function
  <2> QED
    BY <2>1 DEF SymbolInv, RegistrationCurrent
<1> QED
  BY <1>3, <1>4, <1>6, <1>7, <1>8, <1>9, <1>10, <1>11, <1>12, <1>13 DEF SymbolInv, Calls, Owners


\* What a discovery makes: a function for each of the first k kernels, each once.
LEMMA DiscoveryIs ==
  ASSUME Types, NEW m \in Module, NEW k \in 0..Len(Kernels[m])
  PROVE  /\ Discovery(m, k) \in Seq(EntryType) /\ DOMAIN Discovery(m, k) = 1..k
         /\ \A i \in 1..k : LET e == Discovery(m, k)[i] IN
              /\ k + 1 - i \in DOMAIN Kernels[m]
              /\ e.in = "function" /\ e.m = m /\ e.name = Kernels[m][k + 1 - i]
              /\ e.id = nextId + k - i
         /\ \A e \in Entries(Discovery(m, k)) : e \in EntryType /\ e.in = "function" /\ e.m = m
         /\ \A x, y \in Entries(Discovery(m, k)) : SameSymbol(x, y) => x = y
         /\ k = Len(Kernels[m]) =>
              \A j \in DOMAIN Kernels[m] : Named(Discovery(m, k), Kernels[m][j])
<1> DEFINE K == Kernels[m]
           d == Discovery(m, k)
<1>1. K \in Seq(Name) /\ Len(K) \in Nat /\ DOMAIN K = 1..Len(K) /\ \A i \in DOMAIN K : K[i] \in Name
  BY KernelsAssumption
<1>2. nextId \in Nat
  BY DEF Types, TypeOK
<1>3. DOMAIN d = 1..k /\ \A i \in 1..k : d[i] = Entry("function", nextId + k - i, m, K[k + 1 - i], None)
  BY DEF Discovery
<1>4. \A i \in 1..k : k + 1 - i \in DOMAIN K
  BY <1>1
<1>5. \A i \in 1..k : /\ d[i] \in EntryType /\ d[i].in = "function" /\ d[i].m = m
                      /\ d[i].name = K[k + 1 - i] /\ d[i].id = nextId + k - i
  <2> SUFFICES ASSUME NEW i \in 1..k
               PROVE  /\ d[i] \in EntryType /\ d[i].in = "function" /\ d[i].m = m
                      /\ d[i].name = K[k + 1 - i] /\ d[i].id = nextId + k - i
    OBVIOUS
  <2>1. K[k + 1 - i] \in Name
    BY <1>1, <1>4
  <2>2. nextId + k - i \in Nat
    BY <1>1, <1>2
  <2> HIDE DEF K
  <2> QED
    BY <1>3, <2>1, <2>2 DEF Entry, EntryType, List
<1>6. d \in Seq(EntryType)
  <2>1. d = [i \in 1..k |-> d[i]] /\ k \in Nat
    BY <1>1, <1>3 DEF Discovery
  <2> HIDE DEF d
  <2> QED
    BY <1>5, <2>1
<1> HIDE DEF d
<1>7. \A x, y \in Entries(d) : SameSymbol(x, y) => x = y
  <2> SUFFICES ASSUME NEW i \in 1..k, NEW j \in 1..k, d[i].name = d[j].name PROVE d[i] = d[j]
    BY <1>3 DEF Entries, SameSymbol
  <2>1. K[k + 1 - i] = K[k + 1 - j]
    BY <1>5
  <2>2. k + 1 - i = k + 1 - j
    BY <1>4, <2>1, KernelsAssumption
  <2>3. i = j
    BY <1>1, <2>2
  <2> QED
    BY <2>3
<1>8. ASSUME k = Len(K), NEW j \in DOMAIN K PROVE Named(d, K[j])
  <2>1. k + 1 - j \in 1..k /\ k + 1 - (k + 1 - j) = j
    BY <1>1, <1>8
  <2>2. d[k + 1 - j].name = K[k + 1 - (k + 1 - j)]
    BY <1>5, <2>1
  <2> QED
    BY <1>3, <2>1, <2>2 DEF Named
<1>9. \A e \in Entries(d) : e \in EntryType /\ e.in = "function" /\ e.m = m
  BY <1>3, <1>5 DEF Entries
<1> QED
  BY <1>3, <1>4, <1>5, <1>6, <1>7, <1>8, <1>9 DEF d

\* What a population makes: a kernel for each, with the identity of its function.
LEMMA PopulationIs ==
  ASSUME Types, NEW m \in Module, NEW k \in 0..Len(Kernels[m])
  PROVE  /\ Population(m, k) \in Seq(EntryType) /\ DOMAIN Population(m, k) = 1..k
         /\ \A i \in 1..k : LET e == Population(m, k)[i] IN
              /\ i \in DOMAIN Kernels[m]
              /\ e.in = "kernel" /\ e.m = m /\ e.name = Kernels[m][i] /\ e.fn = nextId + i - 1
         /\ \A e \in Entries(Population(m, k)) : e \in EntryType /\ e.in = "kernel" /\ e.m = m
         /\ \A x, y \in Entries(Population(m, k)) : SameSymbol(x, y) => x = y
<1> DEFINE K == Kernels[m]
           d == Population(m, k)
<1>1. K \in Seq(Name) /\ Len(K) \in Nat /\ DOMAIN K = 1..Len(K) /\ \A i \in DOMAIN K : K[i] \in Name
  BY KernelsAssumption
<1>2. nextId \in Nat
  BY DEF Types, TypeOK
<1>3. DOMAIN d = 1..k
      /\ \A i \in 1..k : d[i] = Entry("kernel", nextId + Len(K) + i - 1, m, K[i], nextId + i - 1)
  BY DEF Population
<1>4. \A i \in 1..k : i \in DOMAIN K
  BY <1>1
<1>5. \A i \in 1..k : /\ d[i] \in EntryType /\ d[i].in = "kernel" /\ d[i].m = m
                      /\ d[i].name = K[i] /\ d[i].fn = nextId + i - 1
  <2> SUFFICES ASSUME NEW i \in 1..k
               PROVE  /\ d[i] \in EntryType /\ d[i].in = "kernel" /\ d[i].m = m
                      /\ d[i].name = K[i] /\ d[i].fn = nextId + i - 1
    OBVIOUS
  <2>1. K[i] \in Name
    BY <1>1, <1>4
  <2>2. nextId + Len(K) + i - 1 \in Nat /\ nextId + i - 1 \in Nat
    BY <1>1, <1>2
  <2> HIDE DEF K
  <2> QED
    BY <1>3, <2>1, <2>2 DEF Entry, EntryType, List
<1>6. d \in Seq(EntryType)
  <2>1. d = [i \in 1..k |-> d[i]] /\ k \in Nat
    BY <1>1, <1>3 DEF Population
  <2> HIDE DEF d
  <2> QED
    BY <1>5, <2>1
<1> HIDE DEF d
<1>7. \A x, y \in Entries(d) : SameSymbol(x, y) => x = y
  <2> SUFFICES ASSUME NEW i \in 1..k, NEW j \in 1..k, d[i].name = d[j].name PROVE d[i] = d[j]
    BY <1>3 DEF Entries, SameSymbol
  <2> QED
    BY <1>4, <1>5, KernelsAssumption
<1>8. \A e \in Entries(d) : e \in EntryType /\ e.in = "kernel" /\ e.m = m
  BY <1>3, <1>5 DEF Entries
<1> QED
  BY <1>3, <1>4, <1>5, <1>6, <1>7, <1>8 DEF d


\* A load of a module adds the functions it discovered.
LEMMA ModuleLoadKeeps ==
  ASSUME SymbolInv, NEW m \in Module, ModuleLoad(m)
  PROVE  SymbolInv'
<1>1. PICK k \in 0..Len(Kernels[m]) :
        /\ Enter(m, {"user", "fatbin"}, "loaded")
        /\ discovered' = [discovered EXCEPT ![m] = (k = Len(Kernels[m]))]
        /\ list' = [list EXCEPT !["function"][m] = Discovery(m, k)]
        /\ live' = live \cup Entries(Discovery(m, k)) /\ nextId' = nextId + k
        /\ UNCHANGED <<plan, staged, reg, op, raced, bound>>
  BY DEF ModuleLoad
<1>2. PICK d : d = Discovery(m, k)
  OBVIOUS
<1>3. Types /\ Len(Kernels[m]) \in Nat
  BY KernelsAssumption DEF SymbolInv
<1>4. /\ d \in Seq(EntryType) /\ \A e \in Entries(d) : e \in EntryType /\ e.in = "function" /\ e.m = m
      /\ \A x, y \in Entries(d) : SameSymbol(x, y) => x = y
      /\ k = Len(Kernels[m]) => \A j \in DOMAIN Kernels[m] : Named(d, Kernels[m][j])
  BY <1>2, <1>3, DiscoveryIs
<1>5. state[m] = "none" /\ state' = [state EXCEPT ![m] = "loaded"]
  BY <1>1 DEF Enter
<1>6. /\ list' \in [List -> [Module -> Seq(EntryType)]] /\ list'["function"][m] = d
      /\ \A l \in List, x \in Module : l # "function" \/ x # m => list'[l][x] = list[l][x]
  BY <1>1, <1>2, <1>3, <1>4 DEF Types, TypeOK, List
<1>7. \A l \in List : Entries(list'[l][m]) = IF l = "function" THEN Entries(d) ELSE {}
  BY <1>5, <1>6, Untouched DEF Entries
<1>8. /\ discovered' \in [Module -> BOOLEAN] /\ discovered'[m] = (k = Len(Kernels[m]))
      /\ \A x \in Module : x # m => discovered'[x] = discovered[x]
  BY <1>1, <1>3 DEF Types, TypeOK
<1>9. nextId' \in Nat
  BY <1>1, <1>3 DEF Types, TypeOK
<1>10. "function" \in List
  BY DEF List
<1>11. PICK New : New = Entries(d)
  OBVIOUS
<1>12. /\ live' = live \cup New /\ \A e \in New : e \in EntryType /\ e.m = m
       /\ \A x, y \in New : SameSymbol(x, y) => x = y
  BY <1>1, <1>2, <1>4, <1>11
<1>13. \A l \in List : \A e \in Entries(list'[l][m]) :
         /\ e \in New /\ e.in = l
         /\ e.in = "kernel" => \E f \in New : IsFunction(f, e.fn, e.m, e.name)
  BY <1>4, <1>7, <1>11
<1>14. \A e \in New : \E l \in List : e \in Entries(list'[l][m])
  BY <1>7, <1>10, <1>11
<1>15. \A l \in List, x \in Module : x # m => list'[l][x] = list[l][x]
  BY <1>6
<1>16. discovered'[m] => \A i \in DOMAIN Kernels[m] : Named(list'["function"][m], Kernels[m][i])
  BY <1>4, <1>6, <1>8
<1> QED
  <2>1. "loaded" # "failed" /\ Loads(m, "loaded", New)
    BY <1>1, <1>5, <1>6, <1>8, <1>9, <1>12, <1>13, <1>14, <1>15, <1>16 DEF Loads
  <2> QED
    BY <2>1, LoadKeeps

\* A load of a library adds its functions, and kernels that name them.
LEMMA LibraryLoadKeeps ==
  ASSUME SymbolInv, NEW m \in Module, LibraryLoad(m)
  PROVE  SymbolInv'
<1>1. PICK n : n = Len(Kernels[m])
  OBVIOUS
<1>2. PICK d, p : d = Discovery(m, n) /\ p = Population(m, n)
  OBVIOUS
<1>3. /\ Enter(m, {"library"}, "loaded") /\ discovered' = [discovered EXCEPT ![m] = TRUE]
      /\ list' = [list EXCEPT !["function"][m] = d, !["kernel"][m] = p]
      /\ live' = live \cup (Entries(d) \cup Entries(p)) /\ nextId' = nextId + 2 * n
      /\ UNCHANGED <<plan, staged, reg, op, raced, bound>>
  BY <1>1, <1>2 DEF LibraryLoad
<1>4. Types /\ n \in Nat /\ n \in 0..Len(Kernels[m]) /\ DOMAIN Kernels[m] = 1..n
  BY <1>1, KernelsAssumption DEF SymbolInv
<1>5. /\ d \in Seq(EntryType) /\ \A e \in Entries(d) : e \in EntryType /\ e.in = "function" /\ e.m = m
      /\ \A x, y \in Entries(d) : SameSymbol(x, y) => x = y
      /\ \A j \in DOMAIN Kernels[m] : Named(d, Kernels[m][j])
  BY <1>1, <1>2, <1>4, DiscoveryIs
<1>6. /\ p \in Seq(EntryType) /\ \A e \in Entries(p) : e \in EntryType /\ e.in = "kernel" /\ e.m = m
      /\ \A x, y \in Entries(p) : SameSymbol(x, y) => x = y
  BY <1>2, <1>4, PopulationIs
<1>7. \A e \in Entries(p) : \E f \in Entries(d) : IsFunction(f, e.fn, e.m, e.name)
  <2> SUFFICES ASSUME NEW e \in Entries(p) PROVE \E f \in Entries(d) : IsFunction(f, e.fn, e.m, e.name)
    OBVIOUS
  <2>1. PICK i \in 1..n : e = p[i]
    BY <1>2, <1>4, PopulationIs DEF Entries
  <2>2. e.fn = nextId + i - 1 /\ e.m = m /\ e.name = Kernels[m][i]
    BY <1>2, <1>4, <2>1, PopulationIs
  <2>3. PICK j \in 1..n : j = n + 1 - i
    BY <1>4
  <2>4. d[j].in = "function" /\ d[j].m = m /\ d[j].name = Kernels[m][n + 1 - j] /\ d[j].id = nextId + n - j
    <3>1. \A q \in 1..n : LET x == Discovery(m, n)[q] IN
            x.in = "function" /\ x.m = m /\ x.name = Kernels[m][n + 1 - q] /\ x.id = nextId + n - q
      BY <1>4, DiscoveryIs
    <3> QED
      BY <1>2, <3>1
  <2>5. nextId \in Nat
    BY <1>4 DEF Types, TypeOK
  <2>6. n + 1 - j = i /\ nextId + n - j = nextId + i - 1
    BY <1>4, <2>3, <2>5
  <2>7. d[j] \in Entries(d)
    BY <1>2, <1>4, DiscoveryIs DEF Entries
  <2> QED
    BY <2>2, <2>4, <2>6, <2>7 DEF IsFunction
<1>8. state[m] = "none" /\ state' = [state EXCEPT ![m] = "loaded"]
  BY <1>3 DEF Enter
<1>9. /\ list' \in [List -> [Module -> Seq(EntryType)]]
      /\ list'["function"][m] = d /\ list'["kernel"][m] = p /\ list'["global"][m] = list["global"][m]
      /\ \A l \in List, x \in Module : x # m => list'[l][x] = list[l][x]
  BY <1>3, <1>4, <1>5, <1>6 DEF Types, TypeOK, List
<1>10. "function" \in List /\ "kernel" \in List /\ "global" \in List
  BY DEF List
<1>11. \A l \in List : Entries(list'[l][m]) =
         IF l = "function" THEN Entries(d) ELSE IF l = "kernel" THEN Entries(p) ELSE {}
  BY <1>8, <1>9, <1>10, Untouched DEF Entries, List
<1>12. /\ discovered' \in [Module -> BOOLEAN]
       /\ \A x \in Module : x # m => discovered'[x] = discovered[x]
  BY <1>3, <1>4 DEF Types, TypeOK
<1>13. nextId' \in Nat
  BY <1>3, <1>4 DEF Types, TypeOK
<1>18. PICK New : New = Entries(d) \cup Entries(p)
  OBVIOUS
<1>14. /\ \A e \in New : e \in EntryType /\ e.m = m
       /\ \A x, y \in New : SameSymbol(x, y) => x = y
  BY <1>5, <1>6, <1>18 DEF SameSymbol
<1>15. \A l \in List : \A e \in Entries(list'[l][m]) :
         /\ e \in New /\ e.in = l
         /\ e.in = "kernel" => \E f \in New : IsFunction(f, e.fn, e.m, e.name)
  BY <1>5, <1>6, <1>7, <1>11, <1>18
<1>16. \A e \in New : \E l \in List : e \in Entries(list'[l][m])
  BY <1>10, <1>11, <1>18
<1>17. live' = live \cup New
  BY <1>3, <1>18
<1>19. \A i \in DOMAIN Kernels[m] : Named(list'["function"][m], Kernels[m][i])
  BY <1>5, <1>9
<1> QED
  <2>1. "loaded" # "failed" /\ Loads(m, "loaded", New)
    BY <1>3, <1>8, <1>9, <1>12, <1>13, <1>14, <1>15, <1>16, <1>17, <1>19 DEF Loads
  <2> QED
    BY <2>1, LoadKeeps

\* A library that cannot be made leaves kernels behind, and nothing in a list.
LEMMA LibraryLoadFailsKeeps ==
  ASSUME SymbolInv, NEW m \in Module, LibraryLoadFails(m)
  PROVE  SymbolInv'
<1>1. PICK k \in {0} \cup 1..(Len(Kernels[m]) - 1) :
        /\ Enter(m, {"library"}, "failed")
        /\ live' = live \cup Entries(Population(m, k)) /\ nextId' = nextId + Len(Kernels[m]) + k
        /\ UNCHANGED <<plan, discovered, list, staged, reg, op, raced, bound>>
  BY DEF LibraryLoadFails
<1>2. Types /\ Len(Kernels[m]) \in Nat /\ k \in 0..Len(Kernels[m])
  BY KernelsAssumption DEF SymbolInv
<1>3. PICK p : p = Population(m, k)
  OBVIOUS
<1>4. /\ \A e \in Entries(p) : e \in EntryType /\ e.in = "kernel" /\ e.m = m
      /\ \A x, y \in Entries(p) : SameSymbol(x, y) => x = y
  BY <1>2, <1>3, PopulationIs
<1>5. state[m] = "none" /\ state' = [state EXCEPT ![m] = "failed"]
  BY <1>1 DEF Enter
<1>6. \A l \in List : list'[l][m] = <<>> /\ Entries(list'[l][m]) = {}
  BY <1>1, <1>5, Untouched DEF Entries
<1>7. nextId' \in Nat
  BY <1>1, <1>2 DEF Types, TypeOK
<1>8. live' = live \cup Entries(p)
  BY <1>1, <1>3
<1>9. list' \in [List -> [Module -> Seq(EntryType)]] /\ discovered' \in [Module -> BOOLEAN]
  BY <1>1, <1>2 DEF Types, TypeOK
<1>10. Loads(m, "failed", Entries(p))
  BY <1>1, <1>4, <1>5, <1>6, <1>7, <1>8, <1>9 DEF Loads
<1> QED
  BY <1>10, LoadKeeps

\* A fat binary that cannot be loaded has no entries.
LEMMA RegisterNullKeeps ==
  ASSUME SymbolInv, NEW m \in Module, RegisterNull(m)
  PROVE  SymbolInv'
<1>1. /\ state[m] = "none" /\ state' = [state EXCEPT ![m] = "null"]
      /\ UNCHANGED <<plan, discovered, list, live, staged, reg, op, nextId, raced, bound>>
  BY DEF RegisterNull, Enter
<1>2. \A l \in List : list'[l][m] = <<>> /\ Entries(list'[l][m]) = {}
  BY <1>1, Untouched DEF Entries
<1>3. /\ list' \in [List -> [Module -> Seq(EntryType)]] /\ discovered' \in [Module -> BOOLEAN]
      /\ nextId' \in Nat
  BY <1>1 DEF SymbolInv, Types, TypeOK
<1>4. live' = live \cup {}
  BY <1>1
<1>5. Loads(m, "null", {})
  BY <1>1, <1>2, <1>3, <1>4 DEF Loads
<1> QED
  BY <1>5, LoadKeeps

\* An unload frees what is in the lists of its module, and no call is on it.
LEMMA UnloadKeeps ==
  ASSUME SymbolInv, NEW m \in Module, Unload(m)
  PROVE  SymbolInv'
<1>1. /\ state[m] \in {"loaded", "null"} /\ state' = [state EXCEPT ![m] = "unloaded"]
      /\ \A t \in Thread : op[t].m # m
      /\ discovered' = [discovered EXCEPT ![m] = FALSE]
      /\ live' = live \ Listed(m) /\ staged' = staged \ Listed(m)
      /\ list' = [l \in List |-> [list[l] EXCEPT ![m] = <<>>]]
      /\ bound' = [h \in Host |-> IF bound[h] = m THEN None ELSE bound[h]]
      /\ UNCHANGED <<plan, reg, op, nextId, raced>>
  BY DEF Unload, Busy
<1>2. Types
  BY DEF SymbolInv
<1>3. /\ list' \in [List -> [Module -> Seq(EntryType)]]
      /\ \A l \in List : list'[l][m] = <<>>
      /\ \A l \in List, x \in Module : x # m => list'[l][x] = list[l][x]
  BY <1>1, <1>2 DEF Types, TypeOK
<1>4. state'[m] = "unloaded" /\ \A x \in Module : x # m => state'[x] = state[x]
  BY <1>1, <1>2 DEF Types, TypeOK
<1>5. discovered' \in [Module -> BOOLEAN] /\ \A x \in Module : x # m => discovered'[x] = discovered[x]
  BY <1>1, <1>2 DEF Types, TypeOK
<1>6. Types'
  <2>1. state' \in [Module -> {"none", "loaded", "null", "failed", "unloaded"}]
    BY <1>1, <1>2 DEF Types, TypeOK
  <2>2. live' \subseteq EntryType /\ staged' \subseteq EntryType
    BY <1>1, <1>2 DEF Types, TypeOK
  <2>3. bound' \in [Host -> Module \cup {None}]
    BY <1>1, <1>2 DEF Types, TypeOK
  <2> QED
    BY <1>1, <1>2, <1>3, <1>5, <2>1, <2>2, <2>3 DEF Types, TypeOK
<1>7. \A e \in Listed(m) : e.m = m
  BY DEF SymbolInv, Owners, Lists, Listed
<1>8. \A e \in live : e.m # m => e \in live'
  BY <1>1, <1>7
<1>9. ASSUME NEW t \in Thread PROVE CallOk(t)'
  <2>1. op[t].m \in Module => state'[op[t].m] = state[op[t].m]
                              /\ list'["function"][op[t].m] = list["function"][op[t].m]
    BY <1>1, <1>3, <1>4 DEF List
  <2>2. CallOk(t)
    BY DEF SymbolInv, Calls
  <2> QED
    BY <1>1, <1>2, <1>8, <2>1, <2>2, CallKeeps
<1>10. \A e : e.m # m /\ Sound(e) => Sound(e)'
  BY <1>8 DEF Sound, Resolved, IsFunction
<1>11. Lists'
  <2> SUFFICES ASSUME NEW l \in List, NEW x \in Module, NEW e \in Entries(list'[l][x])
               PROVE  Sound(e)' /\ e.in = l /\ e.m = x
    BY DEF Lists, Entries, Sound
  <2>1. x # m
    BY <1>3 DEF Entries
  <2>2. e \in Entries(list[l][x])
    BY <1>3, <2>1
  <2> QED
    BY <1>10, <2>1, <2>2 DEF SymbolInv, Owners, Lists
<1>12. Empty'
  <2> SUFFICES ASSUME NEW x \in Module, state'[x] # "loaded", NEW l \in List PROVE list'[l][x] = <<>>
    BY DEF Empty
  <2> QED
    BY <1>3, <1>4 DEF SymbolInv, Owners, Empty
<1>13. \A e \in live : e.m \in Module
  BY <1>2, Fields DEF EntryType
<1>14. Fresh'
  <2> SUFFICES ASSUME NEW e \in live' PROVE state'[e.m] # "none"
    BY DEF Fresh
  <2> QED
    BY <1>1, <1>4, <1>13 DEF SymbolInv, Owners, Fresh
<1>15. Sole' /\ OneHandle' /\ StagedLive'
  BY <1>1 DEF SymbolInv, Owners, Sole, Into, Doing, OneHandle, StagedLive
<1>16. Current'
  <2> SUFFICES ASSUME NEW t \in Thread, op[t].pc = "write", op[t].m \notin raced
               PROVE  op[t].seen = list'[Doing(t).do][op[t].m]
    BY <1>1 DEF Current, Doing
  <2>1. op[t].m \in Module /\ op[t].m # m /\ Doing(t).do \in List
    BY <1>1 DEF SymbolInv, Calls, CallOk, Shape, Adds
  <2>2. list'[Doing(t).do][op[t].m] = list[Doing(t).do][op[t].m]
    BY <1>3, <2>1
  <2> QED
    BY <2>2 DEF SymbolInv, Owners, Current
<1>17. NothingLost'
  <2> SUFFICES ASSUME NEW e \in live', ~InFlight(e), e.m \notin raced,
                      ~(e.in = "kernel" /\ state'[e.m] = "failed")
               PROVE  \E l \in List : e \in Entries(list'[l][e.m])
    <3>1. \A e : InFlight(e) => InFlight(e)'
      BY <1>1 DEF InFlight
    <3>2. \A e : (\E l \in List : e \in Entries(list'[l][e.m])) => e \in Listed(e.m)'
      BY DEF Listed, Entries
    <3> QED
      BY <1>1, <3>1, <3>2 DEF NothingLost
  <2>1. e \in live /\ e.m \in Module
    BY <1>1, <1>13
  <2>2. CASE e.m = m
    <3>1. state[m] # "failed"
      BY <1>1
    <3> QED
      BY <1>1, <2>1, <2>2, <3>1 DEF SymbolInv, Owners, NothingLost
  <2>3. CASE e.m # m
    <3>1. e \in Listed(e.m)
      BY <1>4, <2>1, <2>3 DEF SymbolInv, Owners, NothingLost
    <3> QED
      BY <1>3, <2>1, <2>3, <3>1 DEF Listed
  <2> QED
    BY <2>2, <2>3
<1>18. Complete'
  <2> SUFFICES ASSUME NEW x \in Module, state'[x] = "loaded", discovered'[x], x \notin raced,
                      NEW i \in DOMAIN Kernels[x]
               PROVE  Named(list'["function"][x], Kernels[x][i])
    BY <1>1 DEF Complete, Named
  <2>1. x # m
    BY <1>4
  <2>2. list'["function"][x] = list["function"][x] /\ state[x] = "loaded" /\ discovered[x]
    BY <1>3, <1>4, <1>5, <2>1 DEF List
  <2> QED
    BY <2>2 DEF SymbolInv, Complete
<1>19. RegistrationCurrent'
  <2>1. \A h \in Host : Function(h)' = Function(h)
    BY <1>1 DEF Function
  <2> SUFFICES ASSUME NEW h \in Host, bound'[h] # None, Function(h) # None
               PROVE  Function(h) \in live' /\ Function(h).m = bound'[h]
    BY <2>1 DEF RegistrationCurrent
  <2>2. bound'[h] = bound[h] /\ bound[h] # m
    BY <1>1
  <2> QED
    BY <1>8, <2>2 DEF SymbolInv, RegistrationCurrent
<1> QED
  BY <1>6, <1>9, <1>11, <1>12, <1>14, <1>15, <1>16, <1>17, <1>18, <1>19 DEF SymbolInv, Calls, Owners


-----------------------------------------------------------------------------
(***************************************************************************)
(* The theorems.                                                           *)
(***************************************************************************)
LEMMA InitIsSound == Init => SymbolInv
<1> SUFFICES ASSUME Init PROVE SymbolInv
  OBVIOUS
<1>1. Idle \in OpType /\ Idle.pc = "search" /\ Idle.new = None /\ Idle.last = None /\ Idle.seen = <<>>
      /\ Idle.todo = <<>> /\ DOMAIN Idle.todo = {} /\ Idle.m = None
  BY DEF Idle, Call, OpType
<1>2. \A t \in Thread : op[t] = Idle
  BY DEF Init
<1>3. op \in [Thread -> OpType]
  BY <1>1 DEF Init
<1>4. \A l \in List, m \in Module : list[l][m] = <<>> /\ Entries(list[l][m]) = {}
  BY DEF Init, Entries
<1>5. list \in [List -> [Module -> Seq(EntryType)]]
  BY DEF Init
<1>6. TypeOK
  <2>1. reg \in Seq([host : Host, fn : EntryType \cup {None}])
    BY DEF Init
  <2>2. \A t \in Thread : op[t] \in OpType
    BY <1>3
  <2> QED
    BY <1>5, <2>1, <2>2 DEF Init, TypeOK, OpType
<1>7. Calls
  BY <1>1, <1>2 DEF Calls, CallOk, Shape, Asked, Adds, Remaining
<1>8. Owners
  <2>1. Lists /\ Empty /\ Fresh /\ OneHandle /\ NothingLost /\ StagedLive
    BY <1>4 DEF Init, Lists, Empty, Fresh, OneHandle, NothingLost, StagedLive
  <2>2. Sole /\ Current
    BY <1>1, <1>2 DEF Sole, Into, Current
  <2> QED
    BY <2>1, <2>2 DEF Owners
<1>9. Complete /\ RegistrationCurrent
  BY DEF Init, Complete, RegistrationCurrent
<1> QED
  BY <1>3, <1>6, <1>7, <1>8, <1>9 DEF SymbolInv, Types

\* Every step keeps the invariant.
LEMMA StepKeeps == SymbolInv /\ [Next]_vars => SymbolInv'
<1> SUFFICES ASSUME SymbolInv, [Next]_vars PROVE SymbolInv'
  OBVIOUS
<1>1. CASE UNCHANGED vars
  <2>1. UNCHANGED <<plan, state, discovered, list, live, staged, reg, op, nextId, raced, bound>>
    BY <1>1 DEF vars
  <2>2. Types'
    BY <2>1 DEF SymbolInv, Types, TypeOK
  <2>3. ASSUME NEW t \in Thread PROVE CallOk(t)'
    BY <2>1, CallKeeps DEF SymbolInv, Calls
  <2>4. Owners'
    BY <2>1 DEF SymbolInv, Owners, Lists, Sound, Resolved, IsFunction, Empty, Fresh, Sole, Into, Doing,
                Current, OneHandle, NothingLost, Listed, InFlight, StagedLive
  <2>5. Complete' /\ RegistrationCurrent'
    <3>1. \A h \in Host : Function(h)' = Function(h)
      BY <2>1 DEF Function
    <3> QED
      BY <2>1, <3>1 DEF SymbolInv, Complete, Named, RegistrationCurrent
  <2> QED
    BY <2>2, <2>3, <2>4, <2>5 DEF SymbolInv, Calls
<1>2. ASSUME NEW m \in Module, ModuleLoad(m) PROVE SymbolInv'
  BY <1>2, ModuleLoadKeeps
<1>3. ASSUME NEW m \in Module, RegisterNull(m) PROVE SymbolInv'
  BY <1>3, RegisterNullKeeps
<1>4. ASSUME NEW m \in Module, LibraryLoad(m) PROVE SymbolInv'
  BY <1>4, LibraryLoadKeeps
<1>5. ASSUME NEW m \in Module, LibraryLoadFails(m) PROVE SymbolInv'
  BY <1>5, LibraryLoadFailsKeeps
<1>6. ASSUME NEW m \in Module, Unload(m) PROVE SymbolInv'
  BY <1>6, UnloadKeeps
<1>7. ASSUME NEW m \in Module, NEW t \in Thread, Start(t, m) PROVE SymbolInv'
  BY <1>7, StartKeeps
<1>8. ASSUME NEW t \in Thread, Step(t) PROVE SymbolInv'
  BY <1>8, FoundKeeps, CreateKeeps, CreateFailsKeeps, ReadHeadKeeps, WriteHeadKeeps,
     SetDiscoveredKeeps, PopulateKernelsKeeps, RegisterKeeps, RegisterFailsKeeps DEF Step
<1>9. CASE LaunchHandle \/ \E h \in Host : LaunchHost(h)
  BY <1>9, LaunchKeeps
<1> QED
  BY <1>1, <1>2, <1>3, <1>4, <1>5, <1>6, <1>7, <1>8, <1>9 DEF Next

\* The invariant holds in every behaviour.
LEMMA SymbolInvHolds == Spec => []SymbolInv
BY InitIsSound, StepKeeps, PTL DEF Spec

(***************************************************************************)
(* The state keeps its types: entries name a module and a list, and a      *)
(* registration leads to an entry or to none.                              *)
(***************************************************************************)
THEOREM TypesAreKept == Spec => []TypeOK
<1>1. SymbolInv => TypeOK
  BY DEF SymbolInv, Types
<1> QED
  BY <1>1, SymbolInvHolds, PTL

(***************************************************************************)
(* Symbols have one handle, and everything that is not freed is in a list  *)
(* of its module or about to be, unless two threads added to the module at *)
(* once: get-or-create and the discovery, for any number of threads.       *)
(***************************************************************************)
THEOREM SymbolsAreOwned == Spec => []SymbolsOwned
<1>1. SymbolInv => SymbolsOwned
  BY DEF SymbolInv, Owners, SymbolsOwned
<1> QED
  BY <1>1, SymbolInvHolds, PTL

(***************************************************************************)
(* A module marked as discovered has all its kernels, also when an earlier *)
(* discovery gave up half way (module_discover_cubin_kernels).             *)
(***************************************************************************)
THEOREM DiscoveredIsComplete == Spec => []DiscoveryComplete
<1>1. SymbolInv => DiscoveryComplete
  <2> SUFFICES ASSUME SymbolInv, NEW m \in Module, state[m] = "loaded", discovered[m], m \notin raced,
                      NEW i \in DOMAIN Kernels[m]
               PROVE  First(list["function"][m], Kernels[m][i]) # None
    BY DEF DiscoveryComplete
  <2>1. list["function"][m] \in Seq(EntryType)
    BY Fields DEF SymbolInv, List
  <2>2. Named(list["function"][m], Kernels[m][i])
    BY DEF SymbolInv, Complete
  <2> QED
    BY <2>1, <2>2, FirstFinds
<1> QED
  BY <1>1, SymbolInvHolds, PTL

(***************************************************************************)
(* Whatever is unloaded and whoever races, no kernel of a library and no   *)
(* launch buffer is of a function that was freed (cuModuleUnload,          *)
(* cuLibraryUnload).                                                       *)
(***************************************************************************)
THEOREM FunctionsAreLive == Spec => []NoFreedFunction
<1>1. SymbolInv => NoFreedFunction
  <2> SUFFICES ASSUME SymbolInv PROVE NoFreedFunction
    OBVIOUS
  <2>1. KernelsResolve
    <3> SUFFICES ASSUME NEW m \in Module, NEW k \in Entries(list["kernel"][m])
                 PROVE  \E f \in live : f.in = "function" /\ f.id = k.fn /\ f.m = m /\ f.name = k.name
      BY DEF KernelsResolve
    <3>1. Sound(k) /\ k.in = "kernel" /\ k.m = m
      BY DEF SymbolInv, Owners, Lists, List
    <3> QED
      BY <3>1 DEF Sound, Resolved, IsFunction
  <2> QED
    BY <2>1 DEF SymbolInv, Owners, NoFreedFunction
<1> QED
  BY <1>1, SymbolInvHolds, PTL

(***************************************************************************)
(* A registered host function leads to a function of the module it is      *)
(* registered for now, however many stale registrations are behind it      *)
(* (lookup_function of libcudart).                                         *)
(***************************************************************************)
THEOREM RegistrationsAreCurrent == Spec => []RegistrationCurrent
<1>1. SymbolInv => RegistrationCurrent
  BY DEF SymbolInv
<1> QED
  BY <1>1, SymbolInvHolds, PTL
=============================================================================
