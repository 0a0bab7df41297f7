---------------------------- MODULE ModuleTable ----------------------------
(***************************************************************************)
(* Loaded modules with their functions and globals, libraries with their   *)
(* kernels, and the registrations libcudart keeps of both.                 *)
(*                                                                         *)
(* The three lists of a module (functions, globals, kernels) are searched  *)
(* and prepended to without a lock.  A thread's operation is a sequence of *)
(* requests; a request searches, allocates, reads the head of the list and *)
(* writes it back, in steps of its own.  A library is named by its module, *)
(* and so is the handle of a fat binary.                                   *)
(*                                                                         *)
(* External, and assumed of the program: a module is unloaded once, when   *)
(* no call on it is in progress, and a library's by cuLibraryUnload.       *)
(***************************************************************************)
EXTENDS Naturals, Sequences, FiniteSets

CONSTANTS
  Thread,
  Module,    \* modules, each loaded at most once
  Name,      \* kernel names
  Variable,  \* names of globals
  Host,      \* host functions kernels are registered under
  Kernels,   \* module -> the kernels of its image, in section order, each name once
  Plans,     \* what a program loads each module as
  MaxId,     \* bound: objects created
  MaxStaged, \* bound: functions with launch buffers
  None       \* no function

List == {"function", "global", "kernel"}
EntryType == [in : List, id : Nat, m : Module, name : Name \cup Variable, fn : Nat \cup {None}]

ASSUME KernelsAssumption ==
  /\ Kernels \in [Module -> Seq(Name)]
  /\ \A m \in Module : \A i, j \in DOMAIN Kernels[m] : Kernels[m][i] = Kernels[m][j] => i = j
ASSUME PlansAssumption == Plans \subseteq [Module -> {"user", "library", "fatbin", "unused"}]
ASSUME BoundAssumption == MaxId \in Nat /\ MaxStaged \in Nat
ASSUME NoneAssumption  == None \notin Module \cup Nat /\ None \notin EntryType

VARIABLES
  plan,       \* module -> what the program uses it as
  state,      \* module -> "none", "loaded", "null" (a fat binary that cannot be loaded),
              \* "failed" (a library that cannot be made) or "unloaded"
  discovered, \* module -> kernels_discovered
  list,       \* list -> module -> its entries, newest first
  live,       \* entries whose memory is not freed
  staged,     \* functions with launch buffers mapped
  reg,        \* libcudart's g_functions, newest first
  op,         \* thread -> the operation it is in
  nextId,     \* the next object
  raced,      \* history: modules two threads added to at once
  bound       \* history: host function -> the module it is registered for now

vars == <<plan, state, discovered, list, live, staged, reg, op, nextId, raced, bound>>
tables == <<plan, state, discovered, list, live, staged>>

Entry(l, id, m, n, fn) == [in |-> l, id |-> id, m |-> m, name |-> n, fn |-> fn]
Request(do, n, fn) == [do |-> do, name |-> n, fn |-> fn]

Call(m, todo) ==
  [m |-> m, todo |-> todo, pc |-> "search", new |-> None, seen |-> <<>>, last |-> None]
Idle == Call(None, <<>>)

Init ==
  /\ plan \in Plans /\ state = [m \in Module |-> "none"]
  /\ discovered = [m \in Module |-> FALSE]
  /\ list = [l \in List |-> [m \in Module |-> <<>>]]
  /\ live = {} /\ staged = {} /\ reg = <<>>
  /\ op = [t \in Thread |-> Idle] /\ nextId = 1
  /\ raced = {} /\ bound = [h \in Host |-> None]

Entries(s) == {s[i] : i \in DOMAIN s}
Listed(m) == UNION {Entries(list[l][m]) : l \in List}
InFlight(e) == \E t \in Thread : op[t].new = e
Handles == {e \in live : ~InFlight(e)}   \* what calls have, or could have, returned
Free(t) == op[t] = Idle
Busy(m) == \E t \in Thread : op[t].m = m

\* Mutant: only the head is compared.
FirstAtHead(s, n) == IF s # <<>> /\ Head(s).name = n THEN Head(s) ELSE None

\* The first entry of a list with a name.
First(s, n) ==
  LET hits == {i \in DOMAIN s : s[i].name = n} IN
    IF hits = {} THEN None ELSE s[CHOOSE i \in hits : \A j \in hits : i <= j]

-----------------------------------------------------------------------------
(***************************************************************************)
(* Loading.  No other thread has the handle yet, so a load is one step.    *)
(***************************************************************************)
\* Mutant: a discovered function is not told its module.
DiscoveryUnbound(m, k) ==
  [i \in 1..k |-> Entry("function", nextId + k - i, None, Kernels[m][k + 1 - i], None)]

\* The first k kernels of the image, the last one at the head.
Discovery(m, k) ==
  [i \in 1..k |-> Entry("function", nextId + k - i, m, Kernels[m][k + 1 - i], None)]

Enter(m, uses, outcome) ==
  state[m] = "none" /\ plan[m] \in uses /\ state' = [state EXCEPT ![m] = outcome]

\* make_module: a discovery that fails part of the way is not an error.
ModuleLoad(m) ==
  \E k \in 0..Len(Kernels[m]) :
    /\ Enter(m, {"user", "fatbin"}, "loaded") /\ nextId + k <= MaxId + 1
    /\ discovered' = [discovered EXCEPT ![m] = (k = Len(Kernels[m]))]
    /\ list' = [list EXCEPT !["function"][m] = Discovery(m, k)]
    /\ live' = live \cup Entries(Discovery(m, k)) /\ nextId' = nextId + k
    /\ UNCHANGED <<plan, staged, reg, op, raced, bound>>

\* __cudaRegisterFatBinary when the module cannot be loaded.
RegisterNull(m) ==
  /\ Enter(m, {"fatbin"}, "null")
  /\ UNCHANGED <<plan, discovered, list, live, staged, reg, op, nextId, raced, bound>>

\* library_populate_kernels for a library nobody else has.
Population(m, k) ==
  [i \in 1..k |-> Entry("kernel", nextId + Len(Kernels[m]) + i - 1, m, Kernels[m][i],
                        nextId + i - 1)]

LibraryLoad(m) ==
  LET n == Len(Kernels[m]) IN
    /\ Enter(m, {"library"}, "loaded") /\ nextId + 2 * n <= MaxId + 1
    /\ discovered' = [discovered EXCEPT ![m] = TRUE]
    /\ list' = [list EXCEPT !["function"][m] = Discovery(m, n), !["kernel"][m] = Population(m, n)]
    /\ live' = live \cup Entries(Discovery(m, n)) \cup Entries(Population(m, n))
    /\ nextId' = nextId + 2 * n
    /\ UNCHANGED <<plan, staged, reg, op, raced, bound>>

\* make_library_from_module out of memory: the kernels made so far, if any, are lost.
LibraryLoadFails(m) ==
  \E k \in {0} \cup 1..(Len(Kernels[m]) - 1) :
    /\ Enter(m, {"library"}, "failed")
    /\ nextId + Len(Kernels[m]) + k <= MaxId + 1
    /\ live' = live \cup Entries(Population(m, k)) /\ nextId' = nextId + Len(Kernels[m]) + k
    /\ UNCHANGED <<plan, discovered, list, staged, reg, op, raced, bound>>

-----------------------------------------------------------------------------
(***************************************************************************)
(* The operations that add to a shared list.                               *)
(***************************************************************************)
Begin(t, m, todo) ==
  /\ Free(t) /\ todo # <<>>
  /\ op' = [op EXCEPT ![t] = Call(m, todo)]
  /\ UNCHANGED <<tables, reg, nextId, raced, bound>>

Usable(m) == state[m] = "loaded" /\ plan[m] \in {"user", "library"}

GetFunction(t, m, n) == Usable(m) /\ Begin(t, m, <<Request("function", n, None)>>)
GetGlobal(t, m, n) == Usable(m) /\ Begin(t, m, <<Request("global", n, None)>>)

\* Mutant: the flag goes up before the kernels are there.
DiscoverFlagFirst(m) ==
  IF discovered[m] THEN <<>>
  ELSE <<Request("discovered", None, None)>> \o
       [i \in DOMAIN Kernels[m] |-> Request("function", Kernels[m][i], None)]
Discover(m) ==
  IF discovered[m] THEN <<>>
  ELSE [i \in DOMAIN Kernels[m] |-> Request("function", Kernels[m][i], None)] \o
       <<Request("discovered", None, None)>>

\* cuModuleGetFunctionCount.
FunctionCount(t, m) == Usable(m) /\ Begin(t, m, Discover(m))

\* cuLibraryGetKernelCount and cuLibraryEnumerateKernels.
Populate(t, m) ==
  /\ Usable(m) /\ plan[m] = "library"
  /\ Begin(t, m, Discover(m) \o <<Request("populate", None, None)>>)

\* cuLibraryGetKernel: the function first, unless the kernel is known.
GetKernel(t, m, n) ==
  /\ Usable(m) /\ plan[m] = "library" /\ First(list["kernel"][m], n) = None
  /\ Begin(t, m, <<Request("function", n, None), Request("kernel", n, None)>>)

\* __cudaRegisterFunction; a host function is registered for one kernel at a time.
RegisterFunction(t, h, m, n) ==
  /\ plan[m] = "fatbin" /\ state[m] \in {"loaded", "null"} /\ bound[h] = None
  /\ \A u \in Thread : Request("register", h, None) \notin Entries(op[u].todo)
  /\ LET register == Request("register", h, None) IN
       Begin(t, m, IF state[m] = "loaded" THEN <<Request("function", n, None), register>>
                   ELSE <<register>>)

-----------------------------------------------------------------------------
(***************************************************************************)
(* The steps of an operation.                                              *)
(***************************************************************************)
Doing(t) == Head(op[t].todo)
Rest(t, last) ==
  IF Len(op[t].todo) = 1 THEN Idle
  ELSE [op[t] EXCEPT !.todo = Tail(@), !.pc = "search", !.new = None, !.seen = <<>>, !.last = last]
Searching(t) == op[t].todo # <<>> /\ op[t].pc = "search" /\ Doing(t).do \in List

\* The entry is there.
Found(t) ==
  /\ Searching(t)
  /\ LET e == First(list[Doing(t).do][op[t].m], Doing(t).name) IN
       /\ e # None
       /\ op' = [op EXCEPT ![t] = Rest(t, e)]
  /\ UNCHANGED <<tables, reg, nextId, raced, bound>>

Adding(m, l) == \E t \in Thread : op[t].m = m /\ op[t].pc # "search" /\ Doing(t).do = l

\* It is not: a new one is made, a global with memory of its own.
Create(t) ==
  /\ Searching(t) /\ nextId <= MaxId
  /\ LET r == Doing(t)
         m == op[t].m
         fn == IF r.do # "kernel" THEN None ELSE IF r.fn # None THEN r.fn ELSE op[t].last.id
         e == Entry(r.do, nextId, m, r.name, fn) IN
       /\ First(list[r.do][m], r.name) = None
       /\ live' = live \cup {e}
       /\ op' = [op EXCEPT ![t].pc = "link", ![t].new = e]
       /\ raced' = IF Adding(m, r.do) THEN raced \cup {m} ELSE raced
  /\ nextId' = nextId + 1
  /\ UNCHANGED <<plan, state, discovered, list, staged, reg, bound>>

\* No memory: the operation ends, a registration goes on without the function.
CreateFails(t) ==
  /\ Searching(t) /\ First(list[Doing(t).do][op[t].m], Doing(t).name) = None
  /\ LET rest == Tail(op[t].todo) IN
       op' = [op EXCEPT ![t] = IF rest # <<>> /\ Head(rest).do = "register" THEN Rest(t, None) ELSE Idle]
  /\ UNCHANGED <<tables, reg, nextId, raced, bound>>

\* entry->next = head
ReadHead(t) ==
  /\ op[t].pc = "link"
  /\ op' = [op EXCEPT ![t].pc = "write", ![t].seen = list[Doing(t).do][op[t].m]]
  /\ UNCHANGED <<tables, reg, nextId, raced, bound>>

\* Mutant: the entry is linked behind nothing.
WriteHeadAlone(t) ==
  /\ op[t].pc = "write"
  /\ list' = [list EXCEPT ![Doing(t).do][op[t].m] = <<op[t].new>>]
  /\ op' = [op EXCEPT ![t] = Rest(t, op[t].new)]
  /\ UNCHANGED <<plan, state, discovered, live, staged, reg, nextId, raced, bound>>

\* head = entry
WriteHead(t) ==
  /\ op[t].pc = "write"
  /\ list' = [list EXCEPT ![Doing(t).do][op[t].m] = <<op[t].new>> \o op[t].seen]
  /\ op' = [op EXCEPT ![t] = Rest(t, op[t].new)]
  /\ UNCHANGED <<plan, state, discovered, live, staged, reg, nextId, raced, bound>>

\* The end of a discovery.
SetDiscovered(t) ==
  /\ op[t].todo # <<>> /\ Doing(t).do = "discovered"
  /\ discovered' = [discovered EXCEPT ![op[t].m] = TRUE] /\ op' = [op EXCEPT ![t] = Rest(t, None)]
  /\ UNCHANGED <<plan, state, list, live, staged, reg, nextId, raced, bound>>

\* A kernel for every function from the head read now.
PopulateKernels(t) ==
  /\ op[t].todo # <<>> /\ Doing(t).do = "populate"
  /\ LET fns == list["function"][op[t].m]
         todo == [i \in DOMAIN fns |-> Request("kernel", fns[i].name, fns[i].id)] IN
       op' = [op EXCEPT ![t] = IF todo = <<>> THEN Idle ELSE [@ EXCEPT !.todo = todo]]
  /\ UNCHANGED <<tables, reg, nextId, raced, bound>>

\* Mutant: the registration is appended.
RegisterLast(t) ==
  /\ op[t].todo # <<>> /\ Doing(t).do = "register"
  /\ reg' = Append(reg, [host |-> Doing(t).name, fn |-> op[t].last])
  /\ bound' = [bound EXCEPT ![Doing(t).name] = op[t].m] /\ op' = [op EXCEPT ![t] = Idle]
  /\ UNCHANGED <<tables, nextId, raced>>

\* The registration is prepended under libcudart's lock, with or without a function.
Register(t) ==
  /\ op[t].todo # <<>> /\ Doing(t).do = "register"
  /\ reg' = <<[host |-> Doing(t).name, fn |-> op[t].last]>> \o reg
  /\ bound' = [bound EXCEPT ![Doing(t).name] = op[t].m] /\ op' = [op EXCEPT ![t] = Idle]
  /\ UNCHANGED <<tables, nextId, raced>>

\* It is given up when there is no memory for it.
RegisterFails(t) ==
  /\ op[t].todo # <<>> /\ Doing(t).do = "register" /\ op' = [op EXCEPT ![t] = Idle]
  /\ UNCHANGED <<tables, reg, nextId, raced, bound>>

-----------------------------------------------------------------------------
(***************************************************************************)
(* Launching, through a handle or a registered host function.  A launch    *)
(* maps buffers for the function; without a function nothing is launched.  *)
(***************************************************************************)
Function(h) ==
  LET hits == {i \in DOMAIN reg : reg[i].host = h} IN
    IF hits = {} THEN None ELSE reg[CHOOSE i \in hits : \A j \in hits : i <= j].fn

Launch(f) ==
  /\ Cardinality(staged) < MaxStaged \/ f \in staged
  /\ staged' = staged \cup {f}
  /\ UNCHANGED <<plan, state, discovered, list, live, reg, op, nextId, raced, bound>>

LaunchHandle == \E f \in Handles : f.in = "function" /\ Usable(f.m) /\ Launch(f)
LaunchHost(h) == bound[h] # None /\ Function(h) # None /\ Launch(Function(h))

(***************************************************************************)
(* Unloading.  cuModuleUnload frees what is in the lists, cuLibraryUnload  *)
(* the kernels first.  __cudaUnregisterFatBinary keeps the registrations.  *)
(***************************************************************************)
\* Mutant: launch buffers are not released.
UnloadStaged(m) ==
  /\ state[m] \in {"loaded", "null"} /\ ~Busy(m)
  /\ state' = [state EXCEPT ![m] = "unloaded"]
  /\ discovered' = [discovered EXCEPT ![m] = FALSE]
  /\ live' = live \ Listed(m) /\ staged' = staged
  /\ list' = [l \in List |-> [list[l] EXCEPT ![m] = <<>>]]
  /\ bound' = [h \in Host |-> IF bound[h] = m THEN None ELSE bound[h]]
  /\ UNCHANGED <<plan, reg, op, nextId, raced>>

\* Mutant: a library's module is unloaded behind its back.
UnloadKernelsKept(m) ==
  /\ state[m] \in {"loaded", "null"} /\ ~Busy(m)
  /\ state' = [state EXCEPT ![m] = "unloaded"]
  /\ discovered' = [discovered EXCEPT ![m] = FALSE]
  /\ live' = live \ Listed(m) /\ staged' = staged \ Listed(m)
  /\ list' = [list EXCEPT !["function"][m] = <<>>, !["global"][m] = <<>>]
  /\ bound' = [h \in Host |-> IF bound[h] = m THEN None ELSE bound[h]]
  /\ UNCHANGED <<plan, reg, op, nextId, raced>>

Unload(m) ==
  /\ state[m] \in {"loaded", "null"} /\ ~Busy(m)
  /\ state' = [state EXCEPT ![m] = "unloaded"]
  /\ discovered' = [discovered EXCEPT ![m] = FALSE]
  /\ live' = live \ Listed(m) /\ staged' = staged \ Listed(m)
  /\ list' = [l \in List |-> [list[l] EXCEPT ![m] = <<>>]]
  /\ bound' = [h \in Host |-> IF bound[h] = m THEN None ELSE bound[h]]
  /\ UNCHANGED <<plan, reg, op, nextId, raced>>

-----------------------------------------------------------------------------
Start(t, m) ==
  \/ \E n \in Name : GetFunction(t, m, n) \/ GetKernel(t, m, n)
  \/ \E n \in Variable : GetGlobal(t, m, n)
  \/ FunctionCount(t, m) \/ Populate(t, m)
  \/ \E h \in Host, n \in Name : RegisterFunction(t, h, m, n)

Step(t) ==
  \/ Found(t) \/ Create(t) \/ CreateFails(t) \/ ReadHead(t) \/ WriteHead(t)
  \/ SetDiscovered(t) \/ PopulateKernels(t) \/ Register(t) \/ RegisterFails(t)

Next ==
  \/ \E m \in Module :
       \/ ModuleLoad(m) \/ RegisterNull(m) \/ LibraryLoad(m) \/ LibraryLoadFails(m) \/ Unload(m)
       \/ \E t \in Thread : Start(t, m)
  \/ \E t \in Thread : Step(t)
  \/ LaunchHandle \/ \E h \in Host : LaunchHost(h)

Spec == Init /\ [][Next]_vars

-----------------------------------------------------------------------------
(***************************************************************************)
(* Properties.                                                             *)
(***************************************************************************)
\* Type correctness.
TypeOK ==
  /\ plan \in Plans /\ state \in [Module -> {"none", "loaded", "null", "failed", "unloaded"}]
  /\ discovered \in [Module -> BOOLEAN]
  /\ list \in [List -> [Module -> Seq(EntryType)]]
  /\ live \subseteq EntryType /\ staged \subseteq EntryType
  /\ reg \in Seq([host : Host, fn : EntryType \cup {None}])
  /\ \A t \in Thread :
       /\ op[t].m \in Module \cup {None} /\ op[t].pc \in {"search", "link", "write"}
       /\ op[t].new \in EntryType \cup {None} /\ op[t].last \in EntryType \cup {None}
       /\ op[t].seen \in Seq(EntryType)
  /\ nextId \in Nat /\ raced \subseteq Module /\ bound \in [Host -> Module \cup {None}]

\* Two entries for one symbol in one kind of list of a module.
SameSymbol(x, y) == x.in = y.in /\ x.m = y.m /\ x.name = y.name

(***************************************************************************)
(* A symbol of a module has one function, global or kernel, whoever asks   *)
(* and how often, as long as no two threads add to one list of the module  *)
(* at once.                                                                *)
(***************************************************************************)
OneHandle == \A x, y \in live : SameSymbol(x, y) /\ x.m \notin raced => x = y

(***************************************************************************)
(* Everything that is not freed, in particular the device memory of every  *)
(* global, is in the lists its module is unloaded by or about to be, but   *)
(* for modules that were added to at once and the kernels of a library     *)
(* that ran out of memory.                                                 *)
(***************************************************************************)
NothingLost ==
  \A e \in live :
    \/ e \in Listed(e.m) \/ InFlight(e)
    \/ e.m \in raced \/ (e.in = "kernel" /\ state[e.m] = "failed")

(***************************************************************************)
(* A module marked as discovered has a function for each kernel of its     *)
(* image, also when an earlier discovery failed part of the way.           *)
(***************************************************************************)
DiscoveryComplete ==
  \A m \in Module :
    state[m] = "loaded" /\ discovered[m] /\ m \notin raced =>
      \A i \in DOMAIN Kernels[m] : First(list["function"][m], Kernels[m][i]) # None

(***************************************************************************)
(* A kernel in a library names a function of the same name and module that *)
(* has not been freed, whatever races there were.                          *)
(***************************************************************************)
KernelsResolve ==
  \A m \in Module : \A k \in Entries(list["kernel"][m]) :
    \E f \in live : f.in = "function" /\ f.id = k.fn /\ f.m = m /\ f.name = k.name

(***************************************************************************)
(* A host function that is registered leads to no function or to one of    *)
(* the module it is registered for now, although registrations for modules *)
(* that are gone stay in the list.                                         *)
(***************************************************************************)
RegistrationCurrent ==
  \A h \in Host : bound[h] # None /\ Function(h) # None =>
    Function(h) \in live /\ Function(h).m = bound[h]

\* Launch buffers stay mapped only for functions that have not been freed.
StagedLive == staged \subseteq live

(***************************************************************************)
(* Symbols made by several threads have one handle and one owner.          *)
(***************************************************************************)
SymbolsOwned == OneHandle /\ NothingLost

(***************************************************************************)
(* After any order of unloads, neither a kernel of a library nor a launch  *)
(* buffer is of a function that was freed.                                 *)
(***************************************************************************)
NoFreedFunction == KernelsResolve /\ StagedLive

(***************************************************************************)
(* cuda.h on cuModuleGetGlobal: "the base pointer and size of the global". *)
(***************************************************************************)
OneGlobal == \A x, y \in Handles : SameSymbol(x, y) /\ x.in = "global" => x = y
=============================================================================
