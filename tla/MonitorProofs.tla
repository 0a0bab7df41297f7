--------------------------- MODULE MonitorProofs ---------------------------
(***************************************************************************)
(* The accounting files and the monitor that reads them, for any number of *)
(* processes, births, buffers and samples.                                 *)
(***************************************************************************)
EXTENDS Monitor, SequenceTheorems, WellFoundedInduction, TLAPS

(***************************************************************************)
(* The types of the state, with the domains of its functions.              *)
(***************************************************************************)
Process ==
  [born : Nat, fd : BOOLEAN, bytes : Sizes, ticks : 0..MaxTicks, exiting : BOOLEAN,
   record : {"never", "current", "missed"}]
File == [state : {"absent", "empty", "written"}, by : Nat, bytes : Sizes]
Update == [bytes : Sizes, linked : BOOLEAN]
Sampled == [pid : {0} \cup Pid, ticks : 0..MaxTicks, taken : BOOLEAN, last : 0..MaxTicks,
            of : {0} \cup Pid]
Figure == [pid : Pid, src : {"file", "maps", "none"}, bytes : Sizes]
Ops == {"memory", "list", "rates", "util", "smi"}
Passes == {"memory", "load", "count", "list", "util", "done"}
Scan ==
  [op : Ops \cup {"none"}, pass : Passes, at : 1..(LastPid + 1), step : {"visit", "read", "sample"},
   cap : Nat, found : 0..LastPid, seen : Seq(Figure), total : 0..(Word - 1), used : 0..TotalMem,
   rows : Nat, rate : [of : {0} \cup Pid, from : {0} \cup Pid, ticks : 0..MaxTicks], quiet : BOOLEAN]

TypeInv ==
  /\ use \in Uses /\ births \in 0..MaxBirths
  /\ proc \in [Pid -> Process] /\ \A p \in Pid : proc[p].born <= births
  /\ file \in [Pid -> File] /\ \A p \in Pid : file[p].by <= births
  /\ writing \in [Pid -> SUBSET Update]
  /\ slots \in [1..Slots -> Sampled] /\ scan \in Scan

(***************************************************************************)
(* Of each process at most one update of the file is in progress; a file   *)
(* that is there is the process's own once it opened it.                   *)
(***************************************************************************)
FileInv ==
  \A p \in Pid :
    /\ \A v, w \in writing[p] : v = w
    /\ proc[p].fd => Alive(p)
    /\ writing[p] # {} => Alive(p) /\ proc[p].record # "never"
    /\ Alive(p) /\ proc[p].record # "never" => file[p].by = proc[p].born \/ file[p].state = "absent"
    /\ proc[p].record = "current" =>
         IF writing[p] = {} THEN file[p] = Written(proc[p].born, proc[p].bytes)
         ELSE \A w \in writing[p] : w.bytes = proc[p].bytes

(***************************************************************************)
(* A sample that was taken was taken of the pid it is kept for.            *)
(***************************************************************************)
SlotInv == \A i \in 1..Slots : slots[i].taken => slots[i].of = slots[i].pid
RateInv == scan.rate.from = scan.rate.of

(***************************************************************************)
(* Where a pass is: what it has found is behind it, and what it has seen   *)
(* is what it found, up to the room there is.                              *)
(***************************************************************************)
PassOf(op) ==
  CASE op = "memory" -> {"memory"} [] op = "rates" -> {"memory", "load"} [] op = "list" -> {"list"}
    [] op = "util" -> {"util"} [] op = "smi" -> {"count", "list"} [] OTHER -> {}
Listing == scan.pass \in {"list", "util"}
ScanInv ==
  /\ scan.pass # "done" => scan.pass \in PassOf(scan.op)
  /\ scan.found <= scan.at - 1
  /\ scan.step # "visit" => scan.pass # "done" /\ scan.at \in Pid
  /\ scan.pass = "count" => scan.cap = 0
  /\ scan.step = "read" => scan.pass \in {"memory", "list", "util"}
  /\ scan.step = "sample" => scan.pass \in {"load", "util"}
  /\ Listing /\ scan.step = "read" => Len(scan.seen) = scan.found /\ scan.found < scan.cap
  /\ Listing /\ scan.step = "sample" => Len(scan.seen) = scan.found + 1 /\ scan.found < scan.cap
  /\ (Listing /\ scan.step = "visit") \/ (scan.pass = "done" /\ scan.op \in {"list", "util", "smi"}) =>
       Len(scan.seen) = SmallerOf(scan.found, scan.cap)
  /\ ~Listing /\ ~(scan.pass = "done" /\ scan.op \in {"list", "util", "smi"}) => scan.seen = <<>>
  /\ \A i, j \in DOMAIN scan.seen : i < j => scan.seen[i].pid < scan.seen[j].pid
  /\ \A i \in DOMAIN scan.seen :
       scan.seen[i].pid <= scan.at /\ (scan.step # "sample" => scan.seen[i].pid < scan.at)

MonitorInv == TypeInv /\ FileInv /\ SlotInv /\ RateInv /\ ScanInv

-----------------------------------------------------------------------------
(***************************************************************************)
(* The processes.                                                          *)
(***************************************************************************)
\* A step of a process disturbs the scan, and nothing else of the monitor.
LEMMA Disturbed ==
  ASSUME TypeInv, SlotInv, RateInv, ScanInv, Disturb
  PROVE  /\ use' = use /\ slots' = slots /\ scan' \in Scan
         /\ SlotInv' /\ RateInv' /\ ScanInv'
<1>1. /\ use' = use /\ slots' = slots /\ scan' \in Scan
      /\ scan'.op = scan.op /\ scan'.pass = scan.pass /\ scan'.at = scan.at /\ scan'.step = scan.step
      /\ scan'.cap = scan.cap /\ scan'.found = scan.found /\ scan'.seen = scan.seen /\ scan'.rate = scan.rate
  BY DEF Disturb, TypeInv, Scan
<1> QED
  BY <1>1 DEF SlotInv, RateInv, ScanInv, Listing

\* The processes' state is of its type, and what holds of their files.
ProcessInv ==
  /\ births \in 0..MaxBirths
  /\ proc \in [Pid -> Process] /\ \A p \in Pid : proc[p].born <= births
  /\ file \in [Pid -> File] /\ \A p \in Pid : file[p].by <= births
  /\ writing \in [Pid -> SUBSET Update]
  /\ FileInv

\* What FileInv says of one process.
FileOk(p) ==
  /\ \A v, w \in writing[p] : v = w
  /\ proc[p].fd => Alive(p)
  /\ writing[p] # {} => Alive(p) /\ proc[p].record # "never"
  /\ Alive(p) /\ proc[p].record # "never" => file[p].by = proc[p].born \/ file[p].state = "absent"
  /\ proc[p].record = "current" =>
       IF writing[p] = {} THEN file[p] = Written(proc[p].born, proc[p].bytes)
       ELSE \A w \in writing[p] : w.bytes = proc[p].bytes

\* A step of p leaves the files of the others as they are.
LEMMA FilesKept ==
  ASSUME FileInv, NEW p \in Pid, FileOk(p)',
         \A q \in Pid \ {p} : proc'[q] = proc[q] /\ file'[q] = file[q] /\ writing'[q] = writing[q]
  PROVE  FileInv'
BY DEF FileInv, FileOk, Alive

\* A process is born with a pid and no file of its own yet, whatever lies there.
LEMMA Spawned ==
  ASSUME ProcessInv, NEW p \in Pid, Spawn(p) PROVE ProcessInv'
<1>1. /\ ~Alive(p) /\ births < MaxBirths /\ births' = births + 1 /\ births \in Nat /\ births' \in 0..MaxBirths
      /\ proc' = [proc EXCEPT ![p] = [NoProcess EXCEPT !.born = births + 1]]
      /\ file' = file /\ writing' = writing
  BY TableAssumption DEF Spawn, ProcessInv
<1>2. [NoProcess EXCEPT !.born = births + 1] \in Process
  <2>1. NoProcess \in Process
    BY SizesAssumption, TableAssumption DEF NoProcess, Process
  <2>2. births + 1 \in Nat
    BY <1>1
  <2> QED
    BY <2>1, <2>2 DEF Process
<1>3. proc' \in [Pid -> Process] /\ proc'[p] = [NoProcess EXCEPT !.born = births + 1]
      /\ \A q \in Pid \ {p} : proc'[q] = proc[q]
  BY <1>1, <1>2 DEF ProcessInv
<1>4. proc'[p].born = births + 1 /\ proc'[p].record = "never" /\ ~proc'[p].fd
  BY <1>3 DEF NoProcess
<1>5. \A q \in Pid : proc'[q].born <= births'
  BY <1>1, <1>3, <1>4 DEF ProcessInv, Process
<1>6. \A q \in Pid : file'[q].by <= births'
  BY <1>1 DEF ProcessInv, File
<1>7. FileOk(p)'
  BY <1>1, <1>3, <1>4 DEF FileOk, ProcessInv, FileInv, Alive
<1>8. FileInv'
  BY <1>1, <1>3, <1>7, FilesKept DEF ProcessInv
<1> QED
  BY <1>1, <1>3, <1>5, <1>6, <1>8 DEF ProcessInv

\* A process opens the device or runs.
LEMMA SmallSteps ==
  ASSUME ProcessInv, NEW p \in Pid, OpenDevice(p) \/ Run(p) PROVE ProcessInv'
<1>1. /\ births' = births /\ file' = file /\ writing' = writing
      /\ Alive(p)
      /\ \/ proc' = [proc EXCEPT ![p].fd = TRUE]
         \/ proc[p].ticks < MaxTicks /\ proc' = [proc EXCEPT ![p].ticks = @ + 1]
  BY DEF OpenDevice, Run
<1>2. proc[p] \in Process /\ MaxTicks \in Nat
  BY TableAssumption DEF ProcessInv
<1>3. /\ proc' \in [Pid -> Process] /\ (\A q \in Pid \ {p} : proc'[q] = proc[q])
      /\ proc'[p].born = proc[p].born /\ proc'[p].record = proc[p].record /\ proc'[p].bytes = proc[p].bytes
      /\ (proc'[p].fd => Alive(p))
  <2>1. CASE proc' = [proc EXCEPT ![p].fd = TRUE]
    <3>1. [proc[p] EXCEPT !.fd = TRUE] \in Process
      BY <1>2 DEF Process
    <3> QED
      BY <1>1, <1>2, <2>1, <3>1 DEF ProcessInv, Process
  <2>2. CASE proc[p].ticks < MaxTicks /\ proc' = [proc EXCEPT ![p].ticks = @ + 1]
    <3>1. [proc[p] EXCEPT !.ticks = @ + 1] \in Process
      BY <1>2, <2>2 DEF Process
    <3> QED
      BY <1>1, <1>2, <2>2, <3>1 DEF ProcessInv, Process
  <2> QED
    BY <1>1, <2>1, <2>2
<1>4. FileOk(p)'
  BY <1>1, <1>3 DEF FileOk, ProcessInv, FileInv, Alive
<1>5. FileInv'
  BY <1>1, <1>3, <1>4, FilesKept DEF ProcessInv
<1> QED
  BY <1>1, <1>3, <1>5 DEF ProcessInv

\* The total changes, and the file is opened for it or an update is missed.
LEMMA TotalChanges ==
  ASSUME ProcessInv, NEW p \in Pid, NEW n \in Sizes, ChangeTotal(p, n) PROVE ProcessInv'
<1>1. proc[p] \in Process /\ proc[p].fd /\ writing[p] = {} /\ births' = births /\ births \in Nat
      /\ proc[p].born <= births
  BY DEF ProcessInv, ChangeTotal
<1>2. CASE OpensFile(p, n)
  <2>1. /\ file' = [file EXCEPT ![p] = Empty(proc[p].born)]
        /\ writing' = [writing EXCEPT ![p] = @ \cup {[bytes |-> n, linked |-> TRUE]}]
        /\ proc' = [proc EXCEPT ![p] = [proc[p] EXCEPT !.bytes = n, !.record = "current"]]
    BY <1>2 DEF OpensFile
  <2>2. /\ [proc[p] EXCEPT !.bytes = n, !.record = "current"] \in Process
        /\ Empty(proc[p].born) \in File /\ [bytes |-> n, linked |-> TRUE] \in Update
    BY <1>1, SizesAssumption DEF Process, File, Empty, Update
  <2>3. /\ proc' \in [Pid -> Process] /\ file' \in [Pid -> File] /\ writing' \in [Pid -> SUBSET Update]
        /\ \A q \in Pid \ {p} : proc'[q] = proc[q] /\ file'[q] = file[q] /\ writing'[q] = writing[q]
        /\ proc'[p] = [proc[p] EXCEPT !.bytes = n, !.record = "current"]
        /\ file'[p] = Empty(proc[p].born) /\ writing'[p] = {[bytes |-> n, linked |-> TRUE]}
    BY <1>1, <2>1, <2>2 DEF ProcessInv
  <2>4. proc'[p].born = proc[p].born /\ proc'[p].bytes = n /\ proc'[p].record = "current" /\ file'[p].by = proc[p].born
    BY <1>1, <2>3 DEF Process, Empty
  <2>5. proc[p].born # 0
    BY <1>1 DEF ProcessInv, FileInv, Alive
  <2>6. FileOk(p)'
    <3>1. writing'[p] # {} /\ (\A v, w \in writing'[p] : v = w) /\ \A w \in writing'[p] : w.bytes = n
      BY <2>3
    <3> QED
      BY <2>4, <2>5, <3>1 DEF FileOk, Alive
  <2>7. FileInv'
    BY <2>3, <2>6, FilesKept DEF ProcessInv
  <2> QED
    BY <1>1, <2>3, <2>4, <2>7 DEF ProcessInv
<1>3. CASE FailsToOpen(p, n)
  <2>1. /\ file' = file /\ writing' = writing
        /\ proc' = [proc EXCEPT ![p] = [proc[p] EXCEPT !.bytes = n, !.record = IF @ = "never" THEN "never" ELSE "missed"]]
    BY <1>3 DEF FailsToOpen
  <2>2. [proc[p] EXCEPT !.bytes = n, !.record = IF @ = "never" THEN "never" ELSE "missed"] \in Process
    BY <1>1 DEF Process
  <2>3. /\ proc' \in [Pid -> Process] /\ (\A q \in Pid \ {p} : proc'[q] = proc[q])
        /\ proc'[p] = [proc[p] EXCEPT !.bytes = n, !.record = IF @ = "never" THEN "never" ELSE "missed"]
    BY <2>1, <2>2 DEF ProcessInv
  <2>4. proc'[p].born = proc[p].born /\ proc'[p].record \in {"never", "missed"}
        /\ (proc'[p].record = "never" <=> proc[p].record = "never") /\ proc'[p].fd = proc[p].fd
    BY <1>1, <2>3 DEF Process
  <2>5. FileOk(p)'
    BY <1>1, <2>1, <2>3, <2>4 DEF FileOk, ProcessInv, FileInv, Alive
  <2>6. FileInv'
    BY <2>1, <2>3, <2>5, FilesKept DEF ProcessInv
  <2> QED
    BY <1>1, <2>1, <2>3, <2>4, <2>6 DEF ProcessInv
<1> QED
  BY <1>2, <1>3 DEF ChangeTotal

\* The file is written, or not; one that was unlinked is written for nobody.
LEMMA WriteFinishes ==
  ASSUME ProcessInv, NEW p \in Pid, FinishWrite(p) PROVE ProcessInv'
<1>1. PICK w \in writing[p] :
        /\ writing' = [writing EXCEPT ![p] = @ \ {w}] /\ births' = births
        /\ \/ w.linked /\ file' = [file EXCEPT ![p] = Written(proc[p].born, w.bytes)] /\ proc' = proc
           \/ proc' = [proc EXCEPT ![p].record = "missed"] /\ file' = file
  BY DEF FinishWrite
<1>2. /\ proc[p] \in Process /\ proc[p].born <= births /\ births \in Nat /\ w \in Update
      /\ (\A v \in writing[p] : v = w) /\ Alive(p) /\ proc[p].record # "never"
      /\ proc[p].record = "current" => w.bytes = proc[p].bytes
  BY DEF ProcessInv, FileInv
<1>3. writing' \in [Pid -> SUBSET Update] /\ writing'[p] = {} /\ \A q \in Pid \ {p} : writing'[q] = writing[q]
  BY <1>1, <1>2 DEF ProcessInv
<1>4. CASE w.linked /\ file' = [file EXCEPT ![p] = Written(proc[p].born, w.bytes)] /\ proc' = proc
  <2>1. Written(proc[p].born, w.bytes) \in File
    BY <1>2 DEF Written, File, Process, Update
  <2>2. /\ file' \in [Pid -> File] /\ file'[p] = Written(proc[p].born, w.bytes)
        /\ \A q \in Pid \ {p} : file'[q] = file[q]
    BY <1>4, <2>1 DEF ProcessInv
  <2>3. file'[p].by = proc[p].born
    BY <2>2 DEF Written
  <2>4. FileOk(p)'
    BY <1>2, <1>3, <1>4, <2>2, <2>3 DEF FileOk, Alive
  <2>5. FileInv'
    BY <1>3, <1>4, <2>2, <2>4, FilesKept DEF ProcessInv
  <2> QED
    BY <1>1, <1>2, <1>3, <1>4, <2>2, <2>3, <2>5 DEF ProcessInv
<1>5. CASE proc' = [proc EXCEPT ![p].record = "missed"] /\ file' = file
  <2>1. [proc[p] EXCEPT !.record = "missed"] \in Process
    BY <1>2 DEF Process
  <2>2. /\ proc' \in [Pid -> Process] /\ (\A q \in Pid \ {p} : proc'[q] = proc[q])
        /\ proc'[p].born = proc[p].born /\ proc'[p].record = "missed"
    BY <1>2, <1>5, <2>1 DEF ProcessInv, Process
  <2>3. FileOk(p)'
    BY <1>2, <1>3, <1>5, <2>2 DEF FileOk, ProcessInv, FileInv, Alive
  <2>4. FileInv'
    BY <1>3, <1>5, <2>2, <2>3, FilesKept DEF ProcessInv
  <2> QED
    BY <1>1, <1>2, <1>3, <1>5, <2>2, <2>4 DEF ProcessInv
<1> QED
  BY <1>1, <1>4, <1>5

\* The destructor unlinks the file, and what other threads are writing goes nowhere.
LEMMA ExitBegins ==
  ASSUME ProcessInv, NEW p \in Pid, BeginExit(p) PROVE ProcessInv'
<1>1. /\ births' = births /\ Alive(p)
      /\ proc' = [proc EXCEPT ![p] = [proc[p] EXCEPT !.exiting = TRUE,
                                        !.record = IF @ = "never" THEN "never" ELSE "missed"]]
      /\ file' = [file EXCEPT ![p] = Absent]
      /\ writing' = [writing EXCEPT ![p] = {[w EXCEPT !.linked = FALSE] : w \in @}]
  BY DEF BeginExit
<1>2. proc[p] \in Process /\ births \in Nat /\ writing[p] \subseteq Update
  BY DEF ProcessInv
<1>3. /\ [proc[p] EXCEPT !.exiting = TRUE, !.record = IF @ = "never" THEN "never" ELSE "missed"] \in Process
      /\ Absent \in File
  BY <1>2, SizesAssumption DEF Process, Absent, File
<1>4. /\ proc' \in [Pid -> Process] /\ (\A q \in Pid \ {p} : proc'[q] = proc[q])
      /\ proc'[p].born = proc[p].born /\ proc'[p].record \in {"never", "missed"}
      /\ (proc'[p].record = "never" <=> proc[p].record = "never")
      /\ file' \in [Pid -> File] /\ file'[p] = Absent /\ \A q \in Pid \ {p} : file'[q] = file[q]
  BY <1>1, <1>2, <1>3 DEF ProcessInv, Process
<1>5. file'[p].state = "absent" /\ file'[p].by = 0
  BY <1>4 DEF Absent
<1>6. /\ writing' \in [Pid -> SUBSET Update] /\ \A q \in Pid \ {p} : writing'[q] = writing[q]
      /\ \A v, w \in writing'[p] : v = w
      /\ writing'[p] # {} => writing[p] # {}
  <2>1. {[w EXCEPT !.linked = FALSE] : w \in writing[p]} \subseteq Update
    BY <1>2 DEF Update
  <2>2. writing' \in [Pid -> SUBSET Update] /\ writing'[p] = {[w EXCEPT !.linked = FALSE] : w \in writing[p]}
        /\ \A q \in Pid \ {p} : writing'[q] = writing[q]
    BY <1>1, <2>1 DEF ProcessInv
  <2>3. \A v, w \in writing[p] : v = w
    BY DEF ProcessInv, FileInv
  <2> QED
    BY <2>2, <2>3
<1>7. FileOk(p)'
  BY <1>1, <1>4, <1>5, <1>6 DEF FileOk, ProcessInv, FileInv, Alive
<1>8. FileInv'
  BY <1>4, <1>6, <1>7, FilesKept DEF ProcessInv
<1> QED
  BY <1>1, <1>2, <1>4, <1>5, <1>6, <1>8 DEF ProcessInv

\* A process is gone; its file stays if it was killed.
LEMMA Vanishes ==
  ASSUME ProcessInv, NEW p \in Pid, Vanish(p) PROVE ProcessInv'
<1>1. /\ births' = births /\ births \in Nat /\ file' = file
      /\ proc' = [proc EXCEPT ![p] = NoProcess] /\ writing' = [writing EXCEPT ![p] = {}]
  BY DEF Vanish, ProcessInv
<1>2. NoProcess \in Process
  BY SizesAssumption, TableAssumption DEF NoProcess, Process
<1>3. /\ proc' \in [Pid -> Process] /\ proc'[p] = NoProcess /\ (\A q \in Pid \ {p} : proc'[q] = proc[q])
      /\ writing' \in [Pid -> SUBSET Update] /\ writing'[p] = {} /\ \A q \in Pid \ {p} : writing'[q] = writing[q]
  BY <1>1, <1>2 DEF ProcessInv
<1>4. proc'[p].born = 0 /\ proc'[p].record = "never" /\ ~proc'[p].fd
  BY <1>3 DEF NoProcess
<1>5. FileOk(p)'
  BY <1>3, <1>4 DEF FileOk, Alive
<1>6. FileInv'
  BY <1>1, <1>3, <1>5, FilesKept DEF ProcessInv
<1> QED
  BY <1>1, <1>3, <1>4, <1>6 DEF ProcessInv

\* A step of a process keeps the invariant.
LEMMA ProcessKeeps ==
  ASSUME MonitorInv, NEW p \in Pid, ProcessStep(p) PROVE MonitorInv'
<1>1. Disturb
  BY DEF ProcessStep, Spawn, OpenDevice, Run, ChangeTotal, FinishWrite, BeginExit, EndExit, Kill, Vanish
<1>2. /\ use' = use /\ slots' = slots /\ scan' \in Scan /\ SlotInv' /\ RateInv' /\ ScanInv'
  BY <1>1, Disturbed DEF MonitorInv
<1>3. ProcessInv
  BY DEF MonitorInv, TypeInv, ProcessInv
<1>4. ProcessInv'
  BY <1>3, Spawned, SmallSteps, TotalChanges, WriteFinishes, ExitBegins, Vanishes
  DEF ProcessStep, EndExit, Kill
<1> QED
  BY <1>2, <1>4 DEF MonitorInv, TypeInv, ProcessInv

-----------------------------------------------------------------------------
(***************************************************************************)
(* The monitor.                                                            *)
(***************************************************************************)
\* The order of the natural numbers, as a relation the provers can use.
LEMMA LessThanWellFounded ==
  \E R : IsWellFoundedOn(R, Nat) /\ \A x, y \in Nat : x < y => <<x, y>> \in R
<1>1. \A x, y \in Nat : x < y => <<x, y>> \in OpToRel(<, Nat)
  BY DEF OpToRel
<1>2. QED
  BY <1>1, NatLessThanWellFounded, Zenon

\* A set of natural numbers that is not empty has a least element.
LEMMA LeastElement ==
  ASSUME NEW S, S \subseteq Nat, S # {}
  PROVE  \E x \in S : \A y \in S : x <= y
<1>1. PICK R : IsWellFoundedOn(R, Nat) /\ \A x, y \in Nat : x < y => <<x, y>> \in R
  BY LessThanWellFounded
<1>2. IsWellFoundedOn(R, Nat)
  BY <1>1
<1>3. \A T \in SUBSET Nat : T # {} => \E x \in T : \A y \in T : ~(<<y, x>> \in R)
  BY <1>2, WFMin, Zenon
<1>4. PICK x \in S : \A y \in S : ~(<<y, x>> \in R)
  BY <1>3
<1>5. \A y \in S : ~(y < x)
  BY <1>1, <1>4
<1>6. QED
  BY <1>4, <1>5

\* The least of some indexes is one of them.
LEMMA MinIsMember ==
  ASSUME NEW S, S \subseteq Nat, S # {}
  PROVE  Min(S) \in S
BY LeastElement DEF Min

\* A sample is looked for and put among the samples there are.
LEMMA SlotIsOne == ASSUME NEW p \in Pid PROVE SlotOf(p) \in 1..Slots
<1>1. Slots \in Nat \ {0} /\ p \in Nat
  BY TableAssumption DEF Pid
<1>2. ASSUME NEW S, S \subseteq 1..Slots, S # {} PROVE Min(S) \in 1..Slots
  <2>1. S \subseteq Nat
    BY <1>1, <1>2
  <2>2. Min(S) \in S
    BY <1>2, <2>1, MinIsMember
  <2> QED
    BY <1>2, <2>2
<1>3. (p % Slots) + 1 \in 1..Slots
  BY <1>1
<1> QED
  BY <1>2, <1>3 DEF SlotOf

\* The numbers there are.
LEMMA Bounds ==
  /\ LastPid \in Nat \ {0} /\ MaxTicks \in Nat \ {0} /\ Slots \in Nat \ {0} /\ MaxRows \in Nat
  /\ Word \in Nat \ {0} /\ TotalMem \in Nat /\ TotalMem < Word /\ MaxTicks < Word
  /\ Pid \subseteq Nat /\ \A p \in Pid : p + 1 \in 1..(LastPid + 1)
  /\ Sizes \subseteq Nat /\ 0 \in Sizes
  /\ Buffers \subseteq Nat
BY SizesAssumption, WordAssumption, TableAssumption DEF Pid

\* The monitor leaves the processes and their files alone.
LEMMA Looks ==
  ASSUME MonitorInv, Unchanged, scan' \in Scan, slots' \in [1..Slots -> Sampled], SlotInv', RateInv', ScanInv'
  PROVE  MonitorInv'
<1>1. FileInv'
  BY DEF MonitorInv, FileInv, Unchanged, Alive
<1>2. TypeInv'
  BY DEF MonitorInv, TypeInv, Unchanged
<1> QED
  BY <1>1, <1>2 DEF MonitorInv

\* No scan yet.
LEMMA EmptyScan == NoScan \in Scan
<1>1. 1 \in 1..(LastPid + 1) /\ 0 \in 0..LastPid /\ 0 \in 0..(Word - 1) /\ 0 \in 0..TotalMem /\ 0 \in 0..MaxTicks
  BY Bounds
<1>2. NoRate \in [of : {0} \cup Pid, from : {0} \cup Pid, ticks : 0..MaxTicks]
  BY <1>1 DEF NoRate
<1>3. <<>> \in Seq(Figure)
  OBVIOUS
<1> QED
  BY <1>1, <1>2, <1>3 DEF NoScan, Scan, Passes

\* A call starts.
LEMMA ScanStarts ==
  ASSUME MonitorInv, NEW op \in use.does \ {"account", "run"}, NEW cap \in Buffers, StartScan(op, cap)
  PROVE  MonitorInv'
<1> DEFINE c == IF op \in {"list", "util"} THEN cap ELSE IF op = "smi" THEN 0 ELSE LastPid
<1>1. op \in Ops /\ c \in Nat
  BY UsesAssumption, Bounds DEF MonitorInv, TypeInv, Ops
<1>2. scan' = [NoScan EXCEPT !.op = op, !.pass = FirstPass(op), !.cap = c] /\ slots' = slots /\ Unchanged
  BY DEF StartScan
<1>3. NoScan \in Scan
  BY EmptyScan
<1>4. FirstPass(op) \in {"memory", "list", "util", "count"} /\ FirstPass(op) \in PassOf(op)
      /\ (FirstPass(op) \in {"list", "util"} => op \in {"list", "util"})
  BY <1>1 DEF FirstPass, PassOf, Ops
<1>5. scan' \in Scan /\ scan'.op = op /\ scan'.pass = FirstPass(op) /\ scan'.cap = c /\ scan'.at = 1 /\ scan'.found = 0
      /\ scan'.step = "visit" /\ scan'.seen = <<>> /\ scan'.rate = NoRate
  BY <1>1, <1>2, <1>3, <1>4, ZenonT(60) DEF Scan, Passes, NoScan
<1>6. RateInv'
  BY <1>5 DEF RateInv, NoRate
<1>7. SlotInv'
  BY <1>2 DEF MonitorInv, SlotInv
<1>8. ScanInv'
  <2>1. Len(scan'.seen) = 0 /\ DOMAIN scan'.seen = {}
    BY <1>5
  <2>2. /\ scan'.pass # "done" /\ scan'.pass \in PassOf(scan'.op) /\ scan'.found <= scan'.at - 1
        /\ scan'.pass = "count" => scan'.cap = 0
    BY <1>1, <1>4, <1>5 DEF PassOf
  <2>3. SmallerOf(scan'.found, scan'.cap) = 0
    BY <1>1, <1>5 DEF SmallerOf
  <2> QED
    BY <1>5, <2>1, <2>2, <2>3 DEF ScanInv, Listing
<1> QED
  BY <1>2, <1>5, <1>6, <1>7, <1>8, Looks DEF MonitorInv, TypeInv

\* What the record of a scan has.
LEMMA ScanFields ==
  ASSUME MonitorInv
  PROVE  /\ scan \in Scan /\ ScanInv /\ SlotInv /\ RateInv
         /\ slots \in [1..Slots -> Sampled] /\ proc \in [Pid -> Process] /\ file \in [Pid -> File]
BY DEF MonitorInv, TypeInv

\* The numbers of a scan.
LEMMA SeenTyped ==
  ASSUME scan \in Scan
  PROVE  /\ scan.at \in Nat /\ scan.found \in Nat /\ scan.cap \in Nat
         /\ scan.seen \in Seq(Figure) /\ Len(scan.seen) \in Nat /\ DOMAIN scan.seen = 1..Len(scan.seen)
         /\ \A i \in DOMAIN scan.seen : scan.seen[i] \in Figure /\ scan.seen[i].pid \in Nat
<1>1. scan.at \in Nat /\ scan.found \in Nat /\ scan.cap \in Nat /\ scan.seen \in Seq(Figure)
  BY Bounds DEF Scan
<1>2. Len(scan.seen) \in Nat /\ DOMAIN scan.seen = 1..Len(scan.seen)
  BY <1>1, LenProperties
<1>3. \A i \in DOMAIN scan.seen : scan.seen[i] \in Figure
  BY <1>1, <1>2, ElementOfSeq
<1> QED
  BY <1>1, <1>2, <1>3, Bounds DEF Figure

\* A step of a pass that sees nothing new keeps the figures there are.
LEMMA Stays ==
  ASSUME MonitorInv, scan' \in Scan, scan'.op = scan.op, scan'.pass = scan.pass, scan'.cap = scan.cap,
         scan'.seen = scan.seen, scan.pass # "done", scan.step = "visit",
         \/ scan'.step = "visit" /\ scan'.at >= scan.at + 1
              /\ (scan'.found = scan.found \/ (scan'.found = scan.found + 1 /\ scan.found >= scan.cap))
         \/ /\ scan'.step \in {"read", "sample"} /\ scan'.at = scan.at /\ scan'.found = scan.found
            /\ scan.at \in Pid /\ scan.found < scan.cap
            /\ scan'.step = "sample" <=> scan.pass = "load"
            /\ scan.pass # "count"
  PROVE  ScanInv'
<1>1. /\ scan \in Scan /\ ScanInv
  BY ScanFields
<1>2. /\ scan.at \in Nat /\ scan'.at \in Nat /\ scan.found \in Nat /\ scan'.found \in Nat /\ scan.cap \in Nat
      /\ scan.seen \in Seq(Figure) /\ Len(scan.seen) \in Nat
      /\ \A i \in DOMAIN scan.seen : scan.seen[i].pid \in Nat
  <2>1. scan'.at \in Nat /\ scan'.found \in Nat
    BY Bounds DEF Scan
  <2> QED
    BY <1>1, <2>1, SeenTyped
<1>3. \A i \in DOMAIN scan.seen : scan.seen[i].pid < scan.at
  BY <1>1 DEF ScanInv
<1>4. scan.pass \in PassOf(scan.op) /\ scan.found <= scan.at - 1
  BY <1>1 DEF ScanInv
<1>5. scan.pass \in {"memory", "load", "count", "list", "util"}
  BY <1>1 DEF Scan, Passes
<1>6. \A i, j \in DOMAIN scan.seen : i < j => scan.seen[i].pid < scan.seen[j].pid
  BY <1>1 DEF ScanInv
<1>7. /\ scan.pass \in {"list", "util"} => Len(scan.seen) = SmallerOf(scan.found, scan.cap)
      /\ scan.pass \notin {"list", "util"} => scan.seen = <<>>
  BY <1>1 DEF ScanInv, Listing
<1>8. /\ scan'.found <= scan'.at - 1
      /\ \A i \in DOMAIN scan'.seen : scan'.seen[i].pid <= scan'.at /\ (scan'.step # "sample" => scan'.seen[i].pid < scan'.at)
  <2>1. CASE scan'.step = "visit" /\ scan'.at >= scan.at + 1
    BY <1>2, <1>3, <1>4, <2>1, SMTT(30)
  <2>2. CASE scan'.at = scan.at /\ scan'.found = scan.found
    BY <1>2, <1>3, <1>4, <2>2
  <2> QED
    BY <2>1, <2>2
<1>9. CASE scan'.step = "visit" /\ scan'.at >= scan.at + 1
  <2>1. Listing' => Len(scan'.seen) = SmallerOf(scan'.found, scan'.cap)
    BY <1>2, <1>7, <1>9 DEF Listing, SmallerOf
  <2>2. PassOf(scan.op)' = PassOf(scan.op)
    BY DEF PassOf
  <2>3. QED
    <3>1. (scan.pass = "count" => scan.cap = 0) /\ scan'.pass # "done" /\ scan'.step = "visit"
      BY <1>1, <1>9 DEF ScanInv
    <3>2. ~Listing' => scan'.seen = <<>>
      BY <1>5, <1>7 DEF Listing
    <3>3. \A i, j \in DOMAIN scan'.seen : i < j => scan'.seen[i].pid < scan'.seen[j].pid
      BY <1>6
    <3> QED
      BY <1>4, <1>8, <1>9, <2>1, <2>2, <3>1, <3>2, <3>3 DEF ScanInv
<1>10. CASE /\ scan'.step \in {"read", "sample"} /\ scan'.at = scan.at /\ scan'.found = scan.found
            /\ scan.at \in Pid /\ scan.found < scan.cap
            /\ scan'.step = "sample" <=> scan.pass = "load"
            /\ scan.pass # "count"
  <2>1. Listing' => scan'.step = "read" /\ Len(scan'.seen) = scan'.found /\ scan'.found < scan'.cap
    BY <1>2, <1>7, <1>10 DEF Listing, SmallerOf
  <2> QED
    BY <1>4, <1>5, <1>6, <1>7, <1>8, <1>10, <2>1 DEF ScanInv, Listing, PassOf
<1> QED
  BY <1>9, <1>10

\* The next pid.
LEMMA Visited ==
  ASSUME MonitorInv, Visit PROVE MonitorInv'
<1> DEFINE p == scan.at
           stop == scan.pass = "count" /\ scan.found + 1 >= MaxProcs
           next == IF stop THEN LastPid + 1 ELSE p + 1
           over == p \in OnGpu /\ ~(scan.found < scan.cap)
<1>1. /\ scan.pass # "done" /\ scan.step = "visit" /\ p \in Pid /\ Unchanged /\ slots' = slots
      /\ scan' = IF p \notin OnGpu THEN [scan EXCEPT !.at = p + 1]
                 ELSE IF scan.found < scan.cap
                   THEN [scan EXCEPT !.step = IF scan.pass = "load" THEN "sample" ELSE "read"]
                 ELSE [scan EXCEPT !.found = @ + 1, !.at = next]
  BY DEF Visit, Scanning
<1>2. scan \in Scan /\ scan.found <= scan.at - 1 /\ (scan.pass = "count" => scan.cap = 0) /\ RateInv /\ SlotInv
      /\ slots \in [1..Slots -> Sampled]
  BY ScanFields DEF ScanInv
<1>3. /\ p \in Nat /\ scan.found \in Nat /\ scan.cap \in Nat /\ p + 1 \in 1..(LastPid + 1)
      /\ LastPid \in Nat /\ p <= LastPid /\ scan.found <= LastPid - 1
  <2>1. p \in 1..LastPid /\ LastPid \in Nat
    BY <1>1, Bounds DEF Pid
  <2>2. scan.found \in Nat /\ scan.cap \in Nat
    BY <1>2, SeenTyped
  <2> QED
    BY <1>2, <2>1, <2>2
<1>4. next \in 1..(LastPid + 1) /\ next >= p + 1 /\ scan.found + 1 \in 0..LastPid
  BY <1>3
<1>5. CASE p \notin OnGpu
  <2>1. scan' = [scan EXCEPT !.at = p + 1]
    BY <1>1, <1>5
  <2>2. /\ scan' \in Scan /\ scan'.op = scan.op /\ scan'.pass = scan.pass /\ scan'.cap = scan.cap
        /\ scan'.seen = scan.seen /\ scan'.step = "visit" /\ scan'.at = p + 1 /\ scan'.found = scan.found
        /\ scan'.rate = scan.rate
    BY <1>1, <1>2, <1>3, <2>1 DEF Scan
  <2>3. ScanInv'
    BY <1>1, <1>3, <2>2, Stays
  <2> QED
    BY <1>1, <1>2, <2>2, <2>3, Looks DEF RateInv, SlotInv
<1>6. CASE p \in OnGpu /\ scan.found < scan.cap
  <2>1. scan' = [scan EXCEPT !.step = IF scan.pass = "load" THEN "sample" ELSE "read"]
    BY <1>1, <1>6
  <2>2. /\ scan' \in Scan /\ scan'.op = scan.op /\ scan'.pass = scan.pass /\ scan'.cap = scan.cap
        /\ scan'.seen = scan.seen /\ scan'.at = scan.at /\ scan'.found = scan.found /\ scan'.rate = scan.rate
        /\ scan'.step = IF scan.pass = "load" THEN "sample" ELSE "read"
    BY <1>1, <1>2, <2>1 DEF Scan
  <2>3. ScanInv'
    BY <1>1, <1>2, <1>3, <1>6, <2>2, Stays
  <2> QED
    BY <1>1, <1>2, <2>2, <2>3, Looks DEF RateInv, SlotInv
<1>7. CASE p \in OnGpu /\ ~(scan.found < scan.cap)
  <2>1. scan' = [scan EXCEPT !.found = @ + 1, !.at = next]
    BY <1>1, <1>7
  <2>2. /\ scan' \in Scan /\ scan'.op = scan.op /\ scan'.pass = scan.pass /\ scan'.cap = scan.cap
        /\ scan'.seen = scan.seen /\ scan'.step = "visit" /\ scan'.at = next /\ scan'.found = scan.found + 1
        /\ scan'.rate = scan.rate
    BY <1>1, <1>2, <1>4, <2>1 DEF Scan
  <2>3. ScanInv'
    BY <1>1, <1>3, <1>4, <1>7, <2>2, Stays
  <2> QED
    BY <1>1, <1>2, <2>2, <2>3, Looks DEF RateInv, SlotInv
<1> QED
  BY <1>5, <1>6, <1>7

\* A sum stays in its word.
LEMMA Remains == ASSUME NEW a \in Nat PROVE a % Word \in 0..(Word - 1)
BY Bounds

\* A difference made without going below zero.
LEMMA Wraps ==
  ASSUME NEW b \in 0..MaxTicks, NEW c \in 0..MaxTicks, b <= c
  PROVE  (c + Word - b) % Word \in 0..MaxTicks
<1>1. /\ Word \in Nat /\ Word > 0 /\ MaxTicks \in Nat /\ MaxTicks < Word /\ b \in Int /\ c \in Int
      /\ 0 <= b /\ b <= c /\ c <= MaxTicks
  BY Bounds
<1>2. (c + Word - b) % Word = c - b
  <2>1. 0 <= c - b /\ c - b < Word /\ (c + Word - b) - Word = c - b
    BY <1>1
  <2> QED
    BY <1>1, <2>1
<1>3. c - b \in 0..MaxTicks
  BY <1>1
<1> QED
  BY <1>2, <1>3

\* A figure is of the process it was read for.
LEMMA FiguresTyped ==
  ASSUME MonitorInv, NEW p \in Pid, NEW figure \in Figures(p)
  PROVE  figure \in Figure /\ figure.pid = p /\ figure.bytes \in Nat
<1>1. file[p] \in File
  BY ScanFields
<1>2. \/ figure = [pid |-> p, src |-> "file", bytes |-> file[p].bytes]
      \/ figure = [pid |-> p, src |-> "none", bytes |-> 0]
      \/ \E n \in Sizes : figure = [pid |-> p, src |-> "maps", bytes |-> n]
  BY DEF Figures
<1>3. file[p].bytes \in Sizes /\ 0 \in Sizes /\ Sizes \subseteq Nat
  BY <1>1, Bounds DEF File
<1>4. PICK src \in {"file", "none", "maps"}, n \in Sizes : figure = [pid |-> p, src |-> src, bytes |-> n]
  BY <1>2, <1>3
<1>5. figure.pid = p /\ figure.bytes = n /\ figure \in Figure
  BY <1>3, <1>4 DEF Figure
<1> QED
  BY <1>3, <1>5

\* One more figure, of a pid behind all those seen.
LEMMA FigureAdded ==
  ASSUME NEW seen \in Seq(Figure), NEW figure \in Figure, NEW at \in Nat, figure.pid = at,
         \A i \in DOMAIN seen : seen[i].pid < at,
         \A i, j \in DOMAIN seen : i < j => seen[i].pid < seen[j].pid
  PROVE  /\ Append(seen, figure) \in Seq(Figure) /\ Len(Append(seen, figure)) = Len(seen) + 1
         /\ \A i \in DOMAIN Append(seen, figure) : Append(seen, figure)[i].pid <= at
         /\ \A i, j \in DOMAIN Append(seen, figure) :
              i < j => Append(seen, figure)[i].pid < Append(seen, figure)[j].pid
<1> DEFINE n == Len(seen)
           t == Append(seen, figure)
<1>1. n \in Nat /\ DOMAIN seen = 1..n
  BY LenProperties
<1>2. /\ t \in Seq(Figure) /\ Len(t) = n + 1 /\ DOMAIN t = 1..(n + 1)
      /\ \A i \in 1..n : t[i] = seen[i]
      /\ t[n + 1] = figure
  BY <1>1, AppendProperties, LenProperties
<1>3. \A i \in DOMAIN t : i \in 1..n \/ i = n + 1
  BY <1>1, <1>2
<1>4. \A i \in 1..n : t[i].pid < at /\ t[i].pid \in Nat
  <2>1. \A i \in 1..n : seen[i] \in Figure
    BY <1>1, ElementOfSeq
  <2>2. \A f \in Figure : f.pid \in Nat
    BY Bounds DEF Figure
  <2> QED
    BY <1>1, <1>2, <2>1, <2>2
<1>5. t[n + 1].pid = at
  BY <1>2
<1>6. \A i \in DOMAIN t : t[i].pid <= at
  BY <1>3, <1>4, <1>5
<1>7. ASSUME NEW i \in DOMAIN t, NEW j \in DOMAIN t, i < j PROVE t[i].pid < t[j].pid
  <2>1. i \in 1..n
    BY <1>1, <1>2, <1>7
  <2>2. CASE j \in 1..n
    BY <1>1, <1>2, <1>7, <2>1, <2>2
  <2>3. CASE j = n + 1
    BY <1>4, <1>5, <2>1, <2>3
  <2> QED
    BY <1>3, <2>2, <2>3
<1> HIDE DEF t, n
<1>8. t \in Seq(Figure) /\ Len(t) = n + 1
  BY <1>2
<1> QED
  BY <1>6, <1>7, <1>8 DEF t, n

\* The memory of a process.
LEMMA MemoryRead ==
  ASSUME MonitorInv, ReadMemory PROVE MonitorInv'
<1> DEFINE p == scan.at
<1>1. /\ scan.pass # "done" /\ scan.step = "read" /\ Unchanged /\ slots' = slots
      /\ \E figure \in Figures(p) :
          scan' =
            CASE scan.pass = "memory" ->
                   [scan EXCEPT !.total = (@ + figure.bytes) % Word, !.at = @ + 1, !.step = "visit"]
              [] scan.pass = "list" ->
                   [scan EXCEPT !.seen = Append(@, figure), !.found = @ + 1,
                                !.at = @ + 1, !.step = "visit"]
              [] scan.pass = "util" ->
                   [scan EXCEPT !.seen = Append(@, figure), !.step = "sample"]
  BY DEF ReadMemory, Scanning
<1>2. PICK figure \in Figures(p) :
        scan' =
          CASE scan.pass = "memory" ->
                 [scan EXCEPT !.total = (@ + figure.bytes) % Word, !.at = @ + 1, !.step = "visit"]
            [] scan.pass = "list" ->
                 [scan EXCEPT !.seen = Append(@, figure), !.found = @ + 1,
                              !.at = @ + 1, !.step = "visit"]
            [] scan.pass = "util" ->
                 [scan EXCEPT !.seen = Append(@, figure), !.step = "sample"]
  BY <1>1
<1>3. /\ scan \in Scan /\ RateInv /\ SlotInv /\ slots \in [1..Slots -> Sampled]
      /\ scan.pass \in PassOf(scan.op) /\ scan.found <= p - 1 /\ p \in Pid /\ scan.pass \in {"memory", "list", "util"}
      /\ scan.pass \in {"list", "util"} => Len(scan.seen) = scan.found /\ scan.found < scan.cap
      /\ scan.pass = "memory" => scan.seen = <<>>
      /\ \A i, j \in DOMAIN scan.seen : i < j => scan.seen[i].pid < scan.seen[j].pid
      /\ \A i \in DOMAIN scan.seen : scan.seen[i].pid < p
  BY <1>1, ScanFields DEF ScanInv, Listing
<1>4. /\ p \in Nat /\ scan.found \in Nat /\ scan.cap \in Nat /\ p + 1 \in 1..(LastPid + 1)
      /\ scan.seen \in Seq(Figure) /\ scan.total \in Nat
  BY <1>3, SeenTyped, Bounds, SMTT(30) DEF Scan
<1>5. scan.found + 1 \in 0..LastPid
  <2>1. p \in 1..LastPid /\ LastPid \in Nat /\ scan.found \in Nat /\ scan.found <= p - 1
    BY <1>3, <1>4, Bounds DEF Pid
  <2> QED
    BY <2>1
<1>6. figure \in Figure /\ figure.pid = p /\ figure.bytes \in Nat
  BY <1>2, <1>3, FiguresTyped
<1> DEFINE seen == Append(scan.seen, figure)
<1>7. /\ seen \in Seq(Figure) /\ Len(seen) = Len(scan.seen) + 1
      /\ \A i \in DOMAIN seen : seen[i].pid <= p /\ seen[i].pid <= p + 1 /\ seen[i].pid < p + 1
      /\ \A i, j \in DOMAIN seen : i < j => seen[i].pid < seen[j].pid
  <2>1. /\ seen \in Seq(Figure) /\ Len(seen) = Len(scan.seen) + 1
        /\ \A i \in DOMAIN seen : seen[i].pid <= p
        /\ \A i, j \in DOMAIN seen : i < j => seen[i].pid < seen[j].pid
    BY <1>3, <1>4, <1>6, FigureAdded
  <2> HIDE DEF seen
  <2>2. DOMAIN seen = 1..Len(seen) /\ \A i \in 1..Len(seen) : seen[i] \in Figure
    BY <2>1, ElementOfSeq, LenProperties
  <2>3. \A f \in Figure : f.pid \in Nat
    BY Bounds DEF Figure
  <2>4. \A i \in DOMAIN seen : seen[i].pid \in Nat
    BY <2>2, <2>3
  <2> QED
    BY <1>4, <2>1, <2>4
<1> HIDE DEF seen
<1>8. CASE scan.pass = "memory"
  <2> DEFINE total == (scan.total + figure.bytes) % Word
  <2>1. total \in 0..(Word - 1)
    <3>1. scan.total + figure.bytes \in Nat
      BY <1>4, <1>6
    <3> QED
      BY <3>1, Remains
  <2>2. scan' = [scan EXCEPT !.total = total, !.at = p + 1, !.step = "visit"]
    BY <1>2, <1>8
  <2> HIDE DEF total
  <2>3. /\ scan' \in Scan /\ scan'.op = scan.op /\ scan'.pass = "memory" /\ scan'.cap = scan.cap
        /\ scan'.seen = <<>> /\ scan'.at = p + 1 /\ scan'.found = scan.found /\ scan'.rate = scan.rate
        /\ scan'.step = "visit"
    BY <1>3, <1>4, <1>8, <2>1, <2>2 DEF Scan
  <2>4. ScanInv'
    <3>1. scan'.pass # "done" /\ scan'.pass \in PassOf(scan'.op) /\ scan'.found <= scan'.at - 1
      BY <1>3, <1>4, <1>8, <2>3 DEF PassOf
    <3> QED
      BY <2>3, <3>1 DEF ScanInv, Listing
  <2> QED
    BY <1>1, <1>3, <2>3, <2>4, Looks DEF RateInv, SlotInv
<1>9. CASE scan.pass = "list"
  <2>1. scan' = [scan EXCEPT !.seen = seen, !.found = scan.found + 1, !.at = p + 1, !.step = "visit"]
    BY <1>2, <1>9 DEF seen
  <2>2. /\ scan' \in Scan /\ scan'.op = scan.op /\ scan'.pass = "list" /\ scan'.cap = scan.cap
        /\ scan'.seen = seen /\ scan'.at = p + 1 /\ scan'.found = scan.found + 1 /\ scan'.rate = scan.rate
        /\ scan'.step = "visit"
    BY <1>3, <1>4, <1>5, <1>7, <1>9, <2>1 DEF Scan
  <2>3. ScanInv'
    <3>1. scan'.pass # "done" /\ scan'.pass \in PassOf(scan'.op) /\ scan'.found <= scan'.at - 1
      BY <1>3, <1>4, <1>9, <2>2 DEF PassOf
    <3>2. Len(scan'.seen) = SmallerOf(scan'.found, scan'.cap)
      BY <1>3, <1>4, <1>7, <1>9, <2>2 DEF SmallerOf
    <3>3. /\ \A i, j \in DOMAIN scan'.seen : i < j => scan'.seen[i].pid < scan'.seen[j].pid
          /\ \A i \in DOMAIN scan'.seen : scan'.seen[i].pid <= scan'.at /\ scan'.seen[i].pid < scan'.at
      <4>1. \A i \in DOMAIN seen : seen[i].pid <= p + 1 /\ seen[i].pid < p + 1
        BY <1>7
      <4> QED
        BY <1>7, <2>2, <4>1
    <3> QED
      BY <2>2, <3>1, <3>2, <3>3 DEF ScanInv, Listing
  <2> QED
    BY <1>1, <1>3, <2>2, <2>3, Looks DEF RateInv, SlotInv
<1>10. CASE scan.pass = "util"
  <2>1. scan' = [scan EXCEPT !.seen = seen, !.step = "sample"]
    BY <1>2, <1>10 DEF seen
  <2>2. /\ scan' \in Scan /\ scan'.op = scan.op /\ scan'.pass = "util" /\ scan'.cap = scan.cap
        /\ scan'.seen = seen /\ scan'.at = p /\ scan'.found = scan.found /\ scan'.rate = scan.rate
        /\ scan'.step = "sample"
    BY <1>3, <1>7, <1>10, <2>1 DEF Scan
  <2>3. ScanInv'
    <3>1. scan'.pass # "done" /\ scan'.pass \in PassOf(scan'.op) /\ scan'.found <= scan'.at - 1
      BY <1>3, <1>10, <2>2 DEF PassOf
    <3>2. Len(scan'.seen) = scan'.found + 1 /\ scan'.found < scan'.cap
      BY <1>3, <1>7, <1>10, <2>2
    <3>3. /\ \A i, j \in DOMAIN scan'.seen : i < j => scan'.seen[i].pid < scan'.seen[j].pid
          /\ \A i \in DOMAIN scan'.seen : scan'.seen[i].pid <= scan'.at
      BY <1>7, <2>2
    <3> QED
      BY <1>3, <2>2, <3>1, <3>2, <3>3 DEF ScanInv, Listing
  <2> QED
    BY <1>1, <1>3, <2>2, <2>3, Looks DEF RateInv, SlotInv
<1> QED
  BY <1>3, <1>8, <1>9, <1>10

\* The rate of a process is from its own sample, and at most its CPU time.
LEMMA RateTyped ==
  ASSUME MonitorInv, NEW p \in Pid, NEW old \in BOOLEAN
  PROVE  LET rate == Rate(p, SampleBefore(p), old) IN
           rate \in [of : {0} \cup Pid, from : {0} \cup Pid, ticks : 0..MaxTicks] /\ rate.of = p /\ rate.from = p
<1> DEFINE s == SampleBefore(p)
           rate == Rate(p, s, old)
<1>1. SlotOf(p) \in 1..Slots /\ SlotInv /\ slots \in [1..Slots -> Sampled] /\ proc[p] \in Process
  BY SlotIsOne, ScanFields
<1>2. /\ slots[SlotOf(p)] \in Sampled /\ (slots[SlotOf(p)].taken => slots[SlotOf(p)].of = slots[SlotOf(p)].pid)
      /\ proc[p].ticks \in 0..MaxTicks /\ 0 \in 0..MaxTicks
  BY <1>1, Bounds DEF SlotInv, Process
<1>3. s \in Sampled /\ (s.taken => s.of = p)
  <2>1. CASE slots[SlotOf(p)].pid = p
    BY <1>2, <2>1 DEF SampleBefore
  <2>2. CASE slots[SlotOf(p)].pid # p
    <3>1. s = [NoSample EXCEPT !.pid = p]
      BY <2>2 DEF SampleBefore
    <3>2. NoSample \in Sampled /\ ~NoSample.taken
      BY <1>2 DEF NoSample, Sampled
    <3> QED
      BY <3>1, <3>2 DEF Sampled
  <2> QED
    BY <2>1, <2>2
<1>4. s.ticks \in 0..MaxTicks /\ s.last \in 0..MaxTicks /\ s.taken \in BOOLEAN
  BY <1>3 DEF Sampled
<1> HIDE DEF s
<1>5. CASE s.taken /\ old /\ proc[p].ticks >= s.ticks
  <2>1. rate = [of |-> p, from |-> s.of, ticks |-> (proc[p].ticks + Word - s.ticks) % Word]
    BY <1>5 DEF Rate
  <2>2. (proc[p].ticks + Word - s.ticks) % Word \in 0..MaxTicks
    BY <1>2, <1>4, <1>5, Wraps, Bounds
  <2>3. \E t \in 0..MaxTicks : rate = [of |-> p, from |-> p, ticks |-> t]
    BY <1>3, <1>5, <2>1, <2>2
  <2> HIDE DEF rate
  <2>4. rate \in [of : {0} \cup Pid, from : {0} \cup Pid, ticks : 0..MaxTicks] /\ rate.of = p /\ rate.from = p
    BY <2>3
  <2> QED
    BY <2>4 DEF rate, s
<1>6. CASE ~(s.taken /\ old /\ proc[p].ticks >= s.ticks) /\ s.taken /\ ~old
  <2>1. rate = [of |-> p, from |-> s.of, ticks |-> s.last]
    BY <1>6 DEF Rate
  <2> QED
    BY <1>3, <1>4, <1>6, <2>1 DEF s
<1>7. CASE ~(s.taken /\ old /\ proc[p].ticks >= s.ticks) /\ ~(s.taken /\ ~old)
  <2>1. rate = [of |-> p, from |-> p, ticks |-> proc[p].ticks]
    BY <1>7 DEF Rate
  <2> QED
    BY <1>2, <2>1 DEF s
<1> QED
  BY <1>5, <1>6, <1>7

\* The end of a visit after a sample: the pass goes on or is at its end.
LEMMA SampledOn ==
  ASSUME MonitorInv, Scanning("sample"), Unchanged, slots' \in [1..Slots -> Sampled], SlotInv',
         NEW rate \in [of : {0} \cup Pid, from : {0} \cup Pid, ticks : 0..MaxTicks], rate.from = rate.of,
         NEW next \in 1..(LastPid + 1), next >= scan.at + 1,
         scan' = [scan EXCEPT !.rate = rate, !.found = @ + 1, !.step = "visit", !.at = next]
  PROVE  MonitorInv'
<1> DEFINE p == scan.at
<1>1. /\ scan \in Scan /\ scan.pass \in PassOf(scan.op) /\ scan.found <= p - 1 /\ p \in Pid
      /\ scan.pass \in {"load", "util"}
      /\ scan.pass = "util" => Len(scan.seen) = scan.found + 1 /\ scan.found < scan.cap
      /\ scan.pass = "load" => scan.seen = <<>>
      /\ \A i, j \in DOMAIN scan.seen : i < j => scan.seen[i].pid < scan.seen[j].pid
      /\ \A i \in DOMAIN scan.seen : scan.seen[i].pid <= p
  BY ScanFields DEF ScanInv, Listing, Scanning
<1>2. /\ p \in Nat /\ scan.found \in Nat /\ scan.cap \in Nat /\ scan.found + 1 \in 0..LastPid /\ next \in Nat
      /\ \A i \in DOMAIN scan.seen : scan.seen[i].pid \in Nat
  <2>1. p \in 1..LastPid /\ LastPid \in Nat /\ next \in Nat
    BY <1>1, Bounds DEF Pid
  <2>2. /\ scan.found \in Nat /\ scan.cap \in Nat
        /\ \A i \in DOMAIN scan.seen : scan.seen[i].pid \in Nat
    BY <1>1, SeenTyped
  <2> QED
    BY <1>1, <2>1, <2>2
<1>3. /\ scan' \in Scan /\ scan'.op = scan.op /\ scan'.pass = scan.pass /\ scan'.cap = scan.cap
      /\ scan'.seen = scan.seen /\ scan'.at = next /\ scan'.found = scan.found + 1 /\ scan'.rate = rate
      /\ scan'.step = "visit"
  BY <1>1, <1>2 DEF Scan
<1>4. ScanInv'
  <2>1. scan'.pass # "done" /\ scan'.pass \in PassOf(scan'.op) /\ scan'.found <= scan'.at - 1 /\ scan'.pass # "count"
    <3>1. PassOf(scan.op)' = PassOf(scan.op)
      BY <1>3 DEF PassOf
    <3> QED
      BY <1>1, <1>2, <1>3, <3>1, SMTT(30) DEF PassOf
  <2>2. scan'.pass = "util" => Len(scan'.seen) = SmallerOf(scan'.found, scan'.cap)
    BY <1>1, <1>2, <1>3 DEF SmallerOf
  <2>3. /\ \A i, j \in DOMAIN scan'.seen : i < j => scan'.seen[i].pid < scan'.seen[j].pid
        /\ \A i \in DOMAIN scan'.seen : scan'.seen[i].pid <= scan'.at /\ scan'.seen[i].pid < scan'.at
    <3>1. \A i \in DOMAIN scan.seen : scan.seen[i].pid <= next /\ scan.seen[i].pid < next
      BY <1>1, <1>2
    <3> QED
      BY <1>1, <1>3, <3>1
  <2> QED
    BY <1>1, <1>3, <2>1, <2>2, <2>3 DEF ScanInv, Listing
<1>5. RateInv'
  BY <1>3 DEF RateInv
<1> QED
  BY <1>3, <1>4, <1>5, Looks

\* The sample of a process.
LEMMA SampleTaken ==
  ASSUME MonitorInv, Sample PROVE MonitorInv'
<1> DEFINE p == scan.at
           s == SampleBefore(p)
<1>1. Scanning("sample") /\ Unchanged /\ p \in Pid
  BY ScanFields DEF Sample, ScanInv, Scanning
<1>2. scan \in Scan /\ SlotInv /\ RateInv /\ slots \in [1..Slots -> Sampled] /\ proc[p] \in Process
  BY <1>1, ScanFields
<1>3. p + 1 \in 1..(LastPid + 1) /\ LastPid + 1 \in 1..(LastPid + 1) /\ p \in Nat /\ LastPid + 1 >= p + 1
  BY <1>1, Bounds DEF Pid
<1>4. PICK old, enough \in BOOLEAN :
        IF Alive(p)
          THEN /\ slots' = [slots EXCEPT ![SlotOf(p)] =
                    [pid |-> p, ticks |-> proc[p].ticks, taken |-> TRUE, last |-> Rate(p, s, old).ticks, of |-> p]]
               /\ scan' = [scan EXCEPT !.rate = Rate(p, s, old), !.found = @ + 1, !.step = "visit",
                                       !.at = AfterSample(p, enough)]
          ELSE /\ UNCHANGED slots
               /\ scan' = [scan EXCEPT !.found = @ + 1, !.at = p + 1, !.step = "visit"]
  BY DEF Sample
<1>5. CASE Alive(p)
  <2> DEFINE rate == Rate(p, s, old)
             new == [pid |-> p, ticks |-> proc[p].ticks, taken |-> TRUE, last |-> rate.ticks, of |-> p]
             next == AfterSample(p, enough)
  <2>1. /\ rate \in [of : {0} \cup Pid, from : {0} \cup Pid, ticks : 0..MaxTicks]
        /\ rate.of = p /\ rate.from = p
    BY <1>1, RateTyped
  <2>2. slots' = [slots EXCEPT ![SlotOf(p)] = new]
        /\ scan' = [scan EXCEPT !.rate = rate, !.found = @ + 1, !.step = "visit", !.at = next]
    BY <1>4, <1>5
  <2>3. next \in 1..(LastPid + 1) /\ next >= p + 1
    BY <1>3 DEF AfterSample
  <2>4. new \in Sampled /\ new.of = new.pid
    BY <1>1, <1>2, <2>1 DEF Sampled, Process
  <2> HIDE DEF rate, new, next
  <2>5. slots' \in [1..Slots -> Sampled] /\ SlotInv'
    BY <1>1, <1>2, <2>2, <2>4, SlotIsOne DEF SlotInv
  <2> QED
    BY <1>1, <2>1, <2>2, <2>3, <2>5, SampledOn
<1>6. CASE ~Alive(p)
  <2>1. slots' = slots /\ scan' = [scan EXCEPT !.found = @ + 1, !.at = p + 1, !.step = "visit"]
    BY <1>4, <1>6
  <2>2. /\ scan.rate \in [of : {0} \cup Pid, from : {0} \cup Pid, ticks : 0..MaxTicks]
        /\ scan.rate.from = scan.rate.of
    BY <1>2 DEF Scan, RateInv
  <2>3. scan' = [scan EXCEPT !.rate = scan.rate, !.found = @ + 1, !.step = "visit", !.at = p + 1]
    BY <1>2, <2>1 DEF Scan
  <2>4. slots' \in [1..Slots -> Sampled] /\ SlotInv'
    BY <1>2, <2>1 DEF SlotInv
  <2> DEFINE rate == scan.rate
             next == p + 1
  <2>5. /\ rate \in [of : {0} \cup Pid, from : {0} \cup Pid, ticks : 0..MaxTicks] /\ rate.from = rate.of
        /\ next \in 1..(LastPid + 1) /\ next >= p + 1
        /\ scan' = [scan EXCEPT !.rate = rate, !.found = @ + 1, !.step = "visit", !.at = next]
    BY <1>3, <2>2, <2>3
  <2> HIDE DEF rate, next
  <2> QED
    BY <1>1, <2>4, <2>5, SampledOn
<1> QED
  BY <1>5, <1>6

\* Used memory is not more than there is.
LEMMA UsedFits == ASSUME NEW total \in Nat PROVE Used(total) \in 0..TotalMem
BY Bounds DEF Used

\* A pass that ends the call.
LEMMA CallEnds ==
  ASSUME MonitorInv, Scanning("visit"), scan' \in Scan, scan'.op = scan.op, scan'.pass = "done",
         scan'.step = "visit", scan'.cap = scan.cap, scan'.seen = scan.seen, scan'.at = scan.at,
         scan'.found = scan.found, ~(scan.op = "smi" /\ scan.pass = "count" /\ scan.found # 0)
  PROVE  ScanInv'
<1>1. /\ scan \in Scan /\ scan.found <= scan.at - 1 /\ scan.pass # "done" /\ scan.step = "visit"
      /\ scan.pass \in PassOf(scan.op)
      /\ Listing => Len(scan.seen) = SmallerOf(scan.found, scan.cap)
      /\ ~Listing => scan.seen = <<>>
      /\ \A i, j \in DOMAIN scan.seen : i < j => scan.seen[i].pid < scan.seen[j].pid
      /\ \A i \in DOMAIN scan.seen : scan.seen[i].pid <= scan.at /\ scan.seen[i].pid < scan.at
  BY ScanFields DEF ScanInv, Scanning, Listing
<1>2. scan.found \in Nat /\ scan.cap \in Nat
  BY <1>1, SeenTyped
<1>3. scan.pass \in {"list", "util"} => scan.op \in {"list", "util", "smi"}
  BY <1>1 DEF PassOf
<1>4. scan.op \in {"list", "util", "smi"} => scan.pass \in {"list", "util"} \/ (scan.pass = "count" /\ scan.found = 0)
  BY <1>1 DEF PassOf
<1>5. scan.op \in {"list", "util", "smi"} => Len(scan.seen) = SmallerOf(scan.found, scan.cap)
  <2>1. CASE scan.pass \in {"list", "util"}
    BY <1>1, <2>1 DEF Listing
  <2>2. CASE scan.pass = "count" /\ scan.found = 0
    BY <1>1, <1>2, <2>2 DEF Listing, SmallerOf
  <2> QED
    BY <1>4, <2>1, <2>2
<1>6. scan.op \notin {"list", "util", "smi"} => scan.seen = <<>>
  BY <1>1, <1>3 DEF Listing
<1> QED
  BY <1>1, <1>5, <1>6 DEF ScanInv, Listing, SmallerOf

\* A pass that is followed by another.
LEMMA PassFollows ==
  ASSUME MonitorInv, scan' \in Scan, scan'.pass \in {"load", "list"}, scan'.pass \in PassOf(scan'.op),
         scan'.at = 1, scan'.found = 0, scan'.step = "visit", scan'.seen = <<>>
  PROVE  ScanInv'
<1>1. Len(scan'.seen) = 0 /\ DOMAIN scan'.seen = {}
  OBVIOUS
<1>2. SmallerOf(scan'.found, scan'.cap) = 0
  <2>1. scan'.cap \in Nat
    BY DEF Scan
  <2> QED
    BY <2>1 DEF SmallerOf
<1> QED
  BY <1>1, <1>2 DEF ScanInv, Listing

\* The end of a pass.
LEMMA PassEnds ==
  ASSUME MonitorInv, EndPass PROVE MonitorInv'
<1>1. /\ Scanning("visit") /\ scan.at \notin Pid /\ Unchanged /\ slots' = slots
      /\ scan' =
           CASE scan.pass = "memory" /\ scan.op = "rates" ->
                  [scan EXCEPT !.pass = "load", !.at = 1, !.found = 0]
             [] scan.pass = "memory" /\ scan.op = "memory" ->
                  [scan EXCEPT !.pass = "done", !.used = Used(scan.total)]
             [] scan.pass = "count" /\ scan.found # 0 ->
                  [scan EXCEPT !.pass = "list", !.at = 1, !.found = 0,
                               !.cap = SmallerOf(scan.found, MaxRows)]
             [] scan.pass = "list" /\ scan.op = "smi" ->
                  [scan EXCEPT !.pass = "done", !.rows = SmallerOf(scan.found, MaxRows)]
             [] OTHER -> [scan EXCEPT !.pass = "done"]
  BY DEF EndPass
<1>2. /\ scan \in Scan /\ scan.step = "visit" /\ RateInv /\ SlotInv /\ slots \in [1..Slots -> Sampled]
      /\ scan.pass \in PassOf(scan.op) /\ (~Listing => scan.seen = <<>>) /\ scan.pass # "done"
  BY <1>1, ScanFields DEF ScanInv, Scanning, Listing
<1>3. SmallerOf(scan.found, MaxRows) \in Nat /\ Used(scan.total) \in 0..TotalMem /\ 1 \in 1..(LastPid + 1)
      /\ 0 \in 0..LastPid /\ scan.found \in Nat
  <2>1. scan.found \in Nat /\ scan.total \in Nat
    BY <1>2, SeenTyped, Bounds DEF Scan
  <2>2. Used(scan.total) \in 0..TotalMem
    BY <2>1, UsedFits
  <2> QED
    BY <2>1, <2>2, Bounds DEF SmallerOf
<1> DEFINE ends == scan'.op = scan.op /\ scan'.pass = "done" /\ scan'.step = "visit" /\ scan'.cap = scan.cap
                   /\ scan'.seen = scan.seen /\ scan'.at = scan.at /\ scan'.found = scan.found
                   /\ ~(scan.op = "smi" /\ scan.pass = "count" /\ scan.found # 0)
           goes == /\ scan'.pass \in {"load", "list"} /\ scan'.pass \in PassOf(scan'.op)
                   /\ scan'.at = 1 /\ scan'.found = 0 /\ scan'.step = "visit" /\ scan'.seen = <<>>
<1>4. scan' \in Scan /\ scan'.rate = scan.rate /\ (ends \/ goes)
  <2>1. CASE scan.pass = "memory" /\ scan.op = "rates"
    <3>1. scan' = [scan EXCEPT !.pass = "load", !.at = 1, !.found = 0]
      BY <1>1, <2>1
    <3>2. "load" \in PassOf("rates")
      BY DEF PassOf
    <3> QED
      BY <1>2, <1>3, <2>1, <3>1, <3>2 DEF Scan, Passes, Listing
  <2>2. CASE scan.pass = "memory" /\ scan.op = "memory"
    <3>1. scan' = [scan EXCEPT !.pass = "done", !.used = Used(scan.total)]
      BY <1>1, <2>2
    <3> QED
      BY <1>2, <1>3, <2>2, <3>1 DEF Scan, Passes
  <2>3. CASE scan.pass = "count" /\ scan.found # 0
    <3>1. scan' = [scan EXCEPT !.pass = "list", !.at = 1, !.found = 0, !.cap = SmallerOf(scan.found, MaxRows)]
      BY <1>1, <2>3
    <3>2. scan.op = "smi" /\ "list" \in PassOf("smi")
      BY <1>2, <2>3 DEF PassOf
    <3> QED
      BY <1>2, <1>3, <2>3, <3>1, <3>2 DEF Scan, Passes, Listing
  <2>4. CASE scan.pass = "list" /\ scan.op = "smi"
    <3>1. scan' = [scan EXCEPT !.pass = "done", !.rows = SmallerOf(scan.found, MaxRows)]
      BY <1>1, <2>4
    <3> QED
      BY <1>2, <1>3, <2>4, <3>1 DEF Scan, Passes
  <2>5. CASE /\ ~(scan.pass = "memory" /\ scan.op = "rates") /\ ~(scan.pass = "memory" /\ scan.op = "memory")
             /\ ~(scan.pass = "count" /\ scan.found # 0) /\ ~(scan.pass = "list" /\ scan.op = "smi")
    <3>1. scan' = [scan EXCEPT !.pass = "done"]
      BY <1>1, <2>5
    <3> QED
      BY <1>2, <2>5, <3>1 DEF Scan, Passes
  <2> QED
    BY <2>1, <2>2, <2>3, <2>4, <2>5
<1>5. ScanInv'
  BY <1>1, <1>4, CallEnds, PassFollows
<1> QED
  BY <1>1, <1>2, <1>4, <1>5, Looks DEF RateInv, SlotInv

\* Nothing happens.
LEMMA StutterKeeps == ASSUME MonitorInv, UNCHANGED vars PROVE MonitorInv'
BY DEF vars, MonitorInv, TypeInv, FileInv, SlotInv, RateInv, ScanInv, Alive, Listing, PassOf

\* The state at the start.
LEMMA InitHolds == ASSUME Init PROVE MonitorInv
<1>1. /\ use \in Uses /\ births = 0 /\ proc = [p \in Pid |-> NoProcess] /\ file = [p \in Pid |-> Absent]
      /\ writing = [p \in Pid |-> {}] /\ slots = [i \in 1..Slots |-> NoSample] /\ scan = NoScan
  BY DEF Init
<1>2. 0 \in 0..MaxTicks /\ 0 \in 0..MaxBirths /\ 0 \in Sizes
  BY Bounds, TableAssumption
<1>3. NoProcess \in Process /\ Absent \in File /\ NoSample \in Sampled
  BY <1>2 DEF NoProcess, Absent, NoSample, Process, File, Sampled
<1>4. NoScan \in Scan
  BY EmptyScan
<1>5. TypeInv
  BY <1>1, <1>2, <1>3, <1>4 DEF TypeInv, NoProcess, Absent
<1>6. FileInv /\ SlotInv
  BY <1>1 DEF FileInv, SlotInv, NoProcess, NoSample, Alive
<1>7. RateInv
  BY <1>1 DEF RateInv, NoScan, NoRate
<1>8. ScanInv
  <2>1. /\ scan.pass = "done" /\ scan.op = "none" /\ scan.at = 1 /\ scan.found = 0 /\ scan.step = "visit"
        /\ scan.seen = <<>>
    BY <1>1 DEF NoScan
  <2> QED
    BY <2>1 DEF ScanInv, Listing
<1> QED
  BY <1>5, <1>6, <1>7, <1>8 DEF MonitorInv

\* Every step keeps the invariant.
LEMMA StepKeeps == ASSUME MonitorInv, [Next]_vars PROVE MonitorInv'
<1>1. ASSUME NEW op \in use.does \ {"account", "run"}, NEW cap \in Buffers, StartScan(op, cap) PROVE MonitorInv'
  BY <1>1, ScanStarts
<1>2. ASSUME NEW p \in Pid, ProcessStep(p) PROVE MonitorInv'
  BY <1>2, ProcessKeeps
<1> QED
  BY <1>1, <1>2, Visited, MemoryRead, SampleTaken, PassEnds, StutterKeeps, Zenon DEF Next, MonitorStep

\* The invariant of every behaviour: types, whose file it is, whose sample, and where a scan is.
THEOREM MonitorInvariant == Spec => []MonitorInv
<1>1. Init => MonitorInv
  BY InitHolds
<1>2. MonitorInv /\ [Next]_vars => MonitorInv'
  BY StepKeeps
<1> QED
  BY <1>1, <1>2, PTL DEF Spec

\* Whatever was left by a killed process or is being written, a process that has opened its
\* file is read no figure of another, and between updates its own.
THEOREM FilesAreOwn == Spec => []FileIsOwn
<1>1. ASSUME MonitorInv, NEW p \in Pid, Alive(p)
      PROVE  /\ proc[p].record # "never" /\ FromFile(p) => file[p].by = proc[p].born
             /\ proc[p].record = "current" /\ writing[p] = {} => file[p] = Written(proc[p].born, proc[p].bytes)
  BY <1>1 DEF MonitorInv, FileInv, FromFile
<1>2. MonitorInv => FileIsOwn
  BY <1>1 DEF FileIsOwn
<1> QED
  BY <1>2, MonitorInvariant, PTL

\* Figures stay in their types, and a list in the caller's buffer, whatever is born, exits or
\* is killed between the passes and the steps of a scan.
THEOREM ScansStayInBounds == Spec => []WithinBounds
<1>1. MonitorInv => TypeOK
  <2> SUFFICES ASSUME MonitorInv PROVE TypeOK
    OBVIOUS
  <2>1. TypeInv
    BY DEF MonitorInv
  <2>2. \A p \in Pid :
         /\ proc[p].born \in 0..births /\ proc[p].bytes \in Sizes /\ proc[p].ticks \in 0..MaxTicks
         /\ {proc[p].fd, proc[p].exiting} \subseteq BOOLEAN
         /\ proc[p].record \in {"never", "current", "missed"}
    BY <2>1, TableAssumption DEF TypeInv, Process
  <2>3. \A p \in Pid :
         /\ file[p].state \in {"absent", "empty", "written"}
         /\ file[p].by \in 0..births /\ file[p].bytes \in Sizes
         /\ writing[p] \subseteq [bytes : Sizes, linked : BOOLEAN]
    BY <2>1, TableAssumption DEF TypeInv, File, Update
  <2>4. \A i \in 1..Slots : slots[i].pid \in {0} \cup Pid
    BY <2>1 DEF TypeInv, Sampled
  <2>5. /\ scan.pass \in {"memory", "load", "count", "list", "util", "done"}
        /\ scan.at \in 1..(LastPid + 1) /\ scan.found \in 0..LastPid
        /\ scan.total \in 0..(Word - 1) /\ scan.used \in 0..TotalMem
    BY <2>1 DEF TypeInv, Scan, Passes
  <2> QED
    BY <2>1, <2>2, <2>3, <2>4, <2>5 DEF TypeOK, TypeInv
<1>2. MonitorInv => ListFits
  <2> SUFFICES ASSUME MonitorInv PROVE ListFits
    OBVIOUS
  <2>1. scan \in Scan /\ ScanInv
    BY ScanFields
  <2>2. scan.found \in Nat /\ scan.cap \in Nat /\ Len(scan.seen) \in Nat
    BY <2>1, SeenTyped
  <2>3. scan.step \in {"visit", "read", "sample"}
    BY <2>1 DEF Scan
  <2>4. scan.pass \in {"list", "util"} => Len(scan.seen) <= scan.cap
    BY <2>1, <2>2, <2>3 DEF ScanInv, Listing, SmallerOf
  <2>5. scan.pass = "done" => Len(scan.seen) <= scan.cap
    <3>1. CASE scan.op \in {"list", "util", "smi"}
      BY <2>1, <2>2, <3>1 DEF ScanInv, SmallerOf
    <3>2. CASE scan.op \notin {"list", "util", "smi"}
      BY <2>1, <2>2, <3>2 DEF ScanInv, Listing
    <3> QED
      BY <3>1, <3>2
  <2>6. \A op \in {"list", "util", "smi"} : Done(op) => Len(scan.seen) = SmallerOf(scan.found, scan.cap)
    BY <2>1 DEF ScanInv, Done
  <2>7. \A i, j \in DOMAIN scan.seen : i < j => scan.seen[i].pid < scan.seen[j].pid
    BY <2>1 DEF ScanInv
  <2> QED
    BY <2>4, <2>5, <2>6, <2>7 DEF ListFits
<1>3. MonitorInv => WithinBounds
  BY <1>1, <1>2 DEF WithinBounds
<1> QED
  BY <1>3, MonitorInvariant, PTL

\* A rate is made of the samples of its own process, however many share a slot, and wraps never.
THEOREM RatesAreSound == Spec => []RateIsSound
<1>1. MonitorInv => RateIsSound
  BY ScanFields, Bounds DEF RateInv, RateIsSound, Scan
<1> QED
  BY <1>1, MonitorInvariant, PTL

-----------------------------------------------------------------------------
(***************************************************************************)
(* Sums of weights over sets of processes, one process after the other as  *)
(* TotalOf adds them up.                                                   *)
(***************************************************************************)
\* What holds of 0, and of a pid when of the one before, holds of all.
LEMMA OnePidAfterAnother ==
  ASSUME NEW S, S \subseteq 0..LastPid, 0 \in S, \A k \in S : k < LastPid => k + 1 \in S
  PROVE  S = 0..LastPid
<1> DEFINE C == 0..LastPid \ S
<1>1. SUFFICES ASSUME C # {} PROVE FALSE
  OBVIOUS
<1>2. PICK k \in C : \A y \in C : k <= y
  <2>1. C \subseteq Nat
    OBVIOUS
  <2> HIDE DEF C
  <2> QED
    BY <1>1, <2>1, LeastElement
<1>3. k \in Nat /\ k \notin S /\ k # 0 /\ k <= LastPid /\ LastPid \in Nat
  BY <1>2, Bounds
<1>4. k - 1 \in 0..LastPid /\ k - 1 < k /\ (k - 1) + 1 = k /\ k - 1 < LastPid
  BY <1>3
<1>5. k - 1 \in S
  BY <1>2, <1>3, <1>4
<1> QED
  BY <1>3, <1>4, <1>5

PartialSum(w, S, g) ==
  [p \in 0..LastPid |-> IF p = 0 THEN 0 ELSE g[p - 1] + (IF p \in S THEN w[p] ELSE 0)]
SumsTo(w, S, g) == g = PartialSum(w, S, g)
Summing(w, S) == CHOOSE g : SumsTo(w, S, g)
Sum(w, S) == Summing(w, S)[LastPid]

\* A summing function, step by step.
LEMMA SumStep ==
  ASSUME NEW w, NEW S, NEW g, SumsTo(w, S, g)
  PROVE  /\ g[0] = 0
         /\ \A p \in 0..LastPid : p < LastPid =>
              /\ p + 1 \in 0..LastPid
              /\ p + 1 \in S => g[p + 1] = g[p] + w[p + 1]
              /\ p + 1 \notin S => g[p + 1] = g[p] + 0
<1>1. \A p \in 0..LastPid : g[p] = IF p = 0 THEN 0 ELSE g[p - 1] + (IF p \in S THEN w[p] ELSE 0)
  BY DEF SumsTo, PartialSum
<1>2. \A p \in 0..LastPid : p < LastPid => p + 1 \in 0..LastPid /\ p + 1 # 0 /\ (p + 1) - 1 = p
  BY Bounds
<1>3. 0 \in 0..LastPid
  BY Bounds
<1> QED
  BY <1>1, <1>2, <1>3

\* There is one for every set.
LEMMA SumExists ==
  ASSUME NEW w, NEW S
  PROVE  SumsTo(w, S, Summing(w, S))
<1> DEFINE Up(n, g) == \A p \in 0..n : g[p] = IF p = 0 THEN 0 ELSE g[p - 1] + (IF p \in S THEN w[p] ELSE 0)
           To(n) == \E g : DOMAIN g = 0..LastPid /\ g = [p \in 0..LastPid |-> g[p]] /\ Up(n, g)
           C == {n \in 0..LastPid : To(n)}
<1>1. 0 \in C
  <2> DEFINE g == [p \in 0..LastPid |-> 0]
  <2>1. DOMAIN g = 0..LastPid /\ g = [p \in 0..LastPid |-> g[p]] /\ Up(0, g) /\ 0 \in 0..LastPid
    BY Bounds
  <2> QED
    BY <2>1
<1>2. ASSUME NEW n \in C, n < LastPid PROVE n + 1 \in C
  <2>1. PICK g : DOMAIN g = 0..LastPid /\ g = [p \in 0..LastPid |-> g[p]] /\ Up(n, g)
    BY <1>2
  <2> DEFINE h == [p \in 0..LastPid |->
                     IF p = n + 1 THEN g[n] + (IF n + 1 \in S THEN w[n + 1] ELSE 0) ELSE g[p]]
  <2>2. LastPid \in Nat /\ n \in 0..LastPid /\ n \in Nat /\ n + 1 \in 0..LastPid /\ n # n + 1
    BY <1>2, Bounds
  <2>3. ASSUME NEW p \in 0..(n + 1)
        PROVE  h[p] = IF p = 0 THEN 0 ELSE h[p - 1] + (IF p \in S THEN w[p] ELSE 0)
    <3>1. CASE p = n + 1
      <4>1. p # 0 /\ p - 1 = n /\ h[n] = g[n] /\ h[p] = g[n] + (IF p \in S THEN w[p] ELSE 0)
        BY <2>2, <3>1
      <4> QED
        BY <4>1
    <3>2. CASE p # n + 1
      <4>1. p \in 0..n /\ p \in 0..LastPid /\ (p # 0 => p - 1 \in 0..LastPid /\ p - 1 # n + 1)
        <5> HIDE DEF C
        <5> QED
          BY <2>2, <3>2
      <4>2. h[p] = g[p] /\ (p # 0 => h[p - 1] = g[p - 1])
        BY <3>2, <4>1
      <4> QED
        BY <2>1, <4>1, <4>2
    <3> QED
      BY <3>1, <3>2
  <2>4. DOMAIN h = 0..LastPid /\ h = [p \in 0..LastPid |-> h[p]] /\ Up(n + 1, h)
    BY <2>3
  <2> HIDE DEF h
  <2> QED
    BY <2>2, <2>4
<1>3. C = 0..LastPid
  <2>1. C \subseteq 0..LastPid
    OBVIOUS
  <2> HIDE DEF C
  <2> QED
    BY <1>1, <1>2, <2>1, OnePidAfterAnother
<1>4. LastPid \in C
  BY <1>3, Bounds
<1>5. PICK g : g = [p \in 0..LastPid |-> g[p]] /\ Up(LastPid, g)
  BY <1>4
<1>6. SumsTo(w, S, g)
  BY <1>5 DEF SumsTo, PartialSum
<1> QED
  BY <1>6 DEF Summing

\* There is one only.
LEMMA SumsAgree ==
  ASSUME NEW w, NEW S, NEW g, SumsTo(w, S, g), NEW h, SumsTo(w, S, h)
  PROVE  g[LastPid] = h[LastPid]
<1> DEFINE C == {n \in 0..LastPid : g[n] = h[n]}
<1>1. 0 \in C
  BY SumStep, Bounds
<1>2. ASSUME NEW n \in C, n < LastPid PROVE n + 1 \in C
  BY <1>2, SumStep
<1>3. C = 0..LastPid
  <2>1. C \subseteq 0..LastPid
    OBVIOUS
  <2> HIDE DEF C
  <2> QED
    BY <1>1, <1>2, <2>1, OnePidAfterAnother
<1> QED
  BY <1>3, Bounds

\* A sum of natural numbers is one, and the sum over a part is not more.
LEMMA SumOfPart ==
  ASSUME NEW w, NEW S, \A a \in S : w[a] \in Nat, NEW T, T \subseteq S
  PROVE  Sum(w, T) <= Sum(w, S) /\ Sum(w, T) \in Nat /\ Sum(w, S) \in Nat
<1> DEFINE g == Summing(w, S)
           h == Summing(w, T)
           C == {n \in 0..LastPid : g[n] \in Nat /\ h[n] \in Nat /\ h[n] <= g[n]}
<1>1. SumsTo(w, S, g) /\ SumsTo(w, T, h)
  BY SumExists
<1> HIDE DEF g, h
<1>2. 0 \in C
  BY <1>1, SumStep, Bounds
<1>3. ASSUME NEW n \in C, n < LastPid PROVE n + 1 \in C
  <2>1. /\ n + 1 \in 0..LastPid
        /\ n + 1 \in S => g[n + 1] = g[n] + w[n + 1]
        /\ n + 1 \notin S => g[n + 1] = g[n] + 0
        /\ n + 1 \in T => h[n + 1] = h[n] + w[n + 1]
        /\ n + 1 \notin T => h[n + 1] = h[n] + 0
    BY <1>1, <1>3, SumStep
  <2>2. g[n] \in Nat /\ h[n] \in Nat /\ h[n] <= g[n] /\ (n + 1 \in S => w[n + 1] \in Nat)
    OBVIOUS
  <2> QED
    BY <2>1, <2>2
<1>4. C = 0..LastPid
  <2>1. C \subseteq 0..LastPid
    OBVIOUS
  <2> HIDE DEF C
  <2> QED
    BY <1>2, <1>3, <2>1, OnePidAfterAnother
<1> QED
  BY <1>4, Bounds DEF Sum, g, h

\* The sum of one process more.
LEMMA SumAdds ==
  ASSUME NEW w, NEW S, \A a \in S : w[a] \in Nat, NEW x \in S, S \subseteq Pid
  PROVE  Sum(w, S) = w[x] + Sum(w, S \ {x}) /\ Sum(w, S \ {x}) \in Nat
<1> DEFINE g == Summing(w, S)
           h == Summing(w, S \ {x})
           C == {n \in 0..LastPid : /\ g[n] \in Nat /\ h[n] \in Nat
                                    /\ n < x => g[n] = h[n]
                                    /\ x <= n => g[n] = w[x] + h[n]}
<1>1. SumsTo(w, S, g) /\ SumsTo(w, S \ {x}, h)
  BY SumExists
<1>2. x \in Nat /\ x # 0 /\ x <= LastPid /\ LastPid \in Nat /\ w[x] \in Nat
  BY Bounds DEF Pid
<1> HIDE DEF g, h
<1>3. 0 \in C
  BY <1>1, <1>2, SumStep
<1>4. ASSUME NEW n \in C, n < LastPid PROVE n + 1 \in C
  <2>1. /\ n + 1 \in 0..LastPid
        /\ n + 1 \in S => g[n + 1] = g[n] + w[n + 1]
        /\ n + 1 \notin S => g[n + 1] = g[n] + 0
        /\ n + 1 \in S \ {x} => h[n + 1] = h[n] + w[n + 1]
        /\ n + 1 \notin S \ {x} => h[n + 1] = h[n] + 0
    BY <1>1, <1>4, SumStep
  <2>2. n \in Nat /\ g[n] \in Nat /\ h[n] \in Nat /\ (n + 1 \in S => w[n + 1] \in Nat)
        /\ (n < x => g[n] = h[n]) /\ (x <= n => g[n] = w[x] + h[n])
    OBVIOUS
  <2>3. CASE n + 1 = x
    <3>1. n < x /\ g[n + 1] = g[n] + w[x] /\ h[n + 1] = h[n] + 0 /\ ~(n + 1 < x)
      BY <1>2, <2>1, <2>2, <2>3
    <3> QED
      BY <1>2, <2>1, <2>2, <2>3, <3>1
  <2>4. CASE n + 1 # x
    <3>1. (n + 1 < x => n < x) /\ (x <= n + 1 => x <= n) /\ (n + 1 \in S <=> n + 1 \in S \ {x})
      BY <1>2, <2>2, <2>4
    <3>2. CASE n + 1 \in S
      BY <1>2, <2>1, <2>2, <3>1, <3>2
    <3>3. CASE n + 1 \notin S
      BY <1>2, <2>1, <2>2, <3>1, <3>3
    <3> QED
      BY <3>2, <3>3
  <2> QED
    BY <2>3, <2>4
<1>5. C = 0..LastPid
  <2>1. C \subseteq 0..LastPid
    OBVIOUS
  <2> HIDE DEF C
  <2> QED
    BY <1>3, <1>4, <2>1, OnePidAfterAnother
<1>6. LastPid \in C
  BY <1>2, <1>5
<1> QED
  BY <1>2, <1>6 DEF Sum, g, h

LEMMA SumOfNone == ASSUME NEW w PROVE Sum(w, {}) = 0
<1> DEFINE g == Summing(w, {})
           C == {n \in 0..LastPid : g[n] = 0}
<1>1. SumsTo(w, {}, g)
  BY SumExists
<1> HIDE DEF g
<1>2. 0 \in C
  BY <1>1, SumStep, Bounds
<1>3. ASSUME NEW n \in C, n < LastPid PROVE n + 1 \in C
  BY <1>1, <1>3, SumStep
<1>4. C = 0..LastPid
  <2>1. C \subseteq 0..LastPid
    OBVIOUS
  <2> HIDE DEF C
  <2> QED
    BY <1>2, <1>3, <2>1, OnePidAfterAnother
<1> QED
  BY <1>4, Bounds DEF Sum, g

-----------------------------------------------------------------------------
(***************************************************************************)
(* A scan that nothing disturbs is exact.  What it has added up or listed  *)
(* so far is of the processes on the GPU it has passed.                    *)
(***************************************************************************)
Weights == [p \in Pid |-> proc[p].bytes]
Passed == {p \in OnGpu : p < scan.at}
Listed == {scan.seen[i].pid : i \in DOMAIN scan.seen}
OwnFigures == \A i \in DOMAIN scan.seen : scan.seen[i].bytes = proc[scan.seen[i].pid].bytes

SumInv ==
  /\ scan.pass = "memory" => scan.found = 0 /\ scan.cap = LastPid /\ scan.total = Sum(Weights, Passed)
  /\ Done("memory") => scan.used = Used(Sum(Weights, OnGpu))
ListInv ==
  scan.op = "list" =>
    /\ OwnFigures
    /\ scan.found <= scan.cap => Listed = IF scan.pass = "done" THEN OnGpu ELSE Passed
ExactInv == (scan.step = "read" => scan.at \in OnGpu) /\ SumInv /\ ListInv
QuietInv == scan.quiet /\ Settled => ExactInv

\* All the memory the processes can have allocated fits in a word.
NoWrap == \A w \in [Pid -> Sizes] : Sum(w, Pid) < Word

\* The sum that TLC computes.
LEMMA TotalIsSum ==
  ASSUME TypeInv, NEW P, P \subseteq Pid
  PROVE  TotalOf(P) = Sum(Weights, P)
<1> DEFINE Adds(g) == g = [p \in 0..LastPid |->
                             IF p = 0 THEN 0 ELSE g[p - 1] + (IF p \in P THEN proc[p].bytes ELSE 0)]
<1>1. ASSUME NEW g PROVE Adds(g) <=> SumsTo(Weights, P, g)
  <2>1. \A p \in P : Weights[p] = proc[p].bytes
    BY DEF Weights
  <2>2. [p \in 0..LastPid |-> IF p = 0 THEN 0 ELSE g[p - 1] + (IF p \in P THEN proc[p].bytes ELSE 0)]
        = PartialSum(Weights, P, g)
    BY <2>1 DEF PartialSum
  <2> QED
    BY <2>2 DEF SumsTo
<1>2. TotalOf(P) = (CHOOSE g : Adds(g))[LastPid]
  BY DEF TotalOf
<1>3. SumsTo(Weights, P, Summing(Weights, P))
  BY SumExists
<1> HIDE DEF Adds
<1>4. Adds(CHOOSE g : Adds(g))
  BY <1>1, <1>3
<1> DEFINE h == CHOOSE g : Adds(g)
<1> HIDE DEF h
<1>5. SumsTo(Weights, P, h)
  BY <1>1, <1>4 DEF h
<1>6. h[LastPid] = Summing(Weights, P)[LastPid]
  BY <1>3, <1>5, SumsAgree
<1> QED
  BY <1>2, <1>6 DEF Sum, h

\* The memory of some of the processes is within a word.
LEMMA SumsFit ==
  ASSUME TypeInv, NoWrap, NEW P, P \subseteq Pid
  PROVE  /\ Sum(Weights, P) \in 0..(Word - 1)
         /\ \A p \in Pid : Weights[p] = proc[p].bytes /\ Weights[p] \in Nat
<1>1. Pid \subseteq Pid
  OBVIOUS
<1>2. Weights \in [Pid -> Sizes] /\ \A p \in Pid : Weights[p] = proc[p].bytes
  BY DEF Weights, TypeInv, Process
<1>3. \A p \in Pid : Weights[p] \in Nat
  BY <1>2, Bounds
<1>4. Sum(Weights, P) <= Sum(Weights, Pid) /\ Sum(Weights, P) \in Nat /\ Sum(Weights, Pid) \in Nat
  BY <1>1, <1>3, SumOfPart
<1>5. Sum(Weights, Pid) < Word
  BY <1>2 DEF NoWrap
<1> QED
  BY <1>1, <1>2, <1>3, <1>4, <1>5, Bounds

\* A process on the GPU has one figure, its own.
LEMMA OneFigure ==
  ASSUME MonitorInv, Settled, NEW p \in OnGpu, NEW figure \in Figures(p)
  PROVE  figure.pid = p /\ figure.bytes = proc[p].bytes
<1>1. p \in Pid /\ Alive(p) /\ proc[p].record = "current" /\ writing[p] = {}
  BY DEF OnGpu, Settled
<1>2. file[p] = Written(proc[p].born, proc[p].bytes)
  BY <1>1 DEF MonitorInv, FileInv
<1>3. file[p].state = "written" /\ file[p].bytes = proc[p].bytes
  BY <1>2 DEF Written
<1>4. Figures(p) = {[pid |-> p, src |-> "file", bytes |-> file[p].bytes]}
  BY <1>1, <1>3 DEF Figures, FromFile
<1> QED
  BY <1>3, <1>4

\* The monitor leaves the processes alone.
LEMMA SameProcesses ==
  ASSUME Unchanged
  PROVE  OnGpu' = OnGpu /\ Settled' = Settled /\ Weights' = Weights /\ proc' = proc
BY DEF Unchanged, OnGpu, Settled, Alive, Weights

\* A call starts with nothing.
LEMMA QuietStart ==
  ASSUME MonitorInv, NEW op \in use.does \ {"account", "run"}, NEW cap \in Buffers, StartScan(op, cap)
  PROVE  QuietInv'
<1> DEFINE c == IF op \in {"list", "util"} THEN cap ELSE IF op = "smi" THEN 0 ELSE LastPid
<1>1. op \in Ops
  BY UsesAssumption DEF MonitorInv, TypeInv, Ops
<1>2. scan' = [NoScan EXCEPT !.op = op, !.pass = FirstPass(op), !.cap = c] /\ Unchanged
  BY DEF StartScan
<1>3. /\ scan'.op = op /\ scan'.pass = FirstPass(op) /\ scan'.cap = c /\ scan'.at = 1 /\ scan'.found = 0
      /\ scan'.step = "visit" /\ scan'.seen = <<>> /\ scan'.total = 0
  BY <1>2 DEF NoScan
<1>4. FirstPass(op) # "done" /\ (FirstPass(op) = "memory" => op \in {"memory", "rates"})
  BY <1>1 DEF FirstPass, Ops
<1>5. Passed' = {}
  <2>1. \A p \in Pid : ~(p < 1)
    BY Bounds DEF Pid
  <2> QED
    BY <1>3, <2>1 DEF Passed, OnGpu
<1>6. DOMAIN scan'.seen = {}
  BY <1>3
<1>7. Listed' = {}
  BY <1>6 DEF Listed
<1>8. Sum(Weights, Passed)' = 0
  <2>1. Sum(Weights', {}) = 0
    BY SumOfNone
  <2> QED
    BY <1>5, <2>1
<1>9. SumInv'
  BY <1>3, <1>4, <1>8 DEF SumInv, Done
<1>10. ListInv'
  BY <1>3, <1>4, <1>5, <1>6, <1>7 DEF ListInv, OwnFigures
<1> QED
  BY <1>3, <1>9, <1>10 DEF QuietInv, ExactInv

\* A process not on the GPU is passed, and one on it has been passed when its turn is over.
LEMMA PassOn ==
  ASSUME MonitorInv, scan.at \in Pid, Unchanged, scan'.at = scan.at + 1
  PROVE  Passed' = IF scan.at \in OnGpu THEN Passed \cup {scan.at} ELSE Passed
<1>1. scan.at \in Nat /\ \A p \in OnGpu : p \in Nat
  BY Bounds DEF OnGpu
<1>2. \A p \in OnGpu : p < scan.at + 1 <=> p < scan.at \/ p = scan.at
  BY <1>1
<1>3. OnGpu' = OnGpu
  BY SameProcesses
<1>4. \A p : p \in Passed' <=> p \in OnGpu /\ p < scan.at + 1
  BY <1>3 DEF Passed
<1>5. \A p : p \in Passed <=> p \in OnGpu /\ p < scan.at
  BY DEF Passed
<1>6. \A p : p \in Passed' <=> p \in IF scan.at \in OnGpu THEN Passed \cup {scan.at} ELSE Passed
  BY <1>2, <1>4, <1>5
<1> QED
  BY <1>6, Zenon

\* A visit passes a process over, goes on to its figures, or finds no room for it.
LEMMA QuietVisit ==
  ASSUME MonitorInv, QuietInv, Visit
  PROVE  QuietInv'
<1> SUFFICES ASSUME scan'.quiet, Settled' PROVE ExactInv'
  BY DEF QuietInv
<1> DEFINE p == scan.at
           stop == scan.pass = "count" /\ scan.found + 1 >= MaxProcs
           next == IF stop THEN LastPid + 1 ELSE p + 1
<1>1. /\ scan.pass # "done" /\ scan.step = "visit" /\ p \in Pid /\ Unchanged
      /\ scan' = IF p \notin OnGpu THEN [scan EXCEPT !.at = p + 1]
                 ELSE IF scan.found < scan.cap
                   THEN [scan EXCEPT !.step = IF scan.pass = "load" THEN "sample" ELSE "read"]
                 ELSE [scan EXCEPT !.found = @ + 1, !.at = next]
  BY DEF Visit, Scanning
<1>2. /\ scan \in Scan /\ scan.found \in Nat /\ scan.cap \in Nat /\ LastPid \in Nat /\ LastPid > 0
      /\ scan.pass \in PassOf(scan.op)
  BY <1>1, ScanFields, SeenTyped, Bounds DEF ScanInv
<1>3. /\ scan'.quiet = scan.quiet /\ scan'.op = scan.op /\ scan'.pass = scan.pass /\ scan'.cap = scan.cap
      /\ scan'.seen = scan.seen /\ scan'.total = scan.total
  BY <1>1, <1>2 DEF Scan
<1>4. OnGpu' = OnGpu /\ Settled /\ Weights' = Weights /\ proc' = proc
  BY <1>1, SameProcesses
<1>5. SumInv /\ ListInv
  BY <1>3, <1>4 DEF QuietInv, ExactInv
<1>6. OwnFigures' <=> OwnFigures
  BY <1>3, <1>4 DEF OwnFigures
<1>7. Listed' = Listed
  BY <1>3 DEF Listed
<1>8. ~Done("memory")'
  BY <1>1, <1>3 DEF Done
<1>9. ASSUME Passed' = Passed, scan'.found = scan.found PROVE SumInv' /\ ListInv'
  <2>1. SumInv'
    BY <1>3, <1>4, <1>5, <1>8, <1>9 DEF SumInv
  <2> QED
    BY <1>3, <1>4, <1>5, <1>6, <1>7, <1>9, <2>1 DEF ListInv
<1>10. CASE p \notin OnGpu
  <2>1. scan' = [scan EXCEPT !.at = p + 1]
    BY <1>1, <1>10
  <2>2. scan'.at = p + 1 /\ scan'.found = scan.found /\ scan'.step = "visit"
    BY <1>1, <1>2, <2>1 DEF Scan
  <2>3. Passed' = Passed
    BY <1>1, <1>10, <2>2, PassOn
  <2> QED
    BY <1>9, <2>2, <2>3 DEF ExactInv
<1>11. CASE p \in OnGpu /\ scan.found < scan.cap
  <2>1. scan' = [scan EXCEPT !.step = IF scan.pass = "load" THEN "sample" ELSE "read"]
    BY <1>1, <1>11
  <2>2. scan'.at = p /\ scan'.found = scan.found
    BY <1>2, <2>1 DEF Scan
  <2>3. Passed' = Passed
    BY <1>4, <2>2 DEF Passed
  <2> QED
    BY <1>4, <1>9, <1>11, <2>2, <2>3 DEF ExactInv
<1>12. CASE p \in OnGpu /\ ~(scan.found < scan.cap)
  <2>1. scan' = [scan EXCEPT !.found = @ + 1, !.at = next]
    BY <1>1, <1>12
  <2>2. scan'.found = scan.found + 1 /\ scan'.step = "visit"
    BY <1>1, <1>2, <2>1 DEF Scan
  <2>3. scan.pass # "memory"
    BY <1>2, <1>5, <1>12 DEF SumInv
  <2>4. ~(scan'.found <= scan'.cap)
    BY <1>2, <1>3, <1>12, <2>2
  <2>5. SumInv'
    BY <1>3, <1>8, <2>3 DEF SumInv
  <2>6. ListInv'
    BY <1>3, <1>5, <1>6, <2>4 DEF ListInv
  <2> QED
    BY <2>2, <2>5, <2>6 DEF ExactInv
<1> QED
  BY <1>10, <1>11, <1>12

\* A list with one more figure names one more process.
LEMMA OneMore ==
  ASSUME NEW seen \in Seq(Figure), NEW figure \in Figure
  PROVE  LET t == Append(seen, figure) IN
           /\ {t[i].pid : i \in DOMAIN t} = {seen[i].pid : i \in DOMAIN seen} \cup {figure.pid}
           /\ \A i \in DOMAIN t : t[i] = figure \/ \E j \in DOMAIN seen : t[i] = seen[j]
<1> DEFINE n == Len(seen)
           t == Append(seen, figure)
<1>1. n \in Nat /\ DOMAIN seen = 1..n
  BY LenProperties
<1>2. DOMAIN t = 1..(n + 1) /\ (\A i \in 1..n : t[i] = seen[i]) /\ t[n + 1] = figure
  BY <1>1, AppendProperties, LenProperties
<1> HIDE DEF t, n
<1>3. (\A i \in DOMAIN t : i \in 1..n \/ i = n + 1) /\ n + 1 \in DOMAIN t /\ \A i \in 1..n : i \in DOMAIN t
  BY <1>1, <1>2
<1>4. \A i \in DOMAIN t : t[i] = figure \/ \E j \in DOMAIN seen : t[i] = seen[j]
  BY <1>1, <1>2, <1>3
<1>5. \A b : b \in {t[i].pid : i \in DOMAIN t} <=> b \in {seen[i].pid : i \in DOMAIN seen} \cup {figure.pid}
  BY <1>1, <1>2, <1>3, <1>4
<1>6. {t[i].pid : i \in DOMAIN t} = {seen[i].pid : i \in DOMAIN seen} \cup {figure.pid}
  BY <1>5, Zenon
<1> QED
  BY <1>4, <1>6 DEF t

\* The figure of a process is added to the sum or the list.
LEMMA QuietRead ==
  ASSUME MonitorInv, NoWrap, QuietInv, ReadMemory
  PROVE  QuietInv'
<1> SUFFICES ASSUME scan'.quiet, Settled' PROVE ExactInv'
  BY DEF QuietInv
<1> DEFINE p == scan.at
<1>1. PICK figure \in Figures(p) :
        scan' =
          CASE scan.pass = "memory" ->
                 [scan EXCEPT !.total = (@ + figure.bytes) % Word, !.at = @ + 1, !.step = "visit"]
            [] scan.pass = "list" ->
                 [scan EXCEPT !.seen = Append(@, figure), !.found = @ + 1,
                              !.at = @ + 1, !.step = "visit"]
            [] scan.pass = "util" ->
                 [scan EXCEPT !.seen = Append(@, figure), !.step = "sample"]
  BY DEF ReadMemory
<1>2. /\ scan.step = "read" /\ Unchanged /\ scan \in Scan /\ p \in Pid
      /\ scan.pass \in {"memory", "list", "util"} /\ scan.pass \in PassOf(scan.op)
      /\ (scan.pass = "list" => scan.found < scan.cap)
  BY ScanFields DEF ReadMemory, Scanning, ScanInv, Listing
<1>3. OnGpu' = OnGpu /\ Settled /\ Weights' = Weights /\ proc' = proc /\ TypeInv
  BY <1>2, SameProcesses DEF MonitorInv
<1>4. scan'.quiet = scan.quiet /\ scan'.op = scan.op
  BY <1>1, <1>2 DEF Scan
<1>5. SumInv /\ ListInv /\ p \in OnGpu
  BY <1>2, <1>3, <1>4 DEF QuietInv, ExactInv
<1>6. figure.pid = p /\ figure.bytes = proc[p].bytes /\ figure \in Figure
  BY <1>1, <1>2, <1>3, <1>5, OneFigure, FiguresTyped
<1>7. /\ p \in Nat /\ scan.found \in Nat /\ scan.cap \in Nat /\ scan.seen \in Seq(Figure)
  BY <1>2, SeenTyped
<1>8. ASSUME scan'.at = p + 1 PROVE Passed' = Passed \cup {p}
  BY <1>2, <1>5, <1>8, PassOn
<1>9. CASE scan.pass = "memory"
  <2> DEFINE total == (scan.total + figure.bytes) % Word
  <2>1. scan' = [scan EXCEPT !.total = total, !.at = p + 1, !.step = "visit"]
    BY <1>1, <1>9
  <2> HIDE DEF total
  <2>2. /\ scan'.pass = "memory" /\ scan'.at = p + 1 /\ scan'.found = scan.found /\ scan'.cap = scan.cap
        /\ scan'.step = "visit" /\ scan'.total = total
    BY <1>2, <1>9, <2>1 DEF Scan
  <2>3. Passed' = Passed \cup {p} /\ p \notin Passed /\ Passed \subseteq Pid /\ Passed' \subseteq Pid
    BY <1>2, <1>7, <1>8, <2>2 DEF Passed, OnGpu
  <2> DEFINE P == Passed \cup {p}
  <2>4. P \subseteq Pid /\ p \in P /\ P \ {p} = Passed
    BY <1>2, <2>3
  <2> HIDE DEF P
  <2>5. /\ Sum(Weights, P) \in 0..(Word - 1)
        /\ \A q \in Pid : Weights[q] = proc[q].bytes /\ Weights[q] \in Nat
    BY <1>3, <2>4, SumsFit
  <2>6. \A q \in P : Weights[q] \in Nat
    BY <2>4, <2>5
  <2>7. Sum(Weights, P) = Weights[p] + Sum(Weights, Passed) /\ Sum(Weights, Passed) \in Nat
    <3>1. Sum(Weights, P) = Weights[p] + Sum(Weights, P \ {p}) /\ Sum(Weights, P \ {p}) \in Nat
      BY <2>4, <2>5, <2>6, SumAdds
    <3> QED
      BY <2>4, <3>1
  <2>8. total = Sum(Weights, P)
    <3>1. scan.total = Sum(Weights, Passed)
      BY <1>5, <1>9 DEF SumInv
    <3>2. figure.bytes = Weights[p] /\ Weights[p] \in Nat
      BY <1>2, <1>6, <2>5
    <3>3. scan.total + figure.bytes = Sum(Weights, P)
      BY <2>7, <3>1, <3>2
    <3>4. \A m \in 0..(Word - 1) : m % Word = m
      BY Bounds
    <3> QED
      BY <2>5, <3>3, <3>4 DEF total
  <2>9. Sum(Weights, Passed)' = Sum(Weights, P)
    BY <1>3, <2>3 DEF P
  <2>10. SumInv'
    BY <1>5, <1>9, <2>2, <2>8, <2>9 DEF SumInv, Done
  <2>11. ListInv'
    BY <1>2, <1>4, <1>9 DEF ListInv, PassOf
  <2> QED
    BY <2>2, <2>10, <2>11 DEF ExactInv
<1>10. CASE scan.pass = "list"
  <2> DEFINE seen == Append(scan.seen, figure)
  <2>1. scan' = [scan EXCEPT !.seen = seen, !.found = scan.found + 1, !.at = p + 1, !.step = "visit"]
    BY <1>1, <1>10
  <2>2. /\ {seen[i].pid : i \in DOMAIN seen} = Listed \cup {figure.pid}
        /\ \A i \in DOMAIN seen : seen[i] = figure \/ \E j \in DOMAIN scan.seen : seen[i] = scan.seen[j]
    BY <1>6, <1>7, OneMore DEF Listed
  <2> HIDE DEF seen
  <2>3. /\ scan'.pass = "list" /\ scan'.at = p + 1 /\ scan'.found = scan.found + 1 /\ scan'.cap = scan.cap
        /\ scan'.step = "visit" /\ scan'.seen = seen
    BY <1>2, <1>10, <2>1 DEF Scan
  <2>4. SumInv'
    BY <2>3 DEF SumInv, Done
  <2>5. ASSUME scan.op = "list" PROVE OwnFigures'
    BY <1>3, <1>5, <1>6, <2>2, <2>3, <2>5 DEF ListInv, OwnFigures
  <2>6. ASSUME scan.op = "list" PROVE Listed' = Passed'
    <3>1. Listed = Passed
      BY <1>2, <1>5, <1>7, <1>10, <2>6 DEF ListInv
    <3>2. Listed' = Listed \cup {p}
      BY <1>6, <2>2, <2>3 DEF Listed
    <3> QED
      BY <1>8, <2>3, <3>1, <3>2
  <2>7. ListInv'
    BY <1>4, <2>3, <2>5, <2>6 DEF ListInv
  <2> QED
    BY <2>3, <2>4, <2>7 DEF ExactInv
<1>11. CASE scan.pass = "util"
  <2>1. scan'.pass = "util" /\ scan'.step = "sample" /\ scan'.op = "util"
    BY <1>1, <1>2, <1>4, <1>11 DEF Scan, PassOf
  <2> QED
    BY <2>1 DEF ExactInv, SumInv, ListInv, Done
<1> QED
  BY <1>2, <1>9, <1>10, <1>11

\* Samples are taken for rates only.
LEMMA QuietSample ==
  ASSUME MonitorInv, Sample
  PROVE  QuietInv'
<1>1. scan \in Scan /\ scan.step = "sample" /\ scan.pass \in {"load", "util"} /\ scan.pass \in PassOf(scan.op)
  BY ScanFields DEF Sample, Scanning, ScanInv
<1>2. scan'.op = scan.op /\ scan'.pass = scan.pass /\ scan'.step = "visit"
  BY <1>1 DEF Sample, Scan
<1>3. scan.op \in {"rates", "util"}
  BY <1>1 DEF PassOf
<1> QED
  BY <1>1, <1>2, <1>3 DEF QuietInv, ExactInv, SumInv, ListInv, Done

\* At its end a pass has passed all the processes.
LEMMA QuietEnd ==
  ASSUME MonitorInv, QuietInv, EndPass
  PROVE  QuietInv'
<1> SUFFICES ASSUME scan'.quiet, Settled' PROVE ExactInv'
  BY DEF QuietInv
<1>1. /\ scan.pass # "done" /\ scan.step = "visit" /\ scan.at \notin Pid /\ Unchanged
      /\ scan' =
           CASE scan.pass = "memory" /\ scan.op = "rates" ->
                  [scan EXCEPT !.pass = "load", !.at = 1, !.found = 0]
             [] scan.pass = "memory" /\ scan.op = "memory" ->
                  [scan EXCEPT !.pass = "done", !.used = Used(scan.total)]
             [] scan.pass = "count" /\ scan.found # 0 ->
                  [scan EXCEPT !.pass = "list", !.at = 1, !.found = 0,
                               !.cap = SmallerOf(scan.found, MaxRows)]
             [] scan.pass = "list" /\ scan.op = "smi" ->
                  [scan EXCEPT !.pass = "done", !.rows = SmallerOf(scan.found, MaxRows)]
             [] OTHER -> [scan EXCEPT !.pass = "done"]
  BY DEF EndPass, Scanning
<1>2. scan \in Scan /\ scan.pass \in PassOf(scan.op)
  BY <1>1, ScanFields DEF ScanInv
<1>3. OnGpu' = OnGpu /\ Settled /\ Weights' = Weights /\ proc' = proc
  BY <1>1, SameProcesses
<1>4. scan'.quiet = scan.quiet /\ scan'.op = scan.op /\ scan'.step = "visit"
  BY <1>1, <1>2 DEF Scan
<1>5. SumInv /\ ListInv
  BY <1>3, <1>4 DEF QuietInv, ExactInv
<1>6. Passed = OnGpu
  <2>1. scan.at \in 1..(LastPid + 1) /\ LastPid \in Nat
    BY <1>2, Bounds DEF Scan
  <2>2. \A p \in Pid : p < scan.at
    BY <1>1, <2>1 DEF Pid
  <2> QED
    BY <2>2 DEF Passed, OnGpu
<1>7. CASE scan.op = "memory"
  <2>1. scan.pass = "memory"
    BY <1>2, <1>7 DEF PassOf
  <2>2. scan' = [scan EXCEPT !.pass = "done", !.used = Used(scan.total)]
    BY <1>1, <1>7, <2>1
  <2>3. scan'.pass = "done" /\ scan'.used = Used(scan.total)
    BY <1>2, <2>2 DEF Scan
  <2>4. scan.total = Sum(Weights, OnGpu)
    BY <1>5, <1>6, <2>1 DEF SumInv
  <2>5. Sum(Weights, OnGpu)' = Sum(Weights, OnGpu)
    BY <1>3
  <2>6. Used(Sum(Weights, OnGpu))' = Used(Sum(Weights, OnGpu))
    BY <2>5 DEF Used
  <2>7. SumInv'
    BY <2>3, <2>4, <2>6 DEF SumInv
  <2> QED
    BY <1>4, <1>7, <2>7 DEF ExactInv, ListInv
<1>8. CASE scan.op = "list"
  <2>1. scan.pass = "list"
    BY <1>2, <1>8 DEF PassOf
  <2>2. scan' = [scan EXCEPT !.pass = "done"]
    BY <1>1, <1>8, <2>1
  <2>3. scan'.pass = "done" /\ scan'.seen = scan.seen /\ scan'.found = scan.found /\ scan'.cap = scan.cap
    BY <1>2, <2>2 DEF Scan
  <2>4. OwnFigures' <=> OwnFigures
    BY <1>3, <2>3 DEF OwnFigures
  <2>5. Listed' = Listed
    BY <2>3 DEF Listed
  <2>6. ListInv'
    BY <1>3, <1>4, <1>5, <1>6, <1>8, <2>1, <2>3, <2>4, <2>5 DEF ListInv
  <2> QED
    BY <1>4, <1>8, <2>3, <2>6 DEF ExactInv, SumInv, Done
<1>9. CASE scan.op \notin {"memory", "list"}
  <2>1. scan'.pass # "memory"
    <3>1. scan.pass = "memory" => scan.op = "rates"
      BY <1>2, <1>9 DEF PassOf
    <3> QED
      BY <1>1, <1>2, <3>1 DEF Scan
  <2> QED
    BY <1>4, <1>9, <2>1 DEF ExactInv, SumInv, ListInv, Done
<1> QED
  BY <1>7, <1>8, <1>9

\* A step of a process ends the quiet, and without a step nothing changes.
LEMMA QuietElse ==
  ASSUME QuietInv, TypeInv, (\E p \in Pid : ProcessStep(p)) \/ UNCHANGED vars
  PROVE  QuietInv'
<1>1. CASE \E p \in Pid : ProcessStep(p)
  <2>1. Disturb
    BY <1>1 DEF ProcessStep, Spawn, OpenDevice, Run, ChangeTotal, FinishWrite, BeginExit, EndExit, Kill, Vanish
  <2>2. ~scan'.quiet
    BY <2>1 DEF Disturb, TypeInv, Scan
  <2> QED
    BY <2>2 DEF QuietInv
<1>2. CASE UNCHANGED vars
  <2>1. scan' = scan /\ Unchanged
    BY <1>2 DEF vars, Unchanged
  <2>2. OnGpu' = OnGpu /\ Settled' = Settled /\ Weights' = Weights /\ proc' = proc
    BY <2>1, SameProcesses
  <2>3. Sum(Weights, Passed)' = Sum(Weights, Passed) /\ Sum(Weights, OnGpu)' = Sum(Weights, OnGpu) /\ Passed' = Passed
    BY <2>1, <2>2 DEF Passed
  <2>4. SumInv' <=> SumInv
    BY <2>1, <2>3 DEF SumInv, Done, Used
  <2>5. ListInv' <=> ListInv
    BY <2>1, <2>2, <2>3 DEF ListInv, OwnFigures, Listed
  <2> QED
    BY <2>1, <2>2, <2>4, <2>5 DEF QuietInv, ExactInv
<1> QED
  BY <1>1, <1>2

\* Every step keeps it.
LEMMA QuietStep ==
  ASSUME MonitorInv, NoWrap, QuietInv, [Next]_vars
  PROVE  QuietInv'
<1>1. TypeInv
  BY DEF MonitorInv
<1>2. ASSUME NEW op \in use.does \ {"account", "run"}, NEW cap \in Buffers, StartScan(op, cap) PROVE QuietInv'
  BY <1>2, QuietStart
<1> QED
  BY <1>1, <1>2, QuietVisit, QuietRead, QuietSample, QuietEnd, QuietElse, Zenon DEF Next, MonitorStep

\* What an undisturbed scan says is so: the memory in use is that of all the processes on the
\* GPU, up to the device's, and a list that is complete names each with its own figure, for any
\* number of processes whose memory together fits in a word.
THEOREM QuietScansAreExact == NoWrap => (Spec => []QuietScanIsExact)
<1>1. ASSUME NEW total \in Nat PROVE Used(total) = SmallerOf(total, TotalMem)
  BY Bounds DEF Used, SmallerOf
<1>2. ASSUME NoWrap, MonitorInv, QuietInv PROVE QuietScanIsExact
  <2> SUFFICES ASSUME scan.quiet, Settled
               PROVE  /\ Done("memory") => scan.used = SmallerOf(TotalOf(OnGpu), TotalMem)
                      /\ Done("list") /\ scan.found <= scan.cap => Listed = OnGpu /\ OwnFigures
    BY DEF QuietScanIsExact, Listed, OwnFigures
  <2>1. SumInv /\ ListInv /\ TypeInv /\ OnGpu \subseteq Pid
    BY <1>2 DEF QuietInv, ExactInv, MonitorInv, OnGpu
  <2>2. TotalOf(OnGpu) = Sum(Weights, OnGpu) /\ Sum(Weights, OnGpu) \in 0..(Word - 1)
    BY <1>2, <2>1, TotalIsSum, SumsFit
  <2>3. Done("memory") => scan.used = SmallerOf(TotalOf(OnGpu), TotalMem)
    BY <1>1, <2>1, <2>2, Bounds DEF SumInv
  <2> QED
    BY <2>1, <2>3 DEF ListInv, Done
<1>3. Init => QuietInv
  <2> SUFFICES ASSUME Init PROVE ExactInv
    BY DEF QuietInv
  <2>1. scan.op = "none" /\ scan.pass = "done" /\ scan.step = "visit"
    BY DEF Init, NoScan
  <2> QED
    BY <2>1 DEF ExactInv, SumInv, ListInv, Done
<1> SUFFICES ASSUME NoWrap PROVE Spec => []QuietScanIsExact
  OBVIOUS
<1>4. MonitorInv /\ QuietInv /\ [Next]_vars => QuietInv'
  BY QuietStep
<1>5. MonitorInv /\ QuietInv => QuietScanIsExact
  BY <1>2
<1> QED
  BY <1>3, <1>4, <1>5, MonitorInvariant, PTL DEF Spec
=============================================================================
