------------------------------ MODULE Monitor ------------------------------
(***************************************************************************)
(* Memory and load of the processes on the GPU, as libnvidia-ml and        *)
(* nvidia-smi report them.  libcuda keeps one accounting file per process; *)
(* a monitor walks /proc and reads the files and the CPU time of the       *)
(* processes it finds.  The two sides share no lock.  The monitor is one   *)
(* thread of a process that holds no device memory itself.                 *)
(*                                                                         *)
(* External: processes are born, run, exit and are killed at any moment,   *)
(* and pids are used again.  /proc lists pids in increasing order.  A read *)
(* of /proc/<pid>/maps is an amount or nothing.                            *)
(***************************************************************************)
EXTENDS Naturals, Sequences, FiniteSets, FiniteSetsExt

CONSTANTS
  LastPid,   \* bound: pids are 1..LastPid
  MaxBirths, \* bound: processes born
  Sizes,     \* totals a process can have allocated
  TotalMem,  \* memory of the device
  MaxTicks,  \* bound: CPU time of a process
  Word,      \* unsigned arithmetic is modulo Word
  MaxProcs,  \* MAX_NVML_PROCS
  MaxRows,   \* MAX_PROCS of nvidia-smi
  Buffers,   \* entries there is room for in a caller's buffer
  Slots,     \* MAX_UTIL_TRACKED_PROCS
  Uses       \* what the processes and the monitor of a run do

ASSUME SizesAssumption == 0 \in Sizes /\ Sizes \subseteq Nat /\ TotalMem \in Nat
ASSUME WordAssumption  == Word \in Nat /\ TotalMem < Word /\ MaxTicks < Word
ASSUME TableAssumption == {LastPid, MaxBirths, MaxTicks, MaxProcs, MaxRows, Slots} \subseteq Nat \ {0} /\ Buffers \subseteq Nat
ASSUME UsesAssumption  ==
  Uses \subseteq [does : SUBSET {"account", "run", "memory", "list", "rates", "util", "smi"},
                  pids : SUBSET (1..LastPid)]

Pid == 1..LastPid

VARIABLES
  use,     \* what happens in this run, and to which pids
  births,  \* processes born so far
  proc,    \* pid -> the process
  file,    \* pid -> its accounting file
  writing, \* pid -> updates of the file in progress
  slots,   \* g_util_samples
  scan     \* the call the monitor is in, or its last one

vars == <<use, births, proc, file, writing, slots, scan>>

\* A process and, as history, whether it has opened its accounting file:
\* "never", "current", or "missed" if an update failed since.
NoProcess ==
  [born |-> 0, fd |-> FALSE, bytes |-> 0, ticks |-> 0, exiting |-> FALSE,
   record |-> "never"]
Alive(p) == proc[p].born # 0

\* A file and, as history, the process that wrote it.
Absent == [state |-> "absent", by |-> 0, bytes |-> 0]
Empty(born) == [state |-> "empty", by |-> born, bytes |-> 0]
Written(born, n) == [state |-> "written", by |-> born, bytes |-> n]

NoSample == [pid |-> 0, ticks |-> 0, taken |-> FALSE, last |-> 0, of |-> 0]
NoRate == [of |-> 0, from |-> 0, ticks |-> 0]
NoScan ==
  [op |-> "none", pass |-> "done", at |-> 1, step |-> "visit", cap |-> 0, found |-> 0,
   seen |-> <<>>, total |-> 0, used |-> 0, rows |-> 0, rate |-> NoRate, quiet |-> TRUE]

Init ==
  /\ use \in Uses /\ births = 0
  /\ proc = [p \in Pid |-> NoProcess] /\ file = [p \in Pid |-> Absent]
  /\ writing = [p \in Pid |-> {}]
  /\ slots = [i \in 1..Slots |-> NoSample] /\ scan = NoScan

-----------------------------------------------------------------------------
(***************************************************************************)
(* Processes.  Every step of theirs ends the quiet of the scan.            *)
(***************************************************************************)
Disturb == scan' = [scan EXCEPT !.quiet = FALSE] /\ UNCHANGED <<use, slots>>

Spawn(p) ==
  /\ p \in use.pids /\ ~Alive(p) /\ births < MaxBirths
  /\ births' = births + 1
  /\ proc' = [proc EXCEPT ![p] = [NoProcess EXCEPT !.born = births + 1]]
  /\ Disturb /\ UNCHANGED <<file, writing>>

\* ensure_initialized_locked opens the device nodes.
OpenDevice(p) ==
  /\ Alive(p) /\ ~proc[p].fd /\ ~proc[p].exiting
  /\ proc' = [proc EXCEPT ![p].fd = TRUE]
  /\ Disturb /\ UNCHANGED <<births, file, writing>>

Run(p) ==
  /\ "run" \in use.does /\ Alive(p) /\ proc[p].ticks < MaxTicks
  /\ proc' = [proc EXCEPT ![p].ticks = @ + 1]
  /\ Disturb /\ UNCHANGED <<births, file, writing>>

\* The file opens, and is empty from then on, or does not.
OpensFile(p, n) ==
  /\ file' = [file EXCEPT ![p] = Empty(proc[p].born)]
  /\ writing' = [writing EXCEPT ![p] = @ \cup {[bytes |-> n, linked |-> TRUE]}]
  /\ proc' = [proc EXCEPT ![p].bytes = n, ![p].record = "current"]
FailsToOpen(p, n) ==
  /\ proc' = [proc EXCEPT ![p].bytes = n,
                          ![p].record = IF @ = "never" THEN "never" ELSE "missed"]
  /\ UNCHANGED <<file, writing>>

\* g.allocated_bytes changes and the file is opened, under g_lock.
\* Mutant: the file is written after g_lock is given up.
ChangeTotalUnlocked(p, n) ==
  /\ "account" \in use.does /\ proc[p].fd /\ n # proc[p].bytes /\ Cardinality(writing[p]) < 2
  /\ OpensFile(p, n) \/ FailsToOpen(p, n)
  /\ Disturb /\ UNCHANGED births
ChangeTotal(p, n) ==
  /\ "account" \in use.does /\ proc[p].fd /\ n # proc[p].bytes /\ writing[p] = {}
  /\ OpensFile(p, n) \/ FailsToOpen(p, n)
  /\ Disturb /\ UNCHANGED births

\* fclose writes the figure; on a full disk it does not.  A file that was
\* unlinked in the meantime is written for nobody.
FinishWrite(p) ==
  \E w \in writing[p] :
    /\ writing' = [writing EXCEPT ![p] = @ \ {w}]
    /\ \/ w.linked /\ file' = [file EXCEPT ![p] = Written(proc[p].born, w.bytes)]
          /\ UNCHANGED proc
       \/ proc' = [proc EXCEPT ![p].record = "missed"] /\ UNCHANGED file
    /\ Disturb /\ UNCHANGED births

\* exit: the destructor unlinks the file, without g_lock, while the other
\* threads go on.
BeginExit(p) ==
  /\ "account" \in use.does /\ Alive(p) /\ ~proc[p].exiting
  /\ proc' = [proc EXCEPT ![p].exiting = TRUE,
                          ![p].record = IF @ = "never" THEN "never" ELSE "missed"]
  /\ file' = [file EXCEPT ![p] = Absent]
  /\ writing' = [writing EXCEPT ![p] = {[w EXCEPT !.linked = FALSE] : w \in @}]
  /\ Disturb /\ UNCHANGED births

Vanish(p) ==
  /\ proc' = [proc EXCEPT ![p] = NoProcess] /\ writing' = [writing EXCEPT ![p] = {}]
  /\ Disturb /\ UNCHANGED <<births, file>>
EndExit(p) == proc[p].exiting /\ Vanish(p)
Kill(p) == Alive(p) /\ ~proc[p].exiting /\ Vanish(p)

-----------------------------------------------------------------------------
(***************************************************************************)
(* The monitor.  A call is one or two passes over /proc:                   *)
(*   memory  scan_total_process_gpu_memory                                 *)
(*   load    scan_total_process_gpu_util                                   *)
(*   count   a list call without a buffer                                  *)
(*   list    scan_nvidia_processes, into a buffer of cap entries           *)
(*   util    nvmlDeviceGetProcessUtilization, likewise                     *)
(***************************************************************************)
\* process_has_nvidia_fd; monitors are not among the processes.
OnGpu == {p \in Pid : Alive(p) /\ proc[p].fd}
SmallerOf(a, b) == IF a <= b THEN a ELSE b
Scanning(step) == scan.pass # "done" /\ scan.step = step
Unchanged == UNCHANGED <<use, births, proc, file, writing>>

FirstPass(op) == CASE op = "rates" -> "memory" [] op = "smi" -> "count" [] OTHER -> op

\* A call with a buffer of cap entries; the totals need none.
StartScan(op, cap) ==
  /\ scan.pass = "done" /\ op \in use.does
  /\ scan' = [NoScan EXCEPT !.op = op, !.pass = FirstPass(op),
                            !.cap = IF op \in {"list", "util"} THEN cap
                                    ELSE IF op = "smi" THEN 0 ELSE LastPid]
  /\ Unchanged /\ UNCHANGED slots

\* Mutant: one entry too many is filled.
VisitOneMore ==
  LET p == scan.at
      stop == scan.pass = "count" /\ scan.found + 1 >= MaxProcs IN
    /\ Scanning("visit") /\ p \in Pid
    /\ scan' = IF p \notin OnGpu THEN [scan EXCEPT !.at = p + 1]
               ELSE IF scan.found < scan.cap \/ (scan.found = scan.cap /\ scan.pass = "list")
                 THEN [scan EXCEPT !.step = IF scan.pass = "load" THEN "sample" ELSE "read"]
               ELSE [scan EXCEPT !.found = @ + 1, !.at = IF stop THEN LastPid + 1 ELSE p + 1]
    /\ Unchanged /\ UNCHANGED slots

\* The next pid.  A process without a device node open is passed over, one
\* that no room is left for only counted; a count stops at its limit.
Visit ==
  LET p == scan.at
      stop == scan.pass = "count" /\ scan.found + 1 >= MaxProcs IN
    /\ Scanning("visit") /\ p \in Pid
    /\ scan' = IF p \notin OnGpu THEN [scan EXCEPT !.at = p + 1]
               ELSE IF scan.found < scan.cap
                 THEN [scan EXCEPT !.step = IF scan.pass = "load" THEN "sample" ELSE "read"]
               ELSE [scan EXCEPT !.found = @ + 1, !.at = IF stop THEN LastPid + 1 ELSE p + 1]
    /\ Unchanged /\ UNCHANGED slots
\* read_process_gpu_memory: the file of a process that is still there, else
\* what its mappings add up to, else nothing.
FromFile(p) == Alive(p) /\ file[p].state = "written"
Figures(p) ==
  IF FromFile(p) THEN {[pid |-> p, src |-> "file", bytes |-> file[p].bytes]}
  ELSE {[pid |-> p, src |-> "none", bytes |-> 0]}
       \cup IF Alive(p) THEN {[pid |-> p, src |-> "maps", bytes |-> n] : n \in Sizes \ {0}} ELSE {}

ReadMemory ==
  /\ Scanning("read")
  /\ \E figure \in Figures(scan.at) :
       scan' =
         CASE scan.pass = "memory" ->
                [scan EXCEPT !.total = (@ + figure.bytes) % Word, !.at = @ + 1, !.step = "visit"]
           [] scan.pass = "list" ->
                [scan EXCEPT !.seen = Append(@, figure), !.found = @ + 1,
                             !.at = @ + 1, !.step = "visit"]
           [] scan.pass = "util" ->
                [scan EXCEPT !.seen = Append(@, figure), !.step = "sample"]
  /\ Unchanged /\ UNCHANGED slots

\* estimate_process_gpu_util: the sample of a pid, else a free one, else
\* the one the pid falls on.
SlotOf(p) ==
  LET own == {i \in 1..Slots : slots[i].pid = p}
      free == {i \in 1..Slots : slots[i].pid = 0} IN
    IF own # {} THEN Min(own) ELSE IF free # {} THEN Min(free) ELSE (p % Slots) + 1

\* Mutant: a sample is taken over with the figures of its last owner.
SampleKept(p) == [slots[SlotOf(p)] EXCEPT !.pid = p]
SampleBefore(p) ==
  IF slots[SlotOf(p)].pid = p THEN slots[SlotOf(p)] ELSE [NoSample EXCEPT !.pid = p]

\* CPU time since the sample if it is old enough, the rate of the sample if
\* it is not, else over the life of the process.
\* Mutant: more ticks in the sample than the process has are not looked for.
RateUnguarded(p, s, old) ==
  LET ticks == proc[p].ticks IN
    IF s.taken /\ old
      THEN [of |-> p, from |-> s.of, ticks |-> (ticks + Word - s.ticks) % Word]
    ELSE IF s.taken /\ ~old THEN [of |-> p, from |-> s.of, ticks |-> s.last]
    ELSE [of |-> p, from |-> p, ticks |-> ticks]
Rate(p, s, old) ==
  LET ticks == proc[p].ticks IN
    IF s.taken /\ old /\ ticks >= s.ticks
      THEN [of |-> p, from |-> s.of, ticks |-> (ticks + Word - s.ticks) % Word]
    ELSE IF s.taken /\ ~old THEN [of |-> p, from |-> s.of, ticks |-> s.last]
    ELSE [of |-> p, from |-> p, ticks |-> ticks]

\* The sum of the rates stops at 100 percent, a list goes on.
AfterSample(p, enough) == IF enough /\ scan.pass = "load" THEN LastPid + 1 ELSE p + 1

Sample ==
  LET p == scan.at
      s == SampleBefore(p) IN
    \E old, enough \in BOOLEAN :
      LET rate == Rate(p, s, old) IN
        /\ Scanning("sample")
        /\ IF Alive(p)
             THEN /\ slots' = [slots EXCEPT ![SlotOf(p)] =
                       [pid |-> p, ticks |-> proc[p].ticks, taken |-> TRUE,
                        last |-> rate.ticks, of |-> p]]
                  /\ scan' = [scan EXCEPT !.rate = rate, !.found = @ + 1, !.step = "visit",
                                          !.at = AfterSample(p, enough)]
             ELSE /\ UNCHANGED slots
                  /\ scan' = [scan EXCEPT !.found = @ + 1, !.at = p + 1, !.step = "visit"]
        /\ Unchanged

\* nvmlDeviceGetMemoryInfo makes used from total and free.
\* Mutant: the sum is taken to be below the memory of the device.
UsedUnclamped(total) ==
  LET free == IF total # 0 THEN (TotalMem + Word - total) % Word ELSE TotalMem IN
    IF free < TotalMem THEN TotalMem - free ELSE 0
Used(total) ==
  LET free == IF total # 0 THEN IF total < TotalMem THEN TotalMem - total ELSE 0
              ELSE TotalMem IN
    IF free < TotalMem THEN TotalMem - free ELSE 0

\* The end of a pass.  nvidia-smi makes a buffer for as many as it counted
\* and shows as many rows as the second call says.
\* Mutant: the second pass goes on counting where the first ended.
EndPassCountsOn ==
  /\ Scanning("visit") /\ scan.at \notin Pid
  /\ scan' =
       CASE scan.pass = "memory" /\ scan.op = "rates" ->
              [scan EXCEPT !.pass = "load", !.at = 1, !.found = 0]
         [] scan.pass = "memory" /\ scan.op = "memory" ->
              [scan EXCEPT !.pass = "done", !.used = Used(scan.total)]
         [] scan.pass = "count" /\ scan.found # 0 ->
              [scan EXCEPT !.pass = "list", !.at = 1,
                           !.cap = SmallerOf(scan.found, MaxRows)]
         [] scan.pass = "list" /\ scan.op = "smi" ->
              [scan EXCEPT !.pass = "done", !.rows = SmallerOf(scan.found, MaxRows)]
         [] OTHER -> [scan EXCEPT !.pass = "done"]
  /\ Unchanged /\ UNCHANGED slots
EndPass ==
  /\ Scanning("visit") /\ scan.at \notin Pid
  /\ scan' =
       CASE scan.pass = "memory" /\ scan.op = "rates" ->
              [scan EXCEPT !.pass = "load", !.at = 1, !.found = 0]
         [] scan.pass = "memory" /\ scan.op = "memory" ->
              [scan EXCEPT !.pass = "done", !.used = Used(scan.total)]
         [] scan.pass = "count" /\ scan.found # 0 ->
              [scan EXCEPT !.pass = "list", !.at = 1, !.found = 0,
                           !.cap = SmallerOf(scan.found, MaxRows)]
         [] scan.pass = "list" /\ scan.op = "smi" ->
              [scan EXCEPT !.pass = "done", !.rows = SmallerOf(scan.found, MaxRows)]
         [] OTHER -> [scan EXCEPT !.pass = "done"]
  /\ Unchanged /\ UNCHANGED slots

-----------------------------------------------------------------------------
ProcessStep(p) ==
  \/ Spawn(p) \/ OpenDevice(p) \/ Run(p) \/ \E n \in Sizes : ChangeTotal(p, n)
  \/ FinishWrite(p) \/ BeginExit(p) \/ EndExit(p) \/ Kill(p)

MonitorStep ==
  \/ \E op \in use.does \ {"account", "run"}, cap \in Buffers : StartScan(op, cap)
  \/ Visit \/ ReadMemory \/ Sample \/ EndPass

Next == MonitorStep \/ \E p \in Pid : ProcessStep(p)

Spec == Init /\ [][Next]_vars

-----------------------------------------------------------------------------
(***************************************************************************)
(* Properties.                                                             *)
(***************************************************************************)
\* Type correctness.
TypeOK ==
  /\ use \in Uses /\ births \in 0..MaxBirths
  /\ \A p \in Pid :
       /\ proc[p].born \in 0..births /\ proc[p].bytes \in Sizes /\ proc[p].ticks \in 0..MaxTicks
       /\ {proc[p].fd, proc[p].exiting} \subseteq BOOLEAN
       /\ proc[p].record \in {"never", "current", "missed"}
       /\ file[p].state \in {"absent", "empty", "written"}
       /\ file[p].by \in 0..births /\ file[p].bytes \in Sizes
       /\ writing[p] \subseteq [bytes : Sizes, linked : BOOLEAN]
  /\ \A i \in 1..Slots : slots[i].pid \in {0} \cup Pid
  /\ scan.pass \in {"memory", "load", "count", "list", "util", "done"}
  /\ scan.at \in 1..(LastPid + 1) /\ scan.found \in 0..LastPid
  /\ scan.total \in 0..(Word - 1) /\ scan.used \in 0..TotalMem

(***************************************************************************)
(* Once a process has opened its file, no figure of an earlier process     *)
(* with its pid, killed with its file in place, is read for it.  Between   *)
(* two updates the file holds what the process has allocated, unless an    *)
(* update failed: no update of another thread is lost or late.             *)
(***************************************************************************)
FileIsOwn ==
  \A p \in Pid :
    Alive(p) =>
      /\ proc[p].record # "never" /\ FromFile(p) => file[p].by = proc[p].born
      /\ proc[p].record = "current" /\ writing[p] = {} =>
           file[p] = Written(proc[p].born, proc[p].bytes)

Done(op) == scan.op = op /\ scan.pass = "done"
Settled == \A p \in OnGpu : proc[p].record = "current" /\ writing[p] = {}
TotalOf(P) ==
  LET sum[p \in 0..LastPid] ==
        IF p = 0 THEN 0 ELSE sum[p - 1] + (IF p \in P THEN proc[p].bytes ELSE 0)
  IN sum[LastPid]

(***************************************************************************)
(* A scan during which nothing changes is exact: the memory in use is that *)
(* of all the processes on the GPU, but at most the device's, and a list   *)
(* names each of them, once, with its own figure.                          *)
(***************************************************************************)
QuietScanIsExact ==
  scan.quiet /\ Settled =>
    /\ Done("memory") => scan.used = SmallerOf(TotalOf(OnGpu), TotalMem)
    /\ Done("list") /\ scan.found <= scan.cap =>
         /\ {scan.seen[i].pid : i \in DOMAIN scan.seen} = OnGpu
         /\ \A i \in DOMAIN scan.seen : scan.seen[i].bytes = proc[scan.seen[i].pid].bytes

(***************************************************************************)
(* A list fits the buffer of the caller, whatever is born during the scan, *)
(* is complete when the call says so, and names no process twice.          *)
(***************************************************************************)
ListFits ==
  /\ scan.pass \in {"list", "util", "done"} => Len(scan.seen) <= scan.cap
  /\ \A op \in {"list", "util", "smi"} : Done(op) => Len(scan.seen) = SmallerOf(scan.found, scan.cap)
  /\ \A i, j \in DOMAIN scan.seen : i < j => scan.seen[i].pid < scan.seen[j].pid

(***************************************************************************)
(* Figures and lists stay within their types and buffers: used memory does *)
(* not exceed the device's, and no sum wraps.                              *)
(***************************************************************************)
WithinBounds == TypeOK /\ ListFits

(***************************************************************************)
(* The rate of a process is made from samples of its own pid, also when    *)
(* there are more processes than samples, and never exceeds the CPU time   *)
(* there can have been: from a process that has a dead one's pid and fewer *)
(* ticks nothing is subtracted.                                            *)
(***************************************************************************)
RateIsSound == scan.rate.from = scan.rate.of /\ scan.rate.ticks <= MaxTicks

(***************************************************************************)
(* A row nvidia-smi shows is a process that was found.                     *)
(***************************************************************************)
RowsAreListed == Done("smi") => scan.rows <= Len(scan.seen)
=============================================================================
