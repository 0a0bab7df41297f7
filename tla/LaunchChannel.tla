--------------------------- MODULE LaunchChannel ---------------------------
(***************************************************************************)
(* Kernel launch through the RM channel: cuLaunchKernel of libcuda, the    *)
(* staging buffers it fills, the GPFIFO ring it submits to, and the GPU    *)
(* that consumes the ring.                                                 *)
(*                                                                         *)
(* The host side runs under g_lock from the first step of a launch to the  *)
(* last, so at most one call is in progress; it is modelled one            *)
(* shared-memory write at a time, because the GPU reads the same memory    *)
(* without the lock.  The GPU is external: it is modelled from what the    *)
(* code writes for it (ring entries, pushbuffer methods, QMD, semaphores). *)
(***************************************************************************)
EXTENDS Integers, FiniteSets

CONSTANTS
  Function,    \* CUfunction handles
  NoFunction,  \* no function
  Module,      \* CUmodule handles
  ModuleOf,    \* f->module
  Envs,        \* the settings of the LANXIN_NVIDIA_CUDA_* variables considered
  Entries,     \* ch_params.gpFifoEntries (32 in the code)
  Slots,       \* ring entries whose 1 KiB pushbuffer slot fits in rm_gpfifo_size
  MaxId,       \* bound: launch ids handed out
  Word         \* 2^32: number of values of a 32-bit semaphore payload

(***************************************************************************)
(* Pushbuffer slots come in pages of four, hence the even number of slots. *)
(***************************************************************************)
ASSUME FunctionAssumption == NoFunction \notin Function /\ ModuleOf \in [Function -> Module]
ASSUME EntriesAssumption  == Entries \in Nat /\ Entries >= 4 /\ Entries % 2 = 0
ASSUME SlotsAssumption    == Slots \in 0..Entries /\ Slots % 2 = 0
ASSUME BoundAssumption    == MaxId \in Nat /\ Word \in Nat /\ Word >= 2

(***************************************************************************)
(* One flag per environment variable the launch path reads.  pbOff is      *)
(* PB_SUBMIT=0, stageOff QMD_STAGE=0, bellOff DOORBELL=0, text             *)
(* CODE_STAGE_TEXT=1, wfi PROGRESS_WFI=1, failUnsup                        *)
(* FAIL_UNSUPPORTED_KERNEL=1, wait WAIT_COMPLETION=1.                      *)
(***************************************************************************)
EnvFlags == {"noop", "rmOnly", "pbOff", "qmd", "strict", "failUnsup",
             "stageOff", "wait", "bellOff", "text", "wfi"}
Environment == [EnvFlags -> BOOLEAN]

ASSUME EnvAssumption == Envs \subseteq Environment

Index == 0..(Entries - 1)
Ids   == 1..MaxId
IdsOr0 == 0..MaxId

\* Mutant: every launch releases the same payload.
PayloadConstant(id) == 1

\* The low 32 bits of a launch id, where 0 is replaced by 1.
Payload(id) == IF id % Word = 0 THEN 1 ELSE id % Word

Buffers == {"pushbuffer", "qmd", "params", "completion"}

PbOps == {"none", "object", "pcas", "release"}
NoPb  == [op |-> "none", fn |-> NoFunction, id |-> 0, payload |-> 0]

EmptyCompletion == [status |-> "none", id |-> 0, host |-> 0, qmd |-> 0, expected |-> 0]
Statuses == {"none", "pending", "done", "timeout"}

Steps == {"idle", "compute", "clearCode", "copyCode", "buffers", "record", "pushbuffer",
          "entries", "userd", "doorbell", "poll", "noop", "return", "done"}
Results == {"none", "success", "unknown", "notSupported"}

VARIABLES
  env,       \* the process environment
  chan,      \* rm_channel_attempted / rm_channel_ready: "fresh", "ready" or "failed"
  compute,   \* rm_compute allocated with an engine id
  put,       \* g.rm_gpfifo_put
  userdPut,  \* GPPut in the UserD page
  bell,      \* a doorbell write the GPU has not acted on
  gp,        \* ring entry -> "nop" or "pb"
  pb,        \* ring entry -> contents of the pushbuffer it points at
  code,      \* module -> staged code object
  bufs,      \* function -> staging buffers mapped for the GPU
  qmd,       \* function -> launch id in its QMD (0: cleared)
  comp,      \* function -> its completion record
  nextId,    \* g.next_id
  loaded,    \* modules not unloaded
  call,      \* the call holding g_lock, or the result of the last one
  gpuPut,    \* the GPU's copy of GPPut
  get,       \* next ring entry the GPU fetches
  pending,   \* QMDs scheduled by a PCAS and not run yet
  fetched,   \* history: launches whose compute pushbuffer was executed
  released,  \* history: launches whose progress semaphore was released
  runs,      \* history: QMD executions
  fault,     \* history: the GPU touched memory that is not mapped
  lapped,    \* history: put overtook get
  timedOut   \* history: some wait ended in a timeout

hostMem  == <<chan, compute, put, nextId>>
ringMem  == <<gp, pb, userdPut, bell>>
stageMem == <<code, bufs, qmd, comp>>
gpuVars  == <<gpuPut, get, pending, fetched, released, runs, fault>>
histVars == <<lapped, timedOut>>
vars == <<env, hostMem, ringMem, stageMem, loaded, call, gpuVars, histVars>>

-----------------------------------------------------------------------------
(***************************************************************************)
(* Initial state: a fresh process with its modules loaded.                 *)
(***************************************************************************)
IdleCall == [pc |-> "idle", fn |-> NoFunction, id |-> 0, via |-> "none",
             staged |-> FALSE, host |-> FALSE, rc |-> 0, ret |-> "none"]

Init ==
  /\ env \in Envs
  /\ chan = "fresh" /\ compute = FALSE /\ put = 0 /\ nextId = 1
  /\ userdPut = 0 /\ bell = FALSE
  /\ gp = [e \in Index |-> "nop"] /\ pb = [e \in Index |-> NoPb]
  /\ code = [m \in Module |-> [state |-> "none", fn |-> NoFunction]]
  /\ bufs = [f \in Function |-> {}]
  /\ qmd = [f \in Function |-> 0]
  /\ comp = [f \in Function |-> EmptyCompletion]
  /\ loaded = Module
  /\ call = IdleCall
  /\ gpuPut = 0 /\ get = 0 /\ pending = {}
  /\ fetched = {} /\ released = {} /\ runs = {} /\ fault = FALSE
  /\ lapped = FALSE /\ timedOut = FALSE

Free == call.pc \in {"idle", "done"}     \* g_lock is not held
Goto(step) == call' = [call EXCEPT !.pc = step]
Fail == call' = [call EXCEPT !.pc = "return", !.rc = -1]

-----------------------------------------------------------------------------
(***************************************************************************)
(* cuLaunchKernel: the choice of path.  A launch that a host kernel        *)
(* implements is finished on the CPU.                                      *)
(***************************************************************************)
NewCall(f) == [IdleCall EXCEPT !.fn = f]

LaunchOnHost(f) ==
  /\ call' = [NewCall(f) EXCEPT !.pc = "return", !.host = TRUE]
  /\ UNCHANGED <<env, hostMem, ringMem, stageMem, loaded, gpuVars, histVars>>

LaunchOnGpu(f) ==
  /\ call' =
       IF env["failUnsup"] THEN [NewCall(f) EXCEPT !.pc = "return", !.rc = -2]
       ELSE IF env["noop"] \/ env["rmOnly"]
         THEN [NewCall(f) EXCEPT !.pc = "noop", !.via = "noop"]
       ELSE IF env["qmd"] \/ ~env["pbOff"]
         THEN [NewCall(f) EXCEPT !.pc = "compute", !.via = "compute"]
       ELSE [NewCall(f) EXCEPT !.pc = "return", !.rc = -1]
  /\ UNCHANGED <<env, hostMem, ringMem, stageMem, loaded, gpuVars, histVars>>

Launch(f) ==
  /\ Free /\ ModuleOf[f] \in loaded /\ nextId <= MaxId
  /\ LaunchOnHost(f) \/ LaunchOnGpu(f)

(***************************************************************************)
(* rm_channel_init: tried once per process, its failure is final.          *)
(***************************************************************************)
ChannelInit(c) ==
  /\ IF chan = "fresh" THEN c \in {"ready", "failed"} ELSE c = chan
  /\ chan' = c

\* Where a failed compute submission goes: cuLaunchKernel retries it as a NOP.
ComputeFailed ==
  call' = IF env["qmd"] \/ env["strict"]
            THEN [call EXCEPT !.pc = "return", !.rc = -1]
            ELSE [call EXCEPT !.pc = "noop", !.via = "noop"]

\* rm_compute_init: a failed class probe frees its object and is retried later.
ComputeInit ==
  /\ call.pc = "compute"
  /\ \E c \in {"ready", "failed"}, ok \in BOOLEAN :
       /\ IF compute THEN chan' = chan ELSE ChannelInit(c)
       /\ compute' = (compute \/ (chan' = "ready" /\ ok))
       /\ IF compute' THEN Goto(IF env["stageOff"] THEN "pushbuffer" ELSE "clearCode")
                      ELSE ComputeFailed
  /\ UNCHANGED <<env, put, nextId, ringMem, stageMem, loaded, gpuVars, histVars>>

-----------------------------------------------------------------------------
(***************************************************************************)
(* Staging the launch packet.  A buffer that is mapped and large enough is *)
(* cleared and reused; otherwise it is released and allocated again, which *)
(* may fail.  A failure falls back to a SET_OBJECT pushbuffer, unless the  *)
(* QMD was asked for.                                                      *)
(***************************************************************************)
StagingFailed ==
  IF env["qmd"] THEN ComputeFailed ELSE Goto("pushbuffer")

ClearCode ==
  /\ call.pc = "clearCode"
  /\ LET m == ModuleOf[call.fn] IN
       \/ /\ code' = [code EXCEPT ![m] = [state |-> "clear", fn |-> NoFunction]]
          /\ Goto("copyCode")
       \/ /\ code[m].state = "none" \/ env["text"]
          /\ code' = [code EXCEPT ![m] = [state |-> "none", fn |-> NoFunction]]
          /\ StagingFailed
  /\ UNCHANGED <<env, hostMem, ringMem, bufs, qmd, comp, loaded, gpuVars, histVars>>

CopyCode ==
  /\ call.pc = "copyCode"
  /\ code' = [code EXCEPT ![ModuleOf[call.fn]] =
                IF env["text"] THEN [state |-> "text", fn |-> call.fn]
                               ELSE [state |-> "whole", fn |-> NoFunction]]
  /\ Goto("buffers")
  /\ UNCHANGED <<env, hostMem, ringMem, bufs, qmd, comp, loaded, gpuVars, histVars>>

\* The buffers in the order they are staged: those before b, and b's own failure.
Before(b) == CASE b = "pushbuffer" -> {}
               [] b = "qmd"        -> {"pushbuffer"}
               [] b = "params"     -> {"pushbuffer", "qmd"}
               [] b = "completion" -> {"pushbuffer", "qmd", "params"}

\* Only the argument buffer changes size, so only it can need a larger mapping.
StageBuffers ==
  /\ call.pc = "buffers"
  /\ LET f == call.fn IN
       \/ /\ bufs' = [bufs EXCEPT ![f] = Buffers]
          /\ qmd'  = [qmd EXCEPT ![f] = 0]
          /\ comp' = [comp EXCEPT ![f] = EmptyCompletion]
          /\ Goto("record")
       \/ \E b \in Buffers :
            /\ b \notin bufs[f] \/ b = "params"
            /\ bufs' = [bufs EXCEPT ![f] = (@ \cup Before(b)) \ {b}]
            /\ qmd'  = IF "qmd" \in Before(b) THEN [qmd EXCEPT ![f] = 0] ELSE qmd
            /\ comp' = comp
            /\ StagingFailed
  /\ UNCHANGED <<env, hostMem, ringMem, code, loaded, gpuVars, histVars>>

\* The launch gets its id; completion record and QMD are filled in.
RecordLaunch ==
  /\ call.pc = "record"
  /\ LET f == call.fn IN
       /\ comp' = [comp EXCEPT ![f] = [status |-> "pending", id |-> nextId, host |-> 0,
                                       qmd |-> 0, expected |-> Payload(nextId)]]
       /\ qmd' = [qmd EXCEPT ![f] = nextId]
  /\ call' = [call EXCEPT !.pc = "pushbuffer", !.id = nextId, !.staged = TRUE]
  /\ nextId' = nextId + 1
  /\ UNCHANGED <<env, chan, compute, put, ringMem, code, bufs, loaded, gpuVars, histVars>>

-----------------------------------------------------------------------------
\* Mutant: the ring index is not reduced.
AfterUnwrapped(e, n) == e + n

(***************************************************************************)
(* Submission.  A launch takes two ring entries: its compute pushbuffer,   *)
(* then the progress semaphore release.  Nothing compares put with the     *)
(* GPU's get.                                                              *)
(***************************************************************************)
After(e, n) == (e + n) % Entries

\* The entry of the compute pushbuffer: an odd put is rounded up.
ComputeEntry == IF put % 2 = 1 THEN After(put, 1) ELSE put

ComputePb == [op |-> IF call.staged /\ env["qmd"] THEN "pcas" ELSE "object",
              fn |-> call.fn, id |-> call.id, payload |-> 0]
ReleasePb == [op |-> "release", fn |-> call.fn, id |-> call.id,
              payload |-> comp[call.fn].expected]

\* Entries the GPU has not fetched.
Unfetched == (put - get) % Entries

\* Mutant: the release goes in front of the compute pushbuffer.
WritePushbufferSwapped ==
  /\ call.pc = "pushbuffer"
  /\ LET e == ComputeEntry IN
       IF call.staged /\ e >= Slots
         THEN ComputeFailed /\ UNCHANGED <<pb, lapped>>
         ELSE /\ pb' = [pb EXCEPT ![e] = IF call.staged THEN ReleasePb ELSE NoPb,
                                  ![After(e, 1)] = ComputePb]
              /\ lapped' = (lapped \/ Unfetched + 2 > Entries)
              /\ Goto("entries")
  /\ UNCHANGED <<env, hostMem, gp, userdPut, bell, stageMem, loaded, gpuVars, timedOut>>

\* Without a slot for the release, a staged launch is abandoned.
WritePushbuffer ==
  /\ call.pc = "pushbuffer"
  /\ LET e == ComputeEntry IN
       IF call.staged /\ e >= Slots
         THEN ComputeFailed /\ UNCHANGED <<pb, lapped>>
         ELSE /\ pb' = [pb EXCEPT ![e] = ComputePb,
                                  ![After(e, 1)] = IF call.staged THEN ReleasePb ELSE NoPb]
              /\ lapped' = (lapped \/ Unfetched + 2 > Entries)
              /\ Goto("entries")
  /\ UNCHANGED <<env, hostMem, gp, userdPut, bell, stageMem, loaded, gpuVars, timedOut>>

\* put moves to p.  The ring is full, and looks empty, when put meets get.
Advance(p) ==
  /\ put' = p
  /\ lapped' = (lapped \/ Unfetched + ((p - put) % Entries) >= Entries)

WriteEntries ==
  /\ call.pc = "entries"
  /\ LET e == ComputeEntry IN
       /\ gp' = [gp EXCEPT ![e] = "pb", ![After(e, 1)] = IF call.staged THEN "pb" ELSE "nop"]
       /\ Advance(After(e, 2))
  /\ Goto("userd")
  /\ UNCHANGED <<env, chan, compute, nextId, pb, userdPut, bell, stageMem, loaded, gpuVars, timedOut>>

\* Mutants: the ring entries keep their old contents; put advances by one entry.
SubmitNoopStale ==
  /\ call.pc = "noop"
  /\ \E c \in {"ready", "failed"} :
       /\ ChannelInit(c)
       /\ IF c = "ready" THEN Advance(After(put, 2)) /\ Goto("userd")
                         ELSE Fail /\ UNCHANGED <<put, lapped>>
  /\ UNCHANGED <<env, compute, nextId, ringMem, stageMem, loaded, gpuVars, timedOut>>
SubmitNoopSingle ==
  /\ call.pc = "noop"
  /\ \E c \in {"ready", "failed"} :
       /\ ChannelInit(c)
       /\ IF c = "ready"
            THEN /\ gp' = [gp EXCEPT ![put] = "nop", ![After(put, 1)] = "nop"]
                 /\ Advance(After(put, 1))
                 /\ Goto("userd")
            ELSE Fail /\ UNCHANGED <<gp, put, lapped>>
  /\ UNCHANGED <<env, compute, nextId, pb, userdPut, bell, stageMem, loaded, gpuVars, timedOut>>

SubmitNoop ==
  /\ call.pc = "noop"
  /\ \E c \in {"ready", "failed"} :
       /\ ChannelInit(c)
       /\ IF c = "ready"
            THEN /\ gp' = [gp EXCEPT ![put] = "nop", ![After(put, 1)] = "nop"]
                 /\ Advance(After(put, 2))
                 /\ Goto("userd")
            ELSE Fail /\ UNCHANGED <<gp, put, lapped>>
  /\ UNCHANGED <<env, compute, nextId, pb, userdPut, bell, stageMem, loaded, gpuVars, timedOut>>

\* Mutant: the old GPPut is written again.
KickUserdOld ==
  /\ call.pc = "userd"
  /\ Goto("doorbell")
  /\ UNCHANGED <<env, hostMem, ringMem, stageMem, loaded, gpuVars, histVars>>

\* rm_channel_kickoff: GPPut, a fence, then the doorbell token.
KickUserd ==
  /\ call.pc = "userd"
  /\ userdPut' = put
  /\ Goto("doorbell")
  /\ UNCHANGED <<env, hostMem, gp, pb, bell, stageMem, loaded, gpuVars, histVars>>

MustWait == env["wait"] \/ (env["qmd"] /\ env["strict"])

KickDoorbell ==
  /\ call.pc = "doorbell"
  /\ bell' = (bell \/ ~env["bellOff"])
  /\ Goto(IF call.via = "compute" /\ call.staged /\ MustWait THEN "poll" ELSE "return")
  /\ UNCHANGED <<env, hostMem, gp, pb, userdPut, stageMem, loaded, gpuVars, histVars>>

(***************************************************************************)
(* rm_poll_launch_completion: g_lock stays held while the record is        *)
(* polled.  The deadline may pass at any poll that does not find it done.  *)
(***************************************************************************)
HostDone(f) == comp[f].host = comp[f].expected
\* Mutants: the QMD release is not waited for; only STRICT_LAUNCH waits for it.
QmdDoneNever(f)  == TRUE
QmdDoneStrict(f) == ~env["strict"] \/ comp[f].qmd = comp[f].expected

QmdDone(f)  == ~env["qmd"] \/ comp[f].qmd = comp[f].expected

PollDone ==
  /\ call.pc = "poll"
  /\ HostDone(call.fn) /\ QmdDone(call.fn)
  /\ comp' = [comp EXCEPT ![call.fn].status = "done"]
  /\ Goto("return")
  /\ UNCHANGED <<env, hostMem, ringMem, code, bufs, qmd, loaded, gpuVars, histVars>>

\* Mutants: the deadline is not looked at; a timeout counts as success.
PollForever ==
  /\ call.pc = "poll" /\ FALSE
  /\ UNCHANGED vars
PollTimeoutSucceeds ==
  /\ call.pc = "poll"
  /\ ~(HostDone(call.fn) /\ QmdDone(call.fn))
  /\ comp' = [comp EXCEPT ![call.fn].status = "timeout"]
  /\ timedOut' = TRUE
  /\ Goto("return")
  /\ UNCHANGED <<env, hostMem, ringMem, code, bufs, qmd, loaded, gpuVars, lapped>>

PollTimeout ==
  /\ call.pc = "poll"
  /\ ~(HostDone(call.fn) /\ QmdDone(call.fn))
  /\ comp' = [comp EXCEPT ![call.fn].status = "timeout"]
  /\ timedOut' = TRUE
  /\ ComputeFailed
  /\ UNCHANGED <<env, hostMem, ringMem, code, bufs, qmd, loaded, gpuVars, lapped>>

\* The CUresult cuLaunchKernel makes of submit_rc and the environment.
LaunchResult ==
  CASE call.host                            -> "success"
    [] ~call.host /\ call.rc = -2           -> "notSupported"
    [] ~call.host /\ call.rc = -1           ->
         IF env["noop"] THEN "unknown"
         ELSE IF env["strict"] \/ env["rmOnly"] THEN "notSupported" ELSE "success"
    [] ~call.host /\ call.rc = 0            ->
         IF env["rmOnly"] \/ (env["strict"] /\ ~env["qmd"]) THEN "notSupported" ELSE "success"

Return ==
  /\ call.pc = "return"
  /\ call' = [call EXCEPT !.pc = "done", !.ret = LaunchResult]
  /\ UNCHANGED <<env, hostMem, ringMem, stageMem, loaded, gpuVars, histVars>>

-----------------------------------------------------------------------------
(***************************************************************************)
(* The other calls that meet the channel.                                  *)
(***************************************************************************)
\* cuCtxSynchronize and cuStreamSynchronize check their handle and return.
Synchronize ==
  /\ Free
  /\ call' = [IdleCall EXCEPT !.pc = "done", !.via = "sync", !.ret = "success"]
  /\ UNCHANGED <<env, hostMem, ringMem, stageMem, loaded, gpuVars, histVars>>

\* cuModuleUnload releases the staging of the module and of its functions at once.
UnloadModule(m) ==
  /\ Free /\ m \in loaded
  /\ loaded' = loaded \ {m}
  /\ bufs' = [f \in Function |-> IF ModuleOf[f] = m THEN {} ELSE bufs[f]]
  /\ qmd'  = [f \in Function |-> IF ModuleOf[f] = m THEN 0 ELSE qmd[f]]
  /\ comp' = [f \in Function |-> IF ModuleOf[f] = m THEN EmptyCompletion ELSE comp[f]]
  /\ code' = [code EXCEPT ![m] = [state |-> "none", fn |-> NoFunction]]
  /\ call' = IdleCall
  /\ UNCHANGED <<env, hostMem, ringMem, gpuVars, histVars>>

-----------------------------------------------------------------------------
(***************************************************************************)
(* The GPU (external).  It learns GPPut from the doorbell, or by polling   *)
(* UserD when the doorbell is disabled, fetches entries in ring order, and *)
(* runs scheduled QMDs in any order.  A fault stops the channel.           *)
(***************************************************************************)
Observe ==
  /\ ~fault
  /\ bell \/ (env["bellOff"] /\ gpuPut # userdPut)
  /\ gpuPut' = userdPut
  /\ bell' = FALSE
  /\ UNCHANGED <<env, hostMem, gp, pb, userdPut, stageMem, loaded, call,
                 get, pending, fetched, released, runs, fault, histVars>>

Fetching(op) ==
  /\ ~fault /\ get # gpuPut
  /\ (IF gp[get] = "nop" THEN "none" ELSE pb[get].op) = op
  /\ get' = After(get, 1)
  /\ UNCHANGED <<env, hostMem, ringMem, code, bufs, qmd, loaded, call, gpuPut, runs, histVars>>

FetchNop == Fetching("none") /\ UNCHANGED <<comp, pending, fetched, released, fault>>

FetchObject ==
  /\ Fetching("object")
  /\ fetched' = fetched \cup {pb[get].id}
  /\ UNCHANGED <<comp, pending, released, fault>>

FetchPcas ==
  /\ Fetching("pcas")
  /\ fetched' = fetched \cup {pb[get].id}
  /\ pending' = pending \cup {[fn |-> pb[get].fn, id |-> pb[get].id]}
  /\ UNCHANGED <<comp, released, fault>>

\* With WFI the release waits for the scheduled QMDs.
FetchRelease ==
  /\ env["wfi"] => pending = {}
  /\ Fetching("release")
  /\ LET p == pb[get] IN
       /\ released' = released \cup {p.id}
       /\ fault' = ("completion" \notin bufs[p.fn])
       /\ comp' = IF "completion" \in bufs[p.fn]
                    THEN [comp EXCEPT ![p.fn].host = p.payload] ELSE comp
  /\ UNCHANGED <<pending, fetched>>

\* What the hardware reads is the QMD and the code as they are now.
CodeReady(f) == LET c == code[ModuleOf[f]] IN c.state = "whole" \/ (c.state = "text" /\ c.fn = f)
Mapped(f) == Buffers \subseteq bufs[f] /\ code[ModuleOf[f]].state # "none"

RunQmd(q) ==
  /\ ~fault /\ q \in pending
  /\ pending' = pending \ {q}
  /\ fault' = ~Mapped(q.fn)
  /\ runs' = runs \cup {[id |-> q.id, args |-> qmd[q.fn], code |-> CodeReady(q.fn)]}
  /\ comp' = IF Mapped(q.fn) /\ qmd[q.fn] # 0
               THEN [comp EXCEPT ![q.fn].qmd = Payload(qmd[q.fn])] ELSE comp
  /\ UNCHANGED <<env, hostMem, ringMem, code, bufs, qmd, loaded, call,
                 gpuPut, get, fetched, released, histVars>>

-----------------------------------------------------------------------------
HostStep ==
  \/ ComputeInit \/ ClearCode \/ CopyCode \/ StageBuffers \/ RecordLaunch
  \/ WritePushbuffer \/ WriteEntries \/ SubmitNoop \/ KickUserd \/ KickDoorbell
  \/ PollDone \/ PollTimeout \/ Return

FetchStep == FetchNop \/ FetchObject \/ FetchPcas \/ FetchRelease
RunStep   == \E q \in pending : RunQmd(q)

Next ==
  \/ \E f \in Function : Launch(f)
  \/ \E m \in Module : UnloadModule(m)
  \/ Synchronize
  \/ HostStep
  \/ Observe \/ FetchStep \/ RunStep

Spec == Init /\ [][Next]_vars

\* The thread that holds g_lock keeps running; nothing is assumed of the GPU.
HostSpec == Spec /\ WF_vars(HostStep)

\* The GPU answers doorbells, fetches and runs.
GpuFairness == WF_vars(Observe) /\ WF_vars(FetchStep) /\ WF_vars(RunStep)
FairSpec == HostSpec /\ GpuFairness
-----------------------------------------------------------------------------
(***************************************************************************)
(* Properties.                                                             *)
(***************************************************************************)
PbType   == [op : PbOps, fn : Function \cup {NoFunction}, id : IdsOr0, payload : Nat]
CodeType == [state : {"none", "clear", "whole", "text"}, fn : Function \cup {NoFunction}]
CompType == [status : Statuses, id : IdsOr0, host : Nat, qmd : Nat, expected : Nat]
CallType == [pc : Steps, fn : Function \cup {NoFunction}, id : IdsOr0,
             via : {"none", "noop", "compute", "sync"}, staged : BOOLEAN,
             host : BOOLEAN, rc : {0, -1, -2}, ret : Results]
QmdRef   == [fn : Function, id : Ids]
QmdRun   == [id : Ids, args : IdsOr0, code : BOOLEAN]

HostType ==
  /\ env \in Environment
  /\ chan \in {"fresh", "ready", "failed"} /\ compute \in BOOLEAN
  /\ put \in Index /\ nextId \in 1..(MaxId + 1)
  /\ loaded \subseteq Module /\ call \in CallType
  /\ lapped \in BOOLEAN /\ timedOut \in BOOLEAN
SharedType ==
  /\ userdPut \in Index /\ bell \in BOOLEAN
  /\ gp \in [Index -> {"nop", "pb"}] /\ pb \in [Index -> PbType]
  /\ code \in [Module -> CodeType] /\ bufs \in [Function -> SUBSET Buffers]
  /\ qmd \in [Function -> IdsOr0] /\ comp \in [Function -> CompType]
GpuType ==
  /\ gpuPut \in Index /\ get \in Index /\ fault \in BOOLEAN
  /\ pending \subseteq QmdRef /\ runs \subseteq QmdRun
  /\ fetched \subseteq IdsOr0 /\ released \subseteq Ids

\* Type correctness of the launch path's state.
TypeOK == HostType /\ SharedType /\ GpuType

(***************************************************************************)
(* The inductive invariant behind TypeOK and DoneIsConsumed: what a call   *)
(* in progress, a pushbuffer and a completion record are about.            *)
(***************************************************************************)
BeforeRecord == {"compute", "clearCode", "copyCode", "buffers", "record"}
AfterRecord  == {"noop", "pushbuffer", "entries", "userd", "doorbell", "poll"}

CallInv ==
  /\ ~Free => call.fn \in Function
  /\ call.pc \in BeforeRecord => nextId <= MaxId /\ ~call.staged
  /\ call.staged => call.id \in Ids
  /\ call.pc = "poll" => call.staged
  /\ call.staged /\ call.pc \in AfterRecord =>
       comp[call.fn].id = call.id /\ comp[call.fn].status # "none"
PbInv ==
  \A e \in Index :
    /\ pb[e].op # "none" => pb[e].fn \in Function
    /\ pb[e].op = "pcas" => pb[e].id \in Ids
    /\ pb[e].op = "release" => pb[e].id \in Ids /\ pb[e].payload = Payload(pb[e].id)
CompInv ==
  \A f \in Function :
    /\ comp[f].host = 0 \/ \E id \in released : comp[f].host = Payload(id)
    /\ comp[f].status # "none" =>
         comp[f].id \in Ids /\ comp[f].expected = Payload(comp[f].id)

LaunchInv == CallInv /\ PbInv /\ CompInv

(***************************************************************************)
(* A completion record the host marked DONE belongs to a launch whose own  *)
(* progress release the GPU executed: no stale release of an earlier       *)
(* launch of the function, and no cleared record, satisfies the poll.      *)
(***************************************************************************)
DoneIsConsumed ==
  \A f \in Function : comp[f].status = "done" => comp[f].id \in released

(***************************************************************************)
(* HOST progress implies consumption: the progress release of a launch is  *)
(* executed only after its compute pushbuffer, while put has not lapped    *)
(* get.                                                                    *)
(***************************************************************************)
ReleasedAfterFetched == lapped \/ released \subseteq fetched

(***************************************************************************)
(* Ring entries come in pairs at even positions: a release entry is always *)
(* preceded by the compute entry of the same launch, also across the NOPs  *)
(* of failed launches, so put stays even and the rounding is never needed. *)
(***************************************************************************)
PairedEntries ==
  /\ put % 2 = 0
  /\ \A e \in Index :
       gp[e] = "pb" /\ pb[e].op = "release" /\ (call.pc = "entries" => e # After(put, 1))
       => e % 2 = 1 /\ gp[e - 1] = "pb" /\ pb[e - 1].op # "release" /\ pb[e - 1].id = pb[e].id

(***************************************************************************)
(* The GPU never executes a launch's pushbuffers a second time while put   *)
(* has not lapped get: every entry between get and put is fresh.           *)
(***************************************************************************)
NoReplay ==
  [][get' # get /\ ~lapped /\ gp[get] = "pb" =>
       /\ pb[get].op = "release" => pb[get].id \notin released
       /\ pb[get].op = "pcas"    => pb[get].id \notin fetched]_vars

\* The staging memory of f is named by an unfetched entry or a pending QMD.
InFlight(e) == ((e - get) % Entries) < Unfetched /\ gp[e] = "pb"
InUse(f) ==
  \/ \E q \in pending : q.fn = f
  \/ \E e \in Index : InFlight(e) /\ pb[e].op \in {"pcas", "release"} /\ pb[e].fn = f

(***************************************************************************)
(* When every launch waits for its completion and none has timed out, the  *)
(* GPU refers to staging memory only during the launch that filled it: no  *)
(* later launch restages, and no unload unmaps, memory still in use.       *)
(***************************************************************************)
QuietBeforeReuse ==
  MustWait /\ ~timedOut /\ ~lapped =>
    \A f \in Function : InUse(f) => call.fn = f /\ call.pc \in {"userd", "doorbell", "poll"}

(***************************************************************************)
(* Under the same conditions every QMD runs with the arguments and the     *)
(* code of the launch that submitted it, and the GPU never faults on       *)
(* staging memory.                                                         *)
(***************************************************************************)
RunsOwnLaunch ==
  MustWait /\ ~timedOut /\ ~lapped =>
    ~fault /\ \A r \in runs : r.args = r.id /\ r.code

(***************************************************************************)
(* With QMD_SUBMIT and STRICT_LAUNCH, a launch that reports success on the *)
(* GPU path had its progress release executed and a QMD with its arguments *)
(* run, unless QMD_STAGE=0 keeps QMDs from being made.                     *)
(***************************************************************************)
StrictSuccessRan ==
  /\ env["qmd"] /\ env["strict"] /\ ~env["stageOff"]
  /\ call.pc = "done" /\ call.via = "compute" /\ call.ret = "success"
  => call.id \in released /\ \E r \in runs : r.args = call.id

(***************************************************************************)
(* The thread that holds g_lock gives it back, whatever the GPU does.      *)
(***************************************************************************)
CallReturns == ~Free ~> Free

(***************************************************************************)
(* With a GPU that makes progress a launch that was kicked off is          *)
(* consumed, unless the ring was lapped or the channel faulted: the GPPut  *)
(* write precedes the doorbell, so no wake-up is lost.                     *)
(***************************************************************************)
Kicked(id) == call.pc \in {"poll", "return"} /\ call.via = "compute" /\ call.staged
              /\ call.rc = 0 /\ call.id = id
SubmittedIsConsumed ==
  GpuFairness => \A id \in Ids : Kicked(id) ~> (id \in released \/ lapped \/ fault)

-----------------------------------------------------------------------------
(***************************************************************************)
(* What the README says and the code does not keep.                         *)
(***************************************************************************)
\* README: the default cuLaunchKernel submits the compute pushbuffer.
EverySubmissionIsConsumed ==
  \A id \in Ids : Kicked(id) ~> (id \in released \/ fault)
=============================================================================
