# A TLA+ development for the Lanxin RISC-V NVIDIA driver shim

The repository is a CUDA 12.9 toolkit root for RISC-V in which the toolkit
headers, wrappers and version files are the vendor's, and the driver layer under
`src/nvidia_driver_shim/` is its own: a `libcuda.so.1` that talks to the NVIDIA
kernel driver through RM ioctls, a `libcudart` and a `libnvidia-ml` on top of
it, an `nvidia-smi`, and a set of probes. This directory models that driver
layer.

File names without a directory are under `src/nvidia_driver_shim/`, `cuda.h` and
`cuda_runtime_api.h` under `src/include/`.

## Inventory

| Part | Where | State | Operations | Hard behaviour |
|---|---|---|---|---|
| Launch path | `libcuda_nvidia.c` 1932-2772, 6420-6559 | ring put, UserD page, pushbuffer slots, staging buffers and completion record per function, code buffer per module, launch ids | `cuLaunchKernel(Ex)`, staging, ring submission, doorbell, completion poll | the GPU reads the same memory without a lock; late completions; ring overrun; reuse of staging memory |
| Device memory registry | 2774-2868, 3115-3257, 3755-3987 | allocation list, `allocated_bytes`, RM memory objects and mappings, accounting file | alloc/free/managed/pitch/host/register/unregister, address range, info | ownership across failure paths; overlapping and duplicate registrations; boundary lookups |
| Copies and fills | 3994-4262 | none of their own | `cuMemcpy*`, `cuMemset*`, `cuMemcpy2D` | a 2D copy gives the lock up between rows; size products that wrap |
| RM objects and channel bring-up | 1457-1930, 1955-2210 | client, device, subdevice, VA space, notifier, error ctxdma, GPFIFO, UserD, usermode page, channel, compute object, four file descriptors | `rm_init`, `rm_channel_init`, `rm_channel_destroy`, `rm_compute_init` | failure at any of about twenty steps; teardown of exactly what was built |
| Contexts | 3011-3100, 3513-3752 | primary context, thread-local current context and stack of 32 | create, destroy, set, push, pop, retain, release, reset | destroyed contexts still named by other threads and by streams |
| Modules, functions, globals, linker, libraries, kernels | 1303-1430, 4465-5164 | module list, function and global lists per module, library and kernel tables | load, get-or-create, unload, link, library load and unload | lists changed without the lock; stale handles |
| Streams and events | 4290-4463 | magic-tagged heap objects, event timestamps | create, destroy, query, record, elapsed | events written without the lock; streams outliving contexts |
| Host kernel fallbacks | 5399-6464 | none | nine CPU kernels | numeric code, run under the lock |
| Launch parameter capture, QMD and method encodings | 2111-2164, 2338-2461, 5166-5231 | none | pure functions | bit ranges, zero and overflow |
| cubin and fatbin parsing | 800-1456 | none | pure functions over images | bounds |
| `libcudart` | `libcudart_nvidia.c` | allocation table, registered functions, last error, pushed call configuration | runtime API on top of the driver API | one process-wide last error; registrations that outlive their module |
| `libnvidia-ml`, `nvidia-smi` | `libnvidia_ml.c`, `nvidia_smi.c` | init count, utilisation slots | process scan, memory accounting, utilisation estimate | files of other processes read while they are rewritten or after they died |
| `libcublas` | `libcublas_nvidia.c` | handle | GEMM on the CPU | none |
| Probes, scripts, wrappers | `*_probe.c`, `*.sh`, `src/bin/` | none | tests | none |
| Vendor headers | `src/include/` | none | none | third-party |

How they interact: every driver entry point that touches global state takes the
one mutex `g_lock`. `libcudart` and `libcublas` call the driver API and keep
tables of their own under a second lock. `libnvidia-ml` shares nothing with the
driver library but a directory of accounting files, one per process. The GPU
shares the ring, the pushbuffers, the staging buffers and the completion records
with the launch path, and takes no lock.

What makes each part correct is listed under "Modules" for those that are
modelled, and in `PROJECT.json` under "hazards" for the rest. Of the lines of C
in the repository nearly all are vendor headers; the five files of the driver
layer are under three per cent of them.

## Modules

### LaunchChannel

One `cuLaunchKernel` at a time holds `g_lock`; the record `call` is that call and
`call.pc` the point it has reached. A host action ends at each write the GPU can
see:

| Action | Code |
|---|---|
| `Launch` (`LaunchOnHost`, `LaunchOnGpu`) | `cuLaunchKernel` up to the choice of path; a host kernel that succeeds ends the call |
| `ComputeInit` | `rm_compute_init_locked`, `rm_channel_init_locked` as one outcome: the channel is tried once per process, the compute object again on every launch |
| `ClearCode`, `CopyCode` | `rm_stage_module_code_locked`: the buffer shared by the module's functions is cleared, then filled |
| `StageBuffers` | the four `rm_stage_alloc_locked` calls, each reusing and clearing, or allocating and perhaps failing |
| `RecordLaunch` | launch id, completion record, QMD |
| `WritePushbuffer`, `WriteEntries` | the two pushbuffers, then the two ring entries and `put` |
| `KickUserd`, `KickDoorbell` | `rm_channel_kickoff_locked` |
| `PollDone`, `PollTimeout` | `rm_poll_launch_completion_locked` |
| `SubmitNoop` | `rm_submit_noop_locked`, directly or as the retry of a failed submission |
| `Return` | the translation of `submit_rc` to a `CUresult` |
| `Synchronize`, `UnloadModule` | `cuCtxSynchronize`, `cuModuleUnload` |

The GPU is external: `Observe` (doorbell, or polling UserD when the doorbell is
off), `FetchNop`, `FetchObject`, `FetchPcas`, `FetchRelease` in ring order, and
`RunQmd`, which reads the QMD, the arguments and the code as they are at that
moment. A GPU access to memory that is not mapped stops the channel.

The environment variables are a record of flags fixed for the process. A message
is abstracted to the operation it performs, the function whose memory it names,
the launch it belongs to and its payload. Not represented: the QMD's bit fields
and the method words, and a program that changes the environment between calls.

`fetched`, `released`, `runs`, `fault`, `lapped` and `timedOut` are history.
`lapped` is set when `put` overwrites, or meets, an entry that has not been
fetched; the properties of ring contents hold up to that point, and
`EverySubmissionIsConsumed` shows that it is reachable in the code's default mode.

### RmChannel and ChannelService

`RmChannel` is what `LaunchChannel` takes as one outcome: `rm_init_locked`,
`rm_channel_init_locked`, `rm_usermode_init_locked`, `rm_channel_destroy_locked`,
`rm_compute_init_locked` and `rm_stage_alloc_locked`, one call into the kernel at
a time. `g_lock` is held throughout, so an operation is the sequence `todo` of
kernel calls it still has to make. Every call can fail, and a failure replaces
the rest of `todo` by the clean-up the code runs. The library's view (handles,
pointers, descriptors, sizes) and the kernel's (objects with their parents,
mappings, open files) are separate variables, and the properties relate them.

`ChannelService` is what the launch path relies on: a channel that, once up,
stays up, a compute object that, once bound, stays bound, and buffers mapped only
for a channel that is up. `ImplementsService` checks that `RmChannel` refines it.

### DeviceMemory

The list `g.allocs` is a set of records whose ids give the order of the list.
`cuMemAlloc` (`RmAlloc`, `RmAllocFails`, then the heap as a fallback),
`cuMemAllocManaged`, `cuMemAllocHost`, `cuMemHostAlloc`, `cuMemFree`,
`cuMemFreeHost`, `cuMemHostRegister` and `cuMemHostUnregister` are actions; a heap
allocation is two steps, because the block is made before `g_lock` is taken.
`RangeContains` and `FindAlloc` are the lookups behind copies, fills, pointer
attributes and `cuMemGetAddressRange`. The heap and the RM mappings are external:
heap blocks never touch, RM mappings are whole pages and may.

### Copies

Extends `DeviceMemory` with what uses a resolved pointer: `cuMemcpyHtoD`,
`cuMemcpyDtoH`, `cuMemcpyDtoD` (`Copy1D`), `cuMemcpy` (`CopyUva`), the fills
(`Fill`) and `cuMemcpy2D` (`Copy2D`, `CopyRow`, `CopyRowFails`, `CopyReturns`),
which takes `g_lock` anew for each row, so that other threads allocate and free
between two rows. What they do is `AllocOrFree`: allocations that RM serves, and frees. The heap
fallback of `cuMemAlloc`, managed and pinned memory and registrations are actions of
`DeviceMemory`, but not beside a copy, where they would make the instance too large. A copy is the set of bytes it touches, each with the
allocation it was resolved to. `use`, chosen once, says whether the program makes
all calls of `DeviceMemory` or copies beside RM allocations and frees. Sizes whose
products wrap are left out.

### Contexts and ContextStacks

A handle is the address of a struct, and the structs of contexts, streams and
events come from one heap whose chunks are used again; `obj` is what is at each
address. `current` and `stack` are the thread-local variables, `primary` is
`g.primary_ctx`. Each call is one action: creation, destruction, `cuCtxSetCurrent`,
push and pop, retain, reset and flags of the primary context, the queries that
make it (`UseCurrent`), and the streams and events that take memory or name a
context. `Careful` says whether the program destroys a context only when no other
thread, stack or stream names it; the code has no such guard, `cuda.h` asks for it.

`ContextStacks` is the same calls on identities instead of addresses: one stack per
thread whose top is current, streams bound to the context they were opened in.
`ImplementsStacks`, the refinement, says that to such a program it makes no difference
that the memory of a context becomes another's. It was written from the code and is
not what `cuda.h` promises: what a call does to the stack is the code's rule, and
`cuda.h` has another for creation, for the destruction of the current context, for
`cuCtxSetCurrent(NULL)` and for the retention of the primary context.
`StackAsDocumented` of `Contexts` states these four, and the code violates each; they are listed
under "Findings".

### ModuleTable

The lists of functions, globals and kernels are searched and prepended to without
a lock. An operation of a thread is a sequence of requests; a request searches,
allocates, reads the head and writes it in steps of its own, so that all
interleavings of two threads are there. `plan`, chosen once, says whether a
module is loaded by itself, for a library or as a fat binary of libcudart, which
keeps the model small without leaving a use out. Unloading while a call on the
module is in progress is excluded: the code frees what the call is using.

### Runtime

libcudart's table of allocations, copies of kind `cudaMemcpyDefault`, the
configuration pushed by `<<<...>>>` and the last error. A call is a sequence of
steps, each a section of libcudart's lock or a call of an allocator; blocks live
in one address space whose addresses are used again. `use`, chosen once, says
which calls a thread makes.

### Monitor

Processes change `allocated_bytes` and write their accounting file in two steps,
because an opened file is empty until it is closed; either step may fail, and a
process may exit, which unlinks the file, or be killed, which does not, between
any two. A pid is used again, so a file can outlive its process. The monitor, one
process without device memory of its own, walks the pids in order and reads what
is there at that moment; `scan` is its call, with the buffer it fills. Amounts
read from `/proc/<pid>/maps` are any, and a rate is a number of ticks together
with the sample it was made from. `record`, `by`, `of` and `quiet` are history.

### HostKernels, Encodings, Images, Algorithms

Pure functions, as operators over data whose sizes are constants.
`HostKernels`: the conversions between number formats on the fields of their bits,
for any widths of exponent and mantissa; the direct copy between integer types;
and for each host kernel the function from its loop variables to the elements it
writes and reads, with the strides of tensors without gaps. `Encodings`: method
headers, ring entries, the QMD as a function from bit to value, written field by
field in the code's order, and the parameters captured for it. `Images`: the size
`probe_elf_image_size` gives a 64-bit cubin, and the kernels and metadata found in
the bytes that were copied; an image is what its headers say, a name is a prefix
and a kernel.

`Algorithms` has one state per input and compares each operator with a reference
that is stated independently: the nearest number of the format, the number an
element stands for, "every element once, nothing beside it, read direction by direction
from where it belongs" (`Repeats`, `TakesRows`, `TakesWeights`: an element is taken apart
into its directions by remainders, where the kernels put it together with strides, so
that an exchanged stride shows), the value read back from the bits, and the kernels of a
well-formed file. A file is well-formed if it is
whole (`InFile`) and if no two of its sections have the same name, its sections have the
types their names say and a kernel's symbols point at its own section (`Proper`); of
any other image only what is read, not what is found, is claimed.

The inputs are constants, and what they may be is assumed of them: extents that the
kernels accept (`ShapesAssumption`), words, addresses and sizes in the range of their C
types and fields (`EncodedAssumption`), unsigned offsets and finite lists
(`CubinsAssumption`), and formats with fewer bits of mantissa than the float and either its
exponents or so many fewer that its denormal numbers become zero, as those of a
half are (`ConversionsAssumption`). `Powers` is 2^n as a recursive function; the operator `^` of
the standard module cannot be reasoned about.

## Runs

| Run | Instance | Shows |
|---|---|---|
| `LaunchPaths` | 1 function, 6 entries of which 4 have a pushbuffer slot, 3 launches, 14 environments, one per path | types; a release follows its compute pushbuffer; entries stay in pairs across NOP, unstaged and no-slot submissions; strict success means released and run |
| `LaunchWait` | 2 functions of one module, 6 entries, 2 launches, 2 environments that wait | no false DONE; staging memory is quiet before reuse; a QMD runs with its own arguments and code; no pushbuffer is replayed |
| `LaunchLive` | host fairness; the GPU's is a premise of the second property | the call returns also when the GPU hangs; what was kicked off is consumed unless lapped |
| `LaunchOverrun` | violation, one environment | a finding below |
| `RmFailures` | GPFIFO of 4 pages, 2 staging buffers of up to 2, 2 classes each, every kernel call may fail | the library never uses, frees or names what the kernel does not have; nothing is left behind; the channel is whole or absent; `ChannelService` |
| `MemoryOwnership` | 2 threads, 6 addresses, pages of 2, sizes 0 and 2, 3 registrations; copies of two rows of a byte with pitch 1 or 2, beside RM allocations and frees | one owner per block; nothing orphaned; exact total; resolved ranges are inside their allocation; a copy touches only live memory |
| `Modules` | 2 threads; a module, two fat binaries, libraries with one and two kernels; 6 objects | one handle per symbol, nothing lost, discovery complete, kernels, registrations and launch buffers never name what was freed |
| `Monitor` | 3 births over 2 or 3 pids, totals 0 and 2 of 3, buffers of 2, 2 samples | a file is current and never a predecessor's; an undisturbed scan is exact; lists fit; rates are of one pid and do not wrap |
| `Runtime` | 2 threads, 3 addresses, sizes 0 to 2, 2 blocks, 2 configurations, nesting 2 | the table describes what is there; the right allocator; the right direction; the right configuration |
| `Contexts` | 2 threads, 3 chunks, stacks of 2, 4 identities, a careful program | one primary context, with the device's flags; addresses that are used again make no difference (`ContextStacks`) |
| `ContextsShared` | violation, a program that is not careful, 3 identities | a finding below |
| `Algorithms` | 9635 inputs | conversions are nearest, casts keep the number, kernels write each element once from the elements that belong to it, encodings decode, kernels of an image are found |

Bounds. Two launches are the fewest in which one can disturb another, four
entries the fewest that wrap and six the fewest in which a NOP can land on an
entry of an earlier lap. `MaxId` bounds the launch ids and `Word` the payload
values, with `MaxId < Word` so that ids do not repeat modulo 2^32, as in the
theorem. `MaxHandle` of `RmChannel` is what one complete bring-up and one
complete retry draw. In `DeviceMemory` six addresses hold three blocks, so that a
lookup can hit the wrong one of two and a registration can lie over either, and
in `Runtime` three hold two blocks that touch. Three births are the fewest with
which a table of two samples overflows, and with which a pid is used again while
another process runs. Six objects in `ModuleTable` are
what two threads racing through a discovery of two kernels and a request of their
own make. In `Contexts` three chunks are the fewest with which a context dies and its
memory becomes another while a third struct names it; the constraint `FewPushed`
keeps the stacks of two threads together as deep as one may be. In `Algorithms`
conversions to halves are checked on every number of a format of 4 exponent and 5
mantissa bits narrowed to (3, 2) and (4, 2), which has the same cases as 8 and 23
to (5, 10) and (8, 7), because the code's shifts depend on the widths alone; the
way up and back is checked on the real formats. Integer types are 2 to 6 bits wide
with a double of 5 significant bits, so that every element is enumerated, and a
word of the QMD has 30 bits of value because TLC's integers have 32. Images have up
to six sections with 8 in the place of 8192. `CHECK_DEADLOCK FALSE` is set where a program may stop calling the API
or a bound is reached.

Fairness. `HostSpec` has weak fairness of the host's steps, because the thread
that holds `g_lock` is scheduled and every loop it is in has a deadline.
`FairSpec` adds weak fairness of the GPU's observing, fetching and running, which
is what a working device does; it is assumed only where a property is about the
GPU's work being done, in `SubmittedIsConsumed` as a premise of the property.

## Findings

- A default launch does not wait and the ring is never compared with the GPU's
  position: sixteen launches the GPU has not fetched are lost (`LaunchOverrun`).
- A thread whose current context another thread destroyed gets no error: the
  invalid handle is passed over and the primary context is used, or whichever
  context was given the same memory, where `cuda.h:6642` promises
  `CUDA_ERROR_CONTEXT_IS_DESTROYED` (`ContextsShared`).

Stated in the modules as properties the code violates, without a run of their own:

- A zero-byte lookup of the first byte of an allocation finds a newer one that
  ends there, and `cuMemGetAddressRange` returns it (`AddressRangeExact` of
  `DeviceMemory`, line 3121).
- Two threads that ask for a new global at once get two addresses, and one block
  is never freed (`OneGlobal` of `ModuleTable`, line 4566).
- `nvidia-smi` shows a row of zeros for a process that appears between its count
  and its list (`RowsAreListed` of `Monitor`, `nvidia_smi.c:249`).
- A thread's stack of contexts is not what `cuda.h` says it is, also for a program that
  destroys only what nothing else names (`StackAsDocumented` of `Contexts`; TLC with
  `Contexts.cfg` and this property in the place of its own finds it violated, and each of its four
  parts alone, after two to four calls):
  - a context that was current when another was created is not restored by a pop
    (3532), where `cuda.h:6210` and 6715 say it is (`CreatePushes`);
  - destroying the current context leaves the thread without one and keeps what was
    pushed (3558), where `cuda.h:6640` says it is popped "as though ::cuCtxPopCurrent()
    were called" (`DestroyPops`);
  - `cuCtxSetCurrent(NULL)` does the same (3576), where `cuda.h:6751` says it is
    "equivalent to popping the top" (`UnbindPops`);
  - `cuDevicePrimaryCtxRetain` makes the primary context current (3688), where
    `cuda.h:5938` says it "is not pushed onto the stack" (`RetainLeavesCurrent`).

Seen while reading, without a run:

- `cuCtxSynchronize` returns while work is outstanding (3642), where `cuda.h:6918`
  promises that it blocks until the work is complete.
- With `WAIT_COMPLETION=1` a launch whose completion timed out is retried as a
  NOP and reported as success (`libcuda_nvidia.c:6516`).
- `RM_SUBMIT=1` is documented to keep returning `CUDA_ERROR_NOT_SUPPORTED`; a
  kernel with a host fallback returns success (`README.md:44`, 6528).
- `QMD_SUBMIT=1 STRICT_LAUNCH=1 QMD_STAGE=0` returns success with no QMD
  submitted.
- `cuMemHostRegister` accepts memory that is registered already, and
  `cuMemHostUnregister` drops the record of memory it did not register.
- A bring-up that fails while mapping the GPFIFO in the GPU address space leaves
  all but its first page mapped in the process: the size is recorded later (2036).
- A library that runs out of memory leaks the kernels made so far (4938), and a
  registration that does leaves an older one of the same host function in force
  (`libcudart_nvidia.c:1064`).
- A process that has not allocated yet is reported with the figure a killed
  process with its pid left behind, and its rate may be made from that process's
  sample; `nvmlDeviceGetMemoryInfo` leaves out the caller's own memory as soon as
  another process has some (`libnvidia_ml.c:833`); `g_util_samples` has no lock.
- `g_last_error` is one variable for all threads, and successful calls overwrite
  it, where `cuda_runtime_api.h:1356` promises the last error produced in the
  host thread.
- Pinned host memory whose entry could not be made is refused when it is given to
  `cudaFree` (`libcudart_nvidia.c:531`).
- A launch whose arguments launch kernels finds no configuration and is dropped,
  and a launch of a host function without a kernel returns success.
- The sizes of a fill are multiplied without an overflow check (4205, 4224), and
  the pitch of a width near `SIZE_MAX` wraps to 0 (3855).
- The release of the primary context does nothing, and its reset frees it under
  threads that have it current.
- A NaN that is made a half becomes infinite (5369), and rounding can carry one
  that is made a bfloat16 into a zero of the other sign (5802).
- A `uint64` element copied to another integer type goes through a double and loses
  bits from 2^53 on (5888).
- Discovery accepts 8192 sections (1383), the probe of the image only fewer (895):
  such an image is copied without its section table.
- Code staged without its image begins at offset 0 also when the kernel's symbol
  is not at the start of its section (2367).
- The y and z sizes of the grid and the block are cut to 16 bits in the QMD (2396).
- `cuEventRecord` writes the time stamp of an event without the lock.

## Proofs

`LaunchChannelProofs` proves, for every set of functions and modules, every even
ring size and every set of environments:

- `TypeCorrect`: `Spec => [](TypeOK /\ LaunchInv)`. Types alone are not
  inductive: that a release names a function and a launch follows from what the
  call that wrote it was about. `LaunchInv` says it: a call in progress is about
  a function, a staged call's id is that of the completion record it filled, a
  release entry carries the payload of its launch, and a completion record's
  host word is 0 or the payload of a launch that was released.
- `DoneMeansConsumed`: `MaxId < Word => (Spec => []DoneIsConsumed)`. The poll
  compares a host word that is some released launch's payload with the payload
  of its own launch; payloads of ids below 2^32 are distinct (`PayloadIsId`), so
  the two launches are the same.

The second part of `LaunchChannelProofs` goes on from that invariant to the order of
the ring, for every even ring of four entries or more. Its invariant `RingInv` has two parts:

- always (`PairInv`): `put` is even, the entry in front of a release is the compute
  entry of the same launch, and between the two writes of a submission the
  pushbuffers at `put` are the call's own;
- until `put` laps `get` (`InOrder`): the GPU's copy of GPPut is behind UserD and
  UserD behind `put` (`Behind`), so the GPU stays among the entries in flight; an
  entry being written is not in flight; every entry in flight is of a launch of
  its own that was not executed (`FreshEntries`, `FreshCall`); and when a release
  comes next, the compute entry in front of it was fetched (`HalfFetched`).

Both positions and distances are remainders, which the provers do not handle;
the lemmas `DistIs`, `AfterIs` and `Parity` turn them into cases first. The
theorems are `EntriesInPairs`, `ReleaseFollowsLaunch` and `LaunchedOnce`
(`NoReplay`, an action property).

Its third part is about what the GPU runs, when `MaxId < Word` (payloads are then those of
one launch each; `PayloadIsId`):

- `StrictSuccessMeansRun`: with QMD_SUBMIT and STRICT_LAUNCH a call that reports success
  was executed. `StrictInv` says that only a staged launch gets to the ring then, that
  only a polled one returns success, and that a QMD release in a completion record was
  written by a run (`QmdReleases`).
- `QuietMemoryReused` and `QmdsRunTheirLaunch`: while every launch waits, none has timed
  out and the ring was not lapped (`Peace`), the GPU refers to staging memory only for
  the launch that filled it, runs that launch's arguments and code, and does not fault.
  The invariant `QuietInv` is that whatever is pending or in flight is of the launch in
  progress, past its submission (`PendingMine`, `FlyingMine`); that nothing of it is left
  once its QMD has released (`NotYetRun`), which is what the poll waits for; and what has
  run so far (`RanOwn`). `Peace` once lost is not regained (`PeaceEnds`), so the
  hypothesis is an invariant's.

`MemoryProofs` proves, for any number of threads, addresses, sizes and
registrations and any page size:

- `MemoryInvariant`: types and the inductive invariant. Ownership alone is not
  inductive: that a free releases one block and no other needs that ids and RM
  handles are below their counters (`IdInv`, `HandleInv`), that live blocks are
  apart, and that a block between its allocation and its registration belongs to
  the thread that made it (`BlockInv`).
- `OneOwner`, `NothingLost`, `ResolvedInLiveMemory`: the properties of
  `MemoryOwnership` that follow from it.
- `RangesAreExact`: `HeapRangeExact`. `ApartInv` says that live blocks never overlap and
  that a heap block touches no other, so an address in a heap allocation is in no other
  registration's range, although the lookups accept the address one past the end.
- `TotalIsExact`: `AccountingExact`. `AccountInv` is that there are finitely many
  registrations and the total is their sum. A registration that is added or removed may
  be taken out of the sum first, which needs that the order of a sum does not matter.
  The lemmas on `Sum` show that of any sizes over a finite set: the library's induction
  over finite sets takes an operator, so each lemma takes a counterexample of least
  cardinality instead, which there is because a set of numbers has a least element.
- `CopiesStayInside`: `TouchesLive` for any number of threads, pitches, widths and
  rows. What is touched was resolved in the same section of `g_lock`
  (`TouchIsLive`), and a resolved range is live memory of the registration found
  (`FoundIsLive`, from `MemoryInvariant`); beside copies
  every registration is RM memory of the library (`CopyUse`), because `AllocOrFree` is
  RM allocations and frees; memory from the heap and registered memory are not covered.

`ContextsProofs` proves, for any number of threads, chunks of heap, flags and
identities, and for every program, careful or not:

- `TypeCorrect`: handles are null or a chunk, and a chunk holds one whole struct.
- `PrimaryIsOnly`: `OnePrimary` is inductive beside the types. The proof takes it
  as two facts, `PrimaryIsOne` about the struct `g.primary_ctx` points to and
  `OthersAreNot` about all others: only make-primary sets the flag, it runs only
  when there is no primary context, and destroying a handle leaves the primary
  alone.
- `CarefulKeepsStacks`: `Careful => (Spec => ImplementsStacks)`, the refinement of
  `ContextStacks`, which has the code's rules of the stack and not those of `cuda.h`: the
  theorem is about addresses that are used again. A context of the specification is an
  identity, one here is an address that may have been freed and be used again. `IdentityInv` is why it makes no difference
  to a careful program: what a thread's stack, its current context, a stream or
  `g.primary_ctx` names is null or an existing context (`NamedInv`), and existing
  structs have identities that differ and are below the next one (`IdsInv`). Each call is
  then the step of `ContextStacks` with its name, or leaves the stacks and contexts of
  the specification as they are. For a program that is not careful, see the run
  `ContextsShared`.

`RuntimeProofs` proves all four properties of the run `Runtime`, for any number of
threads, addresses, sizes and blocks. The invariant `TableInv` says

- what a call that is in progress is about (`CallOk`): one block, at the pointer
  its kind says, entered or not yet or no longer, as far as the call has come;
- that no two calls are about one block (`Exclusive`), which is what is assumed of
  the program, and that blocks are apart (`Apart`), so an address is of one block;
- that an entry is of a block with the entry's allocator and size (`Entered`), a
  pointer has one at most (`OneEntry`), and what is allocated or registered has one
  until it is removed (`Kept`).

What a call read of the table in one section of the lock then still holds in the
next: the entry was of the call's own block. `RemoveEffect` and `AddEffect` say what
the two list operations do to the set of entries. A configuration that is set is
that of the thread's innermost launch (`ConfigInv`).

`RmChannelProofs` proves, for any number of pages, classes and staging buffers and a
failure of any kernel call, all the properties of the run `RmFailures`. The
invariant `RmInv` has two parts.

- `Basis`, of every state: handles are drawn once, so no two objects have the same
  (`HandleInv`); an object has the handle the library holds for it, unless it is being
  tried, and a parent that outlives it (`ObjInv`); what the kernel has mapped is memory
  the library has a handle for (`MapInv`).
- `PhaseInv`: an operation is a list of kernel calls, of which `todo` is what is left.
  For every operation and every call of it, `PhaseInv` says what the library believes
  and what the kernel has: the start of RM (`Started`), the channel's bring-up
  (`Raised`) and clean-up (`Lowered`), the staging of a buffer and its release
  (`Staged`, `Released`), the search for a compute class. That nothing is left behind
  after a failure is about calls that are not made yet when it happens; the phase is
  what carries it to the end of the clean-up.

The theorems are `SystemInvariant`, `NothingLeaks` (`Accounted`), `WholeAfterFailure`
(`WholeOrAbsent`) and `KeepsService`: each step is one of `ChannelService`, or leaves
what that says of the channel as it is.

`ModuleTableProofs` proves the properties of the run `Modules`, for any number of
threads, modules, kernels, names and host functions. The invariant `SymbolInv` has
what is true of a call (`CallOk`) and of the lists (`Owners`):

- A call is on a module that is loaded, so what it has found there is not freed
  under it (`Shape`); a kernel is asked for with a function that is there or right
  after its function (`Asked`); until a module is marked as discovered each of its
  kernels is in the list or still to be asked for, which is why a discovery that
  gave up may be taken up again (`Remaining`).
- Until two threads add to a module at once, a list has one thread adding to it
  (`Sole`), and the head that thread read is still the head when it writes
  (`Current`): nothing is dropped and nothing made twice. After a race this is lost
  for the module, and `OneHandle` and `NothingLost` with it; but `Lists`, that what
  is in a list is there and a kernel in it names a function that is, holds whatever
  races, so unloading frees nothing twice and nothing that is still named.

It is assumed that the names of an image's kernels differ (a discovery skips a name
it has seen) and, of the program, that no call is on a module that is unloaded. The
theorems are `SymbolsAreOwned`, `DiscoveredIsComplete`, `FunctionsAreLive` and
`RegistrationsAreCurrent`; the last needs that the newest registration of a host
function is the one found (`FunctionAfter`). `TypesAreKept` is the types alone.

`MonitorProofs` proves all four properties of the run `Monitor`, for any number of
processes, births, buffers and samples. The invariant `MonitorInv` has

- `FileInv`: of a process at most one update of its file is in progress, since updates are
  made under `g_lock`; a file that is there is the process's own once it opened it; and
  between updates it holds the total, unless an update failed.
- `SlotInv` and `RateInv`: a sample that was taken was taken of the pid it is kept for.
- `ScanInv`: where a pass is. What was seen is behind it, in order, and as many as were
  found up to the room there is; a process that is born, exits or is killed meanwhile
  changes none of that.

From it follow `FilesAreOwn`, `ScansStayInBounds` and `RatesAreSound`.
`QuietScansAreExact` needs more (`QuietInv`): while nothing disturbs a scan its total is
the sum over the processes it has passed, and its list names those, as long as there is
room. It is proved under `NoWrap`, that the memory of all the processes together fits in
a word (`Word` is 2^64 in the code); without it the sum of
`scan_total_process_gpu_memory` wraps and the property does not hold.

`AlgorithmsProofs` proves the five properties of the run `Algorithms`, for
inputs of any size that satisfies the assumptions named under "Modules":

- `LayoutsAreExact`: tensors of any extents. Every index a host kernel computes is a sum
  of digits with strides, so the lemmas show once that taking an index apart by
  remainders and quotients and putting it together again is the identity in two and
  in four dimensions, and that a digit below its extent keeps the index below the
  product. There is then one lemma for each kernel: distinct loop variables give distinct
  elements, every element has loop variables, and what is read is inside and has the
  digits it should: those of the element written, some of them repeated, named by a table
  or shared.
- `CastsKeepValue`: integer types of any widths (`WidthsAssumption`). That the recursive
  function of the powers exists, is positive and grows is shown by the induction over a
  set of numbers that the lemma `Induction` gives; a sign extension followed by a
  truncation is then a remainder of the number itself, and a number below
  2^`DoubleMant` goes through a double unchanged.
- `EncodingsAreSound`: a QMD is written field by field into one array of bits, and what a
  field reads back is what was stored only if no later one overlaps it. The proof goes
  through the fields of `BuildQmd` in the code's order: a stored value is read back from
  its own bits (`LoadIsLow`, by the same induction), and a field is kept by
  every later store to other bits. Shared memory is exact up to its field and saturates above;
  methods, ring entries and captured parameters are similar and shorter.
- `KernelsAreFound`: images with any number of sections, tables, symbols and
  attributes, in any order. The size that is copied is the maximum of a finite set with
  the section table and the end of every section in it, so a proper file is readable
  in the copy as in itself. Names of sections are unique, so the first section
  with a name is the only one; every symbol of a kernel points at its section and start,
  so the last one read does; and attributes are in order, so those that end within the
  section are those the parser reaches before it stops.

- `ConversionsAreNearest`: numbers of formats with any widths of exponent and mantissa that
  stand to each other as float does to half or to bfloat16 (`ConversionsAssumption`). The
  magnitudes of a format are in the order of exponent and mantissa and at least one gap
  apart (`MagApart`), so nothing lies between a number and the next, and the nearer
  of the two is a nearest of all (`RoundedIsNearest`), also when it is the first
  of the next exponent or infinity. What is left is that the code finds these two:
  the bits it drops are the distance from the lower one in parts of a gap
  (`MagSplit`), and a half of it or more carries upwards (`BfloatCode`, `HalfNormal`,
  `HalfDenormal`); from the two ends the result is infinity or zero
  (`HalfInfinite`, `HalfZero`). A number that was widened has no bits to drop, a denormal one
  after it is shifted to its first bit (`Normalizes`), so it returns as it was. Rounding to int8
  is linear arithmetic.

Only model-checked are the two liveness properties (`CallReturns`, `SubmittedIsConsumed`),
since the prover does not reach fairness.

## Plan

Done: `LaunchChannel`, `DeviceMemory`, `Copies`, `RmChannel` over
`ChannelService`, `ModuleTable`, `Runtime`, `Monitor`, `Contexts` over
`ContextStacks`, the operators of `HostKernels`, `Encodings` and `Images`, and the
proofs above.

What would come next: the composition of `LaunchChannel` on `ChannelService`, so
that the assumption of one module is the promise of the other; fatbin containers
and text images in `Images`.

## Not modelled

- Time stamps of events and the queries of streams: operations complete before
  they return, so a stream has no state but its validity and its context.
- Floating-point products and sums of the host kernels, the choice of a kernel by
  substrings of its mangled name, the fills, and `libcublas`: arithmetic over user
  memory without state. `LaunchChannel` models only whether a fallback applies.
- QMD bit fields and method words in `LaunchChannel`: a message is abstracted to
  what the GPU does with it; `Encodings` has the words.
- Fatbin containers, 32-bit ELF files (which have no kernels), text images and names
  that do not end in their table: `Images` takes a cubin as what its headers say.
- The linker (`cuLink*`), which concatenates images, and the attributes of
  functions and devices, which are table lookups.
- The rest of `libnvidia-ml` and `nvidia-smi`: names, PCI and clock queries, and
  printing.
- Probes, scripts, wrappers and the vendor's headers: callers and interface text.
