------------------------ MODULE LaunchChannelProofs ------------------------
(***************************************************************************)
(* The launch path, for every number of entries, functions and launches,   *)
(* in three parts.  Types and completion records.  The order of the ring:  *)
(* compute and release entries come in pairs, and while put has not lapped *)
(* get the GPU executes each launch's pushbuffers in order and once.  What *)
(* the GPU runs: a strict launch that succeeds has run, and while every    *)
(* launch waits for its completion the GPU uses staging memory only for    *)
(* the launch that filled it.                                              *)
(***************************************************************************)
EXTENDS LaunchChannel, TLAPS

\* The ring wraps around.
LEMMA AfterInIndex == ASSUME NEW e \in Index, NEW n \in Nat PROVE After(e, n) \in Index
  BY EntriesAssumption, SMT DEF After, Index

\* A payload is a number other than zero.
LEMMA PayloadInNat == ASSUME NEW id \in Nat PROVE Payload(id) \in Nat \ {0}
  BY BoundAssumption, SMT DEF Payload

\* Below the width of a word the payload is the id of the launch.
LEMMA PayloadIsId == ASSUME NEW id \in Nat, id > 0, id < Word PROVE Payload(id) = id
  <1>1. id % Word = id
    BY BoundAssumption, SMT
  <1> QED BY <1>1 DEF Payload

\* The types hold at the start.
LEMMA InitType == Init => TypeOK
  <1> SUFFICES ASSUME Init PROVE TypeOK
    OBVIOUS
  <1>0. 0 \in Index /\ 1 \in 1..(MaxId + 1) /\ 0 \in IdsOr0
    BY EntriesAssumption, BoundAssumption DEF Index, IdsOr0
  <1>1. HostType
    BY <1>0, EnvAssumption DEF Init, HostType, IdleCall, CallType, Steps, Results
  <1>2. SharedType
    BY <1>0 DEF Init, SharedType, NoPb, PbType, PbOps, CodeType, CompType, Statuses, EmptyCompletion, Buffers
  <1>3. GpuType
    BY <1>0 DEF Init, GpuType
  <1> QED BY <1>1, <1>2, <1>3 DEF TypeOK

\* The empty completion has its type.
LEMMA EmptyCompletionType == EmptyCompletion \in CompType /\ 0 \in IdsOr0 /\ NoPb \in PbType
  BY BoundAssumption DEF EmptyCompletion, CompType, Statuses, IdsOr0, NoPb, PbType, PbOps

\* The call record after a step of the same call keeps its type.
LEMMA ComputeFailedType ==
  ASSUME call \in CallType, ComputeFailed PROVE call' \in CallType
  BY DEF ComputeFailed, CallType, Steps

\* The state after a failed staging has its types.
LEMMA StagingFailedType ==
  ASSUME call \in CallType, StagingFailed PROVE call' \in CallType
  BY ComputeFailedType DEF StagingFailed, Goto, CallType, Steps

\* Going to the next step of a call keeps its types.
LEMMA GotoKeeps ==
  ASSUME call \in CallType, NEW s, Goto(s)
  PROVE  call'.pc = s /\ call'.fn = call.fn /\ call'.id = call.id /\ call'.staged = call.staged
  BY DEF Goto, CallType

\* So does a call whose channel could not be set up.
LEMMA ComputeFailedKeeps ==
  ASSUME call \in CallType, ComputeFailed
  PROVE  /\ call'.fn = call.fn /\ call'.id = call.id /\ call'.staged = call.staged
         /\ call'.pc \in {"return", "noop"}
  BY DEF ComputeFailed, CallType

\* So does a call whose staging failed.
LEMMA StagingFailedKeeps ==
  ASSUME call \in CallType, StagingFailed
  PROVE  /\ call'.fn = call.fn /\ call'.id = call.id /\ call'.staged = call.staged
         /\ call'.pc \in {"return", "noop", "pushbuffer"}
  BY ComputeFailedKeeps, GotoKeeps DEF StagingFailed

\* A launch keeps the types.
LEMMA LaunchType ==
  ASSUME TypeOK, NEW f \in Function, Launch(f) PROVE TypeOK'
  <1>0. NewCall(f) \in CallType
    BY EmptyCompletionType DEF NewCall, IdleCall, CallType, Steps, Results
  <1>1. call' \in CallType
    <2>1. CASE LaunchOnHost(f)
      BY <1>0, <2>1 DEF LaunchOnHost, CallType, Steps
    <2>2. CASE LaunchOnGpu(f)
      BY <1>0, <2>2 DEF LaunchOnGpu, CallType, Steps
    <2> QED BY <2>1, <2>2 DEF Launch
  <1> QED
    BY <1>1 DEF TypeOK, HostType, SharedType, GpuType, Launch, LaunchOnHost, LaunchOnGpu,
                hostMem, ringMem, stageMem, gpuVars, histVars

\* Setting up the channel keeps the types.
LEMMA ComputeInitType == ASSUME TypeOK, ComputeInit PROVE TypeOK'
  <1>1. chan' \in {"fresh", "ready", "failed"} /\ compute' \in BOOLEAN
    BY DEF ComputeInit, ChannelInit, TypeOK, HostType
  <1>2. call' \in CallType
    BY ComputeFailedType DEF ComputeInit, Goto, TypeOK, HostType, CallType, Steps
  <1> QED
    BY <1>1, <1>2 DEF TypeOK, HostType, SharedType, GpuType, ComputeInit,
                      ringMem, stageMem, gpuVars, histVars

\* Clearing the code buffer of a function keeps the types.
LEMMA ClearCodeType == ASSUME TypeOK, ClearCode, call.fn \in Function PROVE TypeOK'
  <1>1. call' \in CallType
    BY StagingFailedType DEF ClearCode, Goto, TypeOK, HostType, CallType, Steps
  <1>2. code' \in [Module -> CodeType]
    <2>1. PICK r \in CodeType : code' = [code EXCEPT ![ModuleOf[call.fn]] = r]
      BY DEF ClearCode, CodeType
    <2> QED BY <2>1 DEF TypeOK, SharedType
  <1> QED
    BY <1>1, <1>2 DEF TypeOK, HostType, SharedType, GpuType, ClearCode,
                      hostMem, ringMem, gpuVars, histVars

\* Copying the code keeps the types.
LEMMA CopyCodeType == ASSUME TypeOK, CopyCode, call.fn \in Function PROVE TypeOK'
  <1>1. call' \in CallType
    BY DEF CopyCode, Goto, TypeOK, HostType, CallType, Steps
  <1>2. code' \in [Module -> CodeType]
    BY FunctionAssumption DEF CopyCode, CodeType, TypeOK, SharedType
  <1> QED
    BY <1>1, <1>2 DEF TypeOK, HostType, SharedType, GpuType, CopyCode,
                      hostMem, ringMem, gpuVars, histVars

\* The buffers staged before another one are buffers.
LEMMA BeforeType == \A b \in Buffers : Before(b) \subseteq Buffers
  BY DEF Buffers, Before

\* Staging the other buffers keeps the types.
LEMMA StageBuffersType == ASSUME TypeOK, StageBuffers, call.fn \in Function PROVE TypeOK'
  <1>1. call' \in CallType
    BY StagingFailedType DEF StageBuffers, Goto, TypeOK, HostType, CallType, Steps
  <1>2. bufs' \in [Function -> SUBSET Buffers]
    BY BeforeType DEF StageBuffers, TypeOK, SharedType
  <1>3. qmd' \in [Function -> IdsOr0] /\ comp' \in [Function -> CompType]
    BY EmptyCompletionType DEF StageBuffers, TypeOK, SharedType
  <1> QED
    BY <1>1, <1>2, <1>3 DEF TypeOK, HostType, SharedType, GpuType, StageBuffers,
                            hostMem, ringMem, gpuVars, histVars

\* Recording the launch keeps the types.
LEMMA RecordLaunchType ==
  ASSUME TypeOK, RecordLaunch, call.fn \in Function, nextId <= MaxId PROVE TypeOK'
  <1>1. nextId \in IdsOr0 /\ nextId' \in 1..(MaxId + 1) /\ Payload(nextId) \in Nat
    BY PayloadInNat, BoundAssumption DEF RecordLaunch, TypeOK, HostType, IdsOr0
  <1>2. call' \in CallType
    BY <1>1 DEF RecordLaunch, TypeOK, HostType, CallType, Steps
  <1>3. qmd' \in [Function -> IdsOr0] /\ comp' \in [Function -> CompType]
    BY <1>1 DEF RecordLaunch, TypeOK, SharedType, CompType, Statuses
  <1> QED
    BY <1>1, <1>2, <1>3 DEF TypeOK, HostType, SharedType, GpuType, RecordLaunch,
                            ringMem, gpuVars, histVars

\* The entry a launch is written to is in the ring.
LEMMA ComputeEntryInIndex == ASSUME TypeOK PROVE ComputeEntry \in Index
  BY AfterInIndex DEF ComputeEntry, TypeOK, HostType

\* Writing the push buffer keeps the types.
LEMMA WritePushbufferType ==
  ASSUME TypeOK, WritePushbuffer, call.fn \in Function PROVE TypeOK'
  <1>1. call' \in CallType
    BY ComputeFailedType DEF WritePushbuffer, Goto, TypeOK, HostType, CallType, Steps
  <1>2. ComputePb \in PbType /\ ReleasePb \in PbType
    BY DEF ComputePb, ReleasePb, TypeOK, HostType, SharedType, CallType, CompType, PbType, PbOps
  <1>3. pb' \in [Index -> PbType]
    BY <1>2, EmptyCompletionType DEF WritePushbuffer, TypeOK, SharedType
  <1>4. lapped' \in BOOLEAN
    BY DEF WritePushbuffer, TypeOK, HostType
  <1> QED
    BY <1>1, <1>3, <1>4 DEF TypeOK, HostType, SharedType, GpuType, WritePushbuffer,
                            hostMem, stageMem, gpuVars

\* Writing the entries of the ring keeps the types.
LEMMA WriteEntriesType == ASSUME TypeOK, WriteEntries PROVE TypeOK'
  <1>1. call' \in CallType
    BY DEF WriteEntries, Goto, TypeOK, HostType, CallType, Steps
  <1>2. put' \in Index /\ lapped' \in BOOLEAN
    BY ComputeEntryInIndex, AfterInIndex DEF WriteEntries, Advance, TypeOK, HostType
  <1>3. gp' \in [Index -> {"nop", "pb"}]
    BY DEF WriteEntries, TypeOK, SharedType
  <1> QED
    BY <1>1, <1>2, <1>3 DEF TypeOK, HostType, SharedType, GpuType, WriteEntries, stageMem, gpuVars

\* Submitting the no-op keeps the types.
LEMMA SubmitNoopType == ASSUME TypeOK, SubmitNoop PROVE TypeOK'
  <1>1. call' \in CallType
    BY ZenonT(60) DEF SubmitNoop, Goto, Fail, TypeOK, HostType, CallType, Steps
  <1>2. put' \in Index /\ lapped' \in BOOLEAN
    BY AfterInIndex DEF SubmitNoop, Advance, TypeOK, HostType
  <1>3. gp' \in [Index -> {"nop", "pb"}]
    BY DEF SubmitNoop, TypeOK, SharedType
  <1>4. chan' \in {"fresh", "ready", "failed"}
    BY DEF SubmitNoop, ChannelInit
  <1> QED
    BY <1>1, <1>2, <1>3, <1>4 DEF TypeOK, HostType, SharedType, GpuType, SubmitNoop, stageMem, gpuVars

\* Kicking the ring keeps the types.
LEMMA KickType == ASSUME TypeOK, KickUserd \/ KickDoorbell PROVE TypeOK'
  <1>1. call' \in CallType
    BY DEF KickUserd, KickDoorbell, Goto, TypeOK, HostType, CallType, Steps
  <1>2. userdPut' \in Index /\ bell' \in BOOLEAN
    BY DEF KickUserd, KickDoorbell, TypeOK, HostType, SharedType
  <1> QED
    BY <1>1, <1>2 DEF TypeOK, HostType, SharedType, GpuType, KickUserd, KickDoorbell,
                      hostMem, stageMem, gpuVars, histVars

\* Polling the completion keeps the types.
LEMMA PollType == ASSUME TypeOK, PollDone \/ PollTimeout PROVE TypeOK'
  <1>1. call' \in CallType
    BY ComputeFailedType DEF PollDone, PollTimeout, Goto, TypeOK, HostType, CallType, Steps
  <1>2. comp' \in [Function -> CompType]
    BY DEF PollDone, PollTimeout, TypeOK, SharedType, CompType, Statuses
  <1> QED
    BY <1>1, <1>2 DEF TypeOK, HostType, SharedType, GpuType, PollDone, PollTimeout,
                      hostMem, ringMem, gpuVars, histVars

\* Returning keeps the types.
LEMMA ReturnType == ASSUME TypeOK, Return \/ Synchronize PROVE TypeOK'
  <1>1. ASSUME Return PROVE LaunchResult \in Results
    BY DEF LaunchResult, Results, TypeOK, HostType, CallType
  <1>2. call' \in CallType
    <2>1. CASE Return
      BY <1>1, <2>1 DEF Return, TypeOK, HostType, CallType, Steps
    <2>2. CASE Synchronize
      BY <2>2, EmptyCompletionType DEF Synchronize, IdleCall, CallType, Steps, Results
    <2> QED BY <2>1, <2>2
  <1> QED
    BY <1>2 DEF TypeOK, HostType, SharedType, GpuType, Return, Synchronize,
                hostMem, ringMem, stageMem, gpuVars, histVars

\* Unloading a module keeps the types.
LEMMA UnloadType == ASSUME TypeOK, NEW m \in Module, UnloadModule(m) PROVE TypeOK'
  <1>1. call' \in CallType
    BY EmptyCompletionType DEF UnloadModule, IdleCall, CallType, Steps, Results
  <1>2. code' \in [Module -> CodeType]
    BY DEF UnloadModule, CodeType, TypeOK, SharedType
  <1>3. bufs' \in [Function -> SUBSET Buffers]
    BY DEF UnloadModule, TypeOK, SharedType
  <1>4. qmd' \in [Function -> IdsOr0] /\ comp' \in [Function -> CompType]
    BY EmptyCompletionType DEF UnloadModule, TypeOK, SharedType
  <1>5. loaded' \subseteq Module
    BY DEF UnloadModule, TypeOK, HostType
  <1> QED
    BY <1>1, <1>2, <1>3, <1>4, <1>5 DEF TypeOK, HostType, SharedType, GpuType, UnloadModule,
                hostMem, ringMem, gpuVars, histVars

\* Seeing the new GPPut keeps the types.
LEMMA ObserveType == ASSUME TypeOK, Observe PROVE TypeOK'
  BY DEF TypeOK, HostType, SharedType, GpuType, Observe, hostMem, stageMem, histVars

\* Fetching an entry keeps the types.
LEMMA FetchType == ASSUME TypeOK, PbInv, FetchStep PROVE TypeOK'
  <1>1. get' \in Index /\ get \in Index
    BY AfterInIndex DEF FetchStep, FetchNop, FetchObject, FetchPcas, FetchRelease, Fetching, TypeOK, GpuType
  <1>2. pb[get] \in PbType
    BY <1>1 DEF TypeOK, SharedType
  <1>3. fault' \in BOOLEAN /\ fetched' \subseteq IdsOr0
    BY <1>2 DEF FetchStep, FetchNop, FetchObject, FetchPcas, FetchRelease, Fetching, TypeOK, GpuType, PbType
  <1>4. pending' \subseteq QmdRef
    BY <1>1 DEF FetchStep, FetchNop, FetchObject, FetchPcas, FetchRelease, Fetching, TypeOK, GpuType, PbInv, QmdRef
  <1>5. released' \subseteq Ids
    BY <1>1 DEF FetchStep, FetchNop, FetchObject, FetchPcas, FetchRelease, Fetching, TypeOK, GpuType, PbInv
  <1>6. comp' \in [Function -> CompType]
    BY <1>2 DEF FetchStep, FetchNop, FetchObject, FetchPcas, FetchRelease, TypeOK, SharedType, CompType, PbType
  <1>7. UNCHANGED <<env, hostMem, ringMem, code, bufs, qmd, loaded, call, gpuPut, runs, histVars>>
    BY DEF FetchStep, FetchNop, FetchObject, FetchPcas, FetchRelease, Fetching
  <1> QED
    BY <1>1, <1>3, <1>4, <1>5, <1>6, <1>7
    DEF TypeOK, HostType, SharedType, GpuType, hostMem, ringMem, histVars

\* Running what was fetched keeps the types.
LEMMA RunType == ASSUME TypeOK, NEW q \in pending, RunQmd(q) PROVE TypeOK'
  <1>1. q.id \in Ids /\ q.fn \in Function
    BY DEF TypeOK, GpuType, QmdRef
  <1>2. runs' \subseteq QmdRun
    <2>1. CodeReady(q.fn) \in BOOLEAN
      BY DEF CodeReady
    <2> QED BY <1>1, <2>1 DEF RunQmd, TypeOK, SharedType, GpuType, QmdRun
  <1>3. comp' \in [Function -> CompType]
    BY <1>1, PayloadInNat DEF RunQmd, TypeOK, SharedType, CompType, IdsOr0
  <1>4. pending' \subseteq QmdRef /\ fault' \in BOOLEAN
    BY DEF RunQmd, TypeOK, GpuType
  <1> QED
    BY <1>2, <1>3, <1>4 DEF TypeOK, HostType, SharedType, GpuType, RunQmd, hostMem, ringMem, histVars

-----------------------------------------------------------------------------
\* The invariant holds at the start.
LEMMA InitInv == Init => LaunchInv
  <1> SUFFICES ASSUME Init PROVE LaunchInv
    OBVIOUS
  <1>1. CallInv
    BY DEF Init, CallInv, IdleCall, Free, BeforeRecord, AfterRecord
  <1>2. PbInv /\ CompInv
    BY DEF Init, PbInv, CompInv, NoPb, EmptyCompletion
  <1> QED BY <1>1, <1>2 DEF LaunchInv

\* Every disjunct of Next, so that the proofs below can split on one fact.
LEMMA NextCases ==
  ASSUME Next
  PROVE  \/ \E f \in Function : Launch(f)
         \/ \E m \in Module : UnloadModule(m)
         \/ Synchronize
         \/ ComputeInit \/ ClearCode \/ CopyCode \/ StageBuffers \/ RecordLaunch
         \/ WritePushbuffer \/ WriteEntries \/ SubmitNoop \/ KickUserd \/ KickDoorbell
         \/ PollDone \/ PollTimeout \/ Return
         \/ Observe \/ FetchStep \/ (\E q \in pending : RunQmd(q))
  BY DEF Next, HostStep, RunStep

\* Every step keeps the types.
LEMMA TypeStep == ASSUME TypeOK, CallInv, PbInv, [Next]_vars PROVE TypeOK'
  <1>0. CASE UNCHANGED vars
    BY <1>0 DEF vars, TypeOK, HostType, SharedType, GpuType,
                hostMem, ringMem, stageMem, gpuVars, histVars
  <1>1. ~Free => call.fn \in Function
    BY DEF CallInv
  <1>2. CASE \E f \in Function : Launch(f)
    BY <1>2, LaunchType
  <1>3. CASE \E m \in Module : UnloadModule(m)
    BY <1>3, UnloadType
  <1>4. CASE Synchronize \/ Return
    BY <1>4, ReturnType
  <1>5. CASE ComputeInit
    BY <1>5, ComputeInitType
  <1>6. CASE ClearCode
    BY <1>1, <1>6, ClearCodeType DEF ClearCode, Free
  <1>7. CASE CopyCode
    BY <1>1, <1>7, CopyCodeType DEF CopyCode, Free
  <1>8. CASE StageBuffers
    BY <1>1, <1>8, StageBuffersType DEF StageBuffers, Free
  <1>9. CASE RecordLaunch
    BY <1>1, <1>9, RecordLaunchType DEF RecordLaunch, Free, CallInv, BeforeRecord
  <1>10. CASE WritePushbuffer
    BY <1>1, <1>10, WritePushbufferType DEF WritePushbuffer, Free
  <1>11. CASE WriteEntries
    BY <1>11, WriteEntriesType
  <1>12. CASE SubmitNoop
    BY <1>12, SubmitNoopType
  <1>13. CASE KickUserd \/ KickDoorbell
    BY <1>13, KickType
  <1>14. CASE PollDone \/ PollTimeout
    BY <1>14, PollType
  <1>15. CASE Observe
    BY <1>15, ObserveType
  <1>16. CASE FetchStep
    BY <1>16, FetchType
  <1>17. CASE \E q \in pending : RunQmd(q)
    BY <1>17, RunType
  <1> QED
    BY <1>0, <1>2, <1>3, <1>4, <1>5, <1>6, <1>7, <1>8, <1>9, <1>10, <1>11, <1>12,
       <1>13, <1>14, <1>15, <1>16, <1>17, NextCases

-----------------------------------------------------------------------------
\* Every step keeps what is in the push buffers.
LEMMA PbStep == ASSUME TypeOK, CallInv, PbInv, CompInv, [Next]_vars PROVE PbInv'
  <1>1. CASE WritePushbuffer
    <2>1. call.fn \in Function /\ (call.staged => call.id \in Ids)
      BY <1>1 DEF WritePushbuffer, CallInv, Free
    <2>2. call.staged => comp[call.fn].expected = Payload(call.id)
      BY <1>1, <2>1 DEF WritePushbuffer, CallInv, CompInv, AfterRecord
    <2>3. ComputeEntry \in Index /\ pb \in [Index -> PbType]
      BY ComputeEntryInIndex DEF TypeOK, SharedType
    <2> QED
      BY <1>1, <2>1, <2>2, <2>3 DEF WritePushbuffer, PbInv, ComputePb, ReleasePb, NoPb
  <1>2. CASE UNCHANGED pb
    BY <1>2 DEF PbInv
  <1>3. WritePushbuffer \/ UNCHANGED pb
    BY NextCases DEF vars, hostMem, ringMem, stageMem, gpuVars, histVars, Launch, LaunchOnHost, LaunchOnGpu,
         UnloadModule, Synchronize, ComputeInit, ClearCode, CopyCode, StageBuffers, RecordLaunch,
         WriteEntries, SubmitNoop, KickUserd, KickDoorbell, PollDone, PollTimeout, Return,
         Observe, FetchStep, FetchNop, FetchObject, FetchPcas, FetchRelease, Fetching, RunQmd
  <1> QED BY <1>1, <1>2, <1>3

-----------------------------------------------------------------------------
\* Only the host's steps touch the call; the GPU's leave ids and statuses alone.
LEMMA GpuStepFrame ==
  ASSUME TypeOK, PbInv, Observe \/ FetchStep \/ (\E q \in pending : RunQmd(q))
  PROVE  /\ UNCHANGED <<call, nextId>>
         /\ \A f \in Function : /\ comp'[f].id = comp[f].id
                                /\ comp'[f].status = comp[f].status
                                /\ comp'[f].expected = comp[f].expected
  <1>1. CASE Observe
    BY <1>1 DEF Observe, stageMem, hostMem
  <1>2. CASE FetchStep
    <2>1. UNCHANGED <<call, nextId>>
      BY <1>2 DEF FetchStep, FetchNop, FetchObject, FetchPcas, FetchRelease, Fetching, hostMem
    <2>2. comp' = comp \/ \E f \in Function, h \in Nat : comp' = [comp EXCEPT ![f].host = h]
      <3>1. get \in Index /\ pb[get] \in PbType /\ (pb[get].op = "release" => pb[get].fn \in Function)
        BY <1>2 DEF TypeOK, SharedType, GpuType, PbInv
      <3> QED
        BY <1>2, <3>1 DEF FetchStep, FetchNop, FetchObject, FetchPcas, FetchRelease, Fetching, PbType
    <2> QED BY <2>1, <2>2 DEF TypeOK, SharedType, CompType
  <1>3. CASE \E q \in pending : RunQmd(q)
    BY <1>3 DEF RunQmd, hostMem, TypeOK, SharedType, CompType
  <1> QED BY <1>1, <1>2, <1>3

\* Every step keeps what is true of the call.
LEMMA CallStep == ASSUME TypeOK, CallInv, PbInv, [Next]_vars PROVE CallInv'
  <1> USE DEF CallInv, Free, BeforeRecord, AfterRecord
  <1>0. CASE UNCHANGED vars
    BY <1>0 DEF vars, hostMem, stageMem
  <1>1. CASE \E f \in Function : Launch(f)
    <2> PICK f \in Function : Launch(f)
      BY <1>1
    <2>1. call'.fn = f /\ call'.staged = FALSE /\ call'.pc # "poll" /\ nextId <= MaxId /\ nextId' = nextId
      BY DEF Launch, LaunchOnHost, LaunchOnGpu, NewCall, IdleCall, hostMem
    <2> QED BY <2>1
  <1>2. CASE (\E m \in Module : UnloadModule(m)) \/ Synchronize
    <2>1. call'.pc \in {"idle", "done"} /\ call'.staged = FALSE
      <3>1. CASE \E m \in Module : UnloadModule(m)
        <4>1. call' = IdleCall
          BY <3>1 DEF UnloadModule
        <4> QED BY <4>1 DEF IdleCall
      <3>2. CASE Synchronize
        BY <3>2 DEF Synchronize, IdleCall
      <3> QED BY <1>2, <3>1, <3>2
    <2> QED BY <2>1
  <1> call \in CallType
    BY DEF TypeOK, HostType
  <1>3. CASE ComputeInit
    <2>1. /\ call'.fn = call.fn /\ call'.id = call.id /\ call'.staged = call.staged
          /\ call'.pc \in {"return", "noop", "pushbuffer", "clearCode"}
      BY <1>3, ComputeFailedKeeps, GotoKeeps DEF ComputeInit
    <2> QED BY <1>3, <2>1 DEF ComputeInit, stageMem
  <1>4. CASE ClearCode \/ CopyCode
    <2>1. /\ call'.fn = call.fn /\ call'.id = call.id /\ call'.staged = call.staged
          /\ call'.pc \in {"return", "noop", "pushbuffer", "copyCode", "buffers"}
      BY <1>4, StagingFailedKeeps, GotoKeeps DEF ClearCode, CopyCode
    <2> QED BY <1>4, <2>1 DEF ClearCode, CopyCode, hostMem
  <1>5. CASE StageBuffers
    <2>1. /\ call'.fn = call.fn /\ call'.id = call.id /\ call'.staged = call.staged
          /\ call'.pc \in {"return", "noop", "pushbuffer", "record"}
      BY <1>5, StagingFailedKeeps, GotoKeeps DEF StageBuffers
    <2> QED BY <1>5, <2>1 DEF StageBuffers, hostMem
  <1>6. CASE RecordLaunch
    BY <1>6 DEF RecordLaunch, TypeOK, HostType, SharedType, CallType, CompType, Ids
  <1>7. CASE WritePushbuffer
    BY <1>7, ZenonT(60) DEF WritePushbuffer, ComputeFailed, Goto, hostMem, stageMem, TypeOK, HostType, CallType
  <1>8. CASE WriteEntries \/ SubmitNoop
    BY <1>8 DEF WriteEntries, SubmitNoop, Fail, Goto, stageMem, TypeOK, HostType, CallType
  <1>9. CASE KickUserd \/ KickDoorbell
    BY <1>9 DEF KickUserd, KickDoorbell, Goto, hostMem, stageMem, TypeOK, HostType, CallType
  <1>10. CASE PollDone \/ PollTimeout
    <2>1. /\ call'.fn = call.fn /\ call'.id = call.id /\ call'.staged = call.staged
          /\ call'.pc \in {"return", "noop"}
      BY <1>10, ComputeFailedKeeps, GotoKeeps DEF PollDone, PollTimeout
    <2>2. call.fn \in Function /\ call.staged /\ comp[call.fn].id = call.id
      BY <1>10 DEF PollDone, PollTimeout
    <2>3. comp'[call.fn].id = call.id /\ comp'[call.fn].status # "none"
      BY <1>10, <2>2 DEF PollDone, PollTimeout, TypeOK, SharedType, CompType
    <2> QED BY <1>10, <2>1, <2>2, <2>3 DEF PollDone, PollTimeout, hostMem
  <1>11. CASE Return
    BY <1>11 DEF Return, hostMem, stageMem, TypeOK, HostType, CallType
  <1>12. CASE Observe \/ FetchStep \/ (\E q \in pending : RunQmd(q))
    BY <1>12, GpuStepFrame
  <1> QED
    BY <1>0, <1>1, <1>2, <1>3, <1>4, <1>5, <1>6, <1>7, <1>8, <1>9, <1>10, <1>11, <1>12, NextCases

\* Every step keeps what the completions say.
LEMMA CompStep == ASSUME TypeOK, CallInv, PbInv, CompInv, [Next]_vars PROVE CompInv'
  <1>1. CASE UNCHANGED <<comp, released>>
    BY <1>1 DEF CompInv
  <1>2. CASE StageBuffers
    BY <1>2 DEF StageBuffers, EmptyCompletion, gpuVars, CompInv, TypeOK, SharedType
  <1>3. CASE RecordLaunch
    <2>1. nextId \in Ids
      BY <1>3 DEF RecordLaunch, CallInv, BeforeRecord, Ids, TypeOK, HostType
    <2> QED BY <1>3, <2>1 DEF RecordLaunch, gpuVars, CompInv, TypeOK, SharedType
  <1>4. CASE PollDone \/ PollTimeout
    <2>1. call.fn \in Function /\ comp[call.fn].status # "none"
      BY <1>4 DEF PollDone, PollTimeout, CallInv, Free, AfterRecord
    <2>2. PICK t \in Statuses : comp' = [comp EXCEPT ![call.fn].status = t]
      BY <1>4 DEF PollDone, PollTimeout, Statuses
    <2>3. UNCHANGED released
      BY <1>4 DEF PollDone, PollTimeout, gpuVars
    <2> QED BY <2>1, <2>2, <2>3 DEF CompInv, TypeOK, SharedType, CompType
  <1>5. CASE \E m \in Module : UnloadModule(m)
    BY <1>5 DEF UnloadModule, EmptyCompletion, gpuVars, CompInv
  <1>6. CASE FetchRelease
    <2>1. get \in Index /\ pb[get] \in PbType /\ pb[get].fn \in Function
            /\ pb[get].id \in Ids /\ pb[get].payload = Payload(pb[get].id)
      BY <1>6 DEF FetchRelease, Fetching, TypeOK, SharedType, GpuType, PbInv
    <2>2. released' = released \cup {pb[get].id}
      BY <1>6 DEF FetchRelease
    <2>3. comp' = comp \/ comp' = [comp EXCEPT ![pb[get].fn].host = pb[get].payload]
      BY <1>6 DEF FetchRelease
    <2> QED BY <2>1, <2>2, <2>3 DEF CompInv, TypeOK, SharedType, CompType
  <1>7. CASE \E q \in pending : RunQmd(q)
    BY <1>7 DEF RunQmd, CompInv, TypeOK, SharedType, CompType
  <1>8. \/ UNCHANGED <<comp, released>> \/ StageBuffers \/ RecordLaunch \/ PollDone \/ PollTimeout
        \/ (\E m \in Module : UnloadModule(m)) \/ FetchRelease \/ (\E q \in pending : RunQmd(q))
    BY NextCases DEF vars, stageMem, gpuVars, Launch, LaunchOnHost, LaunchOnGpu, Synchronize, ComputeInit,
         ClearCode, CopyCode, WritePushbuffer, WriteEntries, SubmitNoop, KickUserd, KickDoorbell, Return,
         Observe, FetchStep, FetchNop, FetchObject, FetchPcas
  <1> QED BY <1>1, <1>2, <1>3, <1>4, <1>5, <1>6, <1>7, <1>8

-----------------------------------------------------------------------------
(***************************************************************************)
(* The launch path's state is always of its type, and calls, pushbuffers   *)
(* and completion records are about what LaunchInv says they are.          *)
(***************************************************************************)
THEOREM TypeCorrect == Spec => [](TypeOK /\ LaunchInv)
  <1>1. Init => TypeOK /\ LaunchInv
    BY InitType, InitInv
  <1>2. TypeOK /\ LaunchInv /\ [Next]_vars => (TypeOK /\ LaunchInv)'
    BY TypeStep, CallStep, PbStep, CompStep DEF LaunchInv
  <1> QED BY <1>1, <1>2, PTL DEF Spec

\* A DONE record is only ever written by a poll that saw the launch's own payload.
LEMMA ConsumedStep ==
  ASSUME MaxId < Word, TypeOK, LaunchInv, DoneIsConsumed, [Next]_vars
  PROVE  DoneIsConsumed'
  <1>1. released \subseteq released'
    BY NextCases DEF vars, gpuVars, Launch, LaunchOnHost, LaunchOnGpu, UnloadModule, Synchronize,
         ComputeInit, ClearCode, CopyCode, StageBuffers, RecordLaunch, WritePushbuffer, WriteEntries,
         SubmitNoop, KickUserd, KickDoorbell, PollDone, PollTimeout, Return,
         Observe, FetchStep, FetchNop, FetchObject, FetchPcas, FetchRelease, RunQmd
  <1>2. CASE PollDone
    <2>1. call.fn \in Function /\ comp[call.fn].status # "none"
      BY <1>2 DEF PollDone, LaunchInv, CallInv, Free, AfterRecord
    <2>2. comp[call.fn].id \in Ids /\ comp[call.fn].host = Payload(comp[call.fn].id)
      BY <1>2, <2>1 DEF PollDone, HostDone, LaunchInv, CompInv
    <2>3. PICK id \in released : comp[call.fn].host = Payload(id)
      BY <2>1, <2>2, PayloadInNat DEF LaunchInv, CompInv, Ids
    <2>4. \A i \in Ids : Payload(i) = i
      BY PayloadIsId, BoundAssumption DEF Ids
    <2>5. comp[call.fn].id \in released
      BY <2>2, <2>3, <2>4 DEF TypeOK, GpuType
    <2> QED BY <1>1, <1>2, <2>1, <2>5 DEF PollDone, DoneIsConsumed, TypeOK, SharedType
  <1>3. CASE \A f \in Function : comp'[f].status = "done" => comp[f].status = "done" /\ comp'[f].id = comp[f].id
    BY <1>1, <1>3 DEF DoneIsConsumed
  <1>4. CASE Observe \/ FetchStep \/ (\E q \in pending : RunQmd(q))
    BY <1>3, <1>4, GpuStepFrame DEF LaunchInv
  <1>5. CASE StageBuffers \/ RecordLaunch \/ PollTimeout \/ (\E m \in Module : UnloadModule(m))
    <2> SUFFICES ASSUME NEW f \in Function, comp'[f].status = "done"
                 PROVE  comp[f].status = "done" /\ comp'[f].id = comp[f].id
      BY <1>3
    <2>1. CASE StageBuffers
      BY <2>1 DEF StageBuffers, EmptyCompletion, TypeOK, SharedType
    <2>2. CASE RecordLaunch
      BY <2>2 DEF RecordLaunch, TypeOK, SharedType
    <2>3. CASE PollTimeout
      BY <2>3 DEF PollTimeout, TypeOK, SharedType, CompType
    <2>4. CASE \E m \in Module : UnloadModule(m)
      BY <2>4 DEF UnloadModule, EmptyCompletion
    <2> QED BY <1>5, <2>1, <2>2, <2>3, <2>4
  <1>6. CASE UNCHANGED comp
    BY <1>3, <1>6
  <1>7. \/ UNCHANGED comp \/ StageBuffers \/ RecordLaunch \/ PollDone \/ PollTimeout
        \/ (\E m \in Module : UnloadModule(m)) \/ Observe \/ FetchStep \/ (\E q \in pending : RunQmd(q))
    BY NextCases DEF vars, stageMem, Launch, LaunchOnHost, LaunchOnGpu, Synchronize, ComputeInit,
         ClearCode, CopyCode, WritePushbuffer, WriteEntries, SubmitNoop, KickUserd, KickDoorbell, Return
  <1> QED BY <1>2, <1>4, <1>5, <1>6, <1>7

(***************************************************************************)
(* A DONE completion means the launch's own progress release was executed, *)
(* for fewer launches than a 32-bit payload has values.                    *)
(***************************************************************************)
THEOREM DoneMeansConsumed == MaxId < Word => (Spec => []DoneIsConsumed)
  <1> SUFFICES ASSUME MaxId < Word PROVE Spec => []DoneIsConsumed
    OBVIOUS
  <1>1. Init => DoneIsConsumed
    BY DEF Init, DoneIsConsumed, EmptyCompletion
  <1>2. TypeOK /\ LaunchInv /\ DoneIsConsumed /\ [Next]_vars => DoneIsConsumed'
    BY ConsumedStep
  <1> QED BY <1>1, <1>2, TypeCorrect, PTL DEF Spec

-----------------------------------------------------------------------------
Dist(x, g) == (x - g) % Entries      \* entries from g on before x is reached

(***************************************************************************)
(* PairedEntries made inductive: the entry in front of a release is the    *)
(* launch's compute entry, and between the two writes of a submission the  *)
(* pushbuffers at put are those of the call.                               *)
(***************************************************************************)
IsCompute(e) == pb[e].op \in {"object", "pcas"}
Pairs ==
  \A e \in Index :
    gp[e] = "pb" /\ pb[e].op = "release" /\ (call.pc = "entries" => e # After(put, 1))
      => e % 2 = 1 /\ gp[e - 1] = "pb" /\ IsCompute(e - 1) /\ pb[e - 1].id = pb[e].id
Written ==
  call.pc = "entries" =>
    /\ pb[put].id = call.id
    /\ pb[put].op = IF call.staged /\ env["qmd"] THEN "pcas" ELSE "object"
    /\ IF call.staged THEN pb[After(put, 1)].op = "release" /\ pb[After(put, 1)].id = call.id
                      ELSE pb[After(put, 1)].op = "none"
PairInv == put % 2 = 0 /\ Pairs /\ Written

(***************************************************************************)
(* What holds until put laps get: the GPU's copy of GPPut is behind UserD, *)
(* UserD behind put, and an entry being written is not the next to fetch.  *)
(***************************************************************************)
Behind ==
  /\ Dist(gpuPut, get) <= Dist(userdPut, get)
  /\ Dist(userdPut, get) <= Dist(put, get)
  /\ call.pc = "entries" => Dist(put, get) + 2 <= Entries

\* Between the entries of a pair the GPU has fetched the first.
HalfFetched ==
  gp[get] = "pb" /\ pb[get].op = "release" => pb[get].id \in fetched

(***************************************************************************)
(* Every pushbuffer still to be fetched, and the one being written, is of  *)
(* a launch of its own that has not been executed.                         *)
(***************************************************************************)
Flying == {e \in Index : Dist(e, get) < Dist(put, get) /\ gp[e] = "pb"}
Submitting == call.staged /\ call.pc \in {"pushbuffer", "entries"}
KnownIds ==
  /\ \A id \in fetched \cup released : id < nextId
  /\ \A e \in Flying : pb[e].id < nextId
  /\ Submitting => call.id < nextId
  /\ ~call.staged => call.id = 0
FreshEntries ==
  /\ \A e \in Flying : /\ pb[e].op = "release" => pb[e].id \notin released
                       /\ pb[e].op = "pcas" => pb[e].id \notin fetched
  /\ \A e, f \in Flying : e # f =>
       /\ pb[e].op = "release" /\ pb[f].op = "release" => pb[e].id # pb[f].id
       /\ pb[e].op = "pcas" /\ IsCompute(f) => pb[e].id # pb[f].id
FreshCall ==
  Submitting => /\ call.id \notin fetched \cup released
                /\ \A e \in Flying : pb[e].id # call.id

InOrder == /\ Behind /\ HalfFetched /\ released \subseteq fetched
           /\ KnownIds /\ FreshEntries /\ FreshCall
RingInv == PairInv /\ (~lapped => InOrder)

-----------------------------------------------------------------------------
(***************************************************************************)
(* Positions in the ring.                                                  *)
(***************************************************************************)
\* The distance from one entry to another without the remainder.
LEMMA DistIs ==
  ASSUME NEW x \in Index, NEW g \in Index
  PROVE  Dist(x, g) = IF g <= x THEN x - g ELSE x - g + Entries
<1>1. x \in Int /\ g \in Int /\ Entries \in Int /\ 0 <= x /\ x < Entries /\ 0 <= g /\ g < Entries
  BY EntriesAssumption DEF Index
<1>2. CASE g <= x
  <2>1. 0 <= x - g /\ x - g < Entries
    BY <1>1, <1>2
  <2> QED
    BY <1>1, <1>2, <2>1 DEF Dist
<1>3. CASE x < g
  <2>1. -Entries < x - g /\ x - g < 0
    BY <1>1, <1>3
  <2>2. (x - g) % Entries = x - g + Entries
    BY <1>1, <2>1
  <2> QED
    BY <1>1, <1>3, <2>2 DEF Dist
<1> QED
  BY <1>1, <1>2, <1>3

\* The entry one or two further on without the remainder.
LEMMA AfterIs ==
  ASSUME NEW e \in Index, NEW n \in {1, 2}
  PROVE  After(e, n) = IF e + n < Entries THEN e + n ELSE e + n - Entries
<1>1. e \in Int /\ Entries \in Int /\ 0 <= e /\ e < Entries /\ Entries >= 4
  BY EntriesAssumption DEF Index
<1>2. CASE e + n < Entries
  <2>1. (e + n) % Entries = e + n
    BY <1>1, <1>2
  <2> QED
    BY <1>2, <2>1 DEF After
<1>3. CASE e + n >= Entries
  <2>1. 0 <= e + n - Entries /\ e + n - Entries < Entries
    BY <1>1, <1>3
  <2>2. (e + n) % Entries = e + n - Entries
    BY <1>1, <1>3, <2>1
  <2> QED
    BY <1>1, <1>3, <2>2 DEF After
<1> QED
  BY <1>1, <1>2, <1>3

\* Two entries on, an entry has the same parity; an even entry has an odd one behind it.
LEMMA Parity ==
  ASSUME NEW e \in Index
  PROVE  /\ After(e, 1) \in Index /\ After(e, 2) \in Index
         /\ e % 2 = 0 => After(e, 1) = e + 1 /\ (e + 1) % 2 = 1 /\ After(e, 2) % 2 = 0
         /\ e % 2 = 1 => e - 1 \in Index /\ (e - 1) % 2 = 0 /\ After(e - 1, 1) = e
         /\ e % 2 \in {0, 1}
<1>1. e \in Int /\ Entries \in Int /\ 0 <= e /\ e < Entries /\ Entries >= 4 /\ Entries % 2 = 0
  BY EntriesAssumption DEF Index
<1>2. After(e, 1) \in Index /\ After(e, 2) \in Index
  BY AfterInIndex
<1>3. e % 2 = 0 => After(e, 1) = e + 1 /\ (e + 1) % 2 = 1 /\ After(e, 2) % 2 = 0
  <2> SUFFICES ASSUME e % 2 = 0 PROVE After(e, 1) = e + 1 /\ (e + 1) % 2 = 1 /\ After(e, 2) % 2 = 0
    OBVIOUS
  <2>1. e + 1 < Entries
    BY <1>1
  <2>2. After(e, 1) = e + 1
    BY <2>1, AfterIs
  <2>3. (e + 1) % 2 = 1 /\ (e + 2) % 2 = 0 /\ (e + 2 - Entries) % 2 = 0
    BY <1>1
  <2>4. After(e, 2) = e + 2 \/ After(e, 2) = e + 2 - Entries
    BY AfterIs
  <2> QED
    BY <2>2, <2>3, <2>4
<1>4. e % 2 = 1 => e - 1 \in Index /\ (e - 1) % 2 = 0 /\ After(e - 1, 1) = e
  <2> SUFFICES ASSUME e % 2 = 1 PROVE e - 1 \in Index /\ (e - 1) % 2 = 0 /\ After(e - 1, 1) = e
    OBVIOUS
  <2>1. (e - 1) % 2 = 0 /\ 0 <= e - 1
    BY <1>1
  <2>2. e - 1 \in Index
    BY <1>1, <2>1 DEF Index
  <2>3. After(e - 1, 1) = (e - 1) + 1
    BY <1>1, <2>2, AfterIs
  <2> QED
    BY <1>1, <2>1, <2>2, <2>3
<1>5. e % 2 \in {0, 1}
  BY <1>1
<1> QED
  BY <1>2, <1>3, <1>4, <1>5

\* Distances from the entry to fetch: each entry has its own, and a fetch shortens them.
LEMMA Distances ==
  ASSUME NEW g \in Index, NEW x \in Index
  PROVE  /\ Dist(x, g) \in Nat /\ Dist(x, g) < Entries
         /\ Dist(g, g) = 0
         /\ \A y \in Index : Dist(x, g) = Dist(y, g) => x = y
         /\ x # g => Dist(x, After(g, 1)) = Dist(x, g) - 1
         /\ Dist(g, After(g, 1)) = Entries - 1
<1>1. x \in Int /\ g \in Int /\ Entries \in Int /\ 0 <= x /\ x < Entries /\ 0 <= g /\ g < Entries
      /\ Entries >= 4
  BY EntriesAssumption DEF Index
<1>2. After(g, 1) \in Index /\ After(g, 1) = IF g + 1 < Entries THEN g + 1 ELSE g + 1 - Entries
  BY AfterIs, Parity
<1>3. /\ Dist(x, g) = IF g <= x THEN x - g ELSE x - g + Entries
      /\ Dist(g, g) = IF g <= g THEN g - g ELSE g - g + Entries
      /\ Dist(x, After(g, 1)) = IF After(g, 1) <= x THEN x - After(g, 1) ELSE x - After(g, 1) + Entries
      /\ Dist(g, After(g, 1)) = IF After(g, 1) <= g THEN g - After(g, 1) ELSE g - After(g, 1) + Entries
  BY <1>2, DistIs
<1>4. \A y \in Index : Dist(x, g) = Dist(y, g) => x = y
  <2> SUFFICES ASSUME NEW y \in Index, Dist(x, g) = Dist(y, g) PROVE x = y
    OBVIOUS
  <2>1. y \in Int /\ 0 <= y /\ y < Entries
    BY <1>1 DEF Index
  <2>2. Dist(y, g) = IF g <= y THEN y - g ELSE y - g + Entries
    BY DistIs
  <2>3. /\ g <= x => Dist(x, g) = x - g
        /\ g <= y => Dist(y, g) = y - g
        /\ ~(g <= x) => Dist(x, g) = x - g + Entries
        /\ ~(g <= y) => Dist(y, g) = y - g + Entries
    BY <1>3, <2>2
  <2>4. (g <= x) <=> (g <= y)
    BY <1>1, <2>1, <2>3
  <2>5. CASE g <= x
    <3>1. x - g = y - g
      BY <2>3, <2>4, <2>5
    <3> QED
      BY <1>1, <2>1, <3>1
  <2>6. CASE ~(g <= x)
    <3>1. x - g + Entries = y - g + Entries
      BY <2>3, <2>4, <2>6
    <3> QED
      BY <1>1, <2>1, <3>1
  <2> QED
    BY <2>5, <2>6
<1> QED
  BY <1>1, <1>2, <1>3, <1>4

\* The entries behind x are further away, unless the ring ends there.
LEMMA DistAfter ==
  ASSUME NEW g \in Index, NEW x \in Index, NEW n \in {1, 2}
  PROVE  Dist(x, g) + n < Entries => Dist(After(x, n), g) = Dist(x, g) + n
<1>1. x \in Int /\ g \in Int /\ Entries \in Int /\ 0 <= x /\ x < Entries /\ 0 <= g /\ g < Entries
      /\ Entries >= 4
  BY EntriesAssumption DEF Index
<1>2. After(x, n) \in Index /\ After(x, n) = IF x + n < Entries THEN x + n ELSE x + n - Entries
  BY AfterIs, Parity
<1>3. /\ Dist(x, g) = IF g <= x THEN x - g ELSE x - g + Entries
      /\ Dist(After(x, n), g) = IF g <= After(x, n) THEN After(x, n) - g ELSE After(x, n) - g + Entries
  BY <1>2, DistIs
<1> QED
  BY <1>1, <1>2, <1>3

\* Two entries with the same successor are one entry.
LEMMA AfterOneToOne ==
  ASSUME NEW x \in Index, NEW y \in Index, After(x, 1) = After(y, 1) PROVE x = y
<1>1. Entries \in Int /\ x \in Int /\ y \in Int /\ 0 <= x /\ x < Entries /\ 0 <= y /\ y < Entries
  BY EntriesAssumption DEF Index
<1>2. /\ After(x, 1) = IF x + 1 < Entries THEN x + 1 ELSE x + 1 - Entries
      /\ After(y, 1) = IF y + 1 < Entries THEN y + 1 ELSE y + 1 - Entries
  BY AfterIs
<1> QED
  BY <1>1, <1>2

-----------------------------------------------------------------------------
(***************************************************************************)
(* Steps that leave the ring alone.  No call but the one that submits is   *)
(* at the two steps that write it.                                         *)
(***************************************************************************)
RingFrame == UNCHANGED <<env, gp, pb, put, userdPut, gpuPut, get, lapped, fetched, released, nextId>>
QuietCall ==
  \/ call' = call
  \/ /\ call.pc # "entries" /\ call'.pc # "entries"
     /\ call'.pc = "pushbuffer" => ~call'.staged
     /\ \/ call'.staged = call.staged /\ call'.id = call.id
        \/ call'.staged = FALSE /\ call'.id = 0

RingStep == RecordLaunch \/ WritePushbuffer \/ WriteEntries \/ SubmitNoop \/ KickUserd \/ Observe \/ FetchStep

\* Every step but those of RingStep leaves the ring alone, and the call it starts or
\* moves on is none that is about to write one.
LEMMA QuietSteps ==
  ASSUME TypeOK, CallInv, [Next]_vars, ~RingStep
  PROVE  RingFrame /\ QuietCall
<1> USE DEF RingFrame, QuietCall, vars, hostMem, ringMem, stageMem, gpuVars, histVars
<1>0. call \in CallType
  BY DEF TypeOK, HostType
<1>1. CASE UNCHANGED vars
  BY <1>1
<1>2. ASSUME NEW f \in Function, Launch(f) PROVE RingFrame /\ QuietCall
  <2>1. NewCall(f).staged = FALSE /\ NewCall(f).id = 0
    BY DEF NewCall, IdleCall
  <2>2. call'.staged = FALSE /\ call'.id = 0 /\ call'.pc \in {"return", "noop", "compute"}
    BY <1>2 DEF Launch, LaunchOnHost, LaunchOnGpu, NewCall, IdleCall
  <2>3. call.pc # "entries" /\ RingFrame
    BY <1>2 DEF Launch, LaunchOnHost, LaunchOnGpu, Free
  <2> QED
    BY <2>2, <2>3
<1>3. ASSUME NEW m \in Module, UnloadModule(m) PROVE RingFrame /\ QuietCall
  BY <1>3 DEF UnloadModule, Free, IdleCall
<1>4. CASE Synchronize
  BY <1>4 DEF Synchronize, Free, IdleCall
<1>5. CASE ComputeInit
  <2>1. call.pc = "compute" /\ ~call.staged
    BY <1>5 DEF ComputeInit, CallInv, BeforeRecord
  <2>2. RingFrame
    BY <1>5 DEF ComputeInit
  <2>3. CASE ComputeFailed
    BY <1>0, <2>1, <2>2, <2>3, ComputeFailedKeeps
  <2>4. CASE \E s \in {"pushbuffer", "clearCode"} : Goto(s)
    BY <1>0, <2>1, <2>2, <2>4, GotoKeeps
  <2> QED
    BY <1>5, <2>3, <2>4 DEF ComputeInit
<1>6. CASE ClearCode \/ CopyCode \/ StageBuffers
  <2>1. call.pc \in {"clearCode", "copyCode", "buffers"} /\ ~call.staged
    BY <1>6 DEF ClearCode, CopyCode, StageBuffers, CallInv, BeforeRecord
  <2>2. RingFrame
    BY <1>6 DEF ClearCode, CopyCode, StageBuffers
  <2>3. CASE StagingFailed
    BY <1>0, <2>1, <2>2, <2>3, StagingFailedKeeps
  <2>4. CASE \E s \in {"copyCode", "buffers", "record"} : Goto(s)
    BY <1>0, <2>1, <2>2, <2>4, GotoKeeps
  <2> QED
    BY <1>6, <2>3, <2>4 DEF ClearCode, CopyCode, StageBuffers
<1>7. CASE KickDoorbell \/ PollDone
  <2>1. call.pc \in {"doorbell", "poll"} /\ RingFrame
    BY <1>7 DEF KickDoorbell, PollDone
  <2>2. PICK s \in {"poll", "return"} : Goto(s)
    BY <1>7 DEF KickDoorbell, PollDone
  <2> QED
    BY <1>0, <2>1, <2>2, GotoKeeps
<1>8. CASE PollTimeout
  BY <1>0, <1>8, ComputeFailedKeeps DEF PollTimeout
<1>9. CASE Return
  <2>1. call'.pc = "done" /\ call'.staged = call.staged /\ call'.id = call.id
    BY <1>0, <1>9 DEF Return, CallType
  <2> QED
    BY <1>9, <2>1 DEF Return
<1>10. ASSUME NEW q \in pending, RunQmd(q) PROVE RingFrame /\ QuietCall
  BY <1>10 DEF RunQmd
<1> QED
  BY <1>1, <1>2, <1>3, <1>4, <1>5, <1>6, <1>7, <1>8, <1>9, <1>10, NextCases DEF RingStep

\* Such a step keeps the invariant of the ring.
LEMMA QuietKeeps ==
  ASSUME TypeOK, RingInv, RingFrame, QuietCall PROVE RingInv'
<1> USE DEF RingFrame, QuietCall
<1>1. Pairs' /\ Written'
  BY DEF RingInv, PairInv, Pairs, Written, IsCompute
<1>2. ~lapped => Behind' /\ HalfFetched'
  BY DEF RingInv, InOrder, Behind, HalfFetched
<1>3. Flying' = Flying
  BY DEF Flying
<1>4. Submitting' => Submitting /\ call'.id = call.id
  BY DEF Submitting
<1>5. ~lapped => KnownIds'
  BY <1>3, <1>4 DEF RingInv, InOrder, KnownIds
<1>6. ~lapped => FreshEntries'
  BY <1>3 DEF RingInv, InOrder, FreshEntries, IsCompute
<1>7. ~lapped => FreshCall'
  BY <1>3, <1>4 DEF RingInv, InOrder, FreshCall
<1> QED
  BY <1>1, <1>2, <1>5, <1>6, <1>7 DEF RingInv, PairInv, InOrder

-----------------------------------------------------------------------------
(***************************************************************************)
(* The steps about the ring.                                               *)
(***************************************************************************)
\* The ids in the ring and in the histories are numbers, and the GPU's positions entries.
LEMMA RingTypes ==
  ASSUME TypeOK
  PROVE  /\ put \in Index /\ get \in Index /\ gpuPut \in Index /\ userdPut \in Index
         /\ nextId \in Nat /\ nextId > 0 /\ call.id \in Nat /\ call \in CallType
         /\ gp \in [Index -> {"nop", "pb"}] /\ pb \in [Index -> PbType]
         /\ \A e \in Index : pb[e].id \in Nat
         /\ \A id \in fetched \cup released : id \in Nat
<1>1. \A id \in IdsOr0 : id \in Nat
  BY BoundAssumption DEF IdsOr0
<1>2. call.id \in IdsOr0 /\ \A e \in Index : pb[e].id \in IdsOr0
  BY DEF TypeOK, HostType, SharedType, CallType, PbType
<1>3. nextId \in Nat /\ nextId > 0
  BY BoundAssumption DEF TypeOK, HostType
<1>4. \A id \in fetched \cup released : id \in Nat
  <2>1. \A id \in Ids : id \in Nat
    BY BoundAssumption DEF Ids
  <2>2. fetched \subseteq IdsOr0 /\ released \subseteq Ids
    BY DEF TypeOK, GpuType
  <2> QED
    BY <1>1, <2>1, <2>2
<1> QED
  BY <1>1, <1>2, <1>3, <1>4 DEF TypeOK, HostType, SharedType, GpuType

\* A launch that is recorded gets an id that no entry has and nothing executed had.
LEMMA RecordKeeps ==
  ASSUME TypeOK, RingInv, RecordLaunch PROVE RingInv'
<1>1. /\ UNCHANGED <<env, gp, pb, put, userdPut, gpuPut, get, lapped, fetched, released>>
      /\ nextId' = nextId + 1 /\ call.pc = "record"
  BY DEF RecordLaunch, ringMem, gpuVars, histVars
<1>2. call'.pc = "pushbuffer" /\ call'.id = nextId /\ call'.staged
  BY RingTypes DEF RecordLaunch, CallType
<1>3. Pairs' /\ Written'
  BY <1>1, <1>2 DEF RingInv, PairInv, Pairs, Written, IsCompute
<1>4. Flying' = Flying /\ Flying \subseteq Index
  BY <1>1 DEF Flying
<1>5. ASSUME ~lapped PROVE InOrder'
  <2>1. /\ \A id \in fetched \cup released : id < nextId /\ id \in Nat
        /\ \A e \in Flying : pb[e].id < nextId /\ pb[e].id \in Nat
        /\ nextId \in Nat
    BY <1>4, <1>5, RingTypes DEF RingInv, InOrder, KnownIds
  <2>2. /\ \A id \in fetched \cup released : id < nextId + 1 /\ id # nextId
        /\ \A e \in Flying : pb[e].id < nextId + 1 /\ pb[e].id # nextId
        /\ nextId < nextId + 1
    BY <2>1
  <2>3. KnownIds' /\ FreshCall'
    BY <1>1, <1>2, <1>4, <2>2 DEF KnownIds, FreshCall
  <2>4. FreshEntries'
    BY <1>1, <1>4, <1>5 DEF RingInv, InOrder, FreshEntries, IsCompute
  <2>5. Behind' /\ HalfFetched' /\ released' \subseteq fetched'
    BY <1>1, <1>2, <1>5 DEF RingInv, InOrder, Behind, HalfFetched
  <2> QED
    BY <2>3, <2>4, <2>5 DEF InOrder
<1> QED
  BY <1>1, <1>3, <1>5 DEF RingInv, PairInv

\* GPPut becomes put, and the GPU's copy GPPut: neither passes put.
LEMMA GpPutKeeps ==
  ASSUME TypeOK, RingInv, KickUserd \/ Observe PROVE RingInv'
<1>1. /\ UNCHANGED <<env, gp, pb, put, get, lapped, fetched, released, nextId>>
      /\ \/ userdPut' = put /\ gpuPut' = gpuPut
         \/ userdPut' = userdPut /\ gpuPut' = userdPut
  BY DEF KickUserd, Observe, hostMem, gpuVars, histVars
<1>2. \/ call' = call
      \/ /\ call.pc = "userd" /\ call'.pc = "doorbell"
         /\ call'.staged = call.staged /\ call'.id = call.id
  BY RingTypes, GotoKeeps DEF KickUserd, Observe
<1>3. Pairs' /\ Written'
  BY <1>1, <1>2 DEF RingInv, PairInv, Pairs, Written, IsCompute
<1>4. Flying' = Flying /\ (Submitting' => Submitting /\ call'.id = call.id)
  BY <1>1, <1>2 DEF Flying, Submitting
<1>5. ASSUME ~lapped PROVE InOrder'
  <2>1. Behind'
    <3>1. Dist(gpuPut, get) \in Nat /\ Dist(userdPut, get) \in Nat /\ Dist(put, get) \in Nat
      BY RingTypes, Distances
    <3>2. call'.pc = "entries" => call.pc = "entries"
      BY <1>2
    <3>3. /\ Dist(gpuPut', get) <= Dist(userdPut', get)
          /\ Dist(userdPut', get) <= Dist(put, get)
      BY <1>1, <1>5, <3>1 DEF RingInv, InOrder, Behind
    <3> QED
      BY <1>1, <1>5, <3>2, <3>3 DEF RingInv, InOrder, Behind
  <2>2. KnownIds' /\ FreshCall'
    BY <1>1, <1>2, <1>4, <1>5 DEF RingInv, InOrder, KnownIds, FreshCall
  <2>3. FreshEntries' /\ HalfFetched' /\ released' \subseteq fetched'
    BY <1>1, <1>4, <1>5 DEF RingInv, InOrder, FreshEntries, IsCompute, HalfFetched
  <2> QED
    BY <2>1, <2>2, <2>3 DEF InOrder
<1> QED
  BY <1>1, <1>3, <1>5 DEF RingInv, PairInv

-----------------------------------------------------------------------------
\* What a fetch adds to the histories, by the kind of the entry.
LEMMA FetchEffect ==
  ASSUME TypeOK, FetchStep
  PROVE  /\ UNCHANGED <<env, gp, pb, put, userdPut, gpuPut, lapped, nextId, call>>
         /\ get # gpuPut /\ get' = After(get, 1)
         /\ gp[get] = "pb" /\ IsCompute(get) => fetched' = fetched \cup {pb[get].id}
         /\ \/ UNCHANGED <<fetched, released>>
            \/ /\ gp[get] = "pb" /\ IsCompute(get)
               /\ fetched' = fetched \cup {pb[get].id} /\ released' = released
            \/ /\ gp[get] = "pb" /\ pb[get].op = "release"
               /\ fetched' = fetched /\ released' = released \cup {pb[get].id}
<1> USE DEF Fetching, hostMem, ringMem, histVars, IsCompute
<1>1. gp[get] \in {"nop", "pb"}
  BY RingTypes
<1>2. CASE FetchNop
  BY <1>1, <1>2 DEF FetchNop
<1>3. CASE FetchObject
  BY <1>1, <1>3 DEF FetchObject
<1>4. CASE FetchPcas
  BY <1>1, <1>4 DEF FetchPcas
<1>5. CASE FetchRelease
  BY <1>1, <1>5 DEF FetchRelease
<1> QED
  BY <1>2, <1>3, <1>4, <1>5 DEF FetchStep

\* While put has not lapped get, what the GPU fetches is between get and put.
LEMMA FetchedIsFlying ==
  ASSUME TypeOK, InOrder, get # gpuPut
  PROVE  /\ Dist(gpuPut, get) > 0 /\ Dist(userdPut, get) > 0 /\ Dist(put, get) > 0
         /\ get # put /\ get # userdPut
         /\ gp[get] = "pb" => get \in Flying
<1>1. /\ Dist(gpuPut, get) \in Nat /\ Dist(userdPut, get) \in Nat /\ Dist(put, get) \in Nat
      /\ Dist(get, get) = 0
  BY RingTypes, Distances
<1>2. Dist(gpuPut, get) # 0
  BY <1>1, RingTypes, Distances
<1>3. Dist(gpuPut, get) > 0 /\ Dist(userdPut, get) > 0 /\ Dist(put, get) > 0
  BY <1>1, <1>2 DEF InOrder, Behind
<1> QED
  BY <1>1, <1>3, RingTypes DEF Flying

\* The entry behind a fetched one, if it is a release, is the other of its pair.
LEMMA NextIsPaired ==
  ASSUME TypeOK, PairInv, InOrder, get # gpuPut,
         gp[After(get, 1)] = "pb", pb[After(get, 1)].op = "release"
  PROVE  gp[get] = "pb" /\ IsCompute(get) /\ pb[get].id = pb[After(get, 1)].id
<1> DEFINE g == After(get, 1)
<1>1. g \in Index /\ get \in Index /\ put \in Index
  BY RingTypes, Parity
<1>2. g # After(put, 1)
  BY <1>1, FetchedIsFlying, AfterOneToOne
<1>3. g % 2 = 1 /\ gp[g - 1] = "pb" /\ IsCompute(g - 1) /\ pb[g - 1].id = pb[g].id
  BY <1>1, <1>2 DEF PairInv, Pairs
<1>4. g - 1 \in Index /\ After(g - 1, 1) = g
  BY <1>1, <1>3, Parity
<1>5. g - 1 = get
  BY <1>1, <1>4, AfterOneToOne
<1> QED
  BY <1>3, <1>5

\* A fetch takes the next entry, and with it its id, from those still to be fetched.
LEMMA FetchKeeps ==
  ASSUME TypeOK, RingInv, FetchStep PROVE RingInv'
<1>1. /\ UNCHANGED <<env, gp, pb, put, userdPut, gpuPut, lapped, nextId, call>>
      /\ get # gpuPut /\ get' = After(get, 1)
  BY FetchEffect
<1>2. Pairs' /\ Written'
  BY <1>1 DEF RingInv, PairInv, Pairs, Written, IsCompute
<1>3. ASSUME ~lapped PROVE InOrder'
  <2>1. InOrder /\ PairInv
    BY <1>3 DEF RingInv
  <2>2. /\ Dist(gpuPut, get) > 0 /\ Dist(userdPut, get) > 0 /\ Dist(put, get) > 0
        /\ get # put /\ get # userdPut /\ get # gpuPut
        /\ gp[get] = "pb" => get \in Flying
    BY <1>1, <2>1, FetchedIsFlying
  <2>3. /\ Dist(gpuPut, get') = Dist(gpuPut, get) - 1
        /\ Dist(userdPut, get') = Dist(userdPut, get) - 1
        /\ Dist(put, get') = Dist(put, get) - 1
        /\ Dist(gpuPut, get) \in Nat /\ Dist(userdPut, get) \in Nat /\ Dist(put, get) \in Nat
        /\ Dist(put, get) < Entries /\ Entries \in Nat
    BY <1>1, <2>2, RingTypes, Distances, EntriesAssumption
  <2>4. Behind'
    BY <1>1, <2>1, <2>3 DEF InOrder, Behind
  <2>5. Flying' \subseteq Flying \ {get}
    <3> SUFFICES ASSUME NEW e \in Flying' PROVE e \in Flying \ {get}
      OBVIOUS
    <3>1. e \in Index /\ gp[e] = "pb" /\ Dist(e, get') < Dist(put, get) - 1
      BY <1>1, <2>3 DEF Flying
    <3>2. e # get
      <4>1. Dist(get, get') = Entries - 1
        BY <1>1, RingTypes, Distances
      <4> QED
        BY <2>3, <3>1, <4>1
    <3>3. Dist(e, get') = Dist(e, get) - 1 /\ Dist(e, get) \in Nat
      BY <1>1, <3>1, <3>2, RingTypes, Distances
    <3> QED
      BY <2>3, <3>1, <3>2, <3>3 DEF Flying
  <2>6. /\ gp[get] = "pb" /\ IsCompute(get) => fetched' = fetched \cup {pb[get].id}
        /\ \/ UNCHANGED <<fetched, released>>
           \/ /\ get \in Flying /\ IsCompute(get)
              /\ fetched' = fetched \cup {pb[get].id} /\ released' = released
           \/ /\ get \in Flying /\ pb[get].op = "release"
              /\ fetched' = fetched /\ released' = released \cup {pb[get].id}
    BY <2>2, FetchEffect
  <2>7. HalfFetched'
    BY <1>1, <2>1, <2>6, NextIsPaired DEF HalfFetched
  <2>8. released' \subseteq fetched'
    BY <2>1, <2>6 DEF InOrder, HalfFetched, Flying
  <2>9. KnownIds'
    <3>1. \A id \in fetched' \cup released' : id < nextId
      BY <2>1, <2>6 DEF InOrder, KnownIds
    <3>2. Submitting' <=> Submitting
      BY <1>1 DEF Submitting
    <3> QED
      BY <1>1, <2>1, <2>5, <3>1, <3>2 DEF InOrder, KnownIds
  <2>10. FreshEntries'
    <3>1. \A e \in Flying' : /\ pb[e].op = "release" => pb[e].id \notin released'
                             /\ pb[e].op = "pcas" => pb[e].id \notin fetched'
      BY <2>1, <2>5, <2>6 DEF InOrder, FreshEntries
    <3> QED
      BY <1>1, <2>1, <2>5, <3>1 DEF InOrder, FreshEntries, IsCompute
  <2>11. FreshCall'
    BY <1>1, <2>1, <2>5, <2>6 DEF InOrder, FreshCall, Submitting
  <2> QED
    BY <2>4, <2>7, <2>8, <2>9, <2>10, <2>11 DEF InOrder
<1> QED
  BY <1>1, <1>2, <1>3 DEF RingInv, PairInv

-----------------------------------------------------------------------------
(***************************************************************************)
(* Submission writes the entries at put, which the GPU does not reach as   *)
(* long as put has not lapped get.                                         *)
(***************************************************************************)
\* The two entries at put, and where they are.
LEMMA PutEntries ==
  ASSUME TypeOK, put % 2 = 0
  PROVE  /\ ComputeEntry = put /\ After(put, 1) \in Index /\ put \in Index
         /\ After(put, 1) = put + 1 /\ After(put, 1) % 2 = 1 /\ After(put, 1) # put
         /\ After(put, 2) \in Index /\ After(put, 2) % 2 = 0
         /\ \A e \in Index : e % 2 = 1 /\ e # After(put, 1) =>
              e # put /\ e - 1 # put /\ e - 1 # After(put, 1) /\ e - 1 \in Index
         /\ After(put, 1) - 1 = put
<1>1. put \in Index /\ put \in Int
  BY RingTypes DEF Index
<1>2. ComputeEntry = put
  BY DEF ComputeEntry
<1>3. /\ After(put, 1) \in Index /\ After(put, 1) = put + 1 /\ (put + 1) % 2 = 1
      /\ After(put, 2) \in Index /\ After(put, 2) % 2 = 0
  BY <1>1, Parity
<1>4. ASSUME NEW e \in Index, e % 2 = 1, e # put + 1
      PROVE  e # put /\ e - 1 # put /\ e - 1 # put + 1 /\ e - 1 \in Index
  <2>1. e - 1 \in Index /\ (e - 1) % 2 = 0 /\ e \in Int
    BY <1>4, Parity DEF Index
  <2> QED
    BY <1>1, <1>3, <1>4, <2>1
<1> QED
  BY <1>1, <1>2, <1>3, <1>4

\* An entry still to be fetched, and the next to fetch, is not one that is written.
LEMMA WrittenNotFlying ==
  ASSUME TypeOK, put % 2 = 0, Dist(put, get) + 2 <= Entries
  PROVE  /\ get # After(put, 1)
         /\ \A e \in Flying : e \in Index /\ e # put /\ e # After(put, 1)
<1>1. put \in Index /\ get \in Index /\ After(put, 1) \in Index /\ Entries \in Nat
  BY PutEntries, RingTypes, EntriesAssumption
<1>2. Dist(put, get) \in Nat /\ Dist(put, get) + 1 < Entries
  BY <1>1, Distances
<1>3. get # After(put, 1)
  <2>1. Dist(put, After(put, 1)) = Entries - 1
    BY <1>1, Distances
  <2> QED
    BY <1>1, <1>2, <2>1
<1>4. Dist(After(put, 1), get) = Dist(put, get) + 1
  BY <1>1, <1>2, DistAfter
<1> QED
  BY <1>2, <1>3, <1>4 DEF Flying

\* Writing the two pushbuffers at put touches no entry in flight unless put has lapped
\* get, and leaves them as Written says.
LEMMA WritePushbufferKeeps ==
  ASSUME TypeOK, CallInv, RingInv, WritePushbuffer PROVE RingInv'
<1> DEFINE q == After(put, 1)
<1>1. /\ UNCHANGED <<env, gp, put, userdPut, gpuPut, get, fetched, released, nextId>>
      /\ call.pc = "pushbuffer" /\ put % 2 = 0
  BY DEF WritePushbuffer, hostMem, gpuVars, RingInv, PairInv
<1>2. CASE ComputeFailed /\ UNCHANGED <<pb, lapped>>
  BY <1>1, <1>2, RingTypes, ComputeFailedKeeps, QuietKeeps DEF RingFrame, QuietCall
<1>3. CASE /\ pb' = [pb EXCEPT ![put] = ComputePb, ![q] = IF call.staged THEN ReleasePb ELSE NoPb]
           /\ lapped' = (lapped \/ Unfetched + 2 > Entries)
           /\ Goto("entries")
  <2>1. call'.pc = "entries" /\ call'.id = call.id /\ call'.staged = call.staged
    BY <1>3, RingTypes, GotoKeeps
  <2>2. /\ pb'[put] = ComputePb /\ pb'[q] = IF call.staged THEN ReleasePb ELSE NoPb
        /\ \A e \in Index : e # put /\ e # q => pb'[e] = pb[e]
    BY <1>1, <1>3, PutEntries, RingTypes
  <2>3. Pairs'
    <3> SUFFICES ASSUME NEW e \in Index, gp[e] = "pb", pb'[e].op = "release", e # q
                 PROVE  e % 2 = 1 /\ gp[e - 1] = "pb" /\ IsCompute(e - 1)' /\ pb'[e - 1].id = pb'[e].id
      BY <1>1, <2>1 DEF Pairs
    <3>1. e # put
      BY <2>2 DEF ComputePb
    <3>2. e % 2 = 1 /\ gp[e - 1] = "pb" /\ IsCompute(e - 1) /\ pb[e - 1].id = pb[e].id
      BY <1>1, <2>2, <3>1 DEF RingInv, PairInv, Pairs
    <3>3. pb'[e] = pb[e] /\ pb'[e - 1] = pb[e - 1]
      BY <1>1, <2>2, <3>1, <3>2, PutEntries
    <3> QED
      BY <3>2, <3>3 DEF IsCompute
  <2>4. Written'
    BY <1>1, <2>1, <2>2 DEF Written, ComputePb, ReleasePb, NoPb
  <2>5. ASSUME ~lapped' PROVE InOrder'
    <3>1. InOrder /\ ~(Unfetched + 2 > Entries)
      BY <1>3, <2>5 DEF RingInv
    <3>2. Dist(put, get) + 2 <= Entries
      BY <3>1, RingTypes, Distances, EntriesAssumption DEF Unfetched, Dist
    <3>3. get # q /\ \A e \in Flying : e \in Index /\ e # put /\ e # q
      BY <1>1, <3>2, WrittenNotFlying
    <3>4. Flying' = Flying /\ \A e \in Flying : pb'[e] = pb[e]
      BY <1>1, <2>2, <3>3 DEF Flying
    <3>5. Behind'
      BY <1>1, <3>1, <3>2 DEF InOrder, Behind
    <3>6. HalfFetched'
      BY <1>1, <2>2, <3>1, <3>3, RingTypes DEF InOrder, HalfFetched, ComputePb
    <3>7. Submitting' => Submitting
      BY <1>1, <2>1 DEF Submitting
    <3>8. KnownIds' /\ FreshCall'
      BY <1>1, <2>1, <3>1, <3>4, <3>7 DEF InOrder, KnownIds, FreshCall
    <3>9. FreshEntries' /\ released' \subseteq fetched'
      BY <1>1, <3>1, <3>4 DEF InOrder, FreshEntries, IsCompute
    <3> QED
      BY <3>5, <3>6, <3>8, <3>9 DEF InOrder
  <2> QED
    BY <1>1, <2>3, <2>4, <2>5 DEF RingInv, PairInv
<1>4. ComputeEntry = put
  BY <1>1, PutEntries
<1> QED
  BY <1>2, <1>3, <1>4 DEF WritePushbuffer

\* put moves on by the two entries written, unless it reaches get.
LEMMA Advanced ==
  ASSUME TypeOK, put % 2 = 0, Advance(After(put, 2))
  PROVE  /\ put' \in Index /\ put' % 2 = 0 /\ (lapped => lapped')
         /\ ~lapped' => /\ ~lapped /\ Dist(put, get) \in Nat /\ Dist(put, get) + 2 <= Entries
                        /\ Dist(put', get) = Dist(put, get) + 2
                        /\ \A e \in Index : Dist(e, get) < Dist(put', get) =>
                             e \in {put, After(put, 1)} \/ Dist(e, get) < Dist(put, get)
<1>1. put \in Index /\ get \in Index /\ After(put, 1) \in Index /\ put' \in Index /\ put' % 2 = 0
  BY PutEntries, RingTypes DEF Advance
<1>2. Dist(put, get) \in Nat /\ Entries \in Nat /\ Entries >= 4
  BY <1>1, Distances, EntriesAssumption
<1>3. Dist(put', put) = 2
  <2>1. Dist(put, put) = 0
    BY <1>1, Distances
  <2> QED
    BY <1>1, <1>2, <2>1, DistAfter DEF Advance
<1>4. lapped' = (lapped \/ Dist(put, get) + 2 >= Entries)
  BY <1>3 DEF Advance, Unfetched, Dist
<1>7. ~lapped' => ~lapped /\ ~(Dist(put, get) + 2 >= Entries)
  BY <1>4, Zenon
<1>5. ASSUME ~lapped'
      PROVE  /\ Dist(put', get) = Dist(put, get) + 2
             /\ \A e \in Index : Dist(e, get) < Dist(put', get) =>
                  e \in {put, After(put, 1)} \/ Dist(e, get) < Dist(put, get)
  <2>1. Dist(put, get) + 2 < Entries /\ Dist(put, get) + 1 < Entries
    BY <1>2, <1>5, <1>7
  <2>2. Dist(put', get) = Dist(put, get) + 2 /\ Dist(After(put, 1), get) = Dist(put, get) + 1
    BY <1>1, <2>1, DistAfter DEF Advance
  <2>3. ASSUME NEW e \in Index, Dist(e, get) < Dist(put, get) + 2, e # put, e # After(put, 1)
        PROVE  Dist(e, get) < Dist(put, get)
    <3>1. Dist(e, get) \in Nat /\ Dist(e, get) # Dist(put, get) /\ Dist(e, get) # Dist(After(put, 1), get)
      BY <1>1, <2>3, Distances
    <3> QED
      BY <1>2, <2>2, <2>3, <3>1
  <2> QED
    BY <2>2, <2>3
<1>6. ~lapped' => ~lapped /\ Dist(put, get) + 2 <= Entries
  BY <1>2, <1>7
<1> QED
  BY <1>1, <1>2, <1>4, <1>5, <1>6

\* Writing the two entries and advancing put adds this launch, and no other, to the
\* entries in flight.
LEMMA WriteEntriesKeeps ==
  ASSUME TypeOK, CallInv, PbInv, RingInv, WriteEntries PROVE RingInv'
<1> DEFINE q == After(put, 1)
<1>1. /\ UNCHANGED <<env, pb, userdPut, gpuPut, get, fetched, released, nextId>>
      /\ call.pc = "entries" /\ put % 2 = 0 /\ PairInv
  BY DEF WriteEntries, hostMem, gpuVars, RingInv, PairInv
<1>2. /\ gp' = [gp EXCEPT ![put] = "pb", ![q] = IF call.staged THEN "pb" ELSE "nop"]
      /\ Advance(After(put, 2)) /\ Goto("userd")
  BY <1>1, PutEntries DEF WriteEntries
<1>3. call'.pc = "userd" /\ call'.id = call.id /\ call'.staged = call.staged
  BY <1>2, RingTypes, GotoKeeps
<1>4. /\ gp'[put] = "pb" /\ gp'[q] = IF call.staged THEN "pb" ELSE "nop"
      /\ \A e \in Index : e # put /\ e # q => gp'[e] = gp[e]
  BY <1>1, <1>2, PutEntries, RingTypes
<1>5. /\ pb[put].id = call.id /\ IsCompute(put) /\ pb[put].op # "release"
      /\ pb[put].op = "pcas" => call.staged
      /\ gp'[q] = "pb" => /\ call.staged /\ pb[q].op = "release" /\ ~IsCompute(q)
                         /\ pb[q].id = call.id
  BY <1>1, <1>4 DEF PairInv, Written, IsCompute
<1>6. Pairs'
  <2> SUFFICES ASSUME NEW e \in Index, gp'[e] = "pb", pb[e].op = "release"
               PROVE  e % 2 = 1 /\ gp'[e - 1] = "pb" /\ IsCompute(e - 1) /\ pb[e - 1].id = pb[e].id
    BY <1>1 DEF Pairs, IsCompute
  <2>1. CASE e = q
    BY <1>1, <1>4, <1>5, <2>1, PutEntries
  <2>2. CASE e # q
    <3>1. e # put /\ gp[e] = "pb"
      BY <1>4, <1>5, <2>2
    <3>2. e % 2 = 1 /\ gp[e - 1] = "pb" /\ IsCompute(e - 1) /\ pb[e - 1].id = pb[e].id
      BY <2>2, <3>1, <1>1 DEF PairInv, Pairs
    <3> QED
      BY <1>1, <1>4, <2>2, <3>2, PutEntries
  <2> QED
    BY <2>1, <2>2
<1>7. put' % 2 = 0 /\ Written'
  BY <1>1, <1>2, <1>3, Advanced DEF Written
<1>8. ASSUME ~lapped' PROVE InOrder'
  <2>1. /\ InOrder /\ Dist(put, get) \in Nat /\ Dist(put, get) + 2 <= Entries
        /\ Dist(put', get) = Dist(put, get) + 2
        /\ \A e \in Index : Dist(e, get) < Dist(put', get) => e \in {put, q} \/ Dist(e, get) < Dist(put, get)
    BY <1>1, <1>2, <1>8, Advanced DEF RingInv
  <2>2. get # q
    BY <1>1, <2>1, WrittenNotFlying
  <2>3. \A e \in Flying' : e \in Flying \/ e = put \/ (e = q /\ gp'[q] = "pb")
    <3> SUFFICES ASSUME NEW e \in Flying' PROVE e \in Flying \/ e = put \/ (e = q /\ gp'[q] = "pb")
      OBVIOUS
    <3>1. e \in Index /\ gp'[e] = "pb" /\ Dist(e, get) < Dist(put', get)
      BY <1>1 DEF Flying
    <3>2. e \in {put, q} \/ Dist(e, get) < Dist(put, get)
      BY <2>1, <3>1
    <3>3. e # put /\ e # q => gp[e] = "pb"
      BY <1>4, <3>1
    <3> QED
      <4>1. CASE e = put
        BY <4>1
      <4>2. CASE e = q
        BY <3>1, <4>2
      <4>3. CASE e # put /\ e # q
        <5>1. gp[e] = "pb" /\ Dist(e, get) < Dist(put, get)
          BY <3>2, <3>3, <4>3
        <5> QED
          BY <3>1, <5>1 DEF Flying
      <4> QED
        BY <4>1, <4>2, <4>3
  <2>4. Behind'
    <3>1. Dist(userdPut, get) \in Nat /\ Dist(userdPut, get) <= Dist(put, get)
      BY <2>1, RingTypes, Distances DEF InOrder, Behind
    <3>2. Dist(userdPut, get) <= Dist(put', get)
      BY <2>1, <3>1
    <3> QED
      BY <1>1, <1>3, <2>1, <3>2 DEF InOrder, Behind
  <2>5. HalfFetched' /\ released' \subseteq fetched'
    BY <1>1, <1>4, <1>5, <2>1, <2>2, RingTypes DEF InOrder, HalfFetched
  <2>6. /\ call.staged => /\ call.id < nextId /\ call.id \notin fetched \cup released
                          /\ \A e \in Flying : pb[e].id # call.id
        /\ ~call.staged => call.id = 0
    BY <1>1, <2>1 DEF InOrder, KnownIds, FreshCall, Submitting
  <2>7. ~Submitting'
    BY <1>3 DEF Submitting
  <2>8. KnownIds'
    <3>1. call.id < nextId
      BY <2>6, RingTypes
    <3>2. \A e \in Flying' : pb[e].id < nextId
      BY <1>5, <2>1, <2>3, <3>1 DEF InOrder, KnownIds
    <3> QED
      BY <1>1, <1>3, <2>1, <2>7, <3>2 DEF InOrder, KnownIds
  <2>9. FreshEntries'
    <3>1. \A e \in Flying' : /\ pb[e].op = "release" => pb[e].id \notin released
                             /\ pb[e].op = "pcas" => pb[e].id \notin fetched
      BY <1>5, <2>1, <2>3, <2>6 DEF InOrder, FreshEntries, IsCompute
    <3>2. \A e \in Flying : /\ pb[e].op = "pcas" => pb[e].id # call.id
                            /\ pb[e].op = "release" /\ call.staged => pb[e].id # call.id
      <4>1. \A e \in Index : pb[e].op = "pcas" => pb[e].id # 0
        BY BoundAssumption DEF PbInv, Ids
      <4> QED
        BY <2>6, <4>1 DEF Flying
    <3>3. \A e, f \in Flying' : e # f =>
            /\ pb[e].op = "release" /\ pb[f].op = "release" => pb[e].id # pb[f].id
            /\ pb[e].op = "pcas" /\ IsCompute(f) => pb[e].id # pb[f].id
      <4> SUFFICES ASSUME NEW e \in Flying', NEW f \in Flying', e # f
                   PROVE  /\ pb[e].op = "release" /\ pb[f].op = "release" => pb[e].id # pb[f].id
                          /\ pb[e].op = "pcas" /\ IsCompute(f) => pb[e].id # pb[f].id
        OBVIOUS
      <4>1. CASE e \in Flying /\ f \in Flying
        BY <2>1, <4>1 DEF InOrder, FreshEntries
      <4>2. CASE e = put
        BY <1>5, <2>3, <2>6, <4>2
      <4>3. CASE (e = q /\ gp'[q] = "pb")
        BY <1>5, <2>3, <2>6, <4>3
      <4>4. CASE e \in Flying /\ (f = put \/ (f = q /\ gp'[q] = "pb"))
        BY <1>5, <3>2, <4>4
      <4> QED
        BY <2>3, <4>1, <4>2, <4>3, <4>4
    <3> QED
      BY <1>1, <3>1, <3>3 DEF FreshEntries, IsCompute
  <2>10. FreshCall'
    BY <2>7 DEF FreshCall
  <2> QED
    BY <2>4, <2>5, <2>8, <2>9, <2>10 DEF InOrder
<1> QED
  BY <1>6, <1>7, <1>8 DEF RingInv, PairInv

\* A NOP submission, or one that failed, adds no pushbuffer to the entries in flight.
LEMMA SubmitNoopKeeps ==
  ASSUME TypeOK, CallInv, RingInv, SubmitNoop PROVE RingInv'
<1> DEFINE q == After(put, 1)
<1>1. /\ UNCHANGED <<env, pb, userdPut, gpuPut, get, fetched, released, nextId>>
      /\ call.pc = "noop" /\ put % 2 = 0 /\ PairInv
  BY DEF SubmitNoop, gpuVars, RingInv, PairInv
<1>2. CASE Fail /\ UNCHANGED <<gp, put, lapped>>
  <2>1. call'.pc = "return" /\ call'.staged = call.staged /\ call'.id = call.id
    BY <1>2, RingTypes DEF Fail, CallType
  <2> QED
    BY <1>1, <1>2, <2>1, QuietKeeps DEF RingFrame, QuietCall
<1>3. CASE /\ gp' = [gp EXCEPT ![put] = "nop", ![q] = "nop"]
           /\ Advance(After(put, 2)) /\ Goto("userd")
  <2>1. call'.pc = "userd" /\ call'.id = call.id /\ call'.staged = call.staged
    BY <1>3, RingTypes, GotoKeeps
  <2>2. /\ gp'[put] = "nop" /\ gp'[q] = "nop"
        /\ \A e \in Index : e # put /\ e # q => gp'[e] = gp[e]
    BY <1>1, <1>3, PutEntries, RingTypes
  <2>3. Pairs'
    <3> SUFFICES ASSUME NEW e \in Index, gp'[e] = "pb", pb[e].op = "release"
                 PROVE  e % 2 = 1 /\ gp'[e - 1] = "pb" /\ IsCompute(e - 1) /\ pb[e - 1].id = pb[e].id
      BY <1>1 DEF Pairs, IsCompute
    <3>1. e # put /\ e # q /\ gp[e] = "pb"
      BY <2>2
    <3>2. e % 2 = 1 /\ gp[e - 1] = "pb" /\ IsCompute(e - 1) /\ pb[e - 1].id = pb[e].id
      BY <3>1, <1>1 DEF PairInv, Pairs
    <3> QED
      BY <1>1, <2>2, <3>1, <3>2, PutEntries
  <2>4. put' % 2 = 0 /\ Written'
    BY <1>1, <1>3, <2>1, Advanced DEF Written
  <2>5. ASSUME ~lapped' PROVE InOrder'
    <3>1. /\ InOrder /\ Dist(put, get) \in Nat /\ Dist(put', get) = Dist(put, get) + 2
          /\ \A e \in Index : Dist(e, get) < Dist(put', get) => e \in {put, q} \/ Dist(e, get) < Dist(put, get)
      BY <1>1, <1>3, <2>5, Advanced DEF RingInv
    <3>2. Flying' \subseteq Flying
      BY <1>1, <2>2, <3>1 DEF Flying
    <3>3. Behind'
      <4>1. Dist(userdPut, get) \in Nat /\ Dist(userdPut, get) <= Dist(put, get)
        BY <3>1, RingTypes, Distances DEF InOrder, Behind
      <4>2. Dist(userdPut, get) <= Dist(put', get)
        BY <3>1, <4>1
      <4> QED
        BY <1>1, <2>1, <3>1, <4>2 DEF InOrder, Behind
    <3>4. HalfFetched' /\ released' \subseteq fetched'
      BY <1>1, <2>2, <3>1, RingTypes DEF InOrder, HalfFetched
    <3>5. ~Submitting'
      BY <2>1 DEF Submitting
    <3>6. KnownIds' /\ FreshCall'
      BY <1>1, <2>1, <3>1, <3>2, <3>5 DEF InOrder, KnownIds, FreshCall
    <3>7. FreshEntries'
      BY <1>1, <3>1, <3>2 DEF InOrder, FreshEntries, IsCompute
    <3> QED
      BY <3>3, <3>4, <3>6, <3>7 DEF InOrder
  <2> QED
    BY <2>3, <2>4, <2>5 DEF RingInv, PairInv
<1> QED
  BY <1>2, <1>3 DEF SubmitNoop

-----------------------------------------------------------------------------
\* The ring starts empty, with put and get at its first entry.
LEMMA InitRing == Init => RingInv
<1> SUFFICES ASSUME Init PROVE RingInv
  OBVIOUS
<1>1. 0 \in Index /\ 0 % 2 = 0
  BY EntriesAssumption DEF Index
<1>2. Dist(0, 0) = 0 /\ Flying = {}
  <2>1. \A e \in Index : gp[e] # "pb"
    BY DEF Init
  <2> QED
    BY <1>1, <2>1, Distances DEF Flying
<1>3. PairInv
  BY <1>1 DEF Init, IdleCall, PairInv, Pairs, Written
<1>4. Behind /\ HalfFetched
  BY <1>1, <1>2 DEF Init, IdleCall, Behind, HalfFetched
<1>5. KnownIds /\ FreshEntries /\ FreshCall
  BY <1>2 DEF Init, IdleCall, KnownIds, FreshEntries, FreshCall, Submitting
<1> QED
  BY <1>3, <1>4, <1>5 DEF Init, RingInv, InOrder

\* Every step of the system keeps the invariant of the ring.
LEMMA RingStepKeeps ==
  ASSUME TypeOK, CallInv, PbInv, RingInv, [Next]_vars PROVE RingInv'
<1>1. CASE RingStep
  BY <1>1, RecordKeeps, WritePushbufferKeeps, WriteEntriesKeeps, SubmitNoopKeeps, GpPutKeeps, FetchKeeps DEF RingStep
<1>2. CASE ~RingStep
  BY <1>2, QuietSteps, QuietKeeps
<1> QED
  BY <1>1, <1>2

\* The invariant of the ring holds in every reachable state.
LEMMA RingInvariant == Spec => [](TypeOK /\ LaunchInv /\ RingInv)
<1>1. Init => TypeOK /\ LaunchInv /\ RingInv
  BY InitType, InitInv, InitRing
<1>2. TypeOK /\ LaunchInv /\ RingInv /\ [Next]_vars => (TypeOK /\ LaunchInv /\ RingInv)'
  BY TypeStep, CallStep, PbStep, CompStep, RingStepKeeps DEF LaunchInv
<1> QED
  BY <1>1, <1>2, PTL DEF Spec

(***************************************************************************)
(* Ring entries come in pairs at even positions, in every ring and through *)
(* every failure of a submission: put is always even, so the rounding of   *)
(* an odd put is never needed.                                             *)
(***************************************************************************)
THEOREM EntriesInPairs == Spec => []PairedEntries
<1>1. RingInv => PairedEntries
  BY DEF RingInv, PairInv, Pairs, IsCompute, PairedEntries
<1> QED
  BY <1>1, RingInvariant, PTL

(***************************************************************************)
(* HOST progress implies consumption: while put has not lapped get, the    *)
(* GPU executes the progress release of a launch only after the launch's   *)
(* compute pushbuffer, however launches, failures and fetches interleave.  *)
(***************************************************************************)
THEOREM ReleaseFollowsLaunch == Spec => []ReleasedAfterFetched
<1>1. RingInv => ReleasedAfterFetched
  BY DEF RingInv, InOrder, ReleasedAfterFetched
<1> QED
  BY <1>1, RingInvariant, PTL

(***************************************************************************)
(* While put has not lapped get, the GPU executes no pushbuffer a second   *)
(* time: every entry between get and put is of a launch of its own.        *)
(***************************************************************************)
THEOREM LaunchedOnce == Spec => NoReplay
<1>1. TypeOK /\ LaunchInv /\ RingInv /\ [Next]_vars =>
        [get' # get /\ ~lapped /\ gp[get] = "pb" =>
           /\ pb[get].op = "release" => pb[get].id \notin released
           /\ pb[get].op = "pcas"    => pb[get].id \notin fetched]_vars
  <2> SUFFICES ASSUME TypeOK, LaunchInv, RingInv, [Next]_vars, get' # get, ~lapped, gp[get] = "pb"
               PROVE  /\ pb[get].op = "release" => pb[get].id \notin released
                      /\ pb[get].op = "pcas"    => pb[get].id \notin fetched
    OBVIOUS
  <2>1. RingStep
    BY QuietSteps DEF LaunchInv, RingFrame
  <2>2. FetchStep
    BY <2>1 DEF RingStep, RecordLaunch, WritePushbuffer, WriteEntries, SubmitNoop, KickUserd, Observe, gpuVars
  <2>3. get \in Flying /\ InOrder
    BY <2>2, FetchEffect, FetchedIsFlying DEF RingInv
  <2> QED
    BY <2>3 DEF InOrder, FreshEntries
<1> QED
  BY <1>1, RingInvariant, PTL DEF Spec, NoReplay

-----------------------------------------------------------------------------
(***************************************************************************)
(* StrictSuccessRan made inductive: a QMD release in a completion record   *)
(* was written by a run, and with QMD_SUBMIT and STRICT_LAUNCH only a      *)
(* staged launch gets to the ring, and only a polled one returns 0.        *)
(***************************************************************************)
Asked == env["qmd"] /\ env["strict"] /\ ~env["stageOff"]
Ran(id) == id \in released /\ \E r \in runs : r.args = id
QmdReleases ==
  \A f \in Function : comp[f].qmd = 0 \/ \E r \in runs : r.args # 0 /\ comp[f].qmd = Payload(r.args)
StrictCall ==
  /\ call.via = "compute" => ~call.host /\ call.pc # "noop"
  /\ Asked /\ call.via = "compute" =>
       /\ call.pc \in {"pushbuffer", "entries", "userd", "doorbell", "poll"} => call.staged
       /\ call.pc = "return" /\ call.rc = 0 => Ran(call.id)
       /\ call.pc = "done" /\ call.ret = "success" => Ran(call.id)
StrictInv == QmdReleases /\ StrictCall

-----------------------------------------------------------------------------
\* Every step adds to the histories, and the environment is fixed.
LEMMA HistoriesGrow ==
  ASSUME [Next]_vars
  PROVE  env' = env /\ released \subseteq released' /\ runs \subseteq runs'
<1> QED
  BY NextCases DEF vars, gpuVars, Launch, LaunchOnHost, LaunchOnGpu, UnloadModule, Synchronize,
     ComputeInit, ClearCode, CopyCode, StageBuffers, RecordLaunch, WritePushbuffer, WriteEntries,
     SubmitNoop, KickUserd, KickDoorbell, PollDone, PollTimeout, Return,
     Observe, FetchStep, FetchNop, FetchObject, FetchPcas, FetchRelease, Fetching, RunQmd

\* A QMD release is written only by the run of a QMD, and cleared by the host.
LEMMA QmdReleasesStep ==
  ASSUME TypeOK, CallInv, PbInv, QmdReleases, [Next]_vars PROVE QmdReleases'
<1> SUFFICES ASSUME NEW f \in Function, comp'[f].qmd # 0
             PROVE  \E r \in runs' : r.args # 0 /\ comp'[f].qmd = Payload(r.args)
  BY DEF QmdReleases
<1>0. runs \subseteq runs' /\ comp \in [Function -> CompType]
  BY HistoriesGrow DEF TypeOK, SharedType
<1>1. CASE comp'[f].qmd = comp[f].qmd
  BY <1>0, <1>1 DEF QmdReleases
<1>2. ASSUME NEW q \in pending, RunQmd(q)
      PROVE  \E r \in runs' : r.args # 0 /\ comp'[f].qmd = Payload(r.args)
  <2>1. runs' = runs \cup {[id |-> q.id, args |-> qmd[q.fn], code |-> CodeReady(q.fn)]}
    BY <1>2 DEF RunQmd
  <2>2. CASE comp' = comp
    BY <1>1, <2>2
  <2>3. CASE qmd[q.fn] # 0 /\ comp' = [comp EXCEPT ![q.fn].qmd = Payload(qmd[q.fn])]
    <3>1. CASE f = q.fn
      <4>1. comp'[f].qmd = Payload(qmd[q.fn])
        BY <1>0, <2>3, <3>1 DEF CompType
      <4> DEFINE r == [id |-> q.id, args |-> qmd[q.fn], code |-> CodeReady(q.fn)]
      <4>2. r \in runs' /\ r.args # 0 /\ comp'[f].qmd = Payload(r.args)
        BY <2>1, <2>3, <4>1
      <4> QED
        BY <4>2
    <3>2. CASE f # q.fn
      BY <1>0, <1>1, <2>3, <3>2
    <3> QED
      BY <3>1, <3>2
  <2> QED
    BY <1>2, <2>2, <2>3 DEF RunQmd
<1>3. CASE StageBuffers \/ RecordLaunch \/ (\E m \in Module : UnloadModule(m))
  BY <1>0, <1>1, <1>3 DEF StageBuffers, RecordLaunch, UnloadModule, EmptyCompletion
<1>4. CASE PollDone \/ PollTimeout
  BY <1>0, <1>1, <1>4 DEF PollDone, PollTimeout, CompType
<1>5. CASE FetchRelease
  <2>1. get \in Index /\ pb[get].fn \in Function
    BY <1>5 DEF FetchRelease, Fetching, TypeOK, SharedType, GpuType, PbInv
  <2> QED
    BY <1>0, <1>1, <1>5, <2>1 DEF FetchRelease, CompType
<1>6. CASE UNCHANGED comp
  BY <1>1, <1>6
<1>7. \/ UNCHANGED comp \/ StageBuffers \/ RecordLaunch \/ PollDone \/ PollTimeout
      \/ (\E m \in Module : UnloadModule(m)) \/ FetchRelease \/ (\E q \in pending : RunQmd(q))
  BY NextCases DEF vars, stageMem, gpuVars, Launch, LaunchOnHost, LaunchOnGpu, Synchronize, ComputeInit,
       ClearCode, CopyCode, WritePushbuffer, WriteEntries, SubmitNoop, KickUserd, KickDoorbell, Return,
       Observe, FetchStep, FetchNop, FetchObject, FetchPcas
<1> QED
  BY <1>2, <1>3, <1>4, <1>5, <1>6, <1>7

\* A poll that finds the record done has seen both releases of its own launch.
LEMMA PolledRan ==
  ASSUME MaxId < Word, TypeOK, LaunchInv, QmdReleases, PollDone
  PROVE  /\ call.staged /\ call.id \in Ids /\ call.id \in released
         /\ env["qmd"] => Ran(call.id) /\ comp[call.fn].qmd # 0
<1> DEFINE c == comp[call.fn]
<1>1. /\ call.fn \in Function /\ call.staged /\ call.id \in Ids
      /\ c.id = call.id /\ c.status # "none"
  BY DEF PollDone, LaunchInv, CallInv, Free, AfterRecord
<1>2. c.expected = Payload(call.id) /\ c.host = Payload(call.id)
  BY <1>1 DEF PollDone, HostDone, LaunchInv, CompInv
<1>3. \A i \in Ids : i \in Nat /\ Payload(i) = i
  BY PayloadIsId, BoundAssumption DEF Ids
<1>4. call.id \in released
  <2>1. c.host # 0
    BY <1>1, <1>2, <1>3 DEF Ids
  <2>2. PICK id \in released : c.host = Payload(id)
    BY <1>1, <2>1 DEF LaunchInv, CompInv
  <2> QED
    BY <1>1, <1>2, <1>3, <2>2 DEF TypeOK, GpuType
<1>5. ASSUME env["qmd"] PROVE Ran(call.id) /\ c.qmd # 0
  <2>1. c.qmd = Payload(call.id)
    BY <1>2, <1>5 DEF PollDone, QmdDone
  <2>2. c.qmd # 0
    BY <1>1, <1>3, <2>1 DEF Ids
  <2>3. PICK r \in runs : r.args # 0 /\ c.qmd = Payload(r.args)
    BY <1>1, <2>2 DEF QmdReleases
  <2>4. r.args \in Ids
    BY <2>3, BoundAssumption DEF TypeOK, GpuType, QmdRun, IdsOr0, Ids
  <2>5. r.args = call.id
    BY <1>1, <1>3, <2>1, <2>3, <2>4
  <2> QED
    BY <1>4, <2>2, <2>5 DEF Ran
<1> QED
  BY <1>1, <1>4, <1>5

\* What a failed submission and a failed staging make of the call.
LEMMA FailedCall ==
  ASSUME call \in CallType, ComputeFailed
  PROVE  /\ env["qmd"] \/ env["strict"] => call'.pc = "return" /\ call'.rc = -1 /\ call'.via = call.via
         /\ ~(env["qmd"] \/ env["strict"]) => call'.pc = "noop" /\ call'.via = "noop"
         /\ call'.host = call.host /\ call'.staged = call.staged /\ call'.fn = call.fn /\ call'.id = call.id
BY DEF ComputeFailed, CallType

\* The next step of a call changes nothing else of it.
LEMMA GotoOnly ==
  ASSUME call \in CallType, NEW s, Goto(s)
  PROVE  /\ call'.pc = s /\ call'.fn = call.fn /\ call'.id = call.id /\ call'.staged = call.staged
         /\ call'.via = call.via /\ call'.host = call.host /\ call'.rc = call.rc /\ call'.ret = call.ret
BY DEF Goto, CallType

\* Every step keeps what is true of a strict call.
LEMMA StrictCallStep ==
  ASSUME MaxId < Word, TypeOK, LaunchInv, StrictInv, [Next]_vars PROVE StrictCall'
<1>0. /\ call \in CallType /\ env' = env /\ released \subseteq released' /\ runs \subseteq runs'
      /\ StrictCall /\ QmdReleases
  BY HistoriesGrow DEF TypeOK, HostType, StrictInv
<1>1. ASSUME NEW id, Ran(id) PROVE Ran(id)'
  BY <1>0, <1>1 DEF Ran
<1>2. CASE call' = call
  BY <1>0, <1>1, <1>2 DEF StrictCall, Asked
<1>3. ASSUME call'.via = call.via, call'.host = call.host, call'.staged = call.staged,
             call.pc \notin {"done", "noop"},
             \/ call'.pc \in {"compute", "clearCode", "copyCode", "buffers", "record"}
             \/ /\ call'.pc \in {"pushbuffer", "entries", "userd", "doorbell", "poll"}
                /\ Asked => call.pc \in {"pushbuffer", "entries", "userd", "doorbell"}
             \/ call'.pc = "return" /\ call'.rc # 0
      PROVE  StrictCall'
  BY <1>0, <1>3 DEF StrictCall, Asked
<1>4. ASSUME call'.via # "compute" PROVE StrictCall'
  BY <1>4 DEF StrictCall
<1>5. ASSUME ComputeFailed, call.pc \notin {"done", "noop"} PROVE StrictCall'
  <2>1. CASE env["qmd"] \/ env["strict"]
    BY <1>0, <1>3, <1>5, <2>1, FailedCall
  <2>2. CASE ~(env["qmd"] \/ env["strict"])
    BY <1>0, <1>4, <1>5, <2>2, FailedCall
  <2> QED
    BY <2>1, <2>2
<1>6. CASE \E f \in Function : Launch(f)
  <2>1. PICK f \in Function : Launch(f)
    BY <1>6
  <2>2. /\ NewCall(f).via = "none" /\ NewCall(f).host = FALSE
        /\ [NewCall(f) EXCEPT !.pc = "return", !.rc = -2].via = "none"
        /\ [NewCall(f) EXCEPT !.pc = "return", !.rc = -1].via = "none"
        /\ [NewCall(f) EXCEPT !.pc = "return", !.host = TRUE].via = "none"
        /\ [NewCall(f) EXCEPT !.pc = "noop", !.via = "noop"].via = "noop"
        /\ [NewCall(f) EXCEPT !.pc = "compute", !.via = "compute"].pc = "compute"
        /\ [NewCall(f) EXCEPT !.pc = "compute", !.via = "compute"].host = FALSE
    BY DEF NewCall, IdleCall
  <2>3. call'.via # "compute" \/ (call'.pc = "compute" /\ call'.host = FALSE)
    BY <2>1, <2>2 DEF Launch, LaunchOnHost, LaunchOnGpu
  <2> QED
    BY <2>3 DEF StrictCall
<1>7. CASE (\E m \in Module : UnloadModule(m)) \/ Synchronize
  <2>1. IdleCall.via = "none" /\ [IdleCall EXCEPT !.pc = "done", !.via = "sync", !.ret = "success"].via = "sync"
    BY DEF IdleCall
  <2>2. call'.via # "compute"
    BY <1>7, <2>1 DEF UnloadModule, Synchronize
  <2> QED
    BY <1>4, <2>2
<1>8. CASE ComputeInit
  <2>1. call.pc = "compute"
    BY <1>8 DEF ComputeInit
  <2>2. ComputeFailed \/ Goto("clearCode") \/ (~Asked /\ Goto("pushbuffer"))
    BY <1>8 DEF ComputeInit, Asked
  <2> QED
    BY <1>0, <1>3, <1>5, <2>1, <2>2, GotoOnly
<1>9. CASE ClearCode \/ CopyCode \/ StageBuffers
  <2>1. call.pc \in {"clearCode", "copyCode", "buffers"}
    BY <1>9 DEF ClearCode, CopyCode, StageBuffers
  <2>2. \/ ComputeFailed \/ (~Asked /\ Goto("pushbuffer"))
        \/ \E s \in {"copyCode", "buffers", "record"} : Goto(s)
    BY <1>9 DEF ClearCode, CopyCode, StageBuffers, StagingFailed, Asked
  <2> QED
    BY <1>0, <1>3, <1>5, <2>1, <2>2, GotoOnly
<1>10. CASE RecordLaunch
  <2>1. /\ call.pc = "record" /\ call'.pc = "pushbuffer" /\ call'.staged
        /\ call'.via = call.via /\ call'.host = call.host
    BY <1>0, <1>10 DEF RecordLaunch, CallType
  <2> QED
    BY <1>0, <2>1 DEF StrictCall
<1>11. CASE WritePushbuffer
  <2>1. call.pc = "pushbuffer" /\ (ComputeFailed \/ Goto("entries"))
    BY <1>11 DEF WritePushbuffer
  <2> QED
    BY <1>0, <1>3, <1>5, <2>1, GotoOnly
<1>12. CASE WriteEntries \/ KickUserd
  <2>1. call.pc \in {"entries", "userd"} /\ \E s \in {"userd", "doorbell"} : Goto(s)
    BY <1>12 DEF WriteEntries, KickUserd
  <2> QED
    BY <1>0, <1>3, <2>1, GotoOnly
<1>13. CASE SubmitNoop
  <2>1. call.pc = "noop" /\ (Fail \/ Goto("userd"))
    BY <1>13 DEF SubmitNoop
  <2>2. call'.via = call.via
    BY <1>0, <2>1, GotoOnly DEF Fail, CallType
  <2> QED
    BY <1>0, <1>4, <2>1, <2>2 DEF StrictCall
<1>14. CASE KickDoorbell
  <2>1. call.pc = "doorbell"
    BY <1>14 DEF KickDoorbell
  <2>2. CASE call.via # "compute"
    BY <1>0, <1>4, <1>14, <2>2, GotoOnly DEF KickDoorbell
  <2>3. CASE call.via = "compute" /\ Goto("poll")
    BY <1>0, <1>3, <2>1, <2>3, GotoOnly
  <2>4. CASE call.via = "compute" /\ Goto("return")
    <3>1. ~Asked
      BY <1>0, <1>14, <2>1, <2>4, GotoOnly DEF KickDoorbell, StrictCall, MustWait, Asked
    <3> QED
      BY <1>0, <2>1, <2>4, <3>1, GotoOnly DEF StrictCall, Asked
  <2> QED
    BY <1>14, <2>2, <2>3, <2>4 DEF KickDoorbell
<1>15. CASE PollDone
  <2>1. call.pc = "poll" /\ Goto("return")
    BY <1>15 DEF PollDone
  <2>2. Asked => call.id \in released' /\ \E r \in runs' : r.args = call.id
    BY <1>0, <1>15, PolledRan DEF Asked, Ran
  <2> QED
    BY <1>0, <2>1, <2>2, GotoOnly DEF StrictCall, Asked, Ran
<1>16. CASE PollTimeout
  BY <1>5, <1>16 DEF PollTimeout
<1>17. CASE Return
  <2>1. /\ call.pc = "return" /\ call'.pc = "done" /\ call'.ret = LaunchResult /\ call'.via = call.via
        /\ call'.host = call.host /\ call'.id = call.id /\ call.rc \in {0, -1, -2}
    BY <1>0, <1>17 DEF Return, CallType
  <2>2. ASSUME Asked, call.via = "compute", LaunchResult = "success" PROVE call.rc = 0
    <3>1. ~call.host /\ env["strict"]
      BY <1>0, <2>2 DEF StrictCall, Asked
    <3> QED
      BY <2>1, <2>2, <3>1 DEF LaunchResult
  <2> QED
    BY <1>0, <1>1, <2>1, <2>2 DEF StrictCall, Asked, Ran
<1>18. CASE Observe \/ FetchStep \/ (\E q \in pending : RunQmd(q))
  BY <1>2, <1>18, GpuStepFrame DEF LaunchInv
<1>19. CASE UNCHANGED vars
  BY <1>2, <1>19 DEF vars
<1> QED
  BY <1>6, <1>7, <1>8, <1>9, <1>10, <1>11, <1>12, <1>13, <1>14, <1>15, <1>16, <1>17, <1>18, <1>19, NextCases

(***************************************************************************)
(* With QMD_SUBMIT and STRICT_LAUNCH, and staging not switched off, a      *)
(* launch that reports success on the GPU path has had its progress        *)
(* release executed and a QMD with its arguments run, for fewer launches   *)
(* than a 32-bit payload has values.                                       *)
(***************************************************************************)
THEOREM StrictSuccessMeansRun == MaxId < Word => (Spec => []StrictSuccessRan)
<1> SUFFICES ASSUME MaxId < Word PROVE Spec => []StrictSuccessRan
  OBVIOUS
<1>1. Init => StrictInv
  BY DEF Init, StrictInv, QmdReleases, EmptyCompletion, StrictCall, IdleCall
<1>2. TypeOK /\ LaunchInv /\ StrictInv /\ [Next]_vars => StrictInv'
  BY QmdReleasesStep, StrictCallStep DEF StrictInv, LaunchInv
<1>3. StrictInv => StrictSuccessRan
  BY DEF StrictInv, StrictCall, StrictSuccessRan, Asked, Ran
<1> QED
  BY <1>1, <1>2, <1>3, TypeCorrect, PTL DEF Spec

-----------------------------------------------------------------------------
(***************************************************************************)
(* What the staging memory of the call in progress holds once it is        *)
(* filled, by which path the call came, and whose pushbuffers are being    *)
(* entered into the ring.                                                  *)
(***************************************************************************)
StagedInv ==
  /\ call.pc \in {"buffers", "record"} => CodeReady(call.fn)
  /\ call.pc = "record" => bufs[call.fn] = Buffers
  /\ call.staged /\ call.pc \in AfterRecord =>
       CodeReady(call.fn) /\ bufs[call.fn] = Buffers /\ qmd[call.fn] = call.id
PathInv ==
  /\ call.pc \in BeforeRecord \cup {"pushbuffer", "entries", "poll"} => call.via = "compute"
  /\ call.pc = "entries" =>
       pb[put].fn = call.fn /\ (call.staged => pb[After(put, 1)].fn = call.fn)
PcasAsked == \A e \in Index : pb[e].op = "pcas" => env["qmd"]

\* A step that moves the call on and leaves staging alone.
StagedFrame ==
  /\ UNCHANGED <<code, bufs, qmd>>
  /\ call'.pc \notin {"buffers", "record"}
  /\ call'.staged /\ call'.pc \in AfterRecord =>
       /\ call.staged /\ call.pc \in AfterRecord
       /\ call'.fn = call.fn /\ call'.id = call.id

\* Such a step keeps what the staging memory holds.
LEMMA StagedFrameKeeps == ASSUME StagedInv, StagedFrame PROVE StagedInv'
BY DEF StagedInv, StagedFrame, CodeReady, AfterRecord

\* Every step keeps what the staging memory holds.
LEMMA StagedStep ==
  ASSUME TypeOK, LaunchInv, StagedInv, [Next]_vars PROVE StagedInv'
<1>0. /\ call \in CallType /\ code \in [Module -> CodeType] /\ bufs \in [Function -> SUBSET Buffers]
      /\ qmd \in [Function -> IdsOr0] /\ CallInv
  BY DEF TypeOK, HostType, SharedType, LaunchInv
<1>1. ASSUME UNCHANGED <<code, bufs, qmd, call>> PROVE StagedInv'
  BY <1>1 DEF StagedInv, CodeReady
<1>2. CASE (\E f \in Function : Launch(f)) \/ (\E m \in Module : UnloadModule(m)) \/ Synchronize
  <2>1. CASE \E f \in Function : Launch(f)
    <3>1. call'.staged = FALSE /\ call'.pc \in {"return", "noop", "compute"} /\ UNCHANGED <<code, bufs, qmd>>
      BY <2>1 DEF Launch, LaunchOnHost, LaunchOnGpu, NewCall, IdleCall, stageMem
    <3> QED
      BY <3>1, StagedFrameKeeps DEF StagedFrame
  <2>2. CASE \E m \in Module : UnloadModule(m)
    <3>1. call'.pc = "idle"
      BY <2>2 DEF UnloadModule, IdleCall
    <3> QED
      BY <3>1 DEF StagedInv, AfterRecord
  <2>3. CASE Synchronize
    <3>1. call'.pc = "done"
      BY <2>3 DEF Synchronize, IdleCall
    <3> QED
      BY <3>1 DEF StagedInv, AfterRecord
  <2> QED
    BY <1>2, <2>1, <2>2, <2>3
<1>3. CASE ComputeInit \/ ClearCode
  <2>1. ~call.staged
    BY <1>0, <1>3 DEF ComputeInit, ClearCode, CallInv, BeforeRecord
  <2>2. call'.staged = call.staged /\ call'.pc \notin {"buffers", "record"}
    BY <1>0, <1>3, ComputeFailedKeeps, StagingFailedKeeps, GotoKeeps DEF ComputeInit, ClearCode
  <2> QED
    BY <2>1, <2>2 DEF StagedInv
<1>4. CASE CopyCode
  <2>1. call.fn \in Function /\ ModuleOf[call.fn] \in Module /\ ~call.staged
    BY <1>0, <1>4, FunctionAssumption DEF CopyCode, CallInv, BeforeRecord, Free
  <2>2. call'.pc = "buffers" /\ call'.fn = call.fn /\ call'.staged = call.staged
    BY <1>0, <1>4, GotoKeeps DEF CopyCode
  <2>3. CodeReady(call.fn)'
    BY <1>0, <1>4, <2>1, <2>2 DEF CopyCode, CodeReady
  <2> QED
    BY <2>1, <2>2, <2>3 DEF StagedInv, CodeReady
<1>5. CASE StageBuffers
  <2>1. call.pc = "buffers" /\ call.fn \in Function /\ ~call.staged /\ code' = code
    BY <1>0, <1>5 DEF StageBuffers, CallInv, BeforeRecord, Free
  <2>2. CASE bufs' = [bufs EXCEPT ![call.fn] = Buffers] /\ Goto("record")
    <3>1. call'.pc = "record" /\ call'.fn = call.fn /\ call'.staged = call.staged
      BY <1>0, <2>2, GotoKeeps
    <3>2. bufs'[call.fn] = Buffers
      BY <1>0, <2>1, <2>2
    <3> QED
      BY <2>1, <3>1, <3>2 DEF StagedInv, CodeReady
  <2>3. CASE StagingFailed
    <3>1. call'.staged = call.staged /\ call'.pc \notin {"buffers", "record"}
      BY <1>0, <2>3, StagingFailedKeeps
    <3> QED
      BY <2>1, <3>1 DEF StagedInv
  <2> QED
    BY <1>5, <2>2, <2>3 DEF StageBuffers
<1>6. CASE RecordLaunch
  <2>1. /\ call.pc = "record" /\ call.fn \in Function
        /\ call'.pc = "pushbuffer" /\ call'.fn = call.fn /\ call'.id = nextId
    BY <1>0, <1>6 DEF RecordLaunch, CallInv, Free, CallType
  <2>2. qmd'[call.fn] = nextId /\ UNCHANGED <<code, bufs>>
    BY <1>0, <1>6, <2>1 DEF RecordLaunch
  <2> QED
    BY <2>1, <2>2 DEF StagedInv, CodeReady
<1>7. CASE WritePushbuffer \/ WriteEntries \/ SubmitNoop \/ KickUserd \/ KickDoorbell \/ PollDone \/ PollTimeout
  <2>1. call.pc \in AfterRecord /\ UNCHANGED <<code, bufs, qmd>>
    BY <1>7 DEF WritePushbuffer, WriteEntries, SubmitNoop, KickUserd, KickDoorbell, PollDone, PollTimeout,
                AfterRecord, stageMem
  <2>2. \/ ComputeFailed \/ Fail
        \/ \E s \in {"entries", "userd", "doorbell", "poll", "return"} : Goto(s)
    BY <1>7 DEF WritePushbuffer, WriteEntries, SubmitNoop, KickUserd, KickDoorbell, PollDone, PollTimeout
  <2>3. /\ call'.fn = call.fn /\ call'.id = call.id /\ call'.staged = call.staged
        /\ call'.pc \notin {"buffers", "record"}
    <3>1. CASE Fail
      BY <1>0, <3>1 DEF Fail, CallType
    <3>2. CASE ComputeFailed
      BY <1>0, <3>2, ComputeFailedKeeps
    <3>3. CASE \E s \in {"entries", "userd", "doorbell", "poll", "return"} : Goto(s)
      BY <1>0, <3>3, GotoKeeps
    <3> QED
      BY <2>2, <3>1, <3>2, <3>3
  <2> QED
    BY <2>1, <2>3, StagedFrameKeeps DEF StagedFrame
<1>8. CASE Return
  <2>1. call'.pc = "done"
    BY <1>0, <1>8 DEF Return, CallType
  <2> QED
    BY <2>1 DEF StagedInv, AfterRecord
<1>9. CASE Observe \/ FetchStep \/ (\E q \in pending : RunQmd(q))
  <2>1. UNCHANGED <<code, bufs, qmd>>
    BY <1>9 DEF Observe, FetchStep, FetchNop, FetchObject, FetchPcas, FetchRelease, Fetching, RunQmd, stageMem
  <2> QED
    BY <1>1, <1>9, <2>1, GpuStepFrame DEF LaunchInv
<1>10. CASE UNCHANGED vars
  BY <1>1, <1>10 DEF vars, stageMem
<1> QED
  BY <1>2, <1>3, <1>4, <1>5, <1>6, <1>7, <1>8, <1>9, <1>10, NextCases

\* Every step keeps the paths of calls.
LEMMA PathStep ==
  ASSUME TypeOK, LaunchInv, RingInv, StrictCall, PathInv, [Next]_vars PROVE PathInv'
<1>0. call \in CallType /\ pb \in [Index -> PbType] /\ put % 2 = 0
  BY DEF TypeOK, HostType, SharedType, RingInv, PairInv
<1>1. ASSUME call'.via = call.via, call'.pc # "entries",
             call'.pc \in BeforeRecord \cup {"pushbuffer", "poll"} =>
               call.via = "compute"
      PROVE  PathInv'
  BY <1>1 DEF PathInv
<1>2. ASSUME UNCHANGED <<call, pb, put>> PROVE PathInv'
  BY <1>2 DEF PathInv
<1>3. ASSUME call'.pc \in {"idle", "done", "return", "noop", "userd", "doorbell"} PROVE PathInv'
  BY <1>3 DEF PathInv, BeforeRecord
<1>4. ASSUME ComputeFailed PROVE PathInv'
  BY <1>0, <1>3, <1>4, ComputeFailedKeeps
<1>5. CASE \E f \in Function : Launch(f)
  <2>1. PICK f \in Function : Launch(f)
    BY <1>5
  <2>2. \/ call'.pc \in {"return", "noop"}
        \/ call' = [NewCall(f) EXCEPT !.pc = "compute", !.via = "compute"]
    BY <2>1 DEF Launch, LaunchOnHost, LaunchOnGpu, NewCall, IdleCall
  <2>3. [NewCall(f) EXCEPT !.pc = "compute", !.via = "compute"].pc = "compute"
        /\ [NewCall(f) EXCEPT !.pc = "compute", !.via = "compute"].via = "compute"
    BY DEF NewCall, IdleCall
  <2> QED
    BY <1>3, <2>2, <2>3 DEF PathInv
<1>6. CASE (\E m \in Module : UnloadModule(m)) \/ Synchronize \/ Return
  <2>1. call'.pc \in {"idle", "done"}
    <3>1. CASE \E m \in Module : UnloadModule(m)
      BY <3>1 DEF UnloadModule, IdleCall
    <3>2. CASE Synchronize \/ Return
      BY <1>0, <3>2 DEF Synchronize, Return, IdleCall, CallType
    <3> QED
      BY <1>6, <3>1, <3>2
  <2> QED
    BY <1>3, <2>1
<1>7. CASE ComputeInit \/ ClearCode \/ CopyCode \/ StageBuffers
  <2>1. call.via = "compute"
    BY <1>7 DEF ComputeInit, ClearCode, CopyCode, StageBuffers, PathInv, BeforeRecord
  <2>2. ComputeFailed \/ \E s \in {"pushbuffer", "clearCode", "copyCode", "buffers", "record"} : Goto(s)
    BY <1>7 DEF ComputeInit, ClearCode, CopyCode, StageBuffers, StagingFailed
  <2> QED
    BY <1>0, <1>1, <1>4, <2>1, <2>2, GotoOnly
<1>8. CASE RecordLaunch
  <2>1. call.via = "compute" /\ call'.via = call.via /\ call'.pc = "pushbuffer"
    BY <1>0, <1>8 DEF RecordLaunch, PathInv, BeforeRecord, CallType
  <2> QED
    BY <1>1, <2>1
<1>9. CASE WritePushbuffer
  <2>1. call.via = "compute" /\ put' = put
    BY <1>9 DEF WritePushbuffer, PathInv, hostMem
  <2>2. CASE /\ pb' = [pb EXCEPT ![put] = ComputePb,
                                 ![After(put, 1)] = IF call.staged THEN ReleasePb ELSE NoPb]
             /\ Goto("entries")
    <3>1. /\ pb'[put] = ComputePb
          /\ pb'[After(put, 1)] = IF call.staged THEN ReleasePb ELSE NoPb
      BY <1>0, <2>2, PutEntries
    <3> QED
      BY <1>0, <2>1, <2>2, <3>1, GotoOnly DEF PathInv, ComputePb, ReleasePb
  <2>3. ComputeEntry = put
    BY <1>0, PutEntries
  <2> QED
    BY <1>4, <1>9, <2>2, <2>3 DEF WritePushbuffer
<1>10. CASE WriteEntries \/ SubmitNoop \/ KickUserd \/ PollDone
  <2>1. Fail \/ \E s \in {"userd", "doorbell", "return"} : Goto(s)
    BY <1>10 DEF WriteEntries, SubmitNoop, KickUserd, PollDone
  <2>2. call'.pc \in {"userd", "doorbell", "return"}
    BY <1>0, <2>1, GotoOnly, ZenonT(60) DEF Fail, CallType
  <2> QED
    BY <1>3, <2>2
<1>11. CASE KickDoorbell
  <2>1. Goto("return") \/ (call.via = "compute" /\ Goto("poll"))
    BY <1>11 DEF KickDoorbell
  <2> QED
    BY <1>0, <1>1, <1>3, <2>1, GotoOnly
<1>12. CASE PollTimeout
  BY <1>4, <1>12 DEF PollTimeout
<1>13. CASE Observe \/ FetchStep \/ (\E q \in pending : RunQmd(q))
  BY <1>2, <1>13 DEF Observe, FetchStep, FetchNop, FetchObject, FetchPcas, FetchRelease, Fetching, RunQmd,
                     hostMem, ringMem
<1>14. CASE UNCHANGED vars
  BY <1>2, <1>14 DEF vars, hostMem, ringMem
<1> QED
  BY <1>5, <1>6, <1>7, <1>8, <1>9, <1>10, <1>11, <1>12, <1>13, <1>14, NextCases

\* Only a launch with QMD_SUBMIT makes a PCAS, and the environment is fixed.
LEMMA PcasStep == ASSUME TypeOK, PcasAsked, [Next]_vars PROVE PcasAsked'
<1>0. env' = env /\ pb \in [Index -> PbType]
  BY HistoriesGrow DEF TypeOK, SharedType
<1>1. CASE pb' = pb
  BY <1>0, <1>1 DEF PcasAsked
<1>2. CASE WritePushbuffer /\ pb' # pb
  <2>1. \A e \in Index : pb'[e] \in {pb[e], ComputePb, ReleasePb, NoPb}
    BY <1>0, <1>2 DEF WritePushbuffer
  <2>2. (ComputePb.op = "pcas" => env["qmd"]) /\ ReleasePb.op = "release" /\ NoPb.op = "none"
    BY DEF ComputePb, ReleasePb, NoPb
  <2> QED
    BY <1>0, <2>1, <2>2 DEF PcasAsked
<1> QED
  BY <1>1, <1>2, NextCases DEF vars, ringMem, Launch, LaunchOnHost, LaunchOnGpu, UnloadModule, Synchronize,
     ComputeInit, ClearCode, CopyCode, StageBuffers, RecordLaunch, WriteEntries,
     SubmitNoop, KickUserd, KickDoorbell, PollDone, PollTimeout, Return,
     Observe, FetchStep, FetchNop, FetchObject, FetchPcas, FetchRelease, Fetching, RunQmd

-----------------------------------------------------------------------------
(***************************************************************************)
(* QuietBeforeReuse and RunsOwnLaunch made inductive.  While every launch  *)
(* waits and none has timed out, what is in flight or pending is of the    *)
(* launch in progress, which is past its submission; once its QMD has      *)
(* released, nothing of it is left.                                        *)
(***************************************************************************)
Peace == MustWait /\ ~timedOut /\ ~lapped
Busy == call.via = "compute" /\ call.staged /\ call.pc \in {"userd", "doorbell", "poll"}
Mine(f, id) == Busy /\ f = call.fn /\ id = call.id
Staging(e) == pb[e].op \in {"pcas", "release"}

PendingMine == \A q \in pending : Mine(q.fn, q.id) /\ env["qmd"] /\ q.id \in fetched
FlyingMine  == \A e \in Flying : Staging(e) => Mine(pb[e].fn, pb[e].id)
NotYetRun ==
  /\ call.staged /\ call.pc \in {"pushbuffer", "entries"} => comp[call.fn].qmd = 0
  /\ Busy /\ comp[call.fn].qmd # 0 => pending = {} /\ call.id \in fetched
RanOwn == ~fault /\ \A r \in runs : r.args = r.id /\ r.code
QuietInv == Peace => PendingMine /\ FlyingMine /\ NotYetRun /\ RanOwn

UseInv == StrictInv /\ StagedInv /\ PathInv /\ PcasAsked

\* Peace ends for good.
LEMMA PeaceEnds == ASSUME [Next]_vars, Peace' PROVE Peace
<1>1. env' = env
  BY HistoriesGrow
<1>2. lapped => lapped'
  <2>1. CASE WritePushbuffer \/ WriteEntries \/ SubmitNoop
    <3>1. UNCHANGED lapped \/ \E b \in BOOLEAN : lapped' = (lapped \/ b)
      BY <2>1 DEF WritePushbuffer, WriteEntries, SubmitNoop, Advance
    <3> QED
      BY <3>1
  <2>2. WritePushbuffer \/ WriteEntries \/ SubmitNoop \/ UNCHANGED lapped
    BY NextCases DEF vars, histVars, Launch, LaunchOnHost, LaunchOnGpu, UnloadModule, Synchronize,
       ComputeInit, ClearCode, CopyCode, StageBuffers, RecordLaunch, KickUserd, KickDoorbell,
       PollDone, PollTimeout, Return,
       Observe, FetchStep, FetchNop, FetchObject, FetchPcas, FetchRelease, Fetching, RunQmd
  <2> QED
    BY <2>1, <2>2
<1>3. timedOut => timedOut'
  <2>1. timedOut' = TRUE \/ UNCHANGED timedOut
    BY NextCases DEF vars, histVars, Launch, LaunchOnHost, LaunchOnGpu, UnloadModule, Synchronize,
       ComputeInit, ClearCode, CopyCode, StageBuffers, RecordLaunch, WritePushbuffer, WriteEntries,
       SubmitNoop, KickUserd, KickDoorbell, PollDone, PollTimeout, Return,
       Observe, FetchStep, FetchNop, FetchObject, FetchPcas, FetchRelease, Fetching, RunQmd
  <2> QED
    BY <2>1
<1> QED
  BY <1>1, <1>2, <1>3 DEF Peace, MustWait

\* A step that leaves the ring's entries in flight and the GPU alone.
GpuStill ==
  /\ UNCHANGED <<pending, fetched, runs, fault>>
  /\ Flying' \subseteq Flying /\ \A e \in Flying : pb'[e] = pb[e]

\* Before a submission and after a completion nothing is in flight.
LEMMA IdleKeeps ==
  ASSUME QuietInv, Peace, GpuStill, ~Busy, ~Busy',
         call'.staged /\ call'.pc \in {"pushbuffer", "entries"} => comp'[call'.fn].qmd = 0
  PROVE  QuietInv'
<1>1. pending = {} /\ \A e \in Flying : ~Staging(e)
  BY DEF QuietInv, PendingMine, FlyingMine, Mine
<1>2. PendingMine' /\ FlyingMine'
  BY <1>1 DEF GpuStill, PendingMine, FlyingMine, Staging
<1>3. NotYetRun' /\ RanOwn'
  BY DEF GpuStill, NotYetRun, QuietInv, RanOwn
<1> QED
  BY <1>2, <1>3 DEF QuietInv

\* The call that waits moves on.
LEMMA BusyKeeps ==
  ASSUME QuietInv, Peace, GpuStill, Busy, Busy', env' = env,
         call'.fn = call.fn, call'.id = call.id, comp' = comp
  PROVE  QuietInv'
<1>1. PendingMine' /\ FlyingMine' /\ RanOwn'
  BY DEF QuietInv, GpuStill, PendingMine, FlyingMine, Staging, Mine, RanOwn
<1>2. NotYetRun'
  BY DEF QuietInv, GpuStill, NotYetRun, Busy
<1> QED
  BY <1>1, <1>2 DEF QuietInv

\* Entries in flight that do not change.
LEMMA FlyingSame ==
  ASSUME UNCHANGED <<gp, pb, put, get>> PROVE Flying' = Flying /\ \A e \in Flying : pb'[e] = pb[e]
BY DEF Flying

\* A call on its way to the ring is not busy, nor is one that has ended.
LEMMA QuietIdleStep ==
  ASSUME TypeOK, LaunchInv, RingInv, UseInv, QuietInv, Peace,
         \/ \E f \in Function : Launch(f)
         \/ \E m \in Module : UnloadModule(m)
         \/ Synchronize \/ Return
         \/ ComputeInit \/ ClearCode \/ CopyCode \/ StageBuffers \/ RecordLaunch
  PROVE  QuietInv'
<1>0. call \in CallType /\ CallInv /\ comp \in [Function -> CompType]
  BY DEF TypeOK, HostType, SharedType, LaunchInv
<1>1. /\ GpuStill
      /\ call.pc \in {"idle", "done", "return", "compute", "clearCode", "copyCode", "buffers", "record"}
  <2>1. UNCHANGED <<gp, pb, put, get, pending, fetched, runs, fault>>
    BY DEF Launch, LaunchOnHost, LaunchOnGpu, UnloadModule, Synchronize, Return, ComputeInit, ClearCode,
           CopyCode, StageBuffers, RecordLaunch, hostMem, ringMem, gpuVars
  <2> QED
    BY <2>1, FlyingSame DEF GpuStill, Launch, Free, UnloadModule, Synchronize, Return,
           ComputeInit, ClearCode, CopyCode, StageBuffers, RecordLaunch
<1>2. ~Busy
  BY <1>1 DEF Busy
<1>3. CASE RecordLaunch
  <2>1. call.fn \in Function /\ call'.fn = call.fn /\ call'.pc = "pushbuffer"
    BY <1>0, <1>3 DEF RecordLaunch, CallInv, Free, CallType
  <2>2. comp'[call.fn].qmd = 0
    BY <1>0, <1>3, <2>1 DEF RecordLaunch
  <2> QED
    BY <1>1, <1>2, <2>1, <2>2, IdleKeeps DEF Busy
<1>4. ASSUME \/ call'.staged = FALSE
             \/ call'.pc \notin {"pushbuffer", "entries", "userd", "doorbell", "poll"}
      PROVE  QuietInv'
  BY <1>1, <1>2, <1>4, IdleKeeps DEF Busy
<1>5. CASE \E f \in Function : Launch(f)
  <2>1. call'.staged = FALSE
    BY <1>5 DEF Launch, LaunchOnHost, LaunchOnGpu, NewCall, IdleCall
  <2> QED
    BY <1>4, <2>1
<1>6. CASE (\E m \in Module : UnloadModule(m)) \/ Synchronize \/ Return
  <2>1. call'.pc \in {"idle", "done"}
    <3>1. CASE \E m \in Module : UnloadModule(m)
      BY <3>1 DEF UnloadModule, IdleCall
    <3>2. CASE Synchronize \/ Return
      BY <1>0, <3>2 DEF Synchronize, Return, IdleCall, CallType
    <3> QED
      BY <1>6, <3>1, <3>2
  <2> QED
    BY <1>4, <2>1
<1>7. CASE ComputeInit \/ ClearCode \/ CopyCode \/ StageBuffers
  <2>1. ~call.staged /\ call.staged \in BOOLEAN
    BY <1>0, <1>7 DEF ComputeInit, ClearCode, CopyCode, StageBuffers, CallInv, BeforeRecord, CallType
  <2>2. call'.staged = call.staged
    BY <1>0, <1>7, ComputeFailedKeeps, StagingFailedKeeps, GotoKeeps
       DEF ComputeInit, ClearCode, CopyCode, StageBuffers
  <2> QED
    BY <1>4, <2>1, <2>2
<1> QED
  BY <1>3, <1>5, <1>6, <1>7

\* The pushbuffers at put are written; nothing is in flight yet.
LEMMA QuietWritePushbuffer ==
  ASSUME TypeOK, LaunchInv, RingInv, UseInv, QuietInv, Peace, Peace', WritePushbuffer
  PROVE  QuietInv'
<1>0. /\ call \in CallType /\ call.pc = "pushbuffer" /\ put % 2 = 0 /\ ComputeEntry = put
      /\ UNCHANGED <<gp, put, get, pending, fetched, runs, fault, comp>>
  BY PutEntries DEF WritePushbuffer, TypeOK, HostType, RingInv, PairInv, hostMem, stageMem, gpuVars
<1>1. ~Busy /\ (call.staged => comp[call.fn].qmd = 0)
  BY <1>0 DEF Busy, QuietInv, NotYetRun
<1>2. CASE ComputeFailed /\ pb' = pb
  <2>1. call'.pc \in {"return", "noop"} /\ GpuStill
    BY <1>0, <1>2, ComputeFailedKeeps, FlyingSame DEF GpuStill
  <2> QED
    BY <1>1, <2>1, IdleKeeps DEF Busy
<1>3. CASE /\ pb' = [pb EXCEPT ![put] = ComputePb,
                               ![After(put, 1)] = IF call.staged THEN ReleasePb ELSE NoPb]
           /\ lapped' = (lapped \/ Unfetched + 2 > Entries)
           /\ Goto("entries")
  <2>1. call'.pc = "entries" /\ call'.staged = call.staged /\ call'.fn = call.fn
    BY <1>0, <1>3, GotoOnly
  <2>2. Dist(put, get) + 2 <= Entries
    <3>1. ~(Unfetched + 2 > Entries)
      BY <1>3 DEF Peace
    <3>2. Unfetched = Dist(put, get)
      BY DEF Unfetched, Dist
    <3>3. Dist(put, get) \in Nat /\ Entries \in Nat
      BY RingTypes, Distances, EntriesAssumption
    <3> QED
      BY <3>1, <3>2, <3>3
  <2>3. \A e \in Flying : e \in Index /\ e # put /\ e # After(put, 1)
    BY <1>0, <2>2, WrittenNotFlying
  <2>4. GpuStill
    <3>1. Flying' = Flying
      BY <1>0 DEF Flying
    <3>2. \A e \in Flying : pb'[e] = pb[e]
      BY <1>3, <2>3, RingTypes
    <3> QED
      BY <1>0, <3>1, <3>2 DEF GpuStill
  <2> QED
    BY <1>0, <1>1, <2>1, <2>4, IdleKeeps DEF Busy
<1> QED
  BY <1>0, <1>2, <1>3 DEF WritePushbuffer

\* A submission puts the call's own entries in flight.
LEMMA QuietWriteEntries ==
  ASSUME TypeOK, LaunchInv, RingInv, UseInv, QuietInv, Peace, Peace', WriteEntries
  PROVE  QuietInv'
<1> DEFINE q == After(put, 1)
<1>0. /\ call \in CallType /\ call.pc = "entries" /\ put % 2 = 0
      /\ UNCHANGED <<env, pb, get, pending, fetched, runs, fault, comp>>
      /\ call.via = "compute" /\ Written
      /\ pb[put].fn = call.fn /\ (call.staged => pb[q].fn = call.fn)
  BY DEF WriteEntries, TypeOK, HostType, RingInv, PairInv, hostMem, stageMem, gpuVars, UseInv, PathInv
<1>1. /\ gp' = [gp EXCEPT ![put] = "pb", ![q] = IF call.staged THEN "pb" ELSE "nop"]
      /\ Advance(After(put, 2)) /\ Goto("userd")
  BY <1>0, PutEntries DEF WriteEntries
<1>2. /\ call'.pc = "userd" /\ call'.id = call.id /\ call'.staged = call.staged
      /\ call'.fn = call.fn /\ call'.via = call.via
  BY <1>0, <1>1, GotoOnly
<1>3. ~Busy /\ (call.staged => Busy' /\ comp[call.fn].qmd = 0)
  BY <1>0, <1>2 DEF Busy, QuietInv, NotYetRun
<1>4. pending = {} /\ \A e \in Flying : ~Staging(e)
  BY <1>3 DEF QuietInv, PendingMine, FlyingMine, Mine
<1>5. \A e \in Flying' : e \in Flying \/ e \in {put, q}
  <2> SUFFICES ASSUME NEW e \in Flying', e \notin {put, q} PROVE e \in Flying
    OBVIOUS
  <2>1. e \in Index /\ gp'[e] = "pb" /\ Dist(e, get) < Dist(put', get)
    BY <1>0 DEF Flying
  <2>2. Dist(e, get) < Dist(put, get)
    BY <1>0, <1>1, <2>1, Advanced DEF Peace
  <2>3. gp[e] = "pb"
    BY <1>1, <2>1, RingTypes
  <2> QED
    BY <2>1, <2>2, <2>3 DEF Flying
<1>6. /\ Staging(put) => call.staged
      /\ Staging(q) => call.staged
      /\ pb[put].id = call.id /\ (call.staged => pb[q].id = call.id)
  BY <1>0 DEF Written, Staging
<1>7. FlyingMine'
  BY <1>0, <1>2, <1>3, <1>4, <1>5, <1>6 DEF FlyingMine, Staging, Mine
<1>8. PendingMine' /\ RanOwn'
  BY <1>0, <1>4 DEF PendingMine, QuietInv, RanOwn
<1>9. NotYetRun'
  BY <1>0, <1>2, <1>3 DEF NotYetRun, Busy
<1> QED
  BY <1>7, <1>8, <1>9 DEF QuietInv

\* A NOP submission puts nothing in flight.
LEMMA QuietSubmitNoop ==
  ASSUME TypeOK, LaunchInv, RingInv, UseInv, QuietInv, Peace, Peace', SubmitNoop
  PROVE  QuietInv'
<1> DEFINE q == After(put, 1)
<1>0. /\ call \in CallType /\ call.pc = "noop" /\ put % 2 = 0 /\ call.via # "compute"
      /\ UNCHANGED <<pb, get, pending, fetched, runs, fault>>
  BY DEF SubmitNoop, TypeOK, HostType, RingInv, PairInv, gpuVars, UseInv, StrictInv, StrictCall
<1>1. CASE Fail /\ UNCHANGED <<gp, put, lapped>>
  <2>1. call'.pc = "return" /\ GpuStill
    BY <1>0, <1>1, FlyingSame DEF Fail, CallType, GpuStill
  <2> QED
    BY <1>0, <2>1, IdleKeeps DEF Busy
<1>2. CASE /\ gp' = [gp EXCEPT ![put] = "nop", ![q] = "nop"]
           /\ Advance(After(put, 2)) /\ Goto("userd")
  <2>1. call'.pc = "userd" /\ call'.via = call.via
    BY <1>0, <1>2, GotoOnly
  <2>2. Flying' \subseteq Flying
    <3> SUFFICES ASSUME NEW e \in Flying' PROVE e \in Flying
      OBVIOUS
    <3>1. e \in Index /\ gp'[e] = "pb" /\ Dist(e, get) < Dist(put', get)
      BY <1>0 DEF Flying
    <3>2. e # put /\ e # q /\ gp[e] = "pb"
      BY <1>0, <1>2, <3>1, PutEntries, RingTypes
    <3>3. Dist(e, get) < Dist(put, get)
      BY <1>0, <1>2, <3>1, <3>2, Advanced DEF Peace
    <3> QED
      BY <3>1, <3>2, <3>3 DEF Flying
  <2>3. GpuStill
    BY <1>0, <2>2 DEF GpuStill
  <2> QED
    BY <1>0, <2>1, <2>3, IdleKeeps DEF Busy
<1> QED
  BY <1>1, <1>2 DEF SubmitNoop

\* The kick-off and the wait for the completion.
LEMMA QuietKick ==
  ASSUME TypeOK, QuietInv, Peace, KickUserd \/ KickDoorbell, env' = env
  PROVE  QuietInv'
<1>0. call \in CallType /\ GpuStill /\ comp' = comp /\ call.pc \in {"userd", "doorbell"}
  <2>1. UNCHANGED <<gp, pb, put, get, pending, fetched, runs, fault, comp>>
    BY DEF KickUserd, KickDoorbell, hostMem, stageMem, gpuVars
  <2> QED
    BY <2>1, FlyingSame DEF KickUserd, KickDoorbell, GpuStill, TypeOK, HostType
<1>1. PICK s \in {"doorbell", "poll", "return"} :
        Goto(s) /\ (Busy => s # "return") /\ (s = "poll" => Busy)
  BY <1>0 DEF KickUserd, KickDoorbell, Busy, Peace
<1>2. /\ call'.pc = s /\ call'.via = call.via /\ call'.staged = call.staged
      /\ call'.fn = call.fn /\ call'.id = call.id
  BY <1>0, <1>1, GotoOnly
<1>3. Busy' <=> Busy
  BY <1>0, <1>1, <1>2 DEF Busy
<1> QED
  BY <1>0, <1>1, <1>2, <1>3, IdleKeeps, BusyKeeps

\* When the poll is done nothing of the launch is left, in the ring or to run.
LEMMA QuietPollDone ==
  ASSUME MaxId < Word, TypeOK, LaunchInv, RingInv, UseInv, QuietInv, Peace, PollDone
  PROVE  QuietInv'
<1>0. /\ call \in CallType /\ call.pc = "poll"
      /\ UNCHANGED <<gp, pb, put, get, pending, fetched, runs, fault>>
  BY DEF PollDone, TypeOK, HostType, hostMem, ringMem, gpuVars
<1>1. call'.pc = "return"
  BY <1>0, GotoOnly DEF PollDone
<1>2. /\ call.id \in released /\ call.id \in fetched
      /\ env["qmd"] => comp[call.fn].qmd # 0
      /\ call.staged /\ Busy
  BY <1>0, PolledRan DEF UseInv, StrictInv, RingInv, InOrder, Peace, PathInv, Busy
<1>3. pending = {}
  BY <1>2 DEF QuietInv, PendingMine, NotYetRun
<1>4. \A e \in Flying : ~Staging(e)
  BY <1>2 DEF QuietInv, FlyingMine, Staging, Mine, RingInv, InOrder, FreshEntries, Peace
<1>5. Flying' = Flying /\ \A e \in Flying : pb'[e] = pb[e]
  BY <1>0, FlyingSame
<1>6. PendingMine' /\ FlyingMine' /\ RanOwn'
  BY <1>0, <1>3, <1>4, <1>5 DEF PendingMine, FlyingMine, Staging, QuietInv, RanOwn
<1>7. NotYetRun'
  BY <1>1 DEF NotYetRun, Busy
<1> QED
  BY <1>6, <1>7 DEF QuietInv

\* A fetch takes an entry away from those in flight.
LEMMA FetchShortens ==
  ASSUME TypeOK, InOrder, FetchStep
  PROVE  Flying' \subseteq Flying /\ (gp[get] = "pb" => get \in Flying)
<1>1. /\ UNCHANGED <<gp, put>> /\ get # gpuPut /\ get' = After(get, 1)
  BY FetchEffect
<1>2. /\ Dist(put, get) > 0 /\ get # put /\ (gp[get] = "pb" => get \in Flying)
  BY <1>1, FetchedIsFlying
<1>3. /\ Dist(put, get') = Dist(put, get) - 1
      /\ Dist(put, get) \in Nat /\ Dist(put, get) < Entries /\ Entries \in Nat
  BY <1>1, <1>2, RingTypes, Distances, EntriesAssumption
<1>4. ASSUME NEW e \in Flying' PROVE e \in Flying
  <2>1. e \in Index /\ gp[e] = "pb" /\ Dist(e, get') < Dist(put, get) - 1
    BY <1>1, <1>3 DEF Flying
  <2>2. e # get
    <3>1. Dist(get, get') = Entries - 1
      BY <1>1, RingTypes, Distances
    <3> QED
      BY <1>3, <2>1, <3>1
  <2>3. Dist(e, get') = Dist(e, get) - 1 /\ Dist(e, get) \in Nat
    BY <1>1, <2>1, <2>2, RingTypes, Distances
  <2> QED
    BY <1>3, <2>1, <2>2, <2>3 DEF Flying
<1> QED
  BY <1>2, <1>4

\* What the GPU fetches of staging memory is of the call that waits, which holds it.
LEMMA QuietFetch ==
  ASSUME TypeOK, LaunchInv, RingInv, UseInv, QuietInv, Peace, FetchStep
  PROVE  QuietInv'
<1>0. /\ UNCHANGED <<env, call, pb, runs>> /\ InOrder
      /\ Flying' \subseteq Flying /\ (gp[get] = "pb" => get \in Flying)
      /\ gp[get] \in {"nop", "pb"} /\ get \in Index
  BY FetchEffect, FetchShortens, RingTypes
     DEF RingInv, Peace, FetchStep, FetchNop, FetchObject, FetchPcas, FetchRelease, Fetching
<1>1. FlyingMine' /\ (Busy' <=> Busy)
  BY <1>0 DEF QuietInv, FlyingMine, Staging, Mine, Busy
<1>2. fetched \subseteq fetched'
  BY DEF FetchStep, FetchNop, FetchObject, FetchPcas, FetchRelease
<1>3. comp'[call.fn].qmd = comp[call.fn].qmd
  <2>1. CASE FetchRelease
    <3>1. pb[get].fn \in Function /\ comp \in [Function -> CompType]
      BY <1>0, <2>1 DEF FetchRelease, Fetching, TypeOK, SharedType, LaunchInv, PbInv
    <3>2. CASE ~Busy
      <4>1. FALSE
        BY <1>0, <2>1, <3>2 DEF FetchRelease, Fetching, QuietInv, FlyingMine, Staging, Mine
      <4> QED
        BY <4>1
    <3>3. CASE Busy
      <4>1. call.fn \in Function
        BY <3>3 DEF Busy, LaunchInv, CallInv, Free
      <4> QED
        BY <2>1, <3>1, <4>1 DEF FetchRelease, CompType
    <3> QED
      BY <3>2, <3>3
  <2> QED
    BY <2>1 DEF FetchStep, FetchNop, FetchObject, FetchPcas
<1>4. CASE FetchNop \/ FetchObject
  <2>1. pending' = pending /\ fault' = fault
    BY <1>4 DEF FetchNop, FetchObject
  <2> QED
    BY <1>0, <1>1, <1>2, <1>3, <2>1 DEF QuietInv, PendingMine, Mine, NotYetRun, RanOwn
<1>5. CASE FetchPcas
  <2>1. /\ gp[get] = "pb" /\ pb[get].op = "pcas"
        /\ fetched' = fetched \cup {pb[get].id}
        /\ pending' = pending \cup {[fn |-> pb[get].fn, id |-> pb[get].id]}
        /\ fault' = fault
    BY <1>0, <1>5 DEF FetchPcas, Fetching
  <2>2. Mine(pb[get].fn, pb[get].id) /\ pb[get].id \notin fetched
    BY <1>0, <2>1 DEF QuietInv, FlyingMine, Staging, InOrder, FreshEntries
  <2>3. env["qmd"]
    BY <1>0, <2>1 DEF UseInv, PcasAsked
  <2>4. comp[call.fn].qmd = 0
    BY <2>2 DEF Mine, QuietInv, NotYetRun
  <2>5. PendingMine'
    BY <1>0, <1>1, <1>2, <2>1, <2>2, <2>3 DEF QuietInv, PendingMine, Mine
  <2>6. NotYetRun' /\ RanOwn'
    BY <1>0, <1>1, <1>3, <2>1, <2>2, <2>4 DEF QuietInv, NotYetRun, RanOwn, Mine
  <2> QED
    BY <1>1, <2>5, <2>6 DEF QuietInv
<1>6. CASE FetchRelease
  <2>1. /\ gp[get] = "pb" /\ pb[get].op = "release"
        /\ fault' = ("completion" \notin bufs[pb[get].fn])
        /\ pending' = pending /\ fetched' = fetched
    BY <1>0, <1>6 DEF FetchRelease, Fetching
  <2>2. Mine(pb[get].fn, pb[get].id)
    BY <1>0, <2>1 DEF QuietInv, FlyingMine, Staging
  <2>3. ~fault'
    BY <2>1, <2>2 DEF Mine, Busy, UseInv, StagedInv, AfterRecord, Buffers
  <2> QED
    BY <1>0, <1>1, <1>3, <2>1, <2>3 DEF QuietInv, PendingMine, Mine, NotYetRun, RanOwn
<1> QED
  BY <1>4, <1>5, <1>6 DEF FetchStep

\* The QMD that runs is the waiting call's, and there is one: staging is as the call left it.
LEMMA QuietRun ==
  ASSUME TypeOK, LaunchInv, UseInv, QuietInv, Peace, NEW q \in pending, RunQmd(q)
  PROVE  QuietInv'
<1>0. /\ UNCHANGED <<env, call, gp, pb, put, get, fetched>>
      /\ pending' = pending \ {q} /\ fault' = ~Mapped(q.fn)
      /\ runs' = runs \cup {[id |-> q.id, args |-> qmd[q.fn], code |-> CodeReady(q.fn)]}
  BY DEF RunQmd, hostMem, ringMem
<1>1. /\ Busy /\ q.fn = call.fn /\ q.id = call.id /\ call.id \in fetched
      /\ \A p \in pending : p.fn = call.fn /\ p.id = call.id
  BY DEF QuietInv, PendingMine, Mine
<1>2. pending' = {}
  <2>1. \A p \in pending : p = q
    BY <1>1 DEF TypeOK, GpuType, QmdRef
  <2> QED
    BY <1>0, <2>1
<1>3. CodeReady(call.fn) /\ bufs[call.fn] = Buffers /\ qmd[call.fn] = call.id
  BY <1>1 DEF Busy, UseInv, StagedInv, AfterRecord
<1>4. Mapped(call.fn)
  BY <1>3 DEF CodeReady, Mapped
<1>5. RanOwn'
  <2>1. fault' = FALSE
    BY <1>0, <1>1, <1>4
  <2>2. [id |-> q.id, args |-> qmd[q.fn], code |-> CodeReady(q.fn)] =
          [id |-> call.id, args |-> call.id, code |-> TRUE]
    BY <1>1, <1>3 DEF CodeReady
  <2>3. \A r \in runs' : r \in runs \/ (r.id = call.id /\ r.args = call.id /\ r.code = TRUE)
    BY <1>0, <2>2
  <2> QED
    BY <2>1, <2>3 DEF QuietInv, RanOwn
<1>6. FlyingMine' /\ PendingMine'
  BY <1>0, <1>2 DEF QuietInv, FlyingMine, PendingMine, Flying, Staging, Mine, Busy
<1>7. NotYetRun'
  BY <1>0, <1>1, <1>2 DEF NotYetRun, Busy
<1> QED
  BY <1>5, <1>6, <1>7 DEF QuietInv

\* The invariant of the staging memory's use is kept by every step.
LEMMA QuietStep ==
  ASSUME MaxId < Word, TypeOK, LaunchInv, RingInv, UseInv, QuietInv, [Next]_vars
  PROVE  QuietInv'
<1>1. CASE ~Peace'
  BY <1>1 DEF QuietInv
<1>2. CASE Peace'
  <2>1. Peace /\ env' = env
    BY <1>2, PeaceEnds, HistoriesGrow
  <2>2. CASE \E q \in pending : RunQmd(q)
    BY <2>1, <2>2, QuietRun
  <2>3. CASE Observe \/ UNCHANGED vars
    <3>1. UNCHANGED <<env, call, comp, gp, pb, put, get, pending, fetched, runs, fault>>
      BY <2>3 DEF Observe, vars, hostMem, ringMem, stageMem, gpuVars
    <3>2. GpuStill /\ Busy' = Busy
      BY <3>1, FlyingSame DEF GpuStill, Busy
    <3>3. call'.staged /\ call'.pc \in {"pushbuffer", "entries"} => comp'[call'.fn].qmd = 0
      BY <2>1, <3>1 DEF QuietInv, NotYetRun
    <3> QED
      BY <2>1, <3>1, <3>2, <3>3, IdleKeeps, BusyKeeps
  <2>4. CASE PollTimeout
    BY <1>2, <2>4 DEF PollTimeout, Peace
  <2> QED
    BY <1>2, <2>1, <2>2, <2>3, <2>4, NextCases, QuietIdleStep, QuietWritePushbuffer, QuietWriteEntries,
       QuietSubmitNoop, QuietKick, QuietPollDone, QuietFetch
<1> QED
  BY <1>1, <1>2

\* The invariant of the staging memory holds in every reachable state.
LEMMA UseInvariant ==
  MaxId < Word => (Spec => [](TypeOK /\ LaunchInv /\ RingInv /\ UseInv /\ QuietInv))
<1> SUFFICES ASSUME MaxId < Word PROVE Spec => [](TypeOK /\ LaunchInv /\ RingInv /\ UseInv /\ QuietInv)
  OBVIOUS
<1>1. Init => UseInv /\ QuietInv
  <2> SUFFICES ASSUME Init PROVE UseInv /\ QuietInv
    OBVIOUS
  <2>1. StrictInv
    BY DEF Init, StrictInv, QmdReleases, EmptyCompletion, StrictCall, IdleCall
  <2>2. StagedInv /\ PathInv /\ PcasAsked
    BY DEF Init, IdleCall, StagedInv, PathInv, BeforeRecord, PcasAsked, NoPb
  <2>3. PendingMine /\ RanOwn /\ FlyingMine
    BY DEF Init, PendingMine, RanOwn, FlyingMine, Flying
  <2>4. NotYetRun
    BY DEF Init, NotYetRun, IdleCall, Busy
  <2> QED
    BY <2>1, <2>2, <2>3, <2>4 DEF UseInv, QuietInv
<1>2. TypeOK /\ LaunchInv /\ RingInv /\ UseInv /\ QuietInv /\ [Next]_vars => (UseInv /\ QuietInv)'
  <2> SUFFICES ASSUME TypeOK, LaunchInv, RingInv, UseInv, QuietInv, [Next]_vars
               PROVE  (UseInv /\ QuietInv)'
    OBVIOUS
  <2>1. StrictInv'
    BY QmdReleasesStep, StrictCallStep DEF UseInv, StrictInv, LaunchInv
  <2>2. StagedInv' /\ PathInv' /\ PcasAsked'
    BY StagedStep, PathStep, PcasStep DEF UseInv, StrictInv
  <2> QED
    BY <2>1, <2>2, QuietStep DEF UseInv
<1> QED
  BY <1>1, <1>2, RingInvariant, PTL DEF Spec

(***************************************************************************)
(* While every launch waits for its completion and none has timed out, no  *)
(* launch restages and no unload unmaps staging memory that an unfetched   *)
(* entry or a pending QMD still names.                                     *)
(***************************************************************************)
THEOREM QuietMemoryReused == MaxId < Word => (Spec => []QuietBeforeReuse)
<1> SUFFICES ASSUME MaxId < Word PROVE Spec => []QuietBeforeReuse
  OBVIOUS
<1>1. QuietInv => QuietBeforeReuse
  <2> SUFFICES ASSUME QuietInv, Peace, NEW f \in Function, InUse(f)
               PROVE  call.fn = f /\ call.pc \in {"userd", "doorbell", "poll"}
    BY DEF QuietBeforeReuse, Peace
  <2>1. CASE \E q \in pending : q.fn = f
    BY <2>1 DEF QuietInv, PendingMine, Mine, Busy
  <2>2. CASE \E e \in Index : InFlight(e) /\ pb[e].op \in {"pcas", "release"} /\ pb[e].fn = f
    <3>1. PICK e \in Index : InFlight(e) /\ Staging(e) /\ pb[e].fn = f
      BY <2>2 DEF Staging
    <3>2. e \in Flying
      BY <3>1 DEF InFlight, Flying, Dist, Unfetched
    <3> QED
      BY <3>1, <3>2 DEF QuietInv, FlyingMine, Mine, Busy
  <2> QED
    BY <2>1, <2>2 DEF InUse
<1> QED
  BY <1>1, UseInvariant, PTL

(***************************************************************************)
(* Under the same conditions every QMD runs with the arguments and the     *)
(* code of the launch that submitted it, and the GPU never faults on       *)
(* staging memory.                                                         *)
(***************************************************************************)
THEOREM QmdsRunTheirLaunch == MaxId < Word => (Spec => []RunsOwnLaunch)
<1> SUFFICES ASSUME MaxId < Word PROVE Spec => []RunsOwnLaunch
  OBVIOUS
<1>1. QuietInv => RunsOwnLaunch
  BY DEF QuietInv, Peace, RanOwn, RunsOwnLaunch
<1> QED
  BY <1>1, UseInvariant, PTL
=============================================================================
