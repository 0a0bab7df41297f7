------------------------------ MODULE Encodings ------------------------------
(***************************************************************************)
(* The words libcuda writes for the GPU - methods, ring entries, the QMD - *)
(* and the parameters it captures for them.  A word, or a QMD, is the      *)
(* function from its bits to their values.  An address is a pair of its    *)
(* upper and its lower 32-bit half.                                        *)
(***************************************************************************)
EXTENDS Integers, Sequences, FiniteSetsExt, Powers

CONSTANTS
  Word,      \* bits of an rm_u32 (32)
  QmdWords,  \* LANXIN_HW_QMD_WORDS (64)
  WordBytes  \* sizeof(uintptr_t) (8)

\* Small enough for the fields to be whole words, large enough for their parts.
ASSUME WordAssumption ==
  Word \in 30..32 /\ QmdWords \in Nat /\ QmdWords >= 48 /\ WordBytes \in Nat \ {0}

MaxU32 == Pow2[Word] - 1
Zeros(bits) == [b \in 0..(bits - 1) |-> 0]

\* Bits lo to hi hold the lower bits of value, which has at most Word of them.
Store(w, lo, hi, value) ==
  [b \in DOMAIN w |->
     IF b \in lo..hi THEN IF b - lo < Word THEN (value \div Pow2[b - lo]) % 2 ELSE 0 ELSE w[b]]

\* Mutant: the last bit is left out.
SetBitsShort(qmd, lo, hi, value) ==
  IF hi < lo \/ hi >= QmdWords * 32 THEN qmd ELSE Store(qmd, lo, hi - 1, value)

\* rm_qmd_set_bits: bits outside the QMD change nothing.
SetBits(qmd, lo, hi, value) ==
  IF hi < lo \/ hi >= QmdWords * 32 THEN qmd ELSE Store(qmd, lo, hi, value)

-----------------------------------------------------------------------------
\* rm_push_method_header.
PushMethodHeader(subchannel, method, count, secOp) ==
  Store(Store(Store(Store(Zeros(32), 29, 31, secOp), 16, 28, count), 13, 15, subchannel),
        0, 11, method \div 4)

\* rm_write_gpfifo_entry: the address, a multiple of 4, and the length in words.
GpfifoEntry(va, bytes) ==
  [lower |-> Store(Zeros(32), 2, 31, va.lower \div 4),
   upper |-> Store(Store(Zeros(32), 0, 7, va.upper), 10, 30, bytes \div 4)]

-----------------------------------------------------------------------------
(***************************************************************************)
(* rm_build_hardware_qmd_locked.  A launch (q) gives the grid, the block   *)
(* and the dynamic shared memory; the metadata of the function (m) what    *)
(* was parsed; the environment may replace some of it (over); the staging  *)
(* buffers give addresses.                                                 *)
(***************************************************************************)
\* rm_qmd_u32_clamp.
Clamp(v, fallback) == IF v = 0 THEN fallback ELSE v

\* Mutant: it wraps.
SharedTotalWraps(q, m) == (q.shared + (IF m.valid THEN m.shared ELSE 0)) % Pow2[Word]

\* The sum saturates instead of wrapping.
SharedTotal(q, m) ==
  LET sum == (q.shared + (IF m.valid THEN m.shared ELSE 0)) % Pow2[Word]
  IN IF sum < q.shared THEN MaxU32 ELSE sum

\* rm_qmd_shared_mem_units: pieces of 256 bytes, at most what the field holds.
SharedUnits(bytes) ==
  LET units == (bytes + 255) \div 256 IN IF units > Pow2[18] - 1 THEN Pow2[18] - 1 ELSE units

Regs(m) == IF m.valid /\ m.regs # 0 THEN m.regs ELSE 32
Parsed(m, v) == IF m.valid THEN v ELSE 0
\* Code staged without its image begins with the function's section.
ProgramOffset(m) == IF m.textOnly THEN 0 ELSE Parsed(m, m.offset)
\* env_u32.
Override(over, field, v) == IF field \in DOMAIN over THEN over[field] ELSE v
PayloadOf(id) == IF id % Pow2[Word] = 0 THEN 1 ELSE id % Pow2[Word]

\* A range of bits and what is stored there.
F(lo, hi, value) == [lo |-> lo, hi |-> hi, value |-> value]

\* The fields in the order in which the code stores them: of the launch, ...
LaunchFields(q, m, over, pcas) ==
  << F(200, 200, 1), F(202, 202, 1), F(204, 204, IF pcas THEN 1 ELSE 0), F(250, 255, 63),
     F(256, 287, Override(over, "offset", ProgramOffset(m))),
     F(366, 366, 1), F(368, 369, 1), F(378, 378, 1),
     F(384, 415, Clamp(q.grid[1], 1)), F(416, 431, Clamp(q.grid[2], 1)),
     F(432, 447, Clamp(q.grid[3], 1)),
     F(448, 479, 0), F(480, 495, 0), F(496, 511, 0),
     F(544, 561, SharedUnits(SharedTotal(q, m))),
     F(576, 579, Override(over, "minor", q.minor) % 16),
     F(580, 583, Override(over, "major", q.major) % 16),
     F(592, 607, Clamp(q.block[1], 1)), F(608, 623, Clamp(q.block[2], 1)),
     F(624, 639, Clamp(q.block[3], 1)) >>
\* ... of its parameters, if there are any, ...
ParamFields(params) ==
  IF params.size = 0 \/ (params.va.upper = 0 /\ params.va.lower = 0) THEN <<>>
  ELSE << F(640, 640, 1), F(928, 959, params.va.lower), F(960, 967, params.va.upper % 256),
          F(974, 974, 1), F(975, 991, params.size) >>
\* ... of its completion and what it needs of the device.
ResourceFields(m, over, release, id) ==
  << F(736, 767, release.lower), F(768, 775, release.upper % 256),
     F(794, 794, 0), F(799, 799, 1), F(800, 831, PayloadOf(id)),
     F(1440, 1463, Override(over, "local", Parsed(m, m.local)) % Pow2[24]),
     F(1496, 1503, Override(over, "regs", Regs(m))),
     F(1528, 1535, Override(over, "sm", Parsed(m, m.sm))) >>
QmdFields(q, m, over, params, release, id, pcas) ==
  LaunchFields(q, m, over, pcas) \o ParamFields(params) \o ResourceFields(m, over, release, id)

BuildQmd(fields) ==
  LET qmd[n \in 0..Len(fields)] ==
        IF n = 0 THEN Zeros(QmdWords * 32)
        ELSE SetBits(qmd[n - 1], fields[n].lo, fields[n].hi, fields[n].value)
  IN qmd[Len(fields)]

-----------------------------------------------------------------------------
(***************************************************************************)
(* capture_launch_params: the buffer of the extra list if there is one,    *)
(* else the configured number of parameter pointers.                       *)
(***************************************************************************)
None == [kind |-> "none", bytes |-> 0]

\* The last value of a key wins; a size without a value is none.
LastOf(extra, key, none) ==
  LET of == {i \in DOMAIN extra : extra[i].key = key}
  IN IF of = {} THEN none ELSE extra[Max(of)].value

\* Mutant: the limit of the pointer array is not rounded down.
CaptureParamsUneven(extra, pointers, given, maxBytes) ==
  LET size == LastOf(extra, "size", 0)
      count == IF pointers > 256 THEN 256 ELSE pointers
      bytes == IF count * WordBytes > maxBytes THEN maxBytes ELSE count * WordBytes
  IN IF LastOf(extra, "buffer", FALSE) /\ size # 0
       THEN [kind |-> "buffer", bytes |-> IF size > maxBytes THEN maxBytes ELSE size]
     ELSE IF given /\ bytes # 0 THEN [kind |-> "pointers", bytes |-> bytes]
     ELSE None

CaptureParams(extra, pointers, given, maxBytes) ==
  LET size == LastOf(extra, "size", 0)
      count == IF pointers > 256 THEN 256 ELSE pointers
      whole == maxBytes - (maxBytes % WordBytes)
      bytes == IF count * WordBytes > maxBytes THEN whole ELSE count * WordBytes
  IN IF LastOf(extra, "buffer", FALSE) /\ size # 0
       THEN [kind |-> "buffer", bytes |-> IF size > maxBytes THEN maxBytes ELSE size]
     ELSE IF given /\ bytes # 0 THEN [kind |-> "pointers", bytes |-> bytes]
     ELSE None

=============================================================================
