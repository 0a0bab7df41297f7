----------------------------- MODULE HostKernels -----------------------------
(***************************************************************************)
(* The kernels libcuda runs on the host in place of the GPU, as operators: *)
(* the number formats they convert between, and which elements each reads  *)
(* and writes.  The products and sums of floating-point numbers are left   *)
(* out; a conversion works on the fields of the number's bits.             *)
(*                                                                         *)
(* A format has a sign, .exp bits of exponent and .mant bits of mantissa:  *)
(* binary32 is Format(8, 23), binary16 Format(5, 10), bfloat16 Format(8,7).*)
(* Smaller formats of the same shape go through the same code.             *)
(***************************************************************************)
EXTENDS Integers, Sequences, FiniteSets, Powers

CONSTANTS
  Bits,      \* integer type -> its width (8, 16, 32 or 64 in the code)
  DoubleMant \* significant bits of a double (53)

Format(e, m) == [exp |-> e, mant |-> m]
Top(f) == Pow2[f.exp] - 1            \* the exponent of infinities and NaNs
Bias(f) == Pow2[f.exp - 1] - 1
Number(s, e, m) == [sign |-> s, exp |-> e, mant |-> m]
Numbers(f) == [sign : {0, 1}, exp : 0..Top(f), mant : 0..(Pow2[f.mant] - 1)]
IsNan(x, f) == x.exp = Top(f) /\ x.mant # 0

\* Bits below the sign that carry: exponent and mantissa as one integer.
Packed(s, n, f) == Number(s, n \div Pow2[f.mant], n % Pow2[f.mant])

-----------------------------------------------------------------------------
(***************************************************************************)
(* lanxin_half_to_float and lanxin_float_to_half, from format h to f.      *)
(***************************************************************************)
HalfToFloat(x, h, f) ==
  LET widen == Pow2[f.mant - h.mant]
      rebias == Bias(f) - Bias(h)
      shift == CHOOSE k \in 0..h.mant : x.mant * Pow2[k] \in Pow2[h.mant]..(Pow2[h.mant + 1] - 1)
  IN CASE x.exp = 0 /\ x.mant = 0 -> Number(x.sign, 0, 0)
       [] x.exp = 0 /\ x.mant # 0 ->
            Number(x.sign, 1 - shift + rebias, ((x.mant * Pow2[shift]) % Pow2[h.mant]) * widen)
       [] x.exp = Top(h) -> Number(x.sign, Top(f), x.mant * widen)
       [] OTHER -> Number(x.sign, x.exp + rebias, x.mant * widen)

Infinity(s, f) == Number(s, Top(f), 0)

\* A result below the normal numbers: the shifted mantissa is rounded.
Denormal(x, e, f, h) ==
  LET mant == x.mant + Pow2[f.mant]
      drop == 1 - e + (f.mant - h.mant)
  IN Packed(x.sign, (mant \div Pow2[drop]) + ((mant \div Pow2[drop - 1]) % 2), h)

\* Mutant: the mantissa's carry does not reach the exponent.
FloatToHalfNoCarry(x, f, h) ==
  LET e == x.exp - Bias(f) + Bias(h)
      rounded == (x.mant + Pow2[f.mant - h.mant - 1]) % Pow2[f.mant]
  IN IF e <= 0 THEN IF e < -h.mant THEN Number(x.sign, 0, 0) ELSE Denormal(x, e, f, h)
     ELSE IF e >= Top(h) THEN Infinity(x.sign, h)
     ELSE Number(x.sign, e, rounded \div Pow2[f.mant - h.mant])

FloatToHalf(x, f, h) ==
  LET e == x.exp - Bias(f) + Bias(h)
      rounded == x.mant + Pow2[f.mant - h.mant - 1]
      carry == rounded >= Pow2[f.mant]
  IN IF e <= 0 THEN IF e < -h.mant THEN Number(x.sign, 0, 0) ELSE Denormal(x, e, f, h)
     ELSE IF e >= Top(h) \/ (carry /\ e + 1 >= Top(h)) THEN Infinity(x.sign, h)
     ELSE IF carry THEN Number(x.sign, e + 1, 0)
     ELSE Number(x.sign, e, rounded \div Pow2[f.mant - h.mant])

(***************************************************************************)
(* bfloat16: f and b share the exponent, b keeps the upper bits.           *)
(***************************************************************************)
Bfloat16ToFloat(x, b, f) == Number(x.sign, x.exp, x.mant * Pow2[f.mant - b.mant])

\* The bias makes ties even; a carry out of the exponent reaches the sign.
FloatToBfloat16(x, f, b) ==
  LET cut == f.mant - b.mant
      low == x.exp * Pow2[f.mant] + x.mant
      lsb == (low \div Pow2[cut]) % 2
      sum == (low + Pow2[cut - 1] - 1 + lsb) \div Pow2[cut]
      all == Pow2[b.exp + b.mant]
  IN Packed((x.sign + sum \div all) % 2, sum % all, b)

\* lanxin_round_to_i8 of q / 4: halves go away from 0, the rest to the nearest.
RoundToI8(q) ==
  LET away == IF q >= 0 THEN (q + 2) \div 4 ELSE -((2 - q) \div 4)
  IN IF away > 127 THEN 127 ELSE IF away < -128 THEN -128 ELSE away

-----------------------------------------------------------------------------
(***************************************************************************)
(* The direct copy between integer types.  An element is the unsigned      *)
(* value of its bytes.                                                     *)
(***************************************************************************)
Signed == {"char", "short", "int", "long"}
Unsigned == {"byte", "uint16", "uint32", "uint64"}
IntegralType == Signed \cup Unsigned \cup {"bool"}
Raw(t) == 0..(Pow2[Bits[t]] - 1)

\* A double holds each integer of fewer than DoubleMant bits, and int64_t is wider than that.
ASSUME WidthsAssumption ==
  /\ \A t \in IntegralType : Bits[t] \in Nat \ {0}
  /\ DoubleMant \in Nat /\ DoubleMant < Bits["long"] /\ Bits["uint64"] = Bits["long"]

AsSigned(n, w) == IF n >= Pow2[w - 1] THEN n - Pow2[w] ELSE n

\* The nearest double, ties to even, of a non-negative integer.
NearestDouble(n) ==
  LET k == CHOOSE j \in 0..Bits["uint64"] :
             n < Pow2[DoubleMant + j] /\ (j = 0 \/ n >= Pow2[DoubleMant + j - 1])
      up == 2 * (n % Pow2[k]) > Pow2[k] \/ (2 * (n % Pow2[k]) = Pow2[k] /\ (n \div Pow2[k]) % 2 = 1)
  IN (n \div Pow2[k] + IF up THEN 1 ELSE 0) * Pow2[k]

\* Mutant: a signed byte is read as an unsigned one.
ReadAsI64Plain(t, raw) ==
  CASE t \in Signed \ {"char"} -> {AsSigned(raw, Bits[t])}
    [] t = "bool" -> {IF raw # 0 THEN 1 ELSE 0}
    [] OTHER -> {raw}

\* torch_direct_read_scalar_as_i64.  uint64 has no case of its own and passes
\* through a double; one that is too large for int64_t is converted to either end.
ReadAsI64(t, raw) ==
  CASE t \in Signed -> {AsSigned(raw, Bits[t])}
    [] t = "bool" -> {IF raw # 0 THEN 1 ELSE 0}
    [] t \in Unsigned \ {"uint64"} -> {raw}
    [] OTHER ->
         LET n == NearestDouble(raw)
             limit == Pow2[Bits["long"] - 1]
         IN IF n < limit THEN {n} ELSE {-limit, limit - 1}

\* torch_direct_write_scalar_from_i64.
WriteFromI64(t, v) ==
  IF t = "bool" THEN IF v # 0 THEN 1 ELSE 0 ELSE v % Pow2[Bits[t]]

\* One element; equal types are moved as they are.
DirectCopy(from, to, raw) ==
  IF from = to THEN {raw} ELSE {WriteFromI64(to, v) : v \in ReadAsI64(from, raw)}

-----------------------------------------------------------------------------
(***************************************************************************)
(* What each kernel touches: a function from its loop variables to the     *)
(* element written (to) and the elements read (from).  n is the shape the  *)
(* launch passes, strides those of tensors without gaps.                   *)
(***************************************************************************)
Upto(n) == 0..(n - 1)
\* packed_mod_u32, packed_div_u32.
PackedMod(v, n) == IF n = 0 THEN 0 ELSE v % n
PackedDiv(v, n) == IF n = 0 THEN 0 ELSE v \div n
OneIfNone(n) == IF n = 0 THEN 1 ELSE n

\* Element of a tensor of n[1] x ... x n[4] elements, n[1] the innermost.
Element4(n, i) == ((i[4] * n[3] + i[3]) * n[2] + i[2]) * n[1] + i[1]

\* host_fallback_bin_bcast_locked: the second operand repeats in each direction.
BinBcast(n, m) ==
  [i \in Upto(n[1]) \X Upto(n[2]) \X Upto(n[3]) \X Upto(OneIfNone(n[4])) |->
     [to |-> Element4(n, i),
      from |-> <<Element4(n, i), Element4(m, [k \in 1..4 |-> PackedMod(i[k], m[k])])>>]]

\* host_fallback_rms_norm_locked: n is columns, then the grid.
RmsNorm(n, mul) ==
  [i \in Upto(n[1]) \X Upto(n[2]) \X Upto(n[3]) \X Upto(n[4]) |->
     [to |-> ((i[4] * n[3] + i[3]) * n[2] + i[2]) * n[1] + i[1],
      from |-> <<Element4(n, i), Element4(mul, [k \in 1..4 |-> PackedMod(i[k], mul[k])])>>]]

\* Mutant: the source's directions are taken in the order z counts them.
GetRowsAsCounted(ne00, i10s, ne11, ne12, rows, row) ==
  LET n12 == OneIfNone(ne12)
      At(i10, z) == i10 + (z \div n12) * i10s + (z % n12) * i10s * ne11
  IN [i \in Upto(ne00) \X Upto(i10s) \X Upto(ne11 * n12) |->
        [to |-> At(i[2], i[3]) * ne00 + i[1],
         from |-> <<(i[3] * rows + row[At(i[2], i[3])]) * ne00 + i[1]>>]]

\* host_fallback_get_rows_float_locked: row row[i10, i11, i12] of the source.
GetRows(ne00, i10s, ne11, ne12, rows, row) ==
  LET n12 == OneIfNone(ne12)
      i11(z) == z \div n12
      i12(z) == z - i11(z) * n12
      At(i10, z) == i10 + i11(z) * i10s + i12(z) * i10s * ne11
  IN [i \in Upto(ne00) \X Upto(i10s) \X Upto(ne11 * n12) |->
        [to |-> At(i[2], i[3]) * ne00 + i[1],
         from |-> <<((i12(i[3]) * ne11 + i11(i[3])) * rows + row[At(i[2], i[3])]) * ne00 + i[1]>>]]

\* host_fallback_quantize_q8_1_locked: blocks of b (32) values; n[1] is padded
\* to whole blocks, what is past ne00 reads as 0 (from is then empty).
Quantize(ne00, n, b, grid) ==
  LET n2 == OneIfNone(n[3])
      i3(z) == z \div n2
      i2(z) == z - i3(z) * n2
      block(i) == (((i3(i[4]) * n2 + i2(i[4])) * n[2] + i[3]) * n[1] + i[2]) \div b
      value(i) == i[2] + i[1]
  IN [i \in {x \in Upto(b) \X Upto(n[1]) \X Upto(n[2]) \X Upto(grid) : x[2] % b = 0} |->
        [to |-> block(i) * b + i[1],
         from |-> IF value(i) < ne00
                    THEN <<((i3(i[4]) * n2 + i2(i[4])) * n[2] + i[3]) * ne00 + value(i)>> ELSE <<>>]]

\* Mutant: the second of a pair is written a half row of all values away.
RopeMultiWide(n, dims, rows) ==
  LET Base(i0, r) == i0 \div 2 + r * n[1]
  IN [i \in {x \in {0, 1} \X Upto(n[1]) \X Upto(rows) : x[2] % 2 = 0} |->
        LET base == Base(i[2], i[3])
        IN [to |-> IF i[2] < dims THEN base + i[1] * (n[1] \div 2) ELSE base + i[2] \div 2 + i[1],
            from |-> <<base>>]]

\* host_fallback_rope_multi_float_locked: pairs of the first dims values of a
\* row are rotated, a half row apart; the others are copied.  w is 0 or 1.
RopeMulti(n, dims, rows) ==
  LET i3(r) == r \div (n[2] * n[3])
      i2(r) == (r - i3(r) * (n[2] * n[3])) \div n[2]
      i1(r) == r - i3(r) * (n[2] * n[3]) - i2(r) * n[2]
      Base(i0, r) == i0 \div 2 + i1(r) * n[1] + i2(r) * n[2] * n[1] + i3(r) * n[3] * n[2] * n[1]
  IN [i \in {x \in {0, 1} \X Upto(n[1]) \X Upto(rows) : x[2] % 2 = 0} |->
        LET base == Base(i[2], i[3])
            first == i[2] < dims
        IN [to |-> IF first THEN base + i[1] * (dims \div 2) ELSE base + i[2] \div 2 + i[1],
            from |-> IF first THEN <<base, base + dims \div 2>> ELSE <<base + i[2] \div 2 + i[1]>>]]

\* q6_k_value: where value idx of a block of 256 keeps its low four bits (byte
\* and half of ql), its upper two (byte and shift of qh) and its scale.
Q6KValue(idx) ==
  LET n == IF idx < 128 THEN 0 ELSE 128
      l == idx - n
      quarter == l \div 32
  IN [ql |-> <<n \div 2 + (IF l < 64 THEN l ELSE l - 64), IF l < 64 THEN 0 ELSE 4>>,
      qh |-> <<n \div 4 + l - 32 * quarter, 2 * quarter>>,
      scale |-> (l - 32 * quarter) \div 16 + 2 * quarter + (IF n = 0 THEN 0 ELSE 8)]

\* host_fallback_mmvq_q6k_ncols1_locked: element elem of block kbx of a row is
\* multiplied with this value of the quantized column.
MmvqColumn(kbx, elem) == (kbx * 8 + elem \div 32) * 32 + (elem % 32)
\* Rows, channels and samples of dst, and the row of weights for each: channels
\* and samples of weights serve ratio of dst, or ids names the channel.
Mmvq(n, channels, ratio, ids) ==
  LET channel(c) == IF ids # <<>> THEN ids[c + 1] ELSE PackedDiv(c, ratio[1])
  IN [i \in Upto(n[1]) \X Upto(n[2]) \X Upto(n[3]) |->
        [to |-> (i[3] * n[2] + i[2]) * n[1] + i[1],
         from |-> <<(PackedDiv(i[3], ratio[2]) * channels + channel(i[2])) * n[1] + i[1]>>]]
=============================================================================
