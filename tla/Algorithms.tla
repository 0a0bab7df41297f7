------------------------------ MODULE Algorithms ------------------------------
(***************************************************************************)
(* The pure functions of libcuda - number formats, casts and element       *)
(* layouts of the host kernels, encodings, module images - checked against *)
(* what they are for, on one input per state.                              *)
(***************************************************************************)
EXTENDS HostKernels, Encodings, Images

CONSTANTS
  Narrowed,  \* floats to be made halves or bfloat16s, with the formats
  Widened,   \* halves, with the formats
  Quarters,  \* numbers, in quarters, to be made int8
  Shapes,    \* shapes of the kernels' tensors
  Launches,  \* what a QMD is made of
  Methods,   \* method headers
  Pushes,    \* ring entries
  Captures,  \* what a launch passes as parameters
  Cubins     \* images, with the scan limit

(***************************************************************************)
(* The launches whose layouts are exact: an extent that counts as one when *)
(* it is missing is given, a quantized row is whole blocks, a rotated one  *)
(* whole pairs, and the rows and channels that are named exist.            *)
(***************************************************************************)
Fits(s) ==
  CASE s.kernel \in {"bin_bcast", "rms_norm"} ->
         /\ \A k \in 1..3 : s.n[k] \in Nat
         /\ s.n[4] \in Nat \ {0} /\ \A k \in 1..4 : s.m[k] \in Nat \ {0}
    [] s.kernel = "get_rows" ->
         /\ \A k \in 1..3 : s.n[k] \in Nat
         /\ s.n[4] \in Nat \ {0} /\ s.rows \in Nat
         /\ \A i \in Upto(s.n[2] * s.n[3] * s.n[4]) : s.row[i] \in Upto(s.rows)
    [] s.kernel = "quantize_q8_1" ->
         /\ \A k \in 1..4 : s.n[k] \in Nat
         /\ s.ne00 \in Nat /\ s.block \in Nat \ {0} /\ s.n[1] % s.block = 0
    [] s.kernel = "rope_multi" ->
         /\ \A k \in 1..4 : s.n[k] \in Nat
         /\ s.n[1] % 2 = 0 /\ s.dims \in 0..s.n[1] /\ s.dims % 2 = 0
    [] s.kernel = "mul_mat_vec_q" ->
         /\ \A k \in 1..3 : s.n[k] \in Nat
         /\ s.channels \in Nat /\ s.block \in Nat /\ s.ratio[1] \in Nat \ {0} /\ s.ratio[2] \in Nat
         /\ IF s.ids = <<>> THEN s.n[2] <= s.channels * s.ratio[1]
            ELSE \A c \in 1..s.n[2] : s.ids[c] \in Upto(s.channels)
    [] OTHER -> s.kernel = "q6_k"

ASSUME ShapesAssumption == \A s \in Shapes : Fits(s)

(***************************************************************************)
(* What is encoded is in the range the code gives it: words, 40-bit        *)
(* addresses of the GPU, at most 255 registers, sizes and methods that     *)
(* their fields hold.                                                      *)
(***************************************************************************)
OfBits(n) == 0..(Pow2[n] - 1)
IsVa(va) == va.lower \in OfBits(Word) /\ va.upper \in OfBits(8)
LaunchFits(l) ==
  /\ l.q.shared \in OfBits(Word)
  /\ \A k \in 1..3 : l.q.grid[k] \in OfBits(Word) /\ l.q.block[k] \in OfBits(Word)
  /\ l.m.valid => /\ l.m.shared \in OfBits(Word) /\ l.m.offset \in OfBits(Word)
                  /\ l.m.regs \in OfBits(8) /\ l.m.local \in OfBits(24) /\ l.m.sm \in OfBits(8)
  /\ "regs" \in DOMAIN l.over => l.over["regs"] \in 1..255
  /\ IsVa(l.release) /\ l.id \in Nat /\ l.params.size \in OfBits(17)
  /\ l.params.size # 0 => IsVa(l.params.va) /\ (l.params.va.lower # 0 \/ l.params.va.upper # 0)
MethodFits(m) ==
  /\ m.subchannel \in OfBits(3) /\ m.count \in OfBits(13) /\ m.secOp \in OfBits(3)
  /\ m.method \in OfBits(14) /\ m.method % 4 = 0
PushFits(p) == IsVa(p.va) /\ p.va.lower % 4 = 0 /\ p.bytes \in OfBits(23) /\ p.bytes % 4 = 0
CaptureFits(c) ==
  /\ c.pointers \in Nat /\ c.max \in Nat
  /\ Len(c.extra) \in Nat /\ DOMAIN c.extra = 1..Len(c.extra)
  /\ \A i \in DOMAIN c.extra : c.extra[i].key = "size" => c.extra[i].value \in Nat

ASSUME EncodedAssumption ==
  /\ \A l \in Launches : LaunchFits(l)
  /\ \A m \in Methods : MethodFits(m)
  /\ \A p \in Pushes : PushFits(p)
  /\ \A c \in Captures : CaptureFits(c)

\* The bytes of an attribute; what the attributes that are in the section whole say.
AttrBytes(a) == 4 + a.size
Said(s) ==
  LET Last(kind) == {i \in DOMAIN s.attrs : /\ AttrStart(s.attrs)[i - 1] + AttrBytes(s.attrs[i]) <= s.size
                                           /\ s.attrs[i].size >= 4 /\ s.attrs[i].kind = kind}
  IN [kind \in DOMAIN Defaults |->
        IF Last(kind) = {} THEN Defaults[kind] ELSE s.attrs[Max(Last(kind))].value]

\* Offsets and sizes are unsigned, lists are finite, and what a section means is what it says.
IsList(list) == Len(list) \in Nat /\ DOMAIN list = 1..Len(list)
SectionFits(s) ==
  /\ s.offset \in Nat /\ s.size \in Nat /\ s.addr \in Nat /\ s.start \in Nat /\ s.entsize \in Nat
  /\ IsList(s.symbols) /\ \A j \in DOMAIN s.symbols : s.symbols[j].value \in Nat
  /\ IsList(s.attrs) /\ \A j \in DOMAIN s.attrs : s.attrs[j].size \in Nat
  /\ s.prefix = ".nv.info." => s.means = Said(s)
ImageFits(img) ==
  /\ img.file \in Nat /\ img.shoff \in Nat /\ img.shentsize \in Nat
  /\ IsList(img.section) /\ \A i \in DOMAIN img.section : SectionFits(img.section[i])
  /\ IsList(img.phdr) /\ \A i \in DOMAIN img.phdr : img.phdr[i].offset \in Nat /\ img.phdr[i].size \in Nat

ASSUME CubinsAssumption == \A c \in Cubins : ImageFits(c.img) /\ c.limit \in Nat

(***************************************************************************)
(* A format is narrowed to one with fewer bits of mantissa, and either the *)
(* same exponents, or so many fewer that the denormal numbers of the wider *)
(* one are nothing in it (127 - 15 against 10 bits for a half).            *)
(***************************************************************************)
IsFormat(f) == f.exp \in Nat \ {0} /\ f.mant \in Nat
Narrows(f, h) ==
  /\ IsFormat(f) /\ IsFormat(h) /\ h.mant < f.mant
  /\ f.exp = h.exp \/ h.mant < Bias(f) - Bias(h)

ASSUME ConversionsAssumption ==
  /\ \A c \in Narrowed : Narrows(c.f, c.h) /\ c.x \in Numbers(c.f)
  /\ \A c \in Widened : Narrows(c.f, c.h) /\ c.x \in Numbers(c.h)
  /\ Quarters \subseteq Int

VARIABLE input

Init ==
  \/ \E x \in Narrowed : input = [of |-> "narrow", narrow |-> x]
  \/ \E x \in Widened : input = [of |-> "widen", widen |-> x]
  \/ \E q \in Quarters : input = [of |-> "round", round |-> q]
  \/ \E from, to \in IntegralType : \E raw \in Raw(from) :
       input = [of |-> "cast", source |-> from, target |-> to, raw |-> raw]
  \/ \E s \in Shapes : input = [of |-> "layout", shape |-> s]
  \/ \E l \in Launches : input = [of |-> "qmd", launch |-> l]
  \/ \E m \in Methods : input = [of |-> "method", method |-> m]
  \/ \E p \in Pushes : input = [of |-> "push", push |-> p]
  \/ \E c \in Captures : input = [of |-> "capture", capture |-> c]
  \/ \E c \in Cubins : input = [of |-> "image", image |-> c]

Next == UNCHANGED input

Spec == Init /\ [][Next]_input

-----------------------------------------------------------------------------
\* The magnitude of x of format g, in units of the least number of format f.
Magnitude(x, g, f) ==
  LET place == IF x.exp = 0 THEN 0 ELSE x.exp - 1
      scale == (Bias(f) + f.mant) - (Bias(g) + g.mant)
  IN (x.mant + IF x.exp = 0 THEN 0 ELSE Pow2[g.mant]) * Pow2[place + scale]

Distance(a, b) == IF a < b THEN b - a ELSE a - b

\* y of format h is as near to x of format f as any; infinity is one step past the largest.
IsNearest(x, f, y, h) ==
  /\ y.sign = x.sign
  /\ \A z \in {n \in Numbers(h) : n.sign = x.sign /\ ~IsNan(n, h)} :
       Distance(Magnitude(y, h, f), Magnitude(x, f, f))
         <= Distance(Magnitude(z, h, f), Magnitude(x, f, f))

(***************************************************************************)
(* A float that is made a half or a bfloat16 becomes a nearest one, from   *)
(* denormal numbers to infinity; the way up and back is exact; an int8 is  *)
(* the nearest to what is quantized.  NaNs are left out: they become       *)
(* infinite.                                                               *)
(***************************************************************************)
ConversionNearest ==
  CASE input.of = "narrow" ->
         LET x == input.narrow.x f == input.narrow.f h == input.narrow.h
         IN ~IsNan(x, f) =>
              IF f.exp = h.exp THEN IsNearest(x, f, FloatToBfloat16(x, f, h), h)
                               ELSE IsNearest(x, f, FloatToHalf(x, f, h), h)
    [] input.of = "widen" ->
         LET x == input.widen.x f == input.widen.f h == input.widen.h
         IN ~IsNan(x, h) =>
              IF f.exp = h.exp THEN FloatToBfloat16(Bfloat16ToFloat(x, h, f), f, h) = x
                               ELSE FloatToHalf(HalfToFloat(x, h, f), f, h) = x
    [] input.of = "round" ->
         LET q == input.round r == RoundToI8(q)
         IN r \in -128..127 /\ \A i \in -128..127 : Distance(4 * r, q) <= Distance(4 * i, q)
    [] OTHER -> TRUE

\* The number the bytes of an element stand for.
Meaning(t, raw) ==
  CASE t \in Signed -> AsSigned(raw, Bits[t])
    [] t = "bool" -> IF raw = 0 THEN 0 ELSE 1
    [] OTHER -> raw

(***************************************************************************)
(* A direct copy between integer types keeps the number, modulo the width  *)
(* of its new type; bool is whether it is 0.  A uint64 is read through a   *)
(* double and is left out from 2^53 on.                                    *)
(***************************************************************************)
CastKeepsValue ==
  input.of = "cast" =>
    LET value == Meaning(input.source, input.raw)
    IN input.source # "uint64" \/ input.target = "uint64" \/ input.raw < Pow2[DoubleMant] =>
         \A r \in DirectCopy(input.source, input.target, input.raw) :
           IF input.target = "bool" THEN Meaning("bool", r) = IF value = 0 THEN 0 ELSE 1
           ELSE r = value % Pow2[Bits[input.target]]

-----------------------------------------------------------------------------
\* Each of the elements of a tensor is written once, from elements of tensors of these sizes.
WrittenOnce(layout, size, sizes) ==
  /\ {layout[i].to : i \in DOMAIN layout} = Upto(size)
  /\ Cardinality(DOMAIN layout) = size
  /\ \A i \in DOMAIN layout : \A k \in DOMAIN layout[i].from :
       layout[i].from[k] \in Upto(sizes[k])

\* Each is written from itself and from elements of its own row.
InItsRow(layout, columns) ==
  \A i \in DOMAIN layout :
    /\ \E k \in DOMAIN layout[i].from : layout[i].from[k] = layout[i].to
    /\ \A k \in DOMAIN layout[i].from : layout[i].from[k] \div columns = layout[i].to \div columns

Size4(n) == n[1] * n[2] * n[3] * n[4]

\* Where element e of a tensor of n[1] x ... x n[4] is, in each of its directions.
Coordinates(n, e) ==
  <<e % n[1], (e \div n[1]) % n[2], ((e \div n[1]) \div n[2]) % n[3], ((e \div n[1]) \div n[2]) \div n[3]>>

\* Each is written from itself and the element of m that repeats there.
Repeats(layout, n, m) ==
  \A i \in DOMAIN layout :
    /\ layout[i].from[1] = layout[i].to
    /\ \A k \in 1..4 : Coordinates(m, layout[i].from[2])[k] = Coordinates(n, layout[i].to)[k] % m[k]

\* Each comes from the row that is named for its own, at its place otherwise.
TakesRows(layout, n, rows, row) ==
  \A i \in DOMAIN layout :
    LET at == Coordinates(n, layout[i].to)
    IN Coordinates(<<n[1], rows, n[3], n[4]>>, layout[i].from[1])
         = <<at[1], row[layout[i].to \div n[1]], at[3], at[4]>>

\* Each is a row of weights for its own row, the channel and the sample that serve its own.
TakesWeights(layout, n, channels, ratio, ids) ==
  \A i \in DOMAIN layout :
    LET to == layout[i].to  from == layout[i].from[1]
        channel == (to \div n[1]) % n[2]  sample == (to \div n[1]) \div n[2]
    IN /\ from % n[1] = to % n[1]
       /\ (from \div n[1]) % channels = IF ids = <<>> THEN channel \div ratio[1] ELSE ids[channel + 1]
       /\ (from \div n[1]) \div channels = IF ratio[2] = 0 THEN 0 ELSE sample \div ratio[2]

(***************************************************************************)
(* Each kernel writes every element of its output once, nothing beside it, *)
(* and reads nothing outside its inputs; what it reads is, direction by    *)
(* direction, at the place the element it writes has, repeated, named or   *)
(* shared as the kernel is for; a rotated or copied value comes from its   *)
(* own row; the values of a Q6_K block use each of its bits once, with one *)
(* scale for sixteen, and meet their own column value.                     *)
(***************************************************************************)
LayoutsExact ==
  input.of = "layout" =>
    LET s == input.shape IN
    CASE s.kernel = "bin_bcast" ->
           LET l == BinBcast(s.n, s.m)
           IN WrittenOnce(l, Size4(s.n), <<Size4(s.n), Size4(s.m)>>) /\ Repeats(l, s.n, s.m)
      [] s.kernel = "rms_norm" ->
           LET l == RmsNorm(s.n, s.m)
           IN WrittenOnce(l, Size4(s.n), <<Size4(s.n), Size4(s.m)>>) /\ Repeats(l, s.n, s.m)
      [] s.kernel = "get_rows" ->
           LET l == GetRows(s.n[1], s.n[2], s.n[3], s.n[4], s.rows, s.row)
           IN /\ WrittenOnce(l, Size4(s.n), <<s.n[1] * s.rows * s.n[3] * s.n[4]>>)
              /\ TakesRows(l, s.n, s.rows, s.row)
      [] s.kernel = "quantize_q8_1" ->
           LET l == Quantize(s.ne00, s.n, s.block, s.n[3] * s.n[4])
           IN /\ WrittenOnce(l, Size4(s.n), <<s.ne00 * s.n[2] * s.n[3] * s.n[4]>>)
              /\ \A i \in DOMAIN l :
                   l[i].from = LET column == l[i].to % s.n[1] row == l[i].to \div s.n[1]
                               IN IF column < s.ne00 THEN <<row * s.ne00 + column>> ELSE <<>>
      [] s.kernel = "rope_multi" ->
           LET l == RopeMulti(s.n, s.dims, s.n[2] * s.n[3] * s.n[4])
           IN WrittenOnce(l, Size4(s.n), <<Size4(s.n), Size4(s.n)>>) /\ InItsRow(l, s.n[1])
      [] s.kernel = "mul_mat_vec_q" ->
           /\ LET l == Mmvq(s.n, s.channels, s.ratio, s.ids)
              IN /\ WrittenOnce(l, s.n[1] * s.n[2] * s.n[3], <<s.n[1] * s.channels * s.n[3]>>)
                 /\ TakesWeights(l, s.n, s.channels, s.ratio, s.ids)
           /\ \A i \in 0..255 : MmvqColumn(s.block, i) = s.block * 256 + i
      [] OTHER ->
           /\ {Q6KValue(i).ql : i \in 0..255} = (0..127) \X {0, 4}
           /\ {Q6KValue(i).qh : i \in 0..255} = (0..63) \X {0, 2, 4, 6}
           /\ \A i \in 0..255 : Q6KValue(i).scale = i \div 16

-----------------------------------------------------------------------------
\* The number in bits lo to hi.
Load(w, lo, hi) ==
  LET value[n \in 0..(hi - lo + 1)] ==
        IF n = 0 THEN 0 ELSE value[n - 1] + w[lo + n - 1] * Pow2[n - 1]
  IN value[hi - lo + 1]

LoadQmd(qmd, lo, hi) == Load(qmd, lo, IF hi - lo >= Word THEN lo + Word - 1 ELSE hi)

\* The fields the hardware reads from the QMD qmd are those of the launch l.
QmdMeans(l, qmd) ==
  LET At(lo, hi) == LoadQmd(qmd, lo, hi)
      shared == l.q.shared + (IF l.m.valid THEN l.m.shared ELSE 0)
  IN /\ At(384, 415) = Max({1, l.q.grid[1]})
     /\ At(416, 431) = Max({1, l.q.grid[2]}) % Pow2[16]
     /\ At(432, 447) = Max({1, l.q.grid[3]}) % Pow2[16]
     /\ \A k \in 1..3 : At(576 + 16 * k, 591 + 16 * k) = Max({1, l.q.block[k]}) % Pow2[16]
     /\ \/ At(544, 561) * 256 \in shared..(shared + 255)
        \/ At(544, 561) = Pow2[18] - 1 /\ shared > (Pow2[18] - 1) * 256
     /\ At(736, 767) = l.release.lower /\ At(768, 775) = l.release.upper
     /\ At(800, 831) = Max({1, l.id % Pow2[Word]})
     /\ l.params.size # 0 =>
          /\ At(640, 640) = 1 /\ At(975, 991) = l.params.size
          /\ At(928, 959) = l.params.va.lower /\ At(960, 967) = l.params.va.upper
     /\ At(1496, 1503) \in 1..255
     /\ (l.m.valid /\ l.over = <<>>) =>
          /\ At(256, 287) = IF l.m.textOnly THEN 0 ELSE l.m.offset
          /\ At(1440, 1463) = l.m.local /\ At(1528, 1535) = l.m.sm
     /\ \A b \in (640..735) \cup (776..798) \cup (832..927) \cup (992..1439) :
          qmd[b] = 1 => b = 640

(***************************************************************************)
(* What is encoded for the GPU decodes to what was meant: no field of a    *)
(* QMD is disturbed by another or by the end of its word, shared memory    *)
(* saturates, method and ring words keep their parts apart, and captured   *)
(* parameters are whole pointers or a buffer within the limit.             *)
(***************************************************************************)
EncodingsDecode ==
  CASE input.of = "qmd" ->
         LET l == input.launch
         IN QmdMeans(l, BuildQmd(QmdFields(l.q, l.m, l.over, l.params, l.release, l.id, l.pcas)))
    [] input.of = "method" ->
         LET m == input.method
             w == PushMethodHeader(m.subchannel, m.method, m.count, m.secOp)
         IN /\ Load(w, 0, 11) * 4 = m.method /\ Load(w, 13, 15) = m.subchannel
            /\ Load(w, 16, 28) = m.count /\ Load(w, 29, 31) = m.secOp /\ w[12] = 0
    [] input.of = "push" ->
         LET p == input.push
             e == GpfifoEntry(p.va, p.bytes)
         IN /\ 4 * Load(e.lower, 2, Word - 1) = p.va.lower /\ Load(e.upper, 0, 7) = p.va.upper
            /\ 4 * Load(e.upper, 10, 30) = p.bytes
            /\ e.lower[0] = 0 /\ e.lower[1] = 0 /\ e.upper[8] = 0 /\ e.upper[9] = 0
    [] input.of = "capture" ->
         LET c == input.capture
             got == CaptureParams(c.extra, c.pointers, c.given, c.max)
         IN /\ got.bytes <= c.max
            /\ got.kind = "pointers" =>
                 got.bytes % WordBytes = 0 /\ got.bytes \in 1..(c.pointers * WordBytes)
            /\ got.kind = "buffer" =>
                 \E i \in DOMAIN c.extra : /\ c.extra[i].key = "size"
                                           /\ c.max # 0 => got.bytes \in 1..c.extra[i].value
    [] OTHER -> TRUE

-----------------------------------------------------------------------------
KernelText(img) ==
  {i \in DOMAIN img.section : img.section[i].type = "progbits" /\ img.section[i].exec
                              /\ img.section[i].prefix = ".text." /\ img.section[i].kernel # ""}

\* A file whose header, tables and sections are in it and counted.
InFile(img) ==
  /\ HeaderBytes <= img.file
  /\ img.shentsize >= SectionBytes /\ Len(img.section) \in 1..(MaxSections - 1)
  /\ img.shoff + img.shentsize * Len(img.section) <= img.file
  /\ img.shstrndx \in DOMAIN img.section /\ img.section[img.shstrndx].type = "strtab"
  /\ \A i \in DOMAIN img.section : img.section[i].type # "nobits" => End(img.section[i]) <= img.file
  /\ \A i \in DOMAIN img.phdr : End(img.phdr[i]) <= img.file

\* The places of symbols: a symbol table and an entry of it.
Symbols(img) ==
  LET Places(i) == {j \in DOMAIN img.section[i].symbols :
                      j * img.section[i].entsize <= img.section[i].size}
      tables == {i \in DOMAIN img.section :
                   /\ img.section[i].type = "symtab" /\ img.section[i].entsize >= SymbolBytes
                   /\ img.section[i].size # 0 /\ img.section[i].link \in DOMAIN img.section
                   /\ img.section[img.section[i].link].type = "strtab"}
  IN UNION {{<<i, j>> : j \in Places(i)} : i \in tables}

\* Each kernel has sections of its own, and its symbols, if it has any, say where it starts.
Proper(img) ==
  /\ \A i, j \in DOMAIN img.section :
       img.section[i].prefix = img.section[j].prefix /\ img.section[i].kernel = img.section[j].kernel
         /\ img.section[i].prefix \in {".text.", ".nv.info.", ".nv.constant0."} => i = j
  /\ \A i \in DOMAIN img.section :
       /\ img.section[i].prefix = ".nv.info." => img.section[i].type = "cuda_info"
       /\ img.section[i].prefix = ".nv.constant0." => img.section[i].type # "nobits"
  /\ \A i \in KernelText(img) :
       LET text == img.section[i]
           Named == {p \in Symbols(img) : img.section[p[1]].symbols[p[2]].name = text.kernel}
       IN /\ text.start = 0 \/ (text.start < text.size /\ Named # {})
          /\ \A p \in Named :
               LET y == img.section[p[1]].symbols[p[2]]
               IN /\ y.func /\ y.section = i
                  /\ y.value = text.addr + text.start \/ (y.value = text.start /\ text.start < text.addr)

WellFormed(img) == InFile(img) /\ Proper(img)

(***************************************************************************)
(* Of a proper image within the scan limit, what is copied is in the file  *)
(* and holds all of its kernels: each is found where it starts in its own  *)
(* section, with the attributes of its own sections.  What is found in any *)
(* image at all is inside the copy.                                        *)
(***************************************************************************)
KernelsFound ==
  input.of = "image" =>
    LET img == input.image.img
        bytes == ProbeSize(img, input.image.limit)
        Meta(k) == FindMetadata(img, bytes, k)
    IN /\ \A k \in DiscoveredKernels(img, bytes) :
            Meta(k).valid /\ RangeInImage(img.section[Meta(k).section].offset,
                                          img.section[Meta(k).section].size, bytes)
       /\ WellFormed(img) /\ img.file <= input.image.limit =>
            /\ bytes <= img.file
            /\ DiscoveredKernels(img, bytes) = {img.section[i].kernel : i \in KernelText(img)}
            /\ \A i \in KernelText(img) :
                 LET meta == Meta(img.section[i].kernel)
                     text == img.section[i]
                 IN /\ meta.valid /\ meta.section = i
                    /\ meta.entry = text.offset + text.start
                    /\ \A j \in DOMAIN img.section :
                         img.section[j].kernel = img.section[i].kernel =>
                           /\ img.section[j].prefix = ".nv.info." => meta.info = img.section[j].means
                           /\ img.section[j].prefix = ".nv.constant0." => meta.const = img.section[j].size
=============================================================================
