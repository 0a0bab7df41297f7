-------------------------------- MODULE Images --------------------------------
(***************************************************************************)
(* Module images: how much of one libcuda copies, and which kernels it     *)
(* finds in the copy, with their metadata.                                 *)
(*                                                                         *)
(* An image is a 64-bit ELF file of a CUDA machine given by what its       *)
(* headers say: file is its length, shoff, shentsize and shnum the section *)
(* table, section[i] the header in entry i, phdr the ranges of its program *)
(* headers (phoff, phentsize likewise).  A section's name is the part      *)
(* before the kernel's name and the kernel's name.  Lengths are in the     *)
(* units of HeaderBytes and SectionBytes.  Left out: other files, which    *)
(* are copied as text or not at all, 32-bit ELF, which has no kernels, and *)
(* names that do not end inside their table.                               *)
(***************************************************************************)
EXTENDS Integers, Sequences, FiniteSets, FiniteSetsExt

CONSTANTS
  HeaderBytes,  \* bytes of the ELF header (64)
  SectionBytes, \* least size of a section header (64)
  ProgramBytes, \* least size of a program header (56)
  SymbolBytes,  \* least size of a symbol (24)
  MaxSections   \* number of sections and program headers taken seriously (8192)

ASSUME SizesAssumption ==
  /\ HeaderBytes \in Nat /\ SectionBytes \in Nat \ {0} /\ ProgramBytes \in Nat
  /\ SymbolBytes \in Nat /\ MaxSections \in Nat

Entry(off, size, i) == off + i * size
End(r) == r.offset + r.size
Counted(size, least, off, n, limit) == size >= least /\ off < limit /\ n < MaxSections

\* range_in_image.
RangeInImage(offset, size, bytes) == offset <= bytes /\ size <= bytes - offset

-----------------------------------------------------------------------------
(***************************************************************************)
(* probe_elf_image_size: the furthest end of a header, a table or a range  *)
(* within the scan limit.  Reading stops at the first entry past it.       *)
(***************************************************************************)
TableEnd(img, limit) ==
  LET bytes == img.shentsize * Len(img.section)
  IN IF /\ Counted(img.shentsize, SectionBytes, img.shoff, Len(img.section), limit)
        /\ bytes <= limit - img.shoff
     THEN {img.shoff + bytes} ELSE {}

ProgramEnds(img, limit) ==
  IF Counted(img.phentsize, ProgramBytes, img.phoff, Len(img.phdr), limit)
  THEN {End(img.phdr[i]) : i \in {j \in DOMAIN img.phdr :
          /\ \A k \in 1..j : Entry(img.phoff, img.phentsize, k - 1) + ProgramBytes <= limit
          /\ RangeInImage(img.phdr[j].offset, img.phdr[j].size, limit)}}
  ELSE {}

\* Mutant: sections without bytes in the file count like the others.
SectionEndsAll(img, limit) ==
  IF Counted(img.shentsize, SectionBytes, img.shoff, Len(img.section), limit)
  THEN {End(img.section[i]) : i \in {j \in DOMAIN img.section :
          RangeInImage(img.section[j].offset, img.section[j].size, limit)}}
  ELSE {}

SectionEnds(img, limit) ==
  IF Counted(img.shentsize, SectionBytes, img.shoff, Len(img.section), limit)
  THEN {End(img.section[i]) : i \in {j \in DOMAIN img.section :
          /\ \A k \in 1..j : Entry(img.shoff, img.shentsize, k - 1) + SectionBytes <= limit
          /\ img.section[j].type # "nobits"
          /\ RangeInImage(img.section[j].offset, img.section[j].size, limit)}}
  ELSE {}

ProbeSize(img, limit) ==
  Max({HeaderBytes} \cup TableEnd(img, limit) \cup ProgramEnds(img, limit) \cup SectionEnds(img, limit))

-----------------------------------------------------------------------------
(***************************************************************************)
(* module_discover_cubin_kernels and module_find_kernel_metadata in the    *)
(* bytes that were copied.                                                 *)
(***************************************************************************)
Readable(img, bytes) ==
  /\ bytes >= HeaderBytes
  /\ img.shentsize >= SectionBytes /\ Len(img.section) \in 1..MaxSections
  /\ img.shstrndx \in DOMAIN img.section
  /\ RangeInImage(img.shoff, img.shentsize * Len(img.section), bytes)
  /\ LET names == img.section[img.shstrndx] IN RangeInImage(names.offset, names.size, bytes)

\* elf_section_from_header, for a section that has a name.
Section(img, i, bytes) ==
  LET s == img.section[i] IN s.type = "nobits" \/ RangeInImage(s.offset, s.size, bytes)

IsText(img, i, bytes) ==
  Section(img, i, bytes) /\ img.section[i].type = "progbits" /\ img.section[i].exec

DiscoveredKernels(img, bytes) ==
  IF ~Readable(img, bytes) THEN {}
  ELSE {img.section[i].kernel : i \in {j \in DOMAIN img.section :
          IsText(img, j, bytes) /\ img.section[j].prefix = ".text."}} \ {""}

\* The first of these sections with the kernel's name and this prefix, 0 if there is none.
FirstNamed(img, bytes, prefix, kernel, among) ==
  LET those == {i \in among :
                  /\ Section(img, i, bytes)
                  /\ img.section[i].prefix = prefix /\ img.section[i].kernel = kernel}
  IN IF those = {} THEN 0 ELSE Min(those)

\* The symbols of the kernel in section i, if that is a symbol table.
KernelSymbols(img, bytes, kernel, i) ==
  LET table == img.section[i]
      Table == /\ Section(img, i, bytes) /\ table.type = "symtab"
               /\ table.entsize >= SymbolBytes /\ table.size # 0
               /\ table.link \in DOMAIN img.section /\ Section(img, table.link, bytes)
               /\ img.section[table.link].type = "strtab"
      Counts(y) == y.name = kernel /\ y.func /\ y.section \in DOMAIN img.section
                   /\ IsText(img, y.section, bytes)
  IN {j \in DOMAIN table.symbols :
        Table /\ j * table.entsize <= table.size /\ Counts(table.symbols[j])}

NoSymbol == [section |-> 0, value |-> 0, size |-> 0]

\* The last one that is read.
LastSymbol(img, bytes, kernel) ==
  LET tables == {i \in DOMAIN img.section : KernelSymbols(img, bytes, kernel, i) # {}}
      last == Max(tables)
  IN IF tables = {} THEN NoSymbol
     ELSE img.section[last].symbols[Max(KernelSymbols(img, bytes, kernel, last))]

\* Where the next attribute starts after the first n: one is a type, a size and a padded value.
AttrStart(attrs) ==
  LET start[n \in 0..Len(attrs)] ==
        IF n = 0 THEN 0 ELSE start[n - 1] + 4 + 4 * ((attrs[n].size + 3) \div 4)
  IN start

\* parse_kernel_nv_info: the last attribute of a kind wins.
\* One that does not fit ends the list, one of less than four bytes is passed over.
NvInfo(attrs, size, none) ==
  LET start == AttrStart(attrs)
      Fits(i) == start[i - 1] + 4 <= size /\ attrs[i].size <= size - (start[i - 1] + 4)
      Of(kind) == {i \in DOMAIN attrs : /\ \A k \in 1..i : Fits(k)
                                       /\ attrs[i].size >= 4 /\ attrs[i].kind = kind}
  IN [kind \in DOMAIN none |->
        IF Of(kind) = {} THEN none[kind] ELSE attrs[Max(Of(kind))].value]

Defaults == [regs |-> 32, threads |-> 1024, shared |-> 0, local |-> 0]
NoKernel == [valid |-> FALSE]

\* Mutant: the symbol's address is taken for an offset.
EntryOfOffset(text, value) == IF value # 0 THEN text.offset + value ELSE text.offset

\* Where the kernel begins in the image: its symbol may be an address, or an
\* offset in the section.
EntryOf(text, value) ==
  IF value # 0 /\ value >= text.addr /\ value < text.addr + text.size
    THEN text.offset + (value - text.addr)
  ELSE IF value # 0 /\ value < text.size THEN text.offset + value
  ELSE text.offset

FindMetadata(img, bytes, kernel) ==
  LET sections == DOMAIN img.section
      symbol == LastSymbol(img, bytes, kernel)
      at == IF symbol.section # 0 THEN symbol.section
            ELSE FirstNamed(img, bytes, ".text.", kernel, {i \in sections : IsText(img, i, bytes)})
      text == img.section[at]
      info == FirstNamed(img, bytes, ".nv.info.", kernel, sections)
      const == FirstNamed(img, bytes, ".nv.constant0.", kernel, sections)
      hasInfo == info # 0 /\ img.section[info].type = "cuda_info"
      hasConst == const # 0 /\ RangeInImage(img.section[const].offset, img.section[const].size, bytes)
  IN IF ~Readable(img, bytes) \/ at = 0 THEN NoKernel
     ELSE [valid |-> TRUE, section |-> at, textOffset |-> text.offset,
           textSize |-> IF symbol.size # 0 THEN symbol.size ELSE text.size,
           entry |-> EntryOf(text, symbol.value),
           info |-> IF hasInfo THEN NvInfo(img.section[info].attrs, img.section[info].size, Defaults)
                    ELSE Defaults,
           const |-> IF hasConst THEN img.section[const].size ELSE 0]
=============================================================================
