----------------------------- MODULE MCAlgorithms -----------------------------
(***************************************************************************)
(* Inputs for Algorithms.                                                  *)
(***************************************************************************)
EXTENDS Algorithms

MCBits == [byte |-> 2, char |-> 2, bool |-> 2, short |-> 3, uint16 |-> 3,
           int |-> 4, uint32 |-> 4, long |-> 6, uint64 |-> 6]

Small == Format(4, 5)
Binary32 == Format(8, 23)
MCNarrowed ==
  {[x |-> x, f |-> Small, h |-> h] : x \in Numbers(Small), h \in {Format(3, 2), Format(4, 2)}}
\* Every binary16 and bfloat16 of every exponent.
MCWidened ==
  {[x |-> x, f |-> Binary32, h |-> Format(5, 10)] :
     x \in [sign : {0, 1}, exp : 0..31, mant : (0..15) \cup {511, 512, 513, 682, 1022, 1023}]}
  \cup {[x |-> x, f |-> Binary32, h |-> Format(8, 7)] :
     x \in [sign : {0, 1}, exp : 0..255, mant : {0, 1, 64, 127}]}
MCQuarters == -520..520

Tuples == {<<a, b, c, d>> : a \in {1, 2, 3}, b \in {1, 2}, c \in {1, 2}, d \in {1, 2}}
MCShapes ==
  {[kernel |-> k, n |-> n, m |-> m] : k \in {"bin_bcast", "rms_norm"}, n \in Tuples,
                                      m \in {<<1, 1, 1, 1>>, <<2, 1, 2, 1>>, <<1, 2, 1, 2>>}}
  \cup {[kernel |-> "get_rows", n |-> n, rows |-> 3, row |-> [i \in 0..7 |-> (i * i) % 3]] : n \in Tuples}
  \cup {[kernel |-> "quantize_q8_1", ne00 |-> c, n |-> <<w, b, d, e>>, block |-> 4] :
           c \in {1, 4, 5, 8}, w \in {8}, b \in {1, 2}, d \in {1, 2, 3}, e \in {1, 2}}
  \cup {[kernel |-> "rope_multi", n |-> <<w, b, c, d>>, dims |-> k] :
           w \in {6, 8}, b \in {1, 2}, c \in {1, 2, 3}, d \in {1, 2}, k \in {2, 4, 6}}
  \cup {[kernel |-> "mul_mat_vec_q", n |-> <<3, 4, b>>, channels |-> c, ratio |-> <<4 \div c, r>>, ids |-> i,
          block |-> b] : b \in {1, 2}, c \in {2, 4}, r \in {0, 1, 2}, i \in {<<>>, <<1, 0, 1, 1>>}}
  \cup {[kernel |-> "q6_k"]}

Request(g, b, s) == [grid |-> g, block |-> b, shared |-> s, minor |-> 6, major |-> 1]
Metadata(valid, shared, only) ==
  [valid |-> valid, shared |-> shared, regs |-> 48, offset |-> 1664, local |-> 2^24 - 16, sm |-> 120,
   textOnly |-> only]
Va(u, l) == [upper |-> u, lower |-> l]
MCLaunches ==
  {[q |-> q, m |-> m, over |-> <<>>, params |-> p, release |-> Va(255, 2^29 + 24), id |-> id, pcas |-> TRUE] :
     q \in {Request(<<0, 1, 65535>>, <<1024, 0, 1>>, 0), Request(<<2^29 + 1, 65535, 0>>, <<65535, 1, 64>>, 49152),
            Request(<<7, 3, 5>>, <<32, 4, 2>>, 2^30 - 1), Request(<<1, 1, 1>>, <<1, 1, 1>>, 2^26 - 511)},
     m \in {Metadata(TRUE, 512, FALSE), Metadata(TRUE, 0, TRUE), Metadata(FALSE, 512, FALSE)},
     p \in {[size |-> 0, va |-> Va(0, 0)], [size |-> 64, va |-> Va(2, 4096)],
            [size |-> 65536, va |-> Va(255, 2^30 - 4)]},
     id \in {1, 2^30 - 1, 2^30}}
MCMethods ==
  {[subchannel |-> s, method |-> m, count |-> c, secOp |-> o] :
     s \in {0, 1, 7}, m \in {0, 108, 16380}, c \in {0, 1, 8191}, o \in {1, 3, 7}}
MCPushes ==
  {[va |-> Va(u, 4 * l), bytes |-> 4 * n] :
     u \in {0, 1, 255}, l \in {0, 1, 1025, 2^28 - 1}, n \in {0, 1, 1024, 2^21 - 1}}
MCCaptures ==
  {[extra |-> e, pointers |-> p, given |-> g, max |-> m] :
     e \in {<<>>, <<[key |-> "buffer", value |-> TRUE], [key |-> "size", value |-> 24]>>,
            <<[key |-> "size", value |-> 72], [key |-> "buffer", value |-> TRUE]>>,
            <<[key |-> "size", value |-> 72]>>},
     p \in {0, 1, 3, 256, 300}, g \in BOOLEAN, m \in {1, 7, 8, 20, 65536}}

-----------------------------------------------------------------------------
(***************************************************************************)
(* Images: names, code and attributes of one or two kernels, with a symbol *)
(* table or without, in tables before or after the sections.               *)
(***************************************************************************)
Head0 == [prefix |-> "", kernel |-> "", type |-> "null", exec |-> FALSE, addr |-> 0, offset |-> 0,
          size |-> 0, link |-> 0, entsize |-> 0, symbols |-> <<>>, attrs |-> <<>>, means |-> <<>>,
          start |-> 0]
Names == [Head0 EXCEPT !.type = "strtab", !.offset = 2, !.size = 2]
Text(k, addr, off, size, start) ==
  [Head0 EXCEPT !.prefix = ".text.", !.kernel = k, !.type = "progbits", !.exec = TRUE,
                !.addr = addr, !.offset = off, !.size = size, !.start = start]
Info(k, off, attrs, means) ==
  [Head0 EXCEPT !.prefix = ".nv.info.", !.kernel = k, !.type = "cuda_info", !.offset = off, !.size = 16,
                !.attrs = attrs, !.means = means]
Const(k, off, size) ==
  [Head0 EXCEPT !.prefix = ".nv.constant0.", !.kernel = k, !.type = "progbits", !.offset = off, !.size = size]
Bss(size) == [Head0 EXCEPT !.prefix = ".bss", !.type = "nobits", !.offset = 60, !.size = size]
Symtab(symbols) ==
  [Head0 EXCEPT !.type = "symtab", !.offset = 4, !.size = Len(symbols), !.link = 1, !.entsize = 1,
                !.symbols = symbols]
Symbol(k, section, value) ==
  [name |-> k, func |-> TRUE, section |-> section, value |-> value, size |-> 0]

Attr(kind, size, value) == [kind |-> kind, size |-> size, value |-> value]
Attrs1 == <<Attr("regs", 4, 48), Attr("threads", 4, 256)>>
Attrs2 == <<Attr("regs", 2, 9), Attr("shared", 4, 64)>>
Attrs3 == <<Attr("local", 4, 8), Attr("regs", 12, 9)>>
InfoOf(k, off, n) ==
  CASE n = 1 -> Info(k, off, Attrs1, [Defaults EXCEPT !.regs = 48, !.threads = 256])
    [] n = 2 -> Info(k, off, Attrs2, [Defaults EXCEPT !.shared = 64])
    [] OTHER -> Info(k, off, Attrs3, [Defaults EXCEPT !.local = 8])

Image(sections, shoff, file) ==
  [file |-> file, shoff |-> shoff, shentsize |-> 2, section |-> sections, shstrndx |-> 1,
   phoff |-> 1, phentsize |-> 1, phdr |-> <<[offset |-> 6, size |-> 4]>>]

\* Sections one after the other from 6 on; the table behind them or before the names.
Sections(addr, start, n, bss) ==
  {<<Names, Text("k", addr, 6, 4, 0), InfoOf("k", 10, n), Bss(bss)>>,
   <<Names, Const("k", 6, 2), Text("k", addr, 8, 4, start), Symtab(<<Symbol("k", 3, IF n = 3 THEN start ELSE addr + start)>>)>>,
   <<Names, Text("k", addr, 6, 4, 0), Text("j", addr + 4, 10, 2, 0), Bss(bss), InfoOf("j", 12, n)>>,
   <<Names, InfoOf("j", 6, n), Text("k", 0, 22, 3, 0), Const("j", 25, 3), Text("j", 9, 28, 2, start)>>
     \o <<Symtab(<<Symbol("k", 3, 0), Symbol("j", 5, 9 + start)>>)>>}

MCCubins ==
  {[img |-> Image(s, at, f), limit |-> l] :
     s \in UNION {Sections(a, d, n, b) : a \in {0, 8}, d \in {0, 1}, n \in 1..3, b \in {0, 40}},
     at \in {30, 40}, f \in {46, 52, 64}, l \in {20, 40, 64}}
=============================================================================
