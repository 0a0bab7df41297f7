-------------------------- MODULE AlgorithmsProofs --------------------------
(***************************************************************************)
(* Proofs about the pure functions of libcuda, for inputs of any size.     *)
(***************************************************************************)
EXTENDS Algorithms, FiniteSetTheorems, SequenceTheorems, WellFoundedInduction, TLAPS

-----------------------------------------------------------------------------
(***************************************************************************)
(* Layouts.  An element of a tensor is written in digits, each below its   *)
(* extent: Digit(q, n, r) is q followed by a digit r below n.              *)
(***************************************************************************)
Product(q, n) == q * n
Digit(q, n, r) == q * n + r
Lower(e, n) == e % n
Upper(e, n) == e \div n

LEMMA ProductIsNat ==
  ASSUME NEW q \in Nat, NEW n \in Nat
  PROVE  Product(q, n) \in Nat
BY DEF Product

LEMMA UptoNat ==
  ASSUME NEW n \in Nat, NEW i \in Upto(n)
  PROVE  i \in Nat /\ i < n
BY DEF Upto

\* A number below Q and a digit below n make a number below Q * n, from which they can be told.
LEMMA DigitIn ==
  ASSUME NEW Q \in Nat, NEW n \in Nat, NEW q \in Upto(Q), NEW r \in Upto(n)
  PROVE  /\ Digit(q, n, r) \in Upto(Product(Q, n)) /\ Digit(q, n, r) \in Nat
         /\ Upper(Digit(q, n, r), n) = q /\ Lower(Digit(q, n, r), n) = r
<1>1. q \in Nat /\ r \in Nat /\ q + 1 <= Q /\ r + 1 <= n /\ n > 0
  BY DEF Upto
<1>2. PICK N \in Nat : N = Q * n
  OBVIOUS
<1>3. PICK e \in Nat : e = q * n + r
  BY <1>1
<1>4. (q + 1) * n <= Q * n
  BY <1>1
<1>5. (q + 1) * n = q * n + n
  BY <1>1
<1>6. e < N
  BY <1>1, <1>2, <1>3, <1>4, <1>5
<1>7. e \div n = q /\ e % n = r
  BY <1>1, <1>3
<1>8. e = Digit(q, n, r) /\ N = Product(Q, n)
  BY <1>2, <1>3 DEF Digit, Product
<1>9. e \in Upto(N)
  BY <1>6 DEF Upto
<1> QED
  BY <1>7, <1>8, <1>9 DEF Upper, Lower

\* Every number below Q * n is one of those.
LEMMA DigitOf ==
  ASSUME NEW Q \in Nat, NEW n \in Nat, NEW e \in Upto(Product(Q, n))
  PROVE  Upper(e, n) \in Upto(Q) /\ Lower(e, n) \in Upto(n) /\ e = Digit(Upper(e, n), n, Lower(e, n))
<1>1. PICK N \in Nat : N = Q * n
  OBVIOUS
<1>2. e \in Nat /\ e < N
  BY <1>1 DEF Upto, Product
<1>3. n > 0
  BY <1>1, <1>2
<1>4. PICK q \in Nat, r \in Nat : q = e \div n /\ r = e % n /\ r < n /\ e = q * n + r
  BY <1>2, <1>3
<1>5. q < Q
  <2> SUFFICES ASSUME q >= Q PROVE FALSE
    BY <1>4
  <2>1. q * n >= Q * n
    BY <1>3, <1>4
  <2> QED
    BY <1>1, <1>2, <1>3, <1>4, <2>1
<1>6. q \in Upto(Q) /\ r \in Upto(n)
  BY <1>4, <1>5 DEF Upto
<1> QED
  BY <1>4, <1>6 DEF Upper, Lower, Digit

-----------------------------------------------------------------------------
\* Four extents.
Extents(n) == \A k \in 1..4 : n[k] \in Nat
Places(n) == Upto(n[1]) \X Upto(n[2]) \X Upto(n[3]) \X Upto(n[4])

LEMMA Size4Products ==
  ASSUME NEW n, Extents(n)
  PROVE  Size4(n) = Product(Product(Product(n[4], n[3]), n[2]), n[1]) /\ Size4(n) \in Nat
<1>1. PICK n1 \in Nat, n2 \in Nat, n3 \in Nat, n4 \in Nat :
        n1 = n[1] /\ n2 = n[2] /\ n3 = n[3] /\ n4 = n[4]
  BY DEF Extents
<1>2. n1 * n2 * n3 * n4 = ((n4 * n3) * n2) * n1 /\ n1 * n2 * n3 * n4 \in Nat
  OBVIOUS
<1> QED
  BY <1>1, <1>2 DEF Size4, Product

LEMMA Element4Digits ==
  ASSUME NEW n, NEW i
  PROVE  Element4(n, i) = Digit(Digit(Digit(i[4], n[3], i[3]), n[2], i[2]), n[1], i[1])
BY DEF Element4, Digit

\* Digits below their extents make an element, and an element one tuple of digits.
LEMMA Element4In ==
  ASSUME NEW n, Extents(n), NEW i, \A k \in 1..4 : i[k] \in Upto(n[k])
  PROVE  /\ Element4(n, i) \in Nat /\ Element4(n, i) \in Upto(Size4(n))
         /\ i[1] = Lower(Element4(n, i), n[1])
         /\ i[2] = Lower(Upper(Element4(n, i), n[1]), n[2])
         /\ i[3] = Lower(Upper(Upper(Element4(n, i), n[1]), n[2]), n[3])
         /\ i[4] = Upper(Upper(Upper(Element4(n, i), n[1]), n[2]), n[3])
<1>1. n[1] \in Nat /\ n[2] \in Nat /\ n[3] \in Nat /\ n[4] \in Nat
  BY DEF Extents
<1>2. i[1] \in Upto(n[1]) /\ i[2] \in Upto(n[2]) /\ i[3] \in Upto(n[3]) /\ i[4] \in Upto(n[4])
  OBVIOUS
<1> DEFINE b == Digit(i[4], n[3], i[3])
           c == Digit(b, n[2], i[2])
           e == Digit(c, n[1], i[1])
           B == Product(n[4], n[3])
           C == Product(B, n[2])
<1>3. B \in Nat /\ C \in Nat
  BY <1>1, ProductIsNat
<1>4. b \in Upto(B) /\ Upper(b, n[3]) = i[4] /\ Lower(b, n[3]) = i[3]
  BY <1>1, <1>2, DigitIn
<1>5. c \in Upto(C) /\ Upper(c, n[2]) = b /\ Lower(c, n[2]) = i[2]
  <2> HIDE DEF b, B
  <2> QED
    BY <1>1, <1>2, <1>3, <1>4, DigitIn
<1>6. e \in Upto(Product(C, n[1])) /\ e \in Nat /\ Upper(e, n[1]) = c /\ Lower(e, n[1]) = i[1]
  <2> HIDE DEF c, C
  <2> QED
    BY <1>1, <1>2, <1>3, <1>5, DigitIn
<1>7. Element4(n, i) = e /\ Size4(n) = Product(C, n[1])
  BY Element4Digits, Size4Products
<1> HIDE DEF b, c, e, C
<1> QED
  BY <1>4, <1>5, <1>6, <1>7

LEMMA Element4Once ==
  ASSUME NEW n, Extents(n), NEW i \in Places(n), NEW j \in Places(n), Element4(n, i) = Element4(n, j)
  PROVE  i = j
<1>1. \A k \in 1..4 : i[k] \in Upto(n[k]) /\ j[k] \in Upto(n[k])
  BY DEF Places
<1>2. i[1] = j[1] /\ i[2] = j[2] /\ i[3] = j[3] /\ i[4] = j[4]
  BY <1>1, Element4In
<1> QED
  BY <1>2 DEF Places

LEMMA Element4Coordinates ==
  ASSUME NEW n, Extents(n), NEW i, \A k \in 1..4 : i[k] \in Upto(n[k])
  PROVE  Coordinates(n, Element4(n, i)) = <<i[1], i[2], i[3], i[4]>>
<1>1. Coordinates(n, Element4(n, i)) =
        <<Lower(Element4(n, i), n[1]),
          Lower(Upper(Element4(n, i), n[1]), n[2]),
          Lower(Upper(Upper(Element4(n, i), n[1]), n[2]), n[3]),
          Upper(Upper(Upper(Element4(n, i), n[1]), n[2]), n[3])>>
  BY DEF Coordinates, Lower, Upper
<1> QED
  BY <1>1, Element4In

\* Every element is four digits.
LEMMA Element4Of ==
  ASSUME NEW n, Extents(n), NEW e \in Upto(Size4(n))
  PROVE  \E d \in Places(n) : Element4(n, d) = e
<1>1. n[1] \in Nat /\ n[2] \in Nat /\ n[3] \in Nat /\ n[4] \in Nat
  BY DEF Extents
<1> DEFINE B == Product(n[4], n[3])
           C == Product(B, n[2])
           c == Upper(e, n[1])
           b == Upper(c, n[2])
<1>2. B \in Nat /\ C \in Nat
  BY <1>1, ProductIsNat
<1>3. e \in Upto(Product(C, n[1]))
  BY Size4Products
<1>4. c \in Upto(C) /\ Lower(e, n[1]) \in Upto(n[1]) /\ e = Digit(c, n[1], Lower(e, n[1]))
  <2> HIDE DEF C
  <2> QED
    BY <1>1, <1>2, <1>3, DigitOf
<1>5. b \in Upto(B) /\ Lower(c, n[2]) \in Upto(n[2]) /\ c = Digit(b, n[2], Lower(c, n[2]))
  <2> HIDE DEF B, c
  <2> QED
    BY <1>1, <1>2, <1>4, DigitOf
<1>6. /\ Upper(b, n[3]) \in Upto(n[4]) /\ Lower(b, n[3]) \in Upto(n[3])
      /\ b = Digit(Upper(b, n[3]), n[3], Lower(b, n[3]))
  <2> HIDE DEF b
  <2> QED
    BY <1>1, <1>2, <1>5, DigitOf
<1> DEFINE d == <<Lower(e, n[1]), Lower(c, n[2]), Lower(b, n[3]), Upper(b, n[3])>>
<1>7. d \in Places(n)
  BY <1>4, <1>5, <1>6 DEF Places
<1>8. Element4(n, d) = e
  <2>1. Element4(n, d) = Digit(Digit(Digit(d[4], n[3], d[3]), n[2], d[2]), n[1], d[1])
    BY Element4Digits
  <2>2. d[1] = Lower(e, n[1]) /\ d[2] = Lower(c, n[2]) /\ d[3] = Lower(b, n[3]) /\ d[4] = Upper(b, n[3])
    OBVIOUS
  <2> HIDE DEF d, c, b
  <2> QED
    BY <1>4, <1>5, <1>6, <2>1, <2>2
<1> QED
  BY <1>7, <1>8

-----------------------------------------------------------------------------
(***************************************************************************)
(* A layout whose loop variables stand one to one for the places of its    *)
(* output writes each element of it once.                                  *)
(***************************************************************************)
LEMMA OnceEach ==
  ASSUME NEW layout, NEW size \in Nat,
         \A i \in DOMAIN layout : layout[i].to \in Upto(size),
         \A i, j \in DOMAIN layout : layout[i].to = layout[j].to => i = j,
         \A e \in Upto(size) : \E i \in DOMAIN layout : layout[i].to = e
  PROVE  {layout[i].to : i \in DOMAIN layout} = Upto(size) /\ Cardinality(DOMAIN layout) = size
<1> DEFINE f == [i \in DOMAIN layout |-> layout[i].to]
<1>1. f \in Injection(DOMAIN layout, Upto(size)) /\ f \in Surjection(DOMAIN layout, Upto(size))
  BY DEF Injection, Surjection, IsInjective
<1>2. IsFiniteSet(Upto(size)) /\ Cardinality(Upto(size)) = size
  BY SMTT(30), FS_Interval DEF Upto
<1>3. Cardinality(DOMAIN layout) = size
  <2> HIDE DEF f
  <2> QED
    BY <1>1, <1>2, FS_Injection
<1> QED
  BY <1>3

LEMMA OnceByPlaces ==
  ASSUME NEW layout, NEW n, Extents(n), NEW place \in [DOMAIN layout -> Places(n)],
         \A i \in DOMAIN layout : layout[i].to = Element4(n, place[i]),
         \A i, j \in DOMAIN layout : place[i] = place[j] => i = j,
         \A p \in Places(n) : \E i \in DOMAIN layout : place[i] = p
  PROVE  /\ {layout[i].to : i \in DOMAIN layout} = Upto(Size4(n))
         /\ Cardinality(DOMAIN layout) = Size4(n)
<1>1. Size4(n) \in Nat
  BY Size4Products
<1>2. \A p \in Places(n) : Element4(n, p) \in Upto(Size4(n))
  BY Element4In DEF Places
<1>3. \A i \in DOMAIN layout : layout[i].to \in Upto(Size4(n))
  BY <1>2
<1>4. \A i, j \in DOMAIN layout : layout[i].to = layout[j].to => i = j
  BY Element4Once
<1>5. \A e \in Upto(Size4(n)) : \E i \in DOMAIN layout : layout[i].to = e
  <2> TAKE e \in Upto(Size4(n))
  <2>1. PICK p \in Places(n) : Element4(n, p) = e
    BY Element4Of
  <2> QED
    BY <2>1
<1> QED
  BY <1>1, <1>3, <1>4, <1>5, OnceEach

-----------------------------------------------------------------------------
(***************************************************************************)
(* A second operand that repeats is read inside it.                        *)
(***************************************************************************)
LEMMA RepeatsInside ==
  ASSUME NEW m, \A k \in 1..4 : m[k] \in Nat \ {0}, NEW i, \A k \in 1..4 : i[k] \in Nat
  PROVE  /\ Element4(m, [k \in 1..4 |-> PackedMod(i[k], m[k])]) \in Upto(Size4(m))
         /\ \A k \in 1..4 :
              Coordinates(m, Element4(m, [d \in 1..4 |-> PackedMod(i[d], m[d])]))[k] = i[k] % m[k]
<1> DEFINE r == [k \in 1..4 |-> PackedMod(i[k], m[k])]
<1>1. \A k \in 1..4 : r[k] \in Upto(m[k]) /\ r[k] = i[k] % m[k]
  <2> TAKE k \in 1..4
  <2>1. PICK x \in Nat, y \in Nat \ {0} : x = i[k] /\ y = m[k]
    OBVIOUS
  <2>2. x % y \in 0..(y - 1)
    OBVIOUS
  <2> QED
    BY <2>1, <2>2 DEF Upto, PackedMod
<1> HIDE DEF r
<1>2. Extents(m)
  BY DEF Extents
<1>3. Element4(m, r) \in Upto(Size4(m))
  BY <1>1, <1>2, Element4In
<1>4. Coordinates(m, Element4(m, r)) = <<r[1], r[2], r[3], r[4]>>
  BY <1>1, <1>2, Element4Coordinates
<1>5. \A k \in 1..4 : Coordinates(m, Element4(m, r))[k] = i[k] % m[k]
  BY <1>1, <1>4
<1> QED
  BY <1>3, <1>5 DEF r

\* The digits are the loop variables themselves.
LEMMA PlacesWrittenOnce ==
  ASSUME NEW layout, NEW n, Extents(n), NEW m, \A k \in 1..4 : m[k] \in Nat \ {0},
         layout = [i \in Places(n) |->
                     [to |-> Element4(n, i),
                      from |-> <<Element4(n, i), Element4(m, [k \in 1..4 |-> PackedMod(i[k], m[k])])>>]]
  PROVE  WrittenOnce(layout, Size4(n), <<Size4(n), Size4(m)>>) /\ Repeats(layout, n, m)
<1>1. DOMAIN layout = Places(n)
  OBVIOUS
<1>2. \A i \in Places(n) : layout[i].to = Element4(n, i)
  OBVIOUS
<1>3. {layout[i].to : i \in DOMAIN layout} = Upto(Size4(n)) /\ Cardinality(DOMAIN layout) = Size4(n)
  <2> DEFINE place == [i \in Places(n) |-> i]
  <2>1. /\ place \in [DOMAIN layout -> Places(n)]
        /\ \A i \in DOMAIN layout : layout[i].to = Element4(n, place[i])
        /\ \A i, j \in DOMAIN layout : place[i] = place[j] => i = j
        /\ \A p \in Places(n) : \E i \in DOMAIN layout : place[i] = p
    BY <1>1, <1>2
  <2> HIDE DEF place
  <2> QED
    BY <2>1, OnceByPlaces
<1>4. ASSUME NEW i \in Places(n), NEW k \in DOMAIN layout[i].from
      PROVE  layout[i].from[k] \in Upto(<<Size4(n), Size4(m)>>[k])
  <2>1. \A d \in 1..4 : i[d] \in Upto(n[d]) /\ i[d] \in Nat
    BY UptoNat DEF Places, Extents
  <2>2. Element4(n, i) \in Upto(Size4(n))
    BY <2>1, Element4In
  <2>3. Element4(m, [d \in 1..4 |-> PackedMod(i[d], m[d])]) \in Upto(Size4(m))
    BY <2>1, RepeatsInside
  <2>4. layout[i].from = <<Element4(n, i), Element4(m, [d \in 1..4 |-> PackedMod(i[d], m[d])])>>
    OBVIOUS
  <2>5. k = 1 \/ k = 2
    BY <2>4
  <2> QED
    BY <2>2, <2>3, <2>4, <2>5
<1>5. ASSUME NEW i \in Places(n)
      PROVE  /\ layout[i].from[1] = layout[i].to
             /\ \A k \in 1..4 :
                  Coordinates(m, layout[i].from[2])[k] = Coordinates(n, layout[i].to)[k] % m[k]
  <2>1. \A d \in 1..4 : i[d] \in Upto(n[d]) /\ i[d] \in Nat
    BY UptoNat DEF Places, Extents
  <2>2. Coordinates(n, Element4(n, i)) = <<i[1], i[2], i[3], i[4]>>
    BY <2>1, Element4Coordinates
  <2>3. \A k \in 1..4 :
          Coordinates(m, Element4(m, [d \in 1..4 |-> PackedMod(i[d], m[d])]))[k] = i[k] % m[k]
    BY <2>1, RepeatsInside
  <2>4. /\ layout[i].to = Element4(n, i) /\ layout[i].from[1] = Element4(n, i)
        /\ layout[i].from[2] = Element4(m, [d \in 1..4 |-> PackedMod(i[d], m[d])])
    OBVIOUS
  <2>5. \A k \in 1..4 : Coordinates(n, layout[i].to)[k] = i[k]
    BY <2>2, <2>4
  <2> QED
    BY <2>3, <2>4, <2>5
<1> QED
  BY <1>1, <1>3, <1>4, <1>5 DEF WrittenOnce, Repeats

\* bin_bcast and rms_norm.
LEMMA BroadcastExact ==
  ASSUME NEW n, \A k \in 1..3 : n[k] \in Nat, n[4] \in Nat \ {0}, NEW m, \A k \in 1..4 : m[k] \in Nat \ {0}
  PROVE  /\ WrittenOnce(BinBcast(n, m), Size4(n), <<Size4(n), Size4(m)>>) /\ Repeats(BinBcast(n, m), n, m)
         /\ WrittenOnce(RmsNorm(n, m), Size4(n), <<Size4(n), Size4(m)>>) /\ Repeats(RmsNorm(n, m), n, m)
<1>1. Extents(n)
  BY DEF Extents
<1>2. OneIfNone(n[4]) = n[4]
  BY DEF OneIfNone
<1>3. BinBcast(n, m) =
        [i \in Places(n) |->
           [to |-> Element4(n, i),
            from |-> <<Element4(n, i), Element4(m, [k \in 1..4 |-> PackedMod(i[k], m[k])])>>]]
  BY <1>2 DEF BinBcast, Places
<1>4. RmsNorm(n, m) =
        [i \in Places(n) |->
           [to |-> Element4(n, i),
            from |-> <<Element4(n, i), Element4(m, [k \in 1..4 |-> PackedMod(i[k], m[k])])>>]]
  BY DEF RmsNorm, Places, Element4
<1> QED
  BY <1>1, <1>3, <1>4, PlacesWrittenOnce

-----------------------------------------------------------------------------
(***************************************************************************)
(* get_rows: the last loop variable is two digits, told apart by division. *)
(***************************************************************************)
LEMMA Remainder ==
  ASSUME NEW n \in Nat, n # 0, NEW z \in Nat
  PROVE  z - (z \div n) * n = Lower(z, n)
<1>1. PICK q \in Nat, r \in Nat : q = z \div n /\ r = z % n /\ z = q * n + r
  OBVIOUS
<1>2. PICK p \in Nat : p = q * n
  OBVIOUS
<1>3. z - p = r
  BY <1>1, <1>2
<1> QED
  BY <1>1, <1>2, <1>3 DEF Lower

LEMMA GetRowsExact ==
  ASSUME NEW n, \A k \in 1..3 : n[k] \in Nat, n[4] \in Nat \ {0}, NEW rows \in Nat, NEW row,
         \A i \in Upto(n[2] * n[3] * n[4]) : row[i] \in Upto(rows)
  PROVE  /\ WrittenOnce(GetRows(n[1], n[2], n[3], n[4], rows, row), Size4(n), <<n[1] * rows * n[3] * n[4]>>)
         /\ TakesRows(GetRows(n[1], n[2], n[3], n[4], rows, row), n, rows, row)
<1> DEFINE layout == GetRows(n[1], n[2], n[3], n[4], rows, row)
           D == Upto(n[1]) \X Upto(n[2]) \X Upto(n[3] * n[4])
           At(i) == Digit(Digit(Lower(i[3], n[4]), n[3], Upper(i[3], n[4])), n[2], i[2])
           P(i) == <<i[1], i[2], Upper(i[3], n[4]), Lower(i[3], n[4])>>
           place == [i \in D |-> P(i)]
           w == <<n[1], rows, n[3], n[4]>>
           From(i) == <<i[1], row[At(i)], Upper(i[3], n[4]), Lower(i[3], n[4])>>
<1>1. Extents(n) /\ n[1] \in Nat /\ n[2] \in Nat /\ n[3] \in Nat /\ n[4] \in Nat /\ n[4] # 0
  BY DEF Extents
<1>2. OneIfNone(n[4]) = n[4]
  BY <1>1 DEF OneIfNone
<1>3. n[3] * n[4] = Product(n[3], n[4]) /\ n[3] * n[4] \in Nat
  BY <1>1 DEF Product
<1>4. ASSUME NEW i \in D
      PROVE  /\ i[1] \in Upto(n[1]) /\ i[2] \in Upto(n[2])
             /\ i[3] \in Nat /\ Upper(i[3], n[4]) \in Upto(n[3]) /\ Lower(i[3], n[4]) \in Upto(n[4])
             /\ i[3] = Digit(Upper(i[3], n[4]), n[4], Lower(i[3], n[4]))
             /\ i[3] - (i[3] \div n[4]) * n[4] = Lower(i[3], n[4])
  <2>1. i[1] \in Upto(n[1]) /\ i[2] \in Upto(n[2]) /\ i[3] \in Upto(Product(n[3], n[4]))
    BY <1>3
  <2>2. Product(n[3], n[4]) \in Nat
    BY <1>3
  <2>3. i[3] \in Nat
    BY <2>1, <2>2, UptoNat
  <2>4. i[3] - (i[3] \div n[4]) * n[4] = Lower(i[3], n[4])
    BY <1>1, <2>3, Remainder
  <2>5. /\ Upper(i[3], n[4]) \in Upto(n[3]) /\ Lower(i[3], n[4]) \in Upto(n[4])
        /\ i[3] = Digit(Upper(i[3], n[4]), n[4], Lower(i[3], n[4]))
    BY <1>1, <2>1, DigitOf
  <2> QED
    BY <2>1, <2>3, <2>4, <2>5
<1>5. layout = [i \in D |-> [to |-> Element4(n, P(i)), from |-> <<Element4(w, From(i))>>]]
  <2>1. layout = [i \in D |->
          LET q == i[3] \div n[4] r == i[3] - q * n[4] at == i[2] + q * n[2] + r * n[2] * n[3]
          IN [to |-> at * n[1] + i[1],
              from |-> <<((r * n[3] + q) * rows + row[at]) * n[1] + i[1]>>]]
    BY <1>2 DEF GetRows
  <2>2. ASSUME NEW i \in D
        PROVE  LET q == i[3] \div n[4] r == i[3] - q * n[4] at == i[2] + q * n[2] + r * n[2] * n[3]
               IN at = At(i) /\ q = Upper(i[3], n[4]) /\ r = Lower(i[3], n[4])
    <3> DEFINE q == i[3] \div n[4]
               r == i[3] - q * n[4]
    <3>1. q = Upper(i[3], n[4]) /\ r = Lower(i[3], n[4])
      BY <1>4 DEF Upper
    <3>2. q \in Nat /\ r \in Nat /\ i[2] \in Nat
      BY <1>1, <1>4, <3>1, UptoNat
    <3>3. PICK x, y, a, b, c \in Nat : x = q /\ y = r /\ a = i[2] /\ b = n[2] /\ c = n[3]
      BY <1>1, <3>2
    <3>4. a + x * b + y * b * c = (y * c + x) * b + a
      OBVIOUS
    <3> HIDE DEF q, r
    <3>5. i[2] + q * n[2] + r * n[2] * n[3] = (r * n[3] + q) * n[2] + i[2]
      BY <3>3, <3>4
    <3>6. i[2] + q * n[2] + r * n[2] * n[3] = At(i)
      BY <3>1, <3>5 DEF Digit
    <3> QED
      BY <3>1, <3>6 DEF q, r
  <2>3. ASSUME NEW i \in D
        PROVE  /\ Element4(n, P(i)) = At(i) * n[1] + i[1]
               /\ Element4(w, From(i))
                    = ((Lower(i[3], n[4]) * n[3] + Upper(i[3], n[4])) * rows + row[At(i)]) * n[1] + i[1]
    <3>1. P(i)[1] = i[1] /\ P(i)[2] = i[2] /\ P(i)[3] = Upper(i[3], n[4]) /\ P(i)[4] = Lower(i[3], n[4])
      OBVIOUS
    <3>2. From(i)[1] = i[1] /\ From(i)[2] = row[At(i)] /\ From(i)[3] = Upper(i[3], n[4])
          /\ From(i)[4] = Lower(i[3], n[4])
      OBVIOUS
    <3>3. w[1] = n[1] /\ w[2] = rows /\ w[3] = n[3] /\ w[4] = n[4]
      OBVIOUS
    <3> HIDE DEF P, From, w
    <3>4. Element4(n, P(i)) = At(i) * n[1] + i[1]
      BY <3>1 DEF Element4, Digit
    <3> HIDE DEF At
    <3> QED
      BY <3>2, <3>3, <3>4 DEF Element4
  <2> HIDE DEF layout, D, P, From, w, At
  <2> QED
    BY <2>1, <2>2, <2>3
<1>6. \A i \in D : P(i) \in Places(n)
  BY <1>4 DEF Places
<1>7. \A i, j \in D : P(i) = P(j) => i = j
  <2> TAKE i, j \in D
  <2> HAVE P(i) = P(j)
  <2>1. i[1] = j[1] /\ i[2] = j[2] /\ Upper(i[3], n[4]) = Upper(j[3], n[4]) /\ Lower(i[3], n[4]) = Lower(j[3], n[4])
    OBVIOUS
  <2>2. i[3] = j[3]
    BY <1>4, <2>1
  <2> QED
    BY <2>1, <2>2
<1>8. \A p \in Places(n) : \E i \in D : P(i) = p
  <2> TAKE p \in Places(n)
  <2>1. p[1] \in Upto(n[1]) /\ p[2] \in Upto(n[2]) /\ p[3] \in Upto(n[3]) /\ p[4] \in Upto(n[4])
        /\ p = <<p[1], p[2], p[3], p[4]>>
    BY DEF Places
  <2> DEFINE z == Digit(p[3], n[4], p[4])
  <2>2. z \in Upto(n[3] * n[4]) /\ Upper(z, n[4]) = p[3] /\ Lower(z, n[4]) = p[4]
    BY <1>1, <1>3, <2>1, DigitIn
  <2> DEFINE i == <<p[1], p[2], z>>
  <2>3. i \in D
    BY <2>1, <2>2
  <2>4. i[1] = p[1] /\ i[2] = p[2] /\ i[3] = z
    OBVIOUS
  <2>5. P(i) = p
    BY <2>1, <2>2, <2>4
  <2> QED
    BY <2>3, <2>5
<1>9. ASSUME NEW i \in D
      PROVE  /\ Element4(w, From(i)) \in Upto(n[1] * rows * n[3] * n[4])
             /\ Coordinates(w, Element4(w, From(i)))
                  = <<i[1], row[At(i)], Upper(i[3], n[4]), Lower(i[3], n[4])>>
  <2>1. w[1] = n[1] /\ w[2] = rows /\ w[3] = n[3] /\ w[4] = n[4]
    OBVIOUS
  <2>2. Extents(w)
    BY <1>1, <2>1 DEF Extents
  <2>3. Size4(w) = n[1] * rows * n[3] * n[4]
    BY <2>1 DEF Size4
  <2>4. At(i) \in Upto(n[2] * n[3] * n[4])
    <3>1. PICK a, b, c \in Nat : a = n[2] /\ b = n[3] /\ c = n[4]
      BY <1>1
    <3>2. a * b * c = (c * b) * a
      OBVIOUS
    <3>3. n[2] * n[3] * n[4] = Product(Product(n[4], n[3]), n[2])
      BY <3>1, <3>2 DEF Product
    <3>4. Digit(Lower(i[3], n[4]), n[3], Upper(i[3], n[4])) \in Upto(Product(n[4], n[3]))
      BY <1>1, <1>4, DigitIn
    <3>5. Product(n[4], n[3]) \in Nat
      BY <1>1, ProductIsNat
    <3> QED
      BY <1>1, <1>4, <3>3, <3>4, <3>5, DigitIn
  <2>5. row[At(i)] \in Upto(rows)
    BY <2>4
  <2> HIDE DEF At
  <2>6. \A k \in 1..4 : From(i)[k] \in Upto(w[k])
    BY <1>4, <2>1, <2>5
  <2>7. /\ From(i)[1] = i[1] /\ From(i)[2] = row[At(i)]
        /\ From(i)[3] = Upper(i[3], n[4]) /\ From(i)[4] = Lower(i[3], n[4])
    OBVIOUS
  <2> HIDE DEF From, w
  <2>8. Coordinates(w, Element4(w, From(i))) = <<From(i)[1], From(i)[2], From(i)[3], From(i)[4]>>
    BY <2>2, <2>6, Element4Coordinates
  <2> QED
    BY <2>2, <2>3, <2>6, <2>7, <2>8, Element4In
<1>10. ASSUME NEW i \in D
       PROVE  /\ Coordinates(n, Element4(n, P(i))) = <<i[1], i[2], Upper(i[3], n[4]), Lower(i[3], n[4])>>
              /\ Element4(n, P(i)) \div n[1] = At(i)
  <2>1. P(i)[1] = i[1] /\ P(i)[2] = i[2] /\ P(i)[3] = Upper(i[3], n[4]) /\ P(i)[4] = Lower(i[3], n[4])
    OBVIOUS
  <2>2. \A k \in 1..4 : P(i)[k] \in Upto(n[k])
    BY <1>4, <2>1
  <2> HIDE DEF P
  <2>3. Coordinates(n, Element4(n, P(i))) = <<P(i)[1], P(i)[2], P(i)[3], P(i)[4]>>
    BY <1>1, <2>2, Element4Coordinates
  <2>4. Element4(n, P(i)) = Digit(At(i), n[1], i[1])
    BY <2>1, Element4Digits
  <2>5. Upper(Digit(At(i), n[1], i[1]), n[1]) = At(i)
    <3>1. Digit(Lower(i[3], n[4]), n[3], Upper(i[3], n[4])) \in Upto(Product(n[4], n[3]))
      BY <1>1, <1>4, DigitIn
    <3>2. Product(n[4], n[3]) \in Nat
      BY <1>1, ProductIsNat
    <3>3. At(i) \in Upto(Product(Product(n[4], n[3]), n[2])) /\ Product(Product(n[4], n[3]), n[2]) \in Nat
      BY <1>1, <1>4, <3>1, <3>2, DigitIn, ProductIsNat
    <3> HIDE DEF At
    <3> QED
      BY <1>1, <1>4, <3>3, DigitIn
  <2> QED
    BY <2>1, <2>3, <2>4, <2>5 DEF Upper
<1>11. w = <<n[1], rows, n[3], n[4]>>
  OBVIOUS
<1> HIDE DEF layout, D, P, w, From
<1>12. DOMAIN layout = D /\ \A i \in D : layout[i].to = Element4(n, P(i)) /\ layout[i].from = <<Element4(w, From(i))>>
  BY <1>5
<1>13. {layout[i].to : i \in DOMAIN layout} = Upto(Size4(n)) /\ Cardinality(DOMAIN layout) = Size4(n)
  <2>1. /\ place \in [DOMAIN layout -> Places(n)]
        /\ \A i \in DOMAIN layout : layout[i].to = Element4(n, place[i])
        /\ \A i, j \in DOMAIN layout : place[i] = place[j] => i = j
        /\ \A p \in Places(n) : \E i \in DOMAIN layout : place[i] = p
    BY <1>6, <1>7, <1>8, <1>12
  <2> HIDE DEF place
  <2> QED
    BY <1>1, <2>1, OnceByPlaces
<1>14. ASSUME NEW i \in DOMAIN layout, NEW k \in DOMAIN layout[i].from
       PROVE  layout[i].from[k] \in Upto(<<n[1] * rows * n[3] * n[4]>>[k])
  <2>1. i \in D /\ layout[i].from = <<Element4(w, From(i))>> /\ k = 1
    BY <1>12
  <2> QED
    BY <1>9, <2>1
<1>15. WrittenOnce(layout, Size4(n), <<n[1] * rows * n[3] * n[4]>>)
  BY <1>13, <1>14 DEF WrittenOnce
<1> HIDE DEF At
<1>16. ASSUME NEW i \in DOMAIN layout
       PROVE  LET at == Coordinates(n, layout[i].to)
              IN Coordinates(w, layout[i].from[1]) = <<at[1], row[layout[i].to \div n[1]], at[3], at[4]>>
  <2>1. i \in D /\ layout[i].to = Element4(n, P(i)) /\ layout[i].from[1] = Element4(w, From(i))
    BY <1>12
  <2>2. Coordinates(w, layout[i].from[1]) = <<i[1], row[At(i)], Upper(i[3], n[4]), Lower(i[3], n[4])>>
    BY <1>9, <2>1
  <2>3. /\ Coordinates(n, layout[i].to) = <<i[1], i[2], Upper(i[3], n[4]), Lower(i[3], n[4])>>
        /\ layout[i].to \div n[1] = At(i)
    BY <1>10, <2>1
  <2> QED
    BY <2>2, <2>3
<1>17. TakesRows(layout, n, rows, row)
  BY <1>11, <1>16 DEF TakesRows
<1> QED
  BY <1>15, <1>17 DEF layout

-----------------------------------------------------------------------------
(***************************************************************************)
(* quantize_q8_1: a column is a block and a value of it.                   *)
(***************************************************************************)
LEMMA WholeMultiple ==
  ASSUME NEW b \in Nat, b # 0, NEW n \in Nat, n % b = 0
  PROVE  \E k \in Nat : n = k * b
<1>1. PICK k \in Nat, r \in Nat : k = n \div b /\ r = n % b /\ n = k * b + r
  OBVIOUS
<1> QED
  BY <1>1

LEMMA MultipleDivides ==
  ASSUME NEW b \in Nat, b # 0, NEW k \in Nat, NEW t \in Nat, t < b
  PROVE  (k * b + t) \div b = k /\ (k * b + t) % b = t /\ (k * b) \div b = k
<1>1. k \in Upto(k + 1) /\ t \in Upto(b) /\ 0 \in Upto(b) /\ k + 1 \in Nat
  BY DEF Upto
<1>2. Upper(Digit(k, b, t), b) = k /\ Lower(Digit(k, b, t), b) = t /\ Upper(Digit(k, b, 0), b) = k
  BY <1>1, DigitIn
<1>3. k * b + 0 = k * b
  OBVIOUS
<1> QED
  BY <1>2, <1>3 DEF Upper, Lower, Digit

\* Value t of the block that e is in.
InBlock(e, b, t) == (e \div b) * b + t

LEMMA BlockIn ==
  ASSUME NEW b \in Nat, b # 0, NEW n \in Nat, Lower(n, b) = 0, NEW c \in Upto(n), Lower(c, b) = 0,
         NEW t \in Upto(b), NEW R \in Nat, NEW v, v = c + t
  PROVE  v \in Upto(n) /\ v \in Nat /\ Lower(v, b) = t /\ InBlock(Digit(R, n, c), b, t) = Digit(R, n, v)
<1>1. c \in Nat /\ t \in Nat /\ c < n /\ t < b /\ n % b = 0 /\ c % b = 0
  BY DEF Upto, Lower
<1>2. PICK M \in Nat : n = M * b
  BY <1>1, WholeMultiple
<1>3. PICK m \in Nat : c = m * b
  BY <1>1, WholeMultiple
<1>4. m < M
  <2> SUFFICES ASSUME m >= M PROVE FALSE
    OBVIOUS
  <2>1. m * b >= M * b
    OBVIOUS
  <2> QED
    BY <1>1, <1>2, <1>3, <2>1
<1>5. m * b + b <= M * b
  <2>1. m + 1 <= M
    BY <1>4
  <2>2. (m + 1) * b <= M * b
    BY <2>1
  <2>3. (m + 1) * b = m * b + b
    OBVIOUS
  <2> QED
    BY <2>2, <2>3
<1>6. c + t < n
  BY <1>1, <1>2, <1>3, <1>5
<1>7. (c + t) % b = t
  BY <1>1, <1>3, MultipleDivides
<1>8. PICK K \in Nat : K = R * M + m
  OBVIOUS
<1>9. R * n + c = K * b
  BY <1>2, <1>3, <1>8
<1>10. (K * b) \div b = K
  BY MultipleDivides
<1>11. ((R * n + c) \div b) * b + t = R * n + (c + t)
  <2>1. ((R * n + c) \div b) * b = R * n + c
    BY <1>9, <1>10
  <2>2. PICK x \in Nat : x = R * n
    OBVIOUS
  <2> QED
    BY <1>1, <2>1, <2>2
<1> QED
  BY <1>1, <1>6, <1>7, <1>11 DEF Upto, Digit, Lower, InBlock

LEMMA BlockOf ==
  ASSUME NEW b \in Nat, b # 0, NEW n \in Nat, NEW v \in Upto(n)
  PROVE  \E c \in Upto(n), t \in Upto(b) : c % b = 0 /\ c + t = v
<1>1. v \in Nat /\ v < n
  BY DEF Upto
<1>2. PICK k \in Nat, t \in Nat : k = v \div b /\ t = v % b /\ v = k * b + t /\ t < b
  BY <1>1
<1>3. PICK c \in Nat : c = k * b
  OBVIOUS
<1>4. c % b = 0
  <2>1. (k * b + 0) % b = 0
    BY MultipleDivides
  <2>2. k * b + 0 = c
    BY <1>3
  <2> QED
    BY <2>1, <2>2
<1>5. c + t = v /\ c < n
  BY <1>1, <1>2, <1>3
<1>6. c \in Upto(n) /\ t \in Upto(b)
  BY <1>2, <1>5 DEF Upto
<1> QED
  BY <1>4, <1>5, <1>6

LEMMA QuantizeExact ==
  ASSUME NEW n, Extents(n), NEW ne00 \in Nat, NEW b \in Nat, b # 0, n[1] % b = 0
  PROVE  LET l == Quantize(ne00, n, b, n[3] * n[4])
         IN /\ WrittenOnce(l, Size4(n), <<ne00 * n[2] * n[3] * n[4]>>)
            /\ \A i \in DOMAIN l :
                 l[i].from = LET column == l[i].to % n[1] row == l[i].to \div n[1]
                             IN IF column < ne00 THEN <<row * ne00 + column>> ELSE <<>>
<1> DEFINE layout == Quantize(ne00, n, b, n[3] * n[4])
           D == {x \in Upto(b) \X Upto(n[1]) \X Upto(n[2]) \X Upto(n[3] * n[4]) : x[2] % b = 0}
           Row(i) == Digit(i[4], n[2], i[3])
           Column(i) == i[2] + i[1]
           From(i) == IF Column(i) < ne00 THEN <<Digit(Row(i), ne00, Column(i))>> ELSE << >>
           P(i) == <<Column(i), i[3], Lower(i[4], n[3]), Upper(i[4], n[3])>>
           place == [i \in D |-> P(i)]
<1>1. n[1] \in Nat /\ n[2] \in Nat /\ n[3] \in Nat /\ n[4] \in Nat
  BY DEF Extents
<1>2. n[3] * n[4] = Product(n[4], n[3]) /\ Product(n[4], n[3]) \in Nat
  BY <1>1 DEF Product
<1>3. ASSUME NEW i \in D
      PROVE  /\ i[1] \in Upto(b) /\ i[2] \in Upto(n[1]) /\ i[2] % b = 0 /\ i[3] \in Upto(n[2])
             /\ i[4] \in Upto(Product(n[4], n[3])) /\ n[3] # 0
             /\ i[1] \in Nat /\ i[2] \in Nat /\ i[3] \in Nat /\ i[4] \in Nat
  <2>1. /\ i[1] \in Upto(b) /\ i[2] \in Upto(n[1]) /\ i[2] % b = 0 /\ i[3] \in Upto(n[2])
        /\ i[4] \in Upto(Product(n[4], n[3]))
    BY <1>2
  <2>2. i[1] \in Nat /\ i[2] \in Nat /\ i[3] \in Nat /\ i[4] \in Nat /\ i[4] < Product(n[4], n[3])
    BY <1>1, <1>2, <2>1, UptoNat
  <2>3. n[3] # 0
    <3>1. ASSUME n[3] = 0 PROVE FALSE
      <4>1. Product(n[4], n[3]) = 0
        BY <1>1, <3>1 DEF Product
      <4> QED
        BY <2>2, <4>1
    <3> QED
      BY <3>1
  <2> QED
    BY <2>1, <2>2, <2>3
<1>4. ASSUME NEW i \in D
      PROVE  /\ Row(i) \in Nat /\ Row(i) \in Upto(Product(Product(n[4], n[3]), n[2]))
             /\ Column(i) \in Upto(n[1]) /\ Column(i) \in Nat /\ Column(i) % b = i[1]
             /\ ((Row(i) * n[1] + i[2]) \div b) * b + i[1] = Digit(Row(i), n[1], Column(i))
             /\ Lower(i[4], n[3]) \in Upto(n[3]) /\ Upper(i[4], n[3]) \in Upto(n[4])
             /\ i[4] = Digit(Upper(i[4], n[3]), n[3], Lower(i[4], n[3]))
             /\ i[4] - (i[4] \div n[3]) * n[3] = Lower(i[4], n[3])
             /\ OneIfNone(n[3]) = n[3]
  <2>1. Row(i) \in Nat /\ Row(i) \in Upto(Product(Product(n[4], n[3]), n[2]))
    BY <1>1, <1>2, <1>3, DigitIn
  <2>2. /\ Column(i) \in Upto(n[1]) /\ Column(i) \in Nat /\ Column(i) % b = i[1]
        /\ ((Row(i) * n[1] + i[2]) \div b) * b + i[1] = Digit(Row(i), n[1], Column(i))
    <3> HIDE DEF Row
    <3>1. Lower(n[1], b) = 0 /\ Lower(i[2], b) = 0
      BY <1>3 DEF Lower
    <3>2. /\ Column(i) \in Upto(n[1]) /\ Column(i) \in Nat /\ Lower(Column(i), b) = i[1]
          /\ InBlock(Digit(Row(i), n[1], i[2]), b, i[1]) = Digit(Row(i), n[1], Column(i))
      BY <1>1, <1>3, <2>1, <3>1, BlockIn
    <3> HIDE DEF Column
    <3> QED
      BY <3>2 DEF Lower, InBlock, Digit
  <2>3. /\ Lower(i[4], n[3]) \in Upto(n[3]) /\ Upper(i[4], n[3]) \in Upto(n[4])
        /\ i[4] = Digit(Upper(i[4], n[3]), n[3], Lower(i[4], n[3]))
    BY <1>1, <1>3, DigitOf
  <2>4. i[4] - (i[4] \div n[3]) * n[3] = Lower(i[4], n[3])
    BY <1>1, <1>3, Remainder
  <2>5. OneIfNone(n[3]) = n[3]
    BY <1>3 DEF OneIfNone
  <2> QED
    BY <2>1, <2>2, <2>3, <2>4, <2>5
<1>5. layout = [i \in D |-> [to |-> Digit(Row(i), n[1], Column(i)), from |-> From(i)]]
  <2> DEFINE m == OneIfNone(n[3])
             z(i) == (i[4] \div m) * m + (i[4] - (i[4] \div m) * m)
             R(i) == z(i) * n[2] + i[3]
  <2>1. layout = [i \in D |-> [to |-> ((R(i) * n[1] + i[2]) \div b) * b + i[1],
                               from |-> IF Column(i) < ne00 THEN <<R(i) * ne00 + Column(i)>> ELSE << >>]]
    BY DEF Quantize
  <2>2. ASSUME NEW i \in D PROVE R(i) = Row(i)
    <3>1. z(i) = i[4]
      <4>1. m = n[3] /\ i[4] - (i[4] \div m) * m = Lower(i[4], n[3])
        BY <1>4
      <4>2. i[4] = (i[4] \div m) * m + Lower(i[4], n[3])
        BY <1>4, <4>1 DEF Digit, Upper
      <4> QED
        BY <4>1, <4>2
    <3> QED
      BY <3>1 DEF Digit
  <2>3. ASSUME NEW i \in D
        PROVE  /\ ((R(i) * n[1] + i[2]) \div b) * b + i[1] = Digit(Row(i), n[1], Column(i))
               /\ (IF Column(i) < ne00 THEN <<R(i) * ne00 + Column(i)>> ELSE << >>) = From(i)
    <3> HIDE DEF R, Row, Column
    <3>1. ((R(i) * n[1] + i[2]) \div b) * b + i[1] = Digit(Row(i), n[1], Column(i))
      BY <1>4, <2>2
    <3>2. R(i) * ne00 + Column(i) = Digit(Row(i), ne00, Column(i))
      BY <2>2 DEF Digit
    <3> QED
      BY <3>1, <3>2
  <2> HIDE DEF layout, R, Row, Column, From, D
  <2> QED
    BY <2>1, <2>3
<1>6. \A i \in D : P(i) \in Places(n)
  <2> HIDE DEF Column
  <2> QED
    BY <1>3, <1>4 DEF Places
<1>7. ASSUME NEW i \in D PROVE Element4(n, P(i)) = Digit(Row(i), n[1], Column(i))
  <2>1. P(i)[1] = Column(i) /\ P(i)[2] = i[3] /\ P(i)[3] = Lower(i[4], n[3]) /\ P(i)[4] = Upper(i[4], n[3])
    OBVIOUS
  <2>2. Element4(n, P(i)) = Digit(Digit(Digit(P(i)[4], n[3], P(i)[3]), n[2], P(i)[2]), n[1], P(i)[1])
    BY Element4Digits
  <2> HIDE DEF P, Column
  <2> QED
    BY <1>4, <2>1, <2>2
<1>8. \A i, j \in D : P(i) = P(j) => i = j
  <2> TAKE i, j \in D
  <2> HAVE P(i) = P(j)
  <2>1. /\ Column(i) = Column(j) /\ i[3] = j[3] /\ Lower(i[4], n[3]) = Lower(j[4], n[3])
        /\ Upper(i[4], n[3]) = Upper(j[4], n[3])
    OBVIOUS
  <2>2. i[4] = j[4] /\ i[1] = j[1]
    <3> HIDE DEF Column
    <3> QED
      BY <1>4, <2>1
  <2>3. i[2] = j[2]
    BY <1>3, <2>1, <2>2
  <2> QED
    BY <2>1, <2>2, <2>3
<1>9. \A p \in Places(n) : \E i \in D : P(i) = p
  <2> TAKE p \in Places(n)
  <2>1. p[1] \in Upto(n[1]) /\ p[2] \in Upto(n[2]) /\ p[3] \in Upto(n[3]) /\ p[4] \in Upto(n[4])
        /\ p = <<p[1], p[2], p[3], p[4]>>
    BY DEF Places
  <2> DEFINE z == Digit(p[4], n[3], p[3])
  <2>2. z \in Upto(n[3] * n[4]) /\ Upper(z, n[3]) = p[4] /\ Lower(z, n[3]) = p[3]
    BY <1>1, <1>2, <2>1, DigitIn
  <2>3. PICK c \in Upto(n[1]), t \in Upto(b) : c % b = 0 /\ c + t = p[1]
    BY <1>1, <2>1, BlockOf
  <2> DEFINE i == <<t, c, p[2], z>>
  <2>4. i[1] = t /\ i[2] = c /\ i[3] = p[2] /\ i[4] = z
    OBVIOUS
  <2>5. i \in D
    BY <2>1, <2>2, <2>3
  <2>6. P(i) = p
    BY <2>1, <2>2, <2>3, <2>4
  <2> QED
    BY <2>5, <2>6
<1>10. ASSUME NEW i \in D, NEW k \in DOMAIN From(i)
       PROVE  From(i)[k] \in Upto(<<ne00 * n[2] * n[3] * n[4]>>[k])
  <2>1. k = 1 /\ Column(i) < ne00 /\ From(i)[1] = Digit(Row(i), ne00, Column(i))
    <3> HIDE DEF Column, Row
    <3> QED
      OBVIOUS
  <2>2. Column(i) \in Upto(ne00)
    <3> HIDE DEF Column
    <3> QED
      BY <1>4, <2>1 DEF Upto
  <2>3. ne00 * n[2] * n[3] * n[4] = Product(Product(Product(n[4], n[3]), n[2]), ne00)
    <3>1. PICK x, y, z \in Nat : x = n[2] /\ y = n[3] /\ z = n[4]
      BY <1>1
    <3>2. ne00 * x * y * z = ((z * y) * x) * ne00
      OBVIOUS
    <3> QED
      BY <3>1, <3>2 DEF Product
  <2>4. Digit(Row(i), ne00, Column(i)) \in Upto(Product(Product(Product(n[4], n[3]), n[2]), ne00))
    <3>1. Product(Product(n[4], n[3]), n[2]) \in Nat
      BY <1>1, ProductIsNat
    <3> HIDE DEF Row, Column
    <3> QED
      BY <1>4, <2>2, <3>1, DigitIn
  <2> QED
    BY <2>1, <2>3, <2>4
<1>11. ASSUME NEW i \in D
       PROVE  LET to == Digit(Row(i), n[1], Column(i)) IN to % n[1] = Column(i) /\ to \div n[1] = Row(i)
  <2>1. Product(Product(n[4], n[3]), n[2]) \in Nat
    BY <1>1, ProductIsNat
  <2> HIDE DEF Row, Column
  <2>2. LET to == Digit(Row(i), n[1], Column(i)) IN Lower(to, n[1]) = Column(i) /\ Upper(to, n[1]) = Row(i)
    BY <1>1, <1>4, <2>1, DigitIn
  <2> QED
    BY <2>2 DEF Lower, Upper
<1> HIDE DEF layout, D, P, From, Row, Column
<1>12. DOMAIN layout = D /\ \A i \in D : layout[i].to = Digit(Row(i), n[1], Column(i)) /\ layout[i].from = From(i)
  BY <1>5
<1>13. {layout[i].to : i \in DOMAIN layout} = Upto(Size4(n)) /\ Cardinality(DOMAIN layout) = Size4(n)
  <2>1. /\ place \in [DOMAIN layout -> Places(n)]
        /\ \A i \in DOMAIN layout : layout[i].to = Element4(n, place[i])
        /\ \A i, j \in DOMAIN layout : place[i] = place[j] => i = j
        /\ \A p \in Places(n) : \E i \in DOMAIN layout : place[i] = p
    BY <1>6, <1>7, <1>8, <1>9, <1>12
  <2> HIDE DEF place
  <2> QED
    BY <2>1, OnceByPlaces
<1>14. WrittenOnce(layout, Size4(n), <<ne00 * n[2] * n[3] * n[4]>>)
  BY <1>10, <1>12, <1>13 DEF WrittenOnce
<1>15. ASSUME NEW i \in DOMAIN layout
       PROVE  layout[i].from = LET column == layout[i].to % n[1] row == layout[i].to \div n[1]
                               IN IF column < ne00 THEN <<row * ne00 + column>> ELSE << >>
  BY <1>11, <1>12 DEF From, Digit
<1> QED
  BY <1>14, <1>15 DEF layout

-----------------------------------------------------------------------------
(***************************************************************************)
(* rope_multi: a column is one of a pair.                                  *)
(***************************************************************************)
RopeColumn(w, i0, dims) ==
  IF i0 < dims THEN i0 \div 2 + w * (dims \div 2) ELSE i0 \div 2 + i0 \div 2 + w

LEMMA Half ==
  ASSUME NEW n \in Nat, n % 2 = 0
  PROVE  \E h \in Nat : n = 2 * h /\ n \div 2 = h
OBVIOUS

LEMMA RopeColumnIn ==
  ASSUME NEW n \in Nat, n % 2 = 0, NEW dims \in Nat, dims <= n, dims % 2 = 0,
         NEW w \in {0, 1}, NEW i0 \in Upto(n), i0 % 2 = 0
  PROVE  /\ RopeColumn(w, i0, dims) \in Upto(n) /\ RopeColumn(w, i0, dims) \in Nat
         /\ i0 \div 2 \in Nat /\ dims \div 2 \in Nat
         /\ i0 < dims => /\ i0 \div 2 \in Upto(n) /\ i0 \div 2 + dims \div 2 \in Upto(n)
                         /\ RopeColumn(w, i0, dims) = IF w = 0 THEN i0 \div 2 ELSE i0 \div 2 + dims \div 2
<1>1. PICK N \in Nat : n = 2 * N
  BY Half
<1>2. PICK d \in Nat : dims = 2 * d /\ dims \div 2 = d
  BY Half
<1>3. i0 \in Nat /\ i0 < n
  BY DEF Upto
<1>4. PICK h \in Nat : i0 = 2 * h /\ i0 \div 2 = h
  BY <1>3, Half
<1>5. CASE w = 0
  BY <1>1, <1>2, <1>3, <1>4, <1>5 DEF RopeColumn, Upto
<1>6. CASE w = 1
  BY <1>1, <1>2, <1>3, <1>4, <1>6 DEF RopeColumn, Upto
<1> QED
  BY <1>5, <1>6

LEMMA RopeColumnOnce ==
  ASSUME NEW n \in Nat, n % 2 = 0, NEW dims \in Nat, dims <= n, dims % 2 = 0,
         NEW w \in {0, 1}, NEW i \in Upto(n), i % 2 = 0,
         NEW v \in {0, 1}, NEW j \in Upto(n), j % 2 = 0,
         RopeColumn(w, i, dims) = RopeColumn(v, j, dims)
  PROVE  w = v /\ i = j
<1>1. PICK N \in Nat : n = 2 * N
  BY Half
<1>2. PICK d \in Nat : dims = 2 * d /\ dims \div 2 = d
  BY Half
<1>3. i \in Nat /\ i < n /\ j \in Nat /\ j < n
  BY DEF Upto
<1>4. PICK h \in Nat : i = 2 * h /\ i \div 2 = h
  BY <1>3, Half
<1>5. PICK g \in Nat : j = 2 * g /\ j \div 2 = g
  BY <1>3, Half
<1>6. /\ w = 0 /\ h < d => RopeColumn(w, i, dims) = h
      /\ w = 1 /\ h < d => RopeColumn(w, i, dims) = h + d
      /\ w = 0 /\ h >= d => RopeColumn(w, i, dims) = 2 * h
      /\ w = 1 /\ h >= d => RopeColumn(w, i, dims) = 2 * h + 1
  BY <1>2, <1>4 DEF RopeColumn
<1>7. /\ v = 0 /\ g < d => RopeColumn(v, j, dims) = g
      /\ v = 1 /\ g < d => RopeColumn(v, j, dims) = g + d
      /\ v = 0 /\ g >= d => RopeColumn(v, j, dims) = 2 * g
      /\ v = 1 /\ g >= d => RopeColumn(v, j, dims) = 2 * g + 1
  BY <1>2, <1>5 DEF RopeColumn
<1> DEFINE x == RopeColumn(w, i, dims)
<1>10. x \in Nat /\ x = RopeColumn(v, j, dims)
  BY RopeColumnIn
<1> HIDE DEF x
<1>8. w \in Nat /\ w <= 1 /\ v \in Nat /\ v <= 1
  OBVIOUS
<1>9. h = g /\ w = v
  <2>1. CASE w = 0 /\ v = 0
    BY <1>6, <1>7, <1>10, <2>1 DEF x
  <2>2. CASE w = 0 /\ v = 1
    BY <1>6, <1>7, <1>10, <2>2 DEF x
  <2>3. CASE w = 1 /\ v = 0
    BY <1>6, <1>7, <1>10, <2>3 DEF x
  <2>4. CASE w = 1 /\ v = 1
    BY <1>6, <1>7, <1>10, <2>4 DEF x
  <2> QED
    BY <1>8, <2>1, <2>2, <2>3, <2>4
<1> QED
  BY <1>4, <1>5, <1>9

LEMMA RopeColumnOf ==
  ASSUME NEW n \in Nat, n % 2 = 0, NEW dims \in Nat, dims <= n, dims % 2 = 0, NEW c \in Upto(n)
  PROVE  \E w \in {0, 1}, i \in Upto(n) : i % 2 = 0 /\ RopeColumn(w, i, dims) = c
<1>1. PICK N \in Nat : n = 2 * N
  BY Half
<1>2. PICK d \in Nat : dims = 2 * d /\ dims \div 2 = d
  BY Half
<1>3. c \in Nat /\ c < n
  BY DEF Upto
<1>4. CASE c < d
  <2>1. PICK i \in Nat : i = 2 * c /\ i % 2 = 0 /\ i \div 2 = c /\ i < n /\ i < dims
    BY <1>1, <1>2, <1>3, <1>4
  <2>2. i \in Upto(n) /\ RopeColumn(0, i, dims) = c
    BY <1>2, <2>1 DEF Upto, RopeColumn
  <2> QED
    BY <2>1, <2>2
<1>5. CASE c >= d /\ c < dims
  <2>1. PICK i \in Nat : i = 2 * (c - d) /\ i % 2 = 0 /\ i \div 2 = c - d /\ i < n /\ i < dims
    BY <1>1, <1>2, <1>3, <1>5
  <2>2. i \in Upto(n) /\ RopeColumn(1, i, dims) = c
    BY <1>2, <1>3, <2>1 DEF Upto, RopeColumn
  <2> QED
    BY <2>1, <2>2
<1>6. CASE c >= dims
  <2>1. PICK h \in Nat, w \in Nat : h = c \div 2 /\ w = c % 2 /\ c = 2 * h + w /\ w < 2
    BY <1>3
  <2>2. PICK i \in Nat : i = 2 * h /\ i % 2 = 0 /\ i \div 2 = h
    OBVIOUS
  <2>3. i < n /\ i >= dims
    BY <1>1, <1>2, <1>3, <1>6, <2>1, <2>2
  <2>4. i \in Upto(n) /\ RopeColumn(w, i, dims) = c /\ w \in {0, 1}
    BY <1>3, <2>1, <2>2, <2>3 DEF Upto, RopeColumn
  <2> QED
    BY <2>2, <2>4
<1> QED
  BY <1>2, <1>3, <1>4, <1>5, <1>6

LEMMA RopeExact ==
  ASSUME NEW n, Extents(n), n[1] % 2 = 0, NEW dims \in Nat, dims <= n[1], dims % 2 = 0
  PROVE  LET l == RopeMulti(n, dims, n[2] * n[3] * n[4])
         IN WrittenOnce(l, Size4(n), <<Size4(n), Size4(n)>>) /\ InItsRow(l, n[1])
<1> DEFINE layout == RopeMulti(n, dims, n[2] * n[3] * n[4])
           rows == n[2] * n[3] * n[4]
           D == {x \in {0, 1} \X Upto(n[1]) \X Upto(rows) : x[2] % 2 = 0}
           To(i) == Digit(i[3], n[1], RopeColumn(i[1], i[2], dims))
           From(i) == IF i[2] < dims
                        THEN <<Digit(i[3], n[1], i[2] \div 2), Digit(i[3], n[1], i[2] \div 2 + dims \div 2)>>
                        ELSE <<To(i)>>
<1>1. n[1] \in Nat /\ n[2] \in Nat /\ n[3] \in Nat /\ n[4] \in Nat
  BY DEF Extents
<1>2. rows \in Nat /\ Size4(n) = Product(rows, n[1]) /\ Size4(n) \in Nat
  <2>1. PICK a, b, c, d \in Nat : a = n[1] /\ b = n[2] /\ c = n[3] /\ d = n[4]
    BY <1>1
  <2>2. a * b * c * d = (b * c * d) * a /\ b * c * d \in Nat /\ (b * c * d) * a \in Nat
    OBVIOUS
  <2> QED
    BY <2>1, <2>2 DEF Size4, Product
<1>3. ASSUME NEW i \in D
      PROVE  /\ i[1] \in {0, 1} /\ i[2] \in Upto(n[1]) /\ i[2] % 2 = 0 /\ i[2] \in Nat
             /\ i[3] \in Upto(rows) /\ i[3] \in Nat /\ n[2] # 0 /\ n[3] # 0
             /\ i = <<i[1], i[2], i[3]>>
  <2>1. i[1] \in {0, 1} /\ i[2] \in Upto(n[1]) /\ i[2] % 2 = 0 /\ i[3] \in Upto(rows) /\ i = <<i[1], i[2], i[3]>>
    OBVIOUS
  <2> HIDE DEF rows
  <2>2. i[2] \in Nat /\ i[3] \in Nat /\ i[3] < rows
    BY <1>1, <1>2, <2>1, UptoNat
  <2>3. rows # 0
    BY <1>2, <2>2
  <2>4. n[2] # 0 /\ n[3] # 0
    <3>1. PICK b, c, d \in Nat : b = n[2] /\ c = n[3] /\ d = n[4]
      BY <1>1
    <3>2. b = 0 => b * c * d = 0
      OBVIOUS
    <3>3. c = 0 => b * c * d = 0
      OBVIOUS
    <3> QED
      BY <2>3, <3>1, <3>2, <3>3 DEF rows
  <2> QED
    BY <2>1, <2>2, <2>4
<1>4. layout = [i \in D |-> [to |-> To(i), from |-> From(i)]]
  <2> DEFINE nm == n[2] * n[3]
             i3(r) == r \div nm
             i2(r) == (r - i3(r) * nm) \div n[2]
             i1(r) == r - i3(r) * nm - i2(r) * n[2]
             Base(i0, r) == i0 \div 2 + i1(r) * n[1] + i2(r) * n[2] * n[1] + i3(r) * n[3] * n[2] * n[1]
  <2>1. layout = [i \in D |->
          [to |-> IF i[2] < dims THEN Base(i[2], i[3]) + i[1] * (dims \div 2)
                                 ELSE Base(i[2], i[3]) + i[2] \div 2 + i[1],
           from |-> IF i[2] < dims THEN <<Base(i[2], i[3]), Base(i[2], i[3]) + dims \div 2>>
                                   ELSE <<Base(i[2], i[3]) + i[2] \div 2 + i[1]>>]]
    BY DEF RopeMulti
  <2>2. ASSUME NEW i \in D PROVE Base(i[2], i[3]) = Digit(i[3], n[1], i[2] \div 2)
    <3>0. i[2] \div 2 \in Nat
      BY <1>3, Half
    <3>1. PICK r, a, b, c, h \in Nat : r = i[3] /\ a = n[1] /\ b = n[2] /\ c = n[3] /\ h = i[2] \div 2 /\ b # 0 /\ c # 0
      <4>1. i[3] \in Nat /\ n[2] # 0 /\ n[3] # 0
        BY <1>3
      <4> DEFINE g == i[2] \div 2
      <4> HIDE DEF g, D, rows
      <4>2. g \in Nat
        BY <3>0 DEF g
      <4>3. \E r, a, b, c, h \in Nat : r = i[3] /\ a = n[1] /\ b = n[2] /\ c = n[3] /\ h = g /\ b # 0 /\ c # 0
        BY <1>1, <4>1, <4>2
      <4> QED
        BY <4>3 DEF g
    <3>2. PICK m \in Nat : m = b * c /\ m # 0
      BY <3>1
    <3>3. PICK x \in Int : x = r \div m
      BY <3>2
    <3>4. PICK y \in Int : y = (r - x * m) \div b
      BY <3>1
    <3>5. h + (r - x * m - y * b) * a + y * b * a + x * c * b * a = r * a + h
      BY <3>2
    <3>6. i3(i[3]) = x /\ i2(i[3]) = y /\ i1(i[3]) = r - x * m - y * b
      BY <3>1, <3>2, <3>3, <3>4
    <3> HIDE DEF i3, i2, i1
    <3> QED
      BY <3>1, <3>5, <3>6 DEF Digit
  <2>3. ASSUME NEW i \in D
        PROVE  LET base == Digit(i[3], n[1], i[2] \div 2)
               IN /\ (IF i[2] < dims THEN base + i[1] * (dims \div 2) ELSE base + i[2] \div 2 + i[1]) = To(i)
                  /\ (IF i[2] < dims THEN <<base, base + dims \div 2>> ELSE <<base + i[2] \div 2 + i[1]>>) = From(i)
    <3>0. i[2] \div 2 \in Nat /\ dims \div 2 \in Nat
      BY <1>3, Half
    <3>1. PICK r, a, j, h, d, w \in Nat : /\ r = i[3] /\ a = n[1] /\ j = i[2] /\ h = i[2] \div 2
                                          /\ d = dims \div 2 /\ w = i[1]
      <4> DEFINE g == i[2] \div 2
                 f == dims \div 2
      <4> HIDE DEF g, f, D, rows
      <4>1. g \in Nat /\ f \in Nat
        BY <3>0 DEF g, f
      <4>2. i[1] \in Nat /\ i[2] \in Nat /\ i[3] \in Nat
        BY <1>3
      <4>3. \E r, a, j, h, d, w \in Nat : r = i[3] /\ a = n[1] /\ j = i[2] /\ h = g /\ d = f /\ w = i[1]
        BY <1>1, <4>1, <4>2
      <4> QED
        BY <4>3 DEF g, f
    <3>2. PICK p \in Nat : p = r * a
      OBVIOUS
    <3>3. PICK q \in Nat : q = w * d
      OBVIOUS
    <3>4. (p + h) + q = p + (h + q) /\ (p + h) + h + w = p + (h + h + w) /\ (p + h) + d = p + (h + d)
      OBVIOUS
    <3> QED
      BY <3>1, <3>2, <3>3, <3>4 DEF Digit, RopeColumn
  <2> HIDE DEF layout, D, Base, To, From
  <2> QED
    BY <2>1, <2>2, <2>3
<1>5. ASSUME NEW i \in D
      PROVE  /\ RopeColumn(i[1], i[2], dims) \in Upto(n[1]) /\ RopeColumn(i[1], i[2], dims) \in Nat
             /\ i[2] \div 2 \in Nat /\ dims \div 2 \in Nat
             /\ i[2] < dims => /\ i[2] \div 2 \in Upto(n[1]) /\ i[2] \div 2 + dims \div 2 \in Upto(n[1])
                               /\ RopeColumn(i[1], i[2], dims)
                                    = IF i[1] = 0 THEN i[2] \div 2 ELSE i[2] \div 2 + dims \div 2
  BY <1>1, <1>3, RopeColumnIn
<1>6. ASSUME NEW i \in D
      PROVE  /\ To(i) \in Upto(Size4(n)) /\ To(i) \div n[1] = i[3]
             /\ RopeColumn(i[1], i[2], dims) = Lower(To(i), n[1])
  <2> HIDE DEF rows
  <2>1. To(i) \in Upto(Product(rows, n[1])) /\ Upper(To(i), n[1]) = i[3]
        /\ Lower(To(i), n[1]) = RopeColumn(i[1], i[2], dims)
    BY <1>1, <1>2, <1>3, <1>5, DigitIn
  <2> QED
    BY <1>2, <2>1 DEF Upper
<1>7. \A i, j \in D : To(i) = To(j) => i = j
  <2> TAKE i, j \in D
  <2> HAVE To(i) = To(j)
  <2> HIDE DEF To
  <2>1. i[3] = j[3] /\ RopeColumn(i[1], i[2], dims) = RopeColumn(j[1], j[2], dims)
    BY <1>6
  <2>2. i[1] = j[1] /\ i[2] = j[2]
    BY <1>1, <1>3, <2>1, RopeColumnOnce
  <2> QED
    BY <1>3, <2>1, <2>2
<1>8. \A e \in Upto(Size4(n)) : \E i \in D : To(i) = e
  <2> TAKE e \in Upto(Size4(n))
  <2>1. Upper(e, n[1]) \in Upto(rows) /\ Lower(e, n[1]) \in Upto(n[1]) /\ e = Digit(Upper(e, n[1]), n[1], Lower(e, n[1]))
    <3> HIDE DEF rows
    <3> QED
      BY <1>1, <1>2, DigitOf
  <2>2. PICK w \in {0, 1}, i0 \in Upto(n[1]) : i0 % 2 = 0 /\ RopeColumn(w, i0, dims) = Lower(e, n[1])
    BY <1>1, <2>1, RopeColumnOf, ZenonT(60)
  <2> DEFINE i == <<w, i0, Upper(e, n[1])>>
  <2>3. i[1] = w /\ i[2] = i0 /\ i[3] = Upper(e, n[1]) /\ i \in D
    BY <2>1, <2>2
  <2>4. To(i) = e
    BY <2>1, <2>2, <2>3
  <2> QED
    BY <2>3, <2>4
<1>9. ASSUME NEW i \in D
      PROVE  /\ \A k \in DOMAIN From(i) : (k = 1 \/ k = 2) /\ From(i)[k] \in Upto(Size4(n)) /\ From(i)[k] \div n[1] = i[3]
             /\ \E k \in DOMAIN From(i) : From(i)[k] = To(i)
  <2>1. CASE i[2] < dims
    <3> DEFINE h == i[2] \div 2
               g == i[2] \div 2 + dims \div 2
    <3>1. h \in Upto(n[1]) /\ g \in Upto(n[1]) /\ RopeColumn(i[1], i[2], dims) = IF i[1] = 0 THEN h ELSE g
      BY <1>5, <2>1
    <3> HIDE DEF h, g
    <3>2. ASSUME NEW c \in Upto(n[1])
          PROVE  Digit(i[3], n[1], c) \in Upto(Size4(n)) /\ Digit(i[3], n[1], c) \div n[1] = i[3]
      <4> HIDE DEF rows
      <4>1. Digit(i[3], n[1], c) \in Upto(Product(rows, n[1])) /\ Upper(Digit(i[3], n[1], c), n[1]) = i[3]
        BY <1>1, <1>2, <1>3, DigitIn
      <4> QED
        BY <1>2, <4>1 DEF Upper
    <3>3. From(i) = <<Digit(i[3], n[1], h), Digit(i[3], n[1], g)>>
      BY <2>1 DEF h, g
    <3>4. To(i) = Digit(i[3], n[1], h) \/ To(i) = Digit(i[3], n[1], g)
      BY <3>1
    <3> HIDE DEF From, To
    <3>5. DOMAIN From(i) = 1..2 /\ From(i)[1] = Digit(i[3], n[1], h) /\ From(i)[2] = Digit(i[3], n[1], g)
      BY <3>3
    <3>6. 1 \in DOMAIN From(i) /\ 2 \in DOMAIN From(i) /\ \A k \in DOMAIN From(i) : k = 1 \/ k = 2
      BY <3>5
    <3> QED
      BY <3>1, <3>2, <3>4, <3>5, <3>6
  <2>2. CASE ~(i[2] < dims)
    <3>1. From(i) = <<To(i)>>
      BY <2>2
    <3> HIDE DEF From, To
    <3>2. From(i)[1] = To(i) /\ 1 \in DOMAIN From(i) /\ \A k \in DOMAIN From(i) : k = 1
      BY <3>1
    <3> QED
      BY <1>6, <3>2
  <2> QED
    BY <2>1, <2>2
<1> HIDE DEF layout, D, To, From, rows
<1>10. DOMAIN layout = D /\ \A i \in D : layout[i].to = To(i) /\ layout[i].from = From(i)
  BY <1>4
<1>11. {layout[i].to : i \in DOMAIN layout} = Upto(Size4(n)) /\ Cardinality(DOMAIN layout) = Size4(n)
  <2>1. \A i \in DOMAIN layout : layout[i].to \in Upto(Size4(n))
    BY <1>6, <1>10
  <2>2. \A i, j \in DOMAIN layout : layout[i].to = layout[j].to => i = j
    BY <1>7, <1>10
  <2>3. \A e \in Upto(Size4(n)) : \E i \in DOMAIN layout : layout[i].to = e
    BY <1>8, <1>10
  <2> QED
    BY <1>2, <2>1, <2>2, <2>3, OnceEach
<1>12. ASSUME NEW i \in DOMAIN layout, NEW k \in DOMAIN layout[i].from
       PROVE  layout[i].from[k] \in Upto(<<Size4(n), Size4(n)>>[k])
  <2>1. (k = 1 \/ k = 2) /\ layout[i].from[k] \in Upto(Size4(n))
    BY <1>9, <1>10
  <2> QED
    BY <2>1
<1>13. WrittenOnce(layout, Size4(n), <<Size4(n), Size4(n)>>)
  BY <1>11, <1>12 DEF WrittenOnce
<1>14. ASSUME NEW i \in DOMAIN layout
       PROVE  /\ \E k \in DOMAIN layout[i].from : layout[i].from[k] = layout[i].to
              /\ \A k \in DOMAIN layout[i].from : layout[i].from[k] \div n[1] = layout[i].to \div n[1]
  BY <1>6, <1>9, <1>10
<1>15. InItsRow(layout, n[1])
  BY <1>14 DEF InItsRow
<1> QED
  BY <1>13, <1>15 DEF layout

-----------------------------------------------------------------------------
(***************************************************************************)
(* mul_mat_vec_q and the blocks of Q6_K.                                   *)
(***************************************************************************)
LEMMA PackedDivBelow ==
  ASSUME NEW n \in Nat, NEW i \in Upto(n), NEW m \in Nat
  PROVE  PackedDiv(i, m) \in Upto(n) /\ PackedDiv(i, m) \in Nat
<1>1. i \in Nat /\ i < n
  BY DEF Upto
<1>2. CASE m = 0
  BY <1>1, <1>2 DEF PackedDiv, Upto
<1>3. CASE m # 0
  <2>1. PICK q \in Nat, r \in Nat : q = i \div m /\ i = q * m + r
    BY <1>1, <1>3
  <2>2. q * m >= q
    BY <1>3
  <2>3. q <= i
    BY <1>1, <2>1, <2>2
  <2> QED
    BY <1>1, <1>3, <2>1, <2>3 DEF PackedDiv, Upto
<1> QED
  BY <1>2, <1>3

LEMMA PackedDivChannel ==
  ASSUME NEW n \in Nat, NEW i \in Upto(n), NEW channels \in Nat, NEW m \in Nat, m # 0, n <= channels * m
  PROVE  PackedDiv(i, m) \in Upto(channels)
<1>1. i \in Nat /\ i < n
  BY DEF Upto
<1>2. PICK p \in Nat : p = channels * m
  OBVIOUS
<1>3. i \in Upto(Product(channels, m))
  BY <1>1, <1>2 DEF Upto, Product
<1>4. Upper(i, m) \in Upto(channels)
  BY <1>3, DigitOf
<1> QED
  BY <1>4 DEF Upper, PackedDiv

LEMMA MmvqExact ==
  ASSUME NEW n, \A k \in 1..3 : n[k] \in Nat, NEW channels \in Nat, NEW ratio, ratio[1] \in Nat \ {0},
         ratio[2] \in Nat, NEW ids,
         IF ids = << >> THEN n[2] <= channels * ratio[1] ELSE \A c \in 1..n[2] : ids[c] \in Upto(channels)
  PROVE  /\ WrittenOnce(Mmvq(n, channels, ratio, ids), n[1] * n[2] * n[3], <<n[1] * channels * n[3]>>)
         /\ TakesWeights(Mmvq(n, channels, ratio, ids), n, channels, ratio, ids)
<1> DEFINE layout == Mmvq(n, channels, ratio, ids)
           D == Upto(n[1]) \X Upto(n[2]) \X Upto(n[3])
           size == n[1] * n[2] * n[3]
           Channel(c) == IF ids # << >> THEN ids[c + 1] ELSE PackedDiv(c, ratio[1])
           To(i) == Digit(Digit(i[3], n[2], i[2]), n[1], i[1])
           From(i) == Digit(Digit(PackedDiv(i[3], ratio[2]), channels, Channel(i[2])), n[1], i[1])
<1>1. n[1] \in Nat /\ n[2] \in Nat /\ n[3] \in Nat
  OBVIOUS
<1>2. size = Product(Product(n[3], n[2]), n[1]) /\ size \in Nat /\ Product(n[3], n[2]) \in Nat
  <2>1. PICK a, b, c \in Nat : a = n[1] /\ b = n[2] /\ c = n[3]
    BY <1>1
  <2>2. a * b * c = (c * b) * a /\ a * b * c \in Nat /\ c * b \in Nat
    OBVIOUS
  <2> QED
    BY <2>1, <2>2 DEF Product
<1>3. n[1] * channels * n[3] = Product(Product(n[3], channels), n[1]) /\ Product(n[3], channels) \in Nat
  <2>1. PICK a, c \in Nat : a = n[1] /\ c = n[3]
    BY <1>1
  <2>2. a * channels * c = (c * channels) * a /\ c * channels \in Nat
    OBVIOUS
  <2> QED
    BY <2>1, <2>2 DEF Product
<1>4. layout = [i \in D |-> [to |-> To(i), from |-> <<From(i)>>]]
  BY DEF Mmvq, Digit
<1>5. ASSUME NEW i \in D
      PROVE  /\ i[1] \in Upto(n[1]) /\ i[2] \in Upto(n[2]) /\ i[3] \in Upto(n[3]) /\ i = <<i[1], i[2], i[3]>>
             /\ i[1] \in Nat /\ i[2] \in Nat /\ i[3] \in Nat /\ i[2] < n[2]
  <2>1. i[1] \in Upto(n[1]) /\ i[2] \in Upto(n[2]) /\ i[3] \in Upto(n[3]) /\ i = <<i[1], i[2], i[3]>>
    OBVIOUS
  <2> QED
    BY <1>1, <2>1, UptoNat
<1>6. ASSUME NEW i \in D
      PROVE  /\ To(i) \in Upto(size) /\ Lower(To(i), n[1]) = i[1]
             /\ Lower(Upper(To(i), n[1]), n[2]) = i[2] /\ Upper(Upper(To(i), n[1]), n[2]) = i[3]
  <2> DEFINE b == Digit(i[3], n[2], i[2])
  <2>1. b \in Upto(Product(n[3], n[2])) /\ Upper(b, n[2]) = i[3] /\ Lower(b, n[2]) = i[2]
    BY <1>1, <1>5, DigitIn, SMTT(30)
  <2> HIDE DEF b, size
  <2>2. /\ Digit(b, n[1], i[1]) \in Upto(size) /\ Upper(Digit(b, n[1], i[1]), n[1]) = b
        /\ Lower(Digit(b, n[1], i[1]), n[1]) = i[1]
    <3>1. Product(n[3], n[2]) \in Nat /\ size = Product(Product(n[3], n[2]), n[1])
      BY <1>2
    <3>2. n[1] \in Nat /\ i[1] \in Upto(n[1])
      BY <1>1, <1>5
    <3> HIDE DEF D
    <3> QED
      BY <2>1, <3>1, <3>2, DigitIn
  <2> QED
    BY <2>1, <2>2 DEF b
<1>7. \A i, j \in D : To(i) = To(j) => i = j
  <2> TAKE i, j \in D
  <2> HAVE To(i) = To(j)
  <2> HIDE DEF D, To
  <2>1. i[1] = j[1] /\ i[2] = j[2] /\ i[3] = j[3]
    BY <1>6
  <2>2. i = <<i[1], i[2], i[3]>> /\ j = <<j[1], j[2], j[3]>>
    BY <1>5
  <2> QED
    BY <2>1, <2>2
<1>8. \A e \in Upto(size) : \E i \in D : To(i) = e
  <2> TAKE e \in Upto(size)
  <2> DEFINE b == Upper(e, n[1])
  <2>1. b \in Upto(Product(n[3], n[2])) /\ Lower(e, n[1]) \in Upto(n[1]) /\ e = Digit(b, n[1], Lower(e, n[1]))
    <3> HIDE DEF size
    <3> QED
      BY <1>1, <1>2, DigitOf
  <2> HIDE DEF b
  <2>2. Upper(b, n[2]) \in Upto(n[3]) /\ Lower(b, n[2]) \in Upto(n[2]) /\ b = Digit(Upper(b, n[2]), n[2], Lower(b, n[2]))
    BY <1>1, <2>1, DigitOf
  <2> DEFINE i == <<Lower(e, n[1]), Lower(b, n[2]), Upper(b, n[2])>>
  <2>3. i \in D /\ i[1] = Lower(e, n[1]) /\ i[2] = Lower(b, n[2]) /\ i[3] = Upper(b, n[2])
    BY <2>1, <2>2
  <2>4. To(i) = e
    BY <2>1, <2>2, <2>3
  <2> QED
    BY <2>3, <2>4
<1>9. ASSUME NEW i \in D
      PROVE  /\ From(i) \in Upto(n[1] * channels * n[3])
             /\ Lower(From(i), n[1]) = i[1] /\ Lower(Upper(From(i), n[1]), channels) = Channel(i[2])
             /\ Upper(Upper(From(i), n[1]), channels) = PackedDiv(i[3], ratio[2])
  <2>1. Channel(i[2]) \in Upto(channels)
    <3>1. CASE ids = << >>
      <4>1. PackedDiv(i[2], ratio[1]) \in Upto(channels)
        BY <1>1, <1>5, <3>1, PackedDivChannel
      <4> QED
        BY <3>1, <4>1
    <3>2. CASE ids # << >>
      <4>1. i[2] + 1 \in 1..n[2]
        BY <1>1, <1>5
      <4> QED
        BY <3>2, <4>1
    <3> QED
      BY <3>1, <3>2
  <2>2. PackedDiv(i[3], ratio[2]) \in Upto(n[3])
    BY <1>1, <1>5, PackedDivBelow
  <2> HIDE DEF Channel
  <2> DEFINE b == Digit(PackedDiv(i[3], ratio[2]), channels, Channel(i[2]))
  <2>3. /\ b \in Upto(Product(n[3], channels)) /\ Lower(b, channels) = Channel(i[2])
        /\ Upper(b, channels) = PackedDiv(i[3], ratio[2])
    BY <1>1, <2>1, <2>2, DigitIn
  <2>4. From(i) = Digit(b, n[1], i[1])
    OBVIOUS
  <2> HIDE DEF b, From
  <2>5. /\ Digit(b, n[1], i[1]) \in Upto(Product(Product(n[3], channels), n[1]))
        /\ Upper(Digit(b, n[1], i[1]), n[1]) = b /\ Lower(Digit(b, n[1], i[1]), n[1]) = i[1]
    <3>1. n[1] \in Nat /\ i[1] \in Upto(n[1]) /\ Product(n[3], channels) \in Nat
      BY <1>1, <1>3, <1>5
    <3> HIDE DEF D
    <3> QED
      BY <2>3, <3>1, DigitIn
  <2> QED
    BY <1>3, <2>3, <2>4, <2>5
<1> HIDE DEF layout, D, To, From, size
<1>10. DOMAIN layout = D /\ \A i \in D : layout[i].to = To(i) /\ layout[i].from = <<From(i)>>
  BY <1>4
<1>11. {layout[i].to : i \in DOMAIN layout} = Upto(size) /\ Cardinality(DOMAIN layout) = size
  <2>1. \A i \in DOMAIN layout : layout[i].to \in Upto(size)
    BY <1>6, <1>10
  <2>2. \A i, j \in DOMAIN layout : layout[i].to = layout[j].to => i = j
    BY <1>7, <1>10
  <2>3. \A e \in Upto(size) : \E i \in DOMAIN layout : layout[i].to = e
    BY <1>8, <1>10
  <2> QED
    BY <1>2, <2>1, <2>2, <2>3, OnceEach
<1>12. ASSUME NEW i \in DOMAIN layout, NEW k \in DOMAIN layout[i].from
       PROVE  layout[i].from[k] \in Upto(<<n[1] * channels * n[3]>>[k])
  <2>1. layout[i].from = <<From(i)>> /\ k = 1 /\ i \in D
    BY <1>10
  <2> QED
    BY <1>9, <2>1
<1>13. WrittenOnce(layout, size, <<n[1] * channels * n[3]>>)
  BY <1>11, <1>12 DEF WrittenOnce
<1>14. ASSUME NEW i \in DOMAIN layout
       PROVE  LET to == layout[i].to  from == layout[i].from[1]
                  channel == (to \div n[1]) % n[2]  sample == (to \div n[1]) \div n[2]
              IN /\ from % n[1] = to % n[1]
                 /\ (from \div n[1]) % channels = IF ids = << >> THEN channel \div ratio[1] ELSE ids[channel + 1]
                 /\ (from \div n[1]) \div channels = IF ratio[2] = 0 THEN 0 ELSE sample \div ratio[2]
  <2>1. i \in D /\ layout[i].to = To(i) /\ layout[i].from[1] = From(i)
    BY <1>10
  <2>2. /\ To(i) % n[1] = i[1] /\ (To(i) \div n[1]) % n[2] = i[2] /\ (To(i) \div n[1]) \div n[2] = i[3]
    BY <1>6, <2>1 DEF Lower, Upper
  <2>3. /\ From(i) % n[1] = i[1] /\ (From(i) \div n[1]) % channels = Channel(i[2])
        /\ (From(i) \div n[1]) \div channels = PackedDiv(i[3], ratio[2])
    BY <1>9, <2>1 DEF Lower, Upper
  <2>4. Channel(i[2]) = IF ids = << >> THEN i[2] \div ratio[1] ELSE ids[i[2] + 1]
    BY DEF PackedDiv
  <2>5. PackedDiv(i[3], ratio[2]) = IF ratio[2] = 0 THEN 0 ELSE i[3] \div ratio[2]
    BY DEF PackedDiv
  <2> QED
    BY <2>1, <2>2, <2>3, <2>4, <2>5
<1>15. TakesWeights(layout, n, channels, ratio, ids)
  BY <1>14 DEF TakesWeights
<1> QED
  BY <1>13, <1>15 DEF layout, size

LEMMA MmvqColumnExact ==
  ASSUME NEW block \in Nat, NEW i \in 0..255
  PROVE  MmvqColumn(block, i) = block * 256 + i
<1>1. PICK q \in Nat, r \in Nat : q = i \div 32 /\ r = i % 32 /\ i = q * 32 + r
  OBVIOUS
<1>2. (block * 8 + q) * 32 + r = block * 256 + i
  BY <1>1
<1> QED
  BY <1>1, <1>2 DEF MmvqColumn

\* A value of a block by its half, its quarter of it and its place there.
Q6KIndex(h, q, m) == 128 * h + 32 * q + m
Q6KLow(h, q, m) == <<64 * h + (IF q < 2 THEN 32 * q + m ELSE 32 * q + m - 64), IF q < 2 THEN 0 ELSE 4>>
Q6KHigh(h, q, m) == <<32 * h + m, 2 * q>>
Q6KAt(i, h, q, m) == /\ Q6KValue(i).ql = Q6KLow(h, q, m)
                     /\ Q6KValue(i).qh = Q6KHigh(h, q, m)
                     /\ Q6KValue(i).scale = i \div 16

LEMMA Q6KParts ==
  ASSUME NEW h \in {0, 1}, NEW q \in 0..3, NEW m \in 0..31, NEW i, i = Q6KIndex(h, q, m)
  PROVE  Q6KAt(i, h, q, m)
<1> DEFINE n == IF i < 128 THEN 0 ELSE 128
           l == i - n
<1>1. h \in Int /\ q \in Int /\ m \in Int /\ i \in Int /\ i = 128 * h + 32 * q + m
  BY DEF Q6KIndex
<1>2. n = 128 * h /\ l = 32 * q + m /\ (n = 0 <=> h = 0)
  BY <1>1
<1>3. n \div 2 = 64 * h /\ n \div 4 = 32 * h
  BY <1>2
<1>4. l \div 32 = q /\ l - 32 * q = m /\ (l < 64 <=> q < 2)
  BY <1>1, <1>2
<1>5. m \div 16 + 2 * q + (IF n = 0 THEN 0 ELSE 8) = i \div 16
  <2>1. PICK a \in 0..1, b \in 0..15 : m = 16 * a + b /\ m \div 16 = a
    <3>1. CASE m < 16
      BY <3>1
    <3>2. CASE m >= 16
      <4>1. m = 16 * 1 + (m - 16) /\ m - 16 \in 0..15 /\ m \div 16 = 1
        BY <3>2
      <4> QED
        BY <4>1
    <3> QED
      BY <3>1, <3>2
  <2>2. i = 16 * (8 * h + 2 * q + a) + b
    BY <1>1, <2>1
  <2>3. i \div 16 = 8 * h + 2 * q + a
    BY <1>1, <2>1, <2>2
  <2>4. (IF n = 0 THEN 0 ELSE 8) = 8 * h
    BY <1>2
  <2> HIDE DEF n
  <2> QED
    BY <1>1, <2>1, <2>3, <2>4
<1>6. /\ Q6KValue(i).ql = <<n \div 2 + (IF l < 64 THEN l ELSE l - 64), IF l < 64 THEN 0 ELSE 4>>
      /\ Q6KValue(i).qh = <<n \div 4 + l - 32 * (l \div 32), 2 * (l \div 32)>>
      /\ Q6KValue(i).scale = (l - 32 * (l \div 32)) \div 16 + 2 * (l \div 32) + (IF n = 0 THEN 0 ELSE 8)
  BY DEF Q6KValue
<1> HIDE DEF n, l
<1>7. n \div 4 + l - 32 * q = 32 * h + m
  BY <1>1, <1>2, <1>3
<1> QED
  <2>1. Q6KValue(i).ql = Q6KLow(h, q, m)
    <3>1. (IF l < 64 THEN l ELSE l - 64) = IF q < 2 THEN 32 * q + m ELSE 32 * q + m - 64
      BY <1>2, <1>4
    <3>2. (IF l < 64 THEN 0 ELSE 4) = IF q < 2 THEN 0 ELSE 4
      BY <1>4
    <3> QED
      BY <1>3, <1>6, <3>1, <3>2 DEF Q6KLow
  <2>2. Q6KValue(i).qh = Q6KHigh(h, q, m)
    BY <1>4, <1>6, <1>7 DEF Q6KHigh
  <2>3. Q6KValue(i).scale = i \div 16
    BY <1>4, <1>5, <1>6
  <2> QED
    BY <2>1, <2>2, <2>3 DEF Q6KAt

LEMMA Q6KPart ==
  ASSUME NEW i \in 0..255
  PROVE  \E h \in {0, 1}, q \in 0..3, m \in 0..31 : i = Q6KIndex(h, q, m)
<1>1. PICK k \in Nat, m \in Nat : k = i \div 32 /\ m = i % 32 /\ i = 32 * k + m /\ m < 32
  OBVIOUS
<1>2. k < 8
  BY <1>1
<1>3. PICK h \in {0, 1}, q \in 0..3 : k = 4 * h + q
  <2>1. CASE k < 4
    <3>1. k = 4 * 0 + k /\ k \in 0..3
      BY <2>1
    <3> QED
      BY <3>1
  <2>2. CASE k >= 4
    <3>1. k = 4 * 1 + (k - 4) /\ k - 4 \in 0..3
      BY <1>2, <2>2
    <3> QED
      BY <3>1
  <2> QED
    BY <2>1, <2>2
<1>4. m \in 0..31 /\ i = 128 * h + 32 * q + m
  BY <1>1, <1>3
<1> QED
  BY <1>4 DEF Q6KIndex

LEMMA Q6KExact ==
  /\ {Q6KValue(i).ql : i \in 0..255} = (0..127) \X {0, 4}
  /\ {Q6KValue(i).qh : i \in 0..255} = (0..63) \X {0, 2, 4, 6}
  /\ \A i \in 0..255 : Q6KValue(i).scale = i \div 16
<1>1. ASSUME NEW i \in 0..255
      PROVE  /\ Q6KValue(i).ql \in (0..127) \X {0, 4} /\ Q6KValue(i).qh \in (0..63) \X {0, 2, 4, 6}
             /\ Q6KValue(i).scale = i \div 16
  <2>1. PICK h \in {0, 1}, q \in 0..3, m \in 0..31 : i = Q6KIndex(h, q, m)
    BY Q6KPart
  <2>2. Q6KValue(i).ql = Q6KLow(h, q, m) /\ Q6KValue(i).qh = Q6KHigh(h, q, m) /\ Q6KValue(i).scale = i \div 16
    <3>1. Q6KAt(i, h, q, m)
      BY <2>1, Q6KParts
    <3> QED
      BY <3>1 DEF Q6KAt
  <2>3. 64 * h + (IF q < 2 THEN 32 * q + m ELSE 32 * q + m - 64) \in 0..127
    OBVIOUS
  <2>4. 32 * h + m \in 0..63 /\ 2 * q \in {0, 2, 4, 6}
    OBVIOUS
  <2>5. Q6KLow(h, q, m) \in (0..127) \X {0, 4}
    BY <2>3 DEF Q6KLow
  <2>6. Q6KHigh(h, q, m) \in (0..63) \X {0, 2, 4, 6}
    BY <2>4 DEF Q6KHigh
  <2> QED
    BY <2>2, <2>5, <2>6
<1>2. ASSUME NEW b \in 0..127, NEW s \in {0, 4}
      PROVE  \E i \in 0..255 : Q6KValue(i).ql = <<b, s>>
  <2>1. PICK h \in {0, 1}, p \in {0, 1}, m \in 0..31 : b = 64 * h + 32 * p + m
    <3>1. CASE b < 32
      <4>1. b = 64 * 0 + 32 * 0 + b
        OBVIOUS
      <4> QED
        BY <3>1, <4>1
    <3>2. CASE b >= 32 /\ b < 64
      <4>1. b = 64 * 0 + 32 * 1 + (b - 32) /\ b - 32 \in 0..31
        BY <3>2
      <4> QED
        BY <4>1
    <3>3. CASE b >= 64 /\ b < 96
      <4>1. b = 64 * 1 + 32 * 0 + (b - 64) /\ b - 64 \in 0..31
        BY <3>3
      <4> QED
        BY <4>1
    <3>4. CASE b >= 96
      <4>1. b = 64 * 1 + 32 * 1 + (b - 96) /\ b - 96 \in 0..31
        BY <3>4
      <4> QED
        BY <4>1
    <3> QED
      BY <3>1, <3>2, <3>3, <3>4
  <2> DEFINE q == IF s = 0 THEN p ELSE p + 2
             i == Q6KIndex(h, q, m)
  <2>2. q \in 0..3 /\ (q < 2 <=> s = 0) /\ (s = 0 => q = p) /\ (s = 4 => q = p + 2)
    OBVIOUS
  <2> HIDE DEF q
  <2>3. i \in 0..255
    BY <2>2 DEF Q6KIndex
  <2>4. Q6KValue(i).ql = Q6KLow(h, q, m)
    <3>1. Q6KAt(i, h, q, m)
      BY <2>2, Q6KParts
    <3> QED
      BY <3>1 DEF Q6KAt
  <2>5. Q6KLow(h, q, m) = <<b, s>>
    BY <2>1, <2>2 DEF Q6KLow
  <2> QED
    BY <2>3, <2>4, <2>5
<1>3. ASSUME NEW b \in 0..63, NEW s \in {0, 2, 4, 6}
      PROVE  \E i \in 0..255 : Q6KValue(i).qh = <<b, s>>
  <2>1. PICK h \in {0, 1}, m \in 0..31 : b = 32 * h + m
    <3>1. CASE b < 32
      <4>1. b = 32 * 0 + b
        OBVIOUS
      <4> QED
        BY <3>1, <4>1
    <3>2. CASE b >= 32
      <4>1. b = 32 * 1 + (b - 32) /\ b - 32 \in 0..31
        BY <3>2
      <4> QED
        BY <4>1
    <3> QED
      BY <3>1, <3>2
  <2>2. PICK q \in 0..3 : s = 2 * q
    OBVIOUS
  <2> DEFINE i == Q6KIndex(h, q, m)
  <2>3. i \in 0..255
    BY DEF Q6KIndex
  <2>4. Q6KValue(i).qh = Q6KHigh(h, q, m)
    <3>1. Q6KAt(i, h, q, m)
      BY Q6KParts
    <3> QED
      BY <3>1 DEF Q6KAt
  <2>5. Q6KHigh(h, q, m) = <<b, s>>
    BY <2>1, <2>2 DEF Q6KHigh
  <2> QED
    BY <2>3, <2>4, <2>5
<1>4. {Q6KValue(i).ql : i \in 0..255} = (0..127) \X {0, 4}
  <2>1. ASSUME NEW x \in (0..127) \X {0, 4} PROVE \E i \in 0..255 : Q6KValue(i).ql = x
    <3>1. x[1] \in 0..127 /\ x[2] \in {0, 4} /\ x = <<x[1], x[2]>>
      OBVIOUS
    <3>2. \E i \in 0..255 : Q6KValue(i).ql = <<x[1], x[2]>>
      BY <1>2, <3>1
    <3> QED
      BY <3>1, <3>2
  <2>2. \A i \in 0..255 : Q6KValue(i).ql \in (0..127) \X {0, 4}
    BY <1>1
  <2> DEFINE V(i) == Q6KValue(i).ql
             S == (0..127) \X {0, 4}
  <2>3. (\A x \in S : \E i \in 0..255 : V(i) = x) /\ (\A i \in 0..255 : V(i) \in S)
    BY <2>1, <2>2
  <2> HIDE DEF V, S
  <2>4. {V(i) : i \in 0..255} = S
    BY <2>3
  <2> QED
    BY <2>4 DEF V, S
<1>5. {Q6KValue(i).qh : i \in 0..255} = (0..63) \X {0, 2, 4, 6}
  <2>1. ASSUME NEW x \in (0..63) \X {0, 2, 4, 6} PROVE \E i \in 0..255 : Q6KValue(i).qh = x
    <3>1. x[1] \in 0..63 /\ x[2] \in {0, 2, 4, 6} /\ x = <<x[1], x[2]>>
      OBVIOUS
    <3>2. \E i \in 0..255 : Q6KValue(i).qh = <<x[1], x[2]>>
      BY <1>3, <3>1
    <3> QED
      BY <3>1, <3>2
  <2>2. \A i \in 0..255 : Q6KValue(i).qh \in (0..63) \X {0, 2, 4, 6}
    BY <1>1
  <2> DEFINE V(i) == Q6KValue(i).qh
             S == (0..63) \X {0, 2, 4, 6}
  <2>3. (\A x \in S : \E i \in 0..255 : V(i) = x) /\ (\A i \in 0..255 : V(i) \in S)
    BY <2>1, <2>2
  <2> HIDE DEF V, S
  <2>4. {V(i) : i \in 0..255} = S
    BY <2>3
  <2> QED
    BY <2>4 DEF V, S
<1> QED
  BY <1>1, <1>4, <1>5

-----------------------------------------------------------------------------
(***************************************************************************)
(* One input: the lemma of the kernel it is about.                         *)
(***************************************************************************)
LEMMA ShapeExact ==
  ASSUME NEW shape \in Shapes, input = [of |-> "layout", shape |-> shape]
  PROVE  LayoutsExact
<1>1. Fits(shape)
  BY ShapesAssumption
<1>2. input.of = "layout" /\ input.shape = shape
  OBVIOUS
<1>3. CASE shape.kernel = "bin_bcast"
  <2>1. /\ \A k \in 1..3 : shape.n[k] \in Nat
        /\ shape.n[4] \in Nat \ {0} /\ \A k \in 1..4 : shape.m[k] \in Nat \ {0}
    BY <1>1, <1>3 DEF Fits
  <2>2. /\ WrittenOnce(BinBcast(shape.n, shape.m), Size4(shape.n), <<Size4(shape.n), Size4(shape.m)>>)
        /\ Repeats(BinBcast(shape.n, shape.m), shape.n, shape.m)
    BY <2>1, BroadcastExact
  <2> QED
    BY <1>2, <1>3, <2>2 DEF LayoutsExact
<1>4. CASE shape.kernel = "rms_norm"
  <2>1. /\ \A k \in 1..3 : shape.n[k] \in Nat
        /\ shape.n[4] \in Nat \ {0} /\ \A k \in 1..4 : shape.m[k] \in Nat \ {0}
    BY <1>1, <1>4 DEF Fits
  <2>2. /\ WrittenOnce(RmsNorm(shape.n, shape.m), Size4(shape.n), <<Size4(shape.n), Size4(shape.m)>>)
        /\ Repeats(RmsNorm(shape.n, shape.m), shape.n, shape.m)
    BY <2>1, BroadcastExact
  <2> QED
    BY <1>2, <1>4, <2>2 DEF LayoutsExact
<1>5. CASE shape.kernel = "get_rows"
  <2>1. /\ \A k \in 1..3 : shape.n[k] \in Nat
        /\ shape.n[4] \in Nat \ {0} /\ shape.rows \in Nat
        /\ \A i \in Upto(shape.n[2] * shape.n[3] * shape.n[4]) : shape.row[i] \in Upto(shape.rows)
    BY <1>1, <1>5 DEF Fits
  <2>2. /\ WrittenOnce(GetRows(shape.n[1], shape.n[2], shape.n[3], shape.n[4], shape.rows, shape.row),
                       Size4(shape.n), <<shape.n[1] * shape.rows * shape.n[3] * shape.n[4]>>)
        /\ TakesRows(GetRows(shape.n[1], shape.n[2], shape.n[3], shape.n[4], shape.rows, shape.row),
                     shape.n, shape.rows, shape.row)
    BY <2>1, GetRowsExact
  <2> QED
    BY <1>2, <1>5, <2>2 DEF LayoutsExact
<1>6. CASE shape.kernel = "quantize_q8_1"
  <2>1. /\ \A k \in 1..4 : shape.n[k] \in Nat
        /\ shape.ne00 \in Nat /\ shape.block \in Nat /\ shape.block # 0 /\ shape.n[1] % shape.block = 0
    BY <1>1, <1>6 DEF Fits
  <2>2. LET l == Quantize(shape.ne00, shape.n, shape.block, shape.n[3] * shape.n[4])
        IN /\ WrittenOnce(l, Size4(shape.n), <<shape.ne00 * shape.n[2] * shape.n[3] * shape.n[4]>>)
           /\ \A i \in DOMAIN l :
                l[i].from = LET column == l[i].to % shape.n[1] row == l[i].to \div shape.n[1]
                            IN IF column < shape.ne00 THEN <<row * shape.ne00 + column>> ELSE << >>
    BY <2>1, QuantizeExact DEF Extents
  <2> QED
    BY <1>2, <1>6, <2>2 DEF LayoutsExact
<1>7. CASE shape.kernel = "rope_multi"
  <2>1. /\ \A k \in 1..4 : shape.n[k] \in Nat
        /\ shape.n[1] % 2 = 0 /\ shape.dims \in Nat /\ shape.dims <= shape.n[1] /\ shape.dims % 2 = 0
    BY <1>1, <1>7 DEF Fits
  <2>2. LET l == RopeMulti(shape.n, shape.dims, shape.n[2] * shape.n[3] * shape.n[4])
        IN WrittenOnce(l, Size4(shape.n), <<Size4(shape.n), Size4(shape.n)>>) /\ InItsRow(l, shape.n[1])
    BY <2>1, RopeExact DEF Extents
  <2> QED
    BY <1>2, <1>7, <2>2 DEF LayoutsExact
<1>8. CASE shape.kernel = "mul_mat_vec_q"
  <2>1. /\ \A k \in 1..3 : shape.n[k] \in Nat
        /\ shape.channels \in Nat /\ shape.block \in Nat
        /\ shape.ratio[1] \in Nat \ {0} /\ shape.ratio[2] \in Nat
        /\ IF shape.ids = << >> THEN shape.n[2] <= shape.channels * shape.ratio[1]
           ELSE \A c \in 1..shape.n[2] : shape.ids[c] \in Upto(shape.channels)
    BY <1>1, <1>8 DEF Fits
  <2>2. /\ WrittenOnce(Mmvq(shape.n, shape.channels, shape.ratio, shape.ids), shape.n[1] * shape.n[2] * shape.n[3],
                       <<shape.n[1] * shape.channels * shape.n[3]>>)
        /\ TakesWeights(Mmvq(shape.n, shape.channels, shape.ratio, shape.ids), shape.n, shape.channels,
                        shape.ratio, shape.ids)
    BY <2>1, MmvqExact
  <2>3. \A i \in 0..255 : MmvqColumn(shape.block, i) = shape.block * 256 + i
    BY <2>1, MmvqColumnExact
  <2> QED
    BY <1>2, <1>8, <2>2, <2>3 DEF LayoutsExact
<1>9. CASE shape.kernel = "q6_k"
  BY <1>2, <1>9, Q6KExact DEF LayoutsExact
<1>10. \/ shape.kernel \in {"bin_bcast", "rms_norm"} \/ shape.kernel = "get_rows"
       \/ shape.kernel = "quantize_q8_1" \/ shape.kernel = "rope_multi"
       \/ shape.kernel = "mul_mat_vec_q" \/ shape.kernel = "q6_k"
  BY <1>1 DEF Fits
<1> QED
  BY <1>3, <1>4, <1>5, <1>6, <1>7, <1>8, <1>9, <1>10

(***************************************************************************)
(* Whatever the shapes that fit, each host kernel (bin_bcast, rms_norm,    *)
(* get_rows, quantize_q8_1, rope_multi, mul_mat_vec_q) writes every        *)
(* element of its output once and nothing beside it, and reads the         *)
(* elements of its inputs that belong to it; the 256 values of a q6_K      *)
(* block are all of its bits, with one scale for 16 of them.               *)
(***************************************************************************)
THEOREM LayoutsAreExact == Spec => []LayoutsExact
<1>1. Init => LayoutsExact
  <2> SUFFICES ASSUME Init, input.of = "layout" PROVE LayoutsExact
    BY DEF LayoutsExact
  <2>1. \E s \in Shapes : input = [of |-> "layout", shape |-> s]
    BY DEF Init
  <2> QED
    BY <2>1, ShapeExact
<1>2. Init /\ [Next]_input => Init'
  BY DEF Init, Next
<1> QED
  BY <1>1, <1>2, PTL DEF Spec

-----------------------------------------------------------------------------
(***************************************************************************)
(* Powers of two.  That the recursive function exists, and what holds of   *)
(* all its values, is shown by a least counterexample.                     *)
(***************************************************************************)
\* The order of the natural numbers, as a relation the provers can use.
LEMMA LessThanWellFounded ==
  \E R : IsWellFoundedOn(R, Nat) /\ \A x, y \in Nat : x < y => <<x, y>> \in R
<1>1. \A x, y \in Nat : x < y => <<x, y>> \in OpToRel(<, Nat)
  BY DEF OpToRel
<1> QED
  BY <1>1, NatLessThanWellFounded, Zenon

\* A set of natural numbers that is not empty has a least element.
LEMMA LeastElement ==
  ASSUME NEW S, S \subseteq Nat, S # {}
  PROVE  \E x \in S : \A y \in S : x <= y
<1>1. PICK R : IsWellFoundedOn(R, Nat) /\ \A x, y \in Nat : x < y => <<x, y>> \in R
  BY LessThanWellFounded
<1>2. IsWellFoundedOn(R, Nat)
  BY <1>1
<1>3. \A T \in SUBSET Nat : T # {} => \E x \in T : \A y \in T : ~(<<y, x>> \in R)
  BY <1>2, WFMin, Zenon
<1>4. PICK x \in S : \A y \in S : ~(<<y, x>> \in R)
  BY <1>3
<1>5. \A y \in S : ~(y < x)
  BY <1>1, <1>4
<1> QED
  BY <1>4, <1>5

\* What holds of 0, and of a number when of the one before, holds of all.
LEMMA Induction ==
  ASSUME NEW S, S \subseteq Nat, 0 \in S, \A k \in S : k + 1 \in S
  PROVE  S = Nat
<1> DEFINE C == Nat \ S
<1>1. SUFFICES ASSUME C # {} PROVE FALSE
  OBVIOUS
<1>2. PICK k \in C : \A y \in C : k <= y
  <2>1. C \subseteq Nat
    OBVIOUS
  <2> HIDE DEF C
  <2> QED
    BY <1>1, <2>1, LeastElement
<1>3. k \in Nat /\ k \notin S /\ k # 0
  BY <1>2
<1>4. k - 1 \in Nat /\ k - 1 < k /\ (k - 1) + 1 = k
  BY <1>3
<1>5. k - 1 \in S
  BY <1>2, <1>4
<1> QED
  BY <1>3, <1>4, <1>5

PowersTo(n, g) == g = [k \in 0..n |-> IF k = 0 THEN 1 ELSE 2 * g[k - 1]]

LEMMA PowersAgree ==
  ASSUME NEW n \in Nat, NEW g, PowersTo(n, g), NEW m \in Nat, NEW h, PowersTo(m, h),
         NEW k \in Nat, k <= n, k <= m
  PROVE  g[k] = h[k]
<1> DEFINE S == {j \in Nat : j <= n /\ j <= m => g[j] = h[j]}
<1>1. \A j \in 0..n : g[j] = IF j = 0 THEN 1 ELSE 2 * g[j - 1]
  BY DEF PowersTo
<1>2. \A j \in 0..m : h[j] = IF j = 0 THEN 1 ELSE 2 * h[j - 1]
  BY DEF PowersTo
<1>3. 0 \in S
  BY <1>1, <1>2
<1>4. ASSUME NEW j \in S PROVE j + 1 \in S
  <2>1. j + 1 \in Nat /\ (j + 1) - 1 = j
    OBVIOUS
  <2>2. ASSUME j + 1 <= n, j + 1 <= m PROVE g[j + 1] = h[j + 1]
    <3>1. j + 1 \in 0..n /\ j + 1 \in 0..m /\ j + 1 # 0 /\ g[j] = h[j]
      BY <2>2
    <3> QED
      BY <1>1, <1>2, <2>1, <3>1
  <2> QED
    BY <2>1, <2>2
<1>5. S = Nat
  <2>1. S \subseteq Nat
    OBVIOUS
  <2> HIDE DEF S
  <2> QED
    BY <1>3, <1>4, <2>1, Induction
<1> QED
  BY <1>5

LEMMA PowersExist == \A n \in Nat : \E g : PowersTo(n, g)
<1> DEFINE S == {n \in Nat : \E g : PowersTo(n, g)}
<1>1. 0 \in S
  <2> DEFINE g == [k \in 0..0 |-> 1]
  <2>1. g = [k \in 0..0 |-> IF k = 0 THEN 1 ELSE 2 * g[k - 1]]
    OBVIOUS
  <2> HIDE DEF g
  <2>2. PowersTo(0, g)
    BY <2>1 DEF PowersTo
  <2> QED
    BY <2>2
<1>2. ASSUME NEW n \in S PROVE n + 1 \in S
  <2>1. PICK g : PowersTo(n, g)
    OBVIOUS
  <2>2. \A k \in 0..n : g[k] = IF k = 0 THEN 1 ELSE 2 * g[k - 1]
    BY <2>1 DEF PowersTo
  <2> DEFINE h == [k \in 0..(n + 1) |-> IF k = n + 1 THEN 2 * g[n] ELSE g[k]]
  <2>3. ASSUME NEW k \in 0..(n + 1) PROVE h[k] = IF k = 0 THEN 1 ELSE 2 * h[k - 1]
    <3>1. CASE k = n + 1
      <4>1. h[k] = 2 * g[n] /\ k # 0 /\ k - 1 = n /\ h[n] = g[n]
        BY <3>1
      <4> QED
        BY <4>1
    <3>2. CASE k # n + 1 /\ k # 0
      <4>1. k \in 0..n /\ k - 1 \in 0..(n + 1) /\ k - 1 # n + 1
        BY <3>2
      <4>2. h[k] = g[k] /\ h[k - 1] = g[k - 1]
        BY <3>2, <4>1
      <4> QED
        BY <2>2, <3>2, <4>1, <4>2
    <3>3. CASE k = 0
      <4>1. k \in 0..n /\ k # n + 1
        BY <3>3
      <4> QED
        BY <2>2, <3>3, <4>1
    <3> QED
      BY <3>1, <3>2, <3>3
  <2>4. h = [k \in 0..(n + 1) |-> h[k]]
    OBVIOUS
  <2> HIDE DEF h
  <2>5. h = [k \in 0..(n + 1) |-> IF k = 0 THEN 1 ELSE 2 * h[k - 1]]
    BY <2>3, <2>4
  <2>6. PowersTo(n + 1, h)
    BY <2>5 DEF PowersTo
  <2> QED
    BY <2>6
<1>3. S = Nat
  <2>1. S \subseteq Nat
    OBVIOUS
  <2> HIDE DEF S
  <2> QED
    BY <1>1, <1>2, <2>1, Induction
<1> QED
  BY <1>3

LEMMA Pow2Steps == Pow2 = [n \in Nat |-> IF n = 0 THEN 1 ELSE 2 * Pow2[n - 1]]
<1> DEFINE G(n) == CHOOSE g : PowersTo(n, g)
           f == [n \in Nat |-> G(n)[n]]
<1>1. \A n \in Nat : PowersTo(n, G(n))
  BY PowersExist
<1> HIDE DEF G
<1>2. ASSUME NEW n \in Nat PROVE f[n] = IF n = 0 THEN 1 ELSE 2 * f[n - 1]
  <2>1. G(n)[n] = IF n = 0 THEN 1 ELSE 2 * G(n)[n - 1]
    <3>1. G(n) = [k \in 0..n |-> IF k = 0 THEN 1 ELSE 2 * G(n)[k - 1]]
      BY <1>1 DEF PowersTo
    <3>2. n \in 0..n
      OBVIOUS
    <3> QED
      BY <3>1, <3>2
  <2>2. CASE n = 0
    BY <2>1, <2>2
  <2>3. CASE n # 0
    <3>1. n - 1 \in Nat /\ n - 1 <= n /\ n - 1 <= n - 1
      BY <2>3
    <3>2. G(n)[n - 1] = G(n - 1)[n - 1]
      BY <1>1, <3>1, PowersAgree
    <3>3. f[n] = G(n)[n] /\ f[n - 1] = G(n - 1)[n - 1]
      BY <3>1
    <3> QED
      BY <2>1, <2>3, <3>2, <3>3
  <2> QED
    BY <2>2, <2>3
<1>3. f = [n \in Nat |-> f[n]]
  OBVIOUS
<1> HIDE DEF f
<1>4. f = [n \in Nat |-> IF n = 0 THEN 1 ELSE 2 * f[n - 1]]
  BY <1>2, <1>3
<1> DEFINE IsPow(g) == g = [n \in Nat |-> IF n = 0 THEN 1 ELSE 2 * g[n - 1]]
<1>5. IsPow(f) /\ Pow2 = CHOOSE g : IsPow(g)
  BY <1>4 DEF Pow2
<1> HIDE DEF IsPow
<1>6. IsPow(Pow2)
  BY <1>5
<1> QED
  BY <1>6 DEF IsPow

LEMMA Pow2IsNat == \A n \in Nat : Pow2[n] \in Nat /\ Pow2[n] # 0
<1> DEFINE S == {n \in Nat : Pow2[n] \in Nat /\ Pow2[n] # 0}
<1>1. 0 \in S
  BY Pow2Steps
<1>2. ASSUME NEW n \in S PROVE n + 1 \in S
  <2>1. Pow2[n + 1] = 2 * Pow2[n]
    <3>1. n + 1 \in Nat /\ n + 1 # 0 /\ (n + 1) - 1 = n
      OBVIOUS
    <3> QED
      BY <3>1, Pow2Steps
  <2> QED
    BY <2>1
<1>3. S = Nat
  <2>1. S \subseteq Nat
    OBVIOUS
  <2> HIDE DEF S
  <2> QED
    BY <1>1, <1>2, <2>1, Induction
<1> QED
  BY <1>3

LEMMA Pow2Next ==
  /\ Pow2[0] = 1
  /\ \A n \in Nat : n + 1 \in Nat /\ Pow2[n + 1] = 2 * Pow2[n]
<1>1. Pow2[0] = 1
  BY Pow2Steps
<1>2. ASSUME NEW n \in Nat PROVE n + 1 \in Nat /\ Pow2[n + 1] = 2 * Pow2[n]
  <2>1. n + 1 \in Nat /\ n + 1 # 0 /\ (n + 1) - 1 = n
    OBVIOUS
  <2> QED
    BY <2>1, Pow2Steps
<1> QED
  BY <1>1, <1>2

LEMMA Pow2Sum ==
  ASSUME NEW a \in Nat, NEW b \in Nat
  PROVE  Pow2[a + b] = Pow2[a] * Pow2[b]
<1> DEFINE S == {n \in Nat : Pow2[a + n] = Pow2[a] * Pow2[n]}
<1>1. 0 \in S
  <2>1. a + 0 = a /\ Pow2[0] = 1 /\ Pow2[a] \in Nat
    BY Pow2Next, Pow2IsNat
  <2> QED
    BY <2>1
<1>2. ASSUME NEW n \in S PROVE n + 1 \in S
  <2>1. PICK x, y, z \in Nat : x = Pow2[a] /\ y = Pow2[n] /\ z = Pow2[a + n] /\ z = x * y
    BY Pow2IsNat
  <2>2. Pow2[n + 1] = 2 * y /\ Pow2[a + (n + 1)] = 2 * z
    <3>1. a + (n + 1) = (a + n) + 1 /\ a + n \in Nat
      OBVIOUS
    <3> QED
      BY <2>1, <3>1, Pow2Next
  <2>3. 2 * z = x * (2 * y)
    BY <2>1
  <2> QED
    BY <2>1, <2>2, <2>3
<1>3. S = Nat
  <2>1. S \subseteq Nat
    OBVIOUS
  <2> HIDE DEF S
  <2> QED
    BY <1>1, <1>2, <2>1, Induction
<1> QED
  BY <1>3

LEMMA Pow2Grows ==
  ASSUME NEW a \in Nat, NEW b \in Nat, a <= b
  PROVE  Pow2[a] <= Pow2[b]
<1>1. PICK d \in Nat : b = a + d
  <2>1. b - a \in Nat /\ b = a + (b - a)
    OBVIOUS
  <2> QED
    BY <2>1
<1>2. PICK x, y, z \in Nat : x = Pow2[a] /\ y = Pow2[d] /\ z = Pow2[b] /\ y # 0
  BY Pow2IsNat
<1>3. z = x * y
  BY <1>1, <1>2, Pow2Sum
<1>4. x <= x * y
  BY <1>2
<1> QED
  BY <1>2, <1>3, <1>4

-----------------------------------------------------------------------------
(***************************************************************************)
(* Casts.  The bytes of an element are its number modulo the width, and a  *)
(* uint64 small enough goes through a double unchanged.                    *)
(***************************************************************************)
LEMMA NegativeMod ==
  ASSUME NEW x \in Nat, NEW m \in Nat, x < m
  PROVE  x % m = x /\ (x - m) % m = x
<1>1. (x - m) % m = x
  <2>1. (x - m) = (-1) * m + x
    OBVIOUS
  <2> QED
    BY <2>1
<1> QED
  BY <1>1

LEMMA SmallDouble ==
  ASSUME NEW n \in Nat, n < Pow2[DoubleMant]
  PROVE  NearestDouble(n) = n
<1>1. DoubleMant \in Nat /\ Bits["uint64"] \in Nat
  BY WidthsAssumption DEF IntegralType, Unsigned
<1> DEFINE P(j) == n < Pow2[DoubleMant + j] /\ (j = 0 \/ n >= Pow2[DoubleMant + j - 1])
           k == CHOOSE j \in 0..Bits["uint64"] : P(j)
<1>2. 0 \in 0..Bits["uint64"] /\ P(0)
  BY <1>1
<1>3. ASSUME NEW j \in 0..Bits["uint64"], P(j) PROVE j = 0
  <2> SUFFICES ASSUME j # 0 PROVE FALSE
    OBVIOUS
  <2>1. DoubleMant + j - 1 \in Nat /\ DoubleMant <= DoubleMant + j - 1
    BY <1>1
  <2>2. PICK x, y \in Nat : x = Pow2[DoubleMant] /\ y = Pow2[DoubleMant + j - 1]
    BY <1>1, <2>1, Pow2IsNat
  <2>3. x <= y
    BY <1>1, <2>1, <2>2, Pow2Grows
  <2>4. n >= y /\ n < x
    BY <1>3, <2>2
  <2> QED
    BY <2>3, <2>4
<1>4. k = 0
  <2> HIDE DEF P
  <2> QED
    BY <1>2, <1>3
<1>5. NearestDouble(n) =
        LET up == 2 * (n % Pow2[k]) > Pow2[k] \/ (2 * (n % Pow2[k]) = Pow2[k] /\ (n \div Pow2[k]) % 2 = 1)
        IN (n \div Pow2[k] + IF up THEN 1 ELSE 0) * Pow2[k]
  BY DEF NearestDouble
<1> HIDE DEF k
<1>6. Pow2[k] = 1
  BY <1>4, Pow2Next
<1>7. n % 1 = 0 /\ n \div 1 = n
  OBVIOUS
<1> QED
  BY <1>5, <1>6, <1>7

LEMMA WidthIsNat ==
  ASSUME NEW t \in IntegralType
  PROVE  Bits[t] \in Nat /\ Pow2[Bits[t]] \in Nat /\ Pow2[Bits[t]] # 0
<1>1. Bits[t] \in Nat
  BY WidthsAssumption
<1> QED
  BY <1>1, Pow2IsNat

LEMMA RawIsNat ==
  ASSUME NEW t \in IntegralType, NEW raw \in Raw(t)
  PROVE  raw \in Nat /\ raw < Pow2[Bits[t]] /\ raw % Pow2[Bits[t]] = raw
<1>1. PICK m \in Nat : m = Pow2[Bits[t]] /\ m # 0
  BY WidthIsNat
<1>2. raw \in Nat /\ raw < m
  BY <1>1 DEF Raw
<1>3. raw % m = raw
  BY <1>1, <1>2, NegativeMod
<1> QED
  BY <1>1, <1>2, <1>3

\* What is read is the number, unless it is a uint64 too large for a double.
LEMMA ReadsMeaning ==
  ASSUME NEW t \in IntegralType, NEW raw \in Raw(t), t = "uint64" => raw < Pow2[DoubleMant]
  PROVE  ReadAsI64(t, raw) = {Meaning(t, raw)}
<1>1. raw \in Nat
  BY RawIsNat
<1>2. CASE t \in Signed
  <2>1. t # "bool" /\ t \notin Unsigned \ {"uint64"}
    BY <1>2 DEF Signed, Unsigned
  <2>2. Meaning(t, raw) = AsSigned(raw, Bits[t])
    BY <1>2, <2>1 DEF Meaning
  <2>3. ReadAsI64(t, raw) = {AsSigned(raw, Bits[t])}
    BY <1>2, <2>1 DEF ReadAsI64
  <2> QED
    BY <2>2, <2>3
<1>3. CASE t = "bool"
  <2>1. t \notin Signed /\ t \notin Unsigned \ {"uint64"}
    BY <1>3 DEF Signed, Unsigned
  <2>2. Meaning(t, raw) = IF raw = 0 THEN 0 ELSE 1
    BY <1>3, <2>1 DEF Meaning
  <2>3. ReadAsI64(t, raw) = {IF raw # 0 THEN 1 ELSE 0}
    BY <1>3, <2>1 DEF ReadAsI64
  <2> QED
    BY <2>2, <2>3
<1>4. CASE t \in Unsigned \ {"uint64"}
  <2>1. t \notin Signed /\ t # "bool"
    BY <1>4 DEF Signed, Unsigned
  <2> QED
    BY <1>4, <2>1 DEF ReadAsI64, Meaning
<1>5. CASE t = "uint64"
  <2>1. NearestDouble(raw) = raw
    BY <1>1, <1>5, SmallDouble
  <2>2. raw < Pow2[Bits["long"] - 1]
    <3>1. DoubleMant \in Nat /\ Bits["long"] - 1 \in Nat /\ DoubleMant <= Bits["long"] - 1
      BY WidthsAssumption DEF IntegralType, Signed
    <3>2. PICK x, y \in Nat : x = Pow2[DoubleMant] /\ y = Pow2[Bits["long"] - 1]
      BY <3>1, Pow2IsNat
    <3>3. x <= y
      BY <3>1, <3>2, Pow2Grows
    <3>4. raw < x
      BY <1>5, <3>2
    <3> QED
      BY <1>1, <3>2, <3>3, <3>4
  <2>3. t \notin Signed /\ t # "bool" /\ t \notin Unsigned \ {"uint64"}
    BY <1>5 DEF Signed, Unsigned
  <2>4. ReadAsI64(t, raw) = {raw}
    BY <2>1, <2>2, <2>3 DEF ReadAsI64
  <2> QED
    BY <2>3, <2>4 DEF Meaning
<1> QED
  BY <1>2, <1>3, <1>4, <1>5 DEF IntegralType

\* An element is its number modulo its width; that of a bool says whether it is 0.
LEMMA RawIsMeaning ==
  ASSUME NEW t \in IntegralType, t # "bool", NEW raw \in Raw(t)
  PROVE  raw = Meaning(t, raw) % Pow2[Bits[t]]
<1>1. PICK m \in Nat : m = Pow2[Bits[t]] /\ m # 0 /\ raw \in Nat /\ raw < m /\ raw % m = raw
  BY WidthIsNat, RawIsNat
<1>2. CASE t \in Signed
  <2>1. Meaning(t, raw) = raw \/ Meaning(t, raw) = raw - m
    BY <1>1, <1>2 DEF Meaning, AsSigned
  <2>2. (raw - m) % m = raw
    BY <1>1, NegativeMod
  <2> QED
    BY <1>1, <2>1, <2>2
<1>3. CASE t \notin Signed
  <2>1. Meaning(t, raw) = raw
    BY <1>3 DEF Meaning
  <2> QED
    BY <1>1, <2>1
<1> QED
  BY <1>2, <1>3

LEMMA CastExact ==
  ASSUME NEW from \in IntegralType, NEW to \in IntegralType, NEW raw \in Raw(from),
         from # "uint64" \/ to = "uint64" \/ raw < Pow2[DoubleMant], NEW r \in DirectCopy(from, to, raw)
  PROVE  IF to = "bool" THEN Meaning("bool", r) = IF Meaning(from, raw) = 0 THEN 0 ELSE 1
         ELSE r = Meaning(from, raw) % Pow2[Bits[to]]
<1>1. CASE from = to
  <2>1. r = raw
    BY <1>1 DEF DirectCopy
  <2>2. CASE to = "bool"
    BY <1>1, <2>1, <2>2 DEF Meaning, Signed
  <2>3. CASE to # "bool"
    BY <1>1, <2>1, <2>3, RawIsMeaning
  <2> QED
    BY <2>2, <2>3
<1>2. CASE from # to
  <2>1. from = "uint64" => raw < Pow2[DoubleMant]
    BY <1>2
  <2>2. ReadAsI64(from, raw) = {Meaning(from, raw)}
    BY <2>1, ReadsMeaning
  <2>3. r = WriteFromI64(to, Meaning(from, raw))
    BY <1>2, <2>2 DEF DirectCopy
  <2>4. CASE to = "bool"
    <3>1. r = IF Meaning(from, raw) # 0 THEN 1 ELSE 0
      BY <2>3, <2>4 DEF WriteFromI64
    <3>2. Meaning("bool", r) = IF r = 0 THEN 0 ELSE 1
      BY DEF Meaning, Signed
    <3> QED
      BY <2>4, <3>1, <3>2
  <2>5. CASE to # "bool"
    BY <2>3, <2>5 DEF WriteFromI64
  <2> QED
    BY <2>4, <2>5
<1> QED
  BY <1>1, <1>2

(***************************************************************************)
(* Whatever the widths, a direct copy keeps the number modulo that of its  *)
(* new type.                                                               *)
(***************************************************************************)
THEOREM CastsKeepValue == Spec => []CastKeepsValue
<1>1. Init => CastKeepsValue
  <2> SUFFICES ASSUME Init, input.of = "cast" PROVE CastKeepsValue
    BY DEF CastKeepsValue
  <2>1. PICK from \in IntegralType, to \in IntegralType :
          \E x \in Raw(from) : input = [of |-> "cast", source |-> from, target |-> to, raw |-> x]
    BY DEF Init
  <2>a. PICK raw \in Raw(from) : input = [of |-> "cast", source |-> from, target |-> to, raw |-> raw]
    BY <2>1
  <2>2. input.source = from /\ input.target = to /\ input.raw = raw
    BY <2>a
  <2>3. ASSUME from # "uint64" \/ to = "uint64" \/ raw < Pow2[DoubleMant], NEW r \in DirectCopy(from, to, raw)
        PROVE  IF to = "bool" THEN Meaning("bool", r) = IF Meaning(from, raw) = 0 THEN 0 ELSE 1
               ELSE r = Meaning(from, raw) % Pow2[Bits[to]]
    BY <2>1, <2>3, CastExact
  <2> QED
    BY <2>2, <2>3 DEF CastKeepsValue
<1>2. Init /\ [Next]_input => Init'
  BY DEF Init, Next
<1> QED
  BY <1>1, <1>2, PTL DEF Spec

-----------------------------------------------------------------------------
(***************************************************************************)
(* Bits.  A number stored bit by bit is loaded as its lower bits.          *)
(***************************************************************************)
Bit(v, k) == (v \div Pow2[k]) % 2
Low(v, k) == v % Pow2[k]

LEMMA LowIsNat ==
  ASSUME NEW v \in Nat, NEW k \in Nat
  PROVE  Low(v, k) \in Nat /\ Bit(v, k) \in {0, 1}
<1>1. PICK p \in Nat : p = Pow2[k] /\ p # 0
  BY Pow2IsNat
<1>2. PICK q \in Nat, r \in Nat : q = v \div p /\ r = v % p
  BY <1>1
<1>3. q % 2 \in {0, 1}
  OBVIOUS
<1> QED
  BY <1>1, <1>2, <1>3 DEF Low, Bit

LEMMA LowNext ==
  ASSUME NEW v \in Nat, NEW k \in Nat
  PROVE  Low(v, 0) = 0 /\ Low(v, k + 1) = Low(v, k) + Bit(v, k) * Pow2[k]
<1>1. PICK p \in Nat : p = Pow2[k] /\ p # 0 /\ Pow2[k + 1] = 2 * p
  BY Pow2IsNat, Pow2Next
<1>2. PICK q \in Nat, r \in Nat : q = v \div p /\ r = v % p /\ v = q * p + r /\ r < p
  <2>1. p > 0
    BY <1>1
  <2> HIDE <1>1
  <2> QED
    BY <2>1
<1>3. PICK h \in Nat, b \in Nat : h = q \div 2 /\ b = q % 2 /\ q = 2 * h + b /\ (b = 0 \/ b = 1)
  OBVIOUS
<1>4. PICK t \in Nat : t = b * p + r
  OBVIOUS
<1>5. PICK d \in Nat : d = 2 * p /\ d # 0
  BY <1>1
<1>6. t < d
  BY <1>2, <1>3, <1>4, <1>5
<1>7. v = h * d + t
  <2>1. v = (2 * h + b) * p + r
    BY <1>2, <1>3
  <2>2. (2 * h + b) * p + r = h * (2 * p) + (b * p + r)
    OBVIOUS
  <2> QED
    BY <1>4, <1>5, <2>1, <2>2
<1>8. v % d = t
  BY <1>5, <1>6, <1>7, MultipleDivides
<1>9. Low(v, k + 1) = b * p + r
  BY <1>1, <1>4, <1>5, <1>8 DEF Low
<1>10. Low(v, 0) = 0
  <2>1. v % 1 = 0
    OBVIOUS
  <2> QED
    BY <2>1, Pow2Next DEF Low
<1>11. Low(v, k) = r /\ Bit(v, k) = b
  BY <1>1, <1>2, <1>3 DEF Low, Bit
<1>12. b * p + r = r + b * p
  OBVIOUS
<1> QED
  BY <1>1, <1>9, <1>10, <1>11, <1>12

LEMMA LowSmall ==
  ASSUME NEW v \in Nat, NEW k \in Nat, v < Pow2[k]
  PROVE  Low(v, k) = v
<1>1. PICK p \in Nat : p = Pow2[k] /\ p # 0
  BY Pow2IsNat
<1> QED
  BY <1>1, NegativeMod DEF Low

Loads(w, lo, m, g) == g = [n \in 0..m |-> IF n = 0 THEN 0 ELSE g[n - 1] + w[lo + n - 1] * Pow2[n - 1]]

LEMMA LoadsOnce ==
  ASSUME NEW w, NEW lo \in Nat, NEW m \in Nat, NEW g, Loads(w, lo, m, g), NEW h, Loads(w, lo, m, h)
  PROVE  g[m] = h[m]
<1> DEFINE S == {n \in Nat : n <= m => g[n] = h[n]}
<1>1. \A n \in 0..m : g[n] = IF n = 0 THEN 0 ELSE g[n - 1] + w[lo + n - 1] * Pow2[n - 1]
  BY DEF Loads
<1>2. \A n \in 0..m : h[n] = IF n = 0 THEN 0 ELSE h[n - 1] + w[lo + n - 1] * Pow2[n - 1]
  BY DEF Loads
<1>3. 0 \in S
  BY <1>1, <1>2
<1>4. ASSUME NEW n \in S PROVE n + 1 \in S
  <2>1. n + 1 \in Nat /\ (n + 1) - 1 = n
    OBVIOUS
  <2>2. ASSUME n + 1 <= m PROVE g[n + 1] = h[n + 1]
    <3>1. n + 1 \in 0..m /\ n + 1 # 0 /\ g[n] = h[n]
      BY <2>2
    <3> QED
      BY <1>1, <1>2, <2>1, <3>1
  <2> QED
    BY <2>1, <2>2
<1>5. S = Nat
  <2>1. S \subseteq Nat
    OBVIOUS
  <2> HIDE DEF S
  <2> QED
    BY <1>3, <1>4, <2>1, Induction
<1> QED
  BY <1>5

LEMMA LoadIsLow ==
  ASSUME NEW w, NEW lo \in Nat, NEW hi \in Nat, lo <= hi, NEW v \in Nat,
         \A b \in lo..hi : w[b] = Bit(v, b - lo)
  PROVE  Load(w, lo, hi) = Low(v, hi - lo + 1)
<1> DEFINE m == hi - lo + 1
           g == [n \in 0..m |-> Low(v, n)]
<1>1. m \in Nat
  OBVIOUS
<1>2. ASSUME NEW n \in 0..m PROVE g[n] = IF n = 0 THEN 0 ELSE g[n - 1] + w[lo + n - 1] * Pow2[n - 1]
  <2>1. CASE n = 0
    BY <2>1, LowNext
  <2>2. CASE n # 0
    <3>1. PICK k \in Nat : k = n - 1 /\ k + 1 = n /\ k \in 0..m
      BY <2>2
    <3>2. lo + n - 1 \in lo..hi /\ (lo + n - 1) - lo = k
      BY <3>1
    <3>3. w[lo + n - 1] = Bit(v, k)
      BY <3>2
    <3>4. Low(v, n) = Low(v, k) + Bit(v, k) * Pow2[k]
      BY <3>1, LowNext
    <3> QED
      BY <2>2, <3>1, <3>3, <3>4
  <2> QED
    BY <2>1, <2>2
<1>3. g = [n \in 0..m |-> g[n]]
  OBVIOUS
<1>4. g[m] = Low(v, m)
  BY <1>1
<1> HIDE DEF g
<1>5. g = [n \in 0..m |-> IF n = 0 THEN 0 ELSE g[n - 1] + w[lo + n - 1] * Pow2[n - 1]]
  BY <1>2, <1>3
<1> HIDE DEF m
<1>6. Loads(w, lo, m, g)
  BY <1>5 DEF Loads
<1> DEFINE l == CHOOSE h : Loads(w, lo, m, h)
<1>7. Loads(w, lo, m, l)
  BY <1>6
<1>8. Load(w, lo, hi) = l[m]
  BY DEF Load, Loads, m
<1> HIDE DEF l
<1>9. l[m] = g[m]
  BY <1>1, <1>6, <1>7, LoadsOnce
<1> QED
  BY <1>4, <1>8, <1>9 DEF m

-----------------------------------------------------------------------------
(***************************************************************************)
(* Fields.  A field that is stored holds its number until one of its bits  *)
(* is stored again.                                                        *)
(***************************************************************************)
IsField(w, lo, hi, v) == \A b \in lo..hi : b - lo < Word => w[b] = Bit(v, b - lo)
Within(w, n) == DOMAIN w = 0..(n - 1)

LEMMA StoreHolds ==
  ASSUME NEW w, NEW n \in Nat, Within(w, n), NEW lo \in Nat, NEW hi \in Nat, hi < n, NEW v
  PROVE  Within(Store(w, lo, hi, v), n) /\ IsField(Store(w, lo, hi, v), lo, hi, v)
BY WordAssumption DEF Store, Bit, IsField, Within

LEMMA StoreKeeps ==
  ASSUME NEW w, NEW n \in Nat, Within(w, n), NEW lo \in Nat, NEW hi \in Nat, NEW v,
         NEW l \in Nat, NEW h \in Nat, h < n, NEW u, IsField(w, l, h, u), h < lo \/ hi < l
  PROVE  IsField(Store(w, lo, hi, v), l, h, u)
<1>1. \A b \in l..h : b \in DOMAIN w /\ b \notin lo..hi
  BY DEF Within
<1>2. \A b \in l..h : Store(w, lo, hi, v)[b] = w[b]
  BY <1>1 DEF Store
<1> QED
  BY <1>2 DEF IsField

LEMMA BitOfZero == ASSUME NEW k \in Nat PROVE Bit(0, k) = 0
<1>1. PICK p \in Nat : p = Pow2[k] /\ p # 0
  BY Pow2IsNat
<1>2. p > 0
  BY <1>1
<1>3. 0 \div p = 0
  <2> HIDE <1>1
  <2> QED
    BY <1>2
<1>4. 0 % 2 = 0
  OBVIOUS
<1> QED
  BY <1>1, <1>3, <1>4 DEF Bit

LEMMA ZerosHold ==
  ASSUME NEW n \in Nat, NEW lo \in Nat, NEW hi \in Nat, hi < n
  PROVE  Within(Zeros(n), n) /\ IsField(Zeros(n), lo, hi, 0)
<1>1. DOMAIN Zeros(n) = 0..(n - 1) /\ \A b \in lo..hi : Zeros(n)[b] = 0 /\ b - lo \in Nat
  BY DEF Zeros
<1> QED
  BY <1>1, BitOfZero DEF IsField, Within

LEMMA ZeroBit ==
  ASSUME NEW w, NEW b \in Nat, IsField(w, b, b, 0)
  PROVE  w[b] = 0
<1>1. b \in b..b /\ b - b = 0 /\ b - b < Word
  BY WordAssumption
<1> QED
  BY <1>1, BitOfZero DEF IsField

LEMMA FieldStart ==
  ASSUME NEW w, NEW lo \in Nat, NEW hi \in Nat, NEW h \in Nat, h <= hi, NEW v, IsField(w, lo, hi, v)
  PROVE  IsField(w, lo, h, v)
<1>1. \A b \in lo..h : b \in lo..hi
  OBVIOUS
<1> QED
  BY <1>1 DEF IsField

LEMMA LoadField ==
  ASSUME NEW w, NEW lo \in Nat, NEW hi \in Nat, lo <= hi, hi - lo < Word, NEW v \in Nat,
         IsField(w, lo, hi, v)
  PROVE  /\ Load(w, lo, hi) = Low(v, hi - lo + 1)
         /\ v < Pow2[hi - lo + 1] => Load(w, lo, hi) = v
<1>1. \A b \in lo..hi : w[b] = Bit(v, b - lo)
  <2>1. \A b \in lo..hi : b - lo < Word
    BY WordAssumption
  <2> QED
    BY <2>1 DEF IsField
<1>2. Load(w, lo, hi) = Low(v, hi - lo + 1)
  BY <1>1, LoadIsLow
<1>3. hi - lo + 1 \in Nat
  OBVIOUS
<1> QED
  BY <1>2, <1>3, LowSmall

\* What the widths of some fields come to.
LEMMA Pow2Values ==
  Pow2[0] = 1 /\ Pow2[1] = 2 /\ Pow2[2] = 4 /\ Pow2[3] = 8 /\ Pow2[4] = 16 /\ Pow2[8] = 256
<1>1. Pow2[0] = 1 /\ Pow2[0 + 1] = 2 * Pow2[0] /\ Pow2[1 + 1] = 2 * Pow2[1] /\ Pow2[2 + 1] = 2 * Pow2[2]
      /\ Pow2[3 + 1] = 2 * Pow2[3]
  BY Pow2Next
<1>2. Pow2[0] = 1 /\ Pow2[1] = 2 /\ Pow2[2] = 4 /\ Pow2[3] = 8 /\ Pow2[4] = 16
  BY <1>1
<1>3. Pow2[4 + 4] = Pow2[4] * Pow2[4]
  BY Pow2Sum
<1>4. Pow2[8] = 256
  BY <1>2, <1>3
<1> QED
  BY <1>2, <1>4

\* A number of n bits.
LEMMA BitsAreNat ==
  ASSUME NEW n \in Nat, NEW v \in OfBits(n)
  PROVE  v \in Nat /\ v < Pow2[n]
<1>1. PICK p \in Nat : p = Pow2[n]
  BY Pow2IsNat
<1> QED
  BY <1>1 DEF OfBits

\* A multiple of 4 of two bits more, without its two lower bits.
LEMMA Quarter ==
  ASSUME NEW n \in Nat, NEW v \in OfBits(n + 2), v % 4 = 0
  PROVE  v \div 4 \in Nat /\ v \div 4 < Pow2[n] /\ 4 * (v \div 4) = v /\ (v \div 4) * 4 = v
<1>1. PICK p \in Nat : p = Pow2[n]
  BY Pow2IsNat
<1>2. Pow2[n + 2] = p * 4
  <2>1. Pow2[n + 2] = Pow2[n] * Pow2[2]
    BY Pow2Sum
  <2>2. Pow2[2] = 4
    BY Pow2Values
  <2> QED
    BY <1>1, <2>1, <2>2
<1>3. v \in Nat /\ v < p * 4
  BY <1>2, BitsAreNat
<1>4. \A u, q \in Nat : u % 4 = 0 /\ u < q * 4 =>
        u \div 4 \in Nat /\ u \div 4 < q /\ 4 * (u \div 4) = u /\ (u \div 4) * 4 = u
  OBVIOUS
<1> QED
  BY <1>1, <1>3, <1>4

-----------------------------------------------------------------------------
(***************************************************************************)
(* Words of methods and of the ring.                                       *)
(***************************************************************************)
LEMMA MethodDecodes ==
  ASSUME NEW m, MethodFits(m)
  PROVE  LET w == PushMethodHeader(m.subchannel, m.method, m.count, m.secOp)
         IN /\ Load(w, 0, 11) * 4 = m.method /\ Load(w, 13, 15) = m.subchannel
            /\ Load(w, 16, 28) = m.count /\ Load(w, 29, 31) = m.secOp /\ w[12] = 0
<1> DEFINE k == m.method \div 4
           w1 == Store(Zeros(32), 29, 31, m.secOp)
           w2 == Store(w1, 16, 28, m.count)
           w3 == Store(w2, 13, 15, m.subchannel)
           w == Store(w3, 0, 11, k)
<1>1. PICK sub, count, secOp \in Nat :
        /\ sub = m.subchannel /\ sub < Pow2[3] /\ count = m.count /\ count < Pow2[13]
        /\ secOp = m.secOp /\ secOp < Pow2[3]
  BY BitsAreNat DEF MethodFits
<1>2. k \in Nat /\ k < Pow2[12] /\ k * 4 = m.method
  <2>1. m.method \in OfBits(12 + 2) /\ m.method % 4 = 0
    BY DEF MethodFits
  <2> QED
    BY <2>1, Quarter
<1>3. PushMethodHeader(m.subchannel, m.method, m.count, m.secOp) = w
  BY DEF PushMethodHeader
<1> HIDE DEF k
<1>4. w1 = Store(Zeros(32), 29, 31, secOp) /\ w2 = Store(w1, 16, 28, count) /\ w3 = Store(w2, 13, 15, sub)
  BY <1>1
<1> HIDE DEF w1, w2, w3
<1>5. Within(w1, 32) /\ IsField(w1, 29, 31, secOp) /\ IsField(w1, 12, 12, 0)
  BY <1>4, ZerosHold, StoreHolds, StoreKeeps
<1>6. Within(w2, 32) /\ IsField(w2, 29, 31, secOp) /\ IsField(w2, 12, 12, 0) /\ IsField(w2, 16, 28, count)
  BY <1>4, <1>5, StoreHolds, StoreKeeps
<1>7. /\ Within(w3, 32) /\ IsField(w3, 29, 31, secOp) /\ IsField(w3, 12, 12, 0)
      /\ IsField(w3, 16, 28, count) /\ IsField(w3, 13, 15, sub)
  BY <1>4, <1>6, StoreHolds, StoreKeeps
<1>8. /\ IsField(w, 29, 31, secOp) /\ IsField(w, 12, 12, 0)
      /\ IsField(w, 16, 28, count) /\ IsField(w, 13, 15, sub) /\ IsField(w, 0, 11, k)
  BY <1>7, StoreHolds, StoreKeeps
<1> HIDE DEF w
<1>9. 11 - 0 < Word /\ 11 - 0 + 1 = 12 /\ 15 - 13 < Word /\ 15 - 13 + 1 = 3 /\ 28 - 16 < Word /\ 28 - 16 + 1 = 13
      /\ 31 - 29 < Word /\ 31 - 29 + 1 = 3
  BY WordAssumption
<1>10. Load(w, 0, 11) = k
  BY <1>2, <1>8, <1>9, LoadField
<1>11. Load(w, 13, 15) = sub
  BY <1>1, <1>8, <1>9, LoadField
<1>12. Load(w, 16, 28) = count
  BY <1>1, <1>8, <1>9, LoadField
<1>13. Load(w, 29, 31) = secOp
  BY <1>1, <1>8, <1>9, LoadField
<1>14. w[12] = 0
  BY <1>8, ZeroBit
<1> QED
  BY <1>1, <1>2, <1>3, <1>10, <1>11, <1>12, <1>13, <1>14

LEMMA PushDecodes ==
  ASSUME NEW p, PushFits(p)
  PROVE  LET e == GpfifoEntry(p.va, p.bytes)
         IN /\ 4 * Load(e.lower, 2, Word - 1) = p.va.lower /\ Load(e.upper, 0, 7) = p.va.upper
            /\ 4 * Load(e.upper, 10, 30) = p.bytes
            /\ e.lower[0] = 0 /\ e.lower[1] = 0 /\ e.upper[8] = 0 /\ e.upper[9] = 0
<1> DEFINE e == GpfifoEntry(p.va, p.bytes)
           a == p.va.lower \div 4
           n == p.bytes \div 4
           w == Store(Zeros(32), 2, 31, a)
           u1 == Store(Zeros(32), 0, 7, p.va.upper)
           u == Store(u1, 10, 30, n)
<1>1. PICK upper \in Nat : upper = p.va.upper /\ upper < Pow2[8]
  BY BitsAreNat DEF PushFits, IsVa
<1>2. e.lower = w /\ e.upper = u
  BY DEF GpfifoEntry
<1>3. n \in Nat /\ n < Pow2[21] /\ 4 * n = p.bytes
  <2>1. p.bytes \in OfBits(21 + 2) /\ p.bytes % 4 = 0
    BY DEF PushFits
  <2> QED
    BY <2>1, Quarter
<1>4. a \in Nat /\ a < Pow2[Word - 2] /\ 4 * a = p.va.lower
  <2>1. Word - 2 \in Nat /\ (Word - 2) + 2 = Word
    BY WordAssumption
  <2>2. p.va.lower \in OfBits((Word - 2) + 2) /\ p.va.lower % 4 = 0
    BY <2>1 DEF PushFits, IsVa
  <2> QED
    BY <2>1, <2>2, Quarter
<1> HIDE DEF a, n
<1>5. IsField(w, 0, 0, 0) /\ IsField(w, 1, 1, 0) /\ IsField(w, 2, 31, a)
  BY ZerosHold, StoreHolds, StoreKeeps
<1>6. u1 = Store(Zeros(32), 0, 7, upper)
  BY <1>1
<1> HIDE DEF u1
<1>7. Within(u1, 32) /\ IsField(u1, 0, 7, upper) /\ IsField(u1, 8, 8, 0) /\ IsField(u1, 9, 9, 0)
  BY <1>6, ZerosHold, StoreHolds, StoreKeeps
<1>8. IsField(u, 0, 7, upper) /\ IsField(u, 8, 8, 0) /\ IsField(u, 9, 9, 0) /\ IsField(u, 10, 30, n)
  BY <1>7, StoreHolds, StoreKeeps
<1> HIDE DEF e, w, u
<1>9. /\ Word - 1 \in Nat /\ 2 <= Word - 1 /\ Word - 1 <= 31 /\ (Word - 1) - 2 < Word /\ (Word - 1) - 2 + 1 = Word - 2
      /\ 7 - 0 < Word /\ 7 - 0 + 1 = 8 /\ 30 - 10 < Word /\ 30 - 10 + 1 = 21
  BY WordAssumption
<1>10. Load(w, 2, Word - 1) = a
  <2>1. IsField(w, 2, Word - 1, a)
    BY <1>5, <1>9, FieldStart
  <2> QED
    BY <1>4, <1>9, <2>1, LoadField
<1>11. Load(u, 0, 7) = upper
  BY <1>1, <1>8, <1>9, LoadField
<1>12. Load(u, 10, 30) = n
  BY <1>3, <1>8, <1>9, LoadField
<1>13. w[0] = 0 /\ w[1] = 0 /\ u[8] = 0 /\ u[9] = 0
  BY <1>5, <1>8, ZeroBit
<1>14. /\ 4 * Load(e.lower, 2, Word - 1) = p.va.lower /\ Load(e.upper, 0, 7) = p.va.upper
       /\ 4 * Load(e.upper, 10, 30) = p.bytes
       /\ e.lower[0] = 0 /\ e.lower[1] = 0 /\ e.upper[8] = 0 /\ e.upper[9] = 0
  BY <1>1, <1>2, <1>3, <1>4, <1>10, <1>11, <1>12, <1>13
<1> QED
  BY <1>14 DEF e

-----------------------------------------------------------------------------
(***************************************************************************)
(* Captured parameters.                                                    *)
(***************************************************************************)
\* A set of the numbers up to n that is not empty has a greatest.
LEMMA GreatestElement ==
  ASSUME NEW n \in Nat, NEW S, S \subseteq 0..n, S # {}
  PROVE  Max(S) \in S /\ \A y \in S : y <= Max(S)
<1> DEFINE T == {n - y : y \in S}
<1>1. T \subseteq Nat /\ T # {}
  <2>1. \A y \in S : n - y \in Nat
    OBVIOUS
  <2>2. PICK y : y \in S
    OBVIOUS
  <2>3. n - y \in T
    BY <2>2
  <2> QED
    BY <2>1, <2>3
<1>2. PICK x \in T : \A y \in T : x <= y
  <2> HIDE DEF T
  <2> QED
    BY <1>1, LeastElement
<1>3. PICK z \in S : x = n - z
  OBVIOUS
<1>4. \A y \in S : z >= y
  <2> TAKE y \in S
  <2>1. n - y \in T /\ y \in Nat /\ z \in Nat /\ y <= n /\ z <= n
    OBVIOUS
  <2>2. n - z <= n - y
    BY <1>2, <1>3, <2>1
  <2> QED
    BY <2>1, <2>2
<1>5. Max(S) \in S /\ \A y \in S : Max(S) >= y
  BY <1>4 DEF Max
<1> QED
  BY <1>5

\* The last value of a key is that of one of its entries.
LEMMA LastOfEntry ==
  ASSUME NEW extra, Len(extra) \in Nat, DOMAIN extra = 1..Len(extra), NEW key, NEW none
  PROVE  LastOf(extra, key, none) = none
         \/ \E i \in DOMAIN extra : extra[i].key = key /\ LastOf(extra, key, none) = extra[i].value
<1> DEFINE of == {i \in DOMAIN extra : extra[i].key = key}
<1>1. CASE of = {}
  BY <1>1 DEF LastOf
<1>2. CASE of # {}
  <2>1. of \subseteq 0..Len(extra)
    OBVIOUS
  <2>2. Max(of) \in of
    <3> HIDE DEF of
    <3> QED
      BY <1>2, <2>1, GreatestElement
  <2>3. LastOf(extra, key, none) = extra[Max(of)].value
    BY <1>2 DEF LastOf
  <2> QED
    BY <2>2, <2>3
<1> QED
  BY <1>1, <1>2

LEMMA CaptureDecodes ==
  ASSUME NEW c, CaptureFits(c)
  PROVE  LET got == CaptureParams(c.extra, c.pointers, c.given, c.max)
         IN /\ got.bytes <= c.max
            /\ got.kind = "pointers" =>
                 got.bytes % WordBytes = 0 /\ got.bytes \in 1..(c.pointers * WordBytes)
            /\ got.kind = "buffer" =>
                 \E i \in DOMAIN c.extra : /\ c.extra[i].key = "size"
                                           /\ c.max # 0 => got.bytes \in 1..c.extra[i].value
<1> DEFINE size == LastOf(c.extra, "size", 0)
           count == IF c.pointers > 256 THEN 256 ELSE c.pointers
           whole == c.max - (c.max % WordBytes)
           bytes == IF count * WordBytes > c.max THEN whole ELSE count * WordBytes
           got == CaptureParams(c.extra, c.pointers, c.given, c.max)
           first == LastOf(c.extra, "buffer", FALSE) /\ size # 0
           cut == IF size > c.max THEN c.max ELSE size
<1>1. /\ c.pointers \in Nat /\ c.max \in Nat /\ Len(c.extra) \in Nat /\ DOMAIN c.extra = 1..Len(c.extra)
      /\ \A i \in DOMAIN c.extra : c.extra[i].key = "size" => c.extra[i].value \in Nat
  BY DEF CaptureFits
<1>2. got = IF first THEN [kind |-> "buffer", bytes |-> cut]
            ELSE IF c.given /\ bytes # 0 THEN [kind |-> "pointers", bytes |-> bytes] ELSE None
  BY DEF CaptureParams
<1>3. WordBytes \in Nat /\ WordBytes # 0
  BY WordAssumption
<1>4. bytes \in Nat /\ bytes <= c.max /\ bytes % WordBytes = 0 /\ bytes <= c.pointers * WordBytes
  <2>1. PICK p, m, b, k \in Nat : p = c.pointers /\ m = c.max /\ b = WordBytes /\ k = count /\ b # 0 /\ k <= p
    <3>1. count \in Nat /\ count <= c.pointers
      BY <1>1
    <3> HIDE DEF count
    <3> QED
      BY <1>1, <1>3, <3>1
  <2>2. PICK x \in Nat : x = k * b /\ x <= p * b /\ x % b = 0
    <3>1. k * b \in Nat /\ k * b <= p * b
      BY <2>1
    <3>2. (k * b + 0) % b = 0
      BY <2>1, MultipleDivides
    <3>3. k * b + 0 = k * b
      OBVIOUS
    <3> QED
      BY <3>1, <3>2, <3>3
  <2>3. PICK q, r \in Nat : q = m \div b /\ r = m % b /\ m = q * b + r
    <3>1. b > 0
      BY <2>1
    <3> HIDE <2>1
    <3> QED
      BY <3>1
  <2>4. PICK y \in Nat : y = q * b /\ m = y + r /\ y % b = 0
    <3>1. (q * b + 0) % b = 0
      BY <2>1, MultipleDivides
    <3>2. q * b + 0 = q * b /\ q * b \in Nat
      OBVIOUS
    <3> QED
      BY <2>3, <3>1, <3>2
  <2>5. m - r = y /\ whole = y
    <3>1. m - r = y
      BY <2>4
    <3> QED
      BY <2>1, <2>3, <3>1
  <2>6. bytes = IF x > m THEN y ELSE x
    BY <2>1, <2>2, <2>5
  <2>7. PICK z \in Nat : z = p * b
    OBVIOUS
  <2> HIDE DEF bytes
  <2> QED
    BY <2>1, <2>2, <2>4, <2>6, <2>7
<1>5. CASE first
  <2>1. got.kind = "buffer" /\ got.bytes = cut
    BY <1>2, <1>5
  <2>2. PICK i \in DOMAIN c.extra : c.extra[i].key = "size" /\ size = c.extra[i].value
    BY <1>1, <1>5, LastOfEntry, SMTT(30)
  <2>3. size \in Nat /\ size # 0
    BY <1>1, <1>5, <2>2
  <2> HIDE DEF size
  <2>4. cut <= c.max /\ (c.max # 0 => cut \in 1..size)
    BY <1>1, <2>3
  <2> HIDE DEF cut
  <2>5. c.max # 0 => got.bytes \in 1..c.extra[i].value
    BY <2>1, <2>2, <2>4
  <2>6. got.bytes <= c.max /\ got.kind # "pointers"
    BY <2>1, <2>4
  <2> HIDE DEF got
  <2>7. \E j \in DOMAIN c.extra : /\ c.extra[j].key = "size"
                                  /\ c.max # 0 => got.bytes \in 1..c.extra[j].value
    BY <2>2, <2>5
  <2> QED
    BY <2>6, <2>7 DEF got
<1> HIDE DEF first, bytes
<1>6. CASE ~first /\ c.given /\ bytes # 0
  <2>1. got.kind = "pointers" /\ got.bytes = bytes
    BY <1>2, <1>6
  <2> HIDE DEF got
  <2>2. bytes \in 1..(c.pointers * WordBytes)
    <3>1. PICK z \in Nat : z = c.pointers * WordBytes
      BY <1>1, <1>3
    <3> QED
      BY <1>4, <1>6, <3>1
  <2> QED
    BY <1>4, <2>1, <2>2 DEF got
<1>7. CASE ~first /\ ~(c.given /\ bytes # 0)
  <2>1. got.kind = "none" /\ got.bytes = 0
    BY <1>2, <1>7 DEF None
  <2> HIDE DEF got
  <2> QED
    BY <1>1, <2>1 DEF got
<1> QED
  BY <1>5, <1>6, <1>7

-----------------------------------------------------------------------------
(***************************************************************************)
(* The QMD.  It is built field after field; a field none of whose bits     *)
(* another field stores holds its value in the end, and bits that no field *)
(* stores are 0.                                                           *)
(***************************************************************************)
QmdBits == QmdWords * 32
WithField(w, f) == SetBits(w, f.lo, f.hi, f.value)
Builds(fields, m, g) ==
  g = [n \in 0..m |-> IF n = 0 THEN Zeros(QmdBits) ELSE WithField(g[n - 1], fields[n])]
InQmd(f) == f.lo \in Nat /\ f.hi \in Nat /\ f.lo <= f.hi /\ f.hi < QmdBits
Apart(f, lo, hi) == f.hi < lo \/ hi < f.lo

LEMMA BuildExists == ASSUME NEW fields PROVE \A n \in Nat : \E g : Builds(fields, n, g)
<1> DEFINE S == {n \in Nat : \E g : Builds(fields, n, g)}
<1>1. 0 \in S
  <2> DEFINE g == [n \in 0..0 |-> Zeros(QmdBits)]
  <2>1. g = [n \in 0..0 |-> IF n = 0 THEN Zeros(QmdBits) ELSE WithField(g[n - 1], fields[n])]
    OBVIOUS
  <2> HIDE DEF g
  <2>2. Builds(fields, 0, g)
    BY <2>1 DEF Builds
  <2> QED
    BY <2>2
<1>2. ASSUME NEW n \in S PROVE n + 1 \in S
  <2>1. PICK g : Builds(fields, n, g)
    OBVIOUS
  <2>2. \A k \in 0..n : g[k] = IF k = 0 THEN Zeros(QmdBits) ELSE WithField(g[k - 1], fields[k])
    BY <2>1 DEF Builds
  <2> DEFINE h == [k \in 0..(n + 1) |-> IF k = n + 1 THEN WithField(g[n], fields[k]) ELSE g[k]]
  <2>3. ASSUME NEW k \in 0..(n + 1)
        PROVE  h[k] = IF k = 0 THEN Zeros(QmdBits) ELSE WithField(h[k - 1], fields[k])
    <3>1. CASE k = n + 1
      <4>1. h[k] = WithField(g[n], fields[k]) /\ k # 0 /\ k - 1 = n /\ h[n] = g[n]
        BY <3>1
      <4> QED
        BY <4>1
    <3>2. CASE k # n + 1 /\ k # 0
      <4>1. k \in 0..n /\ k - 1 \in 0..(n + 1) /\ k - 1 # n + 1
        BY <3>2
      <4>2. h[k] = g[k] /\ h[k - 1] = g[k - 1]
        BY <3>2, <4>1
      <4> QED
        BY <2>2, <3>2, <4>1, <4>2
    <3>3. CASE k = 0
      <4>1. k \in 0..n /\ k # n + 1
        BY <3>3
      <4> QED
        BY <2>2, <3>3, <4>1
    <3> QED
      BY <3>1, <3>2, <3>3
  <2>4. h = [k \in 0..(n + 1) |-> h[k]]
    OBVIOUS
  <2> HIDE DEF h
  <2>5. Builds(fields, n + 1, h)
    BY <2>3, <2>4 DEF Builds
  <2> QED
    BY <2>5
<1>3. S = Nat
  <2>1. S \subseteq Nat
    OBVIOUS
  <2> HIDE DEF S
  <2> QED
    BY <1>1, <1>2, <2>1, Induction
<1> QED
  BY <1>3

\* The QMD after each of the fields.
LEMMA QmdSteps ==
  ASSUME NEW fields, Len(fields) \in Nat
  PROVE  \E g : /\ BuildQmd(fields) = g[Len(fields)] /\ g[0] = Zeros(QmdBits)
                /\ \A n \in Nat : n < Len(fields) => g[n + 1] = WithField(g[n], fields[n + 1])
<1> DEFINE g == CHOOSE h : Builds(fields, Len(fields), h)
<1>1. BuildQmd(fields) = g[Len(fields)]
  BY DEF BuildQmd, Builds, QmdBits, WithField
<1>2. Builds(fields, Len(fields), g)
  BY BuildExists
<1> HIDE DEF g
<1>3. \A k \in 0..Len(fields) : g[k] = IF k = 0 THEN Zeros(QmdBits) ELSE WithField(g[k - 1], fields[k])
  BY <1>2 DEF Builds
<1>4. g[0] = Zeros(QmdBits)
  BY <1>3
<1>5. ASSUME NEW n \in Nat, n < Len(fields) PROVE g[n + 1] = WithField(g[n], fields[n + 1])
  <2>1. n + 1 \in 0..Len(fields) /\ n + 1 # 0 /\ (n + 1) - 1 = n
    BY <1>5
  <2> QED
    BY <1>3, <2>1
<1> QED
  BY <1>1, <1>4, <1>5

LEMMA WithFieldKeeps ==
  ASSUME NEW w, Within(w, QmdBits), NEW f, InQmd(f), NEW lo \in Nat, NEW hi \in Nat, hi < QmdBits, NEW v
  PROVE  /\ Within(WithField(w, f), QmdBits)
         /\ IsField(WithField(w, f), f.lo, f.hi, f.value)
         /\ IsField(w, lo, hi, v) /\ Apart(f, lo, hi) => IsField(WithField(w, f), lo, hi, v)
<1>1. QmdBits \in Nat
  BY WordAssumption DEF QmdBits
<1>2. WithField(w, f) = Store(w, f.lo, f.hi, f.value)
  BY <1>1 DEF WithField, SetBits, InQmd, QmdBits
<1>3. PICK l, h \in Nat : l = f.lo /\ h = f.hi /\ l <= h /\ h < QmdBits
  BY DEF InQmd
<1>4. Within(Store(w, l, h, f.value), QmdBits) /\ IsField(Store(w, l, h, f.value), l, h, f.value)
  BY <1>1, <1>3, StoreHolds
<1>5. ASSUME IsField(w, lo, hi, v), Apart(f, lo, hi) PROVE IsField(Store(w, l, h, f.value), lo, hi, v)
  <2>1. hi < l \/ h < lo
    BY <1>3, <1>5 DEF Apart
  <2> QED
    BY <1>1, <1>3, <1>5, <2>1, StoreKeeps
<1> QED
  BY <1>2, <1>3, <1>4, <1>5

\* A field that the others leave alone.
LEMMA FieldBuilt ==
  ASSUME NEW fields, Len(fields) \in Nat, \A j \in 1..Len(fields) : InQmd(fields[j]),
         NEW lo \in Nat, NEW hi \in Nat, hi < QmdBits, NEW v,
         \A j \in 1..Len(fields) : fields[j] = F(lo, hi, v) \/ Apart(fields[j], lo, hi),
         \E j \in 1..Len(fields) : fields[j] = F(lo, hi, v)
  PROVE  IsField(BuildQmd(fields), lo, hi, v)
<1>1. PICK g : /\ BuildQmd(fields) = g[Len(fields)] /\ g[0] = Zeros(QmdBits)
               /\ \A n \in Nat : n < Len(fields) => g[n + 1] = WithField(g[n], fields[n + 1])
  BY QmdSteps
<1>2. PICK k \in 1..Len(fields) : fields[k] = F(lo, hi, v)
  OBVIOUS
<1>3. QmdBits \in Nat
  BY WordAssumption DEF QmdBits
<1> DEFINE S == {n \in Nat : n <= Len(fields) =>
                               Within(g[n], QmdBits) /\ (k <= n => IsField(g[n], lo, hi, v))}
<1>4. 0 \in S
  BY <1>1, <1>2, <1>3, ZerosHold
<1>5. ASSUME NEW n \in S PROVE n + 1 \in S
  <2>1. SUFFICES ASSUME n + 1 <= Len(fields)
                 PROVE  Within(g[n + 1], QmdBits) /\ (k <= n + 1 => IsField(g[n + 1], lo, hi, v))
    OBVIOUS
  <2>2. n \in Nat /\ n < Len(fields) /\ n <= Len(fields) /\ n + 1 \in 1..Len(fields)
    BY <2>1
  <2>3. Within(g[n], QmdBits) /\ (k <= n => IsField(g[n], lo, hi, v))
    BY <2>2
  <2> DEFINE f == fields[n + 1]
  <2>4. InQmd(f) /\ g[n + 1] = WithField(g[n], f) /\ (f = F(lo, hi, v) \/ Apart(f, lo, hi))
    BY <1>1, <2>2
  <2>5. f = F(lo, hi, v) => f.lo = lo /\ f.hi = hi /\ f.value = v
    BY DEF F
  <2>6. k <= n + 1 => k <= n \/ f = F(lo, hi, v)
    BY <1>2, <2>2
  <2> HIDE DEF f
  <2>7. /\ Within(WithField(g[n], f), QmdBits)
        /\ IsField(WithField(g[n], f), f.lo, f.hi, f.value)
        /\ IsField(g[n], lo, hi, v) /\ Apart(f, lo, hi) => IsField(WithField(g[n], f), lo, hi, v)
    BY <2>3, <2>4, WithFieldKeeps
  <2>8. CASE f = F(lo, hi, v)
    BY <2>4, <2>5, <2>7, <2>8
  <2>9. CASE f # F(lo, hi, v)
    BY <2>3, <2>4, <2>6, <2>7, <2>9
  <2> QED
    BY <2>8, <2>9
<1>6. S = Nat
  <2>1. S \subseteq Nat
    OBVIOUS
  <2> HIDE DEF S
  <2> QED
    BY <1>4, <1>5, <2>1, Induction
<1>7. Len(fields) \in S /\ k <= Len(fields)
  BY <1>2, <1>6
<1> QED
  BY <1>1, <1>7

\* Bits that no field has.
LEMMA BitUnused ==
  ASSUME NEW fields, Len(fields) \in Nat, \A j \in 1..Len(fields) : InQmd(fields[j]),
         NEW b \in Nat, b < QmdBits, \A j \in 1..Len(fields) : Apart(fields[j], b, b)
  PROVE  BuildQmd(fields)[b] = 0
<1>1. PICK g : /\ BuildQmd(fields) = g[Len(fields)] /\ g[0] = Zeros(QmdBits)
               /\ \A n \in Nat : n < Len(fields) => g[n + 1] = WithField(g[n], fields[n + 1])
  BY QmdSteps
<1>2. QmdBits \in Nat
  BY WordAssumption DEF QmdBits
<1> DEFINE S == {n \in Nat : n <= Len(fields) => Within(g[n], QmdBits) /\ IsField(g[n], b, b, 0)}
<1>3. 0 \in S
  BY <1>1, <1>2, ZerosHold
<1>4. ASSUME NEW n \in S PROVE n + 1 \in S
  <2>1. SUFFICES ASSUME n + 1 <= Len(fields)
                 PROVE  Within(g[n + 1], QmdBits) /\ IsField(g[n + 1], b, b, 0)
    OBVIOUS
  <2>2. n \in Nat /\ n < Len(fields) /\ n <= Len(fields) /\ n + 1 \in 1..Len(fields)
    BY <2>1
  <2>3. Within(g[n], QmdBits) /\ IsField(g[n], b, b, 0)
    BY <2>2
  <2> DEFINE f == fields[n + 1]
  <2>4. InQmd(f) /\ g[n + 1] = WithField(g[n], f) /\ Apart(f, b, b)
    BY <1>1, <2>2
  <2> HIDE DEF f
  <2> QED
    BY <2>3, <2>4, WithFieldKeeps
<1>5. S = Nat
  <2>1. S \subseteq Nat
    OBVIOUS
  <2> HIDE DEF S
  <2> QED
    BY <1>3, <1>4, <2>1, Induction
<1>6. IsField(BuildQmd(fields), b, b, 0)
  BY <1>1, <1>5
<1> QED
  BY <1>6, ZeroBit

\* A field of 32 bits is loaded as a word, a smaller one as it is.
LEMMA FieldLoaded ==
  ASSUME NEW w, NEW lo \in Nat, NEW hi \in Nat, lo <= hi, NEW v \in Nat, IsField(w, lo, hi, v)
  PROVE  /\ hi - lo < 30 => /\ LoadQmd(w, lo, hi) = Low(v, hi - lo + 1)
                            /\ v < Pow2[hi - lo + 1] => LoadQmd(w, lo, hi) = v
         /\ hi - lo = 31 /\ v < Pow2[Word] => LoadQmd(w, lo, hi) = v
<1>1. CASE hi - lo < 30
  <2>1. hi - lo < Word /\ hi - lo # 31
    BY <1>1, WordAssumption
  <2>2. LoadQmd(w, lo, hi) = Load(w, lo, hi)
    BY <2>1, WordAssumption DEF LoadQmd
  <2> QED
    BY <2>1, <2>2, LoadField
<1>2. CASE hi - lo = 31
  <2> DEFINE h == lo + Word - 1
  <2>1. h \in Nat /\ lo <= h /\ h <= hi /\ h - lo < Word /\ h - lo + 1 = Word
    BY <1>2, WordAssumption
  <2>2. LoadQmd(w, lo, hi) = Load(w, lo, h)
    BY <1>2, WordAssumption DEF LoadQmd
  <2> HIDE DEF h
  <2>3. IsField(w, lo, h, v)
    BY <2>1, FieldStart
  <2>4. v < Pow2[Word] => Load(w, lo, h) = v
    BY <2>1, <2>3, LoadField
  <2> QED
    BY <1>2, <2>2, <2>4
<1> QED
  BY <1>1, <1>2

(***************************************************************************)
(* The fields of the QMD.  Has(s, f): f is one of the fields of s, and the *)
(* only one to store its bits.                                             *)
(***************************************************************************)
AllIn(s) == \A j \in 1..Len(s) : InQmd(s[j])
Leaves(s, lo, hi) == \A j \in 1..Len(s) : Apart(s[j], lo, hi)
Spans(f, lo, hi) == f.lo = lo /\ f.hi = hi
Has(s, f) == /\ \E j \in 1..Len(s) : s[j] = f
             /\ \A j \in 1..Len(s) : s[j] = f \/ Apart(s[j], f.lo, f.hi)

LEMMA Joined ==
  ASSUME NEW S, NEW s \in Seq(S), NEW t \in Seq(S)
  PROVE  /\ s \o t \in Seq(S)
         /\ AllIn(s) /\ AllIn(t) => AllIn(s \o t)
         /\ \A lo, hi : Leaves(s, lo, hi) /\ Leaves(t, lo, hi) => Leaves(s \o t, lo, hi)
         /\ \A f : Has(s, f) /\ Leaves(t, f.lo, f.hi) => Has(s \o t, f)
         /\ \A f : Leaves(s, f.lo, f.hi) /\ Has(t, f) => Has(s \o t, f)
<1>1. s \o t \in Seq(S)
  BY ConcatProperties
<1>2. \A j \in 1..Len(s \o t) : (\E k \in 1..Len(s) : (s \o t)[j] = s[k])
                                \/ (\E k \in 1..Len(t) : (s \o t)[j] = t[k])
  BY ConcatProperties
<1>3. \A k \in 1..Len(s) : \E j \in 1..Len(s \o t) : (s \o t)[j] = s[k]
  BY ConcatProperties
<1>4. \A k \in 1..Len(t) : \E j \in 1..Len(s \o t) : (s \o t)[j] = t[k]
  <2> TAKE k \in 1..Len(t)
  <2>1. Len(s) + k \in 1..Len(s \o t) /\ (s \o t)[Len(s) + k] = t[k]
    BY ConcatProperties
  <2> QED
    BY <2>1
<1> DEFINE r == s \o t
<1>5. /\ \A j \in 1..Len(r) : (\E k \in 1..Len(s) : r[j] = s[k]) \/ (\E k \in 1..Len(t) : r[j] = t[k])
      /\ \A k \in 1..Len(s) : \E j \in 1..Len(r) : r[j] = s[k]
      /\ \A k \in 1..Len(t) : \E j \in 1..Len(r) : r[j] = t[k]
  BY <1>2, <1>3, <1>4
<1> HIDE DEF r
<1>6. AllIn(s) /\ AllIn(t) => AllIn(r)
  BY <1>5 DEF AllIn
<1>7. \A lo, hi : Leaves(s, lo, hi) /\ Leaves(t, lo, hi) => Leaves(r, lo, hi)
  BY <1>5 DEF Leaves
<1>8. ASSUME NEW f, Has(s, f), Leaves(t, f.lo, f.hi) PROVE Has(r, f)
  <2>1. \E j \in 1..Len(r) : r[j] = f
    BY <1>5, <1>8 DEF Has
  <2>2. \A k \in 1..Len(s) : s[k] = f \/ Apart(s[k], f.lo, f.hi)
    BY <1>8 DEF Has
  <2>3. \A k \in 1..Len(t) : Apart(t[k], f.lo, f.hi)
    BY <1>8 DEF Leaves
  <2>4. ASSUME NEW j \in 1..Len(r) PROVE r[j] = f \/ Apart(r[j], f.lo, f.hi)
    <3>1. CASE \E k \in 1..Len(s) : r[j] = s[k]
      BY <2>2, <2>3, <3>1
    <3>2. CASE \E k \in 1..Len(t) : r[j] = t[k]
      BY <2>2, <2>3, <3>2
    <3> QED
      BY <1>5, <3>1, <3>2
  <2> QED
    BY <2>1, <2>4 DEF Has
<1>9. ASSUME NEW f, Leaves(s, f.lo, f.hi), Has(t, f) PROVE Has(r, f)
  <2>1. \E j \in 1..Len(r) : r[j] = f
    BY <1>5, <1>9 DEF Has
  <2>2. \A k \in 1..Len(t) : t[k] = f \/ Apart(t[k], f.lo, f.hi)
    BY <1>9 DEF Has
  <2>3. \A k \in 1..Len(s) : Apart(s[k], f.lo, f.hi)
    BY <1>9 DEF Leaves
  <2>4. ASSUME NEW j \in 1..Len(r) PROVE r[j] = f \/ Apart(r[j], f.lo, f.hi)
    <3>1. CASE \E k \in 1..Len(s) : r[j] = s[k]
      BY <2>2, <2>3, <3>1
    <3>2. CASE \E k \in 1..Len(t) : r[j] = t[k]
      BY <2>2, <2>3, <3>2
    <3> QED
      BY <1>5, <3>1, <3>2
  <2> QED
    BY <2>1, <2>4 DEF Has
<1> QED
  BY <1>1, <1>6, <1>7, <1>8, <1>9 DEF r

\* There are at least 48 words of it.
LEMMA QmdIsLarge == QmdBits \in Nat /\ QmdBits >= 1536
BY WordAssumption DEF QmdBits

LEMMA LaunchList ==
  ASSUME NEW q, NEW m, NEW over, NEW pcas
  PROVE  LET s == LaunchFields(q, m, over, pcas)
         IN /\ \E S : s \in Seq(S)
            /\ AllIn(s)
            /\ \A lo, hi \in Nat : lo >= 640 => Leaves(s, lo, hi)
            /\ Has(s, F(256, 287, Override(over, "offset", ProgramOffset(m))))
            /\ Has(s, F(384, 415, Clamp(q.grid[1], 1)))
            /\ Has(s, F(416, 431, Clamp(q.grid[2], 1)))
            /\ Has(s, F(432, 447, Clamp(q.grid[3], 1)))
            /\ Has(s, F(544, 561, SharedUnits(SharedTotal(q, m))))
            /\ Has(s, F(592, 607, Clamp(q.block[1], 1)))
            /\ Has(s, F(608, 623, Clamp(q.block[2], 1)))
            /\ Has(s, F(624, 639, Clamp(q.block[3], 1)))
<1> DEFINE v3 == IF pcas THEN 1 ELSE 0
           v5 == Override(over, "offset", ProgramOffset(m))
           v9 == Clamp(q.grid[1], 1)
           v10 == Clamp(q.grid[2], 1)
           v11 == Clamp(q.grid[3], 1)
           v15 == SharedUnits(SharedTotal(q, m))
           v16 == Override(over, "minor", q.minor) % 16
           v17 == Override(over, "major", q.major) % 16
           v18 == Clamp(q.block[1], 1)
           v19 == Clamp(q.block[2], 1)
           v20 == Clamp(q.block[3], 1)
           s == LaunchFields(q, m, over, pcas)
<1>1. s = << F(200, 200, 1), F(202, 202, 1), F(204, 204, v3), F(250, 255, 63), F(256, 287, v5),
             F(366, 366, 1), F(368, 369, 1), F(378, 378, 1), F(384, 415, v9), F(416, 431, v10),
             F(432, 447, v11), F(448, 479, 0), F(480, 495, 0), F(496, 511, 0), F(544, 561, v15),
             F(576, 579, v16), F(580, 583, v17), F(592, 607, v18), F(608, 623, v19), F(624, 639, v20) >>
  BY DEF LaunchFields
<1> HIDE DEF s, v3, v5, v9, v10, v11, v15, v16, v17, v18, v19, v20
<1>2. \A lo, hi, v : F(lo, hi, v).lo = lo /\ F(lo, hi, v).hi = hi
  BY DEF F
<1>3. /\ Len(s) = 20
      /\ s[5] = F(256, 287, v5) /\ s[9] = F(384, 415, v9) /\ s[10] = F(416, 431, v10)
      /\ s[11] = F(432, 447, v11) /\ s[15] = F(544, 561, v15) /\ s[18] = F(592, 607, v18)
      /\ s[19] = F(608, 623, v19) /\ s[20] = F(624, 639, v20)
  BY <1>1
<1>4. \A j \in 1..20 :
         \/ (j = 1 /\ Spans(s[j], 200, 200)) \/ (j = 2 /\ Spans(s[j], 202, 202)) \/ (j = 3 /\ Spans(s[j], 204, 204))
         \/ (j = 4 /\ Spans(s[j], 250, 255)) \/ (j = 5 /\ Spans(s[j], 256, 287)) \/ (j = 6 /\ Spans(s[j], 366, 366))
         \/ (j = 7 /\ Spans(s[j], 368, 369)) \/ (j = 8 /\ Spans(s[j], 378, 378)) \/ (j = 9 /\ Spans(s[j], 384, 415))
         \/ (j = 10 /\ Spans(s[j], 416, 431)) \/ (j = 11 /\ Spans(s[j], 432, 447)) \/ (j = 12 /\ Spans(s[j], 448, 479))
         \/ (j = 13 /\ Spans(s[j], 480, 495)) \/ (j = 14 /\ Spans(s[j], 496, 511)) \/ (j = 15 /\ Spans(s[j], 544, 561))
         \/ (j = 16 /\ Spans(s[j], 576, 579)) \/ (j = 17 /\ Spans(s[j], 580, 583)) \/ (j = 18 /\ Spans(s[j], 592, 607))
         \/ (j = 19 /\ Spans(s[j], 608, 623)) \/ (j = 20 /\ Spans(s[j], 624, 639))
  <2>1. /\ Spans(s[1], 200, 200) /\ Spans(s[2], 202, 202) /\ Spans(s[3], 204, 204) /\ Spans(s[4], 250, 255)
        /\ Spans(s[5], 256, 287) /\ Spans(s[6], 366, 366) /\ Spans(s[7], 368, 369) /\ Spans(s[8], 378, 378)
        /\ Spans(s[9], 384, 415) /\ Spans(s[10], 416, 431) /\ Spans(s[11], 432, 447) /\ Spans(s[12], 448, 479)
        /\ Spans(s[13], 480, 495) /\ Spans(s[14], 496, 511) /\ Spans(s[15], 544, 561) /\ Spans(s[16], 576, 579)
        /\ Spans(s[17], 580, 583) /\ Spans(s[18], 592, 607) /\ Spans(s[19], 608, 623) /\ Spans(s[20], 624, 639)
    BY <1>1 DEF F, Spans
  <2> QED
    BY <2>1
<1>5. \A j \in 1..Len(s) : s[j].lo \in 200..624 /\ s[j].hi \in 200..639 /\ s[j].lo <= s[j].hi
  BY <1>3, <1>4 DEF Spans
<1>6. AllIn(s)
  <2> SUFFICES ASSUME NEW j \in 1..Len(s) PROVE InQmd(s[j])
    BY DEF AllIn
  <2>1. PICK l \in 200..624, h \in 200..639 : s[j].lo = l /\ s[j].hi = h /\ l <= h
    BY <1>5, ZenonT(60)
  <2>2. \A i \in 200..639 : i \in Nat /\ i < QmdBits
    BY QmdIsLarge
  <2>3. \A i \in 200..624 : i \in Nat
    OBVIOUS
  <2>4. s[j].lo \in Nat
    BY <2>1, <2>3, Zenon
  <2>5. s[j].hi \in Nat /\ s[j].hi < QmdBits
    BY <2>1, <2>2, Zenon
  <2>6. s[j].lo <= s[j].hi
    BY <2>1, Zenon
  <2> QED
    BY <2>4, <2>5, <2>6, Zenon DEF InQmd
<1>7. \A lo, hi \in Nat : lo >= 640 => Leaves(s, lo, hi)
  <2> SUFFICES ASSUME NEW lo \in Nat, NEW hi \in Nat, lo >= 640, NEW j \in 1..Len(s)
               PROVE  Apart(s[j], lo, hi)
    BY DEF Leaves
  <2>1. PICK h \in 200..639 : s[j].hi = h
    BY <1>5
  <2>2. \A i \in 200..639, k \in Nat : k >= 640 => i < k
    OBVIOUS
  <2> QED
    BY <2>1, <2>2, Zenon DEF Apart
<1>8. Has(s, F(256, 287, v5))
  BY SMTT(30), <1>2, <1>3, <1>4 DEF Has, Apart, Spans
<1>9. Has(s, F(384, 415, v9))
  BY <1>2, <1>3, <1>4 DEF Has, Apart, Spans
<1>10. Has(s, F(416, 431, v10))
  BY <1>2, <1>3, <1>4 DEF Has, Apart, Spans
<1>11. Has(s, F(432, 447, v11))
  BY <1>2, <1>3, <1>4 DEF Has, Apart, Spans
<1>12. Has(s, F(544, 561, v15))
  BY <1>2, <1>3, <1>4 DEF Has, Apart, Spans
<1>13. Has(s, F(592, 607, v18))
  BY <1>2, <1>3, <1>4 DEF Has, Apart, Spans
<1>14. Has(s, F(608, 623, v19))
  BY <1>2, <1>3, <1>4 DEF Has, Apart, Spans
<1>15. Has(s, F(624, 639, v20))
  BY <1>2, <1>3, <1>4 DEF Has, Apart, Spans
<1>16. \E S : s \in Seq(S)
  <2> DEFINE S == {s[j] : j \in 1..20}
  <2>1. s \in Seq(S)
    BY <1>1
  <2> QED
    BY <2>1
<1> QED
  BY <1>16, <1>6, <1>7, <1>8, <1>9, <1>10, <1>11, <1>12, <1>13, <1>14, <1>15
  DEF s, v5, v9, v10, v11, v15, v18, v19, v20

LEMMA ParamList ==
  ASSUME NEW params
  PROVE  LET s == ParamFields(params)
         IN /\ \E S : s \in Seq(S)
            /\ AllIn(s)
            /\ \A lo, hi \in Nat : hi < 640 \/ (lo > 640 /\ hi < 928) \/ lo > 991 => Leaves(s, lo, hi)
            /\ params.size # 0 /\ (params.va.lower # 0 \/ params.va.upper # 0) =>
                 /\ Has(s, F(640, 640, 1)) /\ Has(s, F(928, 959, params.va.lower))
                 /\ Has(s, F(960, 967, params.va.upper % 256)) /\ Has(s, F(975, 991, params.size))
<1> DEFINE lower == params.va.lower
           upper == params.va.upper % 256
           size == params.size
           none == params.size = 0 \/ (params.va.upper = 0 /\ params.va.lower = 0)
           s == ParamFields(params)
<1>1. s = IF none THEN <<>>
          ELSE << F(640, 640, 1), F(928, 959, lower), F(960, 967, upper), F(974, 974, 1), F(975, 991, size) >>
  BY DEF ParamFields
<1>2. params.size # 0 /\ (params.va.lower # 0 \/ params.va.upper # 0) => ~none
  OBVIOUS
<1> HIDE DEF s, lower, upper, size, none
<1>3. CASE none
  <2>1. s = <<>> /\ Len(s) = 0 /\ s \in Seq({})
    BY <1>1, <1>3
  <2>2. AllIn(s) /\ \A lo, hi \in Nat : Leaves(s, lo, hi)
    BY <2>1 DEF AllIn, Leaves
  <2> QED
    BY <1>2, <1>3, <2>1, <2>2 DEF s
<1>4. CASE ~none
  <2>1. /\ Len(s) = 5
        /\ \A j \in 1..5 : \/ s[j] = F(640, 640, 1) \/ s[j] = F(928, 959, lower) \/ s[j] = F(960, 967, upper)
                           \/ s[j] = F(974, 974, 1) \/ s[j] = F(975, 991, size)
        /\ s[1] = F(640, 640, 1) /\ s[2] = F(928, 959, lower) /\ s[3] = F(960, 967, upper)
        /\ s[5] = F(975, 991, size)
    BY <1>1, <1>4
  <2>2. \E S : s \in Seq(S)
    <3> DEFINE S == {s[j] : j \in 1..5}
    <3>1. s \in Seq(S)
      BY <1>1, <1>4
    <3> QED
      BY <3>1
  <2>3. \A lo, hi, v : F(lo, hi, v).lo = lo /\ F(lo, hi, v).hi = hi
    BY DEF F
  <2>4. \A j \in 1..5 : s[j].lo \in Nat /\ s[j].hi \in Nat /\ s[j].lo <= s[j].hi /\ s[j].hi < 992
    BY <2>1, <2>3
  <2>5. AllIn(s)
    BY <2>1, <2>4, QmdIsLarge DEF AllIn, InQmd
  <2>6. \A lo, hi \in Nat : hi < 640 \/ (lo > 640 /\ hi < 928) \/ lo > 991 => Leaves(s, lo, hi)
    BY <2>1, <2>3 DEF Leaves, Apart
  <2>7. Has(s, F(640, 640, 1))
    BY <2>1, <2>3 DEF Has, Apart
  <2>8. Has(s, F(928, 959, lower))
    BY <2>1, <2>3 DEF Has, Apart
  <2>9. Has(s, F(960, 967, upper))
    BY <2>1, <2>3 DEF Has, Apart
  <2>10. Has(s, F(975, 991, size))
    BY <2>1, <2>3 DEF Has, Apart
  <2> QED
    BY <2>2, <2>5, <2>6, <2>7, <2>8, <2>9, <2>10 DEF s, lower, upper, size
<1> QED
  BY <1>3, <1>4

LEMMA ResourceList ==
  ASSUME NEW m, NEW over, NEW release, NEW id
  PROVE  LET s == ResourceFields(m, over, release, id)
         IN /\ \E S : s \in Seq(S)
            /\ AllIn(s)
            /\ \A lo, hi \in Nat :
                 hi < 736 \/ (lo > 775 /\ hi < 794) \/ (lo > 794 /\ hi < 799) \/ (lo > 831 /\ hi < 1440)
                   => Leaves(s, lo, hi)
            /\ Has(s, F(736, 767, release.lower)) /\ Has(s, F(768, 775, release.upper % 256))
            /\ Has(s, F(794, 794, 0)) /\ Has(s, F(800, 831, PayloadOf(id)))
            /\ Has(s, F(1440, 1463, Override(over, "local", Parsed(m, m.local)) % Pow2[24]))
            /\ Has(s, F(1496, 1503, Override(over, "regs", Regs(m))))
            /\ Has(s, F(1528, 1535, Override(over, "sm", Parsed(m, m.sm))))
<1> DEFINE v1 == release.lower
           v2 == release.upper % 256
           v5 == PayloadOf(id)
           v6 == Override(over, "local", Parsed(m, m.local)) % Pow2[24]
           v7 == Override(over, "regs", Regs(m))
           v8 == Override(over, "sm", Parsed(m, m.sm))
           s == ResourceFields(m, over, release, id)
<1>1. s = << F(736, 767, v1), F(768, 775, v2), F(794, 794, 0), F(799, 799, 1), F(800, 831, v5),
             F(1440, 1463, v6), F(1496, 1503, v7), F(1528, 1535, v8) >>
  BY DEF ResourceFields
<1> HIDE DEF s, v1, v2, v5, v6, v7, v8
<1>2. /\ Len(s) = 8
      /\ \A j \in 1..8 : 
           \/ s[j] = F(736, 767, v1) \/ s[j] = F(768, 775, v2) \/ s[j] = F(794, 794, 0)
           \/ s[j] = F(799, 799, 1) \/ s[j] = F(800, 831, v5) \/ s[j] = F(1440, 1463, v6)
           \/ s[j] = F(1496, 1503, v7) \/ s[j] = F(1528, 1535, v8)
      /\ s[1] = F(736, 767, v1) /\ s[2] = F(768, 775, v2) /\ s[3] = F(794, 794, 0)
      /\ s[5] = F(800, 831, v5) /\ s[6] = F(1440, 1463, v6) /\ s[7] = F(1496, 1503, v7)
      /\ s[8] = F(1528, 1535, v8)
  BY <1>1
<1>3. \E S : s \in Seq(S)
  <2> DEFINE S == {s[j] : j \in 1..8}
  <2>1. s \in Seq(S)
    BY <1>1
  <2> QED
    BY <2>1
<1>4. \A lo, hi, v : F(lo, hi, v).lo = lo /\ F(lo, hi, v).hi = hi
  BY DEF F
<1>5. \A j \in 1..8 : s[j].lo \in Nat /\ s[j].hi \in Nat /\ s[j].lo <= s[j].hi /\ s[j].hi < 1536
  BY <1>2, <1>4
<1>6. AllIn(s)
  BY <1>2, <1>5, QmdIsLarge DEF AllIn, InQmd
<1>7. \A lo, hi \in Nat :
         hi < 736 \/ (lo > 775 /\ hi < 794) \/ (lo > 794 /\ hi < 799) \/ (lo > 831 /\ hi < 1440)
           => Leaves(s, lo, hi)
  BY <1>2, <1>4 DEF Leaves, Apart
<1>8. Has(s, F(736, 767, v1))
  BY <1>2, <1>4 DEF Has, Apart
<1>9. Has(s, F(768, 775, v2))
  BY <1>2, <1>4 DEF Has, Apart
<1>10. Has(s, F(794, 794, 0))
  BY <1>2, <1>4 DEF Has, Apart
<1>11. Has(s, F(800, 831, v5))
  BY <1>2, <1>4 DEF Has, Apart
<1>12. Has(s, F(1440, 1463, v6))
  BY <1>2, <1>4 DEF Has, Apart
<1>13. Has(s, F(1496, 1503, v7))
  BY <1>2, <1>4 DEF Has, Apart
<1>14. Has(s, F(1528, 1535, v8))
  BY <1>2, <1>4 DEF Has, Apart
<1> QED
  BY <1>3, <1>6, <1>7, <1>8, <1>9, <1>10, <1>11, <1>12, <1>13, <1>14 DEF s, v1, v2, v5, v6, v7, v8

\* What is read of a field that has its bits for itself.
LEMMA FieldRead ==
  ASSUME NEW fields, Len(fields) \in Nat, AllIn(fields), NEW lo \in Nat, NEW hi \in Nat, lo <= hi,
         NEW v \in Nat, Has(fields, F(lo, hi, v))
  PROVE  LET w == BuildQmd(fields)
         IN /\ hi - lo < 30 => /\ LoadQmd(w, lo, hi) = Low(v, hi - lo + 1)
                               /\ v < Pow2[hi - lo + 1] => LoadQmd(w, lo, hi) = v
            /\ hi - lo = 31 /\ v < Pow2[Word] => LoadQmd(w, lo, hi) = v
<1>1. F(lo, hi, v).lo = lo /\ F(lo, hi, v).hi = hi
  BY DEF F
<1>2. /\ \E j \in 1..Len(fields) : fields[j] = F(lo, hi, v)
      /\ \A j \in 1..Len(fields) : fields[j] = F(lo, hi, v) \/ Apart(fields[j], lo, hi)
  BY <1>1 DEF Has
<1>3. \A j \in 1..Len(fields) : InQmd(fields[j])
  BY DEF AllIn
<1>4. hi < QmdBits
  <2>1. PICK j \in 1..Len(fields) : fields[j] = F(lo, hi, v)
    BY <1>2
  <2>2. InQmd(F(lo, hi, v))
    BY <1>3, <2>1
  <2> QED
    BY <1>1, <2>2 DEF InQmd
<1>5. IsField(BuildQmd(fields), lo, hi, v)
  BY <1>2, <1>3, <1>4, FieldBuilt
<1> QED
  BY <1>5, FieldLoaded

\* The fields of a launch, each by itself, and the bits between them.
SomeParams(params) == params.size # 0 /\ (params.va.lower # 0 \/ params.va.upper # 0)
HasParams(s, params) ==
  SomeParams(params) =>
    /\ Has(s, F(640, 640, 1)) /\ Has(s, F(928, 959, params.va.lower))
    /\ Has(s, F(960, 967, params.va.upper % 256)) /\ Has(s, F(975, 991, params.size))
Rest == 641..735 \cup 776..793 \cup 795..798 \cup 832..927 \cup 992..1439
LeavesRest(s) == \A b \in Rest : Leaves(s, b, b)
QmdHas(s, q, m, over, params, release, id) ==
  /\ Len(s) \in Nat /\ AllIn(s)
  /\ Has(s, F(256, 287, Override(over, "offset", ProgramOffset(m))))
  /\ Has(s, F(384, 415, Clamp(q.grid[1], 1)))
  /\ Has(s, F(416, 431, Clamp(q.grid[2], 1)))
  /\ Has(s, F(432, 447, Clamp(q.grid[3], 1)))
  /\ Has(s, F(544, 561, SharedUnits(SharedTotal(q, m))))
  /\ Has(s, F(592, 607, Clamp(q.block[1], 1)))
  /\ Has(s, F(608, 623, Clamp(q.block[2], 1)))
  /\ Has(s, F(624, 639, Clamp(q.block[3], 1)))
  /\ HasParams(s, params)
  /\ Has(s, F(736, 767, release.lower)) /\ Has(s, F(768, 775, release.upper % 256))
  /\ Has(s, F(794, 794, 0)) /\ Has(s, F(800, 831, PayloadOf(id)))
  /\ Has(s, F(1440, 1463, Override(over, "local", Parsed(m, m.local)) % Pow2[24]))
  /\ Has(s, F(1496, 1503, Override(over, "regs", Regs(m))))
  /\ Has(s, F(1528, 1535, Override(over, "sm", Parsed(m, m.sm))))
  /\ LeavesRest(s)

LEMMA QmdList ==
  ASSUME NEW q, NEW m, NEW over, NEW params, NEW release, NEW id, NEW pcas
  PROVE  QmdHas(QmdFields(q, m, over, params, release, id, pcas), q, m, over, params, release, id)
<1> DEFINE a == LaunchFields(q, m, over, pcas)
           b == ParamFields(params)
           c == ResourceFields(m, over, release, id)
           ab == a \o b
           s == ab \o c
           some == SomeParams(params)
<1>a. PICK S1 : a \in Seq(S1)
  BY LaunchList
<1>b. PICK S2 : b \in Seq(S2)
  BY ParamList
<1>c. PICK S3 : c \in Seq(S3)
  BY ResourceList
<1> DEFINE S == S1 \cup S2 \cup S3
<1>2. a \in Seq(S) /\ b \in Seq(S) /\ c \in Seq(S)
  <2>1. ASSUME NEW T, T \subseteq S, NEW t \in Seq(T) PROVE t \in Seq(S)
    BY <2>1
  <2>2. S1 \subseteq S /\ S2 \subseteq S /\ S3 \subseteq S
    OBVIOUS
  <2> HIDE DEF S
  <2> QED
    BY <1>a, <1>b, <1>c, <2>1, <2>2
<1> HIDE DEF S
<1>3. s = QmdFields(q, m, over, params, release, id, pcas)
  BY DEF QmdFields
<1>4. AllIn(a) /\ AllIn(b) /\ AllIn(c)
  BY LaunchList, ParamList, ResourceList
<1>5. /\ \A lo, hi \in Nat : lo >= 640 => Leaves(a, lo, hi)
      /\ \A lo, hi \in Nat : hi < 640 \/ (lo > 640 /\ hi < 928) \/ lo > 991 => Leaves(b, lo, hi)
      /\ \A lo, hi \in Nat :
           hi < 736 \/ (lo > 775 /\ hi < 794) \/ (lo > 794 /\ hi < 799) \/ (lo > 831 /\ hi < 1440)
             => Leaves(c, lo, hi)
  BY LaunchList, ParamList, ResourceList
<1>6. /\ Has(a, F(256, 287, Override(over, "offset", ProgramOffset(m))))
      /\ Has(a, F(384, 415, Clamp(q.grid[1], 1)))
      /\ Has(a, F(416, 431, Clamp(q.grid[2], 1)))
      /\ Has(a, F(432, 447, Clamp(q.grid[3], 1)))
      /\ Has(a, F(544, 561, SharedUnits(SharedTotal(q, m))))
      /\ Has(a, F(592, 607, Clamp(q.block[1], 1)))
      /\ Has(a, F(608, 623, Clamp(q.block[2], 1)))
      /\ Has(a, F(624, 639, Clamp(q.block[3], 1)))
  BY LaunchList
<1>7. some =>
        /\ Has(b, F(640, 640, 1)) /\ Has(b, F(928, 959, params.va.lower))
        /\ Has(b, F(960, 967, params.va.upper % 256)) /\ Has(b, F(975, 991, params.size))
  BY ParamList DEF SomeParams
<1>8. /\ Has(c, F(736, 767, release.lower)) /\ Has(c, F(768, 775, release.upper % 256))
      /\ Has(c, F(794, 794, 0)) /\ Has(c, F(800, 831, PayloadOf(id)))
      /\ Has(c, F(1440, 1463, Override(over, "local", Parsed(m, m.local)) % Pow2[24]))
      /\ Has(c, F(1496, 1503, Override(over, "regs", Regs(m))))
      /\ Has(c, F(1528, 1535, Override(over, "sm", Parsed(m, m.sm))))
  BY ResourceList
<1> HIDE DEF a, b, c, some
<1>9. \A lo, hi, v : F(lo, hi, v).lo = lo /\ F(lo, hi, v).hi = hi
  BY DEF F
<1>10. /\ ab \in Seq(S) /\ AllIn(ab)
       /\ \A lo, hi : Leaves(a, lo, hi) /\ Leaves(b, lo, hi) => Leaves(ab, lo, hi)
       /\ \A f : Has(a, f) /\ Leaves(b, f.lo, f.hi) => Has(ab, f)
       /\ \A f : Leaves(a, f.lo, f.hi) /\ Has(b, f) => Has(ab, f)
  BY <1>2, <1>4, Joined
<1> HIDE DEF ab
<1>11. /\ s \in Seq(S) /\ AllIn(s)
       /\ \A lo, hi : Leaves(ab, lo, hi) /\ Leaves(c, lo, hi) => Leaves(s, lo, hi)
       /\ \A f : Has(ab, f) /\ Leaves(c, f.lo, f.hi) => Has(s, f)
       /\ \A f : Leaves(ab, f.lo, f.hi) /\ Has(c, f) => Has(s, f)
  BY <1>2, <1>4, <1>10, Joined
<1> HIDE DEF s
<1>12. \A lo, hi \in Nat : \A v : hi < 640 /\ Has(a, F(lo, hi, v)) => Has(s, F(lo, hi, v))
  <2> SUFFICES ASSUME NEW lo \in Nat, NEW hi \in Nat, NEW v, hi < 640, Has(a, F(lo, hi, v))
               PROVE  Has(s, F(lo, hi, v))
    OBVIOUS
  <2>1. Leaves(b, lo, hi) /\ Leaves(c, lo, hi)
    BY <1>5
  <2>2. Has(ab, F(lo, hi, v))
    BY <1>9, <1>10, <2>1
  <2> QED
    BY <1>9, <1>11, <2>1, <2>2
<1>13. \A lo, hi \in Nat : \A v : lo >= 640 /\ (hi < 736 \/ (lo > 831 /\ hi < 1440)) /\ Has(b, F(lo, hi, v))
                              => Has(s, F(lo, hi, v))
  <2> SUFFICES ASSUME NEW lo \in Nat, NEW hi \in Nat, NEW v, lo >= 640,
                      hi < 736 \/ (lo > 831 /\ hi < 1440), Has(b, F(lo, hi, v))
               PROVE  Has(s, F(lo, hi, v))
    OBVIOUS
  <2>1. Leaves(a, lo, hi) /\ Leaves(c, lo, hi)
    BY <1>5
  <2>2. Has(ab, F(lo, hi, v))
    BY <1>9, <1>10, <2>1
  <2> QED
    BY <1>9, <1>11, <2>1, <2>2
<1>14. \A lo, hi \in Nat : \A v : lo > 640 /\ (hi < 928 \/ lo > 991) /\ Has(c, F(lo, hi, v))
                              => Has(s, F(lo, hi, v))
  <2> SUFFICES ASSUME NEW lo \in Nat, NEW hi \in Nat, NEW v, lo > 640,
                      hi < 928 \/ lo > 991, Has(c, F(lo, hi, v))
               PROVE  Has(s, F(lo, hi, v))
    OBVIOUS
  <2>1. Leaves(a, lo, hi) /\ Leaves(b, lo, hi)
    BY <1>5
  <2>2. Leaves(ab, lo, hi)
    BY <1>10, <2>1
  <2> QED
    BY <1>9, <1>11, <2>2
<1>15. /\ Has(s, F(256, 287, Override(over, "offset", ProgramOffset(m))))
       /\ Has(s, F(384, 415, Clamp(q.grid[1], 1)))
       /\ Has(s, F(416, 431, Clamp(q.grid[2], 1)))
       /\ Has(s, F(432, 447, Clamp(q.grid[3], 1)))
       /\ Has(s, F(544, 561, SharedUnits(SharedTotal(q, m))))
       /\ Has(s, F(592, 607, Clamp(q.block[1], 1)))
       /\ Has(s, F(608, 623, Clamp(q.block[2], 1)))
       /\ Has(s, F(624, 639, Clamp(q.block[3], 1)))
  BY <1>6, <1>12
<1>16. HasParams(s, params)
  <2>1. ASSUME some PROVE Has(s, F(640, 640, 1)) /\ Has(s, F(928, 959, params.va.lower))
    BY <1>7, <1>13, <2>1
  <2>2. ASSUME some
        PROVE  Has(s, F(960, 967, params.va.upper % 256)) /\ Has(s, F(975, 991, params.size))
    BY <1>7, <1>13, <2>2
  <2> QED
    BY <2>1, <2>2 DEF some, HasParams
<1>17. /\ Has(s, F(736, 767, release.lower)) /\ Has(s, F(768, 775, release.upper % 256))
       /\ Has(s, F(794, 794, 0)) /\ Has(s, F(800, 831, PayloadOf(id)))
       /\ Has(s, F(1440, 1463, Override(over, "local", Parsed(m, m.local)) % Pow2[24]))
       /\ Has(s, F(1496, 1503, Override(over, "regs", Regs(m))))
       /\ Has(s, F(1528, 1535, Override(over, "sm", Parsed(m, m.sm))))
  BY <1>8, <1>14
<1>18. ASSUME NEW i \in Rest PROVE Leaves(s, i, i)
  <2>1. i \in Nat /\ i >= 640 /\ ((i > 640 /\ i < 928) \/ i > 991)
        /\ (i < 736 \/ (i > 775 /\ i < 794) \/ (i > 794 /\ i < 799) \/ (i > 831 /\ i < 1440))
    BY DEF Rest
  <2>2. Leaves(a, i, i) /\ Leaves(b, i, i) /\ Leaves(c, i, i)
    BY <1>5, <2>1
  <2> QED
    BY <1>10, <1>11, <2>2
<1>19. Len(s) \in Nat
  BY <1>11
<1>19a. LeavesRest(s)
  BY <1>18, SMTT(30) DEF LeavesRest
<1>20. QmdHas(s, q, m, over, params, release, id)
  BY <1>11, <1>15, <1>16, <1>17, <1>19, <1>19a DEF QmdHas
<1> QED
  BY <1>3, <1>20

-----------------------------------------------------------------------------
(***************************************************************************)
(* What is in the fields.                                                  *)
(***************************************************************************)
LEMMA AtLeastOne ==
  ASSUME NEW x \in Nat
  PROVE  Max({1, x}) = Clamp(x, 1) /\ Clamp(x, 1) \in Nat /\ (x < Pow2[Word] => Clamp(x, 1) < Pow2[Word])
<1>1. Max({1, x}) \in {1, x} /\ \A y \in {1, x} : y <= Max({1, x})
  <2>1. {1, x} \subseteq 0..(x + 1) /\ {1, x} # {} /\ x + 1 \in Nat
    OBVIOUS
  <2> QED
    BY <2>1, GreatestElement
<1>2. Max({1, x}) = Clamp(x, 1)
  <2>1. PICK z \in Nat : z = Max({1, x}) /\ (z = 1 \/ z = x) /\ 1 <= z /\ x <= z
    BY <1>1
  <2>2. z = IF x = 0 THEN 1 ELSE x
    BY <2>1
  <2> QED
    BY <2>1, <2>2 DEF Clamp
<1>3. Pow2[Word] \in Nat /\ 2 <= Pow2[Word]
  <2>1. Word \in Nat /\ 1 <= Word
    BY WordAssumption
  <2> QED
    BY <2>1, Pow2IsNat, Pow2Grows, Pow2Values
<1>4. Clamp(x, 1) \in Nat /\ (x < Pow2[Word] => Clamp(x, 1) < Pow2[Word])
  BY <1>3 DEF Clamp
<1> QED
  BY <1>2, <1>4

\* A word holds more than what the pieces of shared memory come to.
LEMMA WordIsLarge ==
  /\ Word \in Nat /\ Pow2[Word] \in Nat /\ Pow2[18] \in Nat /\ Pow2[18] # 0
  /\ Pow2[Word] >= (Pow2[18] * 16) * 256
<1>1. Word \in Nat /\ 30 <= Word
  BY WordAssumption
<1>2. PICK w, p, q, r \in Nat : w = Pow2[Word] /\ p = Pow2[18] /\ q = Pow2[22] /\ r = Pow2[30] /\ p # 0
  BY <1>1, Pow2IsNat
<1>3. r <= w
  BY <1>1, <1>2, Pow2Grows
<1>4. Pow2[18 + 4] = Pow2[18] * Pow2[4] /\ Pow2[22 + 8] = Pow2[22] * Pow2[8]
  BY Pow2Sum
<1>5. q = p * 16 /\ r = q * 256
  BY <1>2, <1>4, Pow2Values
<1> QED
  BY <1>1, <1>2, <1>3, <1>5

\* The pieces hold the shared memory, or are as many as there can be.
LEMMA SharedFits ==
  ASSUME NEW q, NEW m, q.shared \in OfBits(Word), m.valid => m.shared \in OfBits(Word)
  PROVE  LET shared == q.shared + (IF m.valid THEN m.shared ELSE 0)
             units == SharedUnits(SharedTotal(q, m))
         IN /\ units \in Nat /\ units < Pow2[18]
            /\ \/ units * 256 \in shared..(shared + 255)
               \/ units = Pow2[18] - 1 /\ shared > (Pow2[18] - 1) * 256
<1> DEFINE more == IF m.valid THEN m.shared ELSE 0
           total == SharedTotal(q, m)
           units == SharedUnits(total)
<1>1. PICK w, p \in Nat : w = Pow2[Word] /\ p = Pow2[18] /\ p # 0 /\ w >= (p * 16) * 256
  BY WordIsLarge
<1>2. PICK a, b \in Nat : a = q.shared /\ b = more /\ a < w /\ b < w
  <2>1. q.shared \in Nat /\ q.shared < w
    BY <1>1, WordIsLarge, BitsAreNat
  <2>2. CASE m.valid
    BY <1>1, <2>1, <2>2, WordIsLarge, BitsAreNat
  <2>3. CASE ~m.valid
    <3>1. more = 0 /\ 0 < w
      BY <1>1, <2>3
    <3> QED
      BY <2>1, <3>1
  <2> QED
    BY <2>2, <2>3
<1> DEFINE sum == (a + b) % w
<1>3. total = IF sum < a THEN w - 1 ELSE sum
  BY <1>1, <1>2 DEF SharedTotal, MaxU32
<1> HIDE DEF more, total
<1>4. CASE a + b < w
  <2>1. sum = a + b
    BY <1>4, NegativeMod
  <2> HIDE DEF sum
  <2>2. total = a + b
    BY <1>3, <2>1
  <2>3. PICK t \in Nat : t = a + b /\ t = total
    BY <2>2
  <2>4. PICK u \in Nat : u = (t + 255) \div 256 /\ 256 * u <= t + 255 /\ t < 256 * u + 1
    OBVIOUS
  <2>5. units = IF u > p - 1 THEN p - 1 ELSE u
    BY <1>1, <2>3, <2>4 DEF SharedUnits
  <2> HIDE DEF units
  <2>6. /\ units \in Nat /\ units < p
        /\ units * 256 \in t..(t + 255) \/ (units = p - 1 /\ t > (p - 1) * 256)
    BY <1>1, <2>4, <2>5
  <2> QED
    BY <1>1, <1>2, <2>3, <2>6 DEF more, units, total
<1>5. CASE a + b >= w
  <2>1. PICK c \in Nat : c = a + b - w /\ c < w /\ c < a /\ a + b = 1 * w + c
    BY <1>2, <1>5
  <2>2. sum = c
    <3>1. w # 0
      BY <1>2
    <3>2. (1 * w + c) % w = c
      BY <2>1, <3>1, MultipleDivides
    <3> QED
      BY <2>1, <3>2
  <2> HIDE DEF sum
  <2>3. PICK t \in Nat : t = w - 1 /\ t = total
    BY <1>2, <1>3, <2>1, <2>2
  <2>4. PICK u \in Nat : u = (t + 255) \div 256 /\ 256 * u <= t + 255 /\ t < 256 * u + 1
    OBVIOUS
  <2>5. units = IF u > p - 1 THEN p - 1 ELSE u
    BY <1>1, <2>3, <2>4 DEF SharedUnits
  <2> HIDE DEF units
  <2>6. u > p - 1 /\ a + b > (p - 1) * 256
    BY <1>1, <1>5, <2>3, <2>4
  <2>7. units \in Nat /\ units < p /\ units = p - 1
    BY <1>1, <2>5, <2>6
  <2> QED
    BY <1>1, <1>2, <2>6, <2>7 DEF more, units, total
<1> QED
  BY <1>2, <1>4, <1>5

LEMMA PayloadFits ==
  ASSUME NEW id \in Nat
  PROVE  PayloadOf(id) \in Nat /\ PayloadOf(id) < Pow2[Word] /\ PayloadOf(id) = Max({1, id % Pow2[Word]})
<1>1. PICK w \in Nat : w = Pow2[Word] /\ w > 0
  BY WordIsLarge, Pow2IsNat
<1>2. PICK x \in Nat : x = id % w /\ x < w
  <2>1. w > 0
    BY <1>1
  <2> HIDE <1>1
  <2> QED
    BY <2>1
<1>3. PayloadOf(id) = Clamp(x, 1)
  BY <1>1, <1>2 DEF PayloadOf, Clamp
<1> QED
  BY <1>1, <1>2, <1>3, AtLeastOne

LEMMA RegsFit ==
  ASSUME NEW m, NEW over, m.valid => m.regs \in OfBits(8), "regs" \in DOMAIN over => over["regs"] \in 1..255
  PROVE  Override(over, "regs", Regs(m)) \in 1..255
<1>1. Regs(m) \in 1..255
  <2>1. CASE m.valid /\ m.regs # 0
    <3>1. m.regs \in Nat /\ m.regs < 256
      BY <2>1, BitsAreNat, Pow2Values
    <3> QED
      BY <2>1, <3>1 DEF Regs
  <2>2. CASE ~(m.valid /\ m.regs # 0)
    BY <2>2 DEF Regs
  <2> QED
    BY <2>1, <2>2
<1> QED
  BY <1>1 DEF Override

LEMMA QmdDecodes ==
  ASSUME NEW l, LaunchFits(l)
  PROVE  QmdMeans(l, BuildQmd(QmdFields(l.q, l.m, l.over, l.params, l.release, l.id, l.pcas)))
<1> DEFINE s == QmdFields(l.q, l.m, l.over, l.params, l.release, l.id, l.pcas)
           qmd == BuildQmd(s)
           At(lo, hi) == LoadQmd(qmd, lo, hi)
           shared == l.q.shared + (IF l.m.valid THEN l.m.shared ELSE 0)
<1>1. QmdHas(s, l.q, l.m, l.over, l.params, l.release, l.id)
  BY QmdList
<1> HIDE DEF s
<1>2. Len(s) \in Nat /\ AllIn(s)
  BY <1>1 DEF QmdHas
\* A field of at most 30 bits, and one of 32.
<1>3. ASSUME NEW lo \in Nat, NEW hi \in Nat, lo <= hi, hi - lo < 30, NEW v \in Nat, Has(s, F(lo, hi, v))
      PROVE  At(lo, hi) = Low(v, hi - lo + 1) /\ (v < Pow2[hi - lo + 1] => At(lo, hi) = v)
  BY <1>2, <1>3, FieldRead
<1>4. ASSUME NEW lo \in Nat, NEW hi \in Nat, lo <= hi, hi - lo = 31, NEW v \in Nat, Has(s, F(lo, hi, v)),
             v < Pow2[Word]
      PROVE  At(lo, hi) = v
  BY <1>2, <1>4, FieldRead
<1>5. \A v \in OfBits(Word) : v \in Nat /\ v < Pow2[Word]
  BY BitsAreNat, WordIsLarge
<1>6. \A v \in OfBits(8) : v \in Nat /\ v < Pow2[8] /\ v % 256 = v
  <2> SUFFICES ASSUME NEW v \in OfBits(8) PROVE v \in Nat /\ v < Pow2[8] /\ v % 256 = v
    OBVIOUS
  <2>1. v \in Nat /\ v < 256
    BY BitsAreNat, Pow2Values
  <2>2. \A i \in Nat : i < 256 => i % 256 = i
    OBVIOUS
  <2> QED
    BY <2>1, <2>2, Pow2Values
<1> HIDE DEF At, qmd, shared
<1>7. \A k \in 1..3 : l.q.grid[k] \in Nat /\ l.q.grid[k] < Pow2[Word] /\ l.q.block[k] \in Nat
  BY <1>5 DEF LaunchFits
<1>8. /\ 415 - 384 = 31 /\ 431 - 416 + 1 = 16 /\ 447 - 432 + 1 = 16 /\ 607 - 592 + 1 = 16
      /\ 623 - 608 + 1 = 16 /\ 639 - 624 + 1 = 16 /\ 561 - 544 + 1 = 18 /\ 775 - 768 + 1 = 8
      /\ 640 - 640 + 1 = 1 /\ 991 - 975 + 1 = 17 /\ 967 - 960 + 1 = 8 /\ 1503 - 1496 + 1 = 8
      /\ 1463 - 1440 + 1 = 24 /\ 1535 - 1528 + 1 = 8
  OBVIOUS
<1>9. At(384, 415) = Max({1, l.q.grid[1]})
  <2>1. Has(s, F(384, 415, Clamp(l.q.grid[1], 1)))
    BY <1>1 DEF QmdHas
  <2>2. /\ Clamp(l.q.grid[1], 1) \in Nat /\ Clamp(l.q.grid[1], 1) < Pow2[Word]
        /\ Max({1, l.q.grid[1]}) = Clamp(l.q.grid[1], 1)
    BY <1>7, AtLeastOne
  <2> QED
    BY <1>4, <2>1, <2>2
<1>10. At(416, 431) = Max({1, l.q.grid[2]}) % Pow2[16] /\ At(432, 447) = Max({1, l.q.grid[3]}) % Pow2[16]
  <2>1. Has(s, F(416, 431, Clamp(l.q.grid[2], 1))) /\ Has(s, F(432, 447, Clamp(l.q.grid[3], 1)))
    BY <1>1 DEF QmdHas
  <2>2. /\ Clamp(l.q.grid[2], 1) \in Nat /\ Max({1, l.q.grid[2]}) = Clamp(l.q.grid[2], 1)
        /\ Clamp(l.q.grid[3], 1) \in Nat /\ Max({1, l.q.grid[3]}) = Clamp(l.q.grid[3], 1)
    BY <1>7, AtLeastOne
  <2>3. At(416, 431) = Low(Clamp(l.q.grid[2], 1), 16)
    BY <1>3, <1>8, <2>1, <2>2
  <2>4. At(432, 447) = Low(Clamp(l.q.grid[3], 1), 16)
    BY <1>3, <1>8, <2>1, <2>2
  <2> QED
    BY <2>2, <2>3, <2>4 DEF Low
<1>11. ASSUME NEW k \in 1..3 PROVE At(576 + 16 * k, 591 + 16 * k) = Max({1, l.q.block[k]}) % Pow2[16]
  <2> DEFINE v == Clamp(l.q.block[k], 1)
  <2>1. v \in Nat /\ Max({1, l.q.block[k]}) = v
    BY <1>7, AtLeastOne
  <2>2. /\ Has(s, F(592, 607, Clamp(l.q.block[1], 1))) /\ Has(s, F(608, 623, Clamp(l.q.block[2], 1)))
        /\ Has(s, F(624, 639, Clamp(l.q.block[3], 1)))
    BY <1>1 DEF QmdHas
  <2>3. Has(s, F(576 + 16 * k, 591 + 16 * k, v))
    <3>1. CASE k = 1
      BY <2>2, <3>1
    <3>2. CASE k = 2
      BY <2>2, <3>2
    <3>3. CASE k = 3
      BY <2>2, <3>3
    <3> QED
      BY <3>1, <3>2, <3>3
  <2> DEFINE lo == 576 + 16 * k
             hi == 591 + 16 * k
  <2>4. lo \in Nat /\ hi \in Nat /\ lo <= hi /\ hi - lo < 30 /\ hi - lo + 1 = 16
    OBVIOUS
  <2> HIDE DEF lo, hi, v
  <2>5. At(lo, hi) = Low(v, 16)
    BY <1>3, <2>1, <2>3, <2>4 DEF lo, hi
  <2> QED
    BY <2>1, <2>5 DEF Low, lo, hi, v
<1>12. \/ At(544, 561) * 256 \in shared..(shared + 255)
       \/ At(544, 561) = Pow2[18] - 1 /\ shared > (Pow2[18] - 1) * 256
  <2> DEFINE units == SharedUnits(SharedTotal(l.q, l.m))
  <2>1. Has(s, F(544, 561, units))
    BY <1>1 DEF QmdHas
  <2>2. /\ units \in Nat /\ units < Pow2[18]
        /\ \/ units * 256 \in shared..(shared + 255)
           \/ units = Pow2[18] - 1 /\ shared > (Pow2[18] - 1) * 256
    BY SharedFits DEF LaunchFits, shared
  <2> HIDE DEF units
  <2>3. At(544, 561) = units
    BY <1>3, <1>8, <2>1, <2>2
  <2> QED
    BY <2>2, <2>3
<1>13. At(736, 767) = l.release.lower /\ At(768, 775) = l.release.upper
  <2>1. Has(s, F(736, 767, l.release.lower)) /\ Has(s, F(768, 775, l.release.upper % 256))
    BY <1>1 DEF QmdHas
  <2>2. /\ l.release.lower \in Nat /\ l.release.lower < Pow2[Word] /\ l.release.upper \in Nat
        /\ l.release.upper < Pow2[8] /\ l.release.upper % 256 = l.release.upper
    BY <1>5, <1>6 DEF LaunchFits, IsVa
  <2>3. At(736, 767) = l.release.lower
    BY <1>4, <2>1, <2>2
  <2>4. At(768, 775) = l.release.upper
    BY <1>3, <1>8, <2>1, <2>2
  <2> QED
    BY <2>3, <2>4
<1>14. At(800, 831) = Max({1, l.id % Pow2[Word]})
  <2>1. Has(s, F(800, 831, PayloadOf(l.id)))
    BY <1>1 DEF QmdHas
  <2>2. /\ PayloadOf(l.id) \in Nat /\ PayloadOf(l.id) < Pow2[Word]
        /\ PayloadOf(l.id) = Max({1, l.id % Pow2[Word]})
    BY PayloadFits DEF LaunchFits
  <2> QED
    BY <1>4, <2>1, <2>2
<1>15. ASSUME l.params.size # 0
       PROVE  /\ At(640, 640) = 1 /\ At(975, 991) = l.params.size
              /\ At(928, 959) = l.params.va.lower /\ At(960, 967) = l.params.va.upper
  <2>1. IsVa(l.params.va) /\ (l.params.va.lower # 0 \/ l.params.va.upper # 0)
    BY <1>15 DEF LaunchFits
  <2>2. /\ Has(s, F(640, 640, 1)) /\ Has(s, F(928, 959, l.params.va.lower))
        /\ Has(s, F(960, 967, l.params.va.upper % 256)) /\ Has(s, F(975, 991, l.params.size))
    <3>1. SomeParams(l.params)
      BY <1>15, <2>1 DEF SomeParams
    <3>2. HasParams(s, l.params)
      BY <1>1 DEF QmdHas
    <3> QED
      BY <3>1, <3>2 DEF HasParams
  <2>3. /\ l.params.va.lower \in Nat /\ l.params.va.lower < Pow2[Word] /\ l.params.va.upper \in Nat
        /\ l.params.va.upper < Pow2[8] /\ l.params.va.upper % 256 = l.params.va.upper
    BY <1>5, <1>6, <2>1 DEF IsVa
  <2>4. l.params.size \in Nat /\ l.params.size < Pow2[17]
    BY BitsAreNat DEF LaunchFits
  <2>5. At(640, 640) = 1
    <3>1. 1 < Pow2[1]
      BY Pow2Values
    <3> QED
      BY <1>3, <1>8, <2>2, <3>1
  <2>6. At(975, 991) = l.params.size
    BY <1>3, <1>8, <2>2, <2>4
  <2>7. At(928, 959) = l.params.va.lower
    BY <1>4, <2>2, <2>3
  <2>8. At(960, 967) = l.params.va.upper
    BY <1>3, <1>8, <2>2, <2>3
  <2> QED
    BY <2>5, <2>6, <2>7, <2>8
<1>16. At(1496, 1503) \in 1..255
  <2> DEFINE v == Override(l.over, "regs", Regs(l.m))
  <2>1. Has(s, F(1496, 1503, v))
    BY <1>1 DEF QmdHas
  <2>2. v \in 1..255
    BY RegsFit DEF LaunchFits
  <2> HIDE DEF v
  <2>3. v \in Nat /\ v < Pow2[8]
    BY <2>2, Pow2Values
  <2>4. At(1496, 1503) = v
    BY <1>3, <1>8, <2>1, <2>3
  <2> QED
    BY <2>2, <2>4
<1>17. ASSUME l.m.valid, l.over = << >>
       PROVE  /\ At(256, 287) = IF l.m.textOnly THEN 0 ELSE l.m.offset
              /\ At(1440, 1463) = l.m.local /\ At(1528, 1535) = l.m.sm
  <2>1. \A field, v : Override(l.over, field, v) = v
    BY <1>17 DEF Override
  <2>2. /\ l.m.offset \in Nat /\ l.m.offset < Pow2[Word] /\ l.m.local \in Nat /\ l.m.local < Pow2[24]
        /\ l.m.sm \in Nat /\ l.m.sm < Pow2[8]
    <3>1. l.m.offset \in OfBits(Word) /\ l.m.local \in OfBits(24) /\ l.m.sm \in OfBits(8)
      BY <1>17 DEF LaunchFits
    <3>2. l.m.local \in Nat /\ l.m.local < Pow2[24]
      BY <3>1, BitsAreNat
    <3> QED
      BY <1>5, <1>6, <3>1, <3>2
  <2> DEFINE offset == IF l.m.textOnly THEN 0 ELSE l.m.offset
  <2>3. Override(l.over, "offset", ProgramOffset(l.m)) = offset
    BY <1>17, <2>1 DEF ProgramOffset, Parsed
  <2>4. Override(l.over, "local", Parsed(l.m, l.m.local)) % Pow2[24] = l.m.local
    <3>1. Override(l.over, "local", Parsed(l.m, l.m.local)) = l.m.local
      BY <1>17, <2>1 DEF Parsed
    <3>2. Low(l.m.local, 24) = l.m.local
      BY <2>2, LowSmall
    <3> QED
      BY <3>1, <3>2 DEF Low
  <2>5. Override(l.over, "sm", Parsed(l.m, l.m.sm)) = l.m.sm
    BY <1>17, <2>1 DEF Parsed
  <2>6. Has(s, F(256, 287, offset)) /\ Has(s, F(1440, 1463, l.m.local)) /\ Has(s, F(1528, 1535, l.m.sm))
    BY <1>1, <2>3, <2>4, <2>5 DEF QmdHas
  <2>7. offset \in Nat /\ offset < Pow2[Word]
    BY <2>2, WordIsLarge
  <2> HIDE DEF offset
  <2>8. At(256, 287) = offset
    BY <1>4, <2>6, <2>7
  <2>9. At(1440, 1463) = l.m.local
    BY <1>3, <1>8, <2>2, <2>6
  <2>10. At(1528, 1535) = l.m.sm
    BY <1>3, <1>8, <2>2, <2>6
  <2> QED
    BY <2>8, <2>9, <2>10 DEF offset
<1>18. ASSUME NEW b \in (640..735) \cup (776..798) \cup (832..927) \cup (992..1439), qmd[b] = 1
       PROVE  b = 640
  <2>1. CASE b \in Rest
    <3>1. \A j \in 1..Len(s) : Apart(s[j], b, b) /\ InQmd(s[j])
      <4>1. Leaves(s, b, b)
        <5>1. LeavesRest(s)
          BY <1>1 DEF QmdHas
        <5> QED
          BY <2>1, <5>1 DEF LeavesRest
      <4>2. \A j \in 1..Len(s) : Apart(s[j], b, b)
        BY <4>1 DEF Leaves
      <4>3. \A j \in 1..Len(s) : InQmd(s[j])
        BY <1>2 DEF AllIn
      <4> QED
        BY <4>2, <4>3
    <3>2. b \in Nat /\ b < QmdBits
      BY QmdIsLarge
    <3>3. qmd[b] = 0
      BY <1>2, <3>1, <3>2, BitUnused DEF qmd
    <3> QED
      BY <1>18, <3>3
  <2>2. CASE b = 794
    <3>1. Has(s, F(794, 794, 0))
      BY <1>1 DEF QmdHas
    <3>2. F(794, 794, 0).lo = 794 /\ F(794, 794, 0).hi = 794
      BY DEF F
    <3>3. IsField(qmd, 794, 794, 0)
      BY <1>2, <3>1, <3>2, QmdIsLarge, FieldBuilt DEF Has, AllIn, qmd
    <3>4. qmd[794] = 0
      BY <3>3, ZeroBit
    <3> QED
      BY <1>18, <2>2, <3>4
  <2>3. b = 640 \/ b = 794 \/ b \in Rest
    BY DEF Rest
  <2> QED
    BY <2>1, <2>2, <2>3
<1>19. QmdMeans(l, qmd)
  BY SMTT(30), <1>9, <1>10, <1>11, <1>12, <1>13, <1>14, <1>15, <1>16, <1>17, <1>18 DEF QmdMeans, At, shared
<1> QED
  BY <1>19 DEF qmd, s

(***************************************************************************)
(* What libcuda encodes for the GPU and captures for a launch decodes to   *)
(* what was meant: rm_build_hardware_qmd_locked, rm_push_method_header,    *)
(* rm_write_gpfifo_entry and capture_launch_params, for every word size,   *)
(* launch, method, ring entry and list of parameters in the code's range.  *)
(***************************************************************************)
THEOREM EncodingsAreSound == Spec => []EncodingsDecode
<1>1. Init => EncodingsDecode
  <2> SUFFICES ASSUME Init PROVE EncodingsDecode
    OBVIOUS
  <2>1. CASE \E l \in Launches : input = [of |-> "qmd", launch |-> l]
    <3>1. PICK l \in Launches : input = [of |-> "qmd", launch |-> l]
      BY <2>1
    <3>2. input.of = "qmd" /\ input.launch = l /\ LaunchFits(l)
      BY <3>1, EncodedAssumption
    <3> QED
      BY <3>2, QmdDecodes DEF EncodingsDecode
  <2>2. CASE \E m \in Methods : input = [of |-> "method", method |-> m]
    <3>1. PICK m \in Methods : input = [of |-> "method", method |-> m]
      BY <2>2
    <3>2. input.of = "method" /\ input.method = m /\ MethodFits(m)
      BY <3>1, EncodedAssumption
    <3> QED
      BY <3>2, MethodDecodes DEF EncodingsDecode
  <2>3. CASE \E p \in Pushes : input = [of |-> "push", push |-> p]
    <3>1. PICK p \in Pushes : input = [of |-> "push", push |-> p]
      BY <2>3
    <3>2. input.of = "push" /\ input.push = p /\ PushFits(p)
      BY <3>1, EncodedAssumption
    <3> QED
      BY <3>2, PushDecodes DEF EncodingsDecode
  <2>4. CASE \E c \in Captures : input = [of |-> "capture", capture |-> c]
    <3>1. PICK c \in Captures : input = [of |-> "capture", capture |-> c]
      BY <2>4
    <3>2. input.of = "capture" /\ input.capture = c /\ CaptureFits(c)
      BY <3>1, EncodedAssumption
    <3> QED
      BY <3>2, CaptureDecodes DEF EncodingsDecode
  <2>5. CASE input.of \notin {"qmd", "method", "push", "capture"}
    BY <2>5 DEF EncodingsDecode
  <2> QED
    BY <2>1, <2>2, <2>3, <2>4, <2>5 DEF Init
<1>2. Init /\ [Next]_input => Init'
  BY DEF Init, Next
<1> QED
  BY <1>1, <1>2, PTL DEF Spec

-----------------------------------------------------------------------------
(***************************************************************************)
(* Module images.  The attributes of a section: what the code reads up to  *)
(* the first that does not fit is what is in the section whole.            *)
(***************************************************************************)
Padded(a) == 4 + 4 * ((a.size + 3) \div 4)
Starts(attrs, m, g) == g = [n \in 0..m |-> IF n = 0 THEN 0 ELSE g[n - 1] + 4 + 4 * ((attrs[n].size + 3) \div 4)]

LEMMA StartsExist == ASSUME NEW attrs PROVE \A n \in Nat : \E g : Starts(attrs, n, g)
<1> DEFINE S == {n \in Nat : \E g : Starts(attrs, n, g)}
           After(x, n) == x + 4 + 4 * ((attrs[n].size + 3) \div 4)
<1>1. 0 \in S
  <2> DEFINE g == [n \in 0..0 |-> 0]
  <2>1. g = [n \in 0..0 |-> IF n = 0 THEN 0 ELSE After(g[n - 1], n)]
    OBVIOUS
  <2> HIDE DEF g
  <2>2. Starts(attrs, 0, g)
    BY <2>1 DEF Starts
  <2> QED
    BY <2>2
<1>2. ASSUME NEW n \in S PROVE n + 1 \in S
  <2>1. PICK g : Starts(attrs, n, g)
    OBVIOUS
  <2>2. \A k \in 0..n : g[k] = IF k = 0 THEN 0 ELSE After(g[k - 1], k)
    BY <2>1 DEF Starts
  <2> HIDE DEF After
  <2> DEFINE h == [k \in 0..(n + 1) |-> IF k = n + 1 THEN After(g[n], k) ELSE g[k]]
  <2>3. ASSUME NEW k \in 0..(n + 1) PROVE h[k] = IF k = 0 THEN 0 ELSE After(h[k - 1], k)
    <3>1. CASE k = n + 1
      <4>1. h[k] = After(g[n], k) /\ k # 0 /\ k - 1 = n /\ h[n] = g[n]
        BY <3>1
      <4> QED
        BY <4>1
    <3>2. CASE k # n + 1 /\ k # 0
      <4>1. k \in 0..n /\ k - 1 \in 0..(n + 1) /\ k - 1 # n + 1
        BY <3>2
      <4>2. h[k] = g[k] /\ h[k - 1] = g[k - 1]
        BY <3>2, <4>1
      <4> QED
        BY <2>2, <3>2, <4>1, <4>2
    <3>3. CASE k = 0
      <4>1. k \in 0..n /\ k # n + 1
        BY <3>3
      <4> QED
        BY <2>2, <3>3, <4>1
    <3> QED
      BY <3>1, <3>2, <3>3
  <2>4. h = [k \in 0..(n + 1) |-> h[k]]
    OBVIOUS
  <2> HIDE DEF h
  <2>5. Starts(attrs, n + 1, h)
    BY <2>3, <2>4 DEF Starts, After
  <2> QED
    BY <2>5
<1>3. S = Nat
  <2>1. S \subseteq Nat
    OBVIOUS
  <2> HIDE DEF S
  <2> QED
    BY <1>1, <1>2, <2>1, Induction
<1> QED
  BY <1>3

\* An attribute ends before the next one starts.
LEMMA AttrsInOrder ==
  ASSUME NEW attrs, IsList(attrs), \A j \in DOMAIN attrs : attrs[j].size \in Nat
  PROVE  \A n \in 0..Len(attrs) :
           /\ AttrStart(attrs)[n] \in Nat
           /\ \A k \in 1..n : /\ AttrStart(attrs)[k - 1] + AttrBytes(attrs[k]) \in Nat
                              /\ AttrStart(attrs)[k - 1] + AttrBytes(attrs[k]) <= AttrStart(attrs)[n]
<1> DEFINE start == AttrStart(attrs)
           len == Len(attrs)
           Ends(k) == start[k - 1] + AttrBytes(attrs[k])
           P(n) == start[n] \in Nat /\ \A k \in 1..n : Ends(k) \in Nat /\ Ends(k) <= start[n]
           S == {n \in Nat : n <= len => P(n)}
<1>1. len \in Nat /\ \A k \in 1..len : attrs[k].size \in Nat
  BY DEF IsList
<1>2. Starts(attrs, len, start)
  <2>1. start = CHOOSE g : Starts(attrs, len, g)
    BY DEF AttrStart, Starts
  <2> HIDE DEF start
  <2> QED
    BY <1>1, <2>1, StartsExist
<1> HIDE DEF start
<1>3. start[0] = 0 /\ \A n \in 1..len : start[n] = start[n - 1] + 4 + 4 * ((attrs[n].size + 3) \div 4)
  <2>1. \A n \in 0..len : start[n] = IF n = 0 THEN 0 ELSE start[n - 1] + 4 + 4 * ((attrs[n].size + 3) \div 4)
    BY <1>2 DEF Starts
  <2>2. 0 \in 0..len /\ \A n \in 1..len : n \in 0..len /\ n # 0
    BY <1>1
  <2> QED
    BY <2>1, <2>2
<1>4. 0 \in S
  BY <1>3
<1>5. ASSUME NEW n \in S PROVE n + 1 \in S
  <2>1. SUFFICES ASSUME n + 1 <= len PROVE P(n + 1)
    OBVIOUS
  <2>2. n \in Nat /\ n + 1 \in 1..len /\ (n + 1) - 1 = n /\ n <= len
    BY <1>1, <2>1
  <2>3. PICK x, z \in Nat : x = start[n] /\ z = attrs[n + 1].size
    BY <1>1, <2>2
  <2>4. start[n + 1] = x + 4 + 4 * ((z + 3) \div 4)
    BY <1>3, <2>2, <2>3
  <2>5. 4 * ((z + 3) \div 4) \in Nat /\ z <= 4 * ((z + 3) \div 4)
    OBVIOUS
  <2>6. start[n + 1] \in Nat /\ x <= start[n + 1] /\ x + (4 + z) <= start[n + 1]
    BY <2>4, <2>5, SMTT(30)
  <2>7. ASSUME NEW k \in 1..(n + 1) PROVE Ends(k) \in Nat /\ Ends(k) <= start[n + 1]
    <3>1. CASE k = n + 1
      <4>1. Ends(k) = x + (4 + z)
        BY <2>2, <2>3, <3>1 DEF AttrBytes
      <4> QED
        BY <2>6, <4>1
    <3>2. CASE k # n + 1
      <4>1. k \in 1..n
        BY <2>2, <3>2
      <4>2. PICK b \in Nat : b = Ends(k) /\ b <= x
        BY <2>2, <2>3, <4>1
      <4> QED
        BY <2>3, <2>6, <4>2
    <3> QED
      BY <3>1, <3>2
  <2> QED
    BY <2>6, <2>7
<1>6. S = Nat
  <2>1. S \subseteq Nat
    OBVIOUS
  <2> HIDE DEF S
  <2> QED
    BY <1>4, <1>5, <2>1, Induction
<1>7. \A n \in 0..len : P(n)
  <2>1. \A n \in 0..len : n \in S /\ n <= len
    BY <1>1, <1>6
  <2> QED
    BY <2>1
<1> QED
  BY <1>7 DEF start

LEMMA InfoIsSaid ==
  ASSUME NEW s, SectionFits(s)
  PROVE  NvInfo(s.attrs, s.size, Defaults) = Said(s)
<1> DEFINE attrs == s.attrs
           start == AttrStart(attrs)
           FitsAt(i) == start[i - 1] + 4 <= s.size /\ attrs[i].size <= s.size - (start[i - 1] + 4)
           Whole(i) == start[i - 1] + AttrBytes(attrs[i]) <= s.size
           Read(kind) == {i \in DOMAIN attrs : /\ \A k \in 1..i : FitsAt(k)
                                               /\ attrs[i].size >= 4 /\ attrs[i].kind = kind}
           Last(kind) == {i \in DOMAIN attrs : /\ Whole(i) /\ attrs[i].size >= 4 /\ attrs[i].kind = kind}
<1>1. /\ Len(attrs) \in Nat /\ DOMAIN attrs = 1..Len(attrs) /\ s.size \in Nat
      /\ \A i \in 1..Len(attrs) : attrs[i].size \in Nat
      /\ \A n \in 0..Len(attrs) : start[n] \in Nat /\ \A k \in 1..n : /\ start[k - 1] + AttrBytes(attrs[k]) \in Nat
                                                                         /\ start[k - 1] + AttrBytes(attrs[k]) <= start[n]
  BY AttrsInOrder DEF SectionFits, IsList
<1> HIDE DEF start
<1>2. ASSUME NEW i \in 1..Len(attrs) PROVE FitsAt(i) <=> Whole(i)
  <2>1. PICK x, y, z \in Nat : x = start[i - 1] /\ y = attrs[i].size /\ z = s.size
    <3>1. i - 1 \in 0..Len(attrs)
      BY <1>1
    <3> QED
      BY <1>1, <3>1
  <2>2. (x + 4 <= z /\ y <= z - (x + 4)) <=> (x + (4 + y) <= z)
    OBVIOUS
  <2> QED
    BY <2>1, <2>2 DEF AttrBytes
<1>3. ASSUME NEW i \in 1..Len(attrs), Whole(i), NEW k \in 1..i PROVE Whole(k)
  <2>1. CASE k = i
    BY <1>3, <2>1
  <2>2. CASE k # i
    <3>1. i - 1 \in 0..Len(attrs) /\ k - 1 \in 0..Len(attrs) /\ k \in 1..(i - 1) /\ k \in 1..Len(attrs)
      BY <1>1, <2>2
    <3>2. PICK x, y, z, b \in Nat : x = start[i - 1] /\ y = attrs[i].size /\ z = s.size
                                    /\ b = start[k - 1] + AttrBytes(attrs[k]) /\ b <= x
      BY <1>1, <3>1
    <3>3. x + (4 + y) <= z
      BY <1>3, <3>2 DEF AttrBytes
    <3>4. b \in Nat /\ x \in Nat /\ y \in Nat /\ z \in Nat /\ b <= x
      BY <3>2
    <3>5. b <= z
      BY <3>3, <3>4
    <3> QED
      BY <3>2, <3>5
  <2> QED
    BY <2>1, <2>2
<1>4. ASSUME NEW kind PROVE Read(kind) = Last(kind)
  <2>1. ASSUME NEW i \in 1..Len(attrs) PROVE (\A k \in 1..i : FitsAt(k)) <=> Whole(i)
    <3>1. \A k \in 1..i : k \in 1..Len(attrs)
      BY <1>1
    <3>2. i \in 1..i
      OBVIOUS
    <3> HIDE DEF FitsAt, Whole
    <3> QED
      BY <1>2, <1>3, <3>1, <3>2
  <2> HIDE DEF FitsAt, Whole
  <2> QED
    BY <1>1, <2>1
<1>5. NvInfo(attrs, s.size, Defaults) =
        [kind \in DOMAIN Defaults |-> IF Read(kind) = {} THEN Defaults[kind] ELSE attrs[Max(Read(kind))].value]
  BY DEF NvInfo, start
<1>6. Said(s) =
        [kind \in DOMAIN Defaults |-> IF Last(kind) = {} THEN Defaults[kind] ELSE attrs[Max(Last(kind))].value]
  BY DEF Said, start
<1> HIDE DEF Read, Last
<1> QED
  BY <1>4, <1>5, <1>6

LEMMA LeastOf ==
  ASSUME NEW S, S \subseteq Nat, S # {}
  PROVE  Min(S) \in S
<1>1. PICK x \in S : \A y \in S : x <= y
  BY LeastElement
<1> QED
  BY <1>1 DEF Min

\* Of a list of an image the last of some places is one of them.
LEMMA LastPlace ==
  ASSUME NEW list, IsList(list), NEW S, S \subseteq DOMAIN list, S # {}
  PROVE  Max(S) \in S
<1>1. Len(list) \in Nat /\ S \subseteq 0..Len(list)
  BY DEF IsList
<1> QED
  BY <1>1, GreatestElement

LEMMA NamedIsOne ==
  ASSUME NEW img, ImageFits(img), NEW bytes, NEW prefix, NEW kernel, NEW among, among \subseteq DOMAIN img.section
  PROVE  LET at == FirstNamed(img, bytes, prefix, kernel, among)
             Matches(i) == /\ i \in among /\ Section(img, i, bytes)
                           /\ img.section[i].prefix = prefix /\ img.section[i].kernel = kernel
         IN Matches(at) \/ (at = 0 /\ \A i : ~Matches(i))
<1> DEFINE those == {i \in among : /\ Section(img, i, bytes)
                                   /\ img.section[i].prefix = prefix /\ img.section[i].kernel = kernel}
           at == FirstNamed(img, bytes, prefix, kernel, among)
<1>1. at = IF those = {} THEN 0 ELSE Min(those)
  BY DEF FirstNamed
<1>2. those \subseteq Nat
  BY DEF ImageFits, IsList
<1>3. CASE those = {}
  BY <1>1, <1>3
<1>4. CASE those # {}
  <2>1. at \in those
    <3> HIDE DEF those, at
    <3> QED
      BY <1>1, <1>2, <1>4, LeastOf
  <2> QED
    BY <2>1
<1> QED
  BY <1>3, <1>4

LEMMA LastIsSymbol ==
  ASSUME NEW img, ImageFits(img), NEW bytes, NEW kernel
  PROVE  LET y == LastSymbol(img, bytes, kernel)
         IN \/ /\ y = NoSymbol
               /\ \A i \in DOMAIN img.section : KernelSymbols(img, bytes, kernel, i) = {}
            \/ \E i \in DOMAIN img.section : \E j \in KernelSymbols(img, bytes, kernel, i) :
                 y = img.section[i].symbols[j]
<1> DEFINE y == LastSymbol(img, bytes, kernel)
           Of(i) == KernelSymbols(img, bytes, kernel, i)
           tables == {i \in DOMAIN img.section : Of(i) # {}}
<1>1. y = IF tables = {} THEN NoSymbol ELSE img.section[Max(tables)].symbols[Max(Of(Max(tables)))]
  BY DEF LastSymbol
<1>2. \A i \in DOMAIN img.section : Of(i) \subseteq DOMAIN img.section[i].symbols
  BY DEF KernelSymbols
<1>3. IsList(img.section) /\ \A i \in DOMAIN img.section : IsList(img.section[i].symbols)
  BY DEF ImageFits, SectionFits
<1>4. tables \subseteq DOMAIN img.section /\ \A i \in tables : Of(i) # {}
  OBVIOUS
<1>5. \A i \in DOMAIN img.section : i \notin tables => Of(i) = {}
  OBVIOUS
<1> HIDE DEF tables, Of, y
<1>6. CASE tables = {}
  BY <1>1, <1>5, <1>6 DEF Of, y
<1>7. CASE tables # {}
  <2>1. Max(tables) \in tables
    BY <1>3, <1>4, <1>7, LastPlace
  <2>2. Max(tables) \in DOMAIN img.section /\ Of(Max(tables)) # {}
    BY <1>4, <2>1
  <2>3. Max(Of(Max(tables))) \in Of(Max(tables))
    BY <1>2, <1>3, <2>2, LastPlace
  <2>4. y = img.section[Max(tables)].symbols[Max(Of(Max(tables)))]
    BY <1>1, <1>7
  <2> QED
    BY <2>2, <2>3, <2>4 DEF Of, y
<1> QED
  BY <1>6, <1>7

\* A symbol that is read is in code of the image.
LEMMA SymbolIsInText ==
  ASSUME NEW img, NEW bytes, NEW kernel, NEW i, NEW j \in KernelSymbols(img, bytes, kernel, i)
  PROVE  LET y == img.section[i].symbols[j]
         IN y.section \in DOMAIN img.section /\ IsText(img, y.section, bytes)
<1> QED
  BY DEF KernelSymbols

\* Whatever the image is, code that is found for a kernel that was discovered is in the copy.
LEMMA FoundIsInside ==
  ASSUME NEW img, ImageFits(img), NEW bytes, NEW kernel \in DiscoveredKernels(img, bytes)
  PROVE  LET meta == FindMetadata(img, bytes, kernel)
         IN meta.valid /\ RangeInImage(img.section[meta.section].offset, img.section[meta.section].size, bytes)
<1> DEFINE sections == DOMAIN img.section
           texts == {i \in sections : IsText(img, i, bytes)}
           symbol == LastSymbol(img, bytes, kernel)
           named == FirstNamed(img, bytes, ".text.", kernel, texts)
           at == IF symbol.section # 0 THEN symbol.section ELSE named
           meta == FindMetadata(img, bytes, kernel)
<1>1. Readable(img, bytes) /\ \E i \in texts : img.section[i].prefix = ".text." /\ img.section[i].kernel = kernel
  BY DEF DiscoveredKernels
<1>2. \A i \in texts : Section(img, i, bytes)
                       /\ RangeInImage(img.section[i].offset, img.section[i].size, bytes)
  BY DEF IsText, Section
<1>3. texts \subseteq sections /\ \A i \in texts : i \in Nat /\ i # 0
  BY DEF ImageFits, IsList
<1>4. named \in texts
  <2> HIDE DEF texts
  <2> QED
    BY <1>1, <1>2, <1>3, NamedIsOne
<1>5. symbol.section = 0 \/ symbol.section \in texts
  <2>1. CASE symbol = NoSymbol
    BY <2>1 DEF NoSymbol
  <2>2. CASE \E i \in sections : \E j \in KernelSymbols(img, bytes, kernel, i) : symbol = img.section[i].symbols[j]
    BY <2>2, SymbolIsInText
  <2> HIDE DEF symbol, texts
  <2> QED
    BY <2>1, <2>2, LastIsSymbol DEF symbol
<1> HIDE DEF symbol, named, texts
<1>6. at \in texts /\ at # 0
  BY <1>3, <1>4, <1>5
<1>7. meta.valid /\ meta.section = at
  BY <1>1, <1>6 DEF FindMetadata, symbol, named, texts
<1> HIDE DEF at, meta
<1> QED
  BY <1>2, <1>6, <1>7 DEF meta

LEMMA EntriesInTable ==
  ASSUME NEW e \in Nat, NEW n \in Nat, NEW k \in 1..n
  PROVE  (k - 1) * e + e <= e * n /\ (k - 1) * e \in Nat /\ e * n \in Nat
<1>1. (k - 1) * e + e = k * e
  OBVIOUS
<1>2. k * e <= n * e
  OBVIOUS
<1>3. n * e = e * n /\ (k - 1) * e \in Nat /\ n * e \in Nat
  OBVIOUS
<1> QED
  BY <1>1, <1>2, <1>3

\* What is copied of a file that is in the limit is in the file and holds its tables and sections.
LEMMA CopyHoldsImage ==
  ASSUME NEW img, ImageFits(img), InFile(img), NEW limit \in Nat, img.file <= limit
  PROVE  LET bytes == ProbeSize(img, limit)
         IN /\ bytes \in Nat /\ bytes <= img.file /\ HeaderBytes <= bytes
            /\ img.shoff + img.shentsize * Len(img.section) <= bytes
            /\ \A i \in DOMAIN img.section :
                 img.section[i].type # "nobits" => End(img.section[i]) <= bytes
<1> DEFINE ends == {HeaderBytes} \cup TableEnd(img, limit) \cup ProgramEnds(img, limit) \cup SectionEnds(img, limit)
           bytes == ProbeSize(img, limit)
           n == Len(img.section)
           table == img.shoff + img.shentsize * n
<1>1. PICK file, off, e, m \in Nat : file = img.file /\ off = img.shoff /\ e = img.shentsize /\ m = n
  BY DEF ImageFits, IsList
<1>2. /\ HeaderBytes \in Nat /\ SectionBytes \in Nat /\ SectionBytes # 0 /\ HeaderBytes <= file
      /\ e >= SectionBytes /\ m >= 1 /\ n < MaxSections /\ off + e * m <= file /\ file <= limit
  BY <1>1, SizesAssumption DEF InFile
<1>3. e * m \in Nat /\ e <= e * m
  <2>1. (m - 1) * e + e <= e * m /\ (m - 1) * e \in Nat /\ e * m \in Nat
    BY <1>2, EntriesInTable
  <2> QED
    BY <2>1
<1>4. Counted(img.shentsize, SectionBytes, img.shoff, n, limit)
  <2>1. off < limit
    BY <1>2, <1>3
  <2> QED
    BY <1>1, <1>2, <2>1 DEF Counted
<1>5. \A i \in DOMAIN img.section : End(img.section[i]) \in Nat /\ img.section[i].offset \in Nat
                                    /\ img.section[i].size \in Nat
  BY DEF ImageFits, SectionFits, End
<1>6. TableEnd(img, limit) = {table} /\ table \in Nat /\ table <= file
  <2>1. table = off + e * m /\ e * m <= limit - off
    BY <1>1, <1>2, <1>3
  <2>2. img.shentsize * Len(img.section) <= limit - img.shoff
    BY <1>1, <2>1
  <2>3. TableEnd(img, limit) = {table}
    BY <1>4, <2>2 DEF TableEnd
  <2> HIDE DEF table
  <2> QED
    BY <1>2, <1>3, <2>1, <2>3
<1>7. \A x \in ProgramEnds(img, limit) : x \in Nat /\ x <= file
  <2>1. \A i \in DOMAIN img.phdr : End(img.phdr[i]) \in Nat
    BY DEF ImageFits, End
  <2>2. \A i \in DOMAIN img.phdr : End(img.phdr[i]) <= img.file
    BY DEF InFile
  <2> QED
    BY <1>1, <2>1, <2>2 DEF ProgramEnds
<1>8. \A x \in SectionEnds(img, limit) : x \in Nat /\ x <= file
  <2>1. \A i \in DOMAIN img.section : img.section[i].type # "nobits" => End(img.section[i]) <= file
    BY <1>1 DEF InFile
  <2> QED
    BY <1>5, <2>1 DEF SectionEnds
<1>9. ASSUME NEW i \in DOMAIN img.section, img.section[i].type # "nobits"
      PROVE  End(img.section[i]) \in SectionEnds(img, limit)
  <2>1. i \in 1..m
    BY <1>1 DEF ImageFits, IsList
  <2>2. ASSUME NEW k \in 1..i PROVE Entry(img.shoff, img.shentsize, k - 1) + SectionBytes <= limit
    <3>1. k \in 1..m
      BY <2>1
    <3>2. PICK p, t \in Nat : p = (k - 1) * e /\ t = e * m /\ p + e <= t
      BY <3>1, EntriesInTable
    <3>3. off + p + SectionBytes <= limit
      BY <1>2, <3>2
    <3> QED
      BY <1>1, <3>2, <3>3 DEF Entry
  <2>3. RangeInImage(img.section[i].offset, img.section[i].size, limit)
    <3>1. PICK o, z \in Nat : o = img.section[i].offset /\ z = img.section[i].size
      BY <1>5
    <3>2. o + z <= file
      BY <1>1, <1>9, <3>1 DEF InFile, End
    <3>3. o <= limit /\ z <= limit - o
      BY <1>2, <3>2
    <3> QED
      BY <3>1, <3>3 DEF RangeInImage
  <2> QED
    BY <1>4, <1>9, <2>2, <2>3 DEF SectionEnds
<1>10. ends \subseteq 0..file /\ ends # {} /\ HeaderBytes \in ends /\ table \in ends
       /\ \A x \in SectionEnds(img, limit) : x \in ends
  BY <1>2, <1>6, <1>7, <1>8
<1>11. bytes = Max(ends)
  BY DEF ProbeSize
<1> HIDE DEF ends, bytes, table
<1>12. bytes \in ends /\ \A x \in ends : x <= bytes
  BY <1>10, <1>11, GreatestElement
<1>13. bytes \in Nat /\ bytes <= img.file
  BY <1>1, <1>10, <1>12
<1>14. HeaderBytes <= bytes /\ table <= bytes
  BY <1>10, <1>12
<1>15. \A i \in DOMAIN img.section : img.section[i].type # "nobits" => End(img.section[i]) <= bytes
  BY <1>9, <1>10, <1>12
<1> QED
  BY <1>13, <1>14, <1>15 DEF bytes, table

\* So every section is there, and discovery finds all code of kernels.
LEMMA CopyIsReadable ==
  ASSUME NEW img, ImageFits(img), InFile(img), NEW limit \in Nat, img.file <= limit
  PROVE  LET bytes == ProbeSize(img, limit)
         IN /\ Readable(img, bytes)
            /\ \A i \in DOMAIN img.section : Section(img, i, bytes)
            /\ \A i \in DOMAIN img.section : img.section[i].type # "nobits" =>
                 RangeInImage(img.section[i].offset, img.section[i].size, bytes)
            /\ DiscoveredKernels(img, bytes) = {img.section[i].kernel : i \in KernelText(img)}
<1> DEFINE bytes == ProbeSize(img, limit)
<1>1. /\ bytes \in Nat /\ HeaderBytes <= bytes
      /\ img.shoff + img.shentsize * Len(img.section) <= bytes
      /\ \A i \in DOMAIN img.section : img.section[i].type # "nobits" => End(img.section[i]) <= bytes
  BY CopyHoldsImage
<1> HIDE DEF bytes
<1>2. ASSUME NEW i \in DOMAIN img.section, img.section[i].type # "nobits"
      PROVE  RangeInImage(img.section[i].offset, img.section[i].size, bytes)
  <2>1. PICK o, z \in Nat : o = img.section[i].offset /\ z = img.section[i].size
    BY DEF ImageFits, SectionFits
  <2>2. o + z <= bytes
    BY <1>1, <1>2, <2>1 DEF End
  <2>3. o <= bytes /\ z <= bytes - o
    BY <1>1, <2>2
  <2> QED
    BY <2>1, <2>3 DEF RangeInImage
<1>3. \A i \in DOMAIN img.section : Section(img, i, bytes)
  BY <1>2 DEF Section
<1>4. Readable(img, bytes)
  <2>1. RangeInImage(img.shoff, img.shentsize * Len(img.section), bytes)
    <3>1. PICK o, e, m \in Nat : o = img.shoff /\ e = img.shentsize /\ m = Len(img.section)
      BY DEF ImageFits, IsList
    <3>2. PICK z \in Nat : z = e * m
      OBVIOUS
    <3>3. o + z <= bytes
      BY <1>1, <3>1, <3>2
    <3>4. o <= bytes /\ z <= bytes - o
      BY <1>1, <3>3
    <3> QED
      BY <3>1, <3>2, <3>4 DEF RangeInImage
  <2>2. img.shstrndx \in DOMAIN img.section /\ img.section[img.shstrndx].type # "nobits"
    BY DEF InFile
  <2>3. img.shentsize >= SectionBytes /\ Len(img.section) \in 1..MaxSections
    BY SizesAssumption DEF InFile
  <2> QED
    BY <1>1, <1>2, <2>1, <2>2, <2>3 DEF Readable
<1>5. DiscoveredKernels(img, bytes) = {img.section[i].kernel : i \in KernelText(img)}
  <2>1. \A i \in DOMAIN img.section :
          IsText(img, i, bytes) <=> img.section[i].type = "progbits" /\ img.section[i].exec
    BY <1>3 DEF IsText
  <2> QED
    BY <1>4, <2>1 DEF DiscoveredKernels, KernelText
<1> QED
  BY <1>2, <1>3, <1>4, <1>5 DEF bytes

\* A kernel's code begins where its symbols say.
LEMMA EntryIsStart ==
  ASSUME NEW text, text.offset \in Nat, text.addr \in Nat, text.size \in Nat, text.start \in Nat, NEW v \in Nat,
         \/ v = 0 /\ text.start = 0
         \/ /\ text.start = 0 \/ text.start < text.size
            /\ v = text.addr + text.start \/ (v = text.start /\ text.start < text.addr)
  PROVE  EntryOf(text, v) = text.offset + text.start
<1>1. PICK o, a, z, t \in Nat : o = text.offset /\ a = text.addr /\ z = text.size /\ t = text.start
  OBVIOUS
<1>2. \/ v = 0 /\ t = 0
      \/ (t = 0 \/ t < z) /\ (v = a + t \/ (v = t /\ t < a))
  BY <1>1
<1>3. (IF v # 0 /\ v >= a /\ v < a + z THEN o + (v - a) ELSE IF v # 0 /\ v < z THEN o + v ELSE o) = o + t
  BY <1>2
<1> QED
  BY <1>1, <1>3 DEF EntryOf

LEMMA KernelIsFound ==
  ASSUME NEW img, ImageFits(img), Proper(img), NEW bytes, Readable(img, bytes),
         \A j \in DOMAIN img.section : Section(img, j, bytes),
         \A j \in DOMAIN img.section : img.section[j].type # "nobits" =>
           RangeInImage(img.section[j].offset, img.section[j].size, bytes),
         NEW i \in KernelText(img)
  PROVE  LET meta == FindMetadata(img, bytes, img.section[i].kernel)
             text == img.section[i]
         IN /\ meta.valid /\ meta.section = i
            /\ meta.entry = text.offset + text.start
            /\ \A j \in DOMAIN img.section :
                 img.section[j].kernel = img.section[i].kernel =>
                   /\ img.section[j].prefix = ".nv.info." => meta.info = img.section[j].means
                   /\ img.section[j].prefix = ".nv.constant0." => meta.const = img.section[j].size
<1> DEFINE sections == DOMAIN img.section
           text == img.section[i]
           kernel == text.kernel
           texts == {j \in sections : IsText(img, j, bytes)}
           symbol == LastSymbol(img, bytes, kernel)
           Named == {p \in Symbols(img) : img.section[p[1]].symbols[p[2]].name = kernel}
           at == IF symbol.section # 0 THEN symbol.section ELSE FirstNamed(img, bytes, ".text.", kernel, texts)
           info == FirstNamed(img, bytes, ".nv.info.", kernel, sections)
           const == FirstNamed(img, bytes, ".nv.constant0.", kernel, sections)
           meta == FindMetadata(img, bytes, kernel)
<1>1. i \in sections /\ text.prefix = ".text." /\ i \in texts /\ texts \subseteq sections
  BY DEF KernelText, IsText
<1>2. ASSUME NEW j \in sections, NEW k \in sections, img.section[j].prefix = img.section[k].prefix,
             img.section[j].kernel = img.section[k].kernel,
             img.section[j].prefix \in {".text.", ".nv.info.", ".nv.constant0."}
      PROVE  j = k
  BY <1>2 DEF Proper
<1>3. /\ text.start = 0 \/ (text.start < text.size /\ Named # {})
      /\ \A p \in Named :
           /\ img.section[p[1]].symbols[p[2]].func /\ img.section[p[1]].symbols[p[2]].section = i
           /\ \/ img.section[p[1]].symbols[p[2]].value = text.addr + text.start
              \/ img.section[p[1]].symbols[p[2]].value = text.start /\ text.start < text.addr
  BY DEF Proper
\* What is read of the symbols is what the file has of them.
<1>4. ASSUME NEW t \in sections, NEW j \in DOMAIN img.section[t].symbols
      PROVE  j \in KernelSymbols(img, bytes, kernel, t) <=> <<t, j>> \in Named
  <2> DEFINE y == img.section[t].symbols[j]
             Table == /\ img.section[t].type = "symtab" /\ img.section[t].entsize >= SymbolBytes
                      /\ img.section[t].size # 0 /\ img.section[t].link \in sections
                      /\ img.section[img.section[t].link].type = "strtab"
             Placed == Table /\ j * img.section[t].entsize <= img.section[t].size /\ y.name = kernel
  <2>1. <<t, j>> \in Named <=> Placed
    BY DEF Symbols
  <2>2. <<t, j>> \in Named => y.func /\ y.section = i
    BY <1>3
  <2>3. j \in KernelSymbols(img, bytes, kernel, t) <=>
          Placed /\ y.func /\ y.section \in sections /\ IsText(img, y.section, bytes)
    BY DEF KernelSymbols
  <2> HIDE DEF Placed, Named
  <2> QED
    BY <1>1, <2>1, <2>2, <2>3
<1>5. \A p \in Named : \E t \in sections : \E j \in DOMAIN img.section[t].symbols : p = <<t, j>>
  BY DEF Symbols
<1> HIDE DEF Named, symbol
<1>6. symbol.section = 0 \/ symbol.section = i
  <2>1. CASE symbol = NoSymbol
    BY <2>1 DEF NoSymbol
  <2>2. CASE \E t \in sections : \E j \in KernelSymbols(img, bytes, kernel, t) : symbol = img.section[t].symbols[j]
    <3>1. PICK t \in sections : \E j \in KernelSymbols(img, bytes, kernel, t) : symbol = img.section[t].symbols[j]
      BY <2>2
    <3>2. PICK j \in KernelSymbols(img, bytes, kernel, t) : symbol = img.section[t].symbols[j]
      BY <3>1
    <3>3. j \in DOMAIN img.section[t].symbols
      BY DEF KernelSymbols
    <3> QED
      BY <1>3, <1>4, <3>2, <3>3
  <2> QED
    BY <2>1, <2>2, LastIsSymbol DEF symbol
<1>7. /\ symbol.value \in Nat
      /\ \/ symbol.value = 0 /\ text.start = 0
         \/ /\ text.start = 0 \/ text.start < text.size
            /\ symbol.value = text.addr + text.start \/ (symbol.value = text.start /\ text.start < text.addr)
  <2>1. CASE symbol = NoSymbol /\ \A t \in sections : KernelSymbols(img, bytes, kernel, t) = {}
    <3>1. Named = {}
      BY <1>4, <1>5, <2>1
    <3> QED
      BY <1>3, <2>1, <3>1 DEF NoSymbol
  <2>2. CASE \E t \in sections : \E j \in KernelSymbols(img, bytes, kernel, t) : symbol = img.section[t].symbols[j]
    <3>1. PICK t \in sections : \E j \in KernelSymbols(img, bytes, kernel, t) : symbol = img.section[t].symbols[j]
      BY <2>2
    <3>2. PICK j \in KernelSymbols(img, bytes, kernel, t) : symbol = img.section[t].symbols[j]
      BY <3>1
    <3>3. j \in DOMAIN img.section[t].symbols
      BY DEF KernelSymbols
    <3>4. <<t, j>> \in Named
      BY <1>4, <3>3
    <3>5. symbol.value = text.addr + text.start \/ (symbol.value = text.start /\ text.start < text.addr)
      BY <1>3, <3>2, <3>4
    <3>6. symbol.value \in Nat
      BY <3>2, <3>3 DEF ImageFits, SectionFits
    <3> QED
      BY <1>3, <3>5, <3>6
  <2> QED
    BY <2>1, <2>2, LastIsSymbol DEF symbol
<1>8. FirstNamed(img, bytes, ".text.", kernel, texts) = i
  <2>1. \A j \in texts : img.section[j].prefix = ".text." /\ img.section[j].kernel = kernel => j = i
    BY <1>1, <1>2
  <2> HIDE DEF texts
  <2> QED
    BY <1>1, <2>1, NamedIsOne
<1>9. at = i /\ i # 0
  <2>1. i # 0
    BY <1>1 DEF ImageFits, IsList
  <2> QED
    BY <1>6, <1>8, <2>1
<1>10. /\ meta.valid /\ meta.section = at /\ meta.entry = EntryOf(img.section[at], symbol.value)
       /\ meta.info = IF info # 0 /\ img.section[info].type = "cuda_info"
                      THEN NvInfo(img.section[info].attrs, img.section[info].size, Defaults) ELSE Defaults
       /\ meta.const = IF const # 0 /\ RangeInImage(img.section[const].offset, img.section[const].size, bytes)
                       THEN img.section[const].size ELSE 0
  <2> HIDE DEF at, info, const
  <2>1. meta = [valid |-> TRUE, section |-> at, textOffset |-> img.section[at].offset,
                textSize |-> IF symbol.size # 0 THEN symbol.size ELSE img.section[at].size,
                entry |-> EntryOf(img.section[at], symbol.value),
                info |-> IF info # 0 /\ img.section[info].type = "cuda_info"
                         THEN NvInfo(img.section[info].attrs, img.section[info].size, Defaults) ELSE Defaults,
                const |-> IF const # 0 /\ RangeInImage(img.section[const].offset, img.section[const].size, bytes)
                          THEN img.section[const].size ELSE 0]
    BY <1>9 DEF FindMetadata, at, info, const, symbol
  <2> HIDE DEF meta
  <2> QED
    BY <2>1
<1>11. EntryOf(text, symbol.value) = text.offset + text.start
  <2>1. text.offset \in Nat /\ text.addr \in Nat /\ text.size \in Nat /\ text.start \in Nat
    BY <1>1 DEF ImageFits, SectionFits
  <2> HIDE DEF text
  <2> QED
    BY <1>7, <2>1, EntryIsStart
<1>12. ASSUME NEW j \in sections, img.section[j].kernel = kernel, img.section[j].prefix = ".nv.info."
       PROVE  meta.info = img.section[j].means
  <2>1. info = j
    <3>1. \A k \in sections : img.section[k].prefix = ".nv.info." /\ img.section[k].kernel = kernel => k = j
      BY <1>2, <1>12
    <3> QED
      BY <1>12, <3>1, NamedIsOne
  <2>2. j # 0 /\ img.section[j].type = "cuda_info" /\ SectionFits(img.section[j])
    <3>1. img.section[j].type = "cuda_info"
      BY <1>12 DEF Proper
    <3>2. j # 0 /\ SectionFits(img.section[j])
      BY DEF ImageFits, IsList
    <3> QED
      BY <3>1, <3>2
  <2>3. NvInfo(img.section[j].attrs, img.section[j].size, Defaults) = Said(img.section[j])
    BY <2>2, InfoIsSaid
  <2>4. img.section[j].means = Said(img.section[j])
    BY <1>12, <2>2 DEF SectionFits
  <2> HIDE DEF info, meta, const
  <2> QED
    BY <1>10, <2>1, <2>2, <2>3, <2>4
<1>13. ASSUME NEW j \in sections, img.section[j].kernel = kernel, img.section[j].prefix = ".nv.constant0."
       PROVE  meta.const = img.section[j].size
  <2>1. const = j
    <3>1. \A k \in sections : img.section[k].prefix = ".nv.constant0." /\ img.section[k].kernel = kernel => k = j
      BY <1>2, <1>13
    <3> QED
      BY <1>13, <3>1, NamedIsOne
  <2>2. j # 0 /\ img.section[j].type # "nobits"
    <3>1. img.section[j].type # "nobits"
      BY <1>13 DEF Proper
    <3>2. j # 0
      BY DEF ImageFits, IsList
    <3> QED
      BY <3>1, <3>2
  <2>3. RangeInImage(img.section[j].offset, img.section[j].size, bytes)
    BY <2>2
  <2> HIDE DEF const, meta, info
  <2> QED
    BY <1>10, <2>1, <2>2, <2>3
<1> HIDE DEF at, info, const, meta
<1> QED
  BY <1>9, <1>10, <1>11, <1>12, <1>13 DEF meta

(***************************************************************************)
(* Images: whatever an image says, what probe_elf_image_size copies and    *)
(* module_find_kernel_metadata finds in it is inside the copy; of a proper *)
(* file every kernel is found, where it starts and with its own            *)
(* attributes, for any number and order of sections, tables and symbols.   *)
(***************************************************************************)
THEOREM KernelsAreFound == Spec => []KernelsFound
<1>1. Init => KernelsFound
  <2> SUFFICES ASSUME Init, input.of = "image" PROVE KernelsFound
    BY DEF KernelsFound
  <2>1. PICK c \in Cubins : input = [of |-> "image", image |-> c]
    BY DEF Init
  <2> DEFINE img == c.img
             limit == c.limit
             bytes == ProbeSize(img, limit)
  <2>2. input.image = c /\ ImageFits(img) /\ limit \in Nat
    BY <2>1, CubinsAssumption
  <2> HIDE DEF img, limit
  <2>3. \A k \in DiscoveredKernels(img, bytes) :
          LET meta == FindMetadata(img, bytes, k)
          IN meta.valid /\ RangeInImage(img.section[meta.section].offset, img.section[meta.section].size, bytes)
    BY <2>2, FoundIsInside
  <2>4. ASSUME WellFormed(img), img.file <= limit
        PROVE  /\ bytes <= img.file
               /\ DiscoveredKernels(img, bytes) = {img.section[i].kernel : i \in KernelText(img)}
               /\ \A i \in KernelText(img) :
                    LET meta == FindMetadata(img, bytes, img.section[i].kernel)
                        text == img.section[i]
                    IN /\ meta.valid /\ meta.section = i
                       /\ meta.entry = text.offset + text.start
                       /\ \A j \in DOMAIN img.section :
                            img.section[j].kernel = img.section[i].kernel =>
                              /\ img.section[j].prefix = ".nv.info." => meta.info = img.section[j].means
                              /\ img.section[j].prefix = ".nv.constant0." => meta.const = img.section[j].size
    <3>1. InFile(img) /\ Proper(img)
      BY <2>4 DEF WellFormed
    <3>2. bytes <= img.file
      BY <2>2, <2>4, <3>1, CopyHoldsImage
    <3>3. /\ Readable(img, bytes)
          /\ \A i \in DOMAIN img.section : Section(img, i, bytes)
          /\ \A i \in DOMAIN img.section : img.section[i].type # "nobits" =>
               RangeInImage(img.section[i].offset, img.section[i].size, bytes)
          /\ DiscoveredKernels(img, bytes) = {img.section[i].kernel : i \in KernelText(img)}
      BY <2>2, <2>4, <3>1, CopyIsReadable
    <3> HIDE DEF bytes
    <3> QED
      BY <2>2, <3>1, <3>2, <3>3, KernelIsFound
  <2> HIDE DEF bytes
  <2> QED
    BY <2>2, <2>3, <2>4 DEF KernelsFound, bytes, img, limit
<1>2. Init /\ [Next]_input => Init'
  BY DEF Init, Next
<1> QED
  BY <1>1, <1>2, PTL DEF Spec

-----------------------------------------------------------------------------
(***************************************************************************)
(* Number formats.  Mag is the magnitude of the number with exponent e and *)
(* mantissa m of a format of k bits of mantissa, scaled by 2^s; Gap is how *)
(* far the next one is.                                                    *)
(***************************************************************************)
Place(e) == IF e = 0 THEN 0 ELSE e - 1
Mag(e, m, k, s) == (m + IF e = 0 THEN 0 ELSE Pow2[k]) * Pow2[Place(e) + s]
Gap(e, s) == Pow2[Place(e) + s]

LEMMA PlaceIsNat ==
  ASSUME NEW e \in Nat, NEW s \in Nat
  PROVE  Place(e) \in Nat /\ Place(e) + s \in Nat /\ Gap(e, s) \in Nat /\ Gap(e, s) # 0
<1>1. Place(e) \in Nat
  BY DEF Place
<1>2. Place(e) + s \in Nat
  BY <1>1
<1> QED
  BY <1>1, <1>2, Pow2IsNat DEF Gap

LEMMA MagIsNat ==
  ASSUME NEW e \in Nat, NEW m \in Nat, NEW k \in Nat, NEW s \in Nat
  PROVE  Mag(e, m, k, s) \in Nat
<1>1. PICK p \in Nat, g \in Nat : p = Pow2[k] /\ g = Pow2[Place(e) + s]
  BY PlaceIsNat, Pow2IsNat DEF Gap
<1>2. Mag(e, m, k, s) = (m + IF e = 0 THEN 0 ELSE p) * g
  BY <1>1 DEF Mag
<1>3. PICK n \in Nat : n = m + IF e = 0 THEN 0 ELSE p
  OBVIOUS
<1> QED
  BY <1>2, <1>3

\* The numbers of an exponent end where those of the next begin.
LEMMA MagBelow ==
  ASSUME NEW e \in Nat, NEW m \in Nat, NEW k \in Nat, NEW s \in Nat, m < Pow2[k]
  PROVE  /\ Pow2[k] * Pow2[e + s] \in Nat
         /\ Mag(e, m, k, s) + Gap(e, s) <= Pow2[k] * Pow2[e + s]
         /\ m + 1 = Pow2[k] => Mag(e, m, k, s) + Gap(e, s) = Pow2[k] * Pow2[e + s]
<1>1. PICK p \in Nat, g \in Nat : p = Pow2[k] /\ g = Pow2[Place(e) + s]
  BY PlaceIsNat, Pow2IsNat DEF Gap
<1>2. CASE e = 0
  <2>1. Mag(e, m, k, s) = m * g /\ Gap(e, s) = g
    BY <1>1, <1>2 DEF Mag, Gap
  <2>2. Pow2[e + s] = g
    BY <1>1, <1>2 DEF Place
  <2>3. p * g \in Nat /\ m * g + g = (m + 1) * g
    OBVIOUS
  <2>4. m + 1 <= p
    BY <1>1
  <2>5. (m + 1) * g <= p * g
    BY <2>4
  <2> QED
    BY <1>1, <2>1, <2>2, <2>3, <2>5
<1>3. CASE e # 0
  <2>1. Mag(e, m, k, s) = (m + p) * g /\ Gap(e, s) = g
    BY <1>1, <1>3 DEF Mag, Gap
  <2>2. Pow2[e + s] = 2 * g
    <3>1. e - 1 + s \in Nat /\ (e - 1 + s) + 1 = e + s /\ Place(e) = e - 1
      BY <1>3 DEF Place
    <3> QED
      BY <1>1, <3>1, Pow2Next
  <2>3. p * (2 * g) \in Nat /\ (m + p) * g + g = (m + 1 + p) * g /\ p * (2 * g) = (p + p) * g
    OBVIOUS
  <2>4. m + 1 + p <= p + p
    BY <1>1
  <2>5. (m + 1 + p) * g <= (p + p) * g
    <3>1. \A a, b \in Nat : a <= b => a * g <= b * g
      OBVIOUS
    <3> QED
      BY <2>4, <3>1
  <2> QED
    BY <1>1, <2>1, <2>2, <2>3, <2>5
<1> QED
  BY <1>2, <1>3

LEMMA MagFrom ==
  ASSUME NEW e \in Nat, NEW m \in Nat, NEW k \in Nat, NEW s \in Nat, e # 0
  PROVE  Pow2[k] * Pow2[e - 1 + s] <= Mag(e, m, k, s)
<1>1. PICK p \in Nat, g \in Nat : p = Pow2[k] /\ g = Pow2[Place(e) + s]
  BY PlaceIsNat, Pow2IsNat DEF Gap
<1>2. Mag(e, m, k, s) = (m + p) * g /\ Place(e) = e - 1
  BY <1>1 DEF Mag, Place
<1>3. (m + p) * g = m * g + p * g /\ m * g \in Nat /\ p * g \in Nat
  OBVIOUS
<1> QED
  BY <1>1, <1>2, <1>3

LEMMA MagLess ==
  ASSUME NEW k \in Nat, NEW s \in Nat, NEW e \in Nat, NEW m \in Nat, m < Pow2[k],
         NEW d \in Nat, NEW n \in Nat, e < d
  PROVE  Mag(e, m, k, s) + Gap(e, s) <= Mag(d, n, k, s) /\ Mag(e, m, k, s) <= Mag(d, n, k, s)
<1>1. PICK M \in Nat, N \in Nat, U \in Nat : M = Mag(e, m, k, s) /\ N = Mag(d, n, k, s) /\ U = Gap(e, s)
  BY MagIsNat, PlaceIsNat
<1>2. e + s \in Nat /\ d - 1 + s \in Nat /\ e + s <= d - 1 + s /\ d # 0
  OBVIOUS
<1>3. PICK p \in Nat, x \in Nat, y \in Nat : p = Pow2[k] /\ x = Pow2[e + s] /\ y = Pow2[d - 1 + s]
  BY <1>2, Pow2IsNat
<1>4. x <= y
  BY <1>2, <1>3, Pow2Grows
<1>5. p * x <= p * y /\ p * x \in Nat /\ p * y \in Nat
  BY <1>4
<1>6. M + U <= p * x
  BY <1>1, <1>3, MagBelow
<1>7. p * y <= N
  BY <1>1, <1>2, <1>3, MagFrom
<1> QED
  BY <1>1, <1>5, <1>6, <1>7

\* No number is between one and the next.
LEMMA MagApart ==
  ASSUME NEW k \in Nat, NEW s \in Nat, NEW e \in Nat, NEW m \in Nat, m < Pow2[k],
         NEW d \in Nat, NEW n \in Nat, n < Pow2[k]
  PROVE  Mag(d, n, k, s) <= Mag(e, m, k, s) \/ Mag(e, m, k, s) + Gap(e, s) <= Mag(d, n, k, s)
<1> DEFINE M == Mag(e, m, k, s)
           N == Mag(d, n, k, s)
<1>3. CASE d < e
  BY <1>3, MagLess
<1>4. CASE e < d
  BY <1>4, MagLess
<1>5. CASE e = d
  <2>1. PICK p \in Nat, g \in Nat : p = Pow2[k] /\ g = Pow2[Place(e) + s]
    BY PlaceIsNat, Pow2IsNat DEF Gap
  <2>2. PICK b \in Nat : b = IF e = 0 THEN 0 ELSE p
    OBVIOUS
  <2>3. M = (m + b) * g /\ N = (n + b) * g /\ Gap(e, s) = g
    BY <1>5, <2>1, <2>2 DEF Mag, Gap
  <2>4. \A x, y \in Nat : x <= y => x * g <= y * g
    OBVIOUS
  <2>5. CASE n <= m
    <3>1. n + b <= m + b /\ n + b \in Nat /\ m + b \in Nat
      BY <2>5
    <3> QED
      BY <2>3, <2>4, <3>1
  <2>6. CASE m < n
    <3>1. m + 1 + b <= n + b /\ n + b \in Nat /\ m + 1 + b \in Nat
      BY <2>6
    <3>2. (m + 1 + b) * g = (m + b) * g + g
      OBVIOUS
    <3> QED
      BY <2>3, <2>4, <3>1, <3>2
  <2> QED
    BY <2>5, <2>6
<1> QED
  BY <1>3, <1>4, <1>5

\* What is between two numbers is rounded to the nearer one.
LEMMA NearerOfTwo ==
  ASSUME NEW M \in Nat, NEW U \in Nat, NEW R \in Nat, R <= U,
         NEW Y, (Y = M /\ 2 * R <= U) \/ (Y = M + U /\ U <= 2 * R),
         NEW Z \in Nat, Z <= M \/ M + U <= Z
  PROVE  Distance(Y, M + R) <= Distance(Z, M + R)
BY DEF Distance

Scale(h, f) == (Bias(f) + f.mant) - (Bias(h) + h.mant)

LEMMA BiasIsNat ==
  ASSUME NEW f, IsFormat(f)
  PROVE  /\ Bias(f) \in Nat /\ Top(f) \in Nat \ {0} /\ f.mant \in Nat
         /\ Top(f) = 2 * Bias(f) + 1 /\ Pow2[f.mant] \in Nat /\ Pow2[f.mant] # 0
<1>1. f.exp \in Nat /\ f.exp # 0 /\ f.mant \in Nat
  BY DEF IsFormat
<1>2. f.exp - 1 \in Nat /\ (f.exp - 1) + 1 = f.exp
  BY <1>1
<1>3. PICK p \in Nat : p # 0 /\ p = Pow2[f.exp - 1] /\ Pow2[f.exp] = 2 * p
  BY <1>2, Pow2IsNat, Pow2Next
<1>4. Bias(f) = p - 1 /\ Top(f) = 2 * p - 1
  BY <1>3 DEF Bias, Top
<1> QED
  BY <1>1, <1>3, <1>4, Pow2IsNat

\* What narrowing removes: d of the bias and c bits of the mantissa.
LEMMA NarrowsBy ==
  ASSUME NEW f, NEW h, Narrows(f, h)
  PROVE  /\ IsFormat(f) /\ IsFormat(h)
         /\ \E d \in Nat, c \in Nat : /\ d = Bias(f) - Bias(h) /\ c = f.mant - h.mant /\ c # 0
                                      /\ Bias(f) = Bias(h) + d /\ f.mant = h.mant + c
                                      /\ Scale(h, f) = d + c /\ (f.exp = h.exp => d = 0)
                                      /\ (f.exp # h.exp => h.mant < d)
<1>1. IsFormat(f) /\ IsFormat(h) /\ h.mant < f.mant /\ (f.exp = h.exp \/ h.mant < Bias(f) - Bias(h))
  BY DEF Narrows
<1>2. PICK a \in Nat, b \in Nat, m \in Nat, n \in Nat : a = Bias(f) /\ b = Bias(h) /\ m = f.mant /\ n = h.mant
  BY <1>1, BiasIsNat
<1>3. f.exp = h.exp => a = b
  BY <1>2 DEF Bias
<1>4. a - b \in Nat /\ m - n \in Nat /\ m - n # 0 /\ (f.exp # h.exp => n < a - b)
  BY <1>1, <1>2, <1>3
<1>5. a = b + (a - b) /\ m = n + (m - n) /\ (a + m) - (b + n) = (a - b) + (m - n)
  BY <1>2
<1> QED
  BY <1>1, <1>2, <1>3, <1>4, <1>5 DEF Scale

LEMMA MagnitudeIs ==
  ASSUME NEW g, IsFormat(g), NEW f, NEW x, Scale(g, f) \in Nat, x.exp \in Nat, x.mant \in Nat
  PROVE  Magnitude(x, g, f) = Mag(x.exp, x.mant, g.mant, Scale(g, f))
BY DEF Magnitude, Mag, Place, Scale

LEMMA OwnMagnitude ==
  ASSUME NEW f, IsFormat(f), NEW x, x.exp \in Nat, x.mant \in Nat
  PROVE  Magnitude(x, f, f) = Mag(x.exp, x.mant, f.mant, 0) /\ Magnitude(x, f, f) \in Nat
<1>1. Scale(f, f) = 0
  BY BiasIsNat DEF Scale
<1>2. Magnitude(x, f, f) = Mag(x.exp, x.mant, f.mant, 0)
  BY <1>1, MagnitudeIs
<1>3. f.mant \in Nat /\ 0 \in Nat
  BY BiasIsNat
<1>4. Mag(x.exp, x.mant, f.mant, 0) \in Nat
  BY <1>3, MagIsNat
<1> QED
  BY <1>2, <1>4

LEMMA NumberFields ==
  ASSUME NEW f, IsFormat(f), NEW x \in Numbers(f)
  PROVE  x.exp \in Nat /\ x.exp <= Top(f) /\ x.mant \in Nat /\ x.mant < Pow2[f.mant] /\ x.sign \in {0, 1}
         /\ x = Number(x.sign, x.exp, x.mant)
<1>1. PICK t \in Nat, p \in Nat : t = Top(f) /\ p = Pow2[f.mant]
  BY BiasIsNat
<1>2. x \in [sign : {0, 1}, exp : 0..t, mant : 0..(p - 1)]
  BY <1>1 DEF Numbers
<1> QED
  BY <1>1, <1>2 DEF Number

\* x is R more than the number e, m of h; what is rounded to the nearer of it and the next is nearest.
Above(x, f, h, e, m, R) ==
  /\ m < Pow2[h.mant] /\ Magnitude(x, f, f) = Mag(e, m, h.mant, Scale(h, f)) + R
  /\ R <= Gap(e, Scale(h, f))
Rounds(e, m, R, d, n, f, h) ==
  \/ d = e /\ n = m /\ 2 * R <= Gap(e, Scale(h, f))
  \/ /\ Gap(e, Scale(h, f)) <= 2 * R
     /\ IF m + 1 = Pow2[h.mant] THEN d = e + 1 /\ n = 0 ELSE d = e /\ n = m + 1

LEMMA RoundedIsNearest ==
  ASSUME NEW f, NEW h, Narrows(f, h), NEW x \in Numbers(f),
         NEW e \in Nat, NEW m \in Nat, NEW R \in Nat, Above(x, f, h, e, m, R),
         NEW d \in Nat, NEW n \in Nat, Rounds(e, m, R, d, n, f, h)
  PROVE  IsNearest(x, f, Number(x.sign, d, n), h)
<1> DEFINE y == Number(x.sign, d, n)
           k == h.mant
           s == Scale(h, f)
           M == Mag(e, m, k, s)
           U == Gap(e, s)
<1> USE DEF Above, Rounds
<1>1. IsFormat(h) /\ k \in Nat /\ s \in Nat
  BY NarrowsBy, BiasIsNat
<1>2. M \in Nat /\ U \in Nat /\ Pow2[k] \in Nat
  BY <1>1, MagIsNat, PlaceIsNat, Pow2IsNat
<1>3. y.sign = x.sign /\ y.exp = d /\ y.mant = n
  BY DEF Number
<1>4. Magnitude(y, h, f) = Mag(d, n, k, s)
  BY <1>1, <1>3, MagnitudeIs
<1>5. \/ Mag(d, n, k, s) = M /\ 2 * R <= U
      \/ Mag(d, n, k, s) = M + U /\ U <= 2 * R
  <2>1. CASE d = e /\ n = m /\ 2 * R <= U
    BY <2>1
  <2>2. CASE U <= 2 * R /\ m + 1 = Pow2[k] /\ d = e + 1 /\ n = 0
    <3>1. M + U = Pow2[k] * Pow2[e + s]
      <4> HIDE DEF k, s
      <4> QED
        BY <1>1, <2>2, MagBelow
    <3>2. e + 1 # 0 /\ Place(e + 1) = e
      BY DEF Place
    <3>3. Mag(e + 1, 0, k, s) = (0 + Pow2[k]) * Pow2[e + s]
      BY <3>2 DEF Mag
    <3> HIDE DEF k, s
    <3> QED
      BY <1>2, <2>2, <3>1, <3>3
  <2>3. CASE U <= 2 * R /\ d = e /\ n = m + 1
    <3>1. PICK p \in Nat, g \in Nat : p = Pow2[k] /\ g = Pow2[Place(e) + s]
      BY <1>1, PlaceIsNat, Pow2IsNat DEF Gap
    <3>2. PICK b \in Nat : b = IF e = 0 THEN 0 ELSE p
      OBVIOUS
    <3>3. Mag(e, m + 1, k, s) = (m + 1 + b) * g /\ M = (m + b) * g /\ U = g
      BY <3>1, <3>2 DEF Mag, Gap
    <3>4. (m + 1 + b) * g = (m + b) * g + g
      OBVIOUS
    <3> QED
      BY <2>3, <3>3, <3>4
  <2> QED
    BY <2>1, <2>2, <2>3
<1>6. ASSUME NEW z \in Numbers(h)
      PROVE  Distance(Magnitude(y, h, f), Magnitude(x, f, f)) <= Distance(Magnitude(z, h, f), Magnitude(x, f, f))
  <2>1. z.exp \in Nat /\ z.mant \in Nat /\ z.mant < Pow2[k]
    BY <1>1, NumberFields
  <2>2. PICK Z \in Nat : Z = Mag(z.exp, z.mant, k, s) /\ Z = Magnitude(z, h, f)
    BY <1>1, <2>1, MagnitudeIs, MagIsNat
  <2>3. Z <= M \/ M + U <= Z
    <3>1. m < Pow2[k]
      OBVIOUS
    <3> HIDE DEF k, s
    <3>2. Mag(z.exp, z.mant, k, s) <= Mag(e, m, k, s) \/ Mag(e, m, k, s) + Gap(e, s) <= Mag(z.exp, z.mant, k, s)
      BY <1>1, <2>1, <3>1, MagApart
    <3> QED
      BY <2>2, <3>2
  <2>4. PICK Y : Y = Mag(d, n, k, s)
    OBVIOUS
  <2>5. Magnitude(x, f, f) = M + R /\ R <= U
    OBVIOUS
  <2> HIDE DEF M, U, k, s, y
  <2>6. Distance(Y, M + R) <= Distance(Z, M + R)
    BY <1>2, <1>5, <2>3, <2>4, <2>5, NearerOfTwo
  <2> QED
    BY <1>4, <2>2, <2>4, <2>5, <2>6
<1> QED
  BY <1>3, <1>6 DEF IsNearest

\* What is beyond the largest number is nearest to infinity, one step past it.
LEMMA InfinityIsNearest ==
  ASSUME NEW f, NEW h, Narrows(f, h), NEW x,
         Magnitude(x, f, f) \in Nat, Mag(Top(h), 0, h.mant, Scale(h, f)) <= Magnitude(x, f, f)
  PROVE  IsNearest(x, f, Infinity(x.sign, h), h)
<1> DEFINE y == Infinity(x.sign, h)
           k == h.mant
           s == Scale(h, f)
<1>1. IsFormat(h) /\ k \in Nat /\ s \in Nat /\ Top(h) \in Nat /\ 0 \in Nat
  BY NarrowsBy, BiasIsNat
<1>2. y.sign = x.sign /\ y.exp = Top(h) /\ y.mant = 0
  BY DEF Infinity, Number
<1>3. PICK X \in Nat, Y \in Nat : X = Magnitude(x, f, f) /\ Y = Mag(Top(h), 0, k, s)
  <2> HIDE DEF k, s
  <2> QED
    BY <1>1, MagIsNat
<1>4. Magnitude(y, h, f) = Y
  BY <1>1, <1>2, <1>3, MagnitudeIs
<1>5. Y <= X
  BY <1>3
<1>6. ASSUME NEW z \in Numbers(h), ~IsNan(z, h)
      PROVE  Distance(Magnitude(y, h, f), Magnitude(x, f, f)) <= Distance(Magnitude(z, h, f), Magnitude(x, f, f))
  <2>1. z.exp \in Nat /\ z.exp <= Top(h) /\ z.mant \in Nat /\ z.mant < Pow2[k]
    BY <1>1, NumberFields
  <2>2. PICK Z \in Nat : Z = Mag(z.exp, z.mant, k, s) /\ Z = Magnitude(z, h, f)
    BY <1>1, <2>1, MagnitudeIs, MagIsNat
  <2>3. Z <= Y
    <3>1. CASE z.exp = Top(h)
      <4>1. z.mant = 0
        BY <1>6, <3>1 DEF IsNan
      <4>2. Z = Y
        BY <1>3, <2>2, <3>1, <4>1
      <4> QED
        BY <4>2
    <3>2. CASE z.exp < Top(h)
      <4> HIDE DEF k, s
      <4>1. Mag(z.exp, z.mant, k, s) <= Mag(Top(h), 0, k, s)
        BY <1>1, <2>1, <3>2, MagLess
      <4> QED
        BY <1>3, <2>2, <4>1
    <3> QED
      BY <1>1, <2>1, <3>1, <3>2
  <2>4. Distance(Y, X) <= Distance(Z, X)
    BY <1>5, <2>3 DEF Distance
  <2> QED
    BY <1>3, <1>4, <2>2, <2>4
<1> QED
  BY <1>2, <1>6 DEF IsNearest

\* The mantissa's upper bits, and what the lower ones are worth.
SplitBy(e, d, k, c, q, r) ==
  \E g \in Nat : /\ Mag(e + d, q * Pow2[c] + r, k + c, 0) = Mag(e, q, k, d + c) + r * g
                 /\ Gap(e, d + c) = Pow2[c] * g

LEMMA MagSplit ==
  ASSUME NEW e \in Nat, NEW d \in Nat, e # 0 \/ d = 0, NEW k \in Nat, NEW c \in Nat,
         NEW q \in Nat, NEW r \in Nat
  PROVE  SplitBy(e, d, k, c, q, r)
<1>1. Place(e) \in Nat /\ Place(e + d) = Place(e) + d /\ (e + d = 0 <=> e = 0)
  BY DEF Place
<1>2. Place(e) + d \in Nat /\ Place(e + d) + 0 = Place(e) + d /\ Place(e) + (d + c) = (Place(e) + d) + c
  BY <1>1
<1>3. PICK g \in Nat, p \in Nat, t \in Nat : g = Pow2[Place(e) + d] /\ p = Pow2[k] /\ t = Pow2[c]
  BY <1>2, Pow2IsNat
<1>4. Pow2[k + c] = p * t /\ Pow2[(Place(e) + d) + c] = g * t
  BY <1>2, <1>3, Pow2Sum
<1>5. PICK b \in Nat : b = IF e = 0 THEN 0 ELSE p
  OBVIOUS
<1>6. Mag(e, q, k, d + c) = (q + b) * (g * t) /\ Gap(e, d + c) = g * t
  BY <1>2, <1>3, <1>4, <1>5 DEF Mag, Gap
<1>7. Mag(e + d, q * t + r, k + c, 0) = (q * t + r + b * t) * g
  <2>1. (IF e + d = 0 THEN 0 ELSE Pow2[k + c]) = b * t
    BY <1>1, <1>4, <1>5
  <2> QED
    BY <1>1, <1>2, <1>3, <2>1 DEF Mag
<1>8. (q * t + r + b * t) * g = (q + b) * (g * t) + r * g /\ g * t = t * g
  OBVIOUS
<1> QED
  BY <1>3, <1>6, <1>7, <1>8 DEF SplitBy

\* Dividing by 2^c: upper and lower bits.
LEMMA Halved ==
  ASSUME NEW c \in Nat, c # 0
  PROVE  \E t \in Nat : t # 0 /\ t = Pow2[c - 1] /\ Pow2[c] = 2 * t
<1>1. c - 1 \in Nat /\ (c - 1) + 1 = c
  OBVIOUS
<1> QED
  BY <1>1, Pow2IsNat, Pow2Next

LEMMA Divided ==
  ASSUME NEW m \in Nat, NEW b \in Nat, b # 0
  PROVE  \E q \in Nat, r \in Nat : q = m \div b /\ r = m % b /\ m = q * b + r /\ r < b
<1>1. b > 0
  OBVIOUS
<1> QED
  BY <1>1

LEMMA PackedIs ==
  ASSUME NEW f, IsFormat(f), NEW s, NEW e \in Nat, NEW m \in Nat, m < Pow2[f.mant]
  PROVE  Packed(s, e * Pow2[f.mant] + m, f) = Number(s, e, m)
BY BiasIsNat, MultipleDivides DEF Packed

LEMMA PackedNext ==
  ASSUME NEW f, IsFormat(f), NEW s, NEW e \in Nat, NEW m \in Nat, m + 1 = Pow2[f.mant]
  PROVE  Packed(s, e * Pow2[f.mant] + m + 1, f) = Number(s, e + 1, 0)
<1>1. PICK p \in Nat : p = Pow2[f.mant] /\ p # 0
  BY BiasIsNat
<1>2. e * p + m + 1 = (e + 1) * p + 0 /\ e + 1 \in Nat /\ 0 \in Nat
  <2>1. PICK v \in Nat, w \in Nat : v = e * p /\ w = (e + 1) * p
    OBVIOUS
  <2>2. w = v + p
    BY <2>1
  <2>3. m + 1 = p
    BY <1>1
  <2>4. v + m + 1 = w + 0
    BY <2>2, <2>3
  <2> QED
    BY <2>1, <2>4
<1>3. PICK d \in Nat, z \in Nat : d = e + 1 /\ z = 0
  OBVIOUS
<1>4. Packed(s, d * Pow2[f.mant] + z, f) = Number(s, d, z)
  <2>1. z < Pow2[f.mant]
    BY <1>1, <1>3
  <2> QED
    BY <2>1, PackedIs
<1>5. e * Pow2[f.mant] + m + 1 = d * Pow2[f.mant] + z
  BY <1>1, <1>2, <1>3
<1> QED
  BY <1>3, <1>4, <1>5

\* Rounding to a multiple of 2t by adding half of it, less one if the result is even.
RoundedSum(low, t) == (low + t - 1 + ((low \div (2 * t)) % 2)) \div (2 * t)

Splits(low, q, t, r) == t # 0 /\ r < 2 * t /\ low = q * (2 * t) + r

LEMMA BfloatSum ==
  ASSUME NEW q \in Nat, NEW r \in Nat, NEW t \in Nat, NEW low, Splits(low, q, t, r)
  PROVE  (RoundedSum(low, t) = q /\ r <= t) \/ (RoundedSum(low, t) = q + 1 /\ r >= t)
<1>1. PICK b \in Nat : b = 2 * t /\ b # 0 /\ t # 0 /\ r < 2 * t /\ low = q * (2 * t) + r
  BY DEF Splits
<1>2. low \div b = q
  BY <1>1, MultipleDivides
<1>3. PICK l \in {0, 1} : l = q % 2
  OBVIOUS
<1>4. CASE r + t - 1 + l < b
  <2>1. PICK u \in Nat : u = r + t - 1 + l
    BY <1>1
  <2>2. (q * b + u) \div b = q
    BY <1>1, <1>4, <2>1, MultipleDivides
  <2>3. low + t - 1 + l = q * b + u
    <3>1. PICK v \in Nat : v = q * b
      OBVIOUS
    <3> QED
      BY <1>1, <2>1, <3>1
  <2>4. r <= t
    BY <1>1, <1>4
  <2>5. RoundedSum(low, t) = (low + t - 1 + l) \div b
    BY <1>1, <1>2, <1>3 DEF RoundedSum
  <2> QED
    BY <2>2, <2>3, <2>4, <2>5
<1>5. CASE r + t - 1 + l >= b
  <2>1. PICK u \in Nat : u = r + t - 1 + l - b /\ u < b
    BY <1>1, <1>5
  <2>2. ((q + 1) * b + u) \div b = q + 1
    <3>1. q + 1 \in Nat
      OBVIOUS
    <3> QED
      BY <1>1, <2>1, <3>1, MultipleDivides
  <2>3. low + t - 1 + l = (q + 1) * b + u
    <3>1. PICK v \in Nat : v = q * b
      OBVIOUS
    <3>2. (q + 1) * b = v + b
      BY <3>1
    <3> QED
      BY <1>1, <2>1, <3>1, <3>2
  <2>4. r >= t
    BY <1>1, <1>5
  <2>5. RoundedSum(low, t) = (low + t - 1 + l) \div b
    BY <1>1, <1>2, <1>3 DEF RoundedSum
  <2> QED
    BY <2>2, <2>3, <2>4, <2>5
<1> QED
  BY <1>1, <1>4, <1>5

\* q and r are the upper bits and the c lower ones of the mantissa of x.
InBits(x, c, q, r) == x.mant = q * Pow2[c] + r /\ r < Pow2[c]

\* y is the upper bits of x, or the next number up.
RoundsTo(x, y, h, e, c, q, r) ==
  \/ y = Number(x.sign, e, q) /\ 2 * r <= Pow2[c]
  \/ /\ y = IF q + 1 = Pow2[h.mant] THEN Number(x.sign, e + 1, 0) ELSE Number(x.sign, e, q + 1)
     /\ Pow2[c] <= 2 * r

LEMMA BfloatCode ==
  ASSUME NEW f, NEW b, Narrows(f, b), f.exp = b.exp, NEW x \in Numbers(f), ~IsNan(x, f),
         NEW c \in Nat, c = f.mant - b.mant,
         NEW q \in Nat, NEW r \in Nat, InBits(x, c, q, r)
  PROVE  RoundsTo(x, FloatToBfloat16(x, f, b), b, x.exp, c, q, r)
<1>0. x.mant = q * Pow2[c] + r /\ r < Pow2[c]
  BY DEF InBits
<1>1. IsFormat(f) /\ IsFormat(b) /\ c # 0 /\ f.mant = b.mant + c
  BY NarrowsBy
<1>2. PICK t \in Nat : t # 0 /\ t = Pow2[c - 1] /\ Pow2[c] = 2 * t
  BY <1>1, Halved
<1>3. PICK p \in Nat : p # 0 /\ p = Pow2[b.mant] /\ Pow2[f.mant] = p * (2 * t)
  <2>1. PICK k \in Nat : k = b.mant
    BY <1>1, BiasIsNat
  <2>2. PICK p \in Nat : p # 0 /\ p = Pow2[k]
    BY Pow2IsNat
  <2>3. Pow2[k + c] = Pow2[k] * Pow2[c]
    BY Pow2Sum
  <2> QED
    BY <1>1, <1>2, <2>1, <2>2, <2>3
<1>4. PICK e \in Nat : e = x.exp
  BY <1>1, NumberFields
<1>5. x.sign \in {0, 1} /\ e <= Top(f) /\ x.mant \in Nat /\ x.mant < p * (2 * t)
  BY <1>1, <1>3, <1>4, NumberFields
<1>6. q < p
  <2> SUFFICES ASSUME p <= q PROVE FALSE
    OBVIOUS
  <2>1. \A u \in Nat : p * u <= q * u
    OBVIOUS
  <2>2. p * (2 * t) <= q * (2 * t) /\ p * (2 * t) \in Nat /\ q * (2 * t) \in Nat
    BY <2>1
  <2> QED
    BY <1>0, <1>2, <1>5, <2>2
<1>7. PICK n \in Nat : n = e * p + q
  OBVIOUS
<1>8. PICK low : low = x.exp * Pow2[f.mant] + x.mant /\ low = n * (2 * t) + r
  <2>1. x.exp * Pow2[f.mant] + x.mant = e * (p * (2 * t)) + (q * (2 * t) + r)
    BY <1>0, <1>2, <1>3, <1>4
  <2>2. e * (p * (2 * t)) + (q * (2 * t) + r) = (e * p + q) * (2 * t) + r
    OBVIOUS
  <2> QED
    BY <1>7, <2>1, <2>2
<1> DEFINE sum == RoundedSum(low, t)
<1>9. (sum = n /\ r <= t) \/ (sum = n + 1 /\ r >= t)
  <2>1. Splits(low, n, t, r)
    BY <1>0, <1>2, <1>8 DEF Splits
  <2> QED
    BY <2>1, BfloatSum
<1>10. PICK a \in Nat : a = Pow2[b.exp + b.mant] /\ a = (Top(b) + 1) * p
  <2>1. b.exp \in Nat /\ b.mant \in Nat /\ Top(b) = Pow2[b.exp] - 1 /\ Pow2[b.exp] \in Nat
    BY <1>1, Pow2IsNat DEF IsFormat, Top
  <2>2. Pow2[b.exp + b.mant] = Pow2[b.exp] * p
    BY <1>3, <2>1, Pow2Sum
  <2> QED
    BY <2>1, <2>2
<1>11. Top(b) = Top(f) /\ Top(b) \in Nat
  BY <1>1, BiasIsNat DEF Top
<1>12. e = Top(b) => r = 0 /\ q = 0
  <2> SUFFICES ASSUME e = Top(b) PROVE r = 0 /\ q = 0
    OBVIOUS
  <2>1. x.mant = 0
    BY <1>4, <1>11 DEF IsNan
  <2>2. q * (2 * t) \in Nat /\ q * (2 * t) + r = 0
    BY <1>0, <1>2, <2>1
  <2>3. r = 0 /\ q * (2 * t) = 0
    BY <2>2
  <2>4. q >= 1 => q * (2 * t) >= 2 * t
    OBVIOUS
  <2> QED
    BY <1>2, <2>3, <2>4
<1>13. e < Top(b) => n + 1 < a
  <2> SUFFICES ASSUME e < Top(b) PROVE n + 1 < a
    OBVIOUS
  <2>1. e * p + p = (e + 1) * p /\ e * p \in Nat /\ Top(b) * p \in Nat /\ (Top(b) + 1) * p = Top(b) * p + p
    BY <1>11
  <2>2. e + 1 <= Top(b)
    BY <1>11
  <2>3. (e + 1) * p <= Top(b) * p
    <3>1. \A u, v \in Nat : u <= v => u * p <= v * p
      OBVIOUS
    <3> QED
      BY <1>11, <2>2, <3>1
  <2> QED
    BY <1>6, <1>7, <1>10, <2>1, <2>3, <1>3
<1>14. n < a
  <2>1. CASE e = Top(b)
    <3>1. n = Top(b) * p /\ Top(b) * p \in Nat /\ (Top(b) + 1) * p = Top(b) * p + p
      BY <1>7, <1>11, <1>12, <2>1
    <3> QED
      BY <1>3, <1>10, <3>1
  <2> QED
    BY <1>5, <1>11, <1>13, <2>1
<1>15. FloatToBfloat16(x, f, b) = Packed((x.sign + sum \div a) % 2, sum % a, b)
  BY <1>2, <1>8, <1>10 DEF FloatToBfloat16, RoundedSum
<1>16. ASSUME NEW u \in Nat, u < a, sum = u PROVE FloatToBfloat16(x, f, b) = Packed(x.sign, u, b)
  <2>1. a > 0 /\ u \div a = 0 /\ u % a = u
    BY <1>16
  <2>2. (x.sign + 0) % 2 = x.sign
    BY <1>5
  <2> HIDE DEF sum
  <2> QED
    BY <1>15, <1>16, <2>1, <2>2
<1> HIDE DEF sum
<1>17. CASE sum = n /\ r <= t
  <2>1. FloatToBfloat16(x, f, b) = Packed(x.sign, n, b)
    BY <1>14, <1>16, <1>17
  <2>2. Packed(x.sign, n, b) = Number(x.sign, e, q)
    BY <1>1, <1>3, <1>6, <1>7, PackedIs
  <2> QED
    BY <1>2, <1>4, <1>17, <2>1, <2>2 DEF RoundsTo
<1>18. CASE sum = n + 1 /\ r >= t
  <2>1. e < Top(b)
    BY <1>2, <1>5, <1>11, <1>12, <1>18
  <2>2. FloatToBfloat16(x, f, b) = Packed(x.sign, n + 1, b)
    BY <1>13, <1>16, <1>18, <2>1
  <2>3. CASE q + 1 = p
    <3>1. Packed(x.sign, n + 1, b) = Number(x.sign, e + 1, 0)
      BY <1>1, <1>3, <1>7, <2>3, PackedNext
    <3> QED
      BY <1>2, <1>3, <1>4, <1>18, <2>2, <2>3, <3>1 DEF RoundsTo
  <2>4. CASE q + 1 # p
    <3>1. q + 1 < p /\ n + 1 = e * p + (q + 1) /\ q + 1 \in Nat
      <4>1. PICK v \in Nat : v = e * p
        OBVIOUS
      <4> QED
        BY <1>6, <1>7, <2>4, <4>1
    <3>2. Packed(x.sign, n + 1, b) = Number(x.sign, e, q + 1)
      BY <1>1, <1>3, <3>1, PackedIs
    <3> QED
      BY <1>2, <1>3, <1>4, <1>18, <2>2, <2>4, <3>2 DEF RoundsTo
  <2> QED
    BY <2>3, <2>4
<1> QED
  BY <1>9, <1>17, <1>18

LEMMA Halves ==
  ASSUME NEW r \in Nat, NEW t \in Nat, NEW g \in Nat, r <= t
  PROVE  /\ r * g \in Nat /\ t * g \in Nat /\ r * g <= t * g
         /\ 2 * r <= t => 2 * (r * g) <= t * g
         /\ t <= 2 * r => t * g <= 2 * (r * g)
<1>1. \A a, b \in Nat : a <= b => a * g <= b * g
  OBVIOUS
<1>2. 2 * (r * g) = (2 * r) * g /\ 2 * r \in Nat
  OBVIOUS
<1> QED
  BY <1>1, <1>2

\* x is the number e, q of h and r of the 2^c parts of the way to the next one.
Worth(x, f, h, e, c, q, r) ==
  /\ r < Pow2[c] /\ q < Pow2[h.mant]
  /\ \E g \in Nat : /\ Magnitude(x, f, f) = Mag(e, q, h.mant, Scale(h, f)) + r * g
                   /\ Gap(e, Scale(h, f)) = Pow2[c] * g

LEMMA RoundsToNearest ==
  ASSUME NEW f, NEW h, Narrows(f, h), NEW x \in Numbers(f), NEW c \in Nat,
         NEW e \in Nat, NEW q \in Nat, NEW r \in Nat, Worth(x, f, h, e, c, q, r),
         NEW y, RoundsTo(x, y, h, e, c, q, r)
  PROVE  IsNearest(x, f, y, h)
<1>1. PICK t \in Nat : t = Pow2[c] /\ r <= t /\ q < Pow2[h.mant]
  BY Pow2IsNat DEF Worth
<1>2. PICK g \in Nat : /\ Magnitude(x, f, f) = Mag(e, q, h.mant, Scale(h, f)) + r * g
                       /\ Gap(e, Scale(h, f)) = t * g
  BY <1>1 DEF Worth
<1>3. /\ r * g \in Nat /\ r * g <= t * g
      /\ 2 * r <= t => 2 * (r * g) <= t * g
      /\ t <= 2 * r => t * g <= 2 * (r * g)
  BY <1>1, Halves
<1>4. PICK R \in Nat : R = r * g
  BY <1>3
<1>5. /\ Magnitude(x, f, f) = Mag(e, q, h.mant, Scale(h, f)) + R /\ R <= Gap(e, Scale(h, f))
      /\ 2 * r <= t => 2 * R <= Gap(e, Scale(h, f))
      /\ t <= 2 * r => Gap(e, Scale(h, f)) <= 2 * R
  BY <1>2, <1>3, <1>4
<1>6. Above(x, f, h, e, q, R)
  BY <1>1, <1>5 DEF Above
<1>7. ASSUME 2 * r <= t PROVE IsNearest(x, f, Number(x.sign, e, q), h)
  <2>1. Rounds(e, q, R, e, q, f, h)
    BY <1>5, <1>7 DEF Rounds
  <2> QED
    BY <1>6, <2>1, RoundedIsNearest
<1>8. ASSUME t <= 2 * r /\ q + 1 = Pow2[h.mant] PROVE IsNearest(x, f, Number(x.sign, e + 1, 0), h)
  <2>1. e + 1 \in Nat /\ 0 \in Nat
    OBVIOUS
  <2>2. Rounds(e, q, R, e + 1, 0, f, h)
    BY <1>5, <1>8 DEF Rounds
  <2> QED
    BY <1>6, <2>1, <2>2, RoundedIsNearest
<1>9. ASSUME t <= 2 * r /\ q + 1 # Pow2[h.mant] PROVE IsNearest(x, f, Number(x.sign, e, q + 1), h)
  <2>1. q + 1 \in Nat
    OBVIOUS
  <2>2. Rounds(e, q, R, e, q + 1, f, h)
    BY <1>5, <1>9 DEF Rounds
  <2> QED
    BY <1>6, <2>1, <2>2, RoundedIsNearest
<1> QED
  BY <1>1, <1>7, <1>8, <1>9 DEF RoundsTo

\* A normal number that narrows to a normal one, and every one that keeps its exponent.
LEMMA SplitIsWorth ==
  ASSUME NEW f, NEW h, Narrows(f, h), NEW x \in Numbers(f), NEW d \in Nat, NEW c \in Nat,
         d = Bias(f) - Bias(h), c = f.mant - h.mant,
         NEW e \in Nat, x.exp = e + d, e # 0 \/ d = 0,
         NEW q \in Nat, NEW r \in Nat, InBits(x, c, q, r), q < Pow2[h.mant]
  PROVE  Worth(x, f, h, e, c, q, r)
<1>1. PICK k \in Nat : k = h.mant /\ f.mant = k + c /\ Scale(h, f) = d + c /\ IsFormat(f) /\ IsFormat(h)
  BY NarrowsBy, BiasIsNat
<1>2. PICK g \in Nat : /\ Mag(e + d, q * Pow2[c] + r, k + c, 0) = Mag(e, q, k, d + c) + r * g
                       /\ Gap(e, d + c) = Pow2[c] * g
  <2>1. SplitBy(e, d, k, c, q, r)
    BY MagSplit
  <2> QED
    BY <2>1 DEF SplitBy
<1>3. Magnitude(x, f, f) = Mag(e, q, h.mant, Scale(h, f)) + r * g
  <2>1. x.exp \in Nat /\ x.mant \in Nat
    BY <1>1, NumberFields
  <2>2. Magnitude(x, f, f) = Mag(x.exp, x.mant, f.mant, 0)
    BY <1>1, <2>1, OwnMagnitude
  <2>3. x.mant = q * Pow2[c] + r
    BY DEF InBits
  <2> QED
    BY <1>1, <1>2, <2>2, <2>3
<1>4. Gap(e, Scale(h, f)) = Pow2[c] * g /\ r < Pow2[c]
  BY <1>1, <1>2 DEF InBits
<1> QED
  BY <1>3, <1>4 DEF Worth

LEMMA MantissaSplits ==
  ASSUME NEW f, NEW h, Narrows(f, h), NEW x \in Numbers(f), NEW c \in Nat, c = f.mant - h.mant
  PROVE  \E q \in Nat, r \in Nat : q = x.mant \div Pow2[c] /\ InBits(x, c, q, r) /\ q < Pow2[h.mant]
<1>0. PICK m \in Nat : m = x.mant /\ m < Pow2[f.mant]
  BY NarrowsBy, NumberFields
<1>1. PICK k \in Nat : k = h.mant /\ f.mant = k + c
  BY NarrowsBy, BiasIsNat
<1>2. PICK t \in Nat, p \in Nat : t = Pow2[c] /\ t # 0 /\ p = Pow2[k]
  BY Pow2IsNat
<1>3. Pow2[f.mant] = p * t
  <2>1. Pow2[k + c] = Pow2[k] * Pow2[c]
    BY Pow2Sum
  <2> QED
    BY <1>1, <1>2, <2>1
<1>4. PICK q \in Nat, r \in Nat : q = m \div t /\ m = q * t + r /\ r < t
  BY <1>2, Divided
<1>5. q < p
  <2> SUFFICES ASSUME p <= q PROVE FALSE
    OBVIOUS
  <2>1. p * t <= q * t /\ p * t \in Nat /\ q * t \in Nat
    BY Halves
  <2> QED
    BY <1>0, <1>3, <1>4, <2>1
<1> QED
  BY <1>0, <1>1, <1>2, <1>4, <1>5 DEF InBits

LEMMA BfloatIsNearest ==
  ASSUME NEW f, NEW b, Narrows(f, b), f.exp = b.exp, NEW x \in Numbers(f), ~IsNan(x, f)
  PROVE  IsNearest(x, f, FloatToBfloat16(x, f, b), b)
<1>1. PICK c \in Nat : c = f.mant - b.mant /\ 0 = Bias(f) - Bias(b) /\ IsFormat(f) /\ IsFormat(b)
  BY NarrowsBy
<1>2. x.mant \in Nat /\ x.mant < Pow2[f.mant] /\ x.exp \in Nat
  BY <1>1, NumberFields
<1>3. PICK q \in Nat, r \in Nat : InBits(x, c, q, r) /\ q < Pow2[b.mant]
  BY <1>1, MantissaSplits
<1>4. PICK e \in Nat : e = x.exp /\ x.exp = e + 0
  BY <1>2
<1>5. Worth(x, f, b, e, c, q, r)
  <2>1. PICK d \in Nat : d = 0
    OBVIOUS
  <2>2. d = Bias(f) - Bias(b) /\ x.exp = e + d
    BY <1>1, <1>4, <2>1
  <2> QED
    BY <1>1, <1>3, <2>1, <2>2, SplitIsWorth
<1>6. RoundsTo(x, FloatToBfloat16(x, f, b), b, x.exp, c, q, r)
  BY <1>1, <1>3, BfloatCode
<1> QED
  BY <1>1, <1>4, <1>5, <1>6, RoundsToNearest

\* A bfloat16 that is widened has no lower bits to round.
LEMMA BfloatReturns ==
  ASSUME NEW f, NEW b, Narrows(f, b), f.exp = b.exp, NEW x \in Numbers(b), ~IsNan(x, b)
  PROVE  FloatToBfloat16(Bfloat16ToFloat(x, b, f), f, b) = x
<1>0. PICK y : y = Bfloat16ToFloat(x, b, f)
  OBVIOUS
<1>1. PICK c \in Nat : c = f.mant - b.mant /\ c # 0 /\ f.mant = b.mant + c /\ IsFormat(f) /\ IsFormat(b)
  BY NarrowsBy
<1>2. /\ x.exp \in Nat /\ x.exp <= Top(b) /\ x.mant \in Nat /\ x.mant < Pow2[b.mant]
      /\ x.sign \in {0, 1} /\ x = Number(x.sign, x.exp, x.mant)
  BY <1>1, NumberFields
<1>3. PICK p \in Nat, t \in Nat : p = Pow2[b.mant] /\ t = Pow2[c] /\ t # 0 /\ Pow2[f.mant] = p * t
  <2>1. PICK k \in Nat : k = b.mant
    BY <1>1, BiasIsNat
  <2>2. Pow2[k + c] = Pow2[k] * Pow2[c]
    BY Pow2Sum
  <2> QED
    BY <1>1, <2>1, <2>2, Pow2IsNat
<1>4. y.sign = x.sign /\ y.exp = x.exp /\ y.mant = x.mant * t /\ y = Number(x.sign, x.exp, x.mant * t)
  BY <1>0, <1>1, <1>3 DEF Bfloat16ToFloat, Number
<1>5. x.mant * t \in Nat /\ x.mant * t < p * t
  <2>1. x.mant + 1 <= p
    BY <1>2, <1>3
  <2>2. (x.mant + 1) * t <= p * t /\ p * t \in Nat
    BY <1>2, <2>1, Halves
  <2>3. (x.mant + 1) * t = x.mant * t + t /\ x.mant * t \in Nat
    BY <1>2
  <2> QED
    BY <1>3, <2>2, <2>3
<1>6. Top(f) = Top(b)
  BY DEF Top
<1>7. y \in Numbers(f)
  <2>1. PICK P \in Nat, T \in Nat : P = p * t /\ T = Top(f)
    <3>1. Top(f) \in Nat
      BY <1>1, BiasIsNat
    <3>2. p * t \in Nat
      OBVIOUS
    <3> QED
      BY <3>1, <3>2
  <2>2. x.exp \in 0..T /\ x.mant * t \in 0..(P - 1)
    BY <1>2, <1>5, <1>6, <2>1
  <2> QED
    BY <1>2, <1>3, <1>4, <2>1, <2>2 DEF Numbers, Number
<1>8. ~IsNan(y, f)
  <2>1. x.exp = Top(b) => x.mant = 0
    BY DEF IsNan
  <2>2. x.mant = 0 => x.mant * t = 0
    OBVIOUS
  <2> QED
    BY <1>4, <1>6, <2>1, <2>2 DEF IsNan
<1>9. y.mant = x.mant * Pow2[c] + 0 /\ 0 < Pow2[c]
  BY <1>3, <1>4, <1>5
<1>10. PICK q \in Nat, r \in Nat : q = x.mant /\ r = 0 /\ InBits(y, c, q, r)
  <2>1. 0 \in Nat /\ InBits(y, c, x.mant, 0)
    BY <1>9 DEF InBits
  <2> QED
    BY <1>2, <2>1
<1>11. RoundsTo(y, FloatToBfloat16(y, f, b), b, y.exp, c, q, r)
  BY <1>1, <1>7, <1>8, <1>10, BfloatCode
<1>12. ~(Pow2[c] <= 2 * r)
  BY <1>3, <1>10
<1> QED
  BY <1>0, <1>2, <1>4, <1>10, <1>11, <1>12 DEF RoundsTo

\* lanxin_float_to_half where the result is a normal number, or one step past them.
LEMMA HalfNormal ==
  ASSUME NEW f, NEW h, Narrows(f, h), NEW x \in Numbers(f), NEW d \in Nat, NEW c \in Nat,
         d = Bias(f) - Bias(h), c = f.mant - h.mant,
         NEW e \in Nat, x.exp = e + d, e # 0, e < Top(h),
         NEW q \in Nat, NEW r \in Nat, InBits(x, c, q, r), q < Pow2[h.mant]
  PROVE  RoundsTo(x, FloatToHalf(x, f, h), h, e, c, q, r)
<1>1. IsFormat(f) /\ IsFormat(h) /\ c # 0 /\ f.mant = h.mant + c /\ Bias(f) = Bias(h) + d
  BY NarrowsBy
<1>2. PICK t \in Nat : t # 0 /\ t = Pow2[c - 1] /\ Pow2[c] = 2 * t
  BY <1>1, Halved
<1>3. PICK p \in Nat, T \in Nat : p # 0 /\ p = Pow2[h.mant] /\ T = Top(h)
  BY <1>1, BiasIsNat
<1>4. Pow2[f.mant] = p * (2 * t)
  <2>1. PICK k \in Nat : k = h.mant
    BY <1>1, BiasIsNat
  <2>2. Pow2[k + c] = Pow2[k] * Pow2[c]
    BY Pow2Sum
  <2> QED
    BY <1>1, <1>2, <1>3, <2>1, <2>2
<1>5. x.mant = q * (2 * t) + r /\ r < 2 * t
  BY <1>2 DEF InBits
<1>6. x.exp - Bias(f) + Bias(h) = e
  <2>1. PICK b \in Nat : b = Bias(h)
    BY <1>1, BiasIsNat
  <2> QED
    BY <1>1, <2>1
<1>7. PICK n \in Int : n = x.mant + t
  BY <1>5
<1>8. FloatToHalf(x, f, h) =
        IF n >= p * (2 * t) /\ e + 1 >= T THEN Infinity(x.sign, h)
        ELSE IF n >= p * (2 * t) THEN Number(x.sign, e + 1, 0)
        ELSE Number(x.sign, e, n \div (2 * t))
  <2>1. ~(e <= 0) /\ ~(e >= T) /\ f.mant - h.mant - 1 = c - 1 /\ f.mant - h.mant = c
    BY <1>3
  <2> QED
    BY <1>2, <1>3, <1>4, <1>6, <1>7, <2>1 DEF FloatToHalf
<1>9. PICK b \in Nat, v \in Nat, w \in Nat : b = 2 * t /\ v = q * b /\ w = p * b /\ b # 0
  BY <1>2
<1>10. CASE r < t
  <2>1. n = v + (r + t) /\ r + t < b /\ 2 * r <= b /\ r + t \in Nat
    BY <1>5, <1>7, <1>9, <1>10
  <2>2. n \div b = q
    <3>1. PICK u \in Nat : u = r + t /\ u < b
      BY <2>1
    <3>2. (q * b + u) \div b = q
      <4>1. b # 0 /\ u < b
        BY <1>9, <3>1
      <4> QED
        BY <4>1, MultipleDivides
    <3> QED
      BY <1>9, <2>1, <3>1, <3>2
  <2>3. v + b <= w
    <3>1. q + 1 <= p
      BY <1>3
    <3>2. (q + 1) * b <= p * b /\ (q + 1) * b = q * b + b
      BY <3>1, Halves
    <3> QED
      BY <1>9, <3>2
  <2>4. ~(n >= w)
    BY <2>1, <2>3
  <2> QED
    BY <1>2, <1>8, <1>9, <2>1, <2>2, <2>4 DEF RoundsTo
<1>11. CASE r >= t
  <2>1. n = v + b + (r - t) /\ r - t \in Nat /\ r - t < b /\ b <= 2 * r
    BY <1>5, <1>7, <1>9, <1>11
  <2>2. CASE q + 1 = p
    <3>1. v + b = w
      <4>1. (q + 1) * b = q * b + b
        OBVIOUS
      <4> QED
        BY <1>9, <2>2, <4>1
    <3>2. n >= w
      BY <2>1, <3>1
    <3>3. e + 1 >= T => Infinity(x.sign, h) = Number(x.sign, e + 1, 0)
      <4>1. e + 1 >= T => e + 1 = T
        BY <1>3
      <4> QED
        BY <1>3, <4>1 DEF Infinity
    <3>4. FloatToHalf(x, f, h) = Number(x.sign, e + 1, 0)
      BY <1>8, <1>9, <3>2, <3>3
    <3> QED
      BY <1>2, <1>3, <1>9, <2>1, <2>2, <3>4 DEF RoundsTo
  <2>3. CASE q + 1 # p
    <3>1. q + 2 <= p
      BY <1>3, <2>3
    <3>2. (q + 2) * b <= p * b /\ (q + 2) * b = q * b + b + b
      BY <3>1, Halves
    <3>3. ~(n >= w)
      BY <1>9, <2>1, <3>2
    <3>4. n \div b = q + 1
      <4>1. (q + 1) * b = v + b /\ q + 1 \in Nat
        BY <1>9
      <4>2. ((q + 1) * b + (r - t)) \div b = q + 1
        BY <1>9, <2>1, <4>1, MultipleDivides
      <4> QED
        BY <2>1, <4>1, <4>2
    <3>5. FloatToHalf(x, f, h) = Number(x.sign, e, q + 1)
      BY <1>8, <1>9, <3>3, <3>4
    <3> QED
      BY <1>2, <1>3, <1>9, <2>1, <2>3, <3>5 DEF RoundsTo
  <2> QED
    BY <2>2, <2>3
<1> QED
  BY <1>2, <1>10, <1>11

\* It is infinite from twice the largest power of two on.
LEMMA HalfInfinite ==
  ASSUME NEW f, NEW h, Narrows(f, h), NEW x \in Numbers(f), NEW d \in Nat, d = Bias(f) - Bias(h),
         x.exp >= Top(h) + d
  PROVE  /\ FloatToHalf(x, f, h) = Infinity(x.sign, h)
         /\ IsNearest(x, f, Infinity(x.sign, h), h)
<1>1. PICK c \in Nat : /\ IsFormat(f) /\ IsFormat(h) /\ f.mant = h.mant + c /\ Bias(f) = Bias(h) + d
                       /\ Scale(h, f) = d + c
  BY NarrowsBy
<1>2. PICK T \in Nat, b \in Nat, k \in Nat : T = Top(h) /\ T # 0 /\ b = Bias(h) /\ k = h.mant
  BY <1>1, BiasIsNat
<1>3. PICK e \in Nat, m \in Nat : e = x.exp /\ m = x.mant /\ e >= T + d /\ e # 0
  BY <1>1, <1>2, NumberFields
<1>4. FloatToHalf(x, f, h) = Infinity(x.sign, h)
  <2>1. x.exp - Bias(f) + Bias(h) = e - d
    BY <1>1, <1>2, <1>3
  <2>2. e - d >= T /\ T >= 1
    BY <1>2, <1>3
  <2>3. ~(e - d <= 0)
    BY <2>2
  <2> QED
    BY <1>2, <2>1, <2>2, <2>3 DEF FloatToHalf
<1>5. PICK X \in Nat : X = Magnitude(x, f, f) /\ X = Mag(e, m, k + c, 0)
  <2>1. Magnitude(x, f, f) = Mag(e, m, k + c, 0) /\ Magnitude(x, f, f) \in Nat
    BY <1>1, <1>2, <1>3, OwnMagnitude
  <2> QED
    BY <2>1
<1>6. Pow2[k + c] * Pow2[e - 1 + 0] <= X
  <2>1. PICK V \in Nat, s \in Nat : V = k + c /\ s = 0
    OBVIOUS
  <2>2. Pow2[V] * Pow2[e - 1 + s] <= Mag(e, m, V, s)
    BY <1>3, MagFrom
  <2> QED
    BY <1>5, <2>1, <2>2
<1>7. e - 1 \in Nat /\ T - 1 + d \in Nat /\ T - 1 + d <= e - 1 /\ e - 1 + 0 = e - 1
  BY <1>2, <1>3
<1>8. PICK p \in Nat, t \in Nat, g \in Nat, z \in Nat :
        p = Pow2[k] /\ t = Pow2[c] /\ g = Pow2[T - 1 + d] /\ z = Pow2[e - 1]
  BY <1>7, Pow2IsNat
<1>9. Pow2[k + c] = p * t /\ Pow2[(T - 1 + d) + c] = g * t
  BY <1>7, <1>8, Pow2Sum
<1>10. g <= z
  BY <1>7, <1>8, Pow2Grows
<1>11. Mag(Top(h), 0, h.mant, Scale(h, f)) = (0 + p) * (g * t)
  <2>1. Place(T) = T - 1 /\ Place(T) + (d + c) = (T - 1 + d) + c
    BY <1>2 DEF Place
  <2>2. Mag(T, 0, k, d + c) = (0 + Pow2[k]) * Pow2[Place(T) + (d + c)]
    BY <1>2 DEF Mag
  <2> QED
    BY <1>1, <1>2, <1>8, <1>9, <2>1, <2>2
<1>12. (0 + p) * (g * t) <= (p * t) * z
  <2>1. g * (p * t) <= z * (p * t)
    <3>1. p * t \in Nat
      OBVIOUS
    <3> QED
      BY <1>10, <3>1, Halves
  <2>2. (0 + p) * (g * t) = g * (p * t) /\ z * (p * t) = (p * t) * z
    OBVIOUS
  <2> QED
    BY <2>1, <2>2
<1>13. Mag(Top(h), 0, h.mant, Scale(h, f)) <= Magnitude(x, f, f)
  <2>1. PICK Y \in Nat, Z \in Nat : Y = (0 + p) * (g * t) /\ Z = (p * t) * z
    OBVIOUS
  <2>2. Y <= Z /\ Z <= X
    BY <1>6, <1>7, <1>8, <1>9, <1>12, <2>1
  <2> QED
    BY <1>5, <1>11, <2>1, <2>2
<1>14. Magnitude(x, f, f) \in Nat
  BY <1>5
<1> QED
  BY <1>4, <1>13, <1>14, InfinityIsNearest

\* It is zero where even the denormal numbers of the half are more than twice as large.
LEMMA HalfZero ==
  ASSUME NEW f, NEW h, Narrows(f, h), NEW x \in Numbers(f), NEW d \in Nat, d = Bias(f) - Bias(h),
         x.exp + h.mant < d
  PROVE  /\ FloatToHalf(x, f, h) = Number(x.sign, 0, 0)
         /\ IsNearest(x, f, Number(x.sign, 0, 0), h)
<1>1. PICK c \in Nat : /\ IsFormat(f) /\ IsFormat(h) /\ f.mant = h.mant + c /\ Bias(f) = Bias(h) + d
                       /\ Scale(h, f) = d + c
  BY NarrowsBy
<1>2. PICK b \in Nat, k \in Nat : b = Bias(h) /\ k = h.mant
  BY <1>1, BiasIsNat
<1>3. PICK e \in Nat, m \in Nat : e = x.exp /\ m = x.mant /\ e + k < d /\ m < Pow2[k + c]
  BY <1>1, <1>2, NumberFields
<1>4. FloatToHalf(x, f, h) = Number(x.sign, 0, 0)
  <2>1. x.exp - Bias(f) + Bias(h) = e - d /\ e - d <= 0 /\ e - d < -k
    BY <1>1, <1>2, <1>3
  <2> QED
    BY <1>2, <2>1 DEF FloatToHalf
<1>5. PICK X \in Nat : X = Magnitude(x, f, f) /\ X = Mag(e, m, k + c, 0)
  <2>1. Magnitude(x, f, f) = Mag(e, m, k + c, 0) /\ Magnitude(x, f, f) \in Nat
    BY <1>1, <1>2, <1>3, OwnMagnitude
  <2> QED
    BY <2>1
<1>6. PICK V \in Nat : V = k + c
  OBVIOUS
<1>7. X + Gap(e, 0) <= Pow2[V] * Pow2[e + 0] /\ Gap(e, 0) \in Nat
  BY <1>3, <1>5, <1>6, MagBelow, PlaceIsNat
<1>8. Pow2[V] * Pow2[e + 0] = Pow2[V + e]
  BY Pow2Sum
<1>9. 2 * Pow2[V + e] <= Pow2[d + c]
  <2>1. V + e \in Nat /\ (V + e) + 1 \in Nat /\ d + c \in Nat /\ (V + e) + 1 <= d + c
    BY <1>3, <1>6
  <2>2. Pow2[(V + e) + 1] = 2 * Pow2[V + e]
    BY <2>1, Pow2Next
  <2>3. Pow2[(V + e) + 1] <= Pow2[d + c]
    BY <2>1, Pow2Grows
  <2> QED
    BY <2>2, <2>3
<1>10. Gap(0, d + c) = Pow2[d + c]
  BY DEF Gap, Place
<1>11. Mag(0, 0, k, d + c) = 0
  <2>1. d + c \in Nat /\ 0 + (d + c) = d + c
    OBVIOUS
  <2>2. Pow2[d + c] \in Nat
    BY <2>1, Pow2IsNat
  <2> QED
    BY <2>1, <2>2 DEF Mag, Place
<1>12. 2 * X <= Gap(0, d + c)
  <2>1. PICK P \in Nat, Q \in Nat, G \in Nat : P = Pow2[V + e] /\ Q = Pow2[d + c] /\ G = Gap(e, 0)
    <3>1. V + e \in Nat /\ d + c \in Nat
      OBVIOUS
    <3> QED
      BY <1>7, <3>1, Pow2IsNat
  <2> QED
    BY <1>7, <1>8, <1>9, <1>10, <2>1
<1>13. Above(x, f, h, 0, 0, X)
  <2>1. 0 < Pow2[k]
    BY Pow2IsNat
  <2>2. X <= Gap(0, d + c)
    <3>1. Gap(0, d + c) \in Nat
      <4>1. d + c \in Nat /\ 0 \in Nat
        OBVIOUS
      <4> QED
        BY <4>1, PlaceIsNat
    <3> QED
      BY <1>12, <3>1
  <2>3. h.mant = k /\ Scale(h, f) = d + c
    BY <1>1, <1>2
  <2>4. Mag(0, 0, h.mant, Scale(h, f)) = 0
    BY <1>11, <2>3
  <2>5. X <= Gap(0, Scale(h, f))
    BY <2>2, <2>3
  <2>6. Magnitude(x, f, f) = 0 + X
    BY <1>5
  <2> QED
    BY <2>1, <2>3, <2>4, <2>5, <2>6 DEF Above
<1>14. Rounds(0, 0, X, 0, 0, f, h)
  BY <1>1, <1>12 DEF Rounds
<1>15. 0 \in Nat
  OBVIOUS
<1> QED
  BY <1>4, <1>13, <1>14, <1>15, RoundedIsNearest

\* The bit below a quotient says whether the remainder is a half or more.
ShiftsTo(M, q, H, r) ==
  /\ M \div (2 * H) = q
  /\ r < H => (M \div H) % 2 = 0
  /\ H <= r => (M \div H) % 2 = 1
LEMMA NextBit ==
  ASSUME NEW q \in Nat, NEW r \in Nat, NEW H \in Nat, NEW M, Splits(M, q, H, r)
  PROVE  ShiftsTo(M, q, H, r)
<1>1. H # 0 /\ r < 2 * H /\ M = q * (2 * H) + r
  BY DEF Splits
<1>2. PICK b \in Nat : b = 2 * H /\ b # 0
  BY <1>1
<1>3. M \div b = q
  <2>1. (q * b + r) \div b = q
    BY <1>1, <1>2, MultipleDivides
  <2> QED
    BY <1>1, <1>2, <2>1
<1>4. ASSUME r < H PROVE (M \div H) % 2 = 0
  <2>1. PICK u \in Nat : u = 2 * q
    OBVIOUS
  <2>2. (u * H + r) \div H = u
    BY <1>1, <1>4, MultipleDivides
  <2>3. q * (2 * H) + r = u * H + r /\ u % 2 = 0
    BY <2>1
  <2> QED
    BY <1>1, <1>2, <1>3, <1>4, <2>2, <2>3
<1>5. ASSUME H <= r PROVE (M \div H) % 2 = 1
  <2>1. PICK u \in Nat : u = 2 * q + 1
    OBVIOUS
  <2>2. PICK v \in Nat : v = r - H /\ v < H
    BY <1>1, <1>5
  <2>3. (u * H + v) \div H = u
    BY <1>1, <2>2, MultipleDivides
  <2>4. q * (2 * H) + r = u * H + v /\ u % 2 = 1
    <3>1. u * H = q * (2 * H) + H
      BY <2>1
    <3>2. PICK w \in Nat : w = q * (2 * H)
      OBVIOUS
    <3> QED
      BY <2>1, <2>2, <3>1, <3>2
  <2> QED
    BY <1>1, <1>2, <1>3, <1>5, <2>3, <2>4
<1>6. M \div (2 * H) = q
  BY <1>2, <1>3
<1> QED
  BY <1>1, <1>4, <1>5, <1>6 DEF ShiftsTo

\* lanxin_float_to_half where the result is below the normal numbers.
LEMMA HalfDenormal ==
  ASSUME NEW f, NEW h, Narrows(f, h), NEW x \in Numbers(f), NEW d \in Nat, d = Bias(f) - Bias(h),
         x.exp # 0, x.exp <= d, d <= x.exp + h.mant, NEW c \in Nat, c = f.mant - h.mant,
         NEW D \in Nat, D = (d - x.exp) + c,
         NEW q \in Nat, NEW r \in Nat, Splits(x.mant + Pow2[f.mant], q, Pow2[D], r)
  PROVE  /\ Worth(x, f, h, 0, D + 1, q, r)
         /\ RoundsTo(x, FloatToHalf(x, f, h), h, 0, D + 1, q, r)
<1>1. /\ IsFormat(f) /\ IsFormat(h) /\ c # 0 /\ f.mant = h.mant + c /\ Bias(f) = Bias(h) + d
      /\ Scale(h, f) = d + c
  BY NarrowsBy
<1>2. PICK b \in Nat, k \in Nat : b = Bias(h) /\ k = h.mant
  BY <1>1, BiasIsNat
<1>3. PICK e \in Nat, m \in Nat : e = x.exp /\ m = x.mant /\ m < Pow2[f.mant] /\ e # 0 /\ e <= d /\ d <= e + k
  BY <1>1, <1>2, NumberFields
<1>4. PICK H \in Nat, V \in Nat, p \in Nat : H = Pow2[D] /\ H # 0 /\ V = Pow2[f.mant] /\ p = Pow2[k]
  BY <1>1, <1>2, Pow2IsNat, BiasIsNat
<1>5. Pow2[D + 1] = 2 * H /\ D + 1 \in Nat
  BY <1>4, Pow2Next
<1>6. PICK M \in Nat : M = m + V /\ M = x.mant + Pow2[f.mant]
  BY <1>3, <1>4
<1>7. Splits(M, q, H, r) /\ r < 2 * H /\ M = q * (2 * H) + r
  BY <1>4, <1>6 DEF Splits
<1>8. q < p
  <2>1. M < 2 * V
    BY <1>3, <1>4, <1>6
  <2>2. 2 * V <= p * (2 * H)
    <3>1. PICK a \in Nat, s \in Nat : a = f.mant + 1 /\ s = D + 1 /\ a <= k + s /\ a = f.mant + 1
      BY <1>1, <1>2, <1>3
    <3>2. Pow2[a] = 2 * V
      BY <1>1, <1>4, <3>1, Pow2Next, BiasIsNat
    <3>3. Pow2[a] <= Pow2[k + s]
      BY <3>1, Pow2Grows
    <3>4. Pow2[k + s] = Pow2[k] * Pow2[s]
      BY Pow2Sum
    <3> QED
      BY <1>4, <1>5, <3>1, <3>2, <3>3, <3>4
  <2> SUFFICES ASSUME p <= q PROVE FALSE
    OBVIOUS
  <2>3. PICK u \in Nat, v \in Nat : u = p * (2 * H) /\ v = q * (2 * H) /\ u <= v
    <3>1. 2 * H \in Nat
      OBVIOUS
    <3> QED
      BY <3>1, Halves
  <2> QED
    BY <1>7, <2>1, <2>2, <2>3
<1>9. PICK g \in Nat : g = Pow2[e - 1] /\ Pow2[d + c] = (2 * H) * g
  <2>1. PICK a \in Nat, s \in Nat : a = e - 1 /\ s = D + 1 /\ d + c = s + a
    BY <1>3
  <2>2. Pow2[s + a] = Pow2[s] * Pow2[a] /\ Pow2[a] \in Nat
    BY Pow2Sum, Pow2IsNat
  <2> QED
    BY <1>5, <2>1, <2>2
<1>10. Magnitude(x, f, f) = M * g
  <2>1. Magnitude(x, f, f) = Mag(e, m, f.mant, 0)
    BY <1>1, <1>3, OwnMagnitude
  <2>2. Place(e) + 0 = e - 1
    BY <1>3 DEF Place
  <2> QED
    BY <1>3, <1>4, <1>6, <1>9, <2>1, <2>2 DEF Mag
<1>11. Mag(0, q, k, d + c) = q * ((2 * H) * g) /\ Gap(0, d + c) = (2 * H) * g
  <2>1. Place(0) + (d + c) = d + c
    BY DEF Place
  <2> QED
    BY <1>9, <2>1 DEF Mag, Gap
<1>12. M * g = q * ((2 * H) * g) + r * g
  BY <1>7
<1>13. Worth(x, f, h, 0, D + 1, q, r)
  <2>1. Magnitude(x, f, f) = Mag(0, q, h.mant, Scale(h, f)) + r * g /\ Gap(0, Scale(h, f)) = Pow2[D + 1] * g
    BY <1>1, <1>2, <1>5, <1>10, <1>11, <1>12
  <2> QED
    BY <1>2, <1>4, <1>5, <1>7, <1>8, <2>1 DEF Worth
<1>14. /\ M \div (2 * H) = q
       /\ r < H => (M \div H) % 2 = 0
       /\ H <= r => (M \div H) % 2 = 1
  <2>1. ShiftsTo(M, q, H, r)
    BY <1>7, NextBit
  <2> QED
    BY <2>1 DEF ShiftsTo
<1>15. FloatToHalf(x, f, h) = Packed(x.sign, (M \div (2 * H)) + ((M \div H) % 2), h)
  <2>1. x.exp - Bias(f) + Bias(h) = e - d /\ e - d <= 0 /\ ~(e - d < -k)
    BY <1>1, <1>2, <1>3
  <2>2. 1 - (e - d) + (f.mant - h.mant) = D + 1 /\ (D + 1) - 1 = D
    BY <1>3
  <2>3. FloatToHalf(x, f, h) = Denormal(x, e - d, f, h)
    BY <1>2, <2>1 DEF FloatToHalf
  <2> QED
    BY <1>4, <1>5, <1>6, <2>2, <2>3 DEF Denormal
<1>16. 0 * p = 0 /\ 0 \in Nat
  OBVIOUS
<1>17. Packed(x.sign, q, h) = Number(x.sign, 0, q)
  <2>1. Packed(x.sign, 0 * Pow2[h.mant] + q, h) = Number(x.sign, 0, q)
    BY <1>1, <1>2, <1>4, <1>8, <1>16, PackedIs
  <2> QED
    BY <1>2, <1>4, <1>16, <2>1
<1>18. CASE r < H
  <2>1. FloatToHalf(x, f, h) = Number(x.sign, 0, q)
    BY <1>14, <1>15, <1>17, <1>18
  <2> QED
    BY <1>5, <1>13, <1>18, <2>1 DEF RoundsTo
<1>19. CASE H <= r
  <2>1. FloatToHalf(x, f, h) = Packed(x.sign, q + 1, h)
    BY <1>14, <1>15, <1>19
  <2>2. CASE q + 1 = p
    <3>1. PICK z \in Nat, s \in {x.sign} : z = 0 /\ s = x.sign
      OBVIOUS
    <3>2. q + 1 = Pow2[h.mant]
      BY <1>2, <1>4, <2>2
    <3>3. Packed(s, z * Pow2[h.mant] + q + 1, h) = Number(s, z + 1, 0)
      BY <1>1, <3>2, PackedNext
    <3>4. FloatToHalf(x, f, h) = Number(x.sign, 0 + 1, 0)
      BY <1>2, <1>4, <1>16, <2>1, <3>1, <3>3
    <3> QED
      BY <1>2, <1>4, <1>5, <1>13, <1>19, <2>2, <3>4 DEF RoundsTo
  <2>3. CASE q + 1 # p
    <3>1. q + 1 < p /\ q + 1 \in Nat
      BY <1>8, <2>3
    <3>2. Packed(x.sign, 0 * Pow2[h.mant] + (q + 1), h) = Number(x.sign, 0, q + 1)
      BY <1>1, <1>2, <1>4, <1>16, <3>1, PackedIs
    <3>3. FloatToHalf(x, f, h) = Number(x.sign, 0, q + 1)
      BY <1>2, <1>4, <1>16, <2>1, <3>2
    <3> QED
      BY <1>2, <1>4, <1>5, <1>13, <1>19, <2>3, <3>3 DEF RoundsTo
  <2> QED
    BY <2>2, <2>3
<1> QED
  BY <1>4, <1>18, <1>19

\* The four cases of lanxin_float_to_half: to infinity, a normal number, a denormal one, zero.
LEMMA HalfIsNearest ==
  ASSUME NEW f, NEW h, Narrows(f, h), f.exp # h.exp, NEW x \in Numbers(f)
  PROVE  IsNearest(x, f, FloatToHalf(x, f, h), h)
<1>1. PICK d \in Nat, c \in Nat : /\ d = Bias(f) - Bias(h) /\ c = f.mant - h.mant /\ h.mant < d
                                  /\ IsFormat(f) /\ IsFormat(h)
  BY NarrowsBy
<1>2. PICK T \in Nat, k \in Nat, e \in Nat, V \in Nat :
        T = Top(h) /\ T # 0 /\ k = h.mant /\ e = x.exp /\ V = x.mant + Pow2[f.mant]
  <2>1. Pow2[f.mant] \in Nat /\ x.mant \in Nat
    BY <1>1, BiasIsNat, NumberFields
  <2>2. x.mant + Pow2[f.mant] \in Nat
    BY <2>1
  <2> QED
    BY <1>1, <2>2, BiasIsNat, NumberFields
<1>3. CASE e >= T + d
  BY <1>1, <1>2, <1>3, HalfInfinite
<1>4. CASE d < e /\ e < T + d
  <2>1. PICK n \in Nat : x.exp = n + d /\ n # 0 /\ n < Top(h)
    <3>1. e - d \in Nat /\ e = (e - d) + d /\ e - d # 0 /\ e - d < T
      BY <1>4
    <3> QED
      BY <1>2, <3>1
  <2>2. PICK q \in Nat, r \in Nat : InBits(x, c, q, r) /\ q < Pow2[h.mant]
    BY <1>1, MantissaSplits
  <2>3. Worth(x, f, h, n, c, q, r)
    BY <1>1, <2>1, <2>2, SplitIsWorth
  <2>4. RoundsTo(x, FloatToHalf(x, f, h), h, n, c, q, r)
    BY <1>1, <2>1, <2>2, HalfNormal
  <2> QED
    BY <2>3, <2>4, RoundsToNearest
<1>5. CASE e <= d /\ d <= e + k
  <2>1. PICK D \in Nat : D = (d - x.exp) + c
    <3>1. (d - e) + c \in Nat
      BY <1>5
    <3> QED
      BY <1>2, <3>1
  <2>2. PICK H \in Nat : H = Pow2[D] /\ H # 0
    BY Pow2IsNat
  <2>3. PICK q \in Nat, r \in Nat : V = q * (2 * H) + r /\ r < 2 * H
    <3>1. 2 * H \in Nat /\ 2 * H # 0
      BY <2>2
    <3> QED
      BY <3>1, Divided
  <2>4. Splits(x.mant + Pow2[f.mant], q, Pow2[D], r)
    BY <1>2, <2>2, <2>3 DEF Splits
  <2>5. x.exp # 0 /\ x.exp <= d /\ d <= x.exp + h.mant
    BY <1>1, <1>2, <1>5
  <2>6. Worth(x, f, h, 0, D + 1, q, r) /\ RoundsTo(x, FloatToHalf(x, f, h), h, 0, D + 1, q, r)
    BY <1>1, <2>1, <2>4, <2>5, HalfDenormal
  <2>7. PICK C \in Nat, z \in Nat : C = D + 1 /\ z = 0
    OBVIOUS
  <2>8. Worth(x, f, h, z, C, q, r) /\ RoundsTo(x, FloatToHalf(x, f, h), h, z, C, q, r)
    BY <2>6, <2>7
  <2> QED
    BY <2>8, RoundsToNearest
<1>6. CASE e + k < d
  BY <1>1, <1>2, <1>6, HalfZero
<1> QED
  BY <1>3, <1>4, <1>5, <1>6

\* A denormal number is normal once it is shifted far enough.
LEMMA Normalizes ==
  ASSUME NEW k \in Nat, NEW m \in Nat, m # 0, m < Pow2[k]
  PROVE  \E s \in 1..k : m * Pow2[s] \in Pow2[k]..(Pow2[k + 1] - 1)
<1> DEFINE S == {s \in Nat : Pow2[k] <= m * Pow2[s]}
<1>1. PICK p \in Nat : p = Pow2[k] /\ Pow2[k + 1] = 2 * p
  BY Pow2IsNat, Pow2Next
<1>2. k \in S
  <2>1. p <= m * p
    <3>1. 1 <= m
      OBVIOUS
    <3>2. 1 * p <= m * p
      BY <3>1, Halves
    <3> QED
      BY <3>2
  <2> QED
    BY <1>1, <2>1
<1>3. PICK s \in S : \A n \in S : s <= n
  <2>1. S \subseteq Nat /\ S # {}
    BY <1>2
  <2> HIDE DEF S
  <2> QED
    BY <2>1, LeastElement
<1>4. s \in Nat /\ s <= k /\ p <= m * Pow2[s]
  BY <1>1, <1>2, <1>3
<1>5. s # 0
  <2>1. Pow2[0] = 1
    BY Pow2Steps
  <2> QED
    BY <1>1, <1>4, <2>1
<1>6. PICK g \in Nat : g = Pow2[s - 1] /\ Pow2[s] = 2 * g
  BY <1>4, <1>5, Halved
<1>7. m * g < p
  <2> SUFFICES ASSUME p <= m * g PROVE FALSE
    BY <1>1
  <2>1. s - 1 \in S
    BY <1>1, <1>4, <1>5, <1>6
  <2> QED
    BY <1>3, <1>4, <2>1
<1>8. m * Pow2[s] < 2 * p /\ m * Pow2[s] \in Nat
  <2>1. PICK v \in Nat : v = m * g
    OBVIOUS
  <2>2. m * (2 * g) = 2 * v
    BY <2>1
  <2> QED
    BY <1>6, <1>7, <2>1, <2>2
<1>9. m * Pow2[s] \in p..(2 * p - 1)
  BY <1>4, <1>8
<1> QED
  BY <1>1, <1>4, <1>5, <1>9

\* A rounded number without lower bits is the upper ones.
LEMMA NothingToRound ==
  ASSUME NEW x, NEW y, NEW h, NEW e, NEW c \in Nat, NEW q, RoundsTo(x, y, h, e, c, q, 0)
  PROVE  y = Number(x.sign, e, q)
<1>1. PICK t \in Nat : t = Pow2[c] /\ t # 0
  BY Pow2IsNat
<1>2. ~(t <= 2 * 0)
  BY <1>1
<1> QED
  BY <1>1, <1>2 DEF RoundsTo

\* A mantissa that is moved up by c bits has none below.
LEMMA MovedUp ==
  ASSUME NEW f, NEW h, Narrows(f, h), NEW c \in Nat, c = f.mant - h.mant,
         NEW e \in Nat, e <= Top(f), NEW q \in Nat, q < Pow2[h.mant], NEW s \in {0, 1},
         NEW y, y = Number(s, e, q * Pow2[c])
  PROVE  y \in Numbers(f) /\ InBits(y, c, q, 0)
<1>1. PICK k \in Nat : k = h.mant /\ f.mant = k + c /\ IsFormat(f)
  BY NarrowsBy, BiasIsNat
<1>2. PICK p \in Nat, t \in Nat : p = Pow2[k] /\ t = Pow2[c] /\ t # 0
  BY Pow2IsNat
<1>3. Pow2[k + c] = p * t
  BY <1>2, Pow2Sum
<1>4. q * t \in Nat /\ q * t < p * t /\ p * t \in Nat
  <2>1. q + 1 <= p
    BY <1>1, <1>2
  <2>2. (q + 1) * t <= p * t /\ p * t \in Nat /\ (q + 1) * t = q * t + t
    BY <2>1, Halves
  <2>3. q * t \in Nat
    OBVIOUS
  <2> QED
    BY <1>2, <2>2, <2>3
<1>5. y.sign = s /\ y.exp = e /\ y.mant = q * t
  BY <1>2 DEF Number
<1>6. y \in Numbers(f)
  <2>1. PICK P \in Nat, T \in Nat, m \in Nat : P = p * t /\ T = Top(f) /\ m = q * t
    BY <1>1, <1>4, BiasIsNat
  <2>2. e \in 0..T /\ m \in 0..(P - 1)
    BY <1>4, <2>1
  <2> QED
    BY <1>1, <1>2, <1>3, <2>1, <2>2 DEF Numbers, Number
<1>7. q * t = q * t + 0 /\ 0 < t
  BY <1>2, <1>4
<1> QED
  BY <1>2, <1>5, <1>6, <1>7 DEF InBits

\* A half that is widened has no lower bits to round, a denormal one neither.
LEMMA HalfReturns ==
  ASSUME NEW f, NEW h, Narrows(f, h), f.exp # h.exp, NEW x \in Numbers(h), ~IsNan(x, h)
  PROVE  FloatToHalf(HalfToFloat(x, h, f), f, h) = x
<1>0. PICK y : y = HalfToFloat(x, h, f)
  OBVIOUS
<1>1. PICK d \in Nat, c \in Nat : /\ d = Bias(f) - Bias(h) /\ c = f.mant - h.mant /\ h.mant < d
                                  /\ IsFormat(f) /\ IsFormat(h) /\ Bias(f) = Bias(h) + d
                                  /\ f.mant = h.mant + c
  BY NarrowsBy
<1>2. PICK T \in Nat, k \in Nat, e \in Nat, q \in Nat, s \in {0, 1}, p \in Nat, W \in Nat :
        /\ T = Top(h) /\ T # 0 /\ k = h.mant /\ e = x.exp /\ q = x.mant /\ s = x.sign
        /\ p = Pow2[k] /\ e <= T /\ q < p /\ x = Number(s, e, q) /\ W = Top(f) /\ W >= T + d
  <2>1. PICK b \in Nat : b = Bias(h)
    BY <1>1, BiasIsNat
  <2>2. PICK W \in Nat, T \in Nat : W = Top(f) /\ T = Top(h) /\ T # 0 /\ W >= T + d
    <3>1. Top(f) = 2 * (b + d) + 1 /\ Top(h) = 2 * b + 1
      BY <1>1, <2>1, BiasIsNat
    <3> QED
      BY <3>1
  <2> QED
    BY <1>1, <2>2, BiasIsNat, NumberFields
<1>3. CASE e = 0 /\ q = 0
  <2>1. y = Number(s, 0, 0)
    BY <1>0, <1>2, <1>3 DEF HalfToFloat
  <2>2. PICK z \in Nat, n \in Nat : z = 0 /\ n = 0 /\ z <= Top(f) /\ n < Pow2[h.mant]
    <3>1. 0 <= W /\ 0 < p
      BY <1>2
    <3> QED
      BY <1>2, <3>1
  <2>3. y = Number(s, z, n * Pow2[c])
    <3>1. n * Pow2[c] = 0
      BY <2>2, Pow2IsNat
    <3> QED
      BY <2>1, <2>2, <3>1
  <2>4. y \in Numbers(f)
    BY <1>1, <2>2, <2>3, MovedUp
  <2>5. y.exp + h.mant < d /\ y.sign = s
    BY <1>1, <1>2, <2>1 DEF Number
  <2>6. FloatToHalf(y, f, h) = Number(s, 0, 0)
    BY <1>1, <2>4, <2>5, HalfZero
  <2> QED
    BY <1>0, <1>2, <1>3, <2>6
<1>4. CASE e = T
  <2>1. q = 0
    BY <1>2, <1>4 DEF IsNan
  <2>2. y = Number(s, W, q * Pow2[c])
    BY <1>0, <1>1, <1>2, <1>4 DEF HalfToFloat
  <2>3. W <= Top(f) /\ q < Pow2[h.mant]
    BY <1>2
  <2>4. y \in Numbers(f)
    BY <1>1, <2>2, <2>3, MovedUp
  <2>5. y.exp >= Top(h) + d /\ y.sign = s
    BY <1>2, <2>2 DEF Number
  <2>6. FloatToHalf(y, f, h) = Infinity(s, h)
    BY <1>1, <2>4, <2>5, HalfInfinite
  <2> QED
    BY <1>0, <1>2, <1>4, <2>1, <2>6 DEF Infinity
<1>5. CASE e # 0 /\ e < T
  <2>1. PICK E \in Nat : E = e + d /\ E <= Top(f)
    <3>1. e + d \in Nat /\ e + d <= W
      BY <1>2, <1>5
    <3> QED
      BY <1>2, <3>1
  <2>2. y = Number(s, E, q * Pow2[c])
    <3>1. x.exp # 0 /\ x.exp # Top(h)
      BY <1>2, <1>5
    <3>2. HalfToFloat(x, h, f) = Number(x.sign, x.exp + (Bias(f) - Bias(h)), x.mant * Pow2[f.mant - h.mant])
      BY <3>1, Zenon DEF HalfToFloat
    <3>3. x.exp + (Bias(f) - Bias(h)) = E
      <4>1. x.exp + (Bias(f) - Bias(h)) = e + d
        BY <1>1, <1>2
      <4> QED
        BY <2>1, <4>1
    <3> QED
      BY <1>0, <1>1, <1>2, <3>2, <3>3
  <2>3. y \in Numbers(f) /\ InBits(y, c, q, 0)
    BY <1>1, <1>2, <2>1, <2>2, MovedUp
  <2>4. y.exp = e + d /\ y.sign = s /\ e < Top(h) /\ q < Pow2[h.mant]
    BY <1>2, <1>5, <2>1, <2>2 DEF Number
  <2>5. PICK r \in Nat : r = 0 /\ InBits(y, c, q, r)
    BY <2>3
  <2>6. RoundsTo(y, FloatToHalf(y, f, h), h, e, c, q, r)
    BY <1>1, <1>5, <2>3, <2>4, <2>5, HalfNormal
  <2>7. FloatToHalf(y, f, h) = Number(y.sign, e, q)
    BY <2>5, <2>6, NothingToRound
  <2> QED
    BY <1>0, <1>2, <2>4, <2>7
<1>6. CASE e = 0 /\ q # 0
  <2> DEFINE shift == CHOOSE i \in 0..h.mant : x.mant * Pow2[i] \in Pow2[h.mant]..(Pow2[h.mant + 1] - 1)
  <2>1. PICK i \in Nat : i = shift /\ i <= k /\ q * Pow2[i] \in p..(2 * p - 1)
    <3>1. \E j \in 0..k : q * Pow2[j] \in Pow2[k]..(Pow2[k + 1] - 1)
      <4>1. q # 0 /\ q < Pow2[k]
        BY <1>2, <1>6
      <4>2. \E j \in 1..k : q * Pow2[j] \in Pow2[k]..(Pow2[k + 1] - 1)
        BY <4>1, Normalizes
      <4>3. \A j \in 1..k : j \in 0..k
        OBVIOUS
      <4> QED
        BY <4>2, <4>3, Zenon
    <3>2. shift = CHOOSE j \in 0..k : q * Pow2[j] \in Pow2[k]..(Pow2[k + 1] - 1)
      BY <1>2
    <3> HIDE DEF shift
    <3>3. shift \in 0..k /\ q * Pow2[shift] \in Pow2[k]..(Pow2[k + 1] - 1)
      BY <3>1, <3>2, Zenon
    <3>4. Pow2[k + 1] = 2 * p
      BY <1>2, Pow2Next
    <3>5. shift \in Nat /\ shift <= k
      BY <3>3
    <3> QED
      BY <1>2, <3>3, <3>4, <3>5
  <2> HIDE DEF shift
  <2>2. i # 0
    <3>1. Pow2[0] = 1
      BY Pow2Next
    <3> QED
      BY <1>2, <2>1, <3>1
  <2>3. PICK n \in Nat : n = (x.mant * Pow2[i]) % Pow2[h.mant] /\ q * Pow2[i] = p + n /\ n < p
    <3>1. PICK v \in Nat : v = q * Pow2[i] /\ p <= v /\ v < 2 * p
      BY <1>2, <2>1
    <3>2. v % p = v - p
      <4>1. PICK u \in Nat : u = v - p /\ u < p
        BY <3>1
      <4>2. (1 * p + u) % p = u
        BY <4>1, MultipleDivides
      <4> QED
        BY <3>1, <4>1, <4>2
    <3>3. PICK n \in Nat : n = v - p
      BY <3>1
    <3>4. (x.mant * Pow2[i]) % Pow2[h.mant] = v % p
      BY <1>2, <3>1
    <3> QED
      BY <3>1, <3>2, <3>3, <3>4
  <2>4. PICK E \in Nat : E = 1 - i + d /\ E # 0 /\ E <= d /\ d <= E + k /\ d - E = i - 1 /\ E <= Top(f)
    <3>1. PICK E \in Nat : E = 1 - i + d
      <4>1. 1 - i + d \in Nat
        BY <1>1, <1>2, <2>1, <2>2
      <4> QED
        BY <4>1
    <3>2. E # 0 /\ E <= d /\ d <= E + k /\ d - E = i - 1
      <4>1. i <= k /\ k < d /\ i # 0
        BY <1>1, <1>2, <2>1, <2>2
      <4> QED
        BY <3>1, <4>1
    <3>3. E <= W
      BY <1>2, <3>2
    <3> QED
      BY <1>2, <3>1, <3>2, <3>3
  <2>5. y = Number(s, E, n * Pow2[c])
    <3>1. HalfToFloat(x, h, f) = Number(s, 1 - shift + d, ((x.mant * Pow2[shift]) % Pow2[h.mant]) * Pow2[c])
      BY <1>1, <1>2, <1>6 DEF HalfToFloat, shift
    <3> QED
      BY <1>0, <2>1, <2>3, <2>4, <3>1
  <2>6. n < Pow2[h.mant]
    BY <1>2, <2>3
  <2>7. y \in Numbers(f)
    BY <1>1, <2>4, <2>5, <2>6, MovedUp
  <2>8. y.exp = E /\ y.sign = s /\ y.mant = n * Pow2[c]
    BY <2>5 DEF Number
  <2>9. PICK D \in Nat : D = (d - y.exp) + c /\ D = (i - 1) + c
    <3>1. (i - 1) + c \in Nat
      BY <2>2
    <3> QED
      BY <2>4, <2>8, <3>1
  <2>10. PICK H \in Nat : H = Pow2[D] /\ H # 0
    BY Pow2IsNat
  <2>11. PICK t \in Nat, g \in Nat : t = Pow2[c] /\ g = Pow2[i] /\ 2 * H = g * t
    <3>1. D + 1 = i + c
      BY <2>9
    <3>2. Pow2[D + 1] = 2 * H
      BY <2>10, Pow2Next
    <3>3. Pow2[i + c] = Pow2[i] * Pow2[c] /\ Pow2[i] \in Nat /\ Pow2[c] \in Nat
      BY Pow2Sum, Pow2IsNat
    <3> QED
      BY <3>1, <3>2, <3>3
  <2>12. y.mant + Pow2[f.mant] = q * (2 * H)
    <3>1. Pow2[k + c] = Pow2[k] * Pow2[c]
      BY Pow2Sum
    <3>2. f.mant = k + c /\ Pow2[k] = p
      BY <1>1, <1>2
    <3>3. y.mant = n * t /\ Pow2[f.mant] = p * t
      BY <2>8, <2>11, <3>1, <3>2
    <3>4. n * t + p * t = (p + n) * t /\ (q * g) * t = q * (g * t)
      OBVIOUS
    <3>5. q * g = p + n
      BY <2>3, <2>11
    <3> QED
      BY <2>11, <3>3, <3>4, <3>5
  <2>13. PICK r \in Nat : r = 0 /\ Splits(y.mant + Pow2[f.mant], q, Pow2[D], r)
    <3>1. q * (2 * H) = q * (2 * H) + 0 /\ 0 < 2 * H
      BY <2>10
    <3> QED
      BY <2>10, <2>12, <3>1 DEF Splits
  <2>14. y.exp # 0 /\ y.exp <= d /\ d <= y.exp + h.mant
    BY <1>2, <2>4, <2>8
  <2>15. RoundsTo(y, FloatToHalf(y, f, h), h, 0, D + 1, q, r)
    BY <1>1, <2>7, <2>9, <2>13, <2>14, HalfDenormal
  <2>16. FloatToHalf(y, f, h) = Number(y.sign, 0, q)
    <3>1. PICK C \in Nat : C = D + 1
      OBVIOUS
    <3> QED
      BY <2>13, <2>15, <3>1, NothingToRound
  <2> QED
    BY <1>0, <1>2, <1>6, <2>8, <2>16
<1> QED
  BY <1>2, <1>3, <1>4, <1>5, <1>6

\* lanxin_round_to_i8: the nearest integer, and the nearest of all int8 beyond them.
LEMMA RoundExact ==
  ASSUME NEW q \in Int
  PROVE  /\ RoundToI8(q) \in -128..127
         /\ \A i \in -128..127 : Distance(4 * RoundToI8(q), q) <= Distance(4 * i, q)
<1>1. PICK a \in Int : /\ a = IF q >= 0 THEN (q + 2) \div 4 ELSE -((2 - q) \div 4)
                       /\ 4 * a <= q + 2 /\ q <= 4 * a + 2
  <2>1. CASE q >= 0
    <3>1. PICK n \in Nat : n = q + 2
      BY <2>1
    <3>2. PICK u \in Nat, r \in Nat : u = n \div 4 /\ n = u * 4 + r /\ r < 4
      BY Divided
    <3>3. u \in Int /\ 4 * u <= q + 2 /\ q <= 4 * u + 2
      BY <3>1, <3>2
    <3> QED
      BY <2>1, <3>1, <3>2, <3>3
  <2>2. CASE ~(q >= 0)
    <3>1. PICK n \in Nat : n = 2 - q
      BY <2>2
    <3>2. PICK u \in Nat, r \in Nat : u = n \div 4 /\ n = u * 4 + r /\ r < 4
      BY Divided
    <3>3. -u \in Int /\ 4 * (-u) <= q + 2 /\ q <= 4 * (-u) + 2
      BY <3>1, <3>2
    <3> QED
      BY <2>2, <3>1, <3>2, <3>3
  <2> QED
    BY <2>1, <2>2
<1>2. RoundToI8(q) = IF a > 127 THEN 127 ELSE IF a < -128 THEN -128 ELSE a
  BY <1>1 DEF RoundToI8
<1>3. PICK r \in Int : r = RoundToI8(q) /\ r \in -128..127
  BY <1>1, <1>2
<1>4. ASSUME NEW i \in -128..127 PROVE Distance(4 * r, q) <= Distance(4 * i, q)
  <2>1. i \in Int /\ -128 <= i /\ i <= 127
    OBVIOUS
  <2>2. CASE a > 127
    <3>1. 4 * r <= q + 2 /\ 4 * i <= 4 * r /\ r = 127 /\ 4 * (r + 1) <= q + 2
      BY <1>1, <1>2, <1>3, <2>1, <2>2
    <3> QED
      BY <1>3, <2>1, <3>1 DEF Distance
  <2>3. CASE a < -128
    <3>1. r = -128 /\ q <= 4 * (r - 1) + 2 /\ 4 * r <= 4 * i
      BY <1>1, <1>2, <1>3, <2>1, <2>3
    <3> QED
      BY <1>3, <2>1, <3>1 DEF Distance
  <2>4. CASE a \in -128..127
    <3>1. r = a /\ 4 * r <= q + 2 /\ q <= 4 * r + 2
      BY <1>1, <1>2, <1>3, <2>4
    <3>2. i <= r - 1 \/ i = r \/ r + 1 <= i
      BY <1>3, <2>1
    <3> QED
      BY <1>3, <2>1, <3>1, <3>2 DEF Distance
  <2> QED
    BY <1>1, <2>2, <2>3, <2>4
<1> QED
  BY <1>3, <1>4

(***************************************************************************)
(* What lanxin_float_to_half, the bfloat16 conversions and                 *)
(* lanxin_round_to_i8 return is a nearest number of the narrower format,   *)
(* denormal or infinite ones included, and widening loses nothing, for     *)
(* every pair of formats the code's branches are made for.                 *)
(***************************************************************************)
THEOREM ConversionsAreNearest == Spec => []ConversionNearest
<1>1. Init => ConversionNearest
  <2> SUFFICES ASSUME Init PROVE ConversionNearest
    OBVIOUS
  <2>1. CASE input.of = "narrow"
    <3>1. PICK n \in Narrowed : input = [of |-> "narrow", narrow |-> n]
      BY <2>1 DEF Init
    <3>2. PICK x, f, h : x = n.x /\ f = n.f /\ h = n.h
      OBVIOUS
    <3>3. Narrows(f, h) /\ x \in Numbers(f)
      BY <3>2, ConversionsAssumption
    <3>4. ~IsNan(x, f) => IF f.exp = h.exp THEN IsNearest(x, f, FloatToBfloat16(x, f, h), h)
                                           ELSE IsNearest(x, f, FloatToHalf(x, f, h), h)
      BY <3>3, BfloatIsNearest, HalfIsNearest
    <3>5. input.narrow.x = x /\ input.narrow.f = f /\ input.narrow.h = h
      BY <3>1, <3>2
    <3> QED
      BY <2>1, <3>4, <3>5 DEF ConversionNearest
  <2>2. CASE input.of = "widen"
    <3>1. PICK n \in Widened : input = [of |-> "widen", widen |-> n]
      BY <2>2 DEF Init
    <3>2. PICK x, f, h : x = n.x /\ f = n.f /\ h = n.h
      OBVIOUS
    <3>3. Narrows(f, h) /\ x \in Numbers(h)
      BY <3>2, ConversionsAssumption
    <3>4. ~IsNan(x, h) => IF f.exp = h.exp THEN FloatToBfloat16(Bfloat16ToFloat(x, h, f), f, h) = x
                                           ELSE FloatToHalf(HalfToFloat(x, h, f), f, h) = x
      BY <3>3, BfloatReturns, HalfReturns
    <3>5. input.widen.x = x /\ input.widen.f = f /\ input.widen.h = h
      BY <3>1, <3>2
    <3> QED
      BY <2>2, <3>4, <3>5 DEF ConversionNearest
  <2>3. CASE input.of = "round"
    <3>1. PICK q \in Int : input.round = q
      BY <2>3, ConversionsAssumption DEF Init
    <3>2. /\ RoundToI8(q) \in -128..127
          /\ \A i \in -128..127 : Distance(4 * RoundToI8(q), q) <= Distance(4 * i, q)
      BY RoundExact
    <3> QED
      BY <2>3, <3>1, <3>2 DEF ConversionNearest
  <2>4. CASE input.of \notin {"narrow", "widen", "round"}
    BY <2>4 DEF ConversionNearest
  <2> QED
    BY <2>1, <2>2, <2>3, <2>4
<1>2. ConversionNearest /\ [Next]_input => ConversionNearest'
  BY DEF Next, ConversionNearest
<1> QED
  BY <1>1, <1>2, PTL DEF Spec
=============================================================================
