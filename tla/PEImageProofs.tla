------------------------------ MODULE PEImageProofs ------------------------------
(***************************************************************************)
(* Lemmas about the arithmetic of PE images, about division and about      *)
(* minima and maxima, for the proofs about the other modules.              *)
(***************************************************************************)
EXTENDS PEImage, SequenceTheorems, WellFoundedInduction, TLAPS

-------------------------------------------------------------------------------
(* Alignment *)

\* alignUp returns the least multiple of the alignment that is not below v.
LEMMA AlignUpBounds ==
  ASSUME NEW v \in Nat, NEW a \in Nat \ {0}
  PROVE  /\ AlignUp(v, a) \in Nat
         /\ v <= AlignUp(v, a)
         /\ AlignUp(v, a) % a = 0
BY DEF AlignUp

\* A product is a multiple of its factors.
LEMMA ProductAligned ==
  ASSUME NEW a \in Nat \ {0}, NEW k \in Nat
  PROVE  (a * k) % a = 0
BY Z3

\* The sum of two multiples of an alignment is a multiple of it.
LEMMA SumAligned ==
  ASSUME NEW a \in Nat \ {0}, NEW v \in Nat, NEW w \in Nat, v % a = 0, w % a = 0
  PROVE  (v + w) % a = 0
<1> DEFINE q == v \div a
           r == w \div a
<1>1. v = a * q /\ q \in Nat
  BY SMT
<1>2. w = a * r /\ r \in Nat
  BY SMT
<1> HIDE DEF q, r
<1>3. v + w = a * (q + r) /\ q + r \in Nat
  BY <1>1, <1>2
<1> QED BY <1>3, ProductAligned

\* What is aligned is aligned to every divisor of the alignment.
LEMMA AlignedCoarser ==
  ASSUME NEW a \in Nat \ {0}, NEW b \in Nat \ {0}, NEW v \in Nat, v % a = 0, a % b = 0
  PROVE  v % b = 0
<1> DEFINE q == v \div a
           r == a \div b
<1>1. v = a * q /\ q \in Nat
  BY SMT
<1>2. a = b * r /\ r \in Nat
  BY SMT
<1> HIDE DEF q, r
<1>3. r * q \in Nat /\ v = b * (r * q)
  BY <1>1, <1>2
<1> QED BY <1>3, ProductAligned

\* alignUp returns the least such multiple, and grows with its argument.
LEMMA AlignUpLeast ==
  ASSUME NEW v \in Nat, NEW w \in Nat, NEW a \in Nat \ {0}, v <= w, w % a = 0
  PROVE  AlignUp(v, a) <= w
<1> DEFINE q == (v + a - 1) \div a
           r == w \div a
<1>1. w = a * r /\ r \in Nat
  BY SMT
<1>2. q \in Nat /\ a * q <= v + a - 1
  BY SMT
<1>3. AlignUp(v, a) = a * q
  BY <1>2 DEF AlignUp
<1> HIDE DEF q, r
<1>4. a * q < a * (r + 1)
  BY <1>1, <1>2
<1>5. q < r + 1
  BY <1>1, <1>2, <1>4
<1>6. a * q <= a * r
  BY <1>1, <1>2, <1>5
<1> QED BY <1>1, <1>3, <1>6

-------------------------------------------------------------------------------
(* Quotients and remainders *)

\* A number is what its quotient and its remainder say.
LEMMA DivMod ==
  ASSUME NEW v \in Int, NEW w \in Nat \ {0}
  PROVE  /\ v % w \in 0 .. w - 1 /\ v \div w \in Int
         /\ v = w * (v \div w) + (v % w)
<1>1. v \div w \in Int
  BY SMT
<1>2. v % w \in 0 .. w - 1
  BY SMT
<1>3. v = w * (v \div w) + (v % w)
  BY SMT
<1> QED BY <1>1, <1>2, <1>3

\* They are the only ones.
LEMMA QuotientUnique ==
  ASSUME NEW w \in Nat \ {0}, NEW p \in Int, NEW q \in Int,
         NEW r \in 0 .. w - 1, NEW s \in 0 .. w - 1, w * p + r = w * q + s
  PROVE  p = q /\ r = s
<1>1. CASE p < q
  <2>1. w * (p + 1) <= w * q
    BY <1>1
  <2> QED BY <2>1
<1>2. CASE q < p
  <2>1. w * (q + 1) <= w * p
    BY <1>2
  <2> QED BY <2>1
<1>3. CASE p = q
  BY <1>3
<1> QED BY <1>1, <1>2, <1>3

\* A remainder is the only number below the divisor with the right distance.
LEMMA ModUnique ==
  ASSUME NEW w \in Nat \ {0}, NEW q \in Int, NEW r \in 0 .. w - 1
  PROVE  (w * q + r) % w = r /\ (w * q + r) \div w = q
<1> DEFINE v == w * q + r
           p == v \div w
           s == v % w
<1>1. v \in Int
  OBVIOUS
<1>2. s \in 0 .. w - 1 /\ p \in Int /\ v = w * p + s
  BY <1>1, DivMod
<1> HIDE DEF p, s
<1>3. p = q /\ s = r
  BY <1>2, QuotientUnique
<1> QED BY <1>3 DEF p, s

-------------------------------------------------------------------------------
(* Minima and maxima *)

\* Every nonempty set of naturals has a least element.
LEMMA LeastExists ==
  ASSUME NEW T \in SUBSET Nat, T /= {}
  PROVE  \E x \in T : \A y \in T : x <= y
<1>1. PICK x \in T : \A y \in T : <<y, x>> \notin OpToRel(<, Nat)
  BY NatLessThanWellFounded, WFMin
<1>2. \A y \in T : ~(y < x)
  BY <1>1 DEF OpToRel
<1> QED BY <1>2

\* A set of naturals with an upper bound has a greatest element.
LEMMA GreatestExists ==
  ASSUME NEW T \in SUBSET Nat, T /= {}, NEW b \in Nat, \A x \in T : x <= b
  PROVE  \E x \in T : \A y \in T : y <= x
<1> DEFINE U == {u \in Nat : \A x \in T : x <= u}
<1>1. PICK u \in U : \A w \in U : u <= w
  BY LeastExists
<1>2. CASE u \in T
  BY <1>1, <1>2
<1>3. CASE u \notin T
  <2>1. \A x \in T : x < u
    BY <1>1, <1>3
  <2>2. u > 0 /\ u - 1 \in Nat
    <3>1. PICK x \in T : TRUE
      OBVIOUS
    <3> QED BY <1>1, <2>1, <3>1
  <2>3. \A x \in T : x <= u - 1
    BY <1>1, <2>1
  <2> QED BY <1>1, <2>2, <2>3
<1> QED BY <1>2, <1>3

\* The naturals below a bound that hold 0 and every successor are all of them.
LEMMA UpTo ==
  ASSUME NEW n \in Nat, NEW T, 0 \in T, \A m \in 0 .. n - 1 : m \in T => m + 1 \in T
  PROVE  \A m \in 0 .. n : m \in T
<1> DEFINE Rest == {m \in 0 .. n : m \notin T}
<1> SUFFICES ASSUME Rest /= {} PROVE FALSE
  OBVIOUS
<1>1. Rest \in SUBSET Nat
  OBVIOUS
<1>2. PICK m \in Rest : \A k \in Rest : m <= k
  BY <1>1, LeastExists
<1>3. m \in 0 .. n /\ m \notin T
  BY <1>2
<1>4. m - 1 \in 0 .. n - 1
  BY <1>3
<1>5. m - 1 \in Rest
  <2>1. m - 1 \in T => m \in T
    BY <1>3, <1>4
  <2> QED BY <1>3, <1>4, <2>1
<1>6. m <= m - 1
  BY <1>2, <1>5
<1> QED BY <1>3, <1>6

\* Finitely many naturals have an upper bound.
LEMMA BoundExists ==
  ASSUME NEW n \in Nat, NEW f, \A i \in 1 .. n : f[i] \in Nat
  PROVE  \E b \in Nat : \A i \in 1 .. n : f[i] <= b
<1> DEFINE T == {m \in 0 .. n : ~\E b \in Nat : \A i \in 1 .. m : f[i] <= b}
<1>1. CASE T = {}
  BY <1>1, SMTT(30)
<1>2. CASE T /= {}
  <2>1. PICK m \in T : \A k \in T : m <= k
    <3>1. T \in SUBSET Nat
      OBVIOUS
    <3> QED BY <1>2, <3>1, LeastExists
  <2>2. m \in 0 .. n /\ ~\E b \in Nat : \A i \in 1 .. m : f[i] <= b
    BY <2>1
  <2>3. m /= 0
    <3>1. \A i \in 1 .. 0 : f[i] <= 0
      OBVIOUS
    <3> QED BY <2>2, <3>1
  <2>4. m - 1 \in 0 .. n /\ m - 1 \notin T
    <3> HIDE DEF T
    <3> QED BY <2>1, <2>2, <2>3
  <2>5. PICK b \in Nat : \A i \in 1 .. m - 1 : f[i] <= b
    BY <2>4
  <2>6. f[m] \in Nat
    BY <2>2, <2>3
  <2>7. \A i \in 1 .. m : f[i] \in Nat /\ f[i] <= b + f[m]
    <3> SUFFICES ASSUME NEW i \in 1 .. m PROVE f[i] \in Nat /\ f[i] <= b + f[m]
      OBVIOUS
    <3>1. i \in 1 .. n /\ (i = m \/ i \in 1 .. m - 1)
      BY <2>2
    <3> QED BY <2>5, <2>6, <3>1
  <2>8. b + f[m] \in Nat
    BY <2>6
  <2> QED BY <2>2, <2>7, <2>8
<1> QED BY <1>1, <1>2

-------------------------------------------------------------------------------
(* Sizes of an image *)

Alignments(opts) == opts.sa \in Nat \ {0} /\ opts.fa \in Nat \ {0} /\ opts.hr \in Nat

\* The place of a section: four numbers.
Extent(s) == s.rva \in Nat /\ s.vsize \in Nat /\ s.foff \in Nat /\ s.raw \in Nat

Extents(out) ==
  Len(out) \in Nat /\ DOMAIN out = 1 .. Len(out) /\ \A i \in DOMAIN out : Extent(out[i])

\* SizeOfHeaders covers the headers and the reserve, and is the reserve if that
\* is enough.
LEMMA HeaderSizes ==
  ASSUME NEW opts, Alignments(opts), NEW n \in Nat
  PROVE  /\ HeaderTotal(n) \in Nat /\ SizeOfHeaders(n, opts) \in Nat
         /\ HeaderTotal(n) <= SizeOfHeaders(n, opts)
         /\ AlignUp(opts.hr, opts.fa) <= SizeOfHeaders(n, opts)
         /\ HeaderTotal(n) <= AlignUp(opts.hr, opts.fa)
              => SizeOfHeaders(n, opts) = AlignUp(opts.hr, opts.fa)
<1> DEFINE needed  == AlignUp(HeaderTotal(n), opts.fa)
           reserve == AlignUp(opts.hr, opts.fa)
<1>1. HeaderTotal(n) \in Nat
  BY DEF HeaderTotal, TableStart, SlotBytes
<1>2. /\ opts.fa \in Nat \ {0} /\ opts.hr \in Nat
      /\ needed \in Nat /\ HeaderTotal(n) <= needed
      /\ reserve \in Nat /\ reserve % opts.fa = 0
  BY <1>1, AlignUpBounds DEF Alignments
<1>3. HeaderTotal(n) <= reserve => needed <= reserve
  BY <1>1, <1>2, AlignUpLeast
<1>4. SizeOfHeaders(n, opts) = IF reserve > needed THEN reserve ELSE needed
  BY DEF SizeOfHeaders
<1> HIDE DEF needed, reserve
<1>5. /\ SizeOfHeaders(n, opts) \in Nat /\ HeaderTotal(n) <= SizeOfHeaders(n, opts)
      /\ reserve <= SizeOfHeaders(n, opts)
      /\ HeaderTotal(n) <= reserve => SizeOfHeaders(n, opts) = reserve
  BY <1>1, <1>2, <1>3, <1>4
<1> QED BY <1>1, <1>5 DEF reserve

\* The file reaches to the end of every section that has bytes in it.
LEMMA FileSizeCovers ==
  ASSUME NEW opts, Alignments(opts), NEW out, Extents(out), Ascending(out)
  PROVE  /\ FileSize(out, opts) \in Nat
         /\ SizeOfHeaders(Len(out), opts) <= FileSize(out, opts)
         /\ \A i \in DOMAIN out : out[i].raw > 0 => RawEnd(out[i]) <= FileSize(out, opts)
<1> DEFINE soh    == SizeOfHeaders(Len(out), opts)
           onDisk == {i \in DOMAIN out : out[i].raw > 0}
           Last(j) == \A i \in onDisk : i <= j
           last   == CHOOSE j \in onDisk : Last(j)
           tail   == IF onDisk = {} THEN 0 ELSE RawEnd(out[last])
<1>1. soh \in Nat
  BY HeaderSizes DEF Extents
<1>2. \A i \in DOMAIN out : RawEnd(out[i]) \in Nat /\ out[i].foff <= RawEnd(out[i])
  BY DEF Extents, Extent, RawEnd
<1>3. FileSize(out, opts) = IF tail < soh THEN soh ELSE tail
  BY DEF FileSize
<1>4. CASE onDisk = {}
  <2>1. tail = 0
    BY <1>4
  <2>2. FileSize(out, opts) = soh
    <3> HIDE DEF tail, soh
    <3> QED BY <1>1, <1>3, <2>1
  <2> QED BY <1>1, <1>4, <2>2
<1>5. CASE onDisk /= {}
  <2>1. onDisk \in SUBSET Nat /\ \A i \in onDisk : i <= Len(out)
    BY DEF Extents
  <2>2. \E j \in onDisk : \A i \in onDisk : i <= j
    <3> HIDE DEF onDisk
    <3> QED BY <1>5, <2>1, GreatestExists DEF Extents
  <2>3. last \in onDisk /\ \A i \in onDisk : i <= last
    BY <2>2
  <2>4. tail = RawEnd(out[last]) /\ last \in DOMAIN out /\ tail \in Nat
    BY <1>2, <1>5, <2>3
  <2>5. ASSUME NEW i \in onDisk PROVE RawEnd(out[i]) \in Nat /\ RawEnd(out[i]) <= tail
    <3>1. i \in DOMAIN out /\ i \in Nat /\ last \in Nat
      BY <2>1, <2>3
    <3>2. CASE i = last
      BY <1>2, <2>4, <3>1, <3>2
    <3>3. CASE i < last
      <4>1. RawEnd(out[i]) <= out[last].foff
        BY <2>4, <3>1, <3>3 DEF Ascending
      <4>2. out[last].foff \in Nat /\ out[last].foff <= RawEnd(out[last])
        BY <1>2, <2>4 DEF Extents, Extent
      <4>3. RawEnd(out[i]) \in Nat /\ RawEnd(out[last]) \in Nat
        BY <1>2, <2>4, <3>1
      <4> QED BY <2>4, <4>1, <4>2, <4>3
    <3> QED BY <2>3, <3>1, <3>2, <3>3
  <2>6. FileSize(out, opts) \in Nat /\ soh <= FileSize(out, opts) /\ tail <= FileSize(out, opts)
    <3>1. tail \in Nat
      BY <2>4
    <3> HIDE DEF tail, soh
    <3> QED BY <1>1, <1>3, <3>1
  <2>7. \A i \in onDisk : RawEnd(out[i]) <= FileSize(out, opts)
    <3>1. tail \in Nat
      BY <2>4
    <3> HIDE DEF tail, onDisk
    <3> QED BY <2>5, <2>6, <3>1
  <2> QED BY <2>6, <2>7
<1> QED BY <1>4, <1>5

\* SizeOfImage covers the memory of every section.
LEMMA SizeOfImageCovers ==
  ASSUME NEW opts, Alignments(opts), NEW out, Extents(out), Ascending(out)
  PROVE  /\ SizeOfImage(out, opts) \in Nat
         /\ \A i \in DOMAIN out : VirtualEnd(out[i]) <= SizeOfImage(out, opts)
<1>1. \A i \in DOMAIN out : VirtualEnd(out[i]) \in Nat /\ out[i].rva \in Nat
                            /\ out[i].rva <= VirtualEnd(out[i])
  BY DEF Extents, Extent, VirtualEnd
<1>2. CASE out = << >>
  <2>1. Len(out) = 0 /\ DOMAIN out = {}
    BY <1>2
  <2>2. SizeOfImage(out, opts) = AlignUp(SizeOfHeaders(0, opts), opts.sa)
    BY <1>2 DEF SizeOfImage
  <2>3. SizeOfHeaders(0, opts) \in Nat /\ opts.sa \in Nat \ {0}
    BY HeaderSizes DEF Alignments
  <2> QED BY <2>1, <2>2, <2>3, AlignUpBounds
<1>3. CASE out /= << >>
  <2> DEFINE n == Len(out)
  <2>1. SizeOfImage(out, opts) = AlignUp(VirtualEnd(out[n]), opts.sa)
    BY <1>3 DEF SizeOfImage
  <2>2. ASSUME NEW i \in DOMAIN out
        PROVE  n \in DOMAIN out /\ VirtualEnd(out[i]) <= VirtualEnd(out[n])
    <3>1. i \in 1 .. n /\ n \in DOMAIN out /\ n \in Nat
      BY DEF Extents
    <3>2. CASE i = n
      BY <1>1, <3>1, <3>2
    <3>3. CASE i < n
      <4>1. VirtualEnd(out[i]) <= out[n].rva
        BY <3>1, <3>3 DEF Ascending, Extents
      <4> QED BY <1>1, <3>1, <4>1
    <3> QED BY <3>1, <3>2, <3>3
  <2>3. n \in DOMAIN out
    BY <1>3 DEF Extents
  <2>4. /\ SizeOfImage(out, opts) \in Nat /\ VirtualEnd(out[n]) <= SizeOfImage(out, opts)
        /\ VirtualEnd(out[n]) \in Nat
    BY <1>1, <2>1, <2>3, AlignUpBounds DEF Alignments
  <2> HIDE DEF n
  <2> QED BY <1>1, <2>2, <2>4
<1> QED BY <1>2, <1>3
===============================================================================
