---------------------------- MODULE BaseRelocsProofs ----------------------------
(***************************************************************************)
(* Proofs about BuildRelocSection and the loader that reads its stream:    *)
(* for every list of base relocations, in any order and with any number of *)
(* duplicates, the loader applies what was listed.                         *)
(***************************************************************************)
EXTENDS BaseRelocs, PEImageProofs, FiniteSetTheorems

-------------------------------------------------------------------------------
(* The inductive invariant *)

\* Where the block at a of the stream b ends, and that a loader can read it.
EndOf(b, a) == a + Word(b, a + 2) \div 2

ReadableAt(b, a) ==
  /\ a % 2 = 1 /\ a + 3 <= Len(b) /\ Word(b, a) \in Nat /\ Word(b, a + 2) > 8
  /\ EndOf(b, a) \in Nat /\ EndOf(b, a) % 2 = 1 /\ EndOf(b, a) <= Len(b) + 1

Zeros(b, from, to) == \A m \in Nat : from <= m /\ m <= to => b[m] = 0

\* p lists the entries in D once each, in ascending order.
Listed(D, n, p) ==
  /\ n \in Nat /\ p \in [1 .. n -> D]
  /\ \A j, k \in 1 .. n : p[j] = p[k] => j = k
  /\ \A i \in D : \E k \in 1 .. n : p[k] = i
  /\ \A k \in 1 .. n : k + 1 <= n => entries[p[k]].rva <= entries[p[k + 1]].rva

\* The k-th of them stands in the block at s[k], in halfword h[k].
Placed(b, n, p, s, h) ==
  /\ s \in [1 .. n -> Nat] /\ h \in [1 .. n -> Nat]
  /\ \A k \in 1 .. n :
       /\ ReadableAt(b, s[k]) /\ s[k] + 3 < h[k] /\ h[k] < EndOf(b, s[k])
       /\ Fixup(b[h[k]], Word(b, s[k])) = entries[p[k]]

\* The next one follows in its block, or is the first of the next block with
\* nothing but padding in between.
Follows(b, k, s, h) ==
  \/ s[k + 1] = s[k] /\ h[k + 1] = h[k] + 1
  \/ /\ s[k + 1] = EndOf(b, s[k]) /\ h[k + 1] = s[k + 1] + 4
     /\ Zeros(b, h[k] + 1, EndOf(b, s[k]) - 1)

\* They fill the stream from its first halfword to its last.
Chained(b, n, s, h) ==
  /\ \A k \in 1 .. n : k + 1 <= n => Follows(b, k, s, h)
  /\ n > 0 => /\ s[1] = 1 /\ h[1] = 5
              /\ EndOf(b, s[n]) = Len(b) + 1 /\ Zeros(b, h[n] + 1, Len(b))
  /\ n = 0 => b = << >>

Written(b, D, n, p, s, h) ==
  Listed(D, n, p) /\ Placed(b, n, p, s, h) /\ Chained(b, n, s, h)

\* The loader has applied the first m of them: it stands before the next one, in
\* the padding behind the last one, or at the end of the stream.
Before(m, n, s, h)  == m < n /\ pos = s[m + 1] /\ fix = h[m + 1]
Padded(m, n, s, h) ==
  /\ m > 0 /\ pos = s[m] /\ h[m] < fix /\ fix <= EndOf(buf, s[m])
  /\ Zeros(buf, h[m] + 1, EndOf(buf, s[m]) - 1)
  /\ m < n => s[m + 1] = EndOf(buf, s[m]) /\ h[m + 1] = s[m + 1] + 4
AtEnd(m, n) == m = n /\ pos = Len(buf) + 1

Loading(m, n, p, s, h) ==
  /\ m = Len(applied) /\ m <= n
  /\ \A k \in 1 .. m : applied[k] = entries[p[k]]
  /\ Before(m, n, s, h) \/ Padded(m, n, s, h) \/ AtEnd(m, n)
  /\ phase = "loaded" => AtEnd(m, n)

StreamTypes ==
  /\ entries \in Seq(BaseReloc) /\ todo \subseteq DOMAIN entries
  /\ buf \in Seq(Nat) /\ applied \in Seq(BaseReloc)
  /\ phase \in {"build", "load", "loaded"} /\ pos \in Nat /\ fix \in Nat
  /\ phase = "build" => pos = 1 /\ fix = 5 /\ applied = << >>
  /\ phase /= "build" => todo = {}

\* No entry of the stream is above one that is still to come.
Done  == DOMAIN entries \ todo
Ahead == \A i \in Done, j \in todo : entries[i].rva <= entries[j].rva

StreamInv ==
  /\ StreamTypes /\ Ahead
  /\ \E m, n, p, s, h :
       Written(buf, Done, n, p, s, h) /\ (phase /= "build" => Loading(m, n, p, s, h))

-------------------------------------------------------------------------------
(* Pages and halfwords *)

LEMMA DivModNat ==
  ASSUME NEW v \in Nat, NEW w \in Nat \ {0}
  PROVE  /\ v % w \in Nat /\ v % w < w /\ v \div w \in Nat
         /\ v = w * (v \div w) + (v % w)
<1>1. v \div w \in Nat
  BY SMT
<1>2. v % w \in Nat /\ v % w < w
  BY SMT
<1>3. v = w * (v \div w) + (v % w)
  BY SMT
<1> QED BY <1>1, <1>2, <1>3

LEMMA DivUnique ==
  ASSUME NEW w \in Nat \ {0}, NEW q \in Nat, NEW r \in Nat, r < w
  PROVE  (w * q + r) \div w = q /\ (w * q + r) % w = r
<1> DEFINE v == w * q + r
           d == v \div w
           m == v % w
<1>1. v \in Nat
  OBVIOUS
<1>2. m \in Nat /\ m < w /\ d \in Nat /\ v = w * d + m
  BY <1>1, DivModNat
<1> HIDE DEF d, m
<1>3. d = q
  <2>1. CASE d < q
    <3>1. w * (d + 1) <= w * q
      BY <1>2, <2>1
    <3> QED BY <1>2, <3>1
  <2>2. CASE q < d
    <3>1. w * (q + 1) <= w * d
      BY <1>2, <2>2
    <3> QED BY <1>2, <3>1
  <2> QED BY <1>2, <2>1, <2>2
<1>4. m = r
  BY <1>2, <1>3
<1> QED BY <1>3, <1>4 DEF d, m

LEMMA PageSizeNat == PageSize \in Nat \ {0}
BY DEF PageSize

\* A page starts at a multiple of its size, at most the size below.
LEMMA PageBounds ==
  ASSUME NEW v \in Nat
  PROVE  /\ PageOf(v) \in Nat /\ PageOf(v) <= v /\ v - PageOf(v) = v % PageSize
         /\ v % PageSize \in Nat /\ v % PageSize < PageSize
<1> DEFINE d == v \div PageSize
           m == v % PageSize
<1>1. d \in Nat /\ m \in Nat /\ m < PageSize /\ v = PageSize * d + m
  BY PageSizeNat, DivModNat
<1>2. PageOf(v) = d * PageSize
  BY DEF PageOf
<1> HIDE DEF d, m
<1>3. PageOf(v) \in Nat /\ v = PageOf(v) + m
  BY <1>1, <1>2, PageSizeNat
<1> QED BY <1>1, <1>3 DEF m

\* What lies between two addresses of a page is on that page.
LEMMA PageBetween ==
  ASSUME NEW u \in Nat, NEW v \in Nat, NEW w \in Nat, u <= v, v <= w, PageOf(u) = PageOf(w)
  PROVE  PageOf(v) = PageOf(u)
<1> DEFINE a == u \div PageSize
           b == v \div PageSize
           c == w \div PageSize
           x == u % PageSize
           y == v % PageSize
           z == w % PageSize
<1>1. a \in Nat /\ x \in Nat /\ x < PageSize /\ u = PageSize * a + x
  BY PageSizeNat, DivModNat
<1>2. b \in Nat /\ y \in Nat /\ y < PageSize /\ v = PageSize * b + y
  BY PageSizeNat, DivModNat
<1>3. c \in Nat /\ z \in Nat /\ z < PageSize /\ w = PageSize * c + z
  BY PageSizeNat, DivModNat
<1>4. PageOf(u) = a * PageSize /\ PageOf(v) = b * PageSize /\ PageOf(w) = c * PageSize
  BY DEF PageOf
<1> HIDE DEF a, b, c, x, y, z
<1> DEFINE P == PageSize
<1>5. P \in Nat \ {0}
  BY PageSizeNat
<1> HIDE DEF P
<1>6. P * a = P * c
  BY <1>1, <1>3, <1>4, PageSizeNat DEF P
<1>7. ~(b < a)
  <2>1. SUFFICES ASSUME b < a PROVE FALSE
    OBVIOUS
  <2>2. P * (b + 1) <= P * a
    BY <1>1, <1>2, <1>5, <2>1
  <2> QED BY <1>1, <1>2, <1>5, <2>2 DEF P
<1>8. ~(a < b)
  <2>1. SUFFICES ASSUME a < b PROVE FALSE
    OBVIOUS
  <2>2. P * (a + 1) <= P * b
    BY <1>1, <1>2, <1>5, <2>1
  <2> QED BY <1>1, <1>2, <1>3, <1>5, <1>6, <2>2 DEF P
<1> QED BY <1>1, <1>2, <1>4, <1>7, <1>8

LEMMA HalfShape ==
  ASSUME NEW v \in Nat
  PROVE  /\ Half(v) \in Seq(Nat) /\ Len(Half(v)) = 2
         /\ Word(Half(v), 1) = v
<1> DEFINE lo == v % 65536
           hi == v \div 65536
<1>1. lo \in Nat /\ hi \in Nat /\ v = 65536 * hi + lo
  BY DivModNat
<1>2. Half(v) = << lo, hi >>
  BY DEF Half
<1> HIDE DEF lo, hi
<1>3. Half(v) \in Seq(Nat) /\ Len(Half(v)) = 2 /\ Half(v)[1] = lo /\ Half(v)[2] = hi
  <2> DEFINE t == << lo, hi >>
  <2>1. t \in Seq(Nat) /\ Len(t) = 2 /\ t[1] = lo /\ t[2] = hi
    BY <1>1
  <2> HIDE DEF t
  <2>2. Half(v) = t
    BY <1>2 DEF t
  <2> QED BY <2>1, <2>2, Zenon
<1>4. Word(Half(v), 1) = v
  BY <1>1, <1>3 DEF Word
<1> QED BY <1>3, <1>4

LEMMA BlockSizeShape ==
  ASSUME NEW c \in Nat \ {0}
  PROVE  /\ BlockSize(c) \in Nat /\ BlockSize(c) > 8
         /\ BlockSize(c) \div 2 = c + 4 \/ BlockSize(c) \div 2 = c + 5
         /\ (BlockSize(c) \div 2) % 2 = 0
         /\ BlockSize(c) = 2 * (BlockSize(c) \div 2)
         /\ 8 + 2 * c < BlockSize(c) <=> BlockSize(c) \div 2 = c + 5
BY DEF BlockSize

\* A loader decodes what Encode has written.
LEMMA EncodeDecodes ==
  ASSUME NEW e \in BaseReloc
  PROVE  /\ Encode(e, PageOf(e.rva)) \in Nat
         /\ Fixup(Encode(e, PageOf(e.rva)), PageOf(e.rva)) = e
<1> DEFINE t == e.type
           m == e.rva % PageSize
           x == t * PageSize + m
<1>1. e.rva \in Nat /\ t \in Nat
  BY DEF BaseReloc, BaseRelocTypes
<1>2. m \in Nat /\ m < PageSize /\ PageOf(e.rva) \in Nat /\ e.rva - PageOf(e.rva) = m
  BY <1>1, PageBounds
<1>3. m % PageSize = m
  <2>1. (PageSize * 0 + m) % PageSize = m
    BY <1>2, PageSizeNat, DivUnique
  <2>2. PageSize * 0 + m = m
    BY <1>2, PageSizeNat
  <2> QED BY <2>1, <2>2
<1>4. Encode(e, PageOf(e.rva)) = x
  BY <1>2, <1>3 DEF Encode
<1> HIDE DEF m, t
<1>5. x = PageSize * t + m
  BY <1>1, <1>2, PageSizeNat
<1>6. x \in Nat
  BY <1>1, <1>2, PageSizeNat
<1> HIDE DEF x
<1>7. x \div PageSize = t /\ x % PageSize = m
  <2>1. (PageSize * t + m) \div PageSize = t /\ (PageSize * t + m) % PageSize = m
    BY <1>1, <1>2, PageSizeNat, DivUnique, Zenon
  <2> QED BY <1>5, <2>1, Zenon
<1>8. Fixup(x, PageOf(e.rva)) = [rva |-> PageOf(e.rva) + m, type |-> t]
  BY <1>7 DEF Fixup
<1>9. PageOf(e.rva) + m = e.rva
  BY <1>1, <1>2
<1>10. e = [rva |-> e.rva, type |-> e.type]
  BY DEF BaseReloc
<1> QED BY <1>4, <1>6, <1>8, <1>9, <1>10 DEF t

-------------------------------------------------------------------------------
(* A stream and one more block *)

LEMMA ConcatHalves ==
  ASSUME NEW b \in Seq(Nat), NEW t \in Seq(Nat)
  PROVE  /\ b \o t \in Seq(Nat) /\ Len(b \o t) = Len(b) + Len(t)
         /\ \A m \in Nat : 1 <= m /\ m <= Len(b) => (b \o t)[m] = b[m]
         /\ \A m \in Nat : 1 <= m /\ m <= Len(t) => (b \o t)[Len(b) + m] = t[m]
<1>1. b \o t \in Seq(Nat) /\ Len(b \o t) = Len(b) + Len(t)
  OBVIOUS
<1>2. ASSUME NEW m \in Nat, 1 <= m, m <= Len(b) PROVE (b \o t)[m] = b[m]
  BY <1>2
<1>3. ASSUME NEW m \in Nat, 1 <= m, m <= Len(t) PROVE (b \o t)[Len(b) + m] = t[m]
  <2>1. Len(b) + m \in 1 .. Len(b) + Len(t) /\ Len(b) + m > Len(b) /\ (Len(b) + m) - Len(b) = m
    BY <1>3
  <2> QED BY <2>1
<1> QED BY <1>1, <1>2, <1>3

LEMMA OldBlocksKept ==
  ASSUME NEW b \in Seq(Nat), NEW t \in Seq(Nat), NEW a \in Nat, ReadableAt(b, a)
  PROVE  /\ ReadableAt(b \o t, a) /\ EndOf(b \o t, a) = EndOf(b, a)
         /\ Word(b \o t, a) = Word(b, a)
<1> DEFINE x == b \o t
<1>1. x \in Seq(Nat) /\ Len(x) >= Len(b)
  <2>1. Len(x) = Len(b) + Len(t) /\ Len(t) \in Nat /\ Len(b) \in Nat
    BY ConcatHalves
  <2> QED BY <2>1, ConcatHalves
<1>2. a >= 1 /\ a + 3 <= Len(b)
  <2>1. a % 2 = 1 /\ a + 3 <= Len(b)
    BY Zenon DEF ReadableAt
  <2>2. a >= 1
    BY <2>1
  <2> QED BY <2>1, <2>2
<1>3. x[a] = b[a] /\ x[a + 1] = b[a + 1]
  BY <1>2, ConcatHalves
<1>3a. x[a + 2] = b[a + 2] /\ x[(a + 2) + 1] = b[(a + 2) + 1]
  <2>1. a + 2 \in Nat /\ (a + 2) + 1 \in Nat /\ (a + 2) + 1 <= Len(b)
    BY <1>2
  <2> QED BY <1>2, <2>1, ConcatHalves
<1> HIDE DEF x
<1>4. Word(x, a) = Word(b, a) /\ Word(x, a + 2) = Word(b, a + 2)
  BY <1>3, <1>3a DEF Word
<1>5. EndOf(x, a) = EndOf(b, a)
  BY <1>4 DEF EndOf
<1>6. ReadableAt(x, a)
  <2>1. EndOf(b, a) \in Nat /\ EndOf(b, a) <= Len(b) + 1
    BY Zenon DEF ReadableAt
  <2>2. Len(b) \in Nat /\ Len(x) \in Nat /\ a + 3 <= Len(x)
    BY <1>1, <1>2
  <2>3. EndOf(b, a) <= Len(x) + 1
    BY <1>1, <2>1, <2>2
  <2> QED BY <1>4, <1>5, <2>2, <2>3, Zenon DEF ReadableAt
<1> QED BY <1>4, <1>5, <1>6 DEF x

LEMMA OldZerosKept ==
  ASSUME NEW b \in Seq(Nat), NEW t \in Seq(Nat), NEW i \in Nat, NEW j \in Nat,
         1 <= i, j <= Len(b), Zeros(b, i, j)
  PROVE  Zeros(b \o t, i, j)
<1>1. ASSUME NEW m \in Nat, i <= m, m <= j PROVE (b \o t)[m] = 0
  <2>1. 1 <= m /\ m <= Len(b)
    BY <1>1
  <2>2. (b \o t)[m] = b[m]
    BY <2>1, ConcatHalves
  <2> QED BY <1>1, <2>2 DEF Zeros
<1> QED BY <1>1 DEF Zeros

\* A block t of the c entries that q lists.
IsBlock(t, c, q) ==
  /\ t \in Seq(Nat) /\ Word(t, 1) \in Nat /\ Word(t, 3) > 8 /\ Word(t, 3) \div 2 = Len(t)
  /\ c + 4 <= Len(t) /\ Len(t) % 2 = 0
  /\ \A k \in 1 .. c : Fixup(t[k + 4], Word(t, 1)) = entries[q[k]]
  /\ Zeros(t, c + 5, Len(t))


\* Two words, a body and what is behind it.
Parts(u, v, w, z) == u \o v \o w \o z

HasParts(t, u, v, w, z) ==
  /\ t \in Seq(Nat) /\ Len(t) = 4 + Len(w) + Len(z)
  /\ Word(t, 1) = Word(u, 1) /\ Word(t, 3) = Word(v, 1)
  /\ \A k \in 1 .. Len(w) : t[k + 4] = w[k]
  /\ \A k \in 1 .. Len(z) : t[4 + Len(w) + k] = z[k]

LEMMA PartsOfBlock ==
  ASSUME NEW u \in Seq(Nat), Len(u) = 2, NEW v \in Seq(Nat), Len(v) = 2,
         NEW w \in Seq(Nat), NEW z \in Seq(Nat)
  PROVE  HasParts(Parts(u, v, w, z), u, v, w, z)
<1> DEFINE x == u \o v
           y == x \o w
           t == Parts(u, v, w, z)
<1>0. t = y \o z
  BY DEF Parts
<1>1. /\ x \in Seq(Nat) /\ Len(x) = Len(u) + Len(v)
      /\ \A m \in Nat : 1 <= m /\ m <= Len(u) => x[m] = u[m]
      /\ \A m \in Nat : 1 <= m /\ m <= Len(v) => x[Len(u) + m] = v[m]
  BY ConcatHalves, Zenon
<1>2. /\ y \in Seq(Nat) /\ Len(y) = Len(x) + Len(w)
      /\ \A m \in Nat : 1 <= m /\ m <= Len(x) => y[m] = x[m]
      /\ \A m \in Nat : 1 <= m /\ m <= Len(w) => y[Len(x) + m] = w[m]
  BY <1>1, ConcatHalves, Zenon
<1> HIDE DEF x, y, t
<1>3. /\ t \in Seq(Nat) /\ Len(t) = Len(y) + Len(z)
      /\ \A m \in Nat : 1 <= m /\ m <= Len(y) => t[m] = y[m]
      /\ \A m \in Nat : 1 <= m /\ m <= Len(z) => t[Len(y) + m] = z[m]
  <2>1. y \in Seq(Nat)
    BY <1>2
  <2>2. /\ y \o z \in Seq(Nat) /\ Len(y \o z) = Len(y) + Len(z)
        /\ \A m \in Nat : 1 <= m /\ m <= Len(y) => (y \o z)[m] = y[m]
        /\ \A m \in Nat : 1 <= m /\ m <= Len(z) => (y \o z)[Len(y) + m] = z[m]
    BY <2>1, ConcatHalves, Zenon
  <2> QED BY ONLY <1>0, <2>2
<1>4. Len(w) \in Nat /\ Len(z) \in Nat
  OBVIOUS
<1>5. Len(x) = 4 /\ Len(y) = 4 + Len(w) /\ Len(t) = 4 + Len(w) + Len(z)
  BY <1>1, <1>2, <1>3, <1>4
<1>6. t[1] = u[1] /\ t[2] = u[2]
  BY <1>1, <1>2, <1>3, <1>4, <1>5, SMTT(30)
<1>7. t[3] = v[1] /\ t[4] = v[2]
  <2>1. x[2 + 1] = v[1] /\ x[2 + 2] = v[2]
    BY <1>1
  <2> QED BY <1>2, <1>3, <1>4, <1>5, <2>1
<1>8. ASSUME NEW k \in 1 .. Len(w) PROVE t[k + 4] = w[k]
  <2>1. k \in Nat /\ 1 <= k /\ k <= Len(w) /\ 4 + k = k + 4
    BY <1>4
  <2>2. y[4 + k] = w[k]
    BY <1>2, <1>5, <2>1
  <2>3. k + 4 \in Nat /\ 1 <= k + 4 /\ k + 4 <= Len(y)
    BY <1>4, <1>5, <2>1
  <2>4. t[k + 4] = y[k + 4]
    BY <1>3, <2>3
  <2> QED BY <2>1, <2>2, <2>4
<1>9. ASSUME NEW k \in 1 .. Len(z) PROVE t[4 + Len(w) + k] = z[k]
  <2>1. k \in Nat /\ 1 <= k /\ k <= Len(z)
    BY <1>4
  <2> QED BY <1>3, <1>5, <2>1
<1>10. Word(t, 1) = Word(u, 1) /\ Word(t, 3) = Word(v, 1)
  BY <1>6, <1>7 DEF Word
<1> QED BY <1>3, <1>5, <1>8, <1>9, <1>10 DEF t, HasParts

\* Block writes such a block.
LEMMA BlockIsBlock ==
  ASSUME entries \in Seq(BaseReloc), NEW c \in Nat \ {0}, NEW q \in [1 .. c -> DOMAIN entries],
         \A j, k \in 1 .. c : PageOf(entries[q[j]].rva) = PageOf(entries[q[k]].rva)
  PROVE  IsBlock(Block(q), c, q)
<1> DEFINE page == PageOf(entries[q[1]].rva)
           size == BlockSize(c)
           body == [k \in 1 .. c |-> Encode(entries[q[k]], page)]
           z == Padding(c)
<1>1. 1 \in 1 .. c /\ DOMAIN q = 1 .. c /\ Len(q) = c
  OBVIOUS
<1>2. ASSUME NEW k \in 1 .. c
      PROVE  /\ entries[q[k]] \in BaseReloc /\ PageOf(entries[q[k]].rva) = page
             /\ Encode(entries[q[k]], page) \in Nat
             /\ Fixup(Encode(entries[q[k]], page), page) = entries[q[k]]
  <2>1. entries[q[k]] \in BaseReloc /\ PageOf(entries[q[k]].rva) = page
    BY <1>1
  <2> QED BY <2>1, EncodeDecodes
<1>3. page \in Nat
  <2>1. entries[q[1]] \in BaseReloc
    BY <1>1
  <2>2. entries[q[1]].rva \in Nat
    BY <2>1 DEF BaseReloc
  <2> QED BY <2>2, PageBounds
<1>4. /\ size \in Nat /\ size > 8 /\ size \div 2 \in Nat /\ (size \div 2) % 2 = 0
      /\ z \in Seq(Nat) /\ size \div 2 = c + 4 + Len(z)
      /\ \/ Len(z) = 0
         \/ Len(z) = 1 /\ z[1] = 0
  <2>1. /\ size \in Nat /\ size > 8 /\ (size \div 2) % 2 = 0
        /\ size \div 2 = c + 4 \/ size \div 2 = c + 5
        /\ 8 + 2 * c < size <=> size \div 2 = c + 5
    BY BlockSizeShape, Zenon
  <2>2. CASE 8 + 2 * c < size
    <3>1. z = << 0 >>
      BY <2>2 DEF Padding
    <3> HIDE DEF size, z
    <3> QED BY <2>1, <2>2, <3>1
  <2>3. CASE ~(8 + 2 * c < size)
    <3>1. z = << >>
      BY <2>3 DEF Padding
    <3> HIDE DEF size, z
    <3> QED BY <2>1, <2>3, <3>1
  <2> QED BY <2>2, <2>3
<1>5. Block(q) = Parts(Half(page), Half(size), body, z)
  BY <1>1 DEF Block, Parts
<1>6. body \in Seq(Nat) /\ Len(body) = c /\ \A k \in 1 .. c : body[k] = Encode(entries[q[k]], page)
  <2>1. body \in [1 .. c -> Nat]
    BY <1>2
  <2>2. \A k \in 1 .. c : body[k] = Encode(entries[q[k]], page)
    OBVIOUS
  <2> HIDE DEF body
  <2>3. c \in Nat
    OBVIOUS
  <2>4. body \in Seq(Nat) /\ Len(body) = c
    BY ONLY <2>1, <2>3
  <2> QED BY <2>2, <2>4
<1> DEFINE t == Parts(Half(page), Half(size), body, z)
<1> HIDE DEF body, z, page, size
<1>7. /\ Half(page) \in Seq(Nat) /\ Len(Half(page)) = 2 /\ Word(Half(page), 1) = page
      /\ Half(size) \in Seq(Nat) /\ Len(Half(size)) = 2 /\ Word(Half(size), 1) = size
  <2>1. size \in Nat
    BY <1>4
  <2> QED BY <1>3, <2>1, HalfShape, Zenon
<1>8. /\ t \in Seq(Nat) /\ Len(t) = 4 + Len(body) + Len(z)
      /\ Word(t, 1) = Word(Half(page), 1) /\ Word(t, 3) = Word(Half(size), 1)
      /\ \A k \in 1 .. Len(body) : t[k + 4] = body[k]
      /\ \A k \in 1 .. Len(z) : t[4 + Len(body) + k] = z[k]
  <2>1. z \in Seq(Nat) /\ body \in Seq(Nat)
    BY <1>4, <1>6
  <2>2. HasParts(t, Half(page), Half(size), body, z)
    BY <1>7, <2>1, PartsOfBlock, Zenon
  <2> QED BY <2>2, Zenon DEF HasParts
<1>9. Word(t, 1) = page /\ Word(t, 3) = size
  BY <1>7, <1>8, Zenon
<1> HIDE DEF t
<1> DEFINE l == Len(z)
           d == size \div 2
           len == Len(t)
<1>10. /\ l \in {0, 1} /\ d % 2 = 0 /\ d = c + 4 + l /\ len = 4 + c + l
       /\ l = 1 => z[1] = 0
  BY <1>4, <1>6, <1>8, SMTT(30)
<1> HIDE DEF l, d, len
<1>11. c \in Nat /\ len = d /\ c + 4 <= len /\ len % 2 = 0
  BY <1>10
<1>12. ASSUME NEW k \in 1 .. c PROVE Fixup(t[k + 4], page) = entries[q[k]]
  BY <1>2, <1>6, <1>8
<1>13. ASSUME NEW m \in Nat, c + 5 <= m, m <= len PROVE t[m] = 0
  <2>1. l = 1 /\ m = 4 + c + 1 /\ 1 \in 1 .. l
    BY <1>10, <1>11, <1>13
  <2>2. t[4 + Len(body) + 1] = z[1]
    BY <1>8, <2>1 DEF l
  <2> QED BY <1>6, <1>10, <2>1, <2>2
<1>14. Zeros(t, c + 5, Len(t))
  BY <1>13, Zenon DEF Zeros, len
<1>15. Len(t) = size \div 2 /\ c + 4 <= Len(t) /\ Len(t) % 2 = 0
  BY <1>11, Zenon DEF len, d
<1>16. t \in Seq(Nat) /\ Word(t, 1) \in Nat /\ Word(t, 3) > 8 /\ Word(t, 3) \div 2 = Len(t)
  BY <1>3, <1>4, <1>8, <1>9, <1>15, Zenon
<1>17. IsBlock(t, c, q)
  BY <1>9, <1>12, <1>14, <1>15, <1>16, Zenon DEF IsBlock
<1> QED BY <1>5, <1>17 DEF t

-------------------------------------------------------------------------------
(* The entries of a block behind the entries of the stream *)

Joined(n, c, f, g) == [k \in 1 .. n + c |-> IF k <= n THEN f[k] ELSE g[k - n]]

Joins(r, n, c, f, g) ==
  /\ \A k \in 1 .. n : k \in 1 .. n + c /\ r[k] = f[k]
  /\ \A k \in 1 .. c : n + k \in 1 .. n + c /\ r[n + k] = g[k]
  /\ \A k \in 1 .. n + c : k \in 1 .. n \/ \E j \in 1 .. c : k = n + j

LEMMA JoinedShape ==
  ASSUME NEW n \in Nat, NEW c \in Nat, NEW f, NEW g
  PROVE  Joins(Joined(n, c, f, g), n, c, f, g)
<1>1. ASSUME NEW k \in 1 .. n PROVE k \in 1 .. n + c /\ Joined(n, c, f, g)[k] = f[k]
  BY DEF Joined
<1>2. ASSUME NEW k \in 1 .. c PROVE n + k \in 1 .. n + c /\ Joined(n, c, f, g)[n + k] = g[k]
  <2>1. n + k \in 1 .. n + c /\ ~(n + k <= n) /\ (n + k) - n = k
    OBVIOUS
  <2> QED BY <2>1 DEF Joined
<1>3. ASSUME NEW k \in 1 .. n + c, k \notin 1 .. n PROVE \E j \in 1 .. c : k = n + j
  <2>1. k - n \in 1 .. c /\ k = n + (k - n)
    BY <1>3
  <2> QED BY <2>1
<1> QED BY <1>1, <1>2, <1>3, Zenon DEF Joins

LEMMA JoinedRange ==
  ASSUME NEW n \in Nat, NEW c \in Nat, NEW A, NEW B,
         NEW f \in [1 .. n -> A], NEW g \in [1 .. c -> B]
  PROVE  Joined(n, c, f, g) \in [1 .. n + c -> A \cup B]
<1> DEFINE r == Joined(n, c, f, g)
<1>1. Joins(r, n, c, f, g)
  BY JoinedShape, Zenon
<1>2. r = [k \in 1 .. n + c |-> r[k]]
  BY DEF Joined
<1> HIDE DEF r
<1>3. ASSUME NEW k \in 1 .. n + c PROVE r[k] \in A \cup B
  <2>1. CASE k \in 1 .. n
    BY <1>1, <2>1 DEF Joins
  <2>2. ASSUME NEW j \in 1 .. c, k = n + j PROVE r[k] \in A \cup B
    BY <1>1, <2>2 DEF Joins
  <2> QED BY <1>1, <2>1, <2>2, Zenon DEF Joins
<1>4. r \in [1 .. n + c -> A \cup B]
  BY <1>2, <1>3
<1> QED BY <1>4 DEF r

LEMMA ListedJoined ==
  ASSUME NEW D, NEW n, NEW p, Listed(D, n, p), NEW W, NEW c, NEW q, Listed(W, c, q), D \cap W = {},
         \A i \in D, j \in W : entries[i].rva <= entries[j].rva
  PROVE  Listed(D \cup W, n + c, Joined(n, c, p, q))
<1> DEFINE r == Joined(n, c, p, q)
<1>1. /\ n \in Nat /\ p \in [1 .. n -> D]
      /\ \A j, k \in 1 .. n : p[j] = p[k] => j = k
      /\ \A i \in D : \E k \in 1 .. n : p[k] = i
      /\ \A k \in 1 .. n : k + 1 <= n => entries[p[k]].rva <= entries[p[k + 1]].rva
  BY Zenon DEF Listed
<1>2. /\ c \in Nat /\ q \in [1 .. c -> W]
      /\ \A j, k \in 1 .. c : q[j] = q[k] => j = k
      /\ \A i \in W : \E k \in 1 .. c : q[k] = i
      /\ \A k \in 1 .. c : k + 1 <= c => entries[q[k]].rva <= entries[q[k + 1]].rva
  BY Zenon DEF Listed
<1>3. /\ \A k \in 1 .. n : k \in 1 .. n + c /\ r[k] = p[k]
      /\ \A k \in 1 .. c : n + k \in 1 .. n + c /\ r[n + k] = q[k]
      /\ \A k \in 1 .. n + c : k \in 1 .. n \/ \E j \in 1 .. c : k = n + j
  <2>1. Joins(r, n, c, p, q)
    BY <1>1, <1>2, JoinedShape, Zenon
  <2> QED BY <2>1, Zenon DEF Joins
<1>4. r \in [1 .. n + c -> D \cup W]
  BY <1>1, <1>2, JoinedRange, Zenon
<1> HIDE DEF r
<1>5. ASSUME NEW j \in 1 .. n + c, NEW k \in 1 .. n + c, r[j] = r[k] PROVE j = k
  <2>1. CASE j \in 1 .. n /\ k \in 1 .. n
    BY <1>1, <1>3, <1>5, <2>1
  <2>2. ASSUME NEW a \in 1 .. n, NEW b \in 1 .. c PROVE r[a] /= r[n + b]
    <3>1. r[a] \in D /\ r[n + b] \in W
      <4>1. r[a] = p[a] /\ r[n + b] = q[b]
        BY <1>3, Zenon
      <4>2. p[a] \in D /\ q[b] \in W
        BY <1>1, <1>2
      <4> QED BY <4>1, <4>2, Zenon
    <3> QED BY <3>1
  <2>3. ASSUME NEW a \in 1 .. c, NEW b \in 1 .. c, j = n + a, k = n + b PROVE j = k
    <3>1. q[a] = q[b]
      BY <1>3, <1>5, <2>3, Zenon
    <3>2. a = b
      BY <1>2, <3>1
    <3> QED BY <2>3, <3>2
  <2>4. j \in 1 .. n \/ \E a \in 1 .. c : j = n + a
    BY <1>3, Zenon
  <2>5. k \in 1 .. n \/ \E b \in 1 .. c : k = n + b
    BY <1>3, Zenon
  <2>6. CASE j \in 1 .. n
    <3>1. ASSUME NEW b \in 1 .. c, k = n + b PROVE FALSE
      BY <1>5, <2>2, <2>6, <3>1
    <3> QED BY <2>1, <2>5, <2>6, <3>1, Zenon
  <2>7. ASSUME NEW a \in 1 .. c, j = n + a PROVE j = k
    <3>1. k \notin 1 .. n
      BY <1>5, <2>2, <2>7
    <3> QED BY <2>3, <2>5, <2>7, <3>1, Zenon
  <2> QED BY <2>4, <2>6, <2>7, Zenon
<1>6. ASSUME NEW i \in D \cup W PROVE \E k \in 1 .. n + c : r[k] = i
  <2>1. CASE i \in D
    BY <1>1, <1>3, <2>1
  <2>2. CASE i \in W
    BY <1>2, <1>3, <2>2, SMTT(30)
  <2> QED BY <2>1, <2>2
<1>7. ASSUME NEW k \in 1 .. n + c, k + 1 <= n + c
      PROVE  entries[r[k]].rva <= entries[r[k + 1]].rva
  <2>1. CASE k + 1 <= n
    <3>1. k \in 1 .. n /\ k + 1 \in 1 .. n
      BY <1>1, <2>1
    <3> QED BY <1>1, <1>3, <2>1, <3>1
  <2>2. CASE k = n
    <3>1. k \in 1 .. n /\ 1 \in 1 .. c /\ k + 1 = n + 1
      BY <1>1, <1>2, <1>7, <2>2
    <3>2. r[k] \in D /\ r[k + 1] \in W
      BY <1>1, <1>2, <1>3, <3>1
    <3> QED BY <3>2
  <2>3. CASE k > n
    <3>1. PICK j \in 1 .. c : k = n + j
      BY <1>1, <1>3, <2>3
    <3>2. j + 1 \in 1 .. c /\ k + 1 = n + (j + 1) /\ j + 1 <= c
      BY <1>1, <1>2, <1>7, <3>1
    <3> QED BY <1>2, <1>3, <3>1, <3>2
  <2> QED BY <1>1, <1>2, <2>1, <2>2, <2>3
<1>8. n + c \in Nat
  BY <1>1, <1>2
<1>9. Listed(D \cup W, n + c, r)
  BY <1>4, <1>5, <1>6, <1>7, <1>8, Zenon DEF Listed
<1> QED BY <1>9 DEF r

LEMMA PlacedJoined ==
  ASSUME NEW b \in Seq(Nat), Len(b) % 2 = 0, NEW n \in Nat, NEW p, NEW s, NEW h, Placed(b, n, p, s, h),
         NEW c \in Nat \ {0}, NEW q, NEW t, IsBlock(t, c, q)
  PROVE  Placed(b \o t, n + c, Joined(n, c, p, q),
                Joined(n, c, s, [k \in 1 .. c |-> Len(b) + 1]),
                Joined(n, c, h, [k \in 1 .. c |-> Len(b) + 4 + k]))
<1> DEFINE x == b \o t
           u == [k \in 1 .. c |-> Len(b) + 1]
           v == [k \in 1 .. c |-> Len(b) + 4 + k]
           r == Joined(n, c, p, q)
           s2 == Joined(n, c, s, u)
           h2 == Joined(n, c, h, v)
<1>1. /\ s \in [1 .. n -> Nat] /\ h \in [1 .. n -> Nat]
      /\ \A k \in 1 .. n :
           /\ ReadableAt(b, s[k]) /\ s[k] + 3 < h[k] /\ h[k] < EndOf(b, s[k])
           /\ Fixup(b[h[k]], Word(b, s[k])) = entries[p[k]]
  BY Zenon DEF Placed
<1>2. /\ t \in Seq(Nat) /\ Word(t, 1) \in Nat /\ Word(t, 3) > 8 /\ Word(t, 3) \div 2 = Len(t)
      /\ c + 4 <= Len(t) /\ Len(t) % 2 = 0
      /\ \A k \in 1 .. c : Fixup(t[k + 4], Word(t, 1)) = entries[q[k]]
  BY Zenon DEF IsBlock
<1>3. u \in [1 .. c -> Nat] /\ v \in [1 .. c -> Nat]
  OBVIOUS
<1>3a. \A k \in 1 .. c : u[k] = Len(b) + 1 /\ v[k] = Len(b) + 4 + k
  OBVIOUS
<1> HIDE DEF u, v
<1>4. Joins(r, n, c, p, q) /\ Joins(s2, n, c, s, u) /\ Joins(h2, n, c, h, v)
  BY JoinedShape
<1>5. s2 \in [1 .. n + c -> Nat] /\ h2 \in [1 .. n + c -> Nat]
  <2>1. Nat \cup Nat = Nat
    OBVIOUS
  <2>2. s2 \in [1 .. n + c -> Nat \cup Nat] /\ h2 \in [1 .. n + c -> Nat \cup Nat]
    BY <1>1, <1>3, JoinedRange, Zenon
  <2> QED BY <2>1, <2>2, Zenon
<1> HIDE DEF r, s2, h2
<1>6. /\ x \in Seq(Nat) /\ Len(x) = Len(b) + Len(t)
      /\ \A m \in Nat : 1 <= m /\ m <= Len(b) => x[m] = b[m]
      /\ \A m \in Nat : 1 <= m /\ m <= Len(t) => x[Len(b) + m] = t[m]
  BY <1>2, ConcatHalves, Zenon
<1> HIDE DEF x
<1> DEFINE a == Len(b) + 1
           lb == Len(b)
           lt == Len(t)
           lx == Len(x)
           size == Word(t, 3)
<1>7. /\ lb \in Nat /\ lt \in Nat /\ c \in Nat /\ lx = lb + lt /\ lb % 2 = 0 /\ lt % 2 = 0
      /\ c >= 1 /\ c + 4 <= lt /\ size \div 2 = lt
  <2>1. c \in Nat /\ c >= 1
    OBVIOUS
  <2>2. lb \in Nat /\ lt \in Nat
    <3>1. t \in Seq(Nat)
      BY <1>2, Zenon
    <3> QED BY <3>1, LenProperties, Zenon
  <2> QED BY <1>2, <1>6, <2>1, <2>2, Zenon
<1>8. Word(x, a) = Word(t, 1) /\ Word(x, a + 2) = Word(t, 3)
  <2>1. /\ x[Len(b) + 1] = t[1] /\ x[Len(b) + 2] = t[2]
        /\ x[Len(b) + 3] = t[3] /\ x[Len(b) + 4] = t[4]
    <3> HIDE DEF lt
    <3>1. 4 <= lt
      BY ONLY <1>7
    <3>2. \A m \in Nat : 1 <= m /\ m <= lt => x[Len(b) + m] = t[m]
      BY <1>6 DEF lt
    <3> QED BY ONLY <1>7, <3>1, <3>2
  <2>2. /\ a = Len(b) + 1 /\ a + 1 = Len(b) + 2 /\ a + 2 = Len(b) + 3
        /\ (a + 2) + 1 = Len(b) + 4 /\ 1 + 1 = 2 /\ 3 + 1 = 4
    BY <1>7
  <2> HIDE DEF a
  <2>3. x[a] = t[1] /\ x[a + 1] = t[1 + 1] /\ x[a + 2] = t[3] /\ x[(a + 2) + 1] = t[3 + 1]
    BY ONLY <2>1, <2>2
  <2> QED BY ONLY <2>3 DEF Word
<1>9. EndOf(x, a) = Len(x) + 1
  <2>1. EndOf(x, a) = a + size \div 2
    BY <1>8, Zenon DEF EndOf
  <2>2. a + lt = lx + 1
    <3>1. a = lb + 1
      OBVIOUS
    <3> HIDE DEF a, lb, lt, lx
    <3> QED BY ONLY <1>7, <3>1
  <2> QED BY <1>7, <2>1, <2>2, Zenon
<1>10. ReadableAt(x, a)
  <2>1. a = lb + 1
    OBVIOUS
  <2>2. /\ a % 2 = 1 /\ a + 3 <= lx /\ lx + 1 \in Nat /\ (lx + 1) % 2 = 1 /\ lx + 1 <= lx + 1
    <3> HIDE DEF a, lb, lt, lx
    <3> QED BY ONLY <1>7, <2>1
  <2> HIDE DEF a
  <2> QED BY <1>2, <1>8, <1>9, <2>2, Zenon DEF ReadableAt
<1>11. ASSUME NEW k \in 1 .. n
       PROVE  /\ ReadableAt(x, s2[k]) /\ s2[k] + 3 < h2[k] /\ h2[k] < EndOf(x, s2[k])
              /\ Fixup(x[h2[k]], Word(x, s2[k])) = entries[r[k]]
  <2>1. s2[k] = s[k] /\ h2[k] = h[k] /\ r[k] = p[k]
    BY <1>4, Zenon DEF Joins
  <2>2. s[k] \in Nat /\ h[k] \in Nat
    BY <1>1
  <2>3. ReadableAt(b, s[k]) /\ s[k] + 3 < h[k] /\ h[k] < EndOf(b, s[k])
    BY <1>1
  <2>4. ReadableAt(x, s[k]) /\ EndOf(x, s[k]) = EndOf(b, s[k]) /\ Word(x, s[k]) = Word(b, s[k])
    BY <1>2, <2>2, <2>3, OldBlocksKept, Zenon DEF x
  <2>5. EndOf(b, s[k]) \in Nat /\ EndOf(b, s[k]) <= Len(b) + 1
    BY <2>3, Zenon DEF ReadableAt
  <2>6. 1 <= h[k] /\ h[k] <= Len(b)
    <3> DEFINE e == EndOf(b, s[k])
               i == h[k]
               j == s[k]
    <3>1. lb \in Nat /\ i \in Nat /\ j \in Nat /\ j + 3 < i /\ i < e /\ e \in Nat /\ e <= lb + 1
      BY <1>7, <2>2, <2>3, <2>5, Zenon
    <3> HIDE DEF lb, e, i, j
    <3>2. 1 <= i /\ i <= lb
      BY ONLY <3>1
    <3> QED BY <3>2 DEF i, lb
  <2>7. x[h[k]] = b[h[k]]
    BY <1>6, <2>2, <2>6, Zenon
  <2> QED BY <1>1, <2>1, <2>3, <2>4, <2>7, Zenon
<1>12. ASSUME NEW k \in 1 .. c
       PROVE  /\ ReadableAt(x, s2[n + k]) /\ s2[n + k] + 3 < h2[n + k] /\ h2[n + k] < EndOf(x, s2[n + k])
              /\ Fixup(x[h2[n + k]], Word(x, s2[n + k])) = entries[r[n + k]]
  <2>1. s2[n + k] = a /\ h2[n + k] = Len(b) + 4 + k /\ r[n + k] = q[k]
    BY <1>3a, <1>4, Zenon DEF Joins
  <2>2. a + 3 < Len(b) + 4 + k /\ Len(b) + 4 + k < Len(x) + 1
    <3>1. a = lb + 1 /\ k \in Nat /\ 1 <= k /\ k <= c
      BY <1>7
    <3> HIDE DEF a, lb, lt, lx
    <3>2. a + 3 < lb + 4 + k /\ lb + 4 + k < lx + 1
      BY ONLY <1>7, <3>1
    <3> QED BY <3>2 DEF lb, lx
  <2>3. x[Len(b) + 4 + k] = t[k + 4]
    <3>1. k + 4 \in Nat /\ 1 <= k + 4 /\ k + 4 <= Len(t) /\ Len(b) + (k + 4) = Len(b) + 4 + k
      BY <1>2, <1>7
    <3>2. x[Len(b) + (k + 4)] = t[k + 4]
      BY <1>6, <3>1, Zenon
    <3> QED BY <3>1, <3>2
  <2> HIDE DEF a
  <2>4. Fixup(x[h2[n + k]], Word(x, s2[n + k])) = entries[r[n + k]]
    BY <1>2, <1>8, <2>1, <2>3, Zenon
  <2> QED BY <1>9, <1>10, <2>1, <2>2, <2>4, Zenon
<1>13. ASSUME NEW k \in 1 .. n + c
       PROVE  /\ ReadableAt(x, s2[k]) /\ s2[k] + 3 < h2[k] /\ h2[k] < EndOf(x, s2[k])
              /\ Fixup(x[h2[k]], Word(x, s2[k])) = entries[r[k]]
  <2>1. k \in 1 .. n \/ \E j \in 1 .. c : k = n + j
    BY <1>4, Zenon DEF Joins
  <2> QED BY <1>11, <1>12, <2>1, Zenon
<1>14. Placed(x, n + c, r, s2, h2)
  BY <1>5, <1>13, Zenon DEF Placed
<1> QED BY <1>14 DEF x, r, s2, h2, u, v

LEMMA ChainedJoined ==
  ASSUME NEW b \in Seq(Nat), NEW n \in Nat, NEW p, NEW s, NEW h,
         Placed(b, n, p, s, h), Chained(b, n, s, h),
         NEW c \in Nat \ {0}, NEW q, NEW t, IsBlock(t, c, q), Len(b) % 2 = 0
  PROVE  Chained(b \o t, n + c,
                 Joined(n, c, s, [k \in 1 .. c |-> Len(b) + 1]),
                 Joined(n, c, h, [k \in 1 .. c |-> Len(b) + 4 + k]))
<1> DEFINE x == b \o t
           u == [k \in 1 .. c |-> Len(b) + 1]
           v == [k \in 1 .. c |-> Len(b) + 4 + k]
           s2 == Joined(n, c, s, u)
           h2 == Joined(n, c, h, v)
           lb == Len(b)
           lt == Len(t)
           lx == Len(x)
           a == lb + 1
<1>1. /\ s \in [1 .. n -> Nat] /\ h \in [1 .. n -> Nat]
      /\ \A k \in 1 .. n : ReadableAt(b, s[k]) /\ s[k] + 3 < h[k] /\ h[k] < EndOf(b, s[k])
  BY Zenon DEF Placed
<1>2. t \in Seq(Nat) /\ Word(t, 3) \div 2 = Len(t) /\ c + 4 <= lt /\ Zeros(t, c + 5, lt)
  BY Zenon DEF IsBlock
<1>3. \A k \in 1 .. c : u[k] = a /\ v[k] = lb + 4 + k
  OBVIOUS
<1> HIDE DEF u, v
<1>4. Joins(s2, n, c, s, u) /\ Joins(h2, n, c, h, v)
  BY JoinedShape
<1> HIDE DEF s2, h2
<1>5. /\ \A k \in 1 .. n : s2[k] = s[k] /\ h2[k] = h[k]
      /\ \A k \in 1 .. c : s2[n + k] = a /\ h2[n + k] = lb + 4 + k
  BY <1>3, <1>4, Zenon DEF Joins
<1>6. /\ x \in Seq(Nat) /\ lx = lb + lt
      /\ \A m \in Nat : 1 <= m /\ m <= lb => x[m] = b[m]
      /\ \A m \in Nat : 1 <= m /\ m <= lt => x[lb + m] = t[m]
  BY <1>2, ConcatHalves, Zenon
<1>7. lb \in Nat /\ lt \in Nat /\ c \in Nat /\ c >= 1
  <2>1. c \in Nat /\ c >= 1
    OBVIOUS
  <2>2. lb \in Nat /\ lt \in Nat
    BY <1>2, LenProperties, Zenon
  <2> QED BY <2>1, <2>2, Zenon
<1>8. ASSUME NEW k \in 1 .. n
      PROVE  /\ ReadableAt(x, s[k]) /\ EndOf(x, s[k]) = EndOf(b, s[k])
             /\ s[k] \in Nat /\ h[k] \in Nat /\ h[k] >= 1
             /\ EndOf(b, s[k]) \in Nat /\ EndOf(b, s[k]) <= lb + 1
  <2>1. s[k] \in Nat /\ h[k] \in Nat /\ ReadableAt(b, s[k]) /\ s[k] + 3 < h[k]
    BY <1>1
  <2>2. EndOf(b, s[k]) \in Nat /\ EndOf(b, s[k]) <= lb + 1
    BY <2>1, Zenon DEF ReadableAt
  <2>3. ReadableAt(x, s[k]) /\ EndOf(x, s[k]) = EndOf(b, s[k])
    BY <1>2, <2>1, OldBlocksKept, Zenon
  <2>4. h[k] >= 1
    BY <2>1
  <2> QED BY <2>1, <2>2, <2>3, <2>4, Zenon
<1>10. EndOf(x, a) = lx + 1
  <2>0. 1 \in 1 .. c
    BY <1>7
  <2>1. Word(x, a + 2) = Word(t, 3)
    <3> HIDE DEF x, lb, lt
    <3>1. 4 <= lt
      BY ONLY <1>2, <1>7
    <3>2. x[lb + 3] = t[3] /\ x[lb + 4] = t[4]
      <4>1. 3 \in Nat /\ 1 <= 3 /\ 3 <= lt /\ 4 \in Nat /\ 1 <= 4
        BY ONLY <1>7, <3>1
      <4> QED BY <1>6, <3>1, <4>1, Zenon
    <3>3. a + 2 = lb + 3 /\ (a + 2) + 1 = lb + 4 /\ 3 + 1 = 4
      BY ONLY <1>7 DEF a
    <3> HIDE DEF a
    <3>4. x[a + 2] = t[3] /\ x[(a + 2) + 1] = t[3 + 1]
      BY ONLY <3>2, <3>3
    <3> QED BY ONLY <3>4 DEF Word
  <2> HIDE DEF x, a, lb, lt, lx
  <2>2. EndOf(x, a) = a + lt
    BY <1>2, <2>1, Zenon DEF EndOf, lt
  <2>3. a + lt = lx + 1
    BY ONLY <1>6, <1>7 DEF a
  <2> QED BY <2>2, <2>3
<1>11. Zeros(x, lb + 4 + c + 1, lx)
  <2>1. ASSUME NEW m \in Nat, lb + 4 + c + 1 <= m, m <= lx PROVE x[m] = 0
    <3> HIDE DEF x, lb, lt, lx
    <3>1. m - lb \in Nat /\ c + 5 <= m - lb /\ 1 <= m - lb /\ m - lb <= lt /\ lb + (m - lb) = m
      BY ONLY <1>6, <1>7, <2>1
    <3>2. t[m - lb] = 0
      BY <1>2, <3>1, Zenon DEF Zeros
    <3>3. x[lb + (m - lb)] = t[m - lb]
      BY <1>6, <3>1, Zenon
    <3> QED BY <3>1, <3>2, <3>3
  <2> QED BY <2>1, Zenon DEF Zeros
<1>12. ASSUME n > 0
       PROVE  s[1] = 1 /\ h[1] = 5 /\ EndOf(b, s[n]) = lb + 1 /\ Zeros(b, h[n] + 1, lb)
  BY <1>12, Zenon DEF Chained
<1>13. ASSUME NEW i \in Nat, 1 <= i, NEW j \in Nat, j <= lb, Zeros(b, i, j) PROVE Zeros(x, i, j)
  BY <1>2, <1>13, OldZerosKept
<1>14. ASSUME NEW k \in 1 .. n + c, k + 1 <= n + c PROVE Follows(x, k, s2, h2)
  <2>1. CASE k + 1 <= n
    <3>1. k \in 1 .. n /\ k + 1 \in 1 .. n
      BY <2>1
    <3>2. Follows(b, k, s, h)
      BY <2>1, <3>1, Zenon DEF Chained
    <3>3. /\ s2[k] = s[k] /\ h2[k] = h[k] /\ s2[k + 1] = s[k + 1] /\ h2[k + 1] = h[k + 1]
          /\ EndOf(x, s[k]) = EndOf(b, s[k])
      BY <1>5, <1>8, <3>1, Zenon
    <3>4. ASSUME Zeros(b, h[k] + 1, EndOf(b, s[k]) - 1) PROVE Zeros(x, h[k] + 1, EndOf(x, s[k]) - 1)
      <4> DEFINE e == EndOf(b, s[k])
      <4>1. h[k] \in Nat /\ e \in Nat /\ e <= lb + 1 /\ h[k] < e /\ lb \in Nat
        BY <1>1, <1>7, <1>8, <3>1
      <4> HIDE DEF e, lb
      <4>2. h[k] + 1 \in Nat /\ 1 <= h[k] + 1 /\ e - 1 \in Nat /\ e - 1 <= lb
        BY ONLY <4>1
      <4>3. Zeros(b, h[k] + 1, e - 1)
        BY <3>4 DEF e
      <4>4. Zeros(x, h[k] + 1, e - 1)
        BY <1>13, <4>2, <4>3, Zenon
      <4> QED BY <3>3, <4>4, Zenon DEF e
    <3> QED BY <3>2, <3>3, <3>4, Zenon DEF Follows
  <2>2. CASE k = n
    <3>1. k \in 1 .. n /\ 1 \in 1 .. c /\ n > 0
      BY <1>7, <2>2
    <3>2. s2[k] = s[n] /\ h2[k] = h[n] /\ s2[k + 1] = a /\ h2[k + 1] = lb + 4 + 1
      BY <1>5, <2>2, <3>1, Zenon
    <3>3. EndOf(b, s[n]) = lb + 1 /\ Zeros(b, h[n] + 1, lb) /\ EndOf(x, s[n]) = lb + 1
      BY <1>8, <1>12, <2>2, <3>1, Zenon
    <3>4. h[n] \in Nat
      BY <1>8, <2>2, <3>1, Zenon
    <3>5. Zeros(x, h[n] + 1, lb)
      <4> HIDE DEF x, lb
      <4>1. h[n] + 1 \in Nat /\ 1 <= h[n] + 1 /\ lb <= lb
        BY ONLY <1>7, <3>4
      <4> QED BY <1>7, <1>13, <3>3, <4>1, Zenon
    <3>6. lb + 4 + 1 = a + 4 /\ (lb + 1) - 1 = lb
      <4> HIDE DEF lb
      <4> QED BY ONLY <1>7 DEF a
    <3> HIDE DEF x, s2, h2, lb
    <3>7. /\ s2[k + 1] = EndOf(x, s2[k]) /\ h2[k + 1] = s2[k + 1] + 4
          /\ Zeros(x, h2[k] + 1, EndOf(x, s2[k]) - 1)
      <4>1. EndOf(x, s2[k]) = a /\ a - 1 = lb
        BY <3>2, <3>3, <3>6
      <4> HIDE DEF a
      <4>2. h2[k + 1] = s2[k + 1] + 4
        BY <3>2, <3>6, Zenon
      <4> QED BY <3>2, <3>5, <4>1, <4>2, Zenon
    <3> QED BY <3>7, Zenon DEF Follows
  <2>3. CASE k > n
    <3>1. k - n \in 1 .. c /\ (k - n) + 1 \in 1 .. c /\ n + (k - n) = k /\ n + ((k - n) + 1) = k + 1
      BY <1>7, <1>14, <2>3
    <3>2. s2[k] = a /\ h2[k] = lb + 4 + (k - n) /\ s2[k + 1] = a /\ h2[k + 1] = lb + 4 + ((k - n) + 1)
      BY <1>5, <3>1
    <3>3. lb + 4 + ((k - n) + 1) = (lb + 4 + (k - n)) + 1
      <4> HIDE DEF lb
      <4>1. k - n \in Nat
        BY <3>1
      <4> QED BY ONLY <1>7, <4>1
    <3>4. s2[k + 1] = s2[k] /\ h2[k + 1] = h2[k] + 1
      BY <3>2, <3>3, Zenon
    <3> QED BY <3>4, Zenon DEF Follows
  <2>4. k \in Nat /\ n \in Nat
    BY <1>7
  <2>5. k + 1 <= n \/ k = n \/ k > n
    BY ONLY <2>4
  <2> QED BY <2>1, <2>2, <2>3, <2>5, Zenon
<1>15. s2[1] = 1 /\ h2[1] = 5
  <2>1. CASE n > 0
    <3>1. 1 \in 1 .. n
      BY <2>1
    <3> QED BY <1>5, <1>12, <2>1, <3>1, Zenon
  <2>2. CASE n = 0
    <3>1. lb = 0 /\ 1 \in 1 .. c /\ n + 1 = 1
      BY <1>7, <2>2 DEF Chained
    <3>2. s2[n + 1] = a /\ h2[n + 1] = lb + 4 + 1
      BY <1>5, <3>1, Zenon
    <3>3. a = 1 /\ lb + 4 + 1 = 5
      <4> HIDE DEF lb
      <4> QED BY ONLY <3>1 DEF a
    <3> QED BY <3>1, <3>2, <3>3, Zenon
  <2> QED BY <2>1, <2>2
<1>16. EndOf(x, s2[n + c]) = lx + 1 /\ Zeros(x, h2[n + c] + 1, lx)
  <2>1. c \in 1 .. c
    BY <1>7
  <2>2. s2[n + c] = a /\ h2[n + c] = lb + 4 + c
    BY <1>5, <2>1, Zenon
  <2> QED BY <1>10, <1>11, <2>2, Zenon
<1>17. n + c > 0
  BY <1>7
<1> HIDE DEF x
<1>18. Chained(x, n + c, s2, h2)
  <2>1. n + c /= 0
    BY <1>7
  <2> QED BY <1>14, <1>15, <1>16, <2>1, Zenon DEF Chained
<1> QED BY <1>18 DEF x, s2, h2, u, v

-------------------------------------------------------------------------------
(* Building the stream *)

\* q lists a window of the entries, on one page.
LEMMA WindowListed ==
  ASSUME StreamTypes, NEW i \in todo, NEW q \in SortedBy(Window(i))
  PROVE  LET c == Cardinality(Window(i))
         IN  /\ c \in Nat \ {0} /\ Listed(Window(i), c, q) /\ q \in [1 .. c -> DOMAIN entries]
             /\ \A j, k \in 1 .. c : PageOf(entries[q[j]].rva) = PageOf(entries[q[k]].rva)
<1> DEFINE W == Window(i)
           c == Cardinality(W)
<1>1. W \subseteq todo /\ i \in W /\ todo \subseteq DOMAIN entries /\ entries \in Seq(BaseReloc)
  BY DEF Window, SamePage, StreamTypes
<1>2. IsFiniteSet(W)
  <2>1. Len(entries) \in Nat /\ DOMAIN entries = 1 .. Len(entries)
    BY <1>1, LenProperties
  <2>2. IsFiniteSet(1 .. Len(entries))
    BY <2>1, FS_Interval
  <2>3. W \subseteq 1 .. Len(entries)
    BY <1>1, <2>1
  <2> QED BY <2>2, <2>3, FS_Subset, Zenon
<1>3. c \in Nat \ {0}
  BY <1>1, <1>2, FS_CardinalityType, FS_EmptySet
<1> HIDE DEF c
<1>4. /\ q \in [1 .. c -> W]
      /\ \A j, k \in DOMAIN q : j /= k => q[j] /= q[k]
      /\ \A k \in 1 .. Len(q) - 1 : entries[q[k]].rva <= entries[q[k + 1]].rva
  BY Zenon DEF SortedBy, c, W
<1> HIDE DEF W
<1>5. Len(q) = c
  BY <1>3, <1>4
<1>6. \A j, k \in 1 .. c : q[j] = q[k] => j = k
  BY <1>4
<1>7. \A w \in W : \E k \in 1 .. c : q[k] = w
  <2>1. q \in Injection(1 .. c, W)
    BY <1>4, <1>6 DEF Injection, IsInjective
  <2>2. Cardinality(1 .. c) = c
    BY <1>3, FS_Interval
  <2>3. q \in Surjection(1 .. c, W)
    BY <1>2, <2>1, <2>2, FS_Injection, Zenon DEF c
  <2> QED BY <2>3, Zenon DEF Surjection
<1>8. \A k \in 1 .. c : k + 1 <= c => entries[q[k]].rva <= entries[q[k + 1]].rva
  BY <1>3, <1>4, <1>5
<1>9. Listed(W, c, q)
  BY <1>3, <1>4, <1>6, <1>7, <1>8, Zenon DEF Listed
<1>10. q \in [1 .. c -> DOMAIN entries]
  BY <1>1, <1>4
<1>11. \A k \in 1 .. c : PageOf(entries[q[k]].rva) = PageOf(entries[i].rva)
  <2>1. \A w \in W : PageOf(entries[w].rva) = PageOf(entries[i].rva)
    BY Zenon DEF W, Window, SamePage
  <2> QED BY <1>4, <2>1
<1> QED BY <1>3, <1>9, <1>10, <1>11, Zenon DEF c, W

\* The stream holds whole blocks.
LEMMA StreamEven ==
  ASSUME StreamTypes, NEW D, NEW n, NEW p, NEW s, NEW h, Written(buf, D, n, p, s, h)
  PROVE  Len(buf) \in Nat /\ Len(buf) % 2 = 0
<1>1. Len(buf) \in Nat
  BY LenProperties, Zenon DEF StreamTypes
<1>2. n \in Nat
  BY Zenon DEF Written, Listed
<1>3. CASE n = 0
  <2>1. buf = << >>
    BY <1>3, Zenon DEF Written, Chained
  <2> QED BY <2>1
<1>4. CASE n > 0
  <2>1. n \in 1 .. n
    BY <1>2, <1>4
  <2>2. EndOf(buf, s[n]) % 2 = 1 /\ EndOf(buf, s[n]) = Len(buf) + 1
    BY <1>4, <2>1, Zenon DEF Written, Placed, Chained, ReadableAt
  <2>3. (Len(buf) + 1) % 2 = 1
    BY <2>2, Zenon
  <2> QED BY ONLY <1>1, <2>3
<1> QED BY <1>1, <1>2, <1>3, <1>4

LEMMA EmitKeepsInv ==
  ASSUME StreamInv, EmitBlock
  PROVE  StreamInv'
<1>1. PICK i \in Lowest(todo) :
        /\ \E q \in SortedBy(Window(i)) : buf' = buf \o Block(q)
        /\ todo' = todo \ Window(i)
  BY Zenon DEF EmitBlock
<1>2. PICK q \in SortedBy(Window(i)) : buf' = buf \o Block(q)
  BY <1>1, Zenon
<1>3. /\ phase = "build" /\ entries' = entries /\ phase' = phase /\ pos' = pos /\ fix' = fix
      /\ applied' = applied
  BY Zenon DEF EmitBlock
<1>4. StreamTypes /\ Ahead
  BY Zenon DEF StreamInv
<1>5. PICK n, p, s, h : Written(buf, Done, n, p, s, h)
  BY Zenon DEF StreamInv
<1> DEFINE W == Window(i)
           c == Cardinality(W)
           t == Block(q)
<1>6. i \in todo /\ \A j \in todo : entries[i].rva <= entries[j].rva
  BY Zenon DEF Lowest
<1>7. /\ c \in Nat \ {0} /\ Listed(W, c, q) /\ q \in [1 .. c -> DOMAIN entries]
      /\ \A j, k \in 1 .. c : PageOf(entries[q[j]].rva) = PageOf(entries[q[k]].rva)
  BY <1>4, <1>6, WindowListed, Zenon
<1>8. entries \in Seq(BaseReloc) /\ todo \subseteq DOMAIN entries /\ buf \in Seq(Nat) /\ W \subseteq todo
  BY <1>4 DEF StreamTypes, Window
<1>9. \A j \in DOMAIN entries : entries[j].rva \in Nat
  <2>1. ASSUME NEW j \in DOMAIN entries PROVE entries[j].rva \in Nat
    <3>1. entries[j] \in BaseReloc
      BY <1>8
    <3> QED BY <3>1 DEF BaseReloc
  <2> QED BY <2>1
<1>10. IsBlock(t, c, q)
  BY <1>7, <1>8, BlockIsBlock, Zenon
<1>11. t \in Seq(Nat)
  BY <1>10, Zenon DEF IsBlock
<1>12. i \in W /\ \A j \in todo : j \in W <=> PageOf(entries[j].rva) = PageOf(entries[i].rva)
  BY <1>6 DEF Window, SamePage
<1> HIDE DEF W, c, t
<1>13. Done' = Done \cup W /\ Done \cap W = {}
  BY <1>1, <1>3, <1>8 DEF Done, W
<1>14. \A a \in Done, j \in W : entries[a].rva <= entries[j].rva
  BY <1>4, <1>8 DEF Ahead
<1>15. Len(buf) % 2 = 0
  BY <1>4, <1>5, StreamEven, Zenon
<1>16. \E n2, p2, s2, h2 : Written(buf \o t, Done \cup W, n2, p2, s2, h2)
  <2>1. Listed(Done, n, p) /\ Placed(buf, n, p, s, h) /\ Chained(buf, n, s, h) /\ n \in Nat
    BY <1>5, Zenon DEF Written, Listed
  <2> DEFINE p2 == Joined(n, c, p, q)
             s2 == Joined(n, c, s, [k \in 1 .. c |-> Len(buf) + 1])
             h2 == Joined(n, c, h, [k \in 1 .. c |-> Len(buf) + 4 + k])
  <2>2. Listed(Done \cup W, n + c, p2)
    BY <1>7, <1>13, <1>14, <2>1, ListedJoined, Zenon
  <2>3. Placed(buf \o t, n + c, p2, s2, h2)
    BY <1>7, <1>8, <1>10, <1>15, <2>1, PlacedJoined, Zenon
  <2>4. Chained(buf \o t, n + c, s2, h2)
    BY <1>7, <1>8, <1>10, <1>15, <2>1, ChainedJoined, Zenon
  <2> HIDE DEF p2, s2, h2
  <2>5. Written(buf \o t, Done \cup W, n + c, p2, s2, h2)
    BY <2>2, <2>3, <2>4, Zenon DEF Written
  <2> QED BY <2>5, Zenon
<1>17. StreamTypes'
  <2>1. buf' \in Seq(Nat)
    BY <1>2, <1>8, <1>11, ConcatHalves DEF t
  <2>2. todo' \subseteq DOMAIN entries'
    BY <1>1, <1>3, <1>8
  <2> QED BY <1>3, <1>4, <2>1, <2>2, Zenon DEF StreamTypes
<1>18. Ahead'
  <2>1. ASSUME NEW a \in Done \cup W, NEW j \in todo \ W PROVE entries[a].rva <= entries[j].rva
    <3>1. CASE a \in Done
      BY <1>4, <3>1 DEF Ahead
    <3>2. CASE a \in W
      <4>1. /\ entries[a].rva \in Nat /\ entries[j].rva \in Nat /\ entries[i].rva \in Nat
            /\ entries[i].rva <= entries[j].rva
        BY <1>6, <1>8, <1>9, <3>2
      <4>2. PageOf(entries[a].rva) = PageOf(entries[i].rva)
        BY <1>8, <1>12, <3>2
      <4>3. ASSUME entries[j].rva <= entries[a].rva PROVE FALSE
        <5>1. PageOf(entries[j].rva) = PageOf(entries[i].rva)
          BY <4>1, <4>2, <4>3, PageBetween, Zenon
        <5> QED BY <1>12, <5>1
      <4> QED BY <4>1, <4>3
    <3> QED BY <3>1, <3>2
  <2>2. todo' = todo \ W
    BY <1>1 DEF W
  <2> QED BY <1>3, <1>13, <2>1, <2>2, Zenon DEF Ahead
<1>19. \E n2, p2, s2, h2 : Written(buf, Done, n2, p2, s2, h2)'
  <2>1. PICK n2, p2, s2, h2 : Written(buf \o t, Done \cup W, n2, p2, s2, h2)
    BY <1>16, Zenon
  <2>2. Written(buf', Done', n2, p2, s2, h2)
    BY <1>2, <1>13, <2>1, Zenon DEF t
  <2>3. Written(buf, Done, n2, p2, s2, h2)'
    <3>1. Listed(Done, n2, p2)'
      BY <1>3, <2>2, Zenon DEF Written, Listed
    <3>2. Placed(buf, n2, p2, s2, h2)'
      BY <1>3, <2>2, Zenon DEF Written, Placed
    <3>3. Chained(buf, n2, s2, h2)'
      BY <1>3, <2>2, Zenon DEF Written, Chained
    <3> QED BY <3>1, <3>2, <3>3, Zenon DEF Written
  <2> QED BY <2>3, Zenon
<1> QED BY <1>3, <1>17, <1>18, <1>19, Zenon DEF StreamInv

LEMMA WrittenStays ==
  ASSUME NEW n, NEW p, NEW s, NEW h, Written(buf, Done, n, p, s, h), UNCHANGED <<entries, todo, buf>>
  PROVE  Written(buf, Done, n, p, s, h)'
<1>1. entries' = entries /\ Done' = Done /\ buf' = buf
  BY DEF Done
<1>2. Listed(Done, n, p)'
  BY <1>1, Zenon DEF Written, Listed
<1>3. Placed(buf, n, p, s, h)'
  BY <1>1, Zenon DEF Written, Placed
<1>4. Chained(buf, n, s, h)'
  BY <1>1, Zenon DEF Written, Chained
<1> QED BY <1>2, <1>3, <1>4, Zenon DEF Written

LEMMA BuiltKeepsInv ==
  ASSUME StreamInv, Built
  PROVE  StreamInv'
<1>1. /\ phase = "build" /\ todo = {} /\ phase' = "load" /\ entries' = entries /\ todo' = todo
      /\ buf' = buf /\ pos' = pos /\ fix' = fix /\ applied' = applied
  BY DEF Built
<1>2. StreamTypes /\ pos = 1 /\ fix = 5 /\ applied = << >>
  BY <1>1, Zenon DEF StreamInv, StreamTypes
<1>3. PICK n, p, s, h : Written(buf, Done, n, p, s, h)
  BY Zenon DEF StreamInv
<1>4. StreamTypes'
  <2>1. "load" \in {"build", "load", "loaded"} /\ "load" /= "build"
    OBVIOUS
  <2> QED BY <1>1, <1>2, <2>1, Zenon DEF StreamTypes
<1>5. Ahead'
  BY <1>1 DEF Ahead
<1>6. Written(buf, Done, n, p, s, h)'
  BY <1>1, <1>3, WrittenStays
<1>7. Loading(0, n, p, s, h)'
  <2>1. n \in Nat
    BY <1>3, Zenon DEF Written, Listed
  <2>2. Len(applied) = 0 /\ 0 + 1 = 1
    BY <1>2
  <2>3. phase' /= "loaded"
    BY <1>1
  <2>4. CASE n = 0
    <3>1. buf = << >>
      BY <1>3, <2>4, Zenon DEF Written, Chained
    <3>2. pos = Len(buf) + 1
      BY <1>2, <3>1
    <3>3. AtEnd(0, n)'
      BY <1>1, <2>2, <2>4, <3>2 DEF AtEnd
    <3> QED BY <1>1, <2>1, <2>2, <2>3, <3>3 DEF Loading
  <2>5. CASE n > 0
    <3>1. s[1] = 1 /\ h[1] = 5
      BY <1>3, <2>5, Zenon DEF Written, Chained
    <3>2. Before(0, n, s, h)'
      BY <1>1, <1>2, <2>2, <2>5, <3>1 DEF Before
    <3> QED BY <1>1, <2>1, <2>2, <2>3, <3>2 DEF Loading
  <2> QED BY <2>1, <2>4, <2>5
<1> QED BY <1>4, <1>5, <1>6, <1>7, Zenon DEF StreamInv

\* What that says of the entries before the loader.
Ready(n, p, s, h) ==
  /\ n \in Nat /\ Len(buf) \in Nat /\ pos \in Nat /\ fix \in Nat
  /\ \A k \in 1 .. n :
       /\ ReadableAt(buf, s[k]) /\ s[k] \in Nat /\ s[k] + 3 <= Len(buf)
       /\ h[k] \in Nat /\ h[k] < EndOf(buf, s[k]) /\ EndOf(buf, s[k]) \in Nat
       /\ Fixup(buf[h[k]], Word(buf, s[k])) = entries[p[k]]
       /\ p[k] \in DOMAIN entries /\ entries[p[k]] \in BaseReloc
       /\ entries[p[k]].type /= 0
  /\ n > 0 => EndOf(buf, s[n]) = Len(buf) + 1 /\ Zeros(buf, h[n] + 1, Len(buf))

LEMMA LoaderReady ==
  ASSUME StreamInv, phase /= "build"
  PROVE  \E m, n, p, s, h :
           Written(buf, Done, n, p, s, h) /\ Loading(m, n, p, s, h) /\ Ready(n, p, s, h)
<1>1. PICK m, n, p, s, h : Written(buf, Done, n, p, s, h) /\ Loading(m, n, p, s, h)
  BY Zenon DEF StreamInv
<1>2. StreamTypes
  BY Zenon DEF StreamInv
<1>3. n \in Nat /\ Len(buf) \in Nat /\ pos \in Nat /\ fix \in Nat
  <2>1. Len(buf) \in Nat
    BY <1>1, <1>2, StreamEven, Zenon
  <2> QED BY <1>1, <1>2, <2>1, Zenon DEF Written, Listed, StreamTypes
<1>4. ASSUME NEW k \in 1 .. n
      PROVE  /\ ReadableAt(buf, s[k]) /\ s[k] \in Nat /\ s[k] + 3 <= Len(buf)
             /\ h[k] \in Nat /\ h[k] < EndOf(buf, s[k]) /\ EndOf(buf, s[k]) \in Nat
             /\ Fixup(buf[h[k]], Word(buf, s[k])) = entries[p[k]]
             /\ p[k] \in DOMAIN entries /\ entries[p[k]] \in BaseReloc
             /\ entries[p[k]].type /= 0
  <2>1. /\ ReadableAt(buf, s[k]) /\ h[k] < EndOf(buf, s[k])
        /\ Fixup(buf[h[k]], Word(buf, s[k])) = entries[p[k]]
        /\ s \in [1 .. n -> Nat] /\ h \in [1 .. n -> Nat]
    BY <1>1, Zenon DEF Written, Placed
  <2>2. s[k] \in Nat /\ h[k] \in Nat
    BY <2>1
  <2>3. s[k] + 3 <= Len(buf) /\ EndOf(buf, s[k]) \in Nat
    BY <2>1, Zenon DEF ReadableAt
  <2>4. p \in [1 .. n -> Done]
    BY <1>1, Zenon DEF Written, Listed
  <2>5. p[k] \in DOMAIN entries
    BY <2>4 DEF Done
  <2>6. entries[p[k]] \in BaseReloc
    BY <1>2, <2>5 DEF StreamTypes
  <2>7. entries[p[k]].type /= 0
    BY <2>6 DEF BaseReloc, BaseRelocTypes
  <2> QED BY <2>1, <2>2, <2>3, <2>5, <2>6, <2>7, Zenon
<1>5. ASSUME n > 0 PROVE EndOf(buf, s[n]) = Len(buf) + 1 /\ Zeros(buf, h[n] + 1, Len(buf))
  BY <1>1, <1>5, Zenon DEF Written, Chained
<1>6. Ready(n, p, s, h)
  BY <1>3, <1>4, <1>5, Zenon DEF Ready
<1> QED BY <1>1, <1>6, Zenon

LEMMA LoadFixupKeepsInv ==
  ASSUME StreamInv, LoadFixup
  PROVE  StreamInv'
<1> DEFINE f == Fixup(buf[fix], Word(buf, pos))
<1>1. /\ phase = "load" /\ BlockReadable /\ fix < EndOf(buf, pos) /\ fix' = fix + 1
      /\ applied' = (IF f.type = 0 THEN applied ELSE Append(applied, f))
      /\ entries' = entries /\ todo' = todo /\ buf' = buf /\ phase' = phase /\ pos' = pos
  BY DEF LoadFixup, BlockEnd, EndOf
<1>2. PICK m, n, p, s, h :
        Written(buf, Done, n, p, s, h) /\ Loading(m, n, p, s, h) /\ Ready(n, p, s, h)
  BY <1>1, LoaderReady
<1>3. StreamTypes /\ applied \in Seq(BaseReloc) /\ Ahead
  BY Zenon DEF StreamInv, StreamTypes
<1>4. /\ n \in Nat /\ Len(buf) \in Nat /\ pos \in Nat /\ fix \in Nat
      /\ m = Len(applied) /\ \A k \in 1 .. m : applied[k] = entries[p[k]]
      /\ m <= n
  BY <1>2, Zenon DEF Loading, Ready
<1>5. m \in Nat
  BY <1>3, <1>4
<1>6. ASSUME applied' \in Seq(BaseReloc), NEW m2, Loading(m2, n, p, s, h)' PROVE StreamInv'
  <2>1. fix' \in Nat
    BY <1>1, <1>4
  <2>2. StreamTypes'
    BY <1>1, <1>3, <1>6, <2>1, Zenon DEF StreamTypes
  <2>3. Ahead'
    BY <1>1, <1>3 DEF Ahead, Done
  <2>4. Written(buf, Done, n, p, s, h)'
    BY <1>1, <1>2, WrittenStays
  <2> QED BY <1>6, <2>2, <2>3, <2>4, Zenon DEF StreamInv
<1>7. ~AtEnd(m, n)
  BY <1>1, <1>4 DEF AtEnd, BlockReadable
<1>8. phase' /= "loaded"
  BY <1>1
<1>9. CASE Before(m, n, s, h)
  <2>1. m < n /\ pos = s[m + 1] /\ fix = h[m + 1] /\ m + 1 \in 1 .. n
    BY <1>4, <1>5, <1>9 DEF Before
  <2>2. /\ f = entries[p[m + 1]] /\ entries[p[m + 1]] \in BaseReloc /\ f.type /= 0
        /\ h[m + 1] < EndOf(buf, s[m + 1]) /\ h[m + 1] \in Nat /\ EndOf(buf, s[m + 1]) \in Nat
    BY <1>2, <2>1, Zenon DEF Ready
  <2>3. applied' = Append(applied, f)
    BY <1>1, <2>2, Zenon
  <2> HIDE DEF f
  <2>4. applied' \in Seq(BaseReloc) /\ Len(applied') = m + 1
    BY <1>3, <1>4, <2>2, <2>3
  <2>5. ASSUME NEW k \in 1 .. m + 1 PROVE applied'[k] = entries[p[k]]
    <3>1. CASE k = m + 1
      BY <1>3, <1>4, <2>2, <2>3, <3>1
    <3>2. CASE k \in 1 .. m
      BY <1>3, <1>4, <2>3, <3>2
    <3> QED BY <1>5, <3>1, <3>2
  <2>6. h[m + 1] < h[m + 1] + 1 /\ h[m + 1] + 1 <= EndOf(buf, s[m + 1]) /\ m + 1 > 0 /\ m + 1 <= n
    BY <1>4, <1>5, <2>1, <2>2
  <2>7. ASSUME Before(m + 1, n, s, h)' \/ Padded(m + 1, n, s, h)' PROVE StreamInv'
    <3>1. Loading(m + 1, n, p, s, h)'
      BY <1>1, <1>8, <2>4, <2>5, <2>6, <2>7, Zenon DEF Loading
    <3> QED BY <1>6, <2>4, <3>1, Zenon
  <2>8. CASE m + 1 < n
    <3>1. m + 1 \in 1 .. n /\ (m + 1) + 1 <= n
      BY <1>4, <1>5, <2>8
    <3>2. Follows(buf, m + 1, s, h)
      BY <1>2, <3>1, Zenon DEF Written, Chained
    <3>3. CASE s[(m + 1) + 1] = s[m + 1] /\ h[(m + 1) + 1] = h[m + 1] + 1
      <4>1. Before(m + 1, n, s, h)'
        BY <1>1, <2>1, <2>8, <3>3 DEF Before
      <4> QED BY <2>7, <4>1
    <3>4. CASE /\ s[(m + 1) + 1] = EndOf(buf, s[m + 1]) /\ h[(m + 1) + 1] = s[(m + 1) + 1] + 4
               /\ Zeros(buf, h[m + 1] + 1, EndOf(buf, s[m + 1]) - 1)
      <4>1. Padded(m + 1, n, s, h)'
        BY <1>1, <2>1, <2>6, <3>4, Zenon DEF Padded
      <4> QED BY <2>7, <4>1
    <3> QED BY <3>2, <3>3, <3>4, Zenon DEF Follows
  <2>9. CASE m + 1 = n
    <3>1. EndOf(buf, s[n]) = Len(buf) + 1 /\ Zeros(buf, h[n] + 1, Len(buf))
      BY <1>2, <1>5, <2>9 DEF Ready
    <3>2. (Len(buf) + 1) - 1 = Len(buf) /\ ~(m + 1 < n)
      BY <1>4, <1>5, <2>9
    <3>3. Zeros(buf, h[m + 1] + 1, EndOf(buf, s[m + 1]) - 1)
      BY <2>9, <3>1, <3>2, Zenon
    <3>4. Padded(m + 1, n, s, h)'
      BY <1>1, <2>1, <2>6, <3>2, <3>3, Zenon DEF Padded
    <3> QED BY <2>7, <3>4
  <2> QED BY <1>4, <1>5, <2>1, <2>8, <2>9
<1>10. CASE Padded(m, n, s, h)
  <2>1. /\ m > 0 /\ pos = s[m] /\ h[m] < fix /\ Zeros(buf, h[m] + 1, EndOf(buf, s[m]) - 1)
        /\ m < n => s[m + 1] = EndOf(buf, s[m]) /\ h[m + 1] = s[m + 1] + 4
    BY <1>10, Zenon DEF Padded
  <2>2. m \in 1 .. n
    BY <1>4, <1>5, <2>1
  <2>3. h[m] \in Nat /\ EndOf(buf, s[m]) \in Nat
    BY <1>2, <2>2, Zenon DEF Ready
  <2>4. fix < EndOf(buf, s[m])
    BY <1>1, <2>1, Zenon
  <2>5. h[m] + 1 <= fix /\ fix <= EndOf(buf, s[m]) - 1 /\ h[m] < fix + 1 /\ fix + 1 <= EndOf(buf, s[m])
    BY <1>4, <2>1, <2>3, <2>4
  <2>6. f.type = 0
    <3>1. buf[fix] = 0
      BY <1>4, <2>1, <2>5, Zenon DEF Zeros
    <3>2. 0 \div PageSize = 0
      BY DEF PageSize
    <3> QED BY <3>1, <3>2 DEF Fixup
  <2>7. applied' = applied
    BY <1>1, <2>6, Zenon
  <2> HIDE DEF f
  <2>8. Padded(m, n, s, h)'
    BY <1>1, <2>1, <2>5, Zenon DEF Padded
  <2>9. Loading(m, n, p, s, h)'
    BY <1>1, <1>4, <1>8, <2>7, <2>8, Zenon DEF Loading
  <2> QED BY <1>3, <1>6, <2>7, <2>9, Zenon
<1> QED BY <1>2, <1>7, <1>9, <1>10, Zenon DEF Loading

LEMMA NextBlockKeepsInv ==
  ASSUME StreamInv, NextBlock
  PROVE  StreamInv'
<1>1. /\ phase = "load" /\ BlockReadable /\ fix >= EndOf(buf, pos)
      /\ pos' = EndOf(buf, pos) /\ fix' = EndOf(buf, pos) + 4
      /\ entries' = entries /\ todo' = todo /\ buf' = buf /\ phase' = phase /\ applied' = applied
  BY DEF NextBlock, BlockEnd, EndOf
<1>2. PICK m, n, p, s, h :
        Written(buf, Done, n, p, s, h) /\ Loading(m, n, p, s, h) /\ Ready(n, p, s, h)
  BY <1>1, LoaderReady
<1>3. StreamTypes /\ applied \in Seq(BaseReloc) /\ Ahead
  BY Zenon DEF StreamInv, StreamTypes
<1>4. /\ n \in Nat /\ Len(buf) \in Nat /\ pos \in Nat /\ fix \in Nat
      /\ m = Len(applied) /\ \A k \in 1 .. m : applied[k] = entries[p[k]]
      /\ m <= n
  BY <1>2, Zenon DEF Loading, Ready
<1>5. m \in Nat
  BY <1>3, <1>4
<1>6. phase' /= "loaded"
  BY <1>1
<1>7. ~AtEnd(m, n)
  BY <1>1, <1>4 DEF AtEnd, BlockReadable
<1>8. ~Before(m, n, s, h)
  <2>1. SUFFICES ASSUME Before(m, n, s, h) PROVE FALSE
    OBVIOUS
  <2>2. m < n /\ pos = s[m + 1] /\ fix = h[m + 1] /\ m + 1 \in 1 .. n
    BY <1>4, <1>5, <2>1 DEF Before
  <2>3. h[m + 1] < EndOf(buf, s[m + 1]) /\ h[m + 1] \in Nat /\ EndOf(buf, s[m + 1]) \in Nat
    BY <1>2, <2>2, Zenon DEF Ready
  <2>4. h[m + 1] >= EndOf(buf, s[m + 1])
    BY <1>1, <2>2, Zenon
  <2> QED BY ONLY <2>3, <2>4
<1>9. /\ m > 0 /\ pos = s[m] /\ m \in 1 .. n
      /\ m < n => s[m + 1] = EndOf(buf, s[m]) /\ h[m + 1] = s[m + 1] + 4
  <2>1. Padded(m, n, s, h)
    BY <1>2, <1>7, <1>8, Zenon DEF Loading
  <2>2. /\ m > 0 /\ pos = s[m]
        /\ m < n => s[m + 1] = EndOf(buf, s[m]) /\ h[m + 1] = s[m + 1] + 4
    BY <2>1, Zenon DEF Padded
  <2> QED BY <1>4, <1>5, <2>2
<1>10. EndOf(buf, pos) \in Nat
  BY <1>2, <1>9, Zenon DEF Ready
<1>11. Before(m, n, s, h)' \/ AtEnd(m, n)'
  <2>1. CASE m < n
    <3>1. Before(m, n, s, h)'
      BY <1>1, <1>9, <2>1, Zenon DEF Before
    <3> QED BY <3>1
  <2>2. CASE m = n
    <3>1. EndOf(buf, s[n]) = Len(buf) + 1
      BY <1>2, <1>9, <2>2 DEF Ready
    <3>2. AtEnd(m, n)'
      BY <1>1, <1>9, <2>2, <3>1, Zenon DEF AtEnd
    <3> QED BY <3>2
  <2> QED BY <1>4, <1>5, <2>1, <2>2
<1>12. Loading(m, n, p, s, h)'
  BY <1>1, <1>4, <1>6, <1>11, Zenon DEF Loading
<1>13. StreamTypes'
  <2>1. pos' \in Nat /\ fix' \in Nat
    BY <1>1, <1>10
  <2> QED BY <1>1, <1>3, <2>1, Zenon DEF StreamTypes
<1>14. Ahead'
  BY <1>1, <1>3 DEF Ahead, Done
<1>15. Written(buf, Done, n, p, s, h)'
  BY <1>1, <1>2, WrittenStays
<1> QED BY <1>12, <1>13, <1>14, <1>15, Zenon DEF StreamInv

LEMMA LoadedAllKeepsInv ==
  ASSUME StreamInv, LoadedAll
  PROVE  StreamInv'
<1>1. /\ phase = "load" /\ pos = Len(buf) + 1 /\ phase' = "loaded" /\ entries' = entries
      /\ todo' = todo /\ buf' = buf /\ pos' = pos /\ fix' = fix /\ applied' = applied
  BY DEF LoadedAll
<1>2. PICK m, n, p, s, h :
        Written(buf, Done, n, p, s, h) /\ Loading(m, n, p, s, h) /\ Ready(n, p, s, h)
  BY <1>1, LoaderReady
<1>3. StreamTypes /\ applied \in Seq(BaseReloc) /\ Ahead
  BY Zenon DEF StreamInv, StreamTypes
<1>4. /\ n \in Nat /\ Len(buf) \in Nat /\ m = Len(applied) /\ m <= n
      /\ \A k \in 1 .. m : applied[k] = entries[p[k]]
  BY <1>2, Zenon DEF Loading, Ready
<1>5. m \in Nat
  BY <1>3, <1>4
<1>6. ASSUME NEW k \in 1 .. n PROVE pos /= s[k]
  <2>1. s[k] \in Nat /\ s[k] + 3 <= Len(buf)
    BY <1>2, Zenon DEF Ready
  <2> QED BY <1>1, <1>4, <2>1
<1>7. AtEnd(m, n)
  <2>1. ~Before(m, n, s, h)
    <3>1. ASSUME m < n PROVE m + 1 \in 1 .. n
      BY <1>4, <1>5, <3>1
    <3> QED BY <1>6, <3>1, Zenon DEF Before
  <2>2. ~Padded(m, n, s, h)
    <3>1. ASSUME m > 0 PROVE m \in 1 .. n
      BY <1>4, <1>5, <3>1
    <3> QED BY <1>6, <3>1, Zenon DEF Padded
  <2> QED BY <1>2, <2>1, <2>2, Zenon DEF Loading
<1>8. AtEnd(m, n)'
  BY <1>1, <1>7 DEF AtEnd
<1>9. Loading(m, n, p, s, h)'
  BY <1>1, <1>4, <1>8, Zenon DEF Loading
<1>10. StreamTypes'
  <2>1. "loaded" \in {"build", "load", "loaded"} /\ "loaded" /= "build" /\ "load" /= "build"
    OBVIOUS
  <2> QED BY <1>1, <1>3, <2>1, Zenon DEF StreamTypes
<1>11. Ahead'
  BY <1>1, <1>3 DEF Ahead, Done
<1>12. Written(buf, Done, n, p, s, h)'
  BY <1>1, <1>2, WrittenStays
<1> QED BY <1>9, <1>10, <1>11, <1>12, Zenon DEF StreamInv

LEMMA StutterKeepsInv ==
  ASSUME StreamInv, UNCHANGED relocVars
  PROVE  StreamInv'
<1>1. /\ entries' = entries /\ todo' = todo /\ buf' = buf /\ phase' = phase /\ pos' = pos
      /\ fix' = fix /\ applied' = applied
  BY DEF relocVars
<1>2. PICK m, n, p, s, h :
        Written(buf, Done, n, p, s, h) /\ (phase /= "build" => Loading(m, n, p, s, h))
  BY Zenon DEF StreamInv
<1>3. StreamTypes' /\ Ahead'
  BY <1>1, Zenon DEF StreamInv, StreamTypes, Ahead, Done
<1>4. Written(buf, Done, n, p, s, h)'
  BY <1>1, <1>2, WrittenStays
<1>5. phase' /= "build" => Loading(m, n, p, s, h)'
  BY <1>1, <1>2, Zenon DEF Loading, Before, Padded, AtEnd
<1> QED BY <1>3, <1>4, <1>5, Zenon DEF StreamInv

LEMMA InitInv == RelocInit => StreamInv
<1>1. SUFFICES ASSUME RelocInit PROVE StreamInv
  OBVIOUS
<1>2. /\ entries \in Seq(BaseReloc) /\ todo = DOMAIN entries /\ buf = << >> /\ phase = "build"
      /\ pos = 1 /\ fix = 5 /\ applied = << >>
  BY <1>1, EntriesAssumption DEF RelocInit
<1>3. StreamTypes
  BY <1>2 DEF StreamTypes
<1>4. Done = {}
  BY <1>2 DEF Done
<1>5. Ahead
  BY <1>4 DEF Ahead
<1>6. Written(buf, Done, 0, << >>, << >>, << >>)
  <2>1. 1 .. 0 = {} /\ 0 \in Nat /\ ~(0 > 0)
    OBVIOUS
  <2>2. << >> \in [1 .. 0 -> Done] /\ << >> \in [1 .. 0 -> Nat]
    BY <2>1
  <2>3. Listed(Done, 0, << >>)
    BY <1>4, <2>1, <2>2 DEF Listed
  <2>4. Placed(buf, 0, << >>, << >>, << >>)
    BY <2>1, <2>2, Zenon DEF Placed
  <2>5. Chained(buf, 0, << >>, << >>)
    BY <1>2, <2>1, Zenon DEF Chained
  <2> QED BY <2>3, <2>4, <2>5, Zenon DEF Written
<1> QED BY <1>2, <1>3, <1>5, <1>6, Zenon DEF StreamInv

LEMMA StreamInvStep == StreamInv /\ [RelocNext \/ RelocFinished]_relocVars => StreamInv'
<1>1. SUFFICES ASSUME StreamInv, [RelocNext \/ RelocFinished]_relocVars PROVE StreamInv'
  OBVIOUS
<1>2. CASE EmitBlock
  BY <1>1, <1>2, EmitKeepsInv
<1>3. CASE Built
  BY <1>1, <1>3, BuiltKeepsInv
<1>4. CASE LoadFixup
  BY <1>1, <1>4, LoadFixupKeepsInv
<1>5. CASE NextBlock
  BY <1>1, <1>5, NextBlockKeepsInv
<1>6. CASE LoadedAll
  BY <1>1, <1>6, LoadedAllKeepsInv
<1>7. CASE UNCHANGED relocVars
  BY <1>1, <1>7, StutterKeepsInv
<1> QED BY <1>1, <1>2, <1>3, <1>4, <1>5, <1>6, <1>7 DEF RelocNext, RelocFinished

LEMMA StreamInvariant == RelocSpec => []StreamInv
BY InitInv, StreamInvStep, PTL DEF RelocSpec

-------------------------------------------------------------------------------
(* What a loader sees *)

\* Every block begins on a 4-byte boundary and can be read, and the sizes lead
\* from block to block to the end of what BuildRelocSection has written.
THEOREM StreamBlocksReadable == RelocSpec => []BlocksReadable
<1>1. StreamInv => BlocksReadable
  <2>1. SUFFICES ASSUME StreamInv PROVE BlocksReadable
    OBVIOUS
  <2>2. StreamTypes
    BY <2>1, Zenon DEF StreamInv
  <2>3. Len(buf) \in Nat /\ Len(buf) % 2 = 0
    BY <2>1, <2>2, StreamEven, Zenon DEF StreamInv
  <2>4. CASE phase = "build"
    BY <2>2, <2>3, <2>4 DEF StreamTypes, BlocksReadable
  <2>5. CASE phase /= "build"
    <3>1. PICK m, n, p, s, h :
            Written(buf, Done, n, p, s, h) /\ Loading(m, n, p, s, h) /\ Ready(n, p, s, h)
      BY <2>1, <2>5, LoaderReady
    <3>2. m \in Nat /\ n \in Nat /\ m <= n
      <4>1. m = Len(applied) /\ applied \in Seq(BaseReloc)
        BY <2>2, <3>1, Zenon DEF Loading, StreamTypes
      <4> QED BY <3>1, <4>1, LenProperties, ZenonT(30) DEF Loading, Ready
    <3>3. ASSUME NEW k \in 1 .. n, pos = s[k] PROVE pos % 2 = 1 /\ BlockReadable
      <4>1. ReadableAt(buf, pos)
        BY <3>1, <3>3, Zenon DEF Ready
      <4> QED BY <4>1, Zenon DEF ReadableAt, BlockReadable, BlockEnd, EndOf
    <3>4. CASE Before(m, n, s, h)
      <4>1. pos = s[m + 1] /\ m + 1 \in 1 .. n
        BY <3>2, <3>4 DEF Before
      <4> QED BY <2>3, <3>3, <4>1, Zenon DEF BlocksReadable
    <3>5. CASE Padded(m, n, s, h)
      <4>1. pos = s[m] /\ m \in 1 .. n
        BY <3>2, <3>5 DEF Padded
      <4> QED BY <2>3, <3>3, <4>1, Zenon DEF BlocksReadable
    <3>6. CASE AtEnd(m, n)
      <4>1. pos = Len(buf) + 1
        BY <3>6 DEF AtEnd
      <4> QED BY ONLY <2>3, <4>1 DEF BlocksReadable
    <3> QED BY <3>1, <3>4, <3>5, <3>6, Zenon DEF Loading
  <2> QED BY <2>4, <2>5
<1> QED BY <1>1, StreamInvariant, PTL

LEMMA SizeOfInterval ==
  ASSUME NEW n \in Nat
  PROVE  IsFiniteSet(1 .. n) /\ Cardinality(1 .. n) = n
BY FS_Interval

\* p takes each element of the list g to one place of the list f.
Reorders(n, p, f, g) ==
  /\ DOMAIN f = 1 .. n /\ p \in [1 .. n -> DOMAIN g]
  /\ \A j, k \in 1 .. n : p[j] = p[k] => j = k
  /\ \A i \in DOMAIN g : \E k \in 1 .. n : p[k] = i
  /\ \A k \in 1 .. n : f[k] = g[p[k]]

\* Two lists of which one is a reordering of the other hold each value as often.
LEMMA CountReordered ==
  ASSUME NEW n \in Nat, NEW f, NEW g, NEW p, Reorders(n, p, f, g), NEW x
  PROVE  Count(x, f) = Count(x, g)
<1>0. /\ DOMAIN f = 1 .. n /\ p \in [1 .. n -> DOMAIN g]
      /\ \A j, k \in 1 .. n : p[j] = p[k] => j = k
      /\ \A i \in DOMAIN g : \E k \in 1 .. n : p[k] = i
      /\ \A k \in 1 .. n : f[k] = g[p[k]]
  BY Zenon DEF Reorders
<1> DEFINE S == {k \in 1 .. n : f[k] = x}
           T == {i \in DOMAIN g : g[i] = x}
           b == [k \in S |-> p[k]]
<1>1. IsFiniteSet(S)
  <2>1. IsFiniteSet(1 .. n)
    BY SizeOfInterval
  <2>2. S \in SUBSET (1 .. n)
    OBVIOUS
  <2> HIDE DEF S
  <2> QED BY <2>1, <2>2, FS_Subset, Zenon
<1>2. b \in [S -> T]
  BY <1>0
<1>3. \A j, k \in S : b[j] = b[k] => j = k
  BY <1>0
<1>4. \A i \in T : \E k \in S : b[k] = i
  <2>1. ASSUME NEW i \in T PROVE \E k \in S : b[k] = i
    <3>1. PICK k \in 1 .. n : p[k] = i
      BY <1>0
    <3>2. k \in S
      BY <1>0, <3>1
    <3> QED BY <3>1, <3>2
  <2> QED BY <2>1
<1>5. b \in Bijection(S, T)
  <2> HIDE DEF S, T, b
  <2>1. DOMAIN b = S
    BY <1>2
  <2> QED BY <1>2, <1>3, <1>4, <2>1 DEF Bijection, Injection, Surjection, IsInjective
<1>6. Cardinality(T) = Cardinality(S)
  <2> HIDE DEF S, T, b
  <2>1. ExistsBijection(S, T)
    BY <1>5 DEF ExistsBijection
  <2> QED BY <1>1, <2>1, FS_Bijection, Zenon
<1>7. Count(x, f) = Cardinality(S) /\ Count(x, g) = Cardinality(T)
  BY <1>0 DEF Count
<1> QED BY <1>6, <1>7, Zenon

\* Once the loader is at the end, each base relocation was applied as often as it
\* was listed, in ascending order, and nothing else.
LEMMA LoadedInOrder ==
  ASSUME StreamInv, phase = "loaded"
  PROVE  /\ Len(applied) = Len(entries)
         /\ \A i \in 1 .. Len(applied) - 1 : applied[i].rva <= applied[i + 1].rva
         /\ \A x : Count(x, applied) = Count(x, entries)
<1>1. PICK m, n, p, s, h :
        Written(buf, Done, n, p, s, h) /\ Loading(m, n, p, s, h) /\ Ready(n, p, s, h)
  BY LoaderReady
<1>2. entries \in Seq(BaseReloc) /\ applied \in Seq(BaseReloc) /\ todo = {}
  <2>1. StreamTypes /\ phase /= "build"
    BY DEF StreamInv
  <2> QED BY <2>1, Zenon DEF StreamTypes
<1>3. n \in Nat /\ Len(applied) = n /\ \A k \in 1 .. n : applied[k] = entries[p[k]]
  BY <1>1, Zenon DEF Loading, AtEnd, Ready
<1>4. /\ p \in [1 .. n -> DOMAIN entries]
      /\ \A j, k \in 1 .. n : p[j] = p[k] => j = k
      /\ \A i \in DOMAIN entries : \E k \in 1 .. n : p[k] = i
      /\ \A k \in 1 .. n : k + 1 <= n => entries[p[k]].rva <= entries[p[k + 1]].rva
  <2>1. Done = DOMAIN entries
    BY <1>2 DEF Done
  <2>2. Listed(DOMAIN entries, n, p)
    BY <1>1, <2>1, Zenon DEF Written
  <2> QED BY <2>2, Zenon DEF Listed
<1>5. Len(applied) = Len(entries)
  <2>1. Len(entries) \in Nat /\ DOMAIN entries = 1 .. Len(entries)
    BY <1>2, LenProperties, Zenon
  <2>2. /\ IsFiniteSet(1 .. n) /\ Cardinality(1 .. n) = n
        /\ Cardinality(1 .. Len(entries)) = Len(entries)
    BY <1>3, <2>1, SizeOfInterval, Zenon
  <2>3. p \in Bijection(1 .. n, DOMAIN entries)
    <3>1. DOMAIN p = 1 .. n
      BY <1>4
    <3> QED BY <1>4, <3>1 DEF Bijection, Injection, Surjection, IsInjective
  <2>4. ExistsBijection(1 .. n, DOMAIN entries)
    BY <2>3, Zenon DEF ExistsBijection
  <2> QED BY <1>3, <2>1, <2>2, <2>4, FS_Bijection, Zenon
<1>6. ASSUME NEW i \in 1 .. Len(applied) - 1 PROVE applied[i].rva <= applied[i + 1].rva
  <2>1. i \in 1 .. n /\ i + 1 \in 1 .. n /\ i + 1 <= n
    BY <1>3
  <2> QED BY <1>3, <1>4, <2>1
<1>7. ASSUME NEW x PROVE Count(x, applied) = Count(x, entries)
  <2>1. DOMAIN applied = 1 .. n
    BY <1>2, <1>3
  <2>2. Reorders(n, p, applied, entries)
    BY <1>3, <1>4, <2>1, Zenon DEF Reorders
  <2>3. n \in Nat
    BY <1>3
  <2> QED BY ONLY <2>2, <2>3, CountReordered
<1> QED BY <1>5, <1>6, <1>7, Zenon

\* A loader that reads what BuildRelocSection has written applies each base
\* relocation as often as it was listed, in ascending order, and nothing else.
THEOREM StreamRoundTrip == RelocSpec => []RoundTrip
<1>1. StreamInv => RoundTrip
  BY LoadedInOrder DEF RoundTrip
<1> QED BY <1>1, StreamInvariant, PTL

-------------------------------------------------------------------------------
(* Halfwords *)

Halves == {h \in Nat : h < 65536}

FourGiB == 65536 * 65536

\* The addresses, and the stream itself, end below 4 GiB: 32 bits hold an address,
\* and 32 bits the size of a block.
StreamSmall ==
  /\ \A i \in DOMAIN entries : entries[i].rva < FourGiB
  /\ 2 * Len(buf) < FourGiB

\* What is written are halfwords, and the loader stays among them.
BoundsInv ==
  /\ StreamSmall => buf \in Seq(Halves)
  /\ pos \in 1 .. Len(buf) + 1 /\ fix \in 5 .. Len(buf) + 5

LEMMA EvenBefore ==
  ASSUME NEW n \in Nat, (n + 1) % 2 = 0
  PROVE  n % 2 = 1
OBVIOUS

LEMMA HalvesOf ==
  ASSUME NEW v \in Nat, v < FourGiB
  PROVE  Half(v) \in Seq(Halves)
<1> DEFINE l == v % 65536
           g == v \div 65536
<1>1. l \in Nat /\ l < 65536 /\ g \in Nat /\ v = 65536 * g + l
  BY DivModNat
<1>2. Half(v) = << l, g >>
  BY DEF Half
<1> HIDE DEF l, g
<1>3. l \in Halves /\ g \in Halves
  <2>1. g < 65536
    <3>1. 65536 * g < 65536 * 65536
      BY <1>1 DEF FourGiB
    <3> QED BY <1>1, <3>1
  <2> QED BY <1>1, <2>1 DEF Halves
<1> QED BY <1>2, <1>3

LEMMA EncodeHalf ==
  ASSUME NEW e \in BaseReloc, NEW page \in Nat
  PROVE  Encode(e, page) \in Halves
<1> DEFINE t == e.type
           x == e.rva - page
           l == x % 4096
<1>1. t \in 1 .. 15 /\ x \in Int
  BY DEF BaseReloc, BaseRelocTypes
<1>2. l \in 0 .. 4095
  <2> HIDE DEF x
  <2> QED BY <1>1
<1>3. Encode(e, page) = (t * 4096) + l
  BY DEF Encode, PageSize
<1> HIDE DEF t, l
<1>4. (t * 4096) + l \in Nat /\ (t * 4096) + l < 65536
  BY <1>1, <1>2
<1> QED BY <1>3, <1>4 DEF Halves

LEMMA ConcatIn ==
  ASSUME NEW S, NEW x \in Seq(S), NEW y \in Seq(S)
  PROVE  x \o y \in Seq(S)
OBVIOUS

\* A block of a small stream is made of halfwords.
LEMMA BlockHalves ==
  ASSUME entries \in Seq(BaseReloc), NEW c \in Nat \ {0}, NEW q \in [1 .. c -> DOMAIN entries],
         \A j, k \in 1 .. c : PageOf(entries[q[j]].rva) = PageOf(entries[q[k]].rva),
         \A i \in DOMAIN entries : entries[i].rva < FourGiB,
         2 * Len(Block(q)) < FourGiB
  PROVE  Block(q) \in Seq(Halves)
<1> DEFINE page == PageOf(entries[q[1]].rva)
           size == BlockSize(c)
           body == [k \in 1 .. c |-> Encode(entries[q[k]], page)]
           z    == Padding(c)
           g    == Len(Block(q))
<1>1. 1 \in 1 .. c /\ DOMAIN q = 1 .. c /\ Len(q) = c
  OBVIOUS
<1>2. \A k \in 1 .. c : entries[q[k]] \in BaseReloc
  OBVIOUS
<1>3. page \in Nat /\ page < FourGiB
  <2> DEFINE v == entries[q[1]].rva
  <2>1. v \in Nat /\ v < FourGiB
    BY <1>1, <1>2 DEF BaseReloc
  <2> HIDE DEF v
  <2>2. PageOf(v) \in Nat /\ PageOf(v) <= v
    BY <2>1, PageBounds
  <2>3. PageOf(v) \in Nat /\ PageOf(v) < FourGiB
    BY ONLY <2>1, <2>2 DEF FourGiB
  <2> QED BY <2>3 DEF v
<1>4. g \in Nat /\ c + 4 <= g /\ g % 2 = 0 /\ 2 * g < FourGiB
  <2>1. IsBlock(Block(q), c, q)
    BY BlockIsBlock
  <2> QED BY <2>1, LenProperties DEF IsBlock
<1>5. size \in Nat /\ size < FourGiB
  <2>1. /\ size \in Nat /\ size \div 2 \in {c + 4, c + 5} /\ (size \div 2) % 2 = 0
        /\ size = 2 * (size \div 2)
    BY BlockSizeShape
  <2> HIDE DEF size, g
  <2> DEFINE d == size \div 2
  <2>2. d \in {c + 4, c + 5} /\ d % 2 = 0 /\ size = 2 * d
    BY <2>1
  <2> HIDE DEF d
  <2>3. d \in Nat /\ d <= g
    <3>1. CASE d = c + 4
      BY <1>4, <3>1
    <3>2. CASE d = c + 5
      <4>1. c + 4 \in Nat /\ (c + 5) % 2 = 0
        BY <2>2, <3>2
      <4>2. (c + 4) % 2 = 1
        <5> DEFINE n == c + 4
        <5>1. n \in Nat /\ (n + 1) % 2 = 0
          BY <4>1
        <5> HIDE DEF n
        <5>2. n % 2 = 1
          BY <5>1, EvenBefore
        <5> QED BY <5>2 DEF n
      <4>3. g /= c + 4
        BY <1>4, <4>2
      <4> QED BY <1>4, <3>2, <4>3
    <3> QED BY <2>2, <3>1, <3>2
  <2>4. 2 * d < FourGiB
    BY <1>4, <2>3 DEF FourGiB
  <2> QED BY <2>1, <2>2, <2>4
<1>6. Half(page) \in Seq(Halves) /\ Half(size) \in Seq(Halves)
  <2> HIDE DEF page, size
  <2> QED BY <1>3, <1>5, HalvesOf
<1>7. body \in Seq(Halves)
  <2>1. \A k \in 1 .. c : Encode(entries[q[k]], page) \in Halves
    <3> HIDE DEF page
    <3> QED BY <1>2, <1>3, EncodeHalf
  <2>2. body \in [1 .. c -> Halves]
    BY <2>1
  <2> HIDE DEF body
  <2> QED BY <2>2
<1>8. z \in Seq(Halves)
  <2>1. z = << 0 >> \/ z = << >>
    BY DEF Padding
  <2> HIDE DEF z
  <2>2. 0 \in Halves
    BY DEF Halves
  <2>3. << 0 >> \in Seq(Halves) /\ << >> \in Seq(Halves)
    BY <2>2
  <2> QED BY <2>1, <2>3, Zenon
<1>9. Block(q) = ((Half(page) \o Half(size)) \o body) \o z
  BY <1>1 DEF Block
<1> HIDE DEF body, z, page, size
<1>10. (Half(page) \o Half(size)) \o body \in Seq(Halves)
  BY <1>6, <1>7, ConcatIn
<1> QED BY <1>8, <1>9, <1>10, ConcatIn

LEMMA EmitBounds ==
  ASSUME StreamInv, BoundsInv, EmitBlock
  PROVE  BoundsInv'
<1>1. PICK i \in Lowest(todo) : \E q \in SortedBy(Window(i)) : buf' = buf \o Block(q)
  BY Zenon DEF EmitBlock
<1>2. PICK q \in SortedBy(Window(i)) : buf' = buf \o Block(q)
  BY <1>1, Zenon
<1>3. entries' = entries /\ pos' = pos /\ fix' = fix
  BY Zenon DEF EmitBlock
<1>4. StreamTypes
  BY Zenon DEF StreamInv
<1> DEFINE c == Cardinality(Window(i))
           t == Block(q)
<1>5. i \in todo
  BY Zenon DEF Lowest
<1>6. /\ c \in Nat \ {0} /\ q \in [1 .. c -> DOMAIN entries]
      /\ \A j, k \in 1 .. c : PageOf(entries[q[j]].rva) = PageOf(entries[q[k]].rva)
  BY <1>4, <1>5, WindowListed, Zenon
<1>7. entries \in Seq(BaseReloc) /\ buf \in Seq(Nat)
  BY <1>4, Zenon DEF StreamTypes
<1>8. t \in Seq(Nat)
  BY <1>6, <1>7, BlockIsBlock, Zenon DEF IsBlock
<1> HIDE DEF c, t
<1>9. Len(buf) \in Nat /\ Len(t) \in Nat /\ Len(buf') = Len(buf) + Len(t)
  BY <1>2, <1>7, <1>8, ConcatHalves, LenProperties DEF t
<1>10. ASSUME StreamSmall' PROVE buf' \in Seq(Halves)
  <2>1. /\ \A j \in DOMAIN entries : entries[j].rva < FourGiB
        /\ 2 * (Len(buf) + Len(t)) < FourGiB
    <3>1. /\ \A j \in DOMAIN entries' : entries'[j].rva < FourGiB
          /\ 2 * Len(buf') < FourGiB
      BY <1>10, Zenon DEF StreamSmall
    <3> QED BY <1>3, <1>9, <3>1, Zenon
  <2>2. 2 * Len(buf) < FourGiB /\ 2 * Len(t) < FourGiB
    BY <1>9, <2>1 DEF FourGiB
  <2>3. buf \in Seq(Halves)
    <3>1. StreamSmall
      BY <2>1, <2>2, Zenon DEF StreamSmall
    <3> QED BY <3>1, Zenon DEF BoundsInv
  <2>4. t \in Seq(Halves)
    BY <1>6, <1>7, <2>1, <2>2, BlockHalves DEF t
  <2> QED BY <1>2, <2>3, <2>4, ConcatIn DEF t
<1>11. pos \in 1 .. Len(buf') + 1 /\ fix \in 5 .. Len(buf') + 5
  BY <1>9 DEF BoundsInv
<1> QED BY <1>3, <1>10, <1>11 DEF BoundsInv

\* A block that the loader can read ends in the stream.
LEMMA EndBounds ==
  ASSUME StreamTypes, BoundsInv, BlockReadable
  PROVE  /\ Len(buf) \in Nat /\ pos \in Nat /\ fix \in Nat /\ BlockEnd \in Nat
         /\ pos < BlockEnd /\ BlockEnd <= Len(buf) + 1
<1>1. buf \in Seq(Nat) /\ Len(buf) \in Nat /\ pos \in Nat /\ fix \in Nat /\ 1 <= pos
  BY LenProperties DEF StreamTypes, BoundsInv
<1>2. pos + 3 <= Len(buf)
  BY DEF BlockReadable
<1> DEFINE l == buf[pos + 2]
           h == buf[pos + 3]
           w == Word(buf, pos + 2)
<1>3. l \in Nat /\ h \in Nat
  BY <1>1, <1>2
<1>4. w = l + 65536 * h
  <2>1. (pos + 2) + 1 = pos + 3
    BY <1>1
  <2> QED BY <2>1 DEF Word
<1>5. w > 8 /\ BlockEnd = pos + (w \div 2) /\ BlockEnd <= Len(buf) + 1
  BY DEF BlockReadable, BlockEnd
<1> HIDE DEF l, h, w
<1>6. w \in Nat
  BY <1>3, <1>4
<1>7. w \div 2 \in Nat /\ w \div 2 > 0
  BY <1>5, <1>6
<1> QED BY <1>1, <1>5, <1>7

LEMMA BoundsStep ==
  StreamInv /\ BoundsInv /\ [RelocNext \/ RelocFinished]_relocVars => BoundsInv'
<1> SUFFICES ASSUME StreamInv, BoundsInv, [RelocNext \/ RelocFinished]_relocVars
             PROVE  BoundsInv'
  OBVIOUS
<1>1. StreamTypes
  BY Zenon DEF StreamInv
<1>2. CASE EmitBlock
  BY <1>2, EmitBounds
<1>3. ASSUME UNCHANGED <<entries, buf>>,
             pos' \in 1 .. Len(buf) + 1, fix' \in 5 .. Len(buf) + 5
      PROVE  BoundsInv'
  <2>1. StreamSmall' <=> StreamSmall
    BY <1>3 DEF StreamSmall
  <2>2. StreamSmall' => buf' \in Seq(Halves)
    BY <1>3, <2>1, Zenon DEF BoundsInv
  <2> QED BY <1>3, <2>2 DEF BoundsInv
<1>4. CASE Built \/ LoadedAll \/ UNCHANGED relocVars
  <2>1. UNCHANGED <<entries, buf, pos, fix>>
    BY <1>4 DEF Built, LoadedAll, relocVars
  <2> QED BY <1>3, <2>1 DEF BoundsInv
<1>5. CASE LoadFixup
  <2>1. /\ BlockReadable /\ fix < BlockEnd /\ fix' = fix + 1
        /\ UNCHANGED <<entries, buf, pos>>
    BY <1>5 DEF LoadFixup
  <2>2. fix + 1 \in 5 .. Len(buf) + 5
    BY <1>1, <2>1, EndBounds DEF BoundsInv
  <2> QED BY <1>3, <2>1, <2>2 DEF BoundsInv
<1>6. CASE NextBlock
  <2>1. /\ BlockReadable /\ pos' = BlockEnd /\ fix' = BlockEnd + 4
        /\ UNCHANGED <<entries, buf>>
    BY <1>6 DEF NextBlock
  <2>2. BlockEnd \in 1 .. Len(buf) + 1 /\ BlockEnd + 4 \in 5 .. Len(buf) + 5
    BY <1>1, <2>1, EndBounds DEF BoundsInv
  <2> QED BY <1>3, <2>1, <2>2
<1> QED BY <1>2, <1>4, <1>5, <1>6 DEF RelocNext, RelocFinished

LEMMA BoundsInit ==
  ASSUME buf = << >>, pos = 1, fix = 5
  PROVE  BoundsInv
BY DEF BoundsInv

LEMMA StreamTyped ==
  ASSUME StreamTypes, BoundsInv, StreamSmall
  PROVE  RelocTypeOK
<1>1. buf \in Seq(Halves) /\ pos \in 1 .. Len(buf) + 1 /\ fix \in 5 .. Len(buf) + 5
  BY Zenon DEF BoundsInv
<1>2. \A i \in DOMAIN buf : buf[i] \in Halves
  BY <1>1
<1>3. \A i \in DOMAIN buf : buf[i] \in Nat /\ buf[i] < 65536
  BY <1>2 DEF Halves
<1> QED BY <1>1, <1>3 DEF StreamTypes, RelocTypeOK

\* As long as addresses and stream end below 4 GiB, what BuildRelocSection writes
\* are halfwords, and a loader reads nothing in front of them or behind them.
THEOREM StreamTypeCorrect == RelocSpec => [](StreamSmall => RelocTypeOK)
<1>1. RelocInit => StreamInv /\ BoundsInv
  BY InitInv, BoundsInit DEF RelocInit
<1>2. StreamInv /\ BoundsInv /\ [RelocNext \/ RelocFinished]_relocVars => (StreamInv /\ BoundsInv)'
  BY StreamInvStep, BoundsStep
<1>3. StreamInv /\ BoundsInv => (StreamSmall => RelocTypeOK)
  BY StreamTyped DEF StreamInv
<1> QED BY <1>1, <1>2, <1>3, PTL DEF RelocSpec
===============================================================================
