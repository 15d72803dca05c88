--------------------------- MODULE InstructionsProofs ---------------------------
(***************************************************************************)
(* Proofs about the fixups of the five back ends and the CPUs that execute *)
(* the fixed instructions, for every sequence that compilers emit, at any  *)
(* place, with any target and any addend: no opcode is disturbed, a fixup  *)
(* is refused for a cause, and a sequence that links ends at its target.   *)
(*                                                                         *)
(* The argument has three parts.  A field of a fixup and the immediate of  *)
(* an instruction format that list the same bits transport a number's bits *)
(* unchanged (FixupLands); a number of the immediate's width is the sum of *)
(* its bits, with its sign copied to those above (ImmediateIs).  Hence     *)
(* each relocation puts into its word what the sequence needs there (Put), *)
(* and the parts of two words add up (PartsAddUp).                         *)
(***************************************************************************)
EXTENDS Instructions, PEImageProofs, FiniteSetTheorems

-------------------------------------------------------------------------------
(* Powers of two *)

\* A set has twice as many subsets when it has one element more.
LEMMA TwoTo ==
  ASSUME NEW k \in Nat
  PROVE  2^k \in Nat \ {0} /\ 2^(k + 1) = 2 * 2^k
<1> DEFINE S == 1 .. k
           T == 1 .. k + 1
           A == SUBSET S
           With(X) == X \cup {k + 1}
           f == [X \in A |-> With(X)]
           B == {With(X) : X \in A}
<1>1. IsFiniteSet(S) /\ Cardinality(S) = k /\ IsFiniteSet(T) /\ Cardinality(T) = k + 1
  BY FS_Interval
<1>2. /\ IsFiniteSet(A) /\ Cardinality(A) = 2^k /\ Cardinality(A) \in Nat
      /\ Cardinality(SUBSET T) = 2^(k + 1)
  BY <1>1, FS_SUBSET, FS_CardinalityType
<1>3. S \cup {k + 1} = T /\ k + 1 \notin S
  OBVIOUS
<1>4. f \in Bijection(A, B)
  <2>1. \A X, Y \in A : With(X) = With(Y) => X = Y
    BY <1>3
  <2>2. f \in [A -> B] /\ \A X \in A : f[X] = With(X)
    OBVIOUS
  <2>3. f \in Injection(A, B)
    BY <2>1, <2>2 DEF Injection, IsInjective
  <2>4. f \in Surjection(A, B)
    BY <2>2 DEF Surjection
  <2> QED BY <2>3, <2>4 DEF Bijection
<1>5. IsFiniteSet(B) /\ Cardinality(B) = 2^k
  BY <1>2, <1>4, FS_Bijection DEF ExistsBijection
<1>6. A \cup B = SUBSET T
  <2>1. ASSUME NEW X \in SUBSET T, k + 1 \notin X PROVE X \in A
    BY <1>3, <2>1
  <2>2. ASSUME NEW X \in SUBSET T, k + 1 \in X PROVE X \in B
    <3>1. X \ {k + 1} \in A /\ X = With(X \ {k + 1})
      BY <1>3, <2>2
    <3> QED BY <3>1
  <2>3. \A X \in A : X \in SUBSET T /\ With(X) \in SUBSET T
    BY <1>3
  <2>4. A \subseteq SUBSET T /\ B \subseteq SUBSET T
    BY <2>3, ZenonT(40)
  <2> DEFINE U == SUBSET T
  <2>5. U \subseteq A \cup B
    BY <2>1, <2>2
  <2> HIDE DEF A, B
  <2> QED BY <2>4, <2>5
<1>7. A \cap B = {}
  BY <1>3
<1>8. 2^(k + 1) = 2^k + 2^k
  <2> HIDE DEF A, B
  <2>1. Cardinality(A \cap B) = 0
    BY <1>7, FS_EmptySet
  <2>2. Cardinality(A \cup B) = Cardinality(A) + Cardinality(B) - Cardinality(A \cap B)
    BY <1>2, <1>5, FS_Union
  <2> DEFINE c == Cardinality(A)
             p == 2^k
             q == 2^(k + 1)
  <2>3. c \in Nat /\ c = p /\ q = c + p - 0
    BY <1>2, <1>5, <1>6, <2>1, <2>2
  <2> HIDE DEF c, p, q
  <2>4. q = p + p
    BY <2>3
  <2> QED BY <2>4 DEF p, q
<1>9. 2^k /= 0
  <2>1. S \in A
    OBVIOUS
  <2> HIDE DEF A
  <2> QED BY <1>2, <2>1, FS_EmptySet
<1> QED BY <1>2, <1>8, <1>9
LEMMA TwoToSum ==
  ASSUME NEW i \in Nat, NEW j \in Nat
  PROVE  2^(i + j) = 2^i * 2^j
<1> DEFINE T == {m \in Nat : 2^(i + m) = 2^i * 2^m}
<1>1. 0 \in T
  <2>1. 2^0 = 1 /\ 2^i \in Nat /\ i + 0 = i
    BY TwoTo
  <2> QED BY <2>1
<1>2. ASSUME NEW m \in 0 .. j - 1, m \in T PROVE m + 1 \in T
  <2>1. m \in Nat /\ m + 1 \in Nat /\ i + (m + 1) = (i + m) + 1 /\ i + m \in Nat
    OBVIOUS
  <2>2. 2^((i + m) + 1) = 2 * 2^(i + m) /\ 2^(m + 1) = 2 * 2^m
    BY <2>1, TwoTo
  <2> DEFINE a == 2^i
             b == 2^m
             c == 2^(i + m)
  <2>3. a \in Nat /\ b \in Nat /\ c \in Nat /\ c = a * b
    BY <1>2, <2>1, TwoTo
  <2> HIDE DEF a, b, c
  <2>4. 2 * c = a * (2 * b)
    BY <2>3
  <2>5. 2^(i + (m + 1)) = 2^i * 2^(m + 1)
    BY <2>1, <2>2, <2>4 DEF a, b, c
  <2> QED BY <2>1, <2>5
<1> HIDE DEF T
<1>3. j \in T
  BY <1>1, <1>2, UpTo
<1> QED BY <1>3 DEF T

LEMMA DivDiv ==
  ASSUME NEW x \in Int, NEW a \in Nat \ {0}, NEW b \in Nat \ {0}
  PROVE  (x \div a) \div b = x \div (a * b)
<1> DEFINE q == x \div a
           r == x % a
           p == q \div b
           s == q % b
<1>1. q \in Int /\ r \in 0 .. a - 1 /\ x = a * q + r
  BY DivMod
<1>2. p \in Int /\ s \in 0 .. b - 1 /\ q = b * p + s
  BY <1>1, DivMod
<1> HIDE DEF q, r, p, s
<1>3. a * b \in Nat \ {0}
  OBVIOUS
<1>4. x = (a * b) * p + (a * s + r)
  <2>1. a * q = (a * b) * p + a * s
    BY <1>2
  <2> QED BY <1>1, <1>2, <2>1
<1>5. a * s + r \in 0 .. a * b - 1
  <2>1. a * s <= a * (b - 1) /\ a * s >= 0 /\ a * s \in Int
    BY <1>2
  <2>2. a * (b - 1) = a * b - a
    OBVIOUS
  <2> QED BY <1>1, <1>3, <2>1, <2>2
<1>6. x \div (a * b) = p
  BY <1>2, <1>3, <1>4, <1>5, ModUnique
<1> QED BY <1>6 DEF p, q

\* The bits of a number, and what is left of it without them.
BitAt(x, e) == (x \div 2^e) % 2

LEMMA NextBit ==
  ASSUME NEW x \in Int, NEW e \in Nat
  PROVE  /\ BitAt(x, e) \in {0, 1} /\ x \div 2^e \in Int
         /\ x \div 2^e = 2 * (x \div 2^(e + 1)) + BitAt(x, e)
<1>1. 2^e \in Nat \ {0} /\ 2^(e + 1) = 2^e * 2
  BY TwoTo
<1>2. (x \div 2^e) \div 2 = x \div 2^(e + 1)
  <2> DEFINE p == 2^e
             b == 2
  <2>1. p \in Nat \ {0} /\ b \in Nat \ {0}
    BY <1>1
  <2> HIDE DEF p, b
  <2>2. (x \div p) \div b = x \div (p * b)
    BY <2>1, DivDiv
  <2> QED BY <1>1, <2>2 DEF p, b
<1> DEFINE y == x \div 2^e
<1>3. y \in Int
  BY <1>1, DivMod
<1> HIDE DEF y
<1>4. y % 2 \in {0, 1} /\ y = 2 * (y \div 2) + (y % 2)
  BY <1>3
<1> QED BY <1>2, <1>3, <1>4 DEF y, BitAt

-------------------------------------------------------------------------------
(* Addresses as numbers *)

Addr == [pg : Int, lo : 0 .. PageLen - 1]

Val(a) == 4096 * a.pg + a.lo

LEMMA PageLenIs == PageLen = 4096 /\ PageBits = 12
BY DEF PageLen, PageBits

LEMMA AddrShape ==
  ASSUME NEW a \in Addr
  PROVE  /\ a.pg \in Int /\ a.lo \in Int /\ 0 <= a.lo /\ a.lo < 4096
         /\ Val(a) \in Int
<1>1. a.pg \in Int /\ a.lo \in 0 .. 4095
  BY PageLenIs DEF Addr
<1> DEFINE l == a.lo
<1>2. l \in Int /\ 0 <= l /\ l < 4096
  <2>1. l \in 0 .. 4095
    BY <1>1
  <2> HIDE DEF l
  <2> QED BY <2>1
<1>3. 4096 * a.pg + a.lo \in Int
  BY <1>1, <1>2
<1> QED BY <1>1, <1>2, <1>3 DEF Val

LEMMA NumIs ==
  ASSUME NEW p \in Int, NEW r \in Int
  PROVE  Num(p, r) \in Addr /\ Val(Num(p, r)) = 4096 * p + r
<1>1. r % 4096 \in 0 .. 4095 /\ r \div 4096 \in Int /\ r = 4096 * (r \div 4096) + (r % 4096)
  OBVIOUS
<1> QED BY <1>1, PageLenIs DEF Num, Addr, Val

LEMMA SumIs ==
  ASSUME NEW a \in Addr, NEW b \in Addr
  PROVE  /\ Plus(a, b) \in Addr /\ Val(Plus(a, b)) = Val(a) + Val(b)
         /\ Minus(a, b) \in Addr /\ Val(Minus(a, b)) = Val(a) - Val(b)
<1> DEFINE p == a.pg
           l == a.lo
           q == b.pg
           m == b.lo
<1>1. p \in Int /\ l \in Int /\ q \in Int /\ m \in Int
  BY AddrShape
<1>2. Val(a) = 4096 * p + l /\ Val(b) = 4096 * q + m
  BY DEF Val
<1>3. /\ Plus(a, b) = Num(p + q, l + m)
      /\ Minus(a, b) = Num(p - q, l - m)
  BY DEF Plus, Minus
<1> HIDE DEF p, l, q, m
<1>5. \A u, v \in Int : Num(u, v) \in Addr /\ Val(Num(u, v)) = 4096 * u + v
  BY NumIs
<1>4. /\ p + q \in Int /\ l + m \in Int
      /\ p - q \in Int /\ l - m \in Int
  BY <1>1
<1>6. /\ 4096 * (p + q) + (l + m) = (4096 * p + l) + (4096 * q + m)
      /\ 4096 * (p - q) + (l - m) = (4096 * p + l) - (4096 * q + m)
  BY <1>1
<1>7. /\ Plus(a, b) \in Addr /\ Val(Plus(a, b)) = 4096 * (p + q) + (l + m)
      /\ Minus(a, b) \in Addr /\ Val(Minus(a, b)) = 4096 * (p - q) + (l - m)
  <2> DEFINE i == p + q
             j == l + m
             u == p - q
             v == l - m
  <2> HIDE DEF i, j, u, v
  <2>1. /\ i \in Int /\ j \in Int /\ u \in Int /\ v \in Int
        /\ Plus(a, b) = Num(i, j) /\ Minus(a, b) = Num(u, v)
    BY <1>3, <1>4 DEF i, j, u, v
  <2>2. /\ Plus(a, b) \in Addr /\ Val(Plus(a, b)) = 4096 * i + j
        /\ Minus(a, b) \in Addr /\ Val(Minus(a, b)) = 4096 * u + v
    BY <1>5, <2>1
  <2> QED BY <2>2 DEF i, j, u, v
<1> QED BY <1>2, <1>6, <1>7

LEMMA LimbsAre ==
  ASSUME NEW a \in Addr
  PROVE  a.pg = Val(a) \div 4096 /\ a.lo = Val(a) % 4096
<1> DEFINE p == a.pg
           l == a.lo
<1>1. p \in Int /\ l \in Int /\ 0 <= l /\ l < 4096 /\ Val(a) = 4096 * p + l
  BY AddrShape DEF Val
<1> HIDE DEF p, l
<1>2. (4096 * p + l) \div 4096 = p /\ (4096 * p + l) % 4096 = l
  BY <1>1
<1> QED BY <1>1, <1>2 DEF p, l

LEMMA SameVal ==
  ASSUME NEW a \in Addr, NEW b \in Addr, Val(a) = Val(b)
  PROVE  a = b
<1>1. a.pg = b.pg /\ a.lo = b.lo
  BY LimbsAre
<1> QED BY <1>1 DEF Addr

LEMMA PartsAre ==
  ASSUME NEW a \in Addr
  PROVE  /\ Page(a) \in Addr /\ Val(Page(a)) = Val(a) - (Val(a) % 4096) /\ Page(a).lo = 0
         /\ Low12(a) \in Addr /\ Val(Low12(a)) = Val(a) % 4096 /\ Low12(a).lo = a.lo
<1> DEFINE p == a.pg
           l == a.lo
<1>1. p \in Int /\ l \in 0 .. 4095 /\ Val(a) = 4096 * p + l
  BY PageLenIs DEF Addr, Val
<1>2. l = Val(a) % 4096
  BY LimbsAre
<1>3. /\ Page(a).pg = p /\ Page(a).lo = 0 /\ Page(a) \in Addr
      /\ Low12(a).pg = 0 /\ Low12(a).lo = l /\ Low12(a) \in Addr
  BY <1>1, PageLenIs DEF Page, Low12, Addr
<1>4. Val(Page(a)) = 4096 * p + 0 /\ Val(Low12(a)) = 4096 * 0 + l
  BY <1>3 DEF Val
<1> HIDE DEF p, l
<1>5. 4096 * p + 0 = (4096 * p + l) - l /\ 4096 * 0 + l = l
  BY <1>1
<1> DEFINE v == Val(a)
           f == Val(Page(a))
           g == Val(Low12(a))
<1>6. f = v - l /\ g = l
  <2> HIDE DEF v, f, g
  <2>1. v = 4096 * p + l /\ f = 4096 * p + 0 /\ g = 4096 * 0 + l
    BY <1>1, <1>4 DEF v, f, g
  <2> QED BY <1>5, <2>1
<1>7. Low12(a).lo = a.lo
  BY <1>3 DEF l
<1>8. l = v % 4096
  BY <1>2
<1> HIDE DEF v, f, g
<1>9. f = v - (v % 4096) /\ g = v % 4096
  BY <1>6, <1>8
<1> QED BY <1>3, <1>7, <1>9 DEF v, f, g

LEMMA ModMultiple ==
  ASSUME NEW w \in Nat \ {0}, NEW q \in Int, NEW v \in Int
  PROVE  (w * q + v) % w = v % w
<1> DEFINE p == v \div w
           r == v % w
<1>1. p \in Int /\ r \in 0 .. w - 1 /\ v = w * p + r
  BY DivMod
<1> HIDE DEF p, r
<1>2. q + p \in Int /\ w * q + v = w * (q + p) + r
  BY <1>1
<1> DEFINE s == q + p
<1>3. s \in Int /\ w * q + v = w * s + r
  BY <1>2
<1> HIDE DEF s
<1>4. (w * s + r) % w = r
  BY <1>1, <1>3, ModUnique
<1> QED BY <1>3, <1>4 DEF r

LEMMA PageSplits ==
  ASSUME NEW k \in Nat, k <= 12
  PROVE  /\ 2^k \in Nat \ {0} /\ 2^(12 - k) \in Nat \ {0}
         /\ 4096 = 2^k * 2^(12 - k) /\ 2^k <= 4096
<1>1. 12 - k \in Nat /\ k \in Nat /\ k + (12 - k) = 12
  OBVIOUS
<1>2. 2^k \in Nat \ {0} /\ 2^(12 - k) \in Nat \ {0}
  BY <1>1, TwoTo
<1>3. 2^(k + (12 - k)) = 2^k * 2^(12 - k)
  BY <1>1, TwoToSum
<1>4. 2^(k + (12 - k)) = 4096
  BY <1>1
<1> DEFINE p == 2^k
           q == 2^(12 - k)
<1>5. p \in Nat \ {0} /\ q \in Nat \ {0} /\ 4096 = p * q
  BY <1>2, <1>3, <1>4
<1> HIDE DEF p, q
<1>6. p <= p * q
  BY <1>5
<1> QED BY <1>5, <1>6 DEF p, q

\* The two limbs of a number shifted right.
LEMMA ShiftedIs ==
  ASSUME NEW a \in Addr, NEW k \in Nat, k <= 12
  PROVE  Shifted(a, k) \in Addr /\ Val(Shifted(a, k)) = Val(a) \div 2^k
<1> DEFINE d == 2^k
           p == a.pg
           l == a.lo
           q == p \div d
           r == p % d
           m == r * 4096 + l
           s == m \div d
           u == m % d
<1>1. p \in Int /\ l \in Int /\ 0 <= l /\ l < 4096 /\ Val(a) = 4096 * p + l
  BY AddrShape DEF Val
<1>2. d \in Nat \ {0}
  BY PageSplits
<1>3. Shifted(a, k) = [pg |-> q, lo |-> s]
  BY PageLenIs DEF Shifted
<1> HIDE DEF d, p, l
<1>4. q \in Int /\ r \in 0 .. d - 1 /\ p = d * q + r
  BY <1>1, <1>2, DivMod
<1> HIDE DEF q, r
<1>5. m \in Nat /\ m < 4096 * d
  <2>1. r \in Nat /\ r <= d - 1
    BY <1>2, <1>4
  <2> QED BY <1>1, <1>2, <2>1
<1> HIDE DEF m
<1>6. s \in Int /\ u \in 0 .. d - 1 /\ m = d * s + u
  BY <1>2, <1>5, DivMod
<1> HIDE DEF s, u
<1>7. s \in 0 .. 4095
  <2>1. CASE s < 0
    <3>1. d * s <= d * (-1)
      BY <1>2, <1>6, <2>1
    <3> QED BY <1>2, <1>5, <1>6, <3>1
  <2>2. CASE s >= 4096
    <3>1. d * s >= d * 4096
      BY <1>2, <1>6, <2>2
    <3> QED BY <1>2, <1>5, <1>6, <3>1
  <2> QED BY <1>6, <2>1, <2>2
<1>8. 4096 * q + s \in Int /\ Val(a) = d * (4096 * q + s) + u
  <2>1. 4096 * p = d * (4096 * q) + 4096 * r
    BY <1>2, <1>4
  <2>2. d * (4096 * q + s) = d * (4096 * q) + d * s
    BY <1>2, <1>4, <1>6
  <2>3. m = 4096 * r + l
    BY <1>4 DEF m
  <2> QED BY <1>1, <1>2, <1>4, <1>6, <2>1, <2>2, <2>3
<1> DEFINE v == 4096 * q + s
<1>9. v \in Int /\ Val(a) = d * v + u
  BY <1>8
<1> HIDE DEF v
<1>10. Val(a) \div d = v
  BY <1>2, <1>6, <1>9, ModUnique
<1>11. [pg |-> q, lo |-> s] \in Addr
  BY <1>4, <1>7, PageLenIs DEF Addr
<1>12. Val([pg |-> q, lo |-> s]) = 4096 * q + s
  BY DEF Val
<1> QED BY <1>3, <1>10, <1>11, <1>12 DEF v, d

LEMMA AlignedIs ==
  ASSUME NEW a \in Addr, NEW k \in Nat, k <= 12
  PROVE  Aligned(a, k) <=> Val(a) % 2^k = 0
<1> DEFINE d == 2^k
           c == 2^(12 - k)
           p == a.pg
           l == a.lo
           x == Val(a)
<1>1. p \in Int /\ l \in Int /\ x = 4096 * p + l /\ x \in Int
  BY AddrShape DEF Val
<1>2. d \in Nat \ {0} /\ c \in Nat \ {0} /\ 4096 = d * c
  BY PageSplits
<1>3. Aligned(a, k) <=> l % d = 0
  BY DEF Aligned
<1> HIDE DEF d, c, p, l, x
<1> DEFINE e == c * p
<1>4. e \in Int /\ x = d * e + l
  BY <1>1, <1>2
<1> HIDE DEF e
<1>5. x % d = l % d
  <2>1. d \in Nat \ {0} /\ e \in Int /\ l \in Int
    BY <1>1, <1>2, <1>4
  <2>2. (d * e + l) % d = l % d
    BY <2>1, ModMultiple
  <2> QED BY <1>4, <2>2
<1> QED BY <1>3, <1>5 DEF d, x

LEMMA WithinIs ==
  ASSUME NEW a \in Addr, NEW k \in Nat
  PROVE  Within(a, k) <=> -(2^k) <= Val(a) /\ Val(a) < 2^k
<1> DEFINE p == a.pg
           l == a.lo
<1>1. p \in Int /\ l \in Int /\ 0 <= l /\ l < 4096 /\ Val(a) = 4096 * p + l
  BY AddrShape DEF Val
<1>2. CASE k >= 12
  <2> DEFINE m == 2^(k - 12)
             n == 2^k
  <2>1. m \in Nat /\ n = 4096 * m
    <3>1. k - 12 \in Nat /\ 12 + (k - 12) = k
      BY <1>2
    <3>2. 2^(12 + (k - 12)) = 2^12 * 2^(k - 12)
      BY <3>1, TwoToSum
    <3> QED BY <3>1, <3>2, TwoTo
  <2>2. Within(a, k) <=> -m <= p /\ p < m
    BY <1>2, PageLenIs DEF Within
  <2> HIDE DEF m, n, p, l
  <2>3. (-m <= p /\ p < m) <=> (-(4096 * m) <= 4096 * p + l /\ 4096 * p + l < 4096 * m)
    BY <1>1, <2>1
  <2> QED BY <1>1, <2>1, <2>2, <2>3 DEF n
<1>3. CASE k < 12
  <2> DEFINE n == 2^k
  <2>1. n \in Nat \ {0} /\ n <= 4096
    BY <1>3, PageSplits
  <2>2. Within(a, k) <=> (p = 0 /\ l < n) \/ (p = -1 /\ l >= 4096 - n)
    BY <1>3, PageLenIs DEF Within
  <2> HIDE DEF n, p, l
  <2>3. ((p = 0 /\ l < n) \/ (p = -1 /\ l >= 4096 - n))
           <=> (-n <= 4096 * p + l /\ 4096 * p + l < n)
    BY <1>1, <2>1
  <2> QED BY <1>1, <2>2, <2>3 DEF n
<1> QED BY <1>2, <1>3

LEMMA BitIs ==
  ASSUME NEW a \in Addr, NEW e \in Nat
  PROVE  Bit(a, e) = BitAt(Val(a), e)
<1> DEFINE p == a.pg
           l == a.lo
           x == Val(a)
<1>1. p \in Int /\ l \in Int /\ 0 <= l /\ l < 4096 /\ x = 4096 * p + l /\ x \in Int
  BY AddrShape DEF Val
<1>2. CASE e >= 12
  <2> DEFINE m == 2^(e - 12)
             w == 4096
  <2>1. m \in Nat \ {0} /\ 2^e = w * m /\ w \in Nat \ {0}
    <3>1. e - 12 \in Nat /\ 12 + (e - 12) = e
      BY <1>2
    <3>2. 2^(12 + (e - 12)) = 2^12 * 2^(e - 12)
      BY <3>1, TwoToSum
    <3> QED BY <3>1, <3>2, TwoTo
  <2>2. Bit(a, e) = (p \div m) % 2
    BY <1>2, PageLenIs DEF Bit
  <2>3. p = x \div w
    BY LimbsAre
  <2> HIDE DEF m, w, x, p
  <2>4. (x \div w) \div m = x \div (w * m)
    BY <1>1, <2>1, DivDiv
  <2> QED BY <2>1, <2>2, <2>3, <2>4 DEF BitAt, x
<1>3. CASE e < 12
  <2> DEFINE d == 2^e
             h == 2^(11 - e)
             s == l \div d
             u == l % d
  <2>1. d \in Nat \ {0} /\ h \in Nat \ {0} /\ 4096 = d * (2 * h)
    <3>1. e <= 12 /\ 11 - e \in Nat /\ (11 - e) + 1 = 12 - e
      BY <1>3
    <3>2. 2^((11 - e) + 1) = 2 * 2^(11 - e) /\ 2^(11 - e) \in Nat \ {0}
      BY <3>1, TwoTo
    <3> QED BY <3>1, <3>2, PageSplits
  <2>2. Bit(a, e) = s % 2
    BY <1>3, PageLenIs DEF Bit
  <2> HIDE DEF d, h, p, l, x
  <2>3. s \in Int /\ u \in 0 .. d - 1 /\ l = d * s + u
    BY <1>1, <2>1, DivMod
  <2> HIDE DEF s, u
  <2> DEFINE g == h * p
             v == 2 * g + s
  <2>4. g \in Int /\ v \in Int
    BY <1>1, <2>1, <2>3
  <2>5. x = d * v + u
    <3>1. 4096 * p = d * (2 * g)
      BY <1>1, <2>1
    <3> HIDE DEF g
    <3>2. d * v = d * (2 * g) + d * s
      BY <2>1, <2>3, <2>4
    <3> HIDE DEF v
    <3> QED BY <1>1, <2>1, <2>3, <2>4, <3>1, <3>2
  <2> HIDE DEF v
  <2>6. x \div d = v
    BY <2>1, <2>3, <2>4, <2>5, ModUnique
  <2>7. v % 2 = s % 2
    <3> HIDE DEF g
    <3> QED BY <2>3, <2>4 DEF v
  <2> QED BY <2>2, <2>6, <2>7 DEF BitAt, x, d
<1> QED BY <1>2, <1>3
-------------------------------------------------------------------------------
(* Numbers of bits *)

\* What the recursion of Number says of its function.
Halved(g, bit, lo, hi, above) ==
  g = [e \in lo .. hi + 1 |-> IF e = hi + 1 THEN above ELSE 2 * g[e + 1] + bit[e]]

LEMMA NumberChosen ==
  ASSUME NEW bit, NEW lo, NEW hi, NEW above, NEW f, Halved(f, bit, lo, hi, above)
  PROVE  \E g : Halved(g, bit, lo, hi, above) /\ Number(bit, lo, hi, above) = g[lo]
<1> DEFINE Rec(g) == g = [e \in lo .. hi + 1 |-> IF e = hi + 1 THEN above ELSE 2 * g[e + 1] + bit[e]]
           u == CHOOSE g : Rec(g)
<1>1. Number(bit, lo, hi, above) = u[lo]
  BY DEF Number
<1>2. Rec(f)
  BY DEF Halved
<1>3. Rec(u)
  <2> HIDE DEF Rec
  <2> QED BY <1>2
<1> HIDE DEF u
<1> QED BY <1>1, <1>3 DEF Halved

\* A number is what its bits add up to.
LEMMA NumberIs ==
  ASSUME NEW lo \in Nat, NEW hi \in Nat, lo <= hi + 1, NEW x \in Int, NEW bit,
         \A e \in lo .. hi : bit[e] = BitAt(x, e)
  PROVE  Number(bit, lo, hi, x \div 2^(hi + 1)) = x \div 2^lo
<1> DEFINE above == x \div 2^(hi + 1)
           f == [e \in lo .. hi + 1 |-> x \div 2^e]
<1>1. ASSUME NEW e \in lo .. hi
      PROVE  e \in Nat /\ e + 1 \in lo .. hi + 1 /\ x \div 2^e = 2 * (x \div 2^(e + 1)) + bit[e]
  <2>1. e \in Nat /\ e + 1 \in lo .. hi + 1
    OBVIOUS
  <2>2. x \div 2^e = 2 * (x \div 2^(e + 1)) + BitAt(x, e)
    BY <2>1, NextBit
  <2> QED BY <2>1, <2>2
<1>2. Halved(f, bit, lo, hi, above)
  <2>1. ASSUME NEW e \in lo .. hi + 1
        PROVE  x \div 2^e = IF e = hi + 1 THEN above ELSE 2 * f[e + 1] + bit[e]
    <3>1. CASE e = hi + 1
      BY <3>1
    <3>2. CASE e /= hi + 1
      <4>1. e \in lo .. hi
        BY <3>2
      <4>2. e + 1 \in lo .. hi + 1 /\ x \div 2^e = 2 * (x \div 2^(e + 1)) + bit[e]
        BY <1>1, <4>1
      <4>3. f[e + 1] = x \div 2^(e + 1)
        BY <4>2
      <4> HIDE DEF f
      <4> QED BY <3>2, <4>2, <4>3
    <3> QED BY <3>1, <3>2
  <2> QED BY <2>1 DEF Halved
<1>3. PICK g : Halved(g, bit, lo, hi, above) /\ Number(bit, lo, hi, above) = g[lo]
  <2> HIDE DEF f, above
  <2> QED BY <1>2, NumberChosen
<1> DEFINE n == hi + 1 - lo
           T == {m \in 0 .. n : g[hi + 1 - m] = x \div 2^(hi + 1 - m)}
<1>4. n \in Nat /\ hi + 1 \in lo .. hi + 1
  OBVIOUS
<1>5. /\ g[hi + 1] = above
      /\ \A e \in lo .. hi : g[e] = 2 * g[e + 1] + bit[e]
  <2>1. \A e \in lo .. hi : e \in lo .. hi + 1 /\ e /= hi + 1
    OBVIOUS
  <2> HIDE DEF above, n, T
  <2> QED BY <1>3, <1>4, <2>1 DEF Halved
<1>6. 0 \in T
  <2>1. hi + 1 - 0 = hi + 1
    OBVIOUS
  <2> QED BY <1>4, <1>5, <2>1
<1>7. ASSUME NEW m \in 0 .. n - 1, m \in T PROVE m + 1 \in T
  <2> DEFINE e == hi + 1 - (m + 1)
  <2>1. e \in lo .. hi /\ e + 1 = hi + 1 - m /\ m + 1 \in 0 .. n
    BY <1>4
  <2>2. g[e + 1] = x \div 2^(e + 1)
    BY <1>7, <2>1
  <2> HIDE DEF e
  <2>3. g[e] = x \div 2^e
    BY <1>1, <1>5, <2>1, <2>2
  <2> QED BY <2>1, <2>3 DEF e
<1>8. n \in T
  <2> HIDE DEF n, T
  <2> QED BY <1>4, <1>6, <1>7, UpTo
<1>9. hi + 1 - n = lo
  OBVIOUS
<1>10. g[lo] = x \div 2^lo
  <2> HIDE DEF n
  <2> QED BY <1>8, <1>9
<1> QED BY <1>3, <1>10

\* A field of a word is a natural number.
LEMMA FieldTyped ==
  ASSUME NEW top \in Nat, NEW bottom \in Nat, bottom <= top, NEW w,
         \A e \in bottom .. top : w[e] \in {0, 1}
  PROVE  FieldOf(w, top, bottom) \in Nat
<1> DEFINE n == top + 1 - bottom
           Ups(g, m) == /\ g \in [0 .. m -> Nat] /\ g[0] = 0
                        /\ \A i \in 1 .. m : g[i] = 2 * g[i - 1] + w[top + 1 - i]
           T == {m \in 0 .. n : \E g : Ups(g, m)}
<1>1. n \in Nat
  OBVIOUS
<1>2. 0 \in T
  <2>1. Ups([i \in 0 .. 0 |-> 0], 0)
    OBVIOUS
  <2>2. \E g : Ups(g, 0)
    BY <2>1
  <2> HIDE DEF Ups
  <2> QED BY <1>1, <2>2
<1>3. ASSUME NEW m \in 0 .. n - 1, m \in T PROVE m + 1 \in T
  <2>1. PICK g : Ups(g, m)
    BY <1>3
  <2> DEFINE v == 2 * g[m] + w[top + 1 - (m + 1)]
             h == [i \in 0 .. m + 1 |-> IF i = m + 1 THEN v ELSE g[i]]
  <2>2. m \in Nat /\ m \in 0 .. m /\ top + 1 - (m + 1) \in bottom .. top /\ m + 1 \in 0 .. n
    BY <1>1
  <2>3. v \in Nat
    <3>1. g[m] \in Nat /\ w[top + 1 - (m + 1)] \in {0, 1}
      BY <2>1, <2>2
    <3> QED BY <3>1
  <2>4. h \in [0 .. m + 1 -> Nat] /\ h[0] = 0
    <3>1. \A i \in 0 .. m + 1 : i /= m + 1 => i \in 0 .. m
      BY <2>2
    <3>2. 0 \in 0 .. m + 1 /\ 0 /= m + 1
      BY <2>2
    <3> HIDE DEF v
    <3> QED BY <2>1, <2>3, <3>1, <3>2
  <2>5. ASSUME NEW i \in 1 .. m + 1 PROVE h[i] = 2 * h[i - 1] + w[top + 1 - i]
    <3>1. i \in 0 .. m + 1 /\ i - 1 \in 0 .. m + 1 /\ i - 1 /= m + 1 /\ i - 1 \in 0 .. m
      BY <2>2
    <3>2. h[i - 1] = g[i - 1]
      BY <3>1
    <3>3. CASE i = m + 1
      <4>1. i - 1 = m /\ h[i] = v
        BY <2>2, <3>1, <3>3
      <4> QED BY <3>2, <3>3, <4>1
    <3>4. CASE i /= m + 1
      <4>1. i \in 1 .. m /\ h[i] = g[i]
        BY <2>2, <3>1, <3>4
      <4> QED BY <2>1, <3>2, <4>1
    <3> QED BY <3>3, <3>4
  <2> HIDE DEF h, v
  <2> QED BY <2>2, <2>4, <2>5
<1> HIDE DEF T
<1>4. n \in T
  BY <1>1, <1>2, <1>3, UpTo
<1>5. PICK g : Ups(g, n)
  BY <1>4 DEF T
<1> DEFINE f == [e \in bottom .. top + 1 |-> g[top + 1 - e]]
<1>6. Halved(f, w, bottom, top, 0)
  <2>1. ASSUME NEW e \in bottom .. top + 1
        PROVE  g[top + 1 - e] = IF e = top + 1 THEN 0 ELSE 2 * f[e + 1] + w[e]
    <3>1. CASE e = top + 1
      <4>1. top + 1 - e = 0
        BY <3>1
      <4> QED BY <1>5, <3>1, <4>1
    <3>2. CASE e /= top + 1
      <4>1. /\ top + 1 - e \in 1 .. n /\ e + 1 \in bottom .. top + 1
            /\ (top + 1 - e) - 1 = top + 1 - (e + 1) /\ top + 1 - (top + 1 - e) = e
        BY <3>2
      <4>2. g[top + 1 - e] = 2 * g[(top + 1 - e) - 1] + w[top + 1 - (top + 1 - e)]
        <5> HIDE DEF n
        <5> QED BY <1>5, <4>1
      <4>3. f[e + 1] = g[top + 1 - (e + 1)]
        BY <4>1
      <4> HIDE DEF f, n
      <4> QED BY <3>2, <4>1, <4>2, <4>3
    <3> QED BY <3>1, <3>2
  <2> QED BY <2>1 DEF Halved
<1>7. PICK u : Halved(u, w, bottom, top, 0) /\ Number(w, bottom, top, 0) = u[bottom]
  <2> HIDE DEF f
  <2> QED BY <1>6, NumberChosen
<1> DEFINE V == {m \in 0 .. n : u[top + 1 - m] \in Nat}
<1>8. /\ u[top + 1] = 0
      /\ \A e \in bottom .. top : u[e] = 2 * u[e + 1] + w[e]
  <2>1. \A e \in bottom .. top : e \in bottom .. top + 1 /\ e /= top + 1
    OBVIOUS
  <2>2. top + 1 \in bottom .. top + 1
    OBVIOUS
  <2> HIDE DEF n, V, f
  <2> QED BY <1>7, <2>1, <2>2 DEF Halved
<1>9. 0 \in V
  <2>1. top + 1 - 0 = top + 1
    OBVIOUS
  <2> QED BY <1>1, <1>8, <2>1
<1>10. ASSUME NEW m \in 0 .. n - 1, m \in V PROVE m + 1 \in V
  <2> DEFINE e == top + 1 - (m + 1)
  <2>1. e \in bottom .. top /\ e + 1 = top + 1 - m /\ m + 1 \in 0 .. n
    BY <1>1
  <2>2. u[e + 1] \in Nat
    BY <1>10, <2>1
  <2> HIDE DEF e
  <2>3. u[e] = 2 * u[e + 1] + w[e] /\ w[e] \in {0, 1}
    BY <1>8, <2>1
  <2>4. u[e] \in Nat
    BY <2>2, <2>3
  <2> QED BY <2>1, <2>4 DEF e
<1>11. n \in V
  <2> HIDE DEF n, V
  <2> QED BY <1>1, <1>9, <1>10, UpTo
<1>12. top + 1 - n = bottom
  OBVIOUS
<1>13. u[bottom] \in Nat
  <2> HIDE DEF n
  <2> QED BY <1>11, <1>12
<1> QED BY <1>7, <1>13 DEF FieldOf
-------------------------------------------------------------------------------
(* Immediates *)

LEMMA SmallQuotient ==
  ASSUME NEW d \in Nat \ {0}, NEW x \in Int, -d <= x, x < d
  PROVE  x \div d = IF x < 0 THEN -1 ELSE 0
<1>1. CASE x < 0
  <2> DEFINE r == x + d
  <2>1. r \in 0 .. d - 1 /\ x = d * (-1) + r
    BY <1>1
  <2> HIDE DEF r
  <2>2. x \div d = -1
    BY <2>1, ModUnique
  <2> QED BY <1>1, <2>2
<1>2. CASE x >= 0
  <2>1. x \in 0 .. d - 1 /\ x = d * 0 + x
    BY <1>2
  <2>2. x \div d = 0
    BY <2>1, ModUnique
  <2> QED BY <1>2, <2>2
<1> QED BY <1>1, <1>2

LEMMA TwoToGrows ==
  ASSUME NEW i \in Nat, NEW j \in Nat, i <= j
  PROVE  2^i <= 2^j
<1>1. j - i \in Nat /\ i + (j - i) = j
  OBVIOUS
<1>2. 2^(i + (j - i)) = 2^i * 2^(j - i)
  BY <1>1, TwoToSum
<1> DEFINE a == 2^i
           b == 2^(j - i)
           c == 2^j
<1>3. a \in Nat \ {0} /\ b \in Nat \ {0} /\ c = a * b
  BY <1>1, <1>2, TwoTo
<1> HIDE DEF a, b, c
<1>4. a <= a * b
  BY <1>3
<1> QED BY <1>3, <1>4 DEF a, c

\* Bits from the sign on are copies of it.
LEMMA SignCopied ==
  ASSUME NEW t \in Nat, NEW x \in Int, -(2^t) <= x, x < 2^t, NEW e \in Nat, t <= e
  PROVE  x \div 2^e = (IF x < 0 THEN -1 ELSE 0) /\ BitAt(x, e) = IF x < 0 THEN 1 ELSE 0
<1> DEFINE d == 2^e
           c == 2^t
<1>1. d \in Nat \ {0} /\ c \in Nat /\ c <= d /\ -c <= x /\ x < c
  BY TwoTo, TwoToGrows
<1> HIDE DEF c, d
<1>2. x \div d = IF x < 0 THEN -1 ELSE 0
  BY <1>1, SmallQuotient
<1>3. x \div 2^e = IF x < 0 THEN -1 ELSE 0
  BY <1>2 DEF d
<1>4. \A v \in Int : (v = -1 => v % 2 = 1) /\ (v = 0 => v % 2 = 0)
  OBVIOUS
<1>5. (x \div 2^e) % 2 = IF x < 0 THEN 1 ELSE 0
  <2> DEFINE v == x \div 2^e
  <2>1. v = (IF x < 0 THEN -1 ELSE 0) /\ v \in Int
    BY <1>3
  <2> HIDE DEF v
  <2>2. v % 2 = IF x < 0 THEN 1 ELSE 0
    BY <1>4, <2>1
  <2> QED BY <2>2 DEF v
<1> QED BY <1>3, <1>5 DEF BitAt

\* A multiple of 2^k has no bits below.
LEMMA NoLowBits ==
  ASSUME NEW k \in Nat, NEW x \in Int, x % 2^k = 0, NEW e \in Nat, e < k
  PROVE  BitAt(x, e) = 0
<1> DEFINE d == 2^e
           h == 2^(k - e - 1)
           c == 2^k
           q == x \div c
<1>1. d \in Nat \ {0} /\ h \in Nat /\ c \in Nat \ {0} /\ c = d * (2 * h)
  <2>1. k - e - 1 \in Nat /\ (k - e - 1) + 1 = k - e /\ k - e \in Nat /\ e + (k - e) = k
    OBVIOUS
  <2>2. 2^((k - e - 1) + 1) = 2 * 2^(k - e - 1) /\ 2^(k - e - 1) \in Nat
    BY <2>1, TwoTo
  <2>3. 2^(e + (k - e)) = 2^e * 2^(k - e)
    BY <2>1, TwoToSum
  <2> QED BY <2>1, <2>2, <2>3, TwoTo
<1>2. x % c = 0
  OBVIOUS
<1> HIDE DEF c, d, h
<1>3. q \in Int /\ x = c * q + (x % c)
  BY <1>1, DivMod
<1> HIDE DEF q
<1> DEFINE z == 2 * (h * q)
<1>4. h * q \in Int /\ z \in Int /\ x = d * z + 0
  <2>1. h * q \in Int /\ z \in Int
    BY <1>1, <1>3
  <2>2. (d * (2 * h)) * q = d * (2 * (h * q))
    BY <1>1, <1>3
  <2> QED BY <1>1, <1>2, <1>3, <2>1, <2>2
<1> DEFINE g == h * q
<1>5. z % 2 = 0
  <2>1. g \in Int /\ z = 2 * g
    BY <1>4
  <2> HIDE DEF g, z
  <2> QED BY <2>1
<1> HIDE DEF z
<1>6. 0 \in 0 .. d - 1
  BY <1>1
<1>7. x \div d = z
  BY <1>1, <1>4, <1>6, ModUnique
<1> QED BY <1>5, <1>7 DEF BitAt, d

\* The bits below k are those of the remainder.
LEMMA LowBitsKept ==
  ASSUME NEW k \in Nat, NEW x \in Int, NEW y \in Int, x % 2^k = y % 2^k, NEW e \in Nat, e < k
  PROVE  BitAt(x, e) = BitAt(y, e)
<1> DEFINE d == 2^e
           h == 2^(k - e - 1)
           c == 2^k
           p == x \div c
           q == y \div c
           r == x % c
           s == r \div d
           u == r % d
<1>1. d \in Nat \ {0} /\ h \in Nat /\ c \in Nat \ {0} /\ c = d * (2 * h)
  <2>1. k - e - 1 \in Nat /\ (k - e - 1) + 1 = k - e /\ k - e \in Nat /\ e + (k - e) = k
    OBVIOUS
  <2>2. 2^((k - e - 1) + 1) = 2 * 2^(k - e - 1) /\ 2^(k - e - 1) \in Nat
    BY <2>1, TwoTo
  <2>3. 2^(e + (k - e)) = 2^e * 2^(k - e)
    BY <2>1, TwoToSum
  <2> QED BY <2>1, <2>2, <2>3, TwoTo
<1>2. r = y % c
  OBVIOUS
<1> HIDE DEF c, d, h
<1>3. p \in Int /\ q \in Int /\ r \in Int /\ x = c * p + r /\ y = c * q + r
  <2>1. p \in Int /\ r \in Int /\ x = c * p + r
    <3>1. /\ x % c \in 0 .. c - 1 /\ x \div c \in Int
          /\ x = c * (x \div c) + (x % c)
      BY <1>1, DivMod
    <3> HIDE DEF s, u
    <3>2. x % c \in Int
      BY <1>1
    <3> QED BY <3>1, <3>2
  <2>2. q \in Int /\ y = c * q + (y % c)
    BY <1>1, DivMod
  <2> QED BY <1>2, <2>1, <2>2
<1> HIDE DEF p, q, r
<1>4. s \in Int /\ u \in 0 .. d - 1 /\ r = d * s + u
  BY <1>1, <1>3, DivMod
<1> HIDE DEF s, u
<1>5. ASSUME NEW z \in Int, NEW n \in Int, z = c * n + r PROVE (z \div d) % 2 = s % 2
  <2> DEFINE g == h * n
             v == 2 * g + s
  <2>1. g \in Int /\ v \in Int
    BY <1>1, <1>4, <1>5
  <2>2. z = d * v + u
    <3>1. (d * (2 * h)) * n = d * (2 * g)
      BY <1>1, <1>5
    <3> HIDE DEF g
    <3>2. d * v = d * (2 * g) + d * s
      BY <1>1, <1>4, <2>1
    <3> HIDE DEF v
    <3> QED BY <1>1, <1>3, <1>4, <1>5, <2>1, <3>1, <3>2
  <2> HIDE DEF v
  <2>3. z \div d = v
    BY <1>1, <1>4, <2>1, <2>2, ModUnique
  <2>4. v % 2 = s % 2
    <3> HIDE DEF g
    <3> QED BY <1>4, <2>1 DEF v
  <2> QED BY <2>3, <2>4
<1>6. (x \div d) % 2 = s % 2 /\ (y \div d) % 2 = s % 2
  BY <1>3, <1>5
<1> QED BY <1>6 DEF BitAt, d
\* The weights of an immediate are 2^low .. 2^top, the last of them its sign if
\* it has one.
Spans(f, low, top) ==
  /\ low \in Nat /\ top \in Nat /\ low <= top /\ top <= 32
  /\ f.sign = top \/ f.sign = Unsigned
  /\ \A e \in 0 .. 32 : (\E p \in f.parts : Holds(p, e)) <=> (low <= e /\ e <= top)

\* The values that an immediate can have.
Fits(x, f, low, top) ==
  /\ x % 2^low = 0
  /\ IF f.sign = Unsigned THEN 0 <= x /\ x < 2^(top + 1) ELSE -(2^top) <= x /\ x < 2^top

\* An instruction with the bits of a value adds that value.
LEMMA ImmediateIs ==
  ASSUME NEW f, NEW low, NEW top, Spans(f, low, top), NEW w, NEW x \in Int, Fits(x, f, low, top),
         \A e \in low .. top : w[BitOf(f, e)] = BitAt(x, e)
  PROVE  Immediate(w, f) \in Addr /\ Val(Immediate(w, f)) = x
<1> DEFINE bit == [e \in 0 .. 32 |->
                     IF \E p \in f.parts : Holds(p, e) THEN w[BitOf(f, e)]
                     ELSE IF f.sign \in 0 .. e THEN w[BitOf(f, f.sign)] ELSE 0]
           over == IF f.sign = Unsigned THEN 0 ELSE -bit[32]
<1>1. low \in Nat /\ top \in Nat /\ low <= top /\ top <= 32 /\ Unsigned = -1
  BY DEF Spans, Unsigned
<1> DEFINE Right == (\A e \in 0 .. 32 : bit[e] = BitAt(x, e)) /\ over = x \div 2^33
<1>2. ASSUME f.sign = Unsigned PROVE Right
  <2>1. 0 <= x /\ x < 2^(top + 1) /\ x % 2^low = 0
    BY <1>2 DEF Fits
  <2>2. \A e \in Nat : top < e => x \div 2^e = 0 /\ BitAt(x, e) = 0
    <3> DEFINE t == top + 1
    <3>1. -(2^t) <= x /\ x < 2^t /\ t \in Nat
      <4>1. 2^t \in Nat
        BY <1>1, TwoTo
      <4> QED BY <1>1, <2>1, <4>1
    <3>2. \A e \in Nat : top < e => t <= e
      BY <1>1
    <3> HIDE DEF t
    <3> QED BY <2>1, <3>1, <3>2, SignCopied
  <2>3. ASSUME NEW e \in 0 .. 32 PROVE bit[e] = BitAt(x, e)
    <3>1. bit[e] = IF low <= e /\ e <= top THEN w[BitOf(f, e)] ELSE 0
      <4>1. f.sign \notin 0 .. e
        BY <1>1, <1>2
      <4> QED BY <4>1 DEF Spans
    <3> HIDE DEF bit
    <3>2. CASE e < low
      <4>1. BitAt(x, e) = 0
        BY <1>1, <2>1, <3>2, NoLowBits
      <4> QED BY <1>1, <3>1, <3>2, <4>1
    <3>3. CASE low <= e /\ e <= top
      BY <1>1, <3>1, <3>3
    <3>4. CASE top < e
      BY <1>1, <2>2, <3>1, <3>4
    <3> QED BY <1>1, <3>2, <3>3, <3>4
  <2>4. x \div 2^33 = 0
    <3> DEFINE n == 33
    <3>1. n \in Nat /\ top < n
      BY <1>1
    <3> HIDE DEF n
    <3>2. x \div 2^n = 0
      BY <2>2, <3>1
    <3> QED BY <3>2 DEF n
  <2> HIDE DEF bit
  <2> QED BY <1>2, <2>3, <2>4
<1>3. ASSUME f.sign = top PROVE Right
  <2>1. -(2^top) <= x /\ x < 2^top /\ x % 2^low = 0 /\ f.sign /= Unsigned
    BY <1>1, <1>3 DEF Fits
  <2>2. \A e \in Nat : top <= e => /\ x \div 2^e = (IF x < 0 THEN -1 ELSE 0)
                                   /\ BitAt(x, e) = IF x < 0 THEN 1 ELSE 0
    BY <1>1, <2>1, SignCopied
  <2>3. ASSUME NEW e \in 0 .. 32 PROVE bit[e] = BitAt(x, e)
    <3>1. bit[e] = IF low <= e /\ e <= top THEN w[BitOf(f, e)]
                   ELSE IF top <= e THEN w[BitOf(f, top)] ELSE 0
      <4>1. f.sign \in 0 .. e <=> top <= e
        BY <1>1, <1>3
      <4> QED BY <1>3, <4>1 DEF Spans
    <3> HIDE DEF bit
    <3>2. CASE e < low
      <4>1. BitAt(x, e) = 0
        BY <1>1, <2>1, <3>2, NoLowBits
      <4> QED BY <1>1, <3>1, <3>2, <4>1
    <3>3. CASE low <= e /\ e <= top
      BY <1>1, <3>1, <3>3
    <3>4. CASE top < e
      <4>1. BitAt(x, e) = BitAt(x, top)
        BY <1>1, <2>2, <3>4
      <4>2. w[BitOf(f, top)] = BitAt(x, top)
        BY <1>1
      <4> QED BY <1>1, <3>1, <3>4, <4>1, <4>2
    <3> QED BY <1>1, <3>2, <3>3, <3>4
  <2>4. x \div 2^33 = (IF x < 0 THEN -1 ELSE 0) /\ BitAt(x, 32) = IF x < 0 THEN 1 ELSE 0
    <3> DEFINE n == 33
               m == 32
    <3>1. n \in Nat /\ top <= n /\ m \in Nat /\ top <= m
      BY <1>1
    <3> HIDE DEF n, m
    <3>2. x \div 2^n = (IF x < 0 THEN -1 ELSE 0) /\ BitAt(x, m) = IF x < 0 THEN 1 ELSE 0
      BY <2>2, <3>1
    <3> QED BY <3>2 DEF n, m
  <2> HIDE DEF bit
  <2>5. bit[32] = BitAt(x, 32)
    BY <2>3
  <2> QED BY <2>1, <2>3, <2>4, <2>5
<1>4. Right
  <2>1. f.sign = top \/ f.sign = Unsigned
    BY DEF Spans
  <2> HIDE DEF Right
  <2> QED BY <1>2, <1>3, <2>1
<1>5. Immediate(w, f) = [pg |-> Number(bit, 12, 32, over), lo |-> Number(bit, 0, 11, 0)]
  BY PageLenIs DEF Immediate
<1> HIDE DEF bit, over
<1>6. Number(bit, 12, 32, over) = x \div 4096
  <2> DEFINE lo == 12
             hi == 32
  <2>1. /\ lo \in Nat /\ hi \in Nat /\ lo <= hi + 1
        /\ \A e \in lo .. hi : bit[e] = BitAt(x, e)
        /\ over = x \div 2^(hi + 1) /\ 2^lo = 4096
    BY <1>4
  <2> HIDE DEF lo, hi
  <2>2. Number(bit, lo, hi, x \div 2^(hi + 1)) = x \div 2^lo
    BY <2>1, NumberIs
  <2>3. Number(bit, lo, hi, over) = x \div 4096
    BY <2>1, <2>2
  <2> QED BY <2>3 DEF lo, hi
<1> DEFINE y == x % 4096
<1>7. y \in 0 .. 4095 /\ y \in Int /\ x \div 4096 \in Int /\ x = 4096 * (x \div 4096) + y
  OBVIOUS
<1>8. Number(bit, 0, 11, 0) = y
  <2> DEFINE lo == 0
             hi == 11
             c == 2^12
  <2>1. y % c = x % c /\ y \div c = 0 /\ y \div 1 = y
    BY <1>7
  <2>2. \A e \in Nat : e < 12 => BitAt(x, e) = BitAt(y, e)
    <3> DEFINE k == 12
    <3>1. k \in Nat /\ x % 2^k = y % 2^k
      BY <2>1
    <3> HIDE DEF k, y
    <3>2. \A e \in Nat : e < k => BitAt(x, e) = BitAt(y, e)
      BY <1>7, <3>1, LowBitsKept
    <3> QED BY <3>2 DEF k
  <2> HIDE DEF y, c
  <2>3. /\ lo \in Nat /\ hi \in Nat /\ lo <= hi + 1 /\ 2^lo = 1 /\ 2^(hi + 1) = c
        /\ \A e \in lo .. hi : bit[e] = BitAt(y, e)
    BY <1>4, <2>2 DEF c
  <2> HIDE DEF lo, hi
  <2>4. Number(bit, lo, hi, y \div 2^(hi + 1)) = y \div 2^lo
    <3>1. y \in Int
      BY <1>7
    <3> QED BY <2>3, <3>1, NumberIs
  <2>5. Number(bit, lo, hi, 0) = y
    BY <2>1, <2>3, <2>4
  <2> QED BY <2>5 DEF lo, hi
<1> HIDE DEF y
<1>9. /\ [pg |-> x \div 4096, lo |-> y] \in Addr
      /\ Val([pg |-> x \div 4096, lo |-> y]) = 4096 * (x \div 4096) + y
  BY <1>7, PageLenIs DEF Addr, Val
<1> QED BY <1>5, <1>6, <1>7, <1>8, <1>9
-------------------------------------------------------------------------------
(* The fields of the fixups and the immediates of the CPU *)

\* The slice of a field that fills a part of an immediate from a value that is
\* shifted right by k.
SliceOf(p, k) == <<p[3] - k + p[1] - p[2], p[3] - k, p[2]>>

Disjoint(parts) ==
  \A p, q \in parts : p /= q =>
    /\ p[1] < q[2] \/ q[1] < p[2]
    /\ p[3] + p[1] - p[2] < q[3] \/ q[3] + q[1] - q[2] < p[3]

Shaped(parts, last) ==
  parts \in SUBSET (Int \X Int \X Int) /\ \A p \in parts : 0 <= p[2] /\ p[2] <= p[1] /\ p[1] <= last

\* A field that goes to the bits of an immediate, each to the one of its weight.
Routed(f, field, k, last) ==
  /\ Disjoint(f.parts) /\ Shaped(f.parts, last)
  /\ field = {SliceOf(p, k) : p \in f.parts}
  /\ k \in Nat /\ last \in Nat

LEMMA BitOfIs ==
  ASSUME NEW f, NEW last, Disjoint(f.parts), Shaped(f.parts, last), NEW p \in f.parts, NEW e \in Int, Holds(p, e)
  PROVE  BitOf(f, e) = p[2] + e - p[3] /\ p[2] <= BitOf(f, e) /\ BitOf(f, e) <= p[1]
<1>1. p[1] \in Int /\ p[2] \in Int /\ p[3] \in Int
  BY DEF Shaped
<1>2. \A q \in f.parts : Holds(q, e) => q = p
  <2>1. SUFFICES ASSUME NEW q \in f.parts, Holds(q, e), q /= p PROVE FALSE
    OBVIOUS
  <2>2. q[1] \in Int /\ q[2] \in Int /\ q[3] \in Int
    BY DEF Shaped
  <2>3. p[3] + p[1] - p[2] < q[3] \/ q[3] + q[1] - q[2] < p[3]
    BY <2>1 DEF Disjoint
  <2> QED BY <1>1, <2>1, <2>2, <2>3 DEF Holds
<1>3. (CHOOSE q \in f.parts : Holds(q, e)) = p
  BY <1>2
<1>4. BitOf(f, e) = p[2] + e - p[3]
  BY <1>3 DEF BitOf
<1> QED BY <1>1, <1>4 DEF Holds

\* What a fixup leaves in the word, bit by bit.
LEMMA SplicedIs ==
  ASSUME NEW f, NEW field, NEW k, NEW last, Routed(f, field, k, last),
         NEW w, DOMAIN w = 0 .. last, NEW v
  PROVE  /\ DOMAIN Spliced(w, v, field) = 0 .. last
         /\ \A b \in (0 .. last) \ ImmBits(f) : Spliced(w, v, field)[b] = w[b]
         /\ \A p \in f.parts : \A e \in Int : Holds(p, e) =>
              Spliced(w, v, field)[BitOf(f, e)] = Bit(v, e - k)
<1>1. \A p \in f.parts : p[1] \in Int /\ p[2] \in Int /\ p[3] \in Int
                         /\ 0 <= p[2] /\ p[2] <= p[1] /\ p[1] <= last
  BY DEF Routed, Shaped
<1>2. k \in Nat /\ last \in Nat /\ field = {SliceOf(p, k) : p \in f.parts}
  BY DEF Routed
<1>3. ASSUME NEW p \in f.parts, NEW b \in 0 .. last
      PROVE  Covers(SliceOf(p, k), b) <=> p[2] <= b /\ b <= p[1]
  <2> DEFINE s == SliceOf(p, k)
             h == p[1]
             l == p[2]
             x == p[3]
  <2>1. s[1] = x - k + h - l /\ s[2] = x - k /\ s[3] = l
    BY DEF SliceOf
  <2>2. h \in Int /\ l \in Int /\ x \in Int
    BY <1>1
  <2> HIDE DEF s, h, l, x
  <2>3. s[3] <= b /\ b <= s[3] + s[1] - s[2] <=> l <= b /\ b <= h
    BY <1>2, <2>1, <2>2
  <2> QED BY <2>3 DEF Covers, s, h, l
<1>4. DOMAIN Spliced(w, v, field) = 0 .. last
  BY DEF Spliced
<1>5. ASSUME NEW b \in (0 .. last) \ ImmBits(f) PROVE Spliced(w, v, field)[b] = w[b]
  <2>1. \A p \in f.parts : b \notin p[2] .. p[1]
    BY <1>5 DEF ImmBits
  <2>2. \A p \in f.parts : ~Covers(SliceOf(p, k), b)
    BY <1>1, <1>3, <2>1
  <2>3. ~\E s \in field : Covers(s, b)
    BY <1>2, <2>2
  <2> QED BY <2>3 DEF Spliced
<1>6. ASSUME NEW p \in f.parts, NEW e \in Int, Holds(p, e)
      PROVE  Spliced(w, v, field)[BitOf(f, e)] = Bit(v, e - k)
  <2> DEFINE b == BitOf(f, e)
             s == SliceOf(p, k)
  <2>1. b = p[2] + e - p[3] /\ p[2] <= b /\ b <= p[1]
    BY <1>6, BitOfIs DEF Routed
  <2> HIDE DEF b
  <2>2. b \in 0 .. last
    BY <1>1, <1>2, <2>1
  <2>3. s \in field /\ Covers(s, b)
    BY <1>2, <1>3, <2>1, <2>2
  <2>4. ASSUME NEW t \in field, Covers(t, b) PROVE t = s
    <3>1. PICK q \in f.parts : t = SliceOf(q, k)
      BY <1>2
    <3>2. q[2] <= b /\ b <= q[1]
      BY <1>3, <2>2, <2>4, <3>1
    <3>3. q = p
      <4>1. q /= p => p[1] < q[2] \/ q[1] < p[2]
        BY DEF Routed, Disjoint
      <4> QED BY <1>1, <2>1, <2>2, <3>2, <4>1
    <3> QED BY <3>1, <3>3
  <2> HIDE DEF s
  <2>5. (CHOOSE t \in field : Covers(t, b)) = s
    BY <2>3, <2>4
  <2>6. Spliced(w, v, field)[b] = Bit(v, s[2] + b - s[3])
    BY <2>2, <2>3, <2>5 DEF Spliced
  <2>7. s[2] + b - s[3] = e - k
    <3>1. s[2] = p[3] - k /\ s[3] = p[2]
      BY DEF s, SliceOf
    <3> QED BY <1>1, <1>2, <2>1, <3>1, SMTT(30)
  <2> QED BY <2>6, <2>7 DEF b
<1> QED BY <1>4, <1>5, <1>6

\* A word that is relocated for a value encodes a displacement with the same bits.
LEMMA FixupLands ==
  ASSUME NEW f, NEW field, NEW k, NEW last, Routed(f, field, k, last),
         NEW low, NEW top, Spans(f, low, top), k <= low,
         NEW w, DOMAIN w = 0 .. last, NEW v \in Addr, NEW x \in Int, Fits(x, f, low, top),
         \A e \in low .. top : BitAt(Val(v), e - k) = BitAt(x, e)
  PROVE  Immediate(Spliced(w, v, field), f) \in Addr /\ Val(Immediate(Spliced(w, v, field), f)) = x
<1> DEFINE u == Spliced(w, v, field)
<1>1. k \in Nat /\ low \in Nat /\ top \in Nat /\ top <= 32
  BY DEF Routed, Spans
<1>2. \A p \in f.parts : \A e \in Int : Holds(p, e) => u[BitOf(f, e)] = Bit(v, e - k)
  BY SplicedIs
<1> HIDE DEF u
<1>3. ASSUME NEW e \in low .. top PROVE u[BitOf(f, e)] = BitAt(x, e)
  <2>1. e \in 0 .. 32 /\ low <= e /\ e <= top /\ e - k \in Nat /\ e \in Int
    BY <1>1
  <2>2. PICK p \in f.parts : Holds(p, e)
    BY <2>1 DEF Spans
  <2>3. u[BitOf(f, e)] = Bit(v, e - k)
    BY <1>2, <2>1, <2>2
  <2>4. Bit(v, e - k) = BitAt(Val(v), e - k)
    BY <2>1, BitIs
  <2> QED BY <2>3, <2>4
<1>4. Immediate(u, f) \in Addr /\ Val(Immediate(u, f)) = x
  BY <1>3, ImmediateIs
<1> QED BY <1>4 DEF u

\* The value is the displacement shifted right.
LEMMA ShiftedLands ==
  ASSUME NEW f, NEW field, NEW k, NEW last, Routed(f, field, k, last),
         NEW low, NEW top, Spans(f, low, top), k <= low,
         NEW w, DOMAIN w = 0 .. last, NEW v \in Addr, NEW x \in Int, Fits(x, f, low, top),
         Val(v) = x \div 2^k
  PROVE  Immediate(Spliced(w, v, field), f) \in Addr /\ Val(Immediate(Spliced(w, v, field), f)) = x
<1>1. k \in Nat /\ low \in Nat /\ top \in Nat
  BY DEF Routed, Spans
<1>2. ASSUME NEW e \in low .. top PROVE BitAt(Val(v), e - k) = BitAt(x, e)
  <2> DEFINE j == e - k
             a == 2^k
             b == 2^j
  <2>1. j \in Nat /\ e = k + j
    BY <1>1
  <2>2. a \in Nat \ {0} /\ b \in Nat \ {0}
    BY <1>1, <2>1, TwoTo
  <2>3. 2^e = a * b
    BY <1>1, <2>1, TwoToSum
  <2> HIDE DEF a, b, j
  <2>4. (x \div a) \div b = x \div (a * b)
    BY <2>2, DivDiv
  <2>5. BitAt(Val(v), j) = ((x \div a) \div b) % 2
    BY DEF BitAt, a, b
  <2>6. BitAt(x, e) = (x \div (a * b)) % 2
    BY <2>3 DEF BitAt
  <2> QED BY <2>4, <2>5, <2>6 DEF j
<1> QED BY <1>2, FixupLands

\* The value is any number with the low bits of the displacement.
LEMMA LowLands ==
  ASSUME NEW f, NEW field, NEW last, Routed(f, field, 0, last),
         NEW low, NEW top, Spans(f, low, top), top <= 11,
         NEW w, DOMAIN w = 0 .. last, NEW v \in Addr, NEW x \in Int, Fits(x, f, low, top),
         Val(v) % 4096 = x % 4096
  PROVE  Immediate(Spliced(w, v, field), f) \in Addr /\ Val(Immediate(Spliced(w, v, field), f)) = x
<1>1. low \in Nat /\ top \in Nat
  BY DEF Spans
<1>2. Val(v) \in Int
  BY AddrShape
<1>3. ASSUME NEW e \in low .. top PROVE BitAt(Val(v), e - 0) = BitAt(x, e)
  <2> DEFINE n == 12
             y == Val(v)
  <2>1. n \in Nat /\ e \in Nat /\ e < n /\ e - 0 = e
    BY <1>1
  <2>2. y % 2^n = x % 2^n
    OBVIOUS
  <2>3. y \in Int
    BY <1>2
  <2> HIDE DEF n, y
  <2>4. BitAt(y, e) = BitAt(x, e)
    BY <2>1, <2>2, <2>3, LowBitsKept
  <2> QED BY <2>1, <2>4 DEF y
<1> QED BY <1>1, <1>3, FixupLands

\* An immediate of the bits 2^low and up, which a field fills from a value that
\* is shifted right by k.
Encodes(f, field, k, last, low, top) ==
  /\ Routed(f, field, k, last) /\ Spans(f, low, top) /\ k <= low /\ low <= 12
  /\ \A p \in f.parts : p[3] \in 0 .. 32

LEMMA LeastIs ==
  ASSUME NEW f, NEW field, NEW k, NEW last, NEW low, NEW top, Encodes(f, field, k, last, low, top)
  PROVE  Least(f) = low
<1> DEFINE E == {p[3] : p \in f.parts}
<1>1. low \in 0 .. 12 /\ low <= top /\ top <= 32 /\ top \in Nat
  BY DEF Encodes, Spans
<1>2. \A p \in f.parts : p[3] \in 0 .. 32 /\ p[1] \in Int /\ p[2] \in Int /\ p[2] <= p[1]
  BY DEF Encodes, Routed, Shaped
<1>3. \A e \in 0 .. 32 : (\E p \in f.parts : Holds(p, e)) <=> (low <= e /\ e <= top)
  BY DEF Encodes, Spans
<1>4. \A x \in E : x \in Int /\ low <= x
  <2>1. SUFFICES ASSUME NEW p \in f.parts PROVE p[3] \in Int /\ low <= p[3]
    OBVIOUS
  <2>2. Holds(p, p[3])
    BY <1>2 DEF Holds
  <2> QED BY <1>2, <1>3, <2>2
<1>5. low \in E
  <2>1. low \in 0 .. 32 /\ low <= low
    BY <1>1
  <2>2. PICK p \in f.parts : Holds(p, low)
    BY <1>1, <1>3, <2>1
  <2> DEFINE x == p[3]
  <2>3. x <= low /\ x \in E
    BY <2>2 DEF Holds
  <2> HIDE DEF x, E
  <2>4. x = low
    BY <1>1, <1>4, <2>3
  <2> QED BY <2>3, <2>4
<1> HIDE DEF E
<1>6. (CHOOSE x \in E : \A y \in E : x <= y) = low
  <2>1. \A x \in E : (\A y \in E : x <= y) => x = low
    BY <1>1, <1>4, <1>5
  <2>2. \A y \in E : low <= y
    BY <1>4
  <2> QED BY <1>5, <2>1, <2>2
<1> QED BY <1>6 DEF Least, Min, E

\* Immediates of twelve bits, scaled by the access size.
LEMMA EncImm12 ==
  ASSUME NEW f, NEW j \in 0 .. 4, f.parts = {<<21, 10, j>>}, f.sign = j + 11 \/ f.sign = Unsigned
  PROVE  Encodes(f, Imm12, j, 31, j, j + 11)
<1>1. Disjoint(f.parts)
  BY DEF Disjoint
<1>2. Shaped(f.parts, 31) /\ \A p \in f.parts : p[3] \in 0 .. 32
  BY DEF Shaped
<1>3. Imm12 = {SliceOf(p, j) : p \in f.parts}
  <2>1. SliceOf(<<21, 10, j>>, j) = <<11, 0, 10>>
    BY DEF SliceOf
  <2> QED BY <2>1 DEF Imm12
<1>4. \A e \in 0 .. 32 : (\E p \in f.parts : Holds(p, e)) <=> (j <= e /\ e <= j + 11)
  BY DEF Holds
<1> QED BY <1>1, <1>2, <1>3, <1>4 DEF Encodes, Routed, Spans

LEMMA EncB26 ==
  ASSUME NEW f, f.parts = {<<25, 0, 2>>},
         f.sign = 27 \/ f.sign = Unsigned
  PROVE  Encodes(f, Branch26, 2, 31, 2, 27)
<1>1. Disjoint(f.parts)
  BY DEF Disjoint
<1>2. Shaped(f.parts, 31) /\ \A p \in f.parts : p[3] \in 0 .. 32
  BY DEF Shaped
<1>3. Branch26 = {SliceOf(p, 2) : p \in f.parts}
  BY DEF Branch26, SliceOf
<1>4. \A e \in 0 .. 32 : (\E p \in f.parts : Holds(p, e)) <=> (2 <= e /\ e <= 27)
  BY DEF Holds
<1> QED BY <1>1, <1>2, <1>3, <1>4 DEF Encodes, Routed, Spans

LEMMA EncB19 ==
  ASSUME NEW f, f.parts = {<<23, 5, 2>>},
         f.sign = 20 \/ f.sign = Unsigned
  PROVE  Encodes(f, Branch19, 2, 31, 2, 20)
<1>1. Disjoint(f.parts)
  BY DEF Disjoint
<1>2. Shaped(f.parts, 31) /\ \A p \in f.parts : p[3] \in 0 .. 32
  BY DEF Shaped
<1>3. Branch19 = {SliceOf(p, 2) : p \in f.parts}
  BY DEF Branch19, SliceOf
<1>4. \A e \in 0 .. 32 : (\E p \in f.parts : Holds(p, e)) <=> (2 <= e /\ e <= 20)
  BY DEF Holds
<1> QED BY <1>1, <1>2, <1>3, <1>4 DEF Encodes, Routed, Spans

LEMMA EncB14 ==
  ASSUME NEW f, f.parts = {<<18, 5, 2>>},
         f.sign = 15 \/ f.sign = Unsigned
  PROVE  Encodes(f, TBranch14, 2, 31, 2, 15)
<1>1. Disjoint(f.parts)
  BY DEF Disjoint
<1>2. Shaped(f.parts, 31) /\ \A p \in f.parts : p[3] \in 0 .. 32
  BY DEF Shaped
<1>3. TBranch14 = {SliceOf(p, 2) : p \in f.parts}
  BY DEF TBranch14, SliceOf
<1>4. \A e \in 0 .. 32 : (\E p \in f.parts : Holds(p, e)) <=> (2 <= e /\ e <= 15)
  BY DEF Holds
<1> QED BY <1>1, <1>2, <1>3, <1>4 DEF Encodes, Routed, Spans

LEMMA EncAdr ==
  ASSUME NEW f, f.parts = {<<30, 29, 0>>, <<23, 5, 2>>},
         f.sign = 20 \/ f.sign = Unsigned
  PROVE  Encodes(f, ADRP, 0, 31, 0, 20)
<1>1. Disjoint(f.parts)
  BY DEF Disjoint
<1>2. Shaped(f.parts, 31) /\ \A p \in f.parts : p[3] \in 0 .. 32
  BY DEF Shaped
<1>3. ADRP = {SliceOf(p, 0) : p \in f.parts}
  BY DEF ADRP, SliceOf
<1>4. \A e \in 0 .. 32 : (\E p \in f.parts : Holds(p, e)) <=> (0 <= e /\ e <= 20)
  BY DEF Holds
<1> QED BY <1>1, <1>2, <1>3, <1>4 DEF Encodes, Routed, Spans

LEMMA EncAdrp ==
  ASSUME NEW f, f.parts = {<<30, 29, 12>>, <<23, 5, 14>>},
         f.sign = 32 \/ f.sign = Unsigned
  PROVE  Encodes(f, ADRP, 12, 31, 12, 32)
<1>1. Disjoint(f.parts)
  BY DEF Disjoint
<1>2. Shaped(f.parts, 31) /\ \A p \in f.parts : p[3] \in 0 .. 32
  BY DEF Shaped
<1>3. ADRP = {SliceOf(p, 12) : p \in f.parts}
  BY DEF ADRP, SliceOf
<1>4. \A e \in 0 .. 32 : (\E p \in f.parts : Holds(p, e)) <=> (12 <= e /\ e <= 32)
  BY DEF Holds
<1> QED BY <1>1, <1>2, <1>3, <1>4 DEF Encodes, Routed, Spans

LEMMA EncU ==
  ASSUME NEW f, f.parts = {<<31, 12, 12>>},
         f.sign = 31 \/ f.sign = Unsigned
  PROVE  Encodes(f, PatchU, 12, 31, 12, 31)
<1>1. Disjoint(f.parts)
  BY DEF Disjoint
<1>2. Shaped(f.parts, 31) /\ \A p \in f.parts : p[3] \in 0 .. 32
  BY DEF Shaped
<1>3. PatchU = {SliceOf(p, 12) : p \in f.parts}
  BY DEF PatchU, SliceOf
<1>4. \A e \in 0 .. 32 : (\E p \in f.parts : Holds(p, e)) <=> (12 <= e /\ e <= 31)
  BY DEF Holds
<1> QED BY <1>1, <1>2, <1>3, <1>4 DEF Encodes, Routed, Spans

LEMMA EncI ==
  ASSUME NEW f, f.parts = {<<31, 20, 0>>},
         f.sign = 11 \/ f.sign = Unsigned
  PROVE  Encodes(f, PatchI, 0, 31, 0, 11)
<1>1. Disjoint(f.parts)
  BY DEF Disjoint
<1>2. Shaped(f.parts, 31) /\ \A p \in f.parts : p[3] \in 0 .. 32
  BY DEF Shaped
<1>3. PatchI = {SliceOf(p, 0) : p \in f.parts}
  BY DEF PatchI, SliceOf
<1>4. \A e \in 0 .. 32 : (\E p \in f.parts : Holds(p, e)) <=> (0 <= e /\ e <= 11)
  BY DEF Holds
<1> QED BY <1>1, <1>2, <1>3, <1>4 DEF Encodes, Routed, Spans

LEMMA EncS ==
  ASSUME NEW f, f.parts = {<<31, 25, 5>>, <<11, 7, 0>>},
         f.sign = 11 \/ f.sign = Unsigned
  PROVE  Encodes(f, PatchS, 0, 31, 0, 11)
<1>1. Disjoint(f.parts)
  BY DEF Disjoint
<1>2. Shaped(f.parts, 31) /\ \A p \in f.parts : p[3] \in 0 .. 32
  BY DEF Shaped
<1>3. PatchS = {SliceOf(p, 0) : p \in f.parts}
  BY DEF PatchS, SliceOf
<1>4. \A e \in 0 .. 32 : (\E p \in f.parts : Holds(p, e)) <=> (0 <= e /\ e <= 11)
  BY DEF Holds
<1> QED BY <1>1, <1>2, <1>3, <1>4 DEF Encodes, Routed, Spans

LEMMA EncSB ==
  ASSUME NEW f, f.parts = {<<31, 31, 12>>, <<7, 7, 11>>, <<30, 25, 5>>, <<11, 8, 1>>},
         f.sign = 12 \/ f.sign = Unsigned
  PROVE  Encodes(f, PatchB, 0, 31, 1, 12)
<1>1. Disjoint(f.parts)
  BY DEF Disjoint
<1>2. Shaped(f.parts, 31) /\ \A p \in f.parts : p[3] \in 0 .. 32
  BY DEF Shaped
<1>3. PatchB = {SliceOf(p, 0) : p \in f.parts}
  BY DEF PatchB, SliceOf
<1>4. \A e \in 0 .. 32 : (\E p \in f.parts : Holds(p, e)) <=> (1 <= e /\ e <= 12)
  BY DEF Holds
<1> QED BY <1>1, <1>2, <1>3, <1>4 DEF Encodes, Routed, Spans

LEMMA EncUJ ==
  ASSUME NEW f, f.parts = {<<31, 31, 20>>, <<19, 12, 12>>, <<20, 20, 11>>, <<30, 21, 1>>},
         f.sign = 20 \/ f.sign = Unsigned
  PROVE  Encodes(f, PatchJ, 0, 31, 1, 20)
<1>1. Disjoint(f.parts)
  BY DEF Disjoint
<1>2. Shaped(f.parts, 31) /\ \A p \in f.parts : p[3] \in 0 .. 32
  BY DEF Shaped
<1>3. PatchJ = {SliceOf(p, 0) : p \in f.parts}
  BY DEF PatchJ, SliceOf
<1>4. \A e \in 0 .. 32 : (\E p \in f.parts : Holds(p, e)) <=> (1 <= e /\ e <= 20)
  BY DEF Holds
<1> QED BY <1>1, <1>2, <1>3, <1>4 DEF Encodes, Routed, Spans

LEMMA EncCB ==
  ASSUME NEW f, f.parts = {<<12, 12, 8>>, <<6, 5, 6>>, <<2, 2, 5>>, <<11, 10, 3>>, <<4, 3, 1>>},
         f.sign = 8 \/ f.sign = Unsigned
  PROVE  Encodes(f, PatchCB, 0, 15, 1, 8)
<1>1. Disjoint(f.parts)
  BY DEF Disjoint
<1>2. Shaped(f.parts, 15) /\ \A p \in f.parts : p[3] \in 0 .. 32
  BY DEF Shaped
<1>3. PatchCB = {SliceOf(p, 0) : p \in f.parts}
  BY DEF PatchCB, SliceOf
<1>4. \A e \in 0 .. 32 : (\E p \in f.parts : Holds(p, e)) <=> (1 <= e /\ e <= 8)
  BY DEF Holds
<1> QED BY <1>1, <1>2, <1>3, <1>4 DEF Encodes, Routed, Spans

LEMMA EncCJ ==
  ASSUME NEW f, f.parts = {<<12, 12, 11>>, <<8, 8, 10>>, <<10, 9, 8>>, <<6, 6, 7>>, <<7, 7, 6>>,
                       <<2, 2, 5>>, <<11, 11, 4>>, <<5, 3, 1>>},
         f.sign = 11 \/ f.sign = Unsigned
  PROVE  Encodes(f, PatchCJ, 0, 15, 1, 11)
<1>1. Disjoint(f.parts)
  BY DEF Disjoint
<1>2. Shaped(f.parts, 15) /\ \A p \in f.parts : p[3] \in 0 .. 32
  BY DEF Shaped
<1>3. PatchCJ = {SliceOf(p, 0) : p \in f.parts}
  BY DEF PatchCJ, SliceOf
<1>4. \A e \in 0 .. 32 : (\E p \in f.parts : Holds(p, e)) <=> (1 <= e /\ e <= 11)
  BY DEF Holds
<1> QED BY <1>1, <1>2, <1>3, <1>4 DEF Encodes, Routed, Spans

LEMMA EncHi20 ==
  ASSUME NEW f, f.parts = {<<24, 5, 12>>},
         f.sign = 31 \/ f.sign = Unsigned
  PROVE  Encodes(f, LoongImm20, 12, 31, 12, 31)
<1>1. Disjoint(f.parts)
  BY DEF Disjoint
<1>2. Shaped(f.parts, 31) /\ \A p \in f.parts : p[3] \in 0 .. 32
  BY DEF Shaped
<1>3. LoongImm20 = {SliceOf(p, 12) : p \in f.parts}
  BY DEF LoongImm20, SliceOf
<1>4. \A e \in 0 .. 32 : (\E p \in f.parts : Holds(p, e)) <=> (12 <= e /\ e <= 31)
  BY DEF Holds
<1> QED BY <1>1, <1>2, <1>3, <1>4 DEF Encodes, Routed, Spans

LEMMA EncLo12 ==
  ASSUME NEW f, f.parts = {<<21, 10, 0>>},
         f.sign = 11 \/ f.sign = Unsigned
  PROVE  Encodes(f, LoongImm12, 0, 31, 0, 11)
<1>1. Disjoint(f.parts)
  BY DEF Disjoint
<1>2. Shaped(f.parts, 31) /\ \A p \in f.parts : p[3] \in 0 .. 32
  BY DEF Shaped
<1>3. LoongImm12 = {SliceOf(p, 0) : p \in f.parts}
  BY DEF LoongImm12, SliceOf
<1>4. \A e \in 0 .. 32 : (\E p \in f.parts : Holds(p, e)) <=> (0 <= e /\ e <= 11)
  BY DEF Holds
<1> QED BY <1>1, <1>2, <1>3, <1>4 DEF Encodes, Routed, Spans

LEMMA EncB16 ==
  ASSUME NEW f, f.parts = {<<25, 10, 2>>},
         f.sign = 17 \/ f.sign = Unsigned
  PROVE  Encodes(f, LoongB16, 2, 31, 2, 17)
<1>1. Disjoint(f.parts)
  BY DEF Disjoint
<1>2. Shaped(f.parts, 31) /\ \A p \in f.parts : p[3] \in 0 .. 32
  BY DEF Shaped
<1>3. LoongB16 = {SliceOf(p, 2) : p \in f.parts}
  BY DEF LoongB16, SliceOf
<1>4. \A e \in 0 .. 32 : (\E p \in f.parts : Holds(p, e)) <=> (2 <= e /\ e <= 17)
  BY DEF Holds
<1> QED BY <1>1, <1>2, <1>3, <1>4 DEF Encodes, Routed, Spans

LEMMA EncB21 ==
  ASSUME NEW f, f.parts = {<<4, 0, 18>>, <<25, 10, 2>>},
         f.sign = 22 \/ f.sign = Unsigned
  PROVE  Encodes(f, LoongB21, 2, 31, 2, 22)
<1>1. Disjoint(f.parts)
  BY DEF Disjoint
<1>2. Shaped(f.parts, 31) /\ \A p \in f.parts : p[3] \in 0 .. 32
  BY DEF Shaped
<1>3. LoongB21 = {SliceOf(p, 2) : p \in f.parts}
  BY DEF LoongB21, SliceOf
<1>4. \A e \in 0 .. 32 : (\E p \in f.parts : Holds(p, e)) <=> (2 <= e /\ e <= 22)
  BY DEF Holds
<1> QED BY <1>1, <1>2, <1>3, <1>4 DEF Encodes, Routed, Spans

LEMMA EncLB26 ==
  ASSUME NEW f, f.parts = {<<9, 0, 18>>, <<25, 10, 2>>},
         f.sign = 27 \/ f.sign = Unsigned
  PROVE  Encodes(f, LoongB26, 2, 31, 2, 27)
<1>1. Disjoint(f.parts)
  BY DEF Disjoint
<1>2. Shaped(f.parts, 31) /\ \A p \in f.parts : p[3] \in 0 .. 32
  BY DEF Shaped
<1>3. LoongB26 = {SliceOf(p, 2) : p \in f.parts}
  BY DEF LoongB26, SliceOf
<1>4. \A e \in 0 .. 32 : (\E p \in f.parts : Holds(p, e)) <=> (2 <= e /\ e <= 27)
  BY DEF Holds
<1> QED BY <1>1, <1>2, <1>3, <1>4 DEF Encodes, Routed, Spans

LEMMA EncDisp ==
  ASSUME NEW f, f.parts = {<<31, 0, 0>>},
         f.sign = 31 \/ f.sign = Unsigned
  PROVE  Encodes(f, Disp32, 0, 31, 0, 31)
<1>1. Disjoint(f.parts)
  BY DEF Disjoint
<1>2. Shaped(f.parts, 31) /\ \A p \in f.parts : p[3] \in 0 .. 32
  BY DEF Shaped
<1>3. Disp32 = {SliceOf(p, 0) : p \in f.parts}
  BY DEF Disp32, SliceOf
<1>4. \A e \in 0 .. 32 : (\E p \in f.parts : Holds(p, e)) <=> (0 <= e /\ e <= 31)
  BY DEF Holds
<1> QED BY <1>1, <1>2, <1>3, <1>4 DEF Encodes, Routed, Spans

-------------------------------------------------------------------------------
(* What the fixups encode *)

LEMMA WithinShifted ==
  ASSUME NEW a \in Addr, NEW k \in Nat, k <= 12, NEW n \in Nat
  PROVE  Within(Shifted(a, k), n) <=> Within(a, n + k)
<1> DEFINE x == Val(a)
           d == 2^k
           e == 2^n
           m == n + k
<1>1. x \in Int /\ d \in Nat \ {0} /\ e \in Nat \ {0} /\ m \in Nat
  BY AddrShape, TwoTo
<1>2. 2^m = e * d
  BY TwoToSum
<1>3. Shifted(a, k) \in Addr /\ Val(Shifted(a, k)) = x \div d
  BY ShiftedIs
<1>4. Within(Shifted(a, k), n) <=> -e <= x \div d /\ x \div d < e
  BY <1>3, WithinIs
<1>5. Within(a, m) <=> -(e * d) <= x /\ x < e * d
  BY <1>1, <1>2, WithinIs
<1>6. x % d \in 0 .. d - 1 /\ x \div d \in Int /\ x = d * (x \div d) + (x % d)
  BY <1>1, DivMod
<1> DEFINE q == x \div d
           r == x % d
<1> HIDE DEF x, d, e, q, r
<1>7. x = d * q + r /\ r \in 0 .. d - 1 /\ q \in Int
  BY <1>6 DEF q, r
<1>8. -e <= q <=> -(e * d) <= x
  <2>1. ASSUME -e <= q PROVE -(e * d) <= x
    <3>1. d * (-e) <= d * q
      BY <1>1, <1>7, <2>1
    <3>2. d * (-e) = -(e * d)
      BY <1>1
    <3> QED BY <1>1, <1>7, <3>1, <3>2
  <2>2. ASSUME q <= -e - 1 PROVE x < -(e * d)
    <3>1. d * q <= d * (-e - 1)
      BY <1>1, <1>7, <2>2
    <3>2. d * (-e - 1) = -(e * d) - d
      BY <1>1
    <3> QED BY <1>1, <1>7, <3>1, <3>2
  <2>3. e * d \in Int
    BY <1>1
  <2> QED BY <1>1, <1>7, <2>1, <2>2, <2>3
<1>9. q < e <=> x < e * d
  <2>1. ASSUME q <= e - 1 PROVE x < e * d
    <3>1. d * q <= d * (e - 1)
      BY <1>1, <1>7, <2>1
    <3>2. d * (e - 1) = e * d - d
      BY <1>1
    <3> QED BY <1>1, <1>7, <3>1, <3>2
  <2>2. ASSUME e <= q PROVE e * d <= x
    <3>1. d * e <= d * q
      BY <1>1, <1>7, <2>2
    <3>2. d * e = e * d
      BY <1>1
    <3> QED BY <1>1, <1>7, <3>1, <3>2
  <2>3. e * d \in Int
    BY <1>1
  <2> QED BY <1>1, <1>7, <2>1, <2>2, <2>3
<1> QED BY <1>4, <1>5, <1>8, <1>9 DEF q, m

\* A fixup that tests what the immediate can encode adds what it tested.
LEMMA CheckedLands ==
  ASSUME NEW f, NEW field, NEW k, NEW last, NEW low, NEW top, Encodes(f, field, k, last, low, top),
         NEW n \in Addr, Encodable(n, f), f.sign = Unsigned => n.pg = 0 /\ 11 <= top,
         NEW w, DOMAIN w = 0 .. last, NEW v \in Addr, Val(v) = Val(n) \div 2^k
  PROVE  Immediate(Spliced(w, v, field), f) \in Addr /\ Val(Immediate(Spliced(w, v, field), f)) = Val(n)
<1> DEFINE x == Val(n)
<1>1. low \in Nat /\ low <= 12 /\ top \in Nat /\ Spans(f, low, top) /\ k <= low /\ Routed(f, field, k, last)
  BY DEF Encodes, Spans
<1>2. x \in Int
  BY AddrShape
<1>3. x % 2^low = 0
  <2>1. Least(f) = low
    BY LeastIs
  <2>2. Aligned(n, low)
    BY <1>1, <2>1 DEF Encodable, PageBits
  <2>3. Aligned(n, low) <=> Val(n) % 2^low = 0
    BY <1>1, AlignedIs
  <2> QED BY <2>2, <2>3
<1>4. CASE f.sign = Unsigned
  <2>1. 0 <= x /\ x < 4096
    <3>1. n.pg = 0 /\ n.lo \in Int /\ 0 <= n.lo /\ n.lo < 4096
      BY <1>4, AddrShape
    <3>2. x = n.lo
      BY <3>1 DEF Val
    <3> QED BY <3>1, <3>2
  <2> DEFINE s == 12
             t == top + 1
  <2>2. s \in Nat /\ t \in Nat /\ s <= t
    BY <1>1, <1>4
  <2>3. 4096 = 2^s
    OBVIOUS
  <2> HIDE DEF s, t, x
  <2>4. 4096 <= 2^t /\ 2^t \in Nat
    BY <2>2, <2>3, TwoToGrows, TwoTo
  <2>5. x < 2^t
    BY <1>2, <2>1, <2>4
  <2>6. Fits(x, f, low, top)
    BY <1>3, <1>4, <2>1, <2>5 DEF Fits, t
  <2> QED BY <1>1, <1>2, <2>6, ShiftedLands DEF x
<1>5. CASE f.sign /= Unsigned
  <2>1. f.sign = top
    BY <1>1, <1>5 DEF Spans
  <2>2. Within(n, top)
    BY <1>5, <2>1 DEF Encodable
  <2>3. -(2^top) <= x /\ x < 2^top
    BY <1>1, <2>2, WithinIs
  <2>4. Fits(x, f, low, top)
    BY <1>3, <1>5, <2>3 DEF Fits
  <2> HIDE DEF x
  <2> QED BY <1>1, <1>2, <2>4, ShiftedLands DEF x
<1> QED BY <1>4, <1>5

\* The low part of a number when the instruction extends its sign.
SignedLow(y) == IF y % 4096 < 2048 THEN y % 4096 ELSE (y % 4096) - 4096

LEMMA SignedLowIs ==
  ASSUME NEW y \in Int
  PROVE  /\ SignedLow(y) \in Int /\ -2048 <= SignedLow(y) /\ SignedLow(y) < 2048
         /\ SignedLow(y) % 4096 = y % 4096
         /\ (y + 2048) - ((y + 2048) % 4096) = y - SignedLow(y)
<1>1. /\ SignedLow(y) \in Int /\ -2048 <= SignedLow(y) /\ SignedLow(y) < 2048
      /\ SignedLow(y) % 4096 = y % 4096
  BY DEF SignedLow
<1>2. (y + 2048) - ((y + 2048) % 4096) = y - SignedLow(y)
  BY DEF SignedLow
<1> QED BY <1>1, <1>2

LEMMA SignedLands ==
  ASSUME NEW f, NEW field, Encodes(f, field, 0, 31, 0, 11), f.sign = 11,
         NEW w, DOMAIN w = 0 .. 31, NEW v \in Addr, NEW y \in Int, Val(v) % 4096 = y % 4096
  PROVE  Immediate(Spliced(w, v, field), f) \in Addr /\ Val(Immediate(Spliced(w, v, field), f)) = SignedLow(y)
<1> DEFINE x == SignedLow(y)
<1>1. x \in Int /\ -2048 <= x /\ x < 2048 /\ x % 4096 = y % 4096
  BY DEF SignedLow
<1> HIDE DEF x
<1>2. Fits(x, f, 0, 11)
  BY <1>1 DEF Fits, Unsigned
<1>3. Val(v) % 4096 = x % 4096
  BY <1>1
<1> DEFINE low == 0
           top == 11
           last == 31
<1>4. Routed(f, field, low, last) /\ Spans(f, low, top) /\ Fits(x, f, low, top)
  BY <1>2, <1>3 DEF Encodes
<1>5. low = 0 /\ top <= 11 /\ DOMAIN w = 0 .. last
  OBVIOUS
<1> HIDE DEF low, top, last
<1>6. Routed(f, field, 0, last)
  BY <1>4, <1>5
<1>7. Immediate(Spliced(w, v, field), f) \in Addr /\ Val(Immediate(Spliced(w, v, field), f)) = x
  BY <1>1, <1>3, <1>4, <1>5, <1>6, LowLands
<1> QED BY <1>7 DEF x

LEMMA UnsignedLands ==
  ASSUME NEW f, NEW field, Encodes(f, field, 0, 31, 0, 11), f.sign = Unsigned,
         NEW w, DOMAIN w = 0 .. 31, NEW v \in Addr, NEW y \in Int, Val(v) % 4096 = y % 4096
  PROVE  Immediate(Spliced(w, v, field), f) \in Addr /\ Val(Immediate(Spliced(w, v, field), f)) = y % 4096
<1> DEFINE x == y % 4096
<1>1. x \in Int /\ 0 <= x /\ x < 4096 /\ x % 4096 = x
  OBVIOUS
<1>2. Val(v) % 4096 = x % 4096
  BY <1>1
<1> HIDE DEF x
<1>3. Fits(x, f, 0, 11)
  BY <1>1 DEF Fits
<1> DEFINE low == 0
           top == 11
           last == 31
<1>4. Routed(f, field, low, last) /\ Spans(f, low, top) /\ Fits(x, f, low, top)
  BY <1>2, <1>3 DEF Encodes
<1>5. low = 0 /\ top <= 11 /\ DOMAIN w = 0 .. last
  OBVIOUS
<1> HIDE DEF low, top, last
<1>6. Routed(f, field, 0, last)
  BY <1>4, <1>5
<1>7. Immediate(Spliced(w, v, field), f) \in Addr /\ Val(Immediate(Spliced(w, v, field), f)) = x
  BY <1>1, <1>2, <1>4, <1>5, <1>6, LowLands
<1> QED BY <1>7 DEF x

LEMMA HighLands ==
  ASSUME NEW f, NEW field, Encodes(f, field, 12, 31, 12, 31), f.sign = 31,
         NEW w, DOMAIN w = 0 .. 31, NEW v \in Addr, NEW x \in Int, x % 4096 = 0,
         -(2^31) <= x, x < 2^31, Val(v) = x \div 4096
  PROVE  Immediate(Spliced(w, v, field), f) \in Addr /\ Val(Immediate(Spliced(w, v, field), f)) = x
<1>1. Fits(x, f, 12, 31)
  BY DEF Fits, Unsigned
<1> DEFINE low == 12
           top == 31
<1>2. Val(v) = x \div 2^low
  OBVIOUS
<1>3. Routed(f, field, low, top) /\ Spans(f, low, top) /\ Fits(x, f, low, top)
  BY <1>1 DEF Encodes
<1>4. DOMAIN w = 0 .. top /\ low <= low
  OBVIOUS
<1> HIDE DEF low, top
<1> QED BY <1>2, <1>3, <1>4, ShiftedLands

-------------------------------------------------------------------------------
(* The sequences *)

LEMMA IdiomIs ==
  ASSUME idiom \in Idioms
  PROVE  /\ Emitted(idiom) /\ idiom.start \in Addr /\ idiom.means \in Addr
         /\ DOMAIN Code = 1 .. Len(Code) /\ Len(Code) \in {1, 2} /\ 1 \in DOMAIN Code
         /\ \A i \in DOMAIN Code : Code[i] \in Instruction
<1>1. Emitted(idiom)
  BY IdiomsAssumption
<1>2. idiom \in Idiom /\ (Len(Code) = 1 \/ Len(Code) = 2)
  BY <1>1 DEF Emitted, Code
<1>3. Code \in Seq(Instruction) /\ idiom.start \in Addr /\ idiom.means \in Addr
  BY <1>2 DEF Idiom, Code, Addr
<1>4. DOMAIN Code = 1 .. Len(Code) /\ \A i \in DOMAIN Code : Code[i] \in Instruction
  BY <1>3
<1> QED BY <1>1, <1>2, <1>3, <1>4

LEMMA SitesAre ==
  ASSUME idiom \in Idioms, NEW i \in DOMAIN Code
  PROVE  /\ Code[i].sym \in Addr /\ Code[i].addend \in Int /\ Code[i].off \in Nat
         /\ Site(i) \in Addr /\ Val(Site(i)) = Val(idiom.start) + Code[i].off
         /\ Referent(i) \in Addr /\ Val(Referent(i)) = Val(Code[i].sym) + Code[i].addend
<1> DEFINE s == Code[i].sym
           a == Code[i].addend
           o == Code[i].off
           t == idiom.start
<1>1. s \in Addr /\ a \in Int /\ o \in Nat /\ t \in Addr
  BY IdiomIs DEF Instruction, Addr
<1>2. Site(i) = Plus(t, Num(0, o)) /\ Referent(i) = Plus(s, Num(0, a))
  BY DEF Site, Referent, RefersTo
<1> HIDE DEF s, a, o, t
<1>3. Num(0, o) \in Addr /\ Val(Num(0, o)) = o /\ Num(0, a) \in Addr /\ Val(Num(0, a)) = a
  BY <1>1, NumIs
<1>4. /\ Plus(t, Num(0, o)) \in Addr /\ Val(Plus(t, Num(0, o))) = Val(t) + o
      /\ Plus(s, Num(0, a)) \in Addr /\ Val(Plus(s, Num(0, a))) = Val(s) + a
  BY <1>1, <1>3, SumIs
<1> QED BY <1>1, <1>2, <1>4 DEF s, a, o, t

\* The relocations that compilers emit, one by one.
Is(i, arch, type, op) ==
  i \in DOMAIN Code /\ idiom.arch = arch /\ Code[i].type = type /\ Code[i].op = op

LEMMA AloneIs ==
  ASSUME idiom \in Idioms, Len(Code) = 1
  PROVE  \/ Is(1, "arm64elf", "CALL26", "a64_b") \/ Is(1, "arm64elf", "JUMP26", "a64_b")
         \/ Is(1, "arm64elf", "CONDBR19", "a64_bcond") \/ Is(1, "arm64elf", "TSTBR14", "a64_tbz")
         \/ Is(1, "arm64elf", "ADR_PREL_LO21", "a64_adr")
         \/ Is(1, "arm64", "BRANCH26", "a64_b") \/ Is(1, "arm64", "BRANCH19", "a64_bcond")
         \/ Is(1, "arm64", "REL21", "a64_adr")
         \/ Is(1, "riscv64", "BRANCH", "rv_branch") \/ Is(1, "riscv64", "JAL", "rv_jal")
         \/ Is(1, "riscv64", "RVC_BRANCH", "rv_cb") \/ Is(1, "riscv64", "RVC_JUMP", "rv_cj")
         \/ Is(1, "loongarch64", "B16", "la_beq") \/ Is(1, "loongarch64", "B21", "la_beqz")
         \/ Is(1, "loongarch64", "B26", "la_b")
         \/ Is(1, "amd64", "REL32", "x86_imm0") \/ Is(1, "amd64", "REL32_1", "x86_imm1")
         \/ Is(1, "amd64", "REL32_2", "x86_imm2") \/ Is(1, "amd64", "REL32_4", "x86_imm4")
<1>1. 1 \in DOMAIN Code
  BY IdiomIs
<1>2. <<idiom.arch, <<Code[1].type, Code[1].op>>>> \in Alone
  BY IdiomIs DEF Emitted, Code
<1> DEFINE a == idiom.arch
           t == Code[1].type
           o == Code[1].op
<1>3. <<a, <<t, o>>>> \in Alone
  BY <1>2
<1> HIDE DEF a, t, o
<1>4. \/ a = "arm64elf" /\ t \in {"CALL26", "JUMP26"} /\ o = "a64_b"
      \/ a = "arm64elf" /\ t = "CONDBR19" /\ o = "a64_bcond"
      \/ a = "arm64elf" /\ t = "TSTBR14" /\ o = "a64_tbz"
      \/ a = "arm64elf" /\ t = "ADR_PREL_LO21" /\ o = "a64_adr"
      \/ a = "arm64" /\ t = "BRANCH26" /\ o = "a64_b"
      \/ a = "arm64" /\ t = "BRANCH19" /\ o = "a64_bcond"
      \/ a = "arm64" /\ t = "REL21" /\ o = "a64_adr"
      \/ a = "riscv64" /\ t = "BRANCH" /\ o = "rv_branch"
      \/ a = "riscv64" /\ t = "JAL" /\ o = "rv_jal"
      \/ a = "riscv64" /\ t = "RVC_BRANCH" /\ o = "rv_cb"
      \/ a = "riscv64" /\ t = "RVC_JUMP" /\ o = "rv_cj"
      \/ a = "loongarch64" /\ t = "B16" /\ o = "la_beq"
      \/ a = "loongarch64" /\ t = "B21" /\ o = "la_beqz"
      \/ a = "loongarch64" /\ t = "B26" /\ o = "la_b"
      \/ a = "amd64" /\ t = "REL32" /\ o = "x86_imm0"
      \/ a = "amd64" /\ t = "REL32_1" /\ o = "x86_imm1"
      \/ a = "amd64" /\ t = "REL32_2" /\ o = "x86_imm2"
      \/ a = "amd64" /\ t = "REL32_4" /\ o = "x86_imm4"
  BY <1>3 DEF Alone
<1> QED BY <1>1, <1>4 DEF Is, a, t, o

\* A first instruction that has the high part of an address, and a second one.
Pair(arch, type1, op1, type2, op2) == Is(1, arch, type1, op1) /\ Is(2, arch, type2, op2)

LEMMA PairedIs ==
  ASSUME idiom \in Idioms, Len(Code) = 2
  PROVE  /\ SecondRight(idiom, Code[2])
         /\ \/ \E o \in {<<"ADD_ABS_LO12", "a64_add">>, <<"LDST8", "a64_ldrb">>, <<"LDST16", "a64_ldrh">>,
                         <<"LDST32", "a64_ldrw">>, <<"LDST64", "a64_ldrx">>, <<"LDST128", "a64_ldrq">>} :
                 Pair("arm64elf", "ADR_PREL_PG_HI21", "a64_adrp", o[1], o[2])
            \/ \E o \in {<<"PAGEOFFSET_12A", "a64_add">>, <<"PAGEOFFSET_12L", "a64_ldrb">>,
                         <<"PAGEOFFSET_12L", "a64_ldrh">>, <<"PAGEOFFSET_12L", "a64_ldrw">>,
                         <<"PAGEOFFSET_12L", "a64_ldrx">>, <<"PAGEOFFSET_12L", "a64_ldrq">>} :
                 Pair("arm64", "PAGEBASE_REL21", "a64_adrp", o[1], o[2])
            \/ Pair("riscv64", "PCREL_HI20", "rv_auipc", "PCREL_LO12_I", "rv_addi")
            \/ Pair("riscv64", "PCREL_HI20", "rv_auipc", "PCREL_LO12_S", "rv_store")
            \/ Pair("riscv64", "HI20", "rv_lui", "LO12_I", "rv_addi")
            \/ Pair("riscv64", "HI20", "rv_lui", "LO12_S", "rv_store")
            \/ Pair("riscv64", "CALL", "rv_auipc", "none", "rv_addi")
            \/ Pair("loongarch64", "PCALA_HI20", "la_pcala", "PCALA_LO12", "la_addi")
            \/ Pair("loongarch64", "ABS_HI20", "la_lu12i", "ABS_LO12", "la_addi")
            \/ Pair("loongarch64", "ABS_HI20", "la_lu12i", "ABS_LO12", "la_ori")
<1>1. 1 \in DOMAIN Code /\ 2 \in DOMAIN Code
  BY IdiomIs
<1>2. SecondRight(idiom, Code[2])
      /\ <<<<idiom.arch, Code[1].type, Code[1].op>>, <<Code[2].type, Code[2].op>>>> \in Paired
  BY IdiomIs DEF Emitted, Code
<1> DEFINE a == idiom.arch
           t == Code[1].type
           o == Code[1].op
           u == Code[2].type
           p == Code[2].op
<1>3. <<<<a, t, o>>, <<u, p>>>> \in Paired
  BY <1>2
<1> HIDE DEF a, t, o, u, p
<1>4. \/ /\ a = "arm64elf" /\ t = "ADR_PREL_PG_HI21" /\ o = "a64_adrp"
         /\ <<u, p>> \in {<<"ADD_ABS_LO12", "a64_add">>, <<"LDST8", "a64_ldrb">>, <<"LDST16", "a64_ldrh">>,
                          <<"LDST32", "a64_ldrw">>, <<"LDST64", "a64_ldrx">>, <<"LDST128", "a64_ldrq">>}
      \/ /\ a = "arm64" /\ t = "PAGEBASE_REL21" /\ o = "a64_adrp"
         /\ <<u, p>> \in {<<"PAGEOFFSET_12A", "a64_add">>, <<"PAGEOFFSET_12L", "a64_ldrb">>,
                          <<"PAGEOFFSET_12L", "a64_ldrh">>, <<"PAGEOFFSET_12L", "a64_ldrw">>,
                          <<"PAGEOFFSET_12L", "a64_ldrx">>, <<"PAGEOFFSET_12L", "a64_ldrq">>}
      \/ a = "riscv64" /\ t = "PCREL_HI20" /\ o = "rv_auipc" /\ u = "PCREL_LO12_I" /\ p = "rv_addi"
      \/ a = "riscv64" /\ t = "PCREL_HI20" /\ o = "rv_auipc" /\ u = "PCREL_LO12_S" /\ p = "rv_store"
      \/ a = "riscv64" /\ t = "HI20" /\ o = "rv_lui" /\ u = "LO12_I" /\ p = "rv_addi"
      \/ a = "riscv64" /\ t = "HI20" /\ o = "rv_lui" /\ u = "LO12_S" /\ p = "rv_store"
      \/ a = "riscv64" /\ t = "CALL" /\ o = "rv_auipc" /\ u = "none" /\ p = "rv_addi"
      \/ a = "loongarch64" /\ t = "PCALA_HI20" /\ o = "la_pcala" /\ u = "PCALA_LO12" /\ p = "la_addi"
      \/ a = "loongarch64" /\ t = "ABS_HI20" /\ o = "la_lu12i" /\ u = "ABS_LO12" /\ p = "la_addi"
      \/ a = "loongarch64" /\ t = "ABS_HI20" /\ o = "la_lu12i" /\ u = "ABS_LO12" /\ p = "la_ori"
  BY <1>3 DEF Paired
<1> QED BY <1>1, <1>2, <1>4 DEF Pair, Is, a, t, o, u, p

\* What the CPU takes from each instruction, and the field it is relocated in.
LEMMA A64Formats ==
  /\ Formats["a64_b"].base = "pc" /\ Formats["a64_b"].sign = 27
     /\ Encodes(Formats["a64_b"], Branch26, 2, 31, 2, 27)
  /\ Formats["a64_bcond"].base = "pc" /\ Formats["a64_bcond"].sign = 20
     /\ Encodes(Formats["a64_bcond"], Branch19, 2, 31, 2, 20)
  /\ Formats["a64_tbz"].base = "pc" /\ Formats["a64_tbz"].sign = 15
     /\ Encodes(Formats["a64_tbz"], TBranch14, 2, 31, 2, 15)
  /\ Formats["a64_adr"].base = "pc" /\ Formats["a64_adr"].sign = 20
     /\ Encodes(Formats["a64_adr"], ADRP, 0, 31, 0, 20)
  /\ Formats["a64_adrp"].base = "page" /\ Formats["a64_adrp"].sign = 32
     /\ Encodes(Formats["a64_adrp"], ADRP, 12, 31, 12, 32)
  /\ Formats["a64_add"].base = "reg" /\ Formats["a64_add"].sign = Unsigned
     /\ Encodes(Formats["a64_add"], Imm12, 0, 31, 0, 11)
  /\ Formats["a64_ldrb"].base = "reg" /\ Formats["a64_ldrb"].sign = Unsigned
     /\ Encodes(Formats["a64_ldrb"], Imm12, 0, 31, 0, 11)
  /\ Formats["a64_ldrh"].base = "reg" /\ Formats["a64_ldrh"].sign = Unsigned
     /\ Encodes(Formats["a64_ldrh"], Imm12, 1, 31, 1, 12)
  /\ Formats["a64_ldrw"].base = "reg" /\ Formats["a64_ldrw"].sign = Unsigned
     /\ Encodes(Formats["a64_ldrw"], Imm12, 2, 31, 2, 13)
  /\ Formats["a64_ldrx"].base = "reg" /\ Formats["a64_ldrx"].sign = Unsigned
     /\ Encodes(Formats["a64_ldrx"], Imm12, 3, 31, 3, 14)
  /\ Formats["a64_ldrq"].base = "reg" /\ Formats["a64_ldrq"].sign = Unsigned
     /\ Encodes(Formats["a64_ldrq"], Imm12, 4, 31, 4, 15)
<1>1. /\ Formats["a64_b"].base = "pc" /\ Formats["a64_b"].sign = 27
     /\ Encodes(Formats["a64_b"], Branch26, 2, 31, 2, 27)
  <2> DEFINE f == Formats["a64_b"]
  <2>1. f.parts = {<<25, 0, 2>>} /\ f.base = "pc" /\ f.sign = 27
    BY DEF Formats, Format
  <2> HIDE DEF f
  <2>2. Encodes(f, Branch26, 2, 31, 2, 27)
    BY <2>1, EncB26
  <2> QED BY <2>1, <2>2 DEF f
<1>2. /\ Formats["a64_bcond"].base = "pc" /\ Formats["a64_bcond"].sign = 20
     /\ Encodes(Formats["a64_bcond"], Branch19, 2, 31, 2, 20)
  <2> DEFINE f == Formats["a64_bcond"]
  <2>1. f.parts = {<<23, 5, 2>>} /\ f.base = "pc" /\ f.sign = 20
    BY DEF Formats, Format
  <2> HIDE DEF f
  <2>2. Encodes(f, Branch19, 2, 31, 2, 20)
    BY <2>1, EncB19
  <2> QED BY <2>1, <2>2 DEF f
<1>3. /\ Formats["a64_tbz"].base = "pc" /\ Formats["a64_tbz"].sign = 15
     /\ Encodes(Formats["a64_tbz"], TBranch14, 2, 31, 2, 15)
  <2> DEFINE f == Formats["a64_tbz"]
  <2>1. f.parts = {<<18, 5, 2>>} /\ f.base = "pc" /\ f.sign = 15
    BY DEF Formats, Format
  <2> HIDE DEF f
  <2>2. Encodes(f, TBranch14, 2, 31, 2, 15)
    BY <2>1, EncB14
  <2> QED BY <2>1, <2>2 DEF f
<1>4. /\ Formats["a64_adr"].base = "pc" /\ Formats["a64_adr"].sign = 20
     /\ Encodes(Formats["a64_adr"], ADRP, 0, 31, 0, 20)
  <2> DEFINE f == Formats["a64_adr"]
  <2>1. f.parts = {<<30, 29, 0>>, <<23, 5, 2>>} /\ f.base = "pc" /\ f.sign = 20
    BY DEF Formats, Format
  <2> HIDE DEF f
  <2>2. Encodes(f, ADRP, 0, 31, 0, 20)
    BY <2>1, EncAdr
  <2> QED BY <2>1, <2>2 DEF f
<1>5. /\ Formats["a64_adrp"].base = "page" /\ Formats["a64_adrp"].sign = 32
     /\ Encodes(Formats["a64_adrp"], ADRP, 12, 31, 12, 32)
  <2> DEFINE f == Formats["a64_adrp"]
  <2>1. f.parts = {<<30, 29, 12>>, <<23, 5, 14>>} /\ f.base = "page" /\ f.sign = 32
    BY DEF Formats, Format
  <2> HIDE DEF f
  <2>2. Encodes(f, ADRP, 12, 31, 12, 32)
    BY <2>1, EncAdrp
  <2> QED BY <2>1, <2>2 DEF f
<1>6. /\ Formats["a64_add"].base = "reg" /\ Formats["a64_add"].sign = Unsigned
     /\ Encodes(Formats["a64_add"], Imm12, 0, 31, 0, 11)
  <2> DEFINE f == Formats["a64_add"]
             j == 0
  <2>1. f.parts = {<<21, 10, j>>} /\ f.base = "reg" /\ f.sign = Unsigned
    BY DEF Formats, Format
  <2>2. j \in 0 .. 4
    OBVIOUS
  <2> HIDE DEF f, j
  <2>3. Encodes(f, Imm12, j, 31, j, j + 11)
    BY <2>1, <2>2, EncImm12
  <2> QED BY <2>1, <2>3 DEF f, j
<1>7. /\ Formats["a64_ldrb"].base = "reg" /\ Formats["a64_ldrb"].sign = Unsigned
     /\ Encodes(Formats["a64_ldrb"], Imm12, 0, 31, 0, 11)
  <2> DEFINE f == Formats["a64_ldrb"]
             j == 0
  <2>1. f.parts = {<<21, 10, j>>} /\ f.base = "reg" /\ f.sign = Unsigned
    BY DEF Formats, Format
  <2>2. j \in 0 .. 4
    OBVIOUS
  <2> HIDE DEF f, j
  <2>3. Encodes(f, Imm12, j, 31, j, j + 11)
    BY <2>1, <2>2, EncImm12
  <2> QED BY <2>1, <2>3 DEF f, j
<1>8. /\ Formats["a64_ldrh"].base = "reg" /\ Formats["a64_ldrh"].sign = Unsigned
     /\ Encodes(Formats["a64_ldrh"], Imm12, 1, 31, 1, 12)
  <2> DEFINE f == Formats["a64_ldrh"]
             j == 1
  <2>1. f.parts = {<<21, 10, j>>} /\ f.base = "reg" /\ f.sign = Unsigned
    BY DEF Formats, Format
  <2>2. j \in 0 .. 4
    OBVIOUS
  <2> HIDE DEF f, j
  <2>3. Encodes(f, Imm12, j, 31, j, j + 11)
    BY <2>1, <2>2, EncImm12
  <2> QED BY <2>1, <2>3 DEF f, j
<1>9. /\ Formats["a64_ldrw"].base = "reg" /\ Formats["a64_ldrw"].sign = Unsigned
     /\ Encodes(Formats["a64_ldrw"], Imm12, 2, 31, 2, 13)
  <2> DEFINE f == Formats["a64_ldrw"]
             j == 2
  <2>1. f.parts = {<<21, 10, j>>} /\ f.base = "reg" /\ f.sign = Unsigned
    BY DEF Formats, Format
  <2>2. j \in 0 .. 4
    OBVIOUS
  <2> HIDE DEF f, j
  <2>3. Encodes(f, Imm12, j, 31, j, j + 11)
    BY <2>1, <2>2, EncImm12
  <2> QED BY <2>1, <2>3 DEF f, j
<1>10. /\ Formats["a64_ldrx"].base = "reg" /\ Formats["a64_ldrx"].sign = Unsigned
     /\ Encodes(Formats["a64_ldrx"], Imm12, 3, 31, 3, 14)
  <2> DEFINE f == Formats["a64_ldrx"]
             j == 3
  <2>1. f.parts = {<<21, 10, j>>} /\ f.base = "reg" /\ f.sign = Unsigned
    BY DEF Formats, Format
  <2>2. j \in 0 .. 4
    OBVIOUS
  <2> HIDE DEF f, j
  <2>3. Encodes(f, Imm12, j, 31, j, j + 11)
    BY <2>1, <2>2, EncImm12
  <2> QED BY <2>1, <2>3 DEF f, j
<1>11. /\ Formats["a64_ldrq"].base = "reg" /\ Formats["a64_ldrq"].sign = Unsigned
     /\ Encodes(Formats["a64_ldrq"], Imm12, 4, 31, 4, 15)
  <2> DEFINE f == Formats["a64_ldrq"]
             j == 4
  <2>1. f.parts = {<<21, 10, j>>} /\ f.base = "reg" /\ f.sign = Unsigned
    BY DEF Formats, Format
  <2>2. j \in 0 .. 4
    OBVIOUS
  <2> HIDE DEF f, j
  <2>3. Encodes(f, Imm12, j, 31, j, j + 11)
    BY <2>1, <2>2, EncImm12
  <2> QED BY <2>1, <2>3 DEF f, j
<1> QED BY <1>1, <1>2, <1>3, <1>4, <1>5, <1>6, <1>7, <1>8, <1>9, <1>10, <1>11

LEMMA RiscvFormats ==
  /\ Formats["rv_auipc"].base = "pc" /\ Formats["rv_auipc"].sign = 31
     /\ Encodes(Formats["rv_auipc"], PatchU, 12, 31, 12, 31)
  /\ Formats["rv_lui"].base = "zero" /\ Formats["rv_lui"].sign = 31
     /\ Encodes(Formats["rv_lui"], PatchU, 12, 31, 12, 31)
  /\ Formats["rv_addi"].base = "reg" /\ Formats["rv_addi"].sign = 11
     /\ Encodes(Formats["rv_addi"], PatchI, 0, 31, 0, 11)
  /\ Formats["rv_store"].base = "reg" /\ Formats["rv_store"].sign = 11
     /\ Encodes(Formats["rv_store"], PatchS, 0, 31, 0, 11)
  /\ Formats["rv_branch"].base = "pc" /\ Formats["rv_branch"].sign = 12
     /\ Encodes(Formats["rv_branch"], PatchB, 0, 31, 1, 12)
  /\ Formats["rv_jal"].base = "pc" /\ Formats["rv_jal"].sign = 20
     /\ Encodes(Formats["rv_jal"], PatchJ, 0, 31, 1, 20)
  /\ Formats["rv_cb"].base = "pc" /\ Formats["rv_cb"].sign = 8
     /\ Encodes(Formats["rv_cb"], PatchCB, 0, 15, 1, 8)
  /\ Formats["rv_cj"].base = "pc" /\ Formats["rv_cj"].sign = 11
     /\ Encodes(Formats["rv_cj"], PatchCJ, 0, 15, 1, 11)
<1>1. /\ Formats["rv_auipc"].base = "pc" /\ Formats["rv_auipc"].sign = 31
     /\ Encodes(Formats["rv_auipc"], PatchU, 12, 31, 12, 31)
  <2> DEFINE f == Formats["rv_auipc"]
  <2>1. f.parts = {<<31, 12, 12>>} /\ f.base = "pc" /\ f.sign = 31
    BY DEF Formats, Format
  <2> HIDE DEF f
  <2>2. Encodes(f, PatchU, 12, 31, 12, 31)
    BY <2>1, EncU
  <2> QED BY <2>1, <2>2 DEF f
<1>2. /\ Formats["rv_lui"].base = "zero" /\ Formats["rv_lui"].sign = 31
     /\ Encodes(Formats["rv_lui"], PatchU, 12, 31, 12, 31)
  <2> DEFINE f == Formats["rv_lui"]
  <2>1. f.parts = {<<31, 12, 12>>} /\ f.base = "zero" /\ f.sign = 31
    BY DEF Formats, Format
  <2> HIDE DEF f
  <2>2. Encodes(f, PatchU, 12, 31, 12, 31)
    BY <2>1, EncU
  <2> QED BY <2>1, <2>2 DEF f
<1>3. /\ Formats["rv_addi"].base = "reg" /\ Formats["rv_addi"].sign = 11
     /\ Encodes(Formats["rv_addi"], PatchI, 0, 31, 0, 11)
  <2> DEFINE f == Formats["rv_addi"]
  <2>1. f.parts = {<<31, 20, 0>>} /\ f.base = "reg" /\ f.sign = 11
    BY DEF Formats, Format
  <2> HIDE DEF f
  <2>2. Encodes(f, PatchI, 0, 31, 0, 11)
    BY <2>1, EncI
  <2> QED BY <2>1, <2>2 DEF f
<1>4. /\ Formats["rv_store"].base = "reg" /\ Formats["rv_store"].sign = 11
     /\ Encodes(Formats["rv_store"], PatchS, 0, 31, 0, 11)
  <2> DEFINE f == Formats["rv_store"]
  <2>1. f.parts = {<<31, 25, 5>>, <<11, 7, 0>>} /\ f.base = "reg" /\ f.sign = 11
    BY DEF Formats, Format
  <2> HIDE DEF f
  <2>2. Encodes(f, PatchS, 0, 31, 0, 11)
    BY <2>1, EncS
  <2> QED BY <2>1, <2>2 DEF f
<1>5. /\ Formats["rv_branch"].base = "pc" /\ Formats["rv_branch"].sign = 12
     /\ Encodes(Formats["rv_branch"], PatchB, 0, 31, 1, 12)
  <2> DEFINE f == Formats["rv_branch"]
  <2>1. f.parts = {<<31, 31, 12>>, <<7, 7, 11>>, <<30, 25, 5>>, <<11, 8, 1>>} /\ f.base = "pc" /\ f.sign = 12
    BY DEF Formats, Format
  <2> HIDE DEF f
  <2>2. Encodes(f, PatchB, 0, 31, 1, 12)
    BY <2>1, EncSB
  <2> QED BY <2>1, <2>2 DEF f
<1>6. /\ Formats["rv_jal"].base = "pc" /\ Formats["rv_jal"].sign = 20
     /\ Encodes(Formats["rv_jal"], PatchJ, 0, 31, 1, 20)
  <2> DEFINE f == Formats["rv_jal"]
  <2>1. f.parts = {<<31, 31, 20>>, <<19, 12, 12>>, <<20, 20, 11>>, 
                    <<30, 21, 1>>} /\ f.base = "pc" /\ f.sign = 20
    BY DEF Formats, Format
  <2> HIDE DEF f
  <2>2. Encodes(f, PatchJ, 0, 31, 1, 20)
    BY <2>1, EncUJ
  <2> QED BY <2>1, <2>2 DEF f
<1>7. /\ Formats["rv_cb"].base = "pc" /\ Formats["rv_cb"].sign = 8
     /\ Encodes(Formats["rv_cb"], PatchCB, 0, 15, 1, 8)
  <2> DEFINE f == Formats["rv_cb"]
  <2>1. f.parts = {<<12, 12, 8>>, <<6, 5, 6>>, <<2, 2, 5>>, 
                    <<11, 10, 3>>, <<4, 3, 1>>} /\ f.base = "pc" /\ f.sign = 8
    BY DEF Formats, Format
  <2> HIDE DEF f
  <2>2. Encodes(f, PatchCB, 0, 15, 1, 8)
    BY <2>1, EncCB
  <2> QED BY <2>1, <2>2 DEF f
<1>8. /\ Formats["rv_cj"].base = "pc" /\ Formats["rv_cj"].sign = 11
     /\ Encodes(Formats["rv_cj"], PatchCJ, 0, 15, 1, 11)
  <2> DEFINE f == Formats["rv_cj"]
  <2>1. f.parts = {<<12, 12, 11>>, <<8, 8, 10>>, <<10, 9, 8>>, <<6, 6, 7>>, <<7, 7, 6>>, 
                    <<2, 2, 5>>, <<11, 11, 4>>, <<5, 3, 1>>} /\ f.base = "pc" /\ f.sign = 11
    BY DEF Formats, Format
  <2> HIDE DEF f
  <2>2. Encodes(f, PatchCJ, 0, 15, 1, 11)
    BY <2>1, EncCJ
  <2> QED BY <2>1, <2>2 DEF f
<1> QED BY <1>1, <1>2, <1>3, <1>4, <1>5, <1>6, <1>7, <1>8

LEMMA LoongFormats ==
  /\ Formats["la_lu12i"].base = "zero" /\ Formats["la_lu12i"].sign = 31
     /\ Encodes(Formats["la_lu12i"], LoongImm20, 12, 31, 12, 31)
  /\ Formats["la_pcala"].base = "page" /\ Formats["la_pcala"].sign = 31
     /\ Encodes(Formats["la_pcala"], LoongImm20, 12, 31, 12, 31)
  /\ Formats["la_ori"].base = "reg" /\ Formats["la_ori"].sign = Unsigned
     /\ Encodes(Formats["la_ori"], LoongImm12, 0, 31, 0, 11)
  /\ Formats["la_addi"].base = "reg" /\ Formats["la_addi"].sign = 11
     /\ Encodes(Formats["la_addi"], LoongImm12, 0, 31, 0, 11)
  /\ Formats["la_beq"].base = "pc" /\ Formats["la_beq"].sign = 17
     /\ Encodes(Formats["la_beq"], LoongB16, 2, 31, 2, 17)
  /\ Formats["la_beqz"].base = "pc" /\ Formats["la_beqz"].sign = 22
     /\ Encodes(Formats["la_beqz"], LoongB21, 2, 31, 2, 22)
  /\ Formats["la_b"].base = "pc" /\ Formats["la_b"].sign = 27
     /\ Encodes(Formats["la_b"], LoongB26, 2, 31, 2, 27)
<1>1. /\ Formats["la_lu12i"].base = "zero" /\ Formats["la_lu12i"].sign = 31
     /\ Encodes(Formats["la_lu12i"], LoongImm20, 12, 31, 12, 31)
  <2> DEFINE f == Formats["la_lu12i"]
  <2>1. f.parts = {<<24, 5, 12>>} /\ f.base = "zero" /\ f.sign = 31
    BY DEF Formats, Format
  <2> HIDE DEF f
  <2>2. Encodes(f, LoongImm20, 12, 31, 12, 31)
    BY <2>1, EncHi20
  <2> QED BY <2>1, <2>2 DEF f
<1>2. /\ Formats["la_pcala"].base = "page" /\ Formats["la_pcala"].sign = 31
     /\ Encodes(Formats["la_pcala"], LoongImm20, 12, 31, 12, 31)
  <2> DEFINE f == Formats["la_pcala"]
  <2>1. f.parts = {<<24, 5, 12>>} /\ f.base = "page" /\ f.sign = 31
    BY DEF Formats, Format
  <2> HIDE DEF f
  <2>2. Encodes(f, LoongImm20, 12, 31, 12, 31)
    BY <2>1, EncHi20
  <2> QED BY <2>1, <2>2 DEF f
<1>3. /\ Formats["la_ori"].base = "reg" /\ Formats["la_ori"].sign = Unsigned
     /\ Encodes(Formats["la_ori"], LoongImm12, 0, 31, 0, 11)
  <2> DEFINE f == Formats["la_ori"]
  <2>1. f.parts = {<<21, 10, 0>>} /\ f.base = "reg" /\ f.sign = Unsigned
    BY DEF Formats, Format
  <2> HIDE DEF f
  <2>2. Encodes(f, LoongImm12, 0, 31, 0, 11)
    BY <2>1, EncLo12
  <2> QED BY <2>1, <2>2 DEF f
<1>4. /\ Formats["la_addi"].base = "reg" /\ Formats["la_addi"].sign = 11
     /\ Encodes(Formats["la_addi"], LoongImm12, 0, 31, 0, 11)
  <2> DEFINE f == Formats["la_addi"]
  <2>1. f.parts = {<<21, 10, 0>>} /\ f.base = "reg" /\ f.sign = 11
    BY DEF Formats, Format
  <2> HIDE DEF f
  <2>2. Encodes(f, LoongImm12, 0, 31, 0, 11)
    BY <2>1, EncLo12
  <2> QED BY <2>1, <2>2 DEF f
<1>5. /\ Formats["la_beq"].base = "pc" /\ Formats["la_beq"].sign = 17
     /\ Encodes(Formats["la_beq"], LoongB16, 2, 31, 2, 17)
  <2> DEFINE f == Formats["la_beq"]
  <2>1. f.parts = {<<25, 10, 2>>} /\ f.base = "pc" /\ f.sign = 17
    BY DEF Formats, Format
  <2> HIDE DEF f
  <2>2. Encodes(f, LoongB16, 2, 31, 2, 17)
    BY <2>1, EncB16
  <2> QED BY <2>1, <2>2 DEF f
<1>6. /\ Formats["la_beqz"].base = "pc" /\ Formats["la_beqz"].sign = 22
     /\ Encodes(Formats["la_beqz"], LoongB21, 2, 31, 2, 22)
  <2> DEFINE f == Formats["la_beqz"]
  <2>1. f.parts = {<<4, 0, 18>>, <<25, 10, 2>>} /\ f.base = "pc" /\ f.sign = 22
    BY DEF Formats, Format
  <2> HIDE DEF f
  <2>2. Encodes(f, LoongB21, 2, 31, 2, 22)
    BY <2>1, EncB21
  <2> QED BY <2>1, <2>2 DEF f
<1>7. /\ Formats["la_b"].base = "pc" /\ Formats["la_b"].sign = 27
     /\ Encodes(Formats["la_b"], LoongB26, 2, 31, 2, 27)
  <2> DEFINE f == Formats["la_b"]
  <2>1. f.parts = {<<9, 0, 18>>, <<25, 10, 2>>} /\ f.base = "pc" /\ f.sign = 27
    BY DEF Formats, Format
  <2> HIDE DEF f
  <2>2. Encodes(f, LoongB26, 2, 31, 2, 27)
    BY <2>1, EncLB26
  <2> QED BY <2>1, <2>2 DEF f
<1> QED BY <1>1, <1>2, <1>3, <1>4, <1>5, <1>6, <1>7

LEMMA X86Formats ==
  /\ Formats["x86_imm0"].base = "next" /\ Formats["x86_imm0"].sign = 31
     /\ Encodes(Formats["x86_imm0"], Disp32, 0, 31, 0, 31)
  /\ Formats["x86_imm1"].base = "next" /\ Formats["x86_imm1"].sign = 31
     /\ Encodes(Formats["x86_imm1"], Disp32, 0, 31, 0, 31)
  /\ Formats["x86_imm2"].base = "next" /\ Formats["x86_imm2"].sign = 31
     /\ Encodes(Formats["x86_imm2"], Disp32, 0, 31, 0, 31)
  /\ Formats["x86_imm4"].base = "next" /\ Formats["x86_imm4"].sign = 31
     /\ Encodes(Formats["x86_imm4"], Disp32, 0, 31, 0, 31)
<1>1. /\ Formats["x86_imm0"].base = "next" /\ Formats["x86_imm0"].sign = 31
     /\ Encodes(Formats["x86_imm0"], Disp32, 0, 31, 0, 31)
  <2> DEFINE f == Formats["x86_imm0"]
  <2>1. f.parts = {<<31, 0, 0>>} /\ f.base = "next" /\ f.sign = 31
    BY DEF Formats, Format
  <2> HIDE DEF f
  <2>2. Encodes(f, Disp32, 0, 31, 0, 31)
    BY <2>1, EncDisp
  <2> QED BY <2>1, <2>2 DEF f
<1>2. /\ Formats["x86_imm1"].base = "next" /\ Formats["x86_imm1"].sign = 31
     /\ Encodes(Formats["x86_imm1"], Disp32, 0, 31, 0, 31)
  <2> DEFINE f == Formats["x86_imm1"]
  <2>1. f.parts = {<<31, 0, 0>>} /\ f.base = "next" /\ f.sign = 31
    BY DEF Formats, Format
  <2> HIDE DEF f
  <2>2. Encodes(f, Disp32, 0, 31, 0, 31)
    BY <2>1, EncDisp
  <2> QED BY <2>1, <2>2 DEF f
<1>3. /\ Formats["x86_imm2"].base = "next" /\ Formats["x86_imm2"].sign = 31
     /\ Encodes(Formats["x86_imm2"], Disp32, 0, 31, 0, 31)
  <2> DEFINE f == Formats["x86_imm2"]
  <2>1. f.parts = {<<31, 0, 0>>} /\ f.base = "next" /\ f.sign = 31
    BY DEF Formats, Format
  <2> HIDE DEF f
  <2>2. Encodes(f, Disp32, 0, 31, 0, 31)
    BY <2>1, EncDisp
  <2> QED BY <2>1, <2>2 DEF f
<1>4. /\ Formats["x86_imm4"].base = "next" /\ Formats["x86_imm4"].sign = 31
     /\ Encodes(Formats["x86_imm4"], Disp32, 0, 31, 0, 31)
  <2> DEFINE f == Formats["x86_imm4"]
  <2>1. f.parts = {<<31, 0, 0>>} /\ f.base = "next" /\ f.sign = 31
    BY DEF Formats, Format
  <2> HIDE DEF f
  <2>2. Encodes(f, Disp32, 0, 31, 0, 31)
    BY <2>1, EncDisp
  <2> QED BY <2>1, <2>2 DEF f
<1> QED BY <1>1, <1>2, <1>3, <1>4

-------------------------------------------------------------------------------
(* What each relocation puts into its word *)

Cond == InReach /\ CarryTaken /\ AddendInPage /\ SizeInBits

\* The number that the second instruction adds, that from which the first one
\* starts, and what each of them has to add for the sequence to end at its target.
LowPart ==
  LET y == IF Code[1].op = "rv_auipc" THEN Val(idiom.means) - Val(Site(1)) ELSE Val(idiom.means)
  IN  IF Formats[Code[2].op].sign = Unsigned THEN y % 4096 ELSE SignedLow(y)

From ==
  LET base == Formats[Code[1].op].base
  IN  IF base = "page" THEN Page(Site(1))
      ELSE IF base = "zero" THEN Num(0, 0)
      ELSE IF base = "next" THEN Plus(Site(1), Num(0, 4 + BytesBehind[Code[1].op]))
      ELSE Site(1)

Delta(i) ==
  IF i = 2 THEN LowPart
  ELSE Val(idiom.means) - Val(From) - (IF Len(Code) = 2 THEN LowPart ELSE 0)

RightWord(i, w) ==
  /\ Immediate(w, Formats[Code[i].op]) \in Addr
  /\ Val(Immediate(w, Formats[Code[i].op])) = Delta(i)

\* A relocation is refused for a cause, and goes to the bits of the immediate,
\* with the value that they should have.
Put(i) ==
  \E field, k, last, v :
    /\ Routed(Formats[Code[i].op], field, k, last) /\ DOMAIN Code[i].word = 0 .. last
    /\ Apply(i) \in {Refused, Set(v, field)}
    /\ Apply(i) = Refused => ~Encodable(Needed(i), Formats[Code[i].op])
    /\ Apply(i) = Set(v, field) /\ Cond => RightWord(i, Spliced(Code[i].word, v, field))

LEMMA WordIs ==
  ASSUME idiom \in Idioms, NEW i \in DOMAIN Code
  PROVE  /\ DOMAIN Code[i].word = IF Code[i].op \in {"rv_cb", "rv_cj"} THEN 0 .. 15 ELSE 0 .. 31
         /\ \A b \in DOMAIN Code[i].word : Code[i].word[b] \in {0, 1}
         /\ idiom.arch \in {"amd64", "arm64"} => Code[i].addend = 0 /\ Referent(i) = Code[i].sym
<1>1. DOMAIN Code[i].word = IF Code[i].op \in {"rv_cb", "rv_cj"} THEN 0 .. 15 ELSE 0 .. 31
  BY IdiomIs DEF Emitted, Code
<1>2. idiom.arch \in {"amd64", "arm64"} => Code[i].addend = 0
  BY IdiomIs DEF Emitted, Code
<1>3. \A b \in DOMAIN Code[i].word : Code[i].word[b] \in {0, 1}
  <2> DEFINE w == Code[i].word
  <2>1. w \in [0 .. 31 -> {0, 1}] \cup [0 .. 15 -> {0, 1}]
    BY IdiomIs DEF Instruction
  <2> HIDE DEF w
  <2>2. \A b \in DOMAIN w : w[b] \in {0, 1}
    BY <2>1
  <2> QED BY <2>2 DEF w
<1>4. Code[i].addend = 0 => Referent(i) = Code[i].sym
  BY SitesAre, SameVal, AddrShape
<1> QED BY <1>1, <1>2, <1>3, <1>4

\* A fixup that is refused if the immediate cannot be v shifted left by k, and
\* puts v into it otherwise.
Tested(i, f, field, k, last, low, top, n, v) ==
  /\ f = Formats[Code[i].op] /\ Encodes(f, field, k, last, low, top) /\ DOMAIN Code[i].word = 0 .. last
  /\ n \in Addr /\ Needed(i) = n /\ (f.sign = Unsigned => n.pg = 0 /\ 11 <= top)
  /\ v \in Addr /\ Val(v) = Val(n) \div 2^k
  /\ Apply(i) = IF Encodable(n, f) THEN Set(v, field) ELSE Refused
  /\ Cond => Val(n) = Delta(i)

LEMMA Straight ==
  ASSUME NEW i \in DOMAIN Code, NEW f, NEW field, NEW k, NEW last, NEW low, NEW top, NEW n, NEW v,
         Tested(i, f, field, k, last, low, top, n, v)
  PROVE  Put(i)
<1> USE DEF Tested
<1> DEFINE w == Code[i].word
<1>1. Set(v, field) /= Refused
  BY DEF Set, Refused
<1>2. Routed(f, field, k, last)
  BY DEF Encodes
<1>3. ASSUME Encodable(n, f), Cond PROVE RightWord(i, Spliced(w, v, field))
  <2> HIDE DEF w
  <2>1. DOMAIN w = 0 .. last
    BY DEF w
  <2>2. Immediate(Spliced(w, v, field), f) \in Addr /\ Val(Immediate(Spliced(w, v, field), f)) = Val(n)
    BY <1>3, <2>1, CheckedLands
  <2> QED BY <1>3, <2>2 DEF RightWord
<1>4. Apply(i) \in {Refused, Set(v, field)} /\ (Apply(i) = Refused => ~Encodable(n, f))
  BY <1>1
<1>5. Apply(i) = Set(v, field) /\ Cond => RightWord(i, Spliced(w, v, field))
  BY <1>1, <1>3
<1> QED BY <1>2, <1>4, <1>5 DEF Put

\* Relocations that lead one instruction to its target, relative to the site.
LEMMA Relative ==
  ASSUME idiom \in Idioms, Len(Code) = 1, idiom.arch /= "amd64", NEW f, f = Formats[Code[1].op],
         f.base = "pc", NEW field, NEW k, NEW last, NEW low, NEW top, Encodes(f, field, k, last, low, top),
         f.sign = top, DOMAIN Code[1].word = 0 .. last,
         NEW v \in Addr, Val(v) = Val(Minus(Referent(1), Site(1))) \div 2^k,
         Apply(1) = IF Aligned(Minus(Referent(1), Site(1)), low) /\ Within(Minus(Referent(1), Site(1)), top)
                    THEN Set(v, field) ELSE Refused
  PROVE  Put(1)
<1> DEFINE n == Minus(Referent(1), Site(1))
<1>1. 1 \in DOMAIN Code
  BY IdiomIs
<1>2. Referent(1) \in Addr /\ Site(1) \in Addr
  BY <1>1, SitesAre
<1>3. n \in Addr /\ Val(n) = Val(Referent(1)) - Val(Site(1))
  BY <1>2, SumIs
<1>4. Needed(1) = n
  BY DEF Needed
<1>5. f.sign /= Unsigned /\ (Encodable(n, f) <=> Aligned(n, low) /\ Within(n, top))
  <2>1. Least(f) = low /\ low <= 12 /\ low \in Nat /\ top \in Nat
    BY LeastIs DEF Encodes, Spans
  <2>2. f.sign /= Unsigned
    BY <2>1 DEF Unsigned
  <2> QED BY <2>1, <2>2 DEF Encodable, PageBits
<1>6. idiom.means = Referent(1)
  <2>1. idiom.means = Meaning(idiom) /\ idiom.code = Code /\ Len(Code) = 1
    BY IdiomIs DEF Emitted, Code
  <2> QED BY <2>1 DEF Meaning, Referent
<1>7. Val(n) = Delta(1)
  <2>1. From = Site(1)
    BY DEF From
  <2>2. Val(Referent(1)) \in Int /\ Val(Site(1)) \in Int
    BY <1>2, AddrShape
  <2> QED BY <1>3, <1>6, <2>1, <2>2 DEF Delta
<1> HIDE DEF n
<1>8. Apply(1) = IF Encodable(n, f) THEN Set(v, field) ELSE Refused
  BY <1>5 DEF n
<1>9. Val(v) = Val(n) \div 2^k
  BY DEF n
<1>10. Tested(1, f, field, k, last, low, top, n, v)
  BY <1>3, <1>4, <1>5, <1>7, <1>8, <1>9 DEF Tested
<1> QED BY <1>1, <1>10, Straight

LEMMA ShiftedJump ==
  ASSUME idiom \in Idioms, Len(Code) = 1, idiom.arch /= "amd64", NEW f, f = Formats[Code[1].op],
         f.base = "pc", NEW field, NEW top, Encodes(f, field, 2, 31, 2, top), f.sign = top,
         DOMAIN Code[1].word = 0 .. 31,
         Apply(1) = Checked(Aligned(Minus(Referent(1), Site(1)), 2) /\ Within(Minus(Referent(1), Site(1)), top),
                            Shifted(Minus(Referent(1), Site(1)), 2), field)
  PROVE  Put(1)
<1> DEFINE n == Minus(Referent(1), Site(1))
           v == Shifted(n, 2)
           k == 2
           last == 31
<1>1. n \in Addr
  BY IdiomIs, SitesAre, SumIs
<1>2. v \in Addr /\ Val(v) = Val(n) \div 2^k
  <2>1. k \in Nat /\ k <= 12
    OBVIOUS
  <2> HIDE DEF n, k
  <2>2. Shifted(n, k) \in Addr /\ Val(Shifted(n, k)) = Val(n) \div 2^k
    BY <1>1, <2>1, ShiftedIs
  <2> QED BY <2>2 DEF k
<1>3. Apply(1) = IF Aligned(n, k) /\ Within(n, top) THEN Set(v, field) ELSE Refused
  BY DEF Checked
<1>4. Encodes(f, field, k, last, k, top) /\ DOMAIN Code[1].word = 0 .. last
  OBVIOUS
<1> HIDE DEF v, k, last
<1> QED BY <1>2, <1>3, <1>4, Relative

LEMMA WordBranch ==
  ASSUME idiom \in Idioms, Len(Code) = 1, idiom.arch /= "amd64", NEW f, f = Formats[Code[1].op],
         f.base = "pc", NEW field, NEW bits \in Nat, Encodes(f, field, 2, 31, 2, bits + 2), f.sign = bits + 2,
         DOMAIN Code[1].word = 0 .. 31, Apply(1) = Branch(Minus(Referent(1), Site(1)), bits, field)
  PROVE  Put(1)
<1> DEFINE n == Minus(Referent(1), Site(1))
           top == bits + 2
           k == 2
<1>1. n \in Addr
  BY IdiomIs, SitesAre, SumIs
<1>2. Within(Shifted(n, k), bits) <=> Within(n, top)
  <2>1. k \in Nat /\ k <= 12 /\ top = bits + k
    OBVIOUS
  <2> HIDE DEF n, k, top
  <2> QED BY <1>1, <2>1, WithinShifted
<1>3. Apply(1) = Checked(Aligned(n, 2) /\ Within(n, top), Shifted(n, 2), field)
  BY <1>2 DEF Branch, BranchInRange, Checked
<1>4. Encodes(f, field, 2, 31, 2, top) /\ f.sign = top
  OBVIOUS
<1> HIDE DEF top
<1> QED BY <1>3, <1>4, ShiftedJump

LEMMA PlainJump ==
  ASSUME idiom \in Idioms, Len(Code) = 1, idiom.arch /= "amd64", NEW f, f = Formats[Code[1].op],
         f.base = "pc", NEW field, NEW last, NEW low, NEW top, Encodes(f, field, 0, last, low, top), f.sign = top,
         DOMAIN Code[1].word = 0 .. last,
         Apply(1) = Checked(Aligned(Minus(Referent(1), Site(1)), low) /\ Within(Minus(Referent(1), Site(1)), top),
                            Minus(Referent(1), Site(1)), field)
  PROVE  Put(1)
<1> DEFINE n == Minus(Referent(1), Site(1))
           k == 0
<1>1. n \in Addr /\ Val(n) \in Int
  BY IdiomIs, SitesAre, SumIs, AddrShape
<1>2. Val(n) = Val(n) \div 2^k
  <2> HIDE DEF n
  <2> QED BY <1>1
<1>3. Apply(1) = IF Aligned(n, low) /\ Within(n, top) THEN Set(n, field) ELSE Refused
  BY DEF Checked
<1>4. Encodes(f, field, k, last, low, top)
  OBVIOUS
<1> HIDE DEF k
<1> QED BY <1>1, <1>2, <1>3, <1>4, Relative

\* A byte is aligned.
LEMMA ByteAligned ==
  ASSUME NEW n \in Addr
  PROVE  Aligned(n, 0)
<1>1. Val(n) \in Int
  BY AddrShape
<1> DEFINE k == 0
<1>2. Val(n) % 2^k = 0 /\ k \in Nat /\ k <= 12
  BY <1>1
<1> HIDE DEF k
<1>3. Aligned(n, k)
  BY <1>2, AlignedIs
<1> QED BY <1>3 DEF k

LEMMA ElfJumps ==
  ASSUME idiom \in Idioms, Len(Code) = 1, idiom.arch = "arm64elf"
  PROVE  Put(1)
<1> DEFINE d == Minus(Referent(1), Site(1))
<1>1. Apply(1) = applyARM64ELF(Code[1].type, Referent(1), Site(1))
  BY DEF Apply
<1>2. CASE Is(1, "arm64elf", "CALL26", "a64_b") \/ Is(1, "arm64elf", "JUMP26", "a64_b")
  <2> DEFINE bits == 25
             f == Formats["a64_b"]
  <2>1. Apply(1) = Branch(d, bits, Branch26)
    BY <1>1, <1>2 DEF Is, applyARM64ELF, LdStShift
  <2>2. DOMAIN Code[1].word = 0 .. 31 /\ f = Formats[Code[1].op]
    BY <1>2, WordIs DEF Is
  <2>3. bits \in Nat /\ Encodes(f, Branch26, 2, 31, 2, bits + 2) /\ f.sign = bits + 2 /\ f.base = "pc"
    BY A64Formats
  <2> HIDE DEF bits, f
  <2> QED BY <2>1, <2>2, <2>3, WordBranch
<1>3. CASE Is(1, "arm64elf", "CONDBR19", "a64_bcond")
  <2> DEFINE bits == 18
             f == Formats["a64_bcond"]
  <2>1. Apply(1) = Branch(d, bits, Branch19)
    BY <1>1, <1>3 DEF Is, applyARM64ELF, LdStShift
  <2>2. DOMAIN Code[1].word = 0 .. 31 /\ f = Formats[Code[1].op]
    BY <1>3, WordIs DEF Is
  <2>3. bits \in Nat /\ Encodes(f, Branch19, 2, 31, 2, bits + 2) /\ f.sign = bits + 2 /\ f.base = "pc"
    BY A64Formats
  <2> HIDE DEF bits, f
  <2> QED BY <2>1, <2>2, <2>3, WordBranch
<1>4. CASE Is(1, "arm64elf", "TSTBR14", "a64_tbz")
  <2> DEFINE bits == 13
             f == Formats["a64_tbz"]
  <2>1. Apply(1) = Branch(d, bits, TBranch14)
    BY <1>1, <1>4 DEF Is, applyARM64ELF, LdStShift
  <2>2. DOMAIN Code[1].word = 0 .. 31 /\ f = Formats[Code[1].op]
    BY <1>4, WordIs DEF Is
  <2>3. bits \in Nat /\ Encodes(f, TBranch14, 2, 31, 2, bits + 2) /\ f.sign = bits + 2 /\ f.base = "pc"
    BY A64Formats
  <2> HIDE DEF bits, f
  <2> QED BY <2>1, <2>2, <2>3, WordBranch
<1>5. CASE Is(1, "arm64elf", "ADR_PREL_LO21", "a64_adr")
  <2> DEFINE top == 20
             low == 0
             last == 31
             f == Formats["a64_adr"]
  <2>1. d \in Addr /\ Aligned(d, 0)
    BY IdiomIs, SitesAre, SumIs, ByteAligned
  <2>2. Apply(1) = Checked(Within(d, top), d, ADRP)
    BY <1>1, <1>5 DEF Is, applyARM64ELF, LdStShift
  <2>3. Apply(1) = Checked(Aligned(d, low) /\ Within(d, top), d, ADRP)
    BY <2>1, <2>2 DEF Checked
  <2>4. DOMAIN Code[1].word = 0 .. last /\ f = Formats[Code[1].op]
    BY <1>5, WordIs DEF Is
  <2>5. Encodes(f, ADRP, 0, last, low, top) /\ f.sign = top /\ f.base = "pc"
    BY A64Formats
  <2> HIDE DEF top, low, last, f
  <2> QED BY <2>3, <2>4, <2>5, PlainJump
<1> QED BY <1>2, <1>3, <1>4, <1>5, AloneIs DEF Is

LEMMA CoffJumps ==
  ASSUME idiom \in Idioms, Len(Code) = 1, idiom.arch = "arm64"
  PROVE  Put(1)
<1> DEFINE d == Minus(Referent(1), Site(1))
<1>1. Apply(1) = applyARM64(Code[1].type, Referent(1), Site(1), words[1])
  BY IdiomIs, WordIs DEF Apply
<1>2. CASE Is(1, "arm64", "BRANCH26", "a64_b")
  <2> DEFINE bits == 25
             f == Formats["a64_b"]
  <2>1. Apply(1) = Branch(d, bits, Branch26)
    BY <1>1, <1>2 DEF Is, applyARM64
  <2>2. DOMAIN Code[1].word = 0 .. 31 /\ f = Formats[Code[1].op]
    BY <1>2, WordIs DEF Is
  <2>3. bits \in Nat /\ Encodes(f, Branch26, 2, 31, 2, bits + 2) /\ f.sign = bits + 2 /\ f.base = "pc"
    BY A64Formats
  <2> HIDE DEF bits, f
  <2> QED BY <2>1, <2>2, <2>3, WordBranch
<1>3. CASE Is(1, "arm64", "BRANCH19", "a64_bcond")
  <2> DEFINE bits == 18
             f == Formats["a64_bcond"]
  <2>1. Apply(1) = Branch(d, bits, Branch19)
    BY <1>1, <1>3 DEF Is, applyARM64
  <2>2. DOMAIN Code[1].word = 0 .. 31 /\ f = Formats[Code[1].op]
    BY <1>3, WordIs DEF Is
  <2>3. bits \in Nat /\ Encodes(f, Branch19, 2, 31, 2, bits + 2) /\ f.sign = bits + 2 /\ f.base = "pc"
    BY A64Formats
  <2> HIDE DEF bits, f
  <2> QED BY <2>1, <2>2, <2>3, WordBranch
<1>4. CASE Is(1, "arm64", "REL21", "a64_adr")
  <2> DEFINE top == 20
             low == 0
             last == 31
             f == Formats["a64_adr"]
  <2>1. d \in Addr /\ Aligned(d, 0)
    BY IdiomIs, SitesAre, SumIs, ByteAligned
  <2>2. Apply(1) = Checked(Within(d, top), d, ADRP)
    BY <1>1, <1>4 DEF Is, applyARM64
  <2>3. Apply(1) = Checked(Aligned(d, low) /\ Within(d, top), d, ADRP)
    BY <2>1, <2>2 DEF Checked
  <2>4. DOMAIN Code[1].word = 0 .. last /\ f = Formats[Code[1].op]
    BY <1>4, WordIs DEF Is
  <2>5. Encodes(f, ADRP, 0, last, low, top) /\ f.sign = top /\ f.base = "pc"
    BY A64Formats
  <2> HIDE DEF top, low, last, f
  <2> QED BY <2>3, <2>4, <2>5, PlainJump
<1> QED BY <1>2, <1>3, <1>4, AloneIs DEF Is

LEMMA RiscvJumps ==
  ASSUME idiom \in Idioms, Len(Code) = 1, idiom.arch = "riscv64"
  PROVE  Put(1)
<1> DEFINE d == Minus(Referent(1), Site(1))
<1>1. Apply(1) = applyRISCV64(Code[1].type, Referent(1), Site(1), Code[1].sym, pcrelLookup(Code[1].sym))
  BY DEF Apply
<1>2. CASE Is(1, "riscv64", "BRANCH", "rv_branch")
  <2> DEFINE top == 12
             low == 1
             last == 31
             f == Formats["rv_branch"]
  <2>1. Apply(1) = Checked(Aligned(d, low) /\ Within(d, top), d, PatchB)
    BY <1>1, <1>2 DEF Is, applyRISCV64
  <2>2. DOMAIN Code[1].word = 0 .. last /\ f = Formats[Code[1].op]
    BY <1>2, WordIs DEF Is
  <2>3. Encodes(f, PatchB, 0, last, low, top) /\ f.sign = top /\ f.base = "pc"
    BY RiscvFormats
  <2> HIDE DEF top, low, last, f
  <2> QED BY <2>1, <2>2, <2>3, PlainJump
<1>3. CASE Is(1, "riscv64", "JAL", "rv_jal")
  <2> DEFINE top == 20
             low == 1
             last == 31
             f == Formats["rv_jal"]
  <2>1. Apply(1) = Checked(Aligned(d, low) /\ Within(d, top), d, PatchJ)
    BY <1>1, <1>3 DEF Is, applyRISCV64
  <2>2. DOMAIN Code[1].word = 0 .. last /\ f = Formats[Code[1].op]
    BY <1>3, WordIs DEF Is
  <2>3. Encodes(f, PatchJ, 0, last, low, top) /\ f.sign = top /\ f.base = "pc"
    BY RiscvFormats
  <2> HIDE DEF top, low, last, f
  <2> QED BY <2>1, <2>2, <2>3, PlainJump
<1>4. CASE Is(1, "riscv64", "RVC_BRANCH", "rv_cb")
  <2> DEFINE top == 8
             low == 1
             last == 15
             f == Formats["rv_cb"]
  <2>1. Apply(1) = Checked(Aligned(d, low) /\ Within(d, top), d, PatchCB)
    BY <1>1, <1>4 DEF Is, applyRISCV64
  <2>2. DOMAIN Code[1].word = 0 .. last /\ f = Formats[Code[1].op]
    BY <1>4, WordIs DEF Is
  <2>3. Encodes(f, PatchCB, 0, last, low, top) /\ f.sign = top /\ f.base = "pc"
    BY RiscvFormats
  <2> HIDE DEF top, low, last, f
  <2> QED BY <2>1, <2>2, <2>3, PlainJump
<1>5. CASE Is(1, "riscv64", "RVC_JUMP", "rv_cj")
  <2> DEFINE top == 11
             low == 1
             last == 15
             f == Formats["rv_cj"]
  <2>1. Apply(1) = Checked(Aligned(d, low) /\ Within(d, top), d, PatchCJ)
    BY <1>1, <1>5 DEF Is, applyRISCV64
  <2>2. DOMAIN Code[1].word = 0 .. last /\ f = Formats[Code[1].op]
    BY <1>5, WordIs DEF Is
  <2>3. Encodes(f, PatchCJ, 0, last, low, top) /\ f.sign = top /\ f.base = "pc"
    BY RiscvFormats
  <2> HIDE DEF top, low, last, f
  <2> QED BY <2>1, <2>2, <2>3, PlainJump
<1> QED BY <1>2, <1>3, <1>4, <1>5, AloneIs DEF Is

LEMMA LoongJumps ==
  ASSUME idiom \in Idioms, Len(Code) = 1, idiom.arch = "loongarch64"
  PROVE  Put(1)
<1> DEFINE d == Minus(Referent(1), Site(1))
<1>1. Apply(1) = applyLoongArch64(Code[1].type, Referent(1), Site(1))
  BY DEF Apply
<1>2. CASE Is(1, "loongarch64", "B16", "la_beq")
  <2> DEFINE top == 17
             f == Formats["la_beq"]
  <2>1. Apply(1) = Checked(Aligned(d, 2) /\ Within(d, top), Shifted(d, 2), LoongB16)
    BY <1>1, <1>2 DEF Is, applyLoongArch64, LoongAbs, LoongPcala
  <2>2. DOMAIN Code[1].word = 0 .. 31 /\ f = Formats[Code[1].op]
    BY <1>2, WordIs DEF Is
  <2>3. Encodes(f, LoongB16, 2, 31, 2, top) /\ f.sign = top /\ f.base = "pc"
    BY LoongFormats
  <2> HIDE DEF top, f
  <2> QED BY <2>1, <2>2, <2>3, ShiftedJump
<1>3. CASE Is(1, "loongarch64", "B21", "la_beqz")
  <2> DEFINE top == 22
             f == Formats["la_beqz"]
  <2>1. Apply(1) = Checked(Aligned(d, 2) /\ Within(d, top), Shifted(d, 2), LoongB21)
    BY <1>1, <1>3 DEF Is, applyLoongArch64, LoongAbs, LoongPcala
  <2>2. DOMAIN Code[1].word = 0 .. 31 /\ f = Formats[Code[1].op]
    BY <1>3, WordIs DEF Is
  <2>3. Encodes(f, LoongB21, 2, 31, 2, top) /\ f.sign = top /\ f.base = "pc"
    BY LoongFormats
  <2> HIDE DEF top, f
  <2> QED BY <2>1, <2>2, <2>3, ShiftedJump
<1>4. CASE Is(1, "loongarch64", "B26", "la_b")
  <2> DEFINE top == 27
             f == Formats["la_b"]
  <2>1. Apply(1) = Checked(Aligned(d, 2) /\ Within(d, top), Shifted(d, 2), LoongB26)
    BY <1>1, <1>4 DEF Is, applyLoongArch64, LoongAbs, LoongPcala
  <2>2. DOMAIN Code[1].word = 0 .. 31 /\ f = Formats[Code[1].op]
    BY <1>4, WordIs DEF Is
  <2>3. Encodes(f, LoongB26, 2, 31, 2, top) /\ f.sign = top /\ f.base = "pc"
    BY LoongFormats
  <2> HIDE DEF top, f
  <2> QED BY <2>1, <2>2, <2>3, ShiftedJump
<1> QED BY <1>2, <1>3, <1>4, AloneIs DEF Is

LEMMA SignedWordIs ==
  ASSUME NEW w, DOMAIN w = 0 .. 31, \A b \in 0 .. 31 : w[b] \in {0, 1}
  PROVE  SignedWord(w) \in Addr
<1> DEFINE p == FieldOf(w, 30, 12)
           r == FieldOf(w, 11, 0)
           s == w[31]
<1>1. p \in Nat
  <2> DEFINE top == 30
             low == 12
  <2>1. top \in Nat /\ low \in Nat /\ low <= top /\ \A b \in low .. top : w[b] \in {0, 1}
    OBVIOUS
  <2> HIDE DEF top, low
  <2>2. FieldOf(w, top, low) \in Nat
    BY <2>1, FieldTyped
  <2> QED BY <2>2 DEF top, low
<1>2. r \in Nat
  <2> DEFINE top == 11
             low == 0
  <2>1. top \in Nat /\ low \in Nat /\ low <= top /\ \A b \in low .. top : w[b] \in {0, 1}
    OBVIOUS
  <2> HIDE DEF top, low
  <2>2. FieldOf(w, top, low) \in Nat
    BY <2>1, FieldTyped
  <2> QED BY <2>2 DEF top, low
<1>3. s \in {0, 1}
  OBVIOUS
<1>4. SignedWord(w) = Num(p - s * 2^19, r)
  BY DEF SignedWord
<1> HIDE DEF p, r, s
<1>5. p - s * 2^19 \in Int /\ r \in Int
  BY <1>1, <1>2, <1>3
<1> QED BY <1>4, <1>5, NumIs

LEMMA X86Refs ==
  ASSUME idiom \in Idioms, Len(Code) = 1, idiom.arch = "amd64", words[1] = Code[1].word
  PROVE  Put(1)
<1> DEFINE f == Formats[Code[1].op]
           w == Code[1].word
           S == Code[1].sym
           P == Site(1)
           b == BytesBehind[Code[1].op]
           n == Minus(idiom.means, Plus(P, Num(0, 4 + b)))
           d == Plus(Minus(S, Plus(P, Num(0, 4 + b))), SignedWord(w))
           top == 31
           low == 0
<1>1. 1 \in DOMAIN Code /\ DOMAIN w = 0 .. top
  BY IdiomIs, WordIs, AloneIs DEF Is
<1>2. S \in Addr /\ P \in Addr
  BY <1>1, SitesAre
<1>3. b \in 0 .. 4
  BY AloneIs DEF Is, BytesBehind
<1>4. f.base = "next" /\ f.sign = top /\ Encodes(f, Disp32, low, top, low, top)
  BY AloneIs, X86Formats DEF Is
<1>5. Apply(1) = Checked(Within(d, 31), d, Disp32)
  <2>1. Apply(1) = applyAMD64(Code[1].type, S, P, w)
    BY DEF Apply
  <2>2. Trailing[Code[1].type] = b
    BY AloneIs DEF Is, BytesBehind, Trailing
  <2> QED BY <2>1, <2>2 DEF applyAMD64
<1>6. SignedWord(w) \in Addr
  BY <1>1, WordIs, SignedWordIs
<1>7. idiom.means = Plus(S, SignedWord(w))
  <2>1. idiom.means = Meaning(idiom) /\ idiom.code = Code /\ Len(Code) = 1
    BY IdiomIs DEF Emitted, Code
  <2> QED BY <2>1 DEF Meaning
<1> DEFINE q == Num(0, 4 + b)
<1>8. q \in Addr
  <2> DEFINE o == 4 + b
  <2>1. o \in Int
    BY <1>3
  <2> HIDE DEF o
  <2>2. Num(0, o) \in Addr
    BY <2>1, NumIs
  <2> QED BY <2>2 DEF o
<1>9. n \in Addr /\ d = n
  <2> DEFINE y == Plus(P, q)
             z == SignedWord(w)
             m == idiom.means
  <2>1. y \in Addr
    BY <1>2, <1>8, SumIs
  <2>2. m \in Addr /\ m = Plus(S, z) /\ z \in Addr
    BY <1>6, <1>7, IdiomIs
  <2> HIDE DEF y, z, m, S
  <2>3. Minus(m, y) \in Addr /\ Val(Minus(m, y)) = Val(m) - Val(y)
    BY <2>1, <2>2, SumIs
  <2>4. Val(m) = Val(S) + Val(z)
    BY <1>2, <2>2, SumIs
  <2>5. Minus(S, y) \in Addr /\ Val(Minus(S, y)) = Val(S) - Val(y)
    BY <1>2, <2>1, SumIs
  <2>6. Plus(Minus(S, y), z) \in Addr /\ Val(Plus(Minus(S, y), z)) = Val(S) - Val(y) + Val(z)
    BY <2>2, <2>5, SumIs
  <2>7. Val(S) \in Int /\ Val(y) \in Int /\ Val(z) \in Int
    BY <1>2, <2>1, <2>2, AddrShape
  <2>8. Plus(Minus(S, y), z) = Minus(m, y)
    BY <2>3, <2>4, <2>6, <2>7, SameVal
  <2> QED BY <2>3, <2>8 DEF y, z, m, S
<1>10. Needed(1) = n
  BY <1>4 DEF Needed, Origin
<1>11. Val(n) = Delta(1)
  <2> DEFINE y == Plus(P, q)
             m == idiom.means
  <2>1. y \in Addr /\ m \in Addr
    BY <1>2, <1>8, SumIs, IdiomIs
  <2>2. From = y
    BY <1>4 DEF From
  <2> HIDE DEF y
  <2>3. Val(Minus(m, y)) = Val(m) - Val(y)
    BY <2>1, SumIs
  <2>4. Val(m) \in Int /\ Val(y) \in Int
    BY <2>1, AddrShape
  <2>5. Delta(1) = Val(m) - Val(y)
    BY <2>2, <2>4 DEF Delta
  <2> QED BY <2>3, <2>5 DEF y
<1> HIDE DEF n, d
<1>12. Encodable(n, f) <=> Within(n, 31)
  <2>1. Least(f) = 0
    BY <1>4, LeastIs
  <2>2. Aligned(n, 0)
    BY <1>9, ByteAligned
  <2> QED BY <1>4, <2>1, <2>2 DEF Encodable, PageBits, Unsigned
<1>13. Apply(1) = IF Encodable(n, f) THEN Set(n, Disp32) ELSE Refused
  BY <1>5, <1>9, <1>12 DEF Checked
<1>14. Val(n) = Val(n) \div 2^low /\ f.sign /= Unsigned
  <2>1. Val(n) \in Int
    BY <1>9, AddrShape
  <2> QED BY <1>4, <2>1 DEF Unsigned
<1> HIDE DEF top, low, f
<1>15. Tested(1, f, Disp32, low, top, low, top, n, n)
  BY <1>1, <1>4, <1>9, <1>10, <1>11, <1>13, <1>14 DEF Tested, f
<1> QED BY <1>1, <1>15, Straight

-------------------------------------------------------------------------------
(* Pairs of instructions *)

LEMMA PairMeans ==
  ASSUME idiom \in Idioms, Len(Code) = 2
  PROVE  /\ 1 \in DOMAIN Code /\ 2 \in DOMAIN Code
         /\ idiom.arch \in {"arm64elf", "riscv64", "loongarch64"} => idiom.means = Referent(1)
         /\ idiom.arch = "arm64" =>
              idiom.means = Plus(Code[2].sym, Num(0, FieldOf(Code[2].word, 21, 10)
                                                       * 2^Least(Formats[Code[2].op])))
<1>1. idiom.means = Meaning(idiom) /\ idiom.code = Code /\ Len(Code) = 2
  BY IdiomIs DEF Emitted, Code
<1>2. idiom.arch \in {"arm64elf", "riscv64", "loongarch64"} => idiom.means = Referent(1)
  BY <1>1 DEF Meaning, Referent
<1>3. idiom.arch = "arm64" =>
        idiom.means = Plus(Code[2].sym, Num(0, FieldOf(Code[2].word, 21, 10)
                                                 * 2^Least(Formats[Code[2].op])))
  BY <1>1 DEF Meaning
<1> QED BY <1>2, <1>3, IdiomIs

\* The page of the target, relative to that of the instruction.
LEMMA PageHigh ==
  ASSUME idiom \in Idioms, Len(Code) = 2, Code[1].op = "a64_adrp", Formats[Code[2].op].sign = Unsigned,
         Apply(1) = Checked(Within(PageDisp(Referent(1), Site(1)), 20), PageDisp(Referent(1), Site(1)), ADRP),
         Cond => Page(Referent(1)) = Page(idiom.means)
  PROVE  Put(1)
<1> DEFINE f == Formats["a64_adrp"]
           T == Page(Referent(1))
           P == Page(Site(1))
           n == Minus(T, P)
           v == Shifted(n, 12)
           k == 12
           last == 31
           top == 32
<1>1. 1 \in DOMAIN Code /\ DOMAIN Code[1].word = 0 .. last /\ f = Formats[Code[1].op]
  BY PairMeans, WordIs
<1>2. f.base = "page" /\ f.sign = top /\ Encodes(f, ADRP, k, last, k, top)
  BY A64Formats
<1>3. T \in Addr /\ P \in Addr /\ T.lo = 0 /\ P.lo = 0
  BY <1>1, SitesAre, PartsAre
<1>4. n \in Addr /\ Val(n) = Val(T) - Val(P)
  BY <1>3, SumIs
<1>5. k \in Nat /\ k <= 12 /\ top = 20 + k /\ 20 \in Nat
  OBVIOUS
<1>6. v \in Addr /\ Val(v) = Val(n) \div 2^k
  <2> HIDE DEF n, k
  <2>1. Shifted(n, k) \in Addr /\ Val(Shifted(n, k)) = Val(n) \div 2^k
    BY <1>4, <1>5, ShiftedIs
  <2> QED BY <2>1 DEF k
<1>7. Needed(1) = n
  BY <1>1, <1>2 DEF Needed
<1>8. Aligned(n, k)
  <2> DEFINE t == T.pg
             p == P.pg
  <2>1. t \in Int /\ p \in Int /\ n = Num(t - p, 0)
    BY <1>3, AddrShape DEF Minus
  <2> HIDE DEF n, t, p
  <2>2. n.lo = 0
    BY <2>1 DEF Num, PageLen, PageBits
  <2> QED BY <2>2 DEF Aligned
<1>9. Within(v, 20) <=> Within(n, top)
  <2> DEFINE j == 20
  <2>1. j \in Nat /\ top = j + k
    OBVIOUS
  <2> HIDE DEF n, k, j, top
  <2>2. Within(Shifted(n, k), j) <=> Within(n, j + k)
    BY <1>4, <1>5, <2>1, WithinShifted
  <2> QED BY <2>1, <2>2 DEF k, j
<1>10. Apply(1) = Checked(Within(v, 20), v, ADRP)
  BY DEF PageDisp, PageBits
<1>11. Cond => Val(n) = Delta(1)
  <2>1. SUFFICES ASSUME Cond PROVE Val(n) = Delta(1)
    OBVIOUS
  <2> DEFINE m == idiom.means
  <2>2. m \in Addr /\ T = Page(m)
    BY <2>1, IdiomIs
  <2> HIDE DEF m, T, P
  <2>3. Val(T) = Val(m) - (Val(m) % 4096) /\ Val(m) \in Int /\ Val(P) \in Int
    BY <1>3, <2>2, PartsAre, AddrShape
  <2>4. From = P
    BY <1>1, <1>2 DEF From, P
  <2>5. LowPart = Val(m) % 4096
    BY DEF LowPart, m
  <2>6. Delta(1) = Val(m) - Val(P) - (Val(m) % 4096)
    BY <2>4, <2>5 DEF Delta, m
  <2> QED BY <1>4, <2>3, <2>6
<1> HIDE DEF n, v, T, P
<1>12. Encodable(n, f) <=> Within(n, top)
  <2>1. Least(f) = 12
    BY <1>2, LeastIs
  <2> QED BY <1>2, <1>8, <2>1 DEF Encodable, PageBits, Unsigned
<1>13. Apply(1) = IF Encodable(n, f) THEN Set(v, ADRP) ELSE Refused
  BY <1>9, <1>10, <1>12 DEF Checked
<1>14. f.sign /= Unsigned
  BY <1>2 DEF Unsigned
<1> HIDE DEF k, last, top, f
<1>15. Tested(1, f, ADRP, k, last, k, top, n, v)
  BY <1>1, <1>2, <1>4, <1>6, <1>7, <1>11, <1>13, <1>14 DEF Tested
<1> QED BY <1>1, <1>15, Straight

\* The offset in the page, scaled by the access size.
LEMMA ScaledLow ==
  ASSUME idiom \in Idioms, Len(Code) = 2, Code[1].op /= "rv_auipc", NEW f, f = Formats[Code[2].op],
         NEW j \in Nat, j <= 4, f.base = "reg", f.sign = Unsigned, Encodes(f, Imm12, j, 31, j, j + 11),
         DOMAIN Code[2].word = 0 .. 31,
         Apply(2) = Checked(Aligned(idiom.means, j), Shifted(Low12(idiom.means), j), Imm12)
  PROVE  Put(2)
<1> DEFINE m == idiom.means
           n == Low12(m)
           v == Shifted(n, j)
           last == 31
           top == j + 11
<1>1. 2 \in DOMAIN Code /\ m \in Addr
  BY PairMeans, IdiomIs
<1>2. n \in Addr /\ Val(n) = Val(m) % 4096 /\ n.pg = 0 /\ n.lo = m.lo
  BY <1>1, PartsAre DEF Low12
<1>3. Aligned(m, j) <=> Aligned(n, j)
  BY <1>2 DEF Aligned
<1>4. Needed(2) = n
  BY DEF Needed
<1>5. Val(n) = Delta(2)
  BY <1>2 DEF Delta, LowPart
<1> HIDE DEF n, m
<1>6. v \in Addr /\ Val(v) = Val(n) \div 2^j
  BY <1>2, ShiftedIs
<1>7. Encodable(n, f) <=> Aligned(n, j)
  <2>1. Least(f) = j
    BY LeastIs
  <2> QED BY <2>1 DEF Encodable, PageBits
<1>8. Apply(2) = IF Encodable(n, f) THEN Set(v, Imm12) ELSE Refused
  BY <1>3, <1>7 DEF Checked, n, m
<1>9. f.sign = Unsigned => n.pg = 0 /\ 11 <= top
  BY <1>2
<1>10. Encodes(f, Imm12, j, last, j, top) /\ DOMAIN Code[2].word = 0 .. last
  OBVIOUS
<1> HIDE DEF v, last, top
<1>11. Tested(2, f, Imm12, j, last, j, top, n, v)
  <2>1. f = Formats[Code[2].op] /\ Encodes(f, Imm12, j, last, j, top) /\ DOMAIN Code[2].word = 0 .. last
    BY <1>10
  <2>2. n \in Addr /\ Needed(2) = n /\ (f.sign = Unsigned => n.pg = 0 /\ 11 <= top)
    BY <1>2, <1>4, <1>9
  <2>3. v \in Addr /\ Val(v) = Val(n) \div 2^j
    BY <1>6
  <2>4. Apply(2) = IF Encodable(n, f) THEN Set(v, Imm12) ELSE Refused
    BY <1>8
  <2>5. Cond => Val(n) = Delta(2)
    BY <1>5
  <2> QED BY <2>1, <2>2, <2>3, <2>4, <2>5 DEF Tested
<1> QED BY <1>1, <1>11, Straight

LEMMA SetPuts ==
  ASSUME NEW i \in DOMAIN Code, NEW field, NEW k, NEW last, Routed(Formats[Code[i].op], field, k, last),
         DOMAIN Code[i].word = 0 .. last, NEW v, Apply(i) = Set(v, field),
         Cond => RightWord(i, Spliced(Code[i].word, v, field))
  PROVE  Put(i)
<1>1. Set(v, field) /= Refused
  BY DEF Set, Refused
<1> QED BY <1>1 DEF Put

\* A low part whose sign the instruction extends.
LEMMA SignedRight ==
  ASSUME idiom \in Idioms, Len(Code) = 2, NEW f, f = Formats[Code[2].op], f.sign = 11,
         NEW field, Encodes(f, field, 0, 31, 0, 11), DOMAIN Code[2].word = 0 .. 31, NEW v \in Addr,
         NEW y \in Int, Val(v) % 4096 = y % 4096,
         y = IF Code[1].op = "rv_auipc" THEN Val(idiom.means) - Val(Site(1)) ELSE Val(idiom.means)
  PROVE  RightWord(2, Spliced(Code[2].word, v, field))
<1> DEFINE w == Code[2].word
<1>1. LowPart = SignedLow(y)
  BY DEF LowPart, Unsigned
<1>2. DOMAIN w = 0 .. 31
  OBVIOUS
<1> HIDE DEF w
<1>3. Immediate(Spliced(w, v, field), f) \in Addr /\ Val(Immediate(Spliced(w, v, field), f)) = SignedLow(y)
  BY <1>2, SignedLands
<1> QED BY <1>1, <1>3 DEF RightWord, Delta, w

\* What is left of a number without its low part.
LEMMA HighPart ==
  ASSUME NEW y \in Int
  PROVE  /\ y - SignedLow(y) \in Int /\ (y - SignedLow(y)) % 4096 = 0
         /\ (y - SignedLow(y)) \div 4096 = (y + 2048) \div 4096
         /\ y - SignedLow(y) = 4096 * ((y + 2048) \div 4096)
<1> DEFINE z == y + 2048
           r == z % 4096
           q == z \div 4096
           x == y - SignedLow(y)
<1>1. z \in Int /\ r \in 0 .. 4095 /\ q \in Int /\ z = 4096 * q + r
  OBVIOUS
<1>2. x = z - r
  BY SignedLowIs
<1> HIDE DEF z, r, q, x
<1>3. x = 4096 * q
  BY <1>1, <1>2
<1>4. x \in Int /\ x % 4096 = 0 /\ x \div 4096 = q
  BY <1>1, <1>3
<1> QED BY <1>3, <1>4 DEF x, q, z

LEMMA HighRange ==
  ASSUME NEW y \in Int, -(2^31) <= y + 2048, y + 2048 < 2^31
  PROVE  -(2^31) <= y - SignedLow(y) /\ y - SignedLow(y) < 2^31
<1> DEFINE z == y + 2048
           r == z % 4096
           q == z \div 4096
           x == y - SignedLow(y)
           e == 2^31
<1>1. z \in Int /\ r \in Int /\ 0 <= r /\ r <= 4095 /\ q \in Int /\ z = 4096 * q + r
  OBVIOUS
<1>2. x = 4096 * q
  BY HighPart
<1>3. e = 524288 * 4096
  OBVIOUS
<1>4. -e <= z /\ z < e
  OBVIOUS
<1> HIDE DEF z, r, q, x, e
<1>5. -524288 <= q /\ q < 524288
  BY <1>1, <1>3, <1>4
<1>6. -e <= x /\ x < e
  BY <1>1, <1>2, <1>3, <1>5
<1> QED BY <1>6 DEF e, x

LEMMA HighRest ==
  ASSUME NEW y \in Int, NEW t, t = SignedLow(y)
  PROVE  /\ t \in Int /\ y - t \in Int /\ (y + 2048) - ((y + 2048) % 4096) = y - t
         /\ (y - t) \div 4096 = (y + 2048) \div 4096
BY HighPart, SignedLowIs

LEMMA RoundedIs ==
  ASSUME NEW a \in Addr
  PROVE  /\ RoundedUp(a) \in Addr /\ Val(RoundedUp(a)) = Val(a) + 2048
         /\ Hi20(a) \in Addr /\ Val(Hi20(a)) = (Val(a) + 2048) \div 4096
<1> DEFINE h == 2048
           b == Num(0, h)
           k == 12
<1>1. h \in Int
  OBVIOUS
<1> HIDE DEF h
<1>2. b \in Addr /\ Val(b) = h
  BY <1>1, NumIs
<1> HIDE DEF b
<1>3. Plus(a, b) \in Addr /\ Val(Plus(a, b)) = Val(a) + h
  BY <1>2, SumIs
<1>4. RoundedUp(a) = Plus(a, b)
  BY DEF RoundedUp, PageBits, b, h
<1> DEFINE c == RoundedUp(a)
<1>5. c \in Addr /\ Val(c) = Val(a) + h
  BY <1>3, <1>4
<1>6. Hi20(a) = Shifted(c, k) /\ k \in Nat /\ k <= 12 /\ 2^k = 4096
  BY DEF Hi20, PageBits
<1> HIDE DEF c, k
<1>7. Shifted(c, k) \in Addr /\ Val(Shifted(c, k)) = Val(c) \div 2^k
  BY <1>5, <1>6, ShiftedIs
<1> QED BY <1>5, <1>6, <1>7 DEF h, c

\* A high part, which the low part completes.
LEMMA HighRight ==
  ASSUME idiom \in Idioms, Len(Code) = 2, NEW f, f = Formats[Code[1].op], f.sign = 31,
         NEW field, Encodes(f, field, 12, 31, 12, 31), DOMAIN Code[1].word = 0 .. 31, NEW v \in Addr,
         NEW y \in Int, NEW o \in Int, o % 4096 = 0, Val(v) = (y - SignedLow(y) - o) \div 4096,
         -(2^31) <= y - SignedLow(y) - o, y - SignedLow(y) - o < 2^31,
         Val(idiom.means) - Val(From) - LowPart = y - SignedLow(y) - o
  PROVE  RightWord(1, Spliced(Code[1].word, v, field))
<1> DEFINE w == Code[1].word
           t == y - SignedLow(y)
           x == t - o
<1>1. t \in Int /\ t % 4096 = 0
  BY HighPart
<1>2. DOMAIN w = 0 .. 31 /\ Val(v) = x \div 4096 /\ -(2^31) <= x /\ x < 2^31
  OBVIOUS
<1>3. x = Delta(1)
  <2>1. Delta(1) = Val(idiom.means) - Val(From) - LowPart
    BY DEF Delta
  <2> QED BY <2>1
<1> HIDE DEF w, t
<1>4. x \in Int /\ x % 4096 = 0
  BY <1>1
<1> HIDE DEF x
<1>5. Immediate(Spliced(w, v, field), f) \in Addr /\ Val(Immediate(Spliced(w, v, field), f)) = x
  BY <1>2, <1>4, HighLands
<1> QED BY <1>3, <1>5 DEF RightWord, w

LEMMA ShiftedByZero ==
  ASSUME NEW a \in Addr
  PROVE  Shifted(a, 0) = a
<1> DEFINE k == 0
<1>1. k \in Nat /\ k <= 12 /\ 2^k = 1 /\ Val(a) \in Int
  BY AddrShape
<1> HIDE DEF k
<1>2. Shifted(a, k) \in Addr /\ Val(Shifted(a, k)) = Val(a) \div 2^k
  BY <1>1, ShiftedIs
<1>3. Shifted(a, k) = a
  BY <1>1, <1>2, SameVal
<1> QED BY <1>3 DEF k

LEMMA ElfPairs ==
  ASSUME idiom \in Idioms, Len(Code) = 2, idiom.arch = "arm64elf"
  PROVE  Put(1) /\ Put(2)
<1> DEFINE m == idiom.means
<1>1. m = Referent(1) /\ m \in Addr
  BY PairMeans, IdiomIs
<1>2. \E o \in {<<"ADD_ABS_LO12", "a64_add">>, <<"LDST8", "a64_ldrb">>, <<"LDST16", "a64_ldrh">>,
               <<"LDST32", "a64_ldrw">>, <<"LDST64", "a64_ldrx">>, <<"LDST128", "a64_ldrq">>} :
        Pair("arm64elf", "ADR_PREL_PG_HI21", "a64_adrp", o[1], o[2])
  BY PairedIs DEF Pair, Is
<1>3. Code[1].type = "ADR_PREL_PG_HI21" /\ Code[1].op = "a64_adrp"
  BY <1>2 DEF Pair, Is
<1>4. Referent(2) = m
  <2>1. SecondRight(idiom, Code[2])
    BY PairedIs
  <2> QED BY <1>2, <2>1 DEF Pair, Is, SecondRight, Referent
<1>5. Put(1)
  <2>1. Apply(1) = Checked(Within(PageDisp(Referent(1), Site(1)), 20), PageDisp(Referent(1), Site(1)), ADRP)
    BY <1>3 DEF Apply, applyARM64ELF, LdStShift
  <2>2. Formats[Code[2].op].sign = Unsigned
    BY <1>2, A64Formats DEF Pair, Is
  <2> QED BY <1>1, <1>3, <2>1, <2>2, PageHigh
<1>6. Apply(2) = applyARM64ELF(Code[2].type, m, Site(2))
  BY <1>4 DEF Apply
<1>7. DOMAIN Code[2].word = 0 .. 31
  BY <1>2, PairMeans, WordIs DEF Pair, Is
<1>8. ASSUME NEW f, f = Formats[Code[2].op], NEW j \in Nat, j <= 4, f.base = "reg", f.sign = Unsigned,
             Encodes(f, Imm12, j, 31, j, j + 11), Apply(2) = Checked(Aligned(m, j), Shifted(Low12(m), j), Imm12)
      PROVE  Put(2)
  BY <1>3, <1>7, <1>8, ScaledLow
<1>9. CASE Is(2, "arm64elf", "ADD_ABS_LO12", "a64_add")
  <2> DEFINE j == 0
             f == Formats["a64_add"]
  <2>1. Apply(2) = Set(Low12(m), Imm12)
    BY <1>6, <1>9 DEF Is, applyARM64ELF, LdStShift
  <2>2. Aligned(m, 0) /\ Shifted(Low12(m), 0) = Low12(m)
    BY <1>1, ByteAligned, PartsAre, ShiftedByZero
  <2>3. Apply(2) = Checked(Aligned(m, j), Shifted(Low12(m), j), Imm12)
    BY <2>1, <2>2 DEF Checked
  <2>4. f.base = "reg" /\ f.sign = Unsigned /\ Encodes(f, Imm12, j, 31, j, j + 11) /\ j \in Nat /\ j <= 4
    BY A64Formats
  <2>5. f = Formats[Code[2].op]
    BY <1>9 DEF Is
  <2> HIDE DEF f, j, m
  <2> QED BY <1>5, <1>8, <2>3, <2>4, <2>5
<1>10. CASE Is(2, "arm64elf", "LDST8", "a64_ldrb")
  <2> DEFINE j == 0
             f == Formats["a64_ldrb"]
  <2>1. Apply(2) = Checked(Aligned(m, j), Shifted(Low12(m), j), Imm12)
    BY <1>6, <1>10 DEF Is, applyARM64ELF, LdStShift
  <2>2. f.base = "reg" /\ f.sign = Unsigned /\ Encodes(f, Imm12, j, 31, j, j + 11) /\ j \in Nat /\ j <= 4
    BY A64Formats
  <2>3. f = Formats[Code[2].op]
    BY <1>10 DEF Is
  <2> HIDE DEF f, j, m
  <2> QED BY <1>5, <1>8, <2>1, <2>2, <2>3
<1>11. CASE Is(2, "arm64elf", "LDST16", "a64_ldrh")
  <2> DEFINE j == 1
             f == Formats["a64_ldrh"]
  <2>1. Apply(2) = Checked(Aligned(m, j), Shifted(Low12(m), j), Imm12)
    BY <1>6, <1>11 DEF Is, applyARM64ELF, LdStShift
  <2>2. f.base = "reg" /\ f.sign = Unsigned /\ Encodes(f, Imm12, j, 31, j, j + 11) /\ j \in Nat /\ j <= 4
    BY A64Formats
  <2>3. f = Formats[Code[2].op]
    BY <1>11 DEF Is
  <2> HIDE DEF f, j, m
  <2> QED BY <1>5, <1>8, <2>1, <2>2, <2>3
<1>12. CASE Is(2, "arm64elf", "LDST32", "a64_ldrw")
  <2> DEFINE j == 2
             f == Formats["a64_ldrw"]
  <2>1. Apply(2) = Checked(Aligned(m, j), Shifted(Low12(m), j), Imm12)
    BY <1>6, <1>12 DEF Is, applyARM64ELF, LdStShift
  <2>2. f.base = "reg" /\ f.sign = Unsigned /\ Encodes(f, Imm12, j, 31, j, j + 11) /\ j \in Nat /\ j <= 4
    BY A64Formats
  <2>3. f = Formats[Code[2].op]
    BY <1>12 DEF Is
  <2> HIDE DEF f, j, m
  <2> QED BY <1>5, <1>8, <2>1, <2>2, <2>3
<1>13. CASE Is(2, "arm64elf", "LDST64", "a64_ldrx")
  <2> DEFINE j == 3
             f == Formats["a64_ldrx"]
  <2>1. Apply(2) = Checked(Aligned(m, j), Shifted(Low12(m), j), Imm12)
    BY <1>6, <1>13 DEF Is, applyARM64ELF, LdStShift
  <2>2. f.base = "reg" /\ f.sign = Unsigned /\ Encodes(f, Imm12, j, 31, j, j + 11) /\ j \in Nat /\ j <= 4
    BY A64Formats
  <2>3. f = Formats[Code[2].op]
    BY <1>13 DEF Is
  <2> HIDE DEF f, j, m
  <2> QED BY <1>5, <1>8, <2>1, <2>2, <2>3
<1>14. CASE Is(2, "arm64elf", "LDST128", "a64_ldrq")
  <2> DEFINE j == 4
             f == Formats["a64_ldrq"]
  <2>1. Apply(2) = Checked(Aligned(m, j), Shifted(Low12(m), j), Imm12)
    BY <1>6, <1>14 DEF Is, applyARM64ELF, LdStShift
  <2>2. f.base = "reg" /\ f.sign = Unsigned /\ Encodes(f, Imm12, j, 31, j, j + 11) /\ j \in Nat /\ j <= 4
    BY A64Formats
  <2>3. f = Formats[Code[2].op]
    BY <1>14 DEF Is
  <2> HIDE DEF f, j, m
  <2> QED BY <1>5, <1>8, <2>1, <2>2, <2>3
<1> QED BY <1>2, <1>5, <1>9, <1>10, <1>11, <1>12, <1>13, <1>14 DEF Pair

LEMMA CoffPairsPut ==
  ASSUME idiom \in Idioms, Len(Code) = 2, idiom.arch = "arm64", words[2] = Code[2].word
  PROVE  Put(1) /\ Put(2)
<1> DEFINE m == idiom.means
           w == Code[2].word
           S == Code[2].sym
           a == FieldOf(w, 21, 10)
           size == IF Code[2].type = "PAGEOFFSET_12L" THEN FieldOf(w, 31, 30) ELSE 0
           s == Plus(S, Num(0, a * 2^size))
           value == Low12(s)
<1>1. 1 \in DOMAIN Code /\ 2 \in DOMAIN Code /\ m \in Addr
      /\ m = Plus(S, Num(0, a * 2^Least(Formats[Code[2].op])))
  BY PairMeans, IdiomIs
<1>2. \E o \in {<<"PAGEOFFSET_12A", "a64_add">>, <<"PAGEOFFSET_12L", "a64_ldrb">>,
               <<"PAGEOFFSET_12L", "a64_ldrh">>, <<"PAGEOFFSET_12L", "a64_ldrw">>,
               <<"PAGEOFFSET_12L", "a64_ldrx">>, <<"PAGEOFFSET_12L", "a64_ldrq">>} :
        Pair("arm64", "PAGEBASE_REL21", "a64_adrp", o[1], o[2])
  BY PairedIs DEF Pair, Is
<1>3. Code[1].type = "PAGEBASE_REL21" /\ Code[1].op = "a64_adrp"
  BY <1>2 DEF Pair, Is
<1>4. SecondRight(idiom, Code[2])
  BY PairedIs
<1>5. Put(1)
  <2>1. Referent(1) = Code[1].sym
    BY <1>1, WordIs
  <2>2. Apply(1) = Checked(Within(PageDisp(Referent(1), Site(1)), 20), PageDisp(Referent(1), Site(1)), ADRP)
    BY <1>3, <2>1 DEF Apply, applyARM64
  <2>3. Formats[Code[2].op].sign = Unsigned
    BY <1>2, A64Formats DEF Pair, Is
  <2>4. Cond => Page(Referent(1)) = Page(idiom.means)
    <3>1. Code /= << >>
      <4>1. Len(<< >>) /= 2
        OBVIOUS
      <4> QED BY <4>1, Zenon
    <3> QED BY <1>3, <2>1, <3>1 DEF Cond, AddendInPage, Opens
  <2> QED BY <1>3, <2>2, <2>3, <2>4, PageHigh
<1>6. DOMAIN w = 0 .. 31 /\ \A b \in 0 .. 31 : w[b] \in {0, 1}
  BY <1>1, <1>2, WordIs DEF Pair, Is
<1>7. a \in Nat
  <2> DEFINE top == 21
             low == 10
  <2>1. top \in Nat /\ low \in Nat /\ low <= top /\ \A b \in low .. top : w[b] \in {0, 1}
    BY <1>6
  <2> HIDE DEF top, low, w
  <2>2. FieldOf(w, top, low) \in Nat
    BY <2>1, FieldTyped
  <2> QED BY <2>2 DEF top, low
<1>8. Apply(2) = Checked(Aligned(value, size), Shifted(value, size), Imm12)
  <2>1. Apply(2) = applyARM64(Code[2].type, S, Site(2), w)
    BY DEF Apply
  <2>2. Code[2].type \in {"PAGEOFFSET_12A", "PAGEOFFSET_12L"}
    BY <1>2 DEF Pair, Is
  <2> HIDE DEF w
  <2> QED BY <2>1, <2>2 DEF applyARM64
<1>9. ASSUME NEW j \in Nat, j <= 4, size = j, Least(Formats[Code[2].op]) = j, NEW f, f = Formats[Code[2].op],
             f.base = "reg", f.sign = Unsigned, Encodes(f, Imm12, j, 31, j, j + 11)
      PROVE  Put(2)
  <2>1. s = m
    BY <1>1, <1>9
  <2>2. Apply(2) = Checked(Aligned(Low12(m), j), Shifted(Low12(m), j), Imm12)
    BY <1>8, <1>9, <2>1
  <2>3. Aligned(Low12(m), j) <=> Aligned(m, j)
    <3>0. m \in Addr
      BY <1>1
    <3> HIDE DEF m
    <3>1. Low12(m).lo = m.lo
      BY <3>0, PartsAre
    <3> QED BY <3>1 DEF Aligned
  <2>4. Apply(2) = Checked(Aligned(m, j), Shifted(Low12(m), j), Imm12)
    BY <2>2, <2>3 DEF Checked
  <2> HIDE DEF m
  <2> QED BY <1>3, <1>6, <1>9, <2>4, ScaledLow DEF m
<1>10. CASE Is(2, "arm64", "PAGEOFFSET_12A", "a64_add")
  <2> DEFINE j == 0
             f == Formats["a64_add"]
  <2>1. f.base = "reg" /\ f.sign = Unsigned /\ Encodes(f, Imm12, j, 31, j, j + 11) /\ j \in Nat /\ j <= 4
    BY A64Formats
  <2>2. f = Formats[Code[2].op]
    BY <1>10 DEF Is
  <2>3. Least(Formats[Code[2].op]) = j
    <3> HIDE DEF f, j
    <3> QED BY <2>1, <2>2, LeastIs
  <2>4. size = j
    BY <1>10 DEF Is
  <2> HIDE DEF f, j, size
  <2> QED BY <1>5, <1>9, <2>1, <2>2, <2>3, <2>4
<1>11. CASE Is(2, "arm64", "PAGEOFFSET_12L", "a64_ldrb")
  <2> DEFINE j == 0
             f == Formats["a64_ldrb"]
  <2>1. f.base = "reg" /\ f.sign = Unsigned /\ Encodes(f, Imm12, j, 31, j, j + 11) /\ j \in Nat /\ j <= 4
    BY A64Formats
  <2>2. f = Formats[Code[2].op]
    BY <1>11 DEF Is
  <2>3. Least(Formats[Code[2].op]) = j
    <3> HIDE DEF f, j
    <3> QED BY <2>1, <2>2, LeastIs
  <2>4. size = j
    BY <1>4, <1>11, <2>3 DEF Is, SecondRight
  <2> HIDE DEF f, j, size
  <2> QED BY <1>5, <1>9, <2>1, <2>2, <2>3, <2>4
<1>12. CASE Is(2, "arm64", "PAGEOFFSET_12L", "a64_ldrh")
  <2> DEFINE j == 1
             f == Formats["a64_ldrh"]
  <2>1. f.base = "reg" /\ f.sign = Unsigned /\ Encodes(f, Imm12, j, 31, j, j + 11) /\ j \in Nat /\ j <= 4
    BY A64Formats
  <2>2. f = Formats[Code[2].op]
    BY <1>12 DEF Is
  <2>3. Least(Formats[Code[2].op]) = j
    <3> HIDE DEF f, j
    <3> QED BY <2>1, <2>2, LeastIs
  <2>4. size = j
    BY <1>4, <1>12, <2>3 DEF Is, SecondRight
  <2> HIDE DEF f, j, size
  <2> QED BY <1>5, <1>9, <2>1, <2>2, <2>3, <2>4
<1>13. CASE Is(2, "arm64", "PAGEOFFSET_12L", "a64_ldrw")
  <2> DEFINE j == 2
             f == Formats["a64_ldrw"]
  <2>1. f.base = "reg" /\ f.sign = Unsigned /\ Encodes(f, Imm12, j, 31, j, j + 11) /\ j \in Nat /\ j <= 4
    BY A64Formats
  <2>2. f = Formats[Code[2].op]
    BY <1>13 DEF Is
  <2>3. Least(Formats[Code[2].op]) = j
    <3> HIDE DEF f, j
    <3> QED BY <2>1, <2>2, LeastIs
  <2>4. size = j
    BY <1>4, <1>13, <2>3 DEF Is, SecondRight
  <2> HIDE DEF f, j, size
  <2> QED BY <1>5, <1>9, <2>1, <2>2, <2>3, <2>4
<1>14. CASE Is(2, "arm64", "PAGEOFFSET_12L", "a64_ldrx")
  <2> DEFINE j == 3
             f == Formats["a64_ldrx"]
  <2>1. f.base = "reg" /\ f.sign = Unsigned /\ Encodes(f, Imm12, j, 31, j, j + 11) /\ j \in Nat /\ j <= 4
    BY A64Formats
  <2>2. f = Formats[Code[2].op]
    BY <1>14 DEF Is
  <2>3. Least(Formats[Code[2].op]) = j
    <3> HIDE DEF f, j
    <3> QED BY <2>1, <2>2, LeastIs
  <2>4. size = j
    BY <1>4, <1>14, <2>3 DEF Is, SecondRight
  <2> HIDE DEF f, j, size
  <2> QED BY <1>5, <1>9, <2>1, <2>2, <2>3, <2>4
\* The 16-byte loads, which the code takes for loads of one byte.
<1>15. CASE Is(2, "arm64", "PAGEOFFSET_12L", "a64_ldrq")
  <2> DEFINE f == Formats["a64_ldrq"]
             v == Shifted(value, 0)
             k == 4
             last == 31
  <2>1. size = 0
    BY <1>4, <1>15 DEF Is, SecondRight
  <2>2. value \in Addr
    <3> DEFINE o == a * 2^size
    <3>1. o \in Int
      BY <1>7, <2>1
    <3>2. S \in Addr
      BY <1>1, SitesAre
    <3> HIDE DEF o, S
    <3>3. Plus(S, Num(0, o)) \in Addr
      BY <3>1, <3>2, NumIs, SumIs
    <3>4. Low12(Plus(S, Num(0, o))) \in Addr
      BY <3>3, PartsAre
    <3> QED BY <3>4 DEF o, S
  <2> HIDE DEF value, size
  <2>3. v \in Addr /\ Aligned(value, 0)
    BY <2>2, ShiftedByZero, ByteAligned
  <2>4. Apply(2) = Set(v, Imm12)
    BY <1>8, <2>1, <2>3 DEF Checked
  <2>5. ~Cond
    BY <1>15 DEF Cond, SizeInBits, Closes, Is
  <2>6. Routed(f, Imm12, k, last) /\ DOMAIN Code[2].word = 0 .. last
    BY <1>6, A64Formats DEF Encodes
  <2>7. f = Formats[Code[2].op]
    BY <1>15 DEF Is
  <2> HIDE DEF f, v, k, last
  <2>8. Put(2)
    BY <1>1, <2>3, <2>4, <2>5, <2>6, <2>7, SetPuts
  <2> QED BY <1>5, <2>8
<1> QED BY <1>2, <1>5, <1>10, <1>11, <1>12, <1>13, <1>14, <1>15 DEF Pair

\* auipc takes the high part of the distance from its own address.
LEMMA PcrelHigh ==
  ASSUME idiom \in Idioms, Len(Code) = 2, idiom.arch = "riscv64", Code[1].op = "rv_auipc",
         Opens("PCREL_HI20") \/ Opens("CALL"), Code[2].op \in {"rv_addi", "rv_store"}, Cond
  PROVE  RightWord(1, Spliced(Code[1].word, Hi20(Minus(Referent(1), Site(1))), PatchU))
<1> DEFINE f == Formats["rv_auipc"]
           T == Referent(1)
           P == Site(1)
           d == Minus(T, P)
           y == Val(d)
           v == Hi20(d)
           o == 0
<1>1. 1 \in DOMAIN Code /\ T \in Addr /\ P \in Addr /\ idiom.means = T
  BY PairMeans, SitesAre
<1>2. d \in Addr /\ y = Val(T) - Val(P) /\ Val(T) \in Int /\ Val(P) \in Int /\ y \in Int
  BY <1>1, SumIs, AddrShape
<1>3. DOMAIN Code[1].word = 0 .. 31 /\ f = Formats[Code[1].op]
  BY <1>1, WordIs
<1>4. f.base = "pc" /\ f.sign = 31 /\ Encodes(f, PatchU, 12, 31, 12, 31)
  BY RiscvFormats
<1>5. Within(RoundedUp(d), 31)
  BY DEF Cond, InReach
<1>6. LowPart = SignedLow(y)
  <2>1. Formats[Code[2].op].sign = 11
    BY RiscvFormats
  <2> QED BY <1>1, <1>2, <2>1 DEF LowPart, Unsigned
<1>7. From = P
  BY <1>3, <1>4 DEF From
<1> HIDE DEF d, y, T, P, f
<1>8. v \in Addr /\ Val(v) = (y + 2048) \div 4096 /\ RoundedUp(d) \in Addr /\ Val(RoundedUp(d)) = y + 2048
  BY <1>2, RoundedIs DEF y
<1>9. -(2^31) <= y + 2048 /\ y + 2048 < 2^31
  <2> DEFINE k == 31
  <2>1. k \in Nat /\ Within(RoundedUp(d), k)
    BY <1>5
  <2> HIDE DEF k
  <2>2. -(2^k) <= y + 2048 /\ y + 2048 < 2^k
    BY <1>8, <2>1, WithinIs
  <2> QED BY <2>2 DEF k
<1> HIDE DEF v
<1> DEFINE t == SignedLow(y)
<1>10. /\ y - t \in Int /\ (y - t) \div 4096 = (y + 2048) \div 4096
       /\ -(2^31) <= y - t /\ y - t < 2^31 /\ t \in Int
  <2>1. t \in Int
    BY <1>2, SignedLowIs
  <2>2. y - t \in Int /\ (y - t) \div 4096 = (y + 2048) \div 4096
    BY <1>2, HighPart
  <2>3. -(2^31) <= y - t /\ y - t < 2^31
    BY <1>2, <1>9, HighRange
  <2> QED BY <2>1, <2>2, <2>3
<1>11. /\ Val(v) = (y - t - o) \div 4096 /\ -(2^31) <= y - t - o /\ y - t - o < 2^31
       /\ o \in Int /\ o % 4096 = 0
  <2> HIDE DEF t
  <2>1. y - t - o = y - t
    BY <1>2, <1>10
  <2> QED BY <1>8, <1>10, <2>1
<1>12. Val(idiom.means) - Val(From) - LowPart = y - t - o
  <2> HIDE DEF t
  <2>1. LowPart = t
    BY <1>6 DEF t
  <2> QED BY <1>1, <1>2, <1>7, <1>10, <2>1
<1> HIDE DEF o
<1>13. RightWord(1, Spliced(Code[1].word, v, PatchU))
  BY <1>2, <1>3, <1>4, <1>8, <1>11, <1>12, HighRight DEF f
<1> QED BY <1>13 DEF v, d, T, P

\* lui and lu12i.w take the high part of the address.
LEMMA AbsHigh ==
  ASSUME idiom \in Idioms, Len(Code) = 2, idiom.arch \in {"riscv64", "loongarch64"},
         NEW f, f = Formats[Code[1].op], f.base = "zero", f.sign = 31,
         NEW field, Encodes(f, field, 12, 31, 12, 31), DOMAIN Code[1].word = 0 .. 31,
         Code[1].op /= "rv_auipc", Opens("HI20") \/ Opens("ABS_HI20"), Cond,
         Formats[Code[2].op].sign = Unsigned => Opens("ABS_HI20") /\ Closes("la_ori")
  PROVE  RightWord(1, Spliced(Code[1].word, Hi20(Referent(1)), field))
<1> DEFINE T == Referent(1)
           y == Val(T)
           v == Hi20(T)
           o == 0
<1>1. 1 \in DOMAIN Code /\ T \in Addr /\ idiom.means = T /\ y \in Int
  BY PairMeans, SitesAre, AddrShape
<1>2. Within(RoundedUp(T), 31)
  BY DEF Cond, InReach
<1>3. LowPart = SignedLow(y)
  <2>1. CASE Formats[Code[2].op].sign = Unsigned
    <3> HIDE DEF T
    <3>1. T.lo < PageLen \div 2
      BY <2>1 DEF Cond, CarryTaken, T
    <3>2. y % 4096 < 2048
      <4>1. T.lo = y % 4096
        BY <1>1, LimbsAre
      <4> QED BY <3>1, <4>1 DEF PageLen, PageBits
    <3>3. LowPart = y % 4096
      BY <1>1, <2>1 DEF LowPart
    <3> QED BY <3>2, <3>3 DEF SignedLow
  <2>2. CASE Formats[Code[2].op].sign /= Unsigned
    BY <1>1, <2>2 DEF LowPart
  <2> QED BY <2>1, <2>2
<1>4. Val(From) = 0
  <2>1. From = Num(0, 0)
    BY DEF From
  <2>2. Num(0, 0) = [pg |-> 0, lo |-> 0]
    BY DEF Num, PageLen, PageBits
  <2> QED BY <2>1, <2>2 DEF Val
<1> HIDE DEF y, T
<1>5. v \in Addr /\ Val(v) = (y + 2048) \div 4096 /\ RoundedUp(T) \in Addr /\ Val(RoundedUp(T)) = y + 2048
  BY <1>1, RoundedIs DEF y
<1>6. -(2^31) <= y + 2048 /\ y + 2048 < 2^31
  <2> DEFINE k == 31
  <2>1. k \in Nat /\ Within(RoundedUp(T), k)
    BY <1>2
  <2> HIDE DEF k
  <2>2. -(2^k) <= y + 2048 /\ y + 2048 < 2^k
    BY <1>5, <2>1, WithinIs
  <2> QED BY <2>2 DEF k
<1> HIDE DEF v
<1> DEFINE t == SignedLow(y)
<1>7. /\ y - t \in Int /\ (y - t) \div 4096 = (y + 2048) \div 4096
      /\ -(2^31) <= y - t /\ y - t < 2^31 /\ t \in Int
  <2>0. y \in Int
    BY <1>1
  <2>1. t \in Int
    BY <2>0, SignedLowIs
  <2>2. y - t \in Int /\ (y - t) \div 4096 = (y + 2048) \div 4096
    <3>1. t = SignedLow(y)
      OBVIOUS
    <3> HIDE DEF t
    <3> QED BY <2>0, <3>1, HighRest
  <2>3. -(2^31) <= y - t /\ y - t < 2^31
    BY <1>6, <2>0, HighRange
  <2> QED BY <2>1, <2>2, <2>3
<1>8. /\ Val(v) = (y - t - o) \div 4096 /\ -(2^31) <= y - t - o /\ y - t - o < 2^31
      /\ o \in Int /\ o % 4096 = 0
  <2> HIDE DEF t
  <2>1. y - t - o = y - t
    BY <1>1, <1>7
  <2> QED BY <1>5, <1>7, <2>1
<1>9. Val(idiom.means) - Val(From) - LowPart = y - t - o
  <2> HIDE DEF t
  <2>1. LowPart = t /\ Val(idiom.means) = y
    BY <1>1, <1>3 DEF t, y
  <2> QED BY <1>1, <1>4, <1>7, <2>1
<1> HIDE DEF o
<1>10. RightWord(1, Spliced(Code[1].word, v, field))
  BY <1>1, <1>5, <1>8, <1>9, HighRight
<1> QED BY <1>10 DEF v, T

\* pcalau12i takes the distance of two pages.
LEMMA PcalaHigh ==
  ASSUME idiom \in Idioms, Len(Code) = 2, idiom.arch = "loongarch64", Code[1].op = "la_pcala",
         Opens("PCALA_HI20"), Code[2].op = "la_addi", Cond
  PROVE  /\ PageDisp(RoundedUp(Referent(1)), Site(1)) \in Addr
         /\ RightWord(1, Spliced(Code[1].word, PageDisp(RoundedUp(Referent(1)), Site(1)), LoongImm20))
<1> DEFINE f == Formats["la_pcala"]
           T == Referent(1)
           y == Val(T)
           R == Page(RoundedUp(T))
           P == Page(Site(1))
           o == Val(P)
           d == Minus(R, P)
           k == 12
           v == Shifted(d, k)
<1>1. 1 \in DOMAIN Code /\ T \in Addr /\ idiom.means = T /\ y \in Int /\ Site(1) \in Addr
  BY PairMeans, SitesAre, AddrShape
<1>2. DOMAIN Code[1].word = 0 .. 31 /\ f = Formats[Code[1].op]
  BY <1>1, WordIs
<1>3. f.base = "page" /\ f.sign = 31 /\ Encodes(f, LoongImm20, 12, 31, 12, 31)
  BY LoongFormats
<1>4. Within(d, 31)
  BY DEF Cond, InReach
<1>5. LowPart = SignedLow(y)
  <2>1. Formats[Code[2].op].sign = 11
    BY LoongFormats
  <2> QED BY <1>1, <2>1 DEF LowPart, Unsigned
<1>6. From = P
  BY <1>2, <1>3 DEF From
<1>7. PageDisp(RoundedUp(T), Site(1)) = v
  BY DEF PageDisp, PageBits
<1>8. P \in Addr /\ o \in Int /\ o % 4096 = 0
  <2> DEFINE s == Site(1)
  <2>1. s \in Addr
    BY <1>1
  <2> HIDE DEF s
  <2>2. Page(s) \in Addr /\ Page(s).lo = 0
    BY <2>1, PartsAre
  <2>3. Val(Page(s)) \in Int /\ Val(Page(s)) % 4096 = 0
    BY <2>2, LimbsAre, AddrShape
  <2> QED BY <2>2, <2>3 DEF s
<1> HIDE DEF T
<1> DEFINE t == SignedLow(y)
<1>9. R \in Addr /\ Val(R) = y - t /\ t \in Int
  <2> DEFINE a == RoundedUp(T)
  <2>1. a \in Addr /\ Val(a) = y + 2048
    BY <1>1, RoundedIs
  <2> HIDE DEF a, y
  <2>2. Page(a) \in Addr /\ Val(Page(a)) = Val(a) - (Val(a) % 4096)
    BY <2>1, PartsAre
  <2>3. (y + 2048) - ((y + 2048) % 4096) = y - t /\ t \in Int
    <3>1. y \in Int /\ t = SignedLow(y)
      BY <1>1
    <3> HIDE DEF t
    <3> QED BY <3>1, HighRest
  <2> QED BY <2>1, <2>2, <2>3 DEF a
<1> HIDE DEF R, P
<1>10. d \in Addr /\ Val(d) = y - t - o
  BY <1>8, <1>9, SumIs
<1> HIDE DEF d, t, o, y
<1>11. v \in Addr /\ Val(v) = (y - t - o) \div 4096
  <2>1. k \in Nat /\ k <= 12 /\ 2^k = 4096
    OBVIOUS
  <2> HIDE DEF k
  <2>2. v \in Addr /\ Val(v) = Val(d) \div 2^k
    BY <1>10, <2>1, ShiftedIs
  <2> QED BY <1>10, <2>1, <2>2
<1>12. -(2^31) <= y - t - o /\ y - t - o < 2^31
  <2> DEFINE j == 31
  <2>1. j \in Nat /\ Within(d, j)
    BY <1>4
  <2> HIDE DEF j
  <2>2. -(2^j) <= y - t - o /\ y - t - o < 2^j
    BY <1>10, <2>1, WithinIs
  <2> QED BY <2>2 DEF j
<1>13. Val(idiom.means) - Val(From) - LowPart = y - t - o
  <2>1. LowPart = t /\ Val(idiom.means) = y /\ Val(From) = o
    BY <1>1, <1>5, <1>6 DEF t, y, o
  <2> QED BY <1>1, <1>8, <1>9, <2>1
<1> HIDE DEF v, f
<1>14. RightWord(1, Spliced(Code[1].word, v, LoongImm20))
  BY <1>1, <1>2, <1>3, <1>8, <1>11, <1>12, <1>13, HighRight DEF t
<1> QED BY <1>7, <1>11, <1>14 DEF T

LEMMA UnsignedRight ==
  ASSUME idiom \in Idioms, Len(Code) = 2, NEW f, f = Formats[Code[2].op], f.sign = Unsigned,
         NEW field, Encodes(f, field, 0, 31, 0, 11), DOMAIN Code[2].word = 0 .. 31, NEW v \in Addr,
         NEW y \in Int, Val(v) % 4096 = y % 4096, Code[1].op /= "rv_auipc", y = Val(idiom.means)
  PROVE  RightWord(2, Spliced(Code[2].word, v, field))
<1> DEFINE w == Code[2].word
<1>1. LowPart = y % 4096
  BY DEF LowPart
<1>2. DOMAIN w = 0 .. 31
  OBVIOUS
<1> HIDE DEF w
<1>3. Immediate(Spliced(w, v, field), f) \in Addr /\ Val(Immediate(Spliced(w, v, field), f)) = y % 4096
  BY <1>2, UnsignedLands
<1> QED BY <1>1, <1>3 DEF RightWord, Delta, w

LEMMA LowIs ==
  ASSUME NEW a \in Addr
  PROVE  Low12(a) \in Addr /\ Val(Low12(a)) % 4096 = Val(a) % 4096 /\ Val(a) \in Int
<1>1. Low12(a) \in Addr /\ Val(Low12(a)) = Val(a) % 4096 /\ Val(a) \in Int
  BY PartsAre, AddrShape
<1>2. (Val(a) % 4096) % 4096 = Val(a) % 4096
  <2> DEFINE y == Val(a)
  <2> HIDE DEF y
  <2>1. y \in Int
    BY <1>1 DEF y
  <2> QED BY <2>1 DEF y
<1> QED BY <1>1, <1>2

LEMMA LoongPairsPut ==
  ASSUME idiom \in Idioms, Len(Code) = 2, idiom.arch = "loongarch64"
  PROVE  Put(1) /\ Put(2)
<1> DEFINE m == idiom.means
           f == Formats[Code[1].op]
           g == Formats[Code[2].op]
           v == Low12(m)
           y == Val(m)
<1>1. 1 \in DOMAIN Code /\ 2 \in DOMAIN Code /\ m = Referent(1) /\ m \in Addr
  BY PairMeans, IdiomIs
<1>2. \/ Pair("loongarch64", "PCALA_HI20", "la_pcala", "PCALA_LO12", "la_addi")
      \/ Pair("loongarch64", "ABS_HI20", "la_lu12i", "ABS_LO12", "la_addi")
      \/ Pair("loongarch64", "ABS_HI20", "la_lu12i", "ABS_LO12", "la_ori")
  BY PairedIs DEF Pair, Is
<1>3. DOMAIN Code[1].word = 0 .. 31 /\ DOMAIN Code[2].word = 0 .. 31
  BY <1>1, <1>2, WordIs DEF Pair, Is
<1>4. f.sign = 31 /\ Encodes(f, LoongImm20, 12, 31, 12, 31) /\ Encodes(g, LoongImm12, 0, 31, 0, 11)
  BY <1>2, LoongFormats DEF Pair, Is
<1>5. Code /= << >>
  <2>1. Len(<< >>) /= 2
    OBVIOUS
  <2> QED BY <2>1, Zenon
<1>6. v \in Addr /\ Val(v) % 4096 = y % 4096 /\ y \in Int
  <2> HIDE DEF m
  <2> QED BY <1>1, LowIs
<1>7. Referent(2) = m
  <2>1. SecondRight(idiom, Code[2])
    BY PairedIs
  <2> QED BY <1>2, <2>1 DEF Pair, Is, SecondRight, Referent
<1>8. Apply(2) = Set(v, LoongImm12)
  <2>1. Apply(2) = applyLoongArch64(Code[2].type, m, Site(2))
    BY <1>7 DEF Apply
  <2> QED BY <1>2, <2>1 DEF Pair, Is, applyLoongArch64, LoongAbs, LoongPcala
<1>9. Put(2)
  <2>1. ASSUME Cond PROVE RightWord(2, Spliced(Code[2].word, v, LoongImm12))
    <3>1. Code[1].op /= "rv_auipc" /\ y = Val(idiom.means)
      BY <1>2 DEF Pair, Is
    <3>2. CASE Code[2].op = "la_addi"
      <4>1. g.sign = 11
        BY <3>2, LoongFormats
      <4> HIDE DEF g, v, y
      <4> QED BY <1>3, <1>4, <1>6, <3>1, <4>1, SignedRight DEF g
    <3>3. CASE Code[2].op = "la_ori"
      <4>1. g.sign = Unsigned
        BY <3>3, LoongFormats
      <4> HIDE DEF g, v, y
      <4> QED BY <1>3, <1>4, <1>6, <3>1, <4>1, UnsignedRight DEF g
    <3> QED BY <1>2, <3>2, <3>3 DEF Pair, Is
  <2> DEFINE k == 0
             last == 31
  <2>2. Routed(g, LoongImm12, k, last) /\ DOMAIN Code[2].word = 0 .. last
    BY <1>3, <1>4 DEF Encodes
  <2> HIDE DEF k, last, v
  <2> QED BY <1>1, <1>8, <2>1, <2>2, SetPuts
<1>10. ASSUME NEW u, Apply(1) = Set(u, LoongImm20), Cond => RightWord(1, Spliced(Code[1].word, u, LoongImm20))
       PROVE  Put(1)
  <2> DEFINE k == 12
             last == 31
  <2>1. Routed(f, LoongImm20, k, last) /\ DOMAIN Code[1].word = 0 .. last
    BY <1>3, <1>4 DEF Encodes
  <2> HIDE DEF k, last
  <2> QED BY <1>1, <1>10, <2>1, SetPuts
<1>11. Apply(1) = applyLoongArch64(Code[1].type, Referent(1), Site(1))
  BY DEF Apply
<1>12. CASE Code[1].op = "la_pcala"
  <2>1. Code[1].type = "PCALA_HI20" /\ Code[2].op = "la_addi"
    BY <1>2, <1>12 DEF Pair, Is
  <2>2. Apply(1) = Set(PageDisp(RoundedUp(Referent(1)), Site(1)), LoongImm20)
    BY <1>11, <2>1 DEF applyLoongArch64, LoongAbs, LoongPcala
  <2>3. Opens("PCALA_HI20")
    BY <1>5, <2>1 DEF Opens
  <2>4. Cond => RightWord(1, Spliced(Code[1].word, PageDisp(RoundedUp(Referent(1)), Site(1)), LoongImm20))
    BY <1>12, <2>1, <2>3, PcalaHigh
  <2> QED BY <1>9, <1>10, <2>2, <2>4
<1>13. CASE Code[1].op = "la_lu12i"
  <2>1. Code[1].type = "ABS_HI20" /\ Code[2].op \in {"la_addi", "la_ori"}
    BY <1>2, <1>13 DEF Pair, Is
  <2>2. Apply(1) = Set(Hi20(Referent(1)), LoongImm20)
    BY <1>11, <2>1 DEF applyLoongArch64, LoongAbs, LoongPcala
  <2>3. Opens("ABS_HI20") /\ Code[1].op /= "rv_auipc"
    BY <1>5, <1>13, <2>1 DEF Opens
  <2>4. f.base = "zero"
    BY <1>13, LoongFormats
  <2>5. g.sign = Unsigned => Closes("la_ori")
    BY <2>1, LoongFormats DEF Closes, Unsigned
  <2> HIDE DEF f
  <2>6. Cond => RightWord(1, Spliced(Code[1].word, Hi20(Referent(1)), LoongImm20))
    BY <1>3, <1>4, <2>3, <2>4, <2>5, AbsHigh DEF f
  <2> QED BY <1>9, <1>10, <2>2, <2>6
<1> QED BY <1>2, <1>12, <1>13 DEF Pair, Is

\* The low part of a distance from the instruction that has its high part.
LEMMA PcrelLow ==
  ASSUME idiom \in Idioms, Len(Code) = 2, idiom.arch = "riscv64", Code[1].op = "rv_auipc",
         NEW f, f = Formats[Code[2].op], f.sign = 11, NEW field, Encodes(f, field, 0, 31, 0, 11),
         DOMAIN Code[2].word = 0 .. 31
  PROVE  RightWord(2, Spliced(Code[2].word, Low12(Minus(Referent(1), Site(1))), field))
<1> DEFINE T == Referent(1)
           P == Site(1)
           d == Minus(T, P)
           v == Low12(d)
           y == Val(d)
<1>1. T \in Addr /\ P \in Addr /\ idiom.means = T
  BY PairMeans, SitesAre
<1>2. d \in Addr /\ y = Val(idiom.means) - Val(P)
  BY <1>1, SumIs
<1> HIDE DEF d
<1>3. v \in Addr /\ Val(v) % 4096 = y % 4096 /\ y \in Int
  BY <1>2, LowIs
<1> HIDE DEF v, y
<1>4. y = IF Code[1].op = "rv_auipc" THEN Val(idiom.means) - Val(Site(1)) ELSE Val(idiom.means)
  BY <1>2
<1>5. RightWord(2, Spliced(Code[2].word, v, field))
  BY <1>3, <1>4, SignedRight
<1> QED BY <1>5 DEF v, d

LEMMA RiscvPairsPut ==
  ASSUME idiom \in Idioms, Len(Code) = 2, idiom.arch = "riscv64", Code[1].type /= "CALL"
  PROVE  Put(1) /\ Put(2)
<1> DEFINE m == idiom.means
           f == Formats[Code[1].op]
           g == Formats[Code[2].op]
<1>1. 1 \in DOMAIN Code /\ 2 \in DOMAIN Code /\ m = Referent(1) /\ m \in Addr
  BY PairMeans, IdiomIs
<1>2. \/ Pair("riscv64", "PCREL_HI20", "rv_auipc", "PCREL_LO12_I", "rv_addi")
      \/ Pair("riscv64", "PCREL_HI20", "rv_auipc", "PCREL_LO12_S", "rv_store")
      \/ Pair("riscv64", "HI20", "rv_lui", "LO12_I", "rv_addi")
      \/ Pair("riscv64", "HI20", "rv_lui", "LO12_S", "rv_store")
  BY PairedIs DEF Pair, Is
<1>3. DOMAIN Code[1].word = 0 .. 31 /\ DOMAIN Code[2].word = 0 .. 31
  BY <1>1, <1>2, WordIs DEF Pair, Is
<1>4. f.sign = 31 /\ Encodes(f, PatchU, 12, 31, 12, 31)
  BY <1>2, RiscvFormats DEF Pair, Is
<1>5. Code /= << >>
  <2>1. Len(<< >>) /= 2
    OBVIOUS
  <2> QED BY <2>1, Zenon
<1>6. SecondRight(idiom, Code[2])
  BY PairedIs
<1>7. Apply(1) = applyRISCV64(Code[1].type, Referent(1), Site(1), Code[1].sym, pcrelLookup(Code[1].sym))
  BY DEF Apply
<1>8. Apply(2) = applyRISCV64(Code[2].type, Referent(2), Site(2), Code[2].sym, pcrelLookup(Code[2].sym))
  BY DEF Apply
<1>9. ASSUME NEW u, Apply(1) = Set(u, PatchU), Cond => RightWord(1, Spliced(Code[1].word, u, PatchU))
      PROVE  Put(1)
  <2> DEFINE k == 12
             last == 31
  <2>1. Routed(f, PatchU, k, last) /\ DOMAIN Code[1].word = 0 .. last
    BY <1>3, <1>4 DEF Encodes
  <2> HIDE DEF k, last
  <2> QED BY <1>1, <1>9, <2>1, SetPuts
<1>10. ASSUME NEW u, NEW field, Apply(2) = Set(u, field), Encodes(g, field, 0, 31, 0, 11),
              Cond => RightWord(2, Spliced(Code[2].word, u, field))
       PROVE  Put(2)
  <2> DEFINE k == 0
             last == 31
  <2>1. Routed(g, field, k, last) /\ DOMAIN Code[2].word = 0 .. last
    BY <1>3, <1>10 DEF Encodes
  <2> HIDE DEF k, last
  <2> QED BY <1>1, <1>10, <2>1, SetPuts
<1>11. PICK field : /\ Encodes(g, field, 0, 31, 0, 11) /\ g.sign = 11
                    /\ \/ field = PatchI /\ Code[2].type \in {"PCREL_LO12_I", "LO12_I"}
                       \/ field = PatchS /\ Code[2].type \in {"PCREL_LO12_S", "LO12_S"}
  <2>1. CASE Code[2].op = "rv_addi"
    BY <1>2, <2>1, RiscvFormats DEF Pair, Is
  <2>2. CASE Code[2].op = "rv_store"
    BY <1>2, <2>2, RiscvFormats DEF Pair, Is
  <2> QED BY <1>2, <2>1, <2>2 DEF Pair, Is
<1>12. CASE Code[1].op = "rv_auipc"
  <2>1. /\ Code[1].type = "PCREL_HI20" /\ Code[2].op \in {"rv_addi", "rv_store"}
        /\ Code[2].type \in {"PCREL_LO12_I", "PCREL_LO12_S"}
    BY <1>2, <1>12 DEF Pair, Is
  <2>2. Opens("PCREL_HI20")
    BY <1>5, <2>1 DEF Opens
  <2>3. Put(1)
    <3>1. Apply(1) = Set(Hi20(Minus(Referent(1), Site(1))), PatchU)
      BY <1>7, <2>1 DEF applyRISCV64
    <3>2. Cond => RightWord(1, Spliced(Code[1].word, Hi20(Minus(Referent(1), Site(1))), PatchU))
      BY <1>12, <2>1, <2>2, PcrelHigh
    <3> QED BY <1>9, <3>1, <3>2
  <2>4. Code[2].sym = Site(1)
    BY <1>6, <2>1 DEF SecondRight, Site, Code
  <2>5. pcrelLookup(Code[2].sym) = << Referent(1) >>
    <3> DEFINE hi == {i \in DOMAIN Code : Code[i].type = "PCREL_HI20" /\ Site(i) = Code[2].sym}
    <3>1. DOMAIN Code = {1, 2}
      BY IdiomIs
    <3>2. hi = {1}
      BY <2>1, <2>4, <3>1
    <3>3. pcrelLookup(Code[2].sym) = IF hi = {} THEN << >> ELSE << Referent(CHOOSE i \in hi : TRUE) >>
      BY DEF pcrelLookup
    <3> HIDE DEF hi
    <3>4. (CHOOSE i \in hi : TRUE) = 1 /\ hi /= {}
      BY <3>2
    <3> QED BY <3>3, <3>4
  <2>6. Apply(2) = Set(Low12(Minus(Referent(1), Site(1))), field)
    BY <1>8, <1>11, <2>1, <2>4, <2>5 DEF applyRISCV64
  <2>7. RightWord(2, Spliced(Code[2].word, Low12(Minus(Referent(1), Site(1))), field))
    BY <1>3, <1>11, <1>12, PcrelLow
  <2> QED BY <1>10, <1>11, <2>3, <2>6, <2>7
<1>13. CASE Code[1].op = "rv_lui"
  <2>1. Code[1].type = "HI20" /\ Code[2].type \in {"LO12_I", "LO12_S"}
    BY <1>2, <1>13 DEF Pair, Is
  <2>2. Opens("HI20") /\ Code[1].op /= "rv_auipc"
    BY <1>5, <1>13, <2>1 DEF Opens
  <2>3. f.base = "zero"
    BY <1>13, RiscvFormats
  <2>4. Put(1)
    <3>1. Apply(1) = Set(Hi20(Referent(1)), PatchU)
      BY <1>7, <2>1 DEF applyRISCV64
    <3>2. g.sign /= Unsigned
      BY <1>11 DEF Unsigned
    <3> HIDE DEF f
    <3>3. Cond => RightWord(1, Spliced(Code[1].word, Hi20(Referent(1)), PatchU))
      BY <1>3, <1>4, <2>2, <2>3, <3>2, AbsHigh DEF f
    <3> QED BY <1>9, <3>1, <3>3
  <2>5. Referent(2) = m
    BY <1>6, <2>1 DEF SecondRight, Referent
  <2>6. Apply(2) = Set(Low12(m), field)
    BY <1>8, <1>11, <2>1, <2>5 DEF applyRISCV64
  <2>7. RightWord(2, Spliced(Code[2].word, Low12(m), field))
    <3> DEFINE v == Low12(m)
               y == Val(m)
    <3>1. v \in Addr /\ Val(v) % 4096 = y % 4096 /\ y \in Int
      <4> HIDE DEF m
      <4> QED BY <1>1, LowIs
    <3>2. y = Val(idiom.means)
      OBVIOUS
    <3> HIDE DEF v, y, g
    <3>3. RightWord(2, Spliced(Code[2].word, v, field))
      BY <1>3, <1>11, <2>2, <3>1, <3>2, SignedRight DEF g
    <3> QED BY <3>3 DEF v
  <2> QED BY <1>10, <1>11, <2>4, <2>6, <2>7
<1> QED BY <1>2, <1>12, <1>13 DEF Pair, Is

\* CALL puts the high part into one word and the low part into the next.
CallPut ==
  \E v, u :
    /\ Apply(1) \in {Refused, Set(v, PatchU) \o Set(u, PatchI)}
    /\ Apply(1) = Refused => ~Within(Needed(1), 31)
    /\ Apply(1) /= Refused /\ Cond => /\ RightWord(1, Spliced(Code[1].word, v, PatchU))
                                      /\ RightWord(2, Spliced(Code[2].word, u, PatchI))

LEMMA CallPuts ==
  ASSUME idiom \in Idioms, Len(Code) = 2, Code[1].type = "CALL"
  PROVE  /\ Is(1, "riscv64", "CALL", "rv_auipc") /\ Is(2, "riscv64", "none", "rv_addi")
         /\ CallPut /\ DOMAIN Code[1].word = 0 .. 31 /\ DOMAIN Code[2].word = 0 .. 31
<1> DEFINE d == Minus(Referent(1), Site(1))
           v == Hi20(d)
           u == Low12(d)
<1>1. Is(1, "riscv64", "CALL", "rv_auipc") /\ Is(2, "riscv64", "none", "rv_addi")
  BY PairedIs DEF Pair, Is
<1>2. DOMAIN Code[1].word = 0 .. 31 /\ DOMAIN Code[2].word = 0 .. 31
  BY <1>1, PairMeans, WordIs DEF Is
<1>3. Code /= << >>
  <2>1. Len(<< >>) /= 2
    OBVIOUS
  <2> QED BY <2>1, Zenon
<1>4. Apply(1) = IF Within(d, 31) THEN Set(v, PatchU) \o Set(u, PatchI) ELSE Refused
  <2>1. Apply(1) = applyRISCV64("CALL", Referent(1), Site(1), Code[1].sym, pcrelLookup(Code[1].sym))
    BY <1>1 DEF Is, Apply
  <2> QED BY <2>1 DEF applyRISCV64
<1>5. Set(v, PatchU) \o Set(u, PatchI) /= Refused
  BY DEF Set, Refused
<1>6. Needed(1) = d
  BY <1>1, RiscvFormats DEF Is, Needed
<1>7. Cond => RightWord(1, Spliced(Code[1].word, v, PatchU))
  <2>1. Opens("CALL")
    BY <1>3 DEF Opens
  <2> QED BY <1>1, <2>1, PcrelHigh DEF Is
<1>8. RightWord(2, Spliced(Code[2].word, u, PatchI))
  <2> DEFINE f == Formats["rv_addi"]
  <2>1. f.sign = 11 /\ Encodes(f, PatchI, 0, 31, 0, 11) /\ f = Formats[Code[2].op]
    BY <1>1, RiscvFormats DEF Is
  <2> HIDE DEF f
  <2> QED BY <1>1, <1>2, <2>1, PcrelLow DEF Is
<1> HIDE DEF d, v, u
<1> QED BY <1>1, <1>2, <1>4, <1>5, <1>6, <1>7, <1>8 DEF CallPut

-------------------------------------------------------------------------------
(* The run *)

\* A single instruction starts from where it is, a second one from the first's
\* result; only the second word of a CALL has no relocation.
LEMMA ShapesAre ==
  ASSUME idiom \in Idioms
  PROVE  /\ Code[1].type /= "none"
         /\ Len(Code) = 1 => Code[1].type /= "CALL"
         /\ Formats[Code[1].op].base \in {"pc", "page", "zero", "next"}
         /\ Len(Code) = 2 => Formats[Code[2].op].base = "reg"
         /\ Len(Code) = 2 => (Code[2].type = "none" <=> Code[1].type = "CALL")
<1>1. CASE Len(Code) = 1
  <2>1. Code[1].type /= "none" /\ Code[1].type /= "CALL"
    BY <1>1, AloneIs DEF Is
  <2>2. Formats[Code[1].op].base \in {"pc", "next"}
    <3>1. \/ Code[1].op \in {"a64_b", "a64_bcond", "a64_tbz", "a64_adr"}
          \/ Code[1].op \in {"rv_branch", "rv_jal", "rv_cb", "rv_cj"}
          \/ Code[1].op \in {"la_beq", "la_beqz", "la_b"}
          \/ Code[1].op \in {"x86_imm0", "x86_imm1", "x86_imm2", "x86_imm4"}
      BY <1>1, AloneIs DEF Is
    <3> QED BY <3>1, A64Formats, RiscvFormats, LoongFormats, X86Formats
  <2> QED BY <1>1, <2>1, <2>2
<1>2. CASE Len(Code) = 2
  <2>1. Code[1].type /= "none" /\ (Code[2].type = "none" <=> Code[1].type = "CALL")
    BY <1>2, PairedIs DEF Is, Pair
  <2>2. /\ Code[1].op \in {"a64_adrp", "rv_auipc", "rv_lui", "la_pcala", "la_lu12i"}
        /\ Code[2].op \in {"a64_add", "a64_ldrb", "a64_ldrh", "a64_ldrw", "a64_ldrx", "a64_ldrq",
                           "rv_addi", "rv_store", "la_addi", "la_ori"}
    BY <1>2, PairedIs DEF Is, Pair
  <2>3. /\ Formats[Code[1].op].base \in {"pc", "page", "zero"}
        /\ Formats[Code[2].op].base = "reg"
    BY <2>2, A64Formats, RiscvFormats, LoongFormats
  <2> QED BY <1>2, <2>1, <2>3
<1> QED BY <1>1, <1>2, IdiomIs

LEMMA PutsAre ==
  ASSUME idiom \in Idioms, NEW i \in DOMAIN Code, Code[1].type /= "CALL",
         \A j \in DOMAIN Code : i <= j => words[j] = Code[j].word
  PROVE  Put(i)
<1>1. i = 1 \/ (i = 2 /\ Len(Code) = 2)
  <2> DEFINE n == Len(Code)
  <2>1. n \in {1, 2} /\ i \in 1 .. n
    BY IdiomIs
  <2> HIDE DEF n
  <2>2. i = 1 \/ (i = 2 /\ n = 2)
    BY <2>1
  <2> QED BY <2>2 DEF n
<1>2. CASE Len(Code) = 1
  <2>1. idiom.arch \in {"arm64elf", "arm64", "riscv64", "loongarch64", "amd64"}
    BY <1>2, AloneIs DEF Is
  <2>2. i = 1 /\ words[1] = Code[1].word
    BY <1>1, <1>2, IdiomIs
  <2> QED BY <1>2, <2>1, <2>2, ElfJumps, CoffJumps, RiscvJumps, LoongJumps, X86Refs
<1>3. CASE Len(Code) = 2
  <2>1. idiom.arch \in {"arm64elf", "arm64", "riscv64", "loongarch64"}
    BY <1>3, PairedIs DEF Is, Pair
  <2>2. words[2] = Code[2].word
    BY <1>1, <1>3, IdiomIs
  <2> QED BY <1>1, <1>3, <2>1, <2>2, ElfPairs, CoffPairsPut, RiscvPairsPut, LoongPairsPut
<1> QED BY <1>2, <1>3, IdiomIs

\* The parts add up.
LEMMA PartsAddUp ==
  ASSUME idiom \in Idioms
  PROVE  /\ LowPart \in Int /\ From \in Addr
         /\ Delta(2) = LowPart
         /\ Delta(1) + Val(From) = Val(idiom.means) - (IF Len(Code) = 2 THEN LowPart ELSE 0)
<1>1. idiom.means \in Addr /\ Site(1) \in Addr
  BY IdiomIs, SitesAre
<1>2. LowPart \in Int
  <2> DEFINE y == IF Code[1].op = "rv_auipc" THEN Val(idiom.means) - Val(Site(1)) ELSE Val(idiom.means)
  <2>1. y \in Int
    BY <1>1, AddrShape
  <2>2. LowPart = IF Formats[Code[2].op].sign = Unsigned THEN y % 4096 ELSE SignedLow(y)
    BY DEF LowPart
  <2> HIDE DEF y
  <2>3. y % 4096 \in Int
    BY <2>1
  <2> QED BY <2>2, <2>3 DEF SignedLow
<1>3. From \in Addr
  <2>1. Page(Site(1)) \in Addr /\ Num(0, 0) \in Addr
    <3>1. 0 \in Int
      OBVIOUS
    <3>2. Num(0, 0) \in Addr
      BY <3>1, NumIs
    <3> QED BY <1>1, <3>2, PartsAre
  <2>2. ASSUME Formats[Code[1].op].base = "next"
        PROVE  Plus(Site(1), Num(0, 4 + BytesBehind[Code[1].op])) \in Addr
    <3>1. Code[1].op \in {"x86_imm0", "x86_imm1", "x86_imm2", "x86_imm4"}
      <4>1. CASE Len(Code) = 1
        <5>1. \/ Code[1].op \in {"a64_b", "a64_bcond", "a64_tbz", "a64_adr"}
              \/ Code[1].op \in {"rv_branch", "rv_jal", "rv_cb", "rv_cj"}
              \/ Code[1].op \in {"la_beq", "la_beqz", "la_b"}
              \/ Code[1].op \in {"x86_imm0", "x86_imm1", "x86_imm2", "x86_imm4"}
          BY <4>1, AloneIs DEF Is
        <5> QED BY <2>2, <5>1, A64Formats, RiscvFormats, LoongFormats
      <4>2. CASE Len(Code) = 2
        <5>1. Code[1].op \in {"a64_adrp", "rv_auipc", "rv_lui", "la_pcala", "la_lu12i"}
          BY <4>2, PairedIs DEF Is, Pair
        <5> QED BY <2>2, <5>1, A64Formats, RiscvFormats, LoongFormats
      <4> QED BY <4>1, <4>2, IdiomIs
    <3>2. BytesBehind[Code[1].op] \in Int
      BY <3>1 DEF BytesBehind
    <3> DEFINE b == BytesBehind[Code[1].op]
    <3> HIDE DEF b
    <3>3. 4 + b \in Int
      BY <3>2 DEF b
    <3>4. Num(0, 4 + b) \in Addr
      BY <3>3, NumIs
    <3> QED BY <1>1, <3>4, SumIs DEF b
  <2> QED BY <1>1, <2>1, <2>2 DEF From
<1>4. Val(From) \in Int /\ Val(idiom.means) \in Int
  BY <1>1, <1>3, AddrShape
<1>5. /\ Delta(2) = LowPart
      /\ Delta(1) = Val(idiom.means) - Val(From) - (IF Len(Code) = 2 THEN LowPart ELSE 0)
  BY DEF Delta
<1> DEFINE m == Val(idiom.means)
           r == Val(From)
           l == IF Len(Code) = 2 THEN LowPart ELSE 0
<1>6. m \in Int /\ r \in Int /\ l \in Int /\ Delta(1) = m - r - l
  BY <1>2, <1>4, <1>5
<1> HIDE DEF m, r, l
<1>7. Delta(1) + r = m - l
  BY <1>6
<1> QED BY <1>2, <1>3, <1>5, <1>7 DEF m, r, l

\* A sequence is linked from the front: the words behind the next relocation are
\* as the compiler left them, except for the second word of a CALL.
Linked(i) ==
  IF i < next \/ (next > 1 /\ Code[i].type = "none")
  THEN Cond => RightWord(i, words[i])
  ELSE words[i] = Code[i].word

\* What the CPU has computed before the next instruction.
Reached ==
  /\ reg \in Addr
  /\ Val(reg) = Val(idiom.means) - (IF next \in DOMAIN Code THEN LowPart ELSE 0)

InstrShape ==
  /\ idiom \in Idioms /\ DOMAIN words = DOMAIN Code
  /\ next \in Nat /\ 1 <= next /\ next <= Len(Code) + 1
  /\ stage \in {"link", "run", "done", "error"}
  /\ \A i \in DOMAIN Code : DOMAIN words[i] = DOMAIN Code[i].word
  /\ stage = "error" => next \in DOMAIN Code

InstrInv ==
  /\ InstrShape
  /\ OpcodeKept
  /\ RefusedForCause
  /\ Lands
  /\ stage = "link" => \A i \in DOMAIN Code : Linked(i)
  /\ stage = "run" => \A i \in DOMAIN Code : Cond => RightWord(i, words[i])
  /\ stage = "run" /\ Cond /\ next > 1 => Reached

LEMMA SameIdiom ==
  ASSUME idiom' = idiom
  PROVE  /\ Code' = Code /\ (Cond' <=> Cond) /\ LowPart' = LowPart
         /\ \A i : Delta(i)' = Delta(i)
<1>1. Code' = Code
  BY DEF Code
<1>2. \A i : Site(i)' = Site(i) /\ Referent(i)' = Referent(i)
  BY <1>1 DEF Site, Referent
<1>3. Cond' <=> Cond
  <2>1. InReach' <=> InReach
    BY <1>1, <1>2 DEF InReach, Opens
  <2>2. /\ CarryTaken' <=> CarryTaken
        /\ AddendInPage' <=> AddendInPage
        /\ SizeInBits' <=> SizeInBits
    BY <1>1, <1>2 DEF CarryTaken, AddendInPage, SizeInBits, Opens, Closes
  <2> QED BY <2>1, <2>2 DEF Cond
<1>4. LowPart' = LowPart
  BY <1>1, <1>2 DEF LowPart
<1>5. From' = From
  BY <1>1, <1>2 DEF From
<1>6. \A i : Delta(i)' = Delta(i)
  BY <1>1, <1>4, <1>5 DEF Delta
<1> QED BY <1>1, <1>3, <1>4, <1>6

LEMMA SameNeeded ==
  ASSUME idiom' = idiom, reg' = reg, NEW i
  PROVE  Needed(i)' = Needed(i)
<1>1. Code' = Code /\ Site(i)' = Site(i) /\ Referent(i)' = Referent(i)
  BY DEF Code, Site, Referent
<1>2. Origin(i)' = Origin(i)
  BY <1>1 DEF Origin
<1> QED BY <1>1, <1>2 DEF Needed

\* Bits outside of the immediate survive a fixup.
Kept(i, w) == \A b \in DOMAIN w \ ImmBits(Formats[Code[i].op]) : w[b] = Code[i].word[b]

Fixes(i, w, field) ==
  \E k, last \in Nat : Routed(Formats[Code[i].op], field, k, last) /\ DOMAIN w = 0 .. last

LEMMA SpliceKeeps ==
  ASSUME NEW i, NEW w, NEW v, NEW field, Fixes(i, w, field), Kept(i, w)
  PROVE  DOMAIN Spliced(w, v, field) = DOMAIN w /\ Kept(i, Spliced(w, v, field))
<1> DEFINE f == Formats[Code[i].op]
           s == Spliced(w, v, field)
<1>1. PICK k, last \in Nat : Routed(f, field, k, last) /\ DOMAIN w = 0 .. last
  BY DEF Fixes
<1>2. \A b \in DOMAIN w \ ImmBits(f) : w[b] = Code[i].word[b]
  BY DEF Kept
<1> HIDE DEF f
<1>3. DOMAIN s = 0 .. last /\ \A b \in (0 .. last) \ ImmBits(f) : s[b] = w[b]
  BY <1>1, SplicedIs
<1> HIDE DEF s
<1>4. DOMAIN s = DOMAIN w /\ \A b \in DOMAIN s \ ImmBits(f) : s[b] = Code[i].word[b]
  BY <1>1, <1>2, <1>3
<1> QED BY <1>4 DEF f, s, Kept

LEMMA InitInstr ==
  ASSUME InstrInit
  PROVE  InstrInv
<1>1. idiom \in Idioms /\ DOMAIN words = DOMAIN Code /\ \A i \in DOMAIN Code : words[i] = Code[i].word
  BY DEF InstrInit, Code
<1>2. next = 1 /\ stage = "link"
  BY DEF InstrInit
<1>3. InstrShape
  BY <1>1, <1>2, IdiomIs DEF InstrShape
<1>4. OpcodeKept /\ RefusedForCause /\ Lands
  BY <1>1, <1>2 DEF OpcodeKept, RefusedForCause, Lands
<1>5. \A i \in DOMAIN Code : Linked(i)
  <2>1. \A i \in DOMAIN Code : ~(i < next)
    BY <1>1, <1>2, IdiomIs
  <2> QED BY <1>1, <1>2, <2>1 DEF Linked
<1> QED BY <1>2, <1>3, <1>4, <1>5 DEF InstrInv

\* The second instruction of a CALL has no relocation, so the one at next has not
\* been patched before.
LEMMA Fresh ==
  ASSUME InstrInv, stage = "link", next \in DOMAIN Code, Code[next].type /= "none"
  PROVE  /\ \A j \in DOMAIN Code : next <= j => words[j] = Code[j].word
         /\ Code[1].type = "CALL" => next = 1 /\ Len(Code) = 2
<1>1. idiom \in Idioms /\ \A i \in DOMAIN Code : Linked(i)
  BY DEF InstrInv, InstrShape
<1>2. Code[1].type = "CALL" => next = 1 /\ Len(Code) = 2
  BY <1>1, IdiomIs, ShapesAre
<1>3. ASSUME NEW j \in DOMAIN Code, next <= j
      PROVE  words[j] = Code[j].word
  <2>1. ~(next > 1 /\ Code[j].type = "none")
    BY <1>1, <1>2, <1>3, IdiomIs, ShapesAre
  <2>2. ~(j < next)
    BY <1>1, <1>3, IdiomIs
  <2> QED BY <1>1, <2>1, <2>2 DEF Linked
<1> QED BY <1>2, <1>3

LEMMA PatchedWord ==
  ASSUME InstrInv, Patch, Code[1].type /= "CALL", Apply(next) /= Refused
  PROVE  /\ DOMAIN words' = DOMAIN words
         /\ \A i \in DOMAIN Code : i /= next => words'[i] = words[i]
         /\ DOMAIN words'[next] = DOMAIN words[next]
         /\ Kept(next, words'[next])
         /\ Cond => RightWord(next, words'[next])
<1>1. /\ idiom \in Idioms /\ next \in DOMAIN Code /\ DOMAIN words = DOMAIN Code
      /\ stage = "link" /\ Code[next].type /= "none"
  BY DEF InstrInv, InstrShape, Patch
<1>2. \A j \in DOMAIN Code : next <= j => words[j] = Code[j].word
  BY <1>1, Fresh
<1>3. words[next] = Code[next].word
  BY <1>1, <1>2, IdiomIs
<1>4. Put(next)
  BY <1>1, <1>2, PutsAre
<1>5. PICK field, k, last, v :
        /\ Routed(Formats[Code[next].op], field, k, last) /\ DOMAIN Code[next].word = 0 .. last
        /\ Apply(next) = Set(v, field)
        /\ Cond => RightWord(next, Spliced(Code[next].word, v, field))
  BY <1>4 DEF Put
<1> DEFINE puts == Apply(next)
<1>6. DOMAIN puts = {1} /\ puts[1].value = v /\ puts[1].field = field
  BY <1>5 DEF Set
<1>7. words' = [i \in DOMAIN words |->
                  IF i - next + 1 \in DOMAIN puts
                  THEN Spliced(words[i], puts[i - next + 1].value, puts[i - next + 1].field)
                  ELSE words[i]]
  BY DEF Patch
<1>8. next \in Int /\ \A i \in DOMAIN words : i \in Int
  BY <1>1, IdiomIs
<1> HIDE DEF puts
<1>9. /\ DOMAIN words' = DOMAIN words
      /\ \A i \in DOMAIN words : i /= next => words'[i] = words[i]
  BY <1>6, <1>7, <1>8
<1>10. words'[next] = Spliced(words[next], v, field)
  <2>1. next - next + 1 = 1 /\ next \in DOMAIN words
    BY <1>1, <1>8
  <2> QED BY <1>6, <1>7, <2>1
<1>11. Fixes(next, words[next], field)
  BY <1>3, <1>5 DEF Fixes, Routed
<1>12. Kept(next, words[next])
  BY <1>3 DEF Kept
<1>13. DOMAIN words'[next] = DOMAIN words[next] /\ Kept(next, words'[next])
  BY <1>10, <1>11, <1>12, SpliceKeeps
<1>14. Cond => RightWord(next, words'[next])
  BY <1>3, <1>5, <1>10
<1> QED BY <1>1, <1>9, <1>13, <1>14

LEMMA PatchedCall ==
  ASSUME InstrInv, Patch, Code[1].type = "CALL", Apply(next) /= Refused
  PROVE  /\ DOMAIN words' = DOMAIN words /\ next = 1 /\ Code[2].type = "none"
         /\ \A i \in DOMAIN Code :
              /\ DOMAIN words'[i] = DOMAIN words[i]
              /\ Kept(i, words'[i])
              /\ Cond => RightWord(i, words'[i])
<1>1. /\ idiom \in Idioms /\ next \in DOMAIN Code /\ DOMAIN words = DOMAIN Code
      /\ stage = "link" /\ Code[next].type /= "none"
  BY DEF InstrInv, InstrShape, Patch
<1>2. /\ \A j \in DOMAIN Code : next <= j => words[j] = Code[j].word
      /\ next = 1 /\ Len(Code) = 2
  BY <1>1, Fresh
<1>3. DOMAIN Code = {1, 2} /\ words[1] = Code[1].word /\ words[2] = Code[2].word
  BY <1>1, <1>2, IdiomIs
<1>4. /\ Code[1].op = "rv_auipc" /\ Code[2].op = "rv_addi" /\ Code[2].type = "none"
      /\ CallPut /\ DOMAIN Code[1].word = 0 .. 31 /\ DOMAIN Code[2].word = 0 .. 31
  BY <1>1, <1>2, CallPuts DEF Is
<1>5. PICK v, u :
        /\ Apply(1) = Set(v, PatchU) \o Set(u, PatchI)
        /\ Cond => /\ RightWord(1, Spliced(Code[1].word, v, PatchU))
                   /\ RightWord(2, Spliced(Code[2].word, u, PatchI))
  BY <1>2, <1>4 DEF CallPut
<1> DEFINE puts == Apply(1)
<1>6. /\ DOMAIN puts = {1, 2} /\ puts[1].value = v /\ puts[1].field = PatchU
      /\ puts[2].value = u /\ puts[2].field = PatchI
  <2> DEFINE p == [value |-> v, field |-> PatchU]
             q == [value |-> u, field |-> PatchI]
  <2>1. puts = <<p>> \o <<q>> /\ p.value = v /\ p.field = PatchU /\ q.value = u /\ q.field = PatchI
    BY <1>5 DEF Set
  <2> HIDE DEF p, q, puts
  <2>2. <<p>> \in Seq({p, q}) /\ <<q>> \in Seq({p, q})
    OBVIOUS
  <2>3. DOMAIN (<<p>> \o <<q>>) = 1 .. 2
    BY <2>2
  <2>4. (<<p>> \o <<q>>)[1] = p /\ (<<p>> \o <<q>>)[2] = q
    BY <2>2
  <2> QED BY <2>1, <2>3, <2>4
<1>7. words' = [i \in DOMAIN words |->
                  IF i - 1 + 1 \in DOMAIN puts
                  THEN Spliced(words[i], puts[i - 1 + 1].value, puts[i - 1 + 1].field)
                  ELSE words[i]]
  BY <1>2 DEF Patch
<1> HIDE DEF puts
<1>8. 1 - 1 + 1 = 1 /\ 2 - 1 + 1 = 2
  OBVIOUS
<1>9. /\ DOMAIN words' = DOMAIN words
      /\ words'[1] = Spliced(words[1], v, PatchU) /\ words'[2] = Spliced(words[2], u, PatchI)
  BY <1>1, <1>3, <1>6, <1>7, <1>8
<1>10. /\ Routed(Formats[Code[1].op], PatchU, 12, 31) /\ Routed(Formats[Code[2].op], PatchI, 0, 31)
  BY <1>4, RiscvFormats DEF Encodes
<1>11. DOMAIN words'[1] = DOMAIN words[1] /\ Kept(1, words'[1])
  <2>1. Fixes(1, words[1], PatchU) /\ Kept(1, words[1])
    BY <1>3, <1>4, <1>10 DEF Fixes, Kept, Routed
  <2> QED BY <1>9, <2>1, SpliceKeeps
<1>12. DOMAIN words'[2] = DOMAIN words[2] /\ Kept(2, words'[2])
  <2>1. Fixes(2, words[2], PatchI) /\ Kept(2, words[2])
    BY <1>3, <1>4, <1>10 DEF Fixes, Kept, Routed
  <2> QED BY <1>9, <2>1, SpliceKeeps
<1>13. Cond => RightWord(1, words'[1]) /\ RightWord(2, words'[2])
  BY <1>3, <1>5, <1>9
<1> QED BY <1>2, <1>3, <1>4, <1>9, <1>11, <1>12, <1>13

LEMMA PatchInstr ==
  ASSUME InstrInv, Patch
  PROVE  InstrInv'
<1>1. InstrShape /\ OpcodeKept /\ (\A i \in DOMAIN Code : Linked(i)) /\ idiom \in Idioms
  BY DEF InstrInv, InstrShape, Patch
<1>2. /\ stage = "link" /\ next \in DOMAIN Code /\ Code[next].type /= "none"
      /\ idiom' = idiom /\ reg' = reg
  BY DEF Patch
<1>3. /\ Code' = Code /\ (Cond' <=> Cond) /\ LowPart' = LowPart
      /\ \A i : Delta(i)' = Delta(i)
  BY <1>2, SameIdiom
<1>4. next \in Nat /\ 1 <= next /\ next <= Len(Code)
  BY <1>1, <1>2, IdiomIs
<1>5. ASSUME Apply(next) = Refused
      PROVE  InstrInv'
  <2>1. stage' = "error" /\ words' = words /\ next' = next
    BY <1>5 DEF Patch
  <2>2. InstrShape'
    BY <1>1, <1>2, <1>3, <2>1 DEF InstrShape
  <2>3. OpcodeKept'
    BY <1>1, <1>3, <2>1 DEF OpcodeKept
  <2>4. IF Code[next].type = "CALL" THEN ~Within(Needed(next), 31)
        ELSE ~Encodable(Needed(next), Formats[Code[next].op])
    <3>1. CASE Code[1].type = "CALL"
      <4>1. next = 1 /\ Len(Code) = 2
        BY <1>2, <3>1, Fresh
      <4>2. CallPut
        BY <1>1, <3>1, <4>1, CallPuts
      <4> QED BY <1>5, <3>1, <4>1, <4>2 DEF CallPut
    <3>2. CASE Code[1].type /= "CALL"
      <4>1. Put(next)
        BY <1>1, <1>2, <3>2, Fresh, PutsAre
      <4>2. ~Encodable(Needed(next), Formats[Code[next].op])
        BY <1>5, <4>1 DEF Put
      <4>3. Code[next].type /= "CALL"
        <5>1. CASE next = 1
          BY <3>2, <5>1
        <5>2. CASE next /= 1
          <6>1. next = 2 /\ Len(Code) = 2
            BY <1>1, <1>4, <5>2, IdiomIs
          <6> QED BY <1>1, <6>1, PairedIs DEF Pair, Is
        <5> QED BY <5>1, <5>2
      <4> QED BY <4>2, <4>3
    <3> QED BY <3>1, <3>2
  <2>5. RefusedForCause'
    <3>1. Needed(next)' = Needed(next)
      <4>1. \A i : Needed(i)' = Needed(i)
        BY <1>2, SameNeeded
      <4> QED BY <2>1, <4>1
    <3> QED BY <1>3, <2>1, <2>4, <3>1 DEF RefusedForCause
  <2>6. Lands'
    BY <2>1 DEF Lands
  <2> QED BY <2>1, <2>2, <2>3, <2>5, <2>6 DEF InstrInv
<1>6. ASSUME Apply(next) /= Refused,
             DOMAIN words' = DOMAIN words, \A i \in DOMAIN Code : DOMAIN words'[i] = DOMAIN words[i],
             OpcodeKept', \A i \in DOMAIN Code : Linked(i)'
      PROVE  InstrInv'
  <2>1. stage' = "link" /\ next' = next + 1
    BY <1>2, <1>6 DEF Patch
  <2>2. InstrShape'
    BY <1>1, <1>2, <1>3, <1>4, <1>6, <2>1 DEF InstrShape
  <2>3. Lands' /\ RefusedForCause'
    BY <2>1 DEF Lands, RefusedForCause
  <2>4. (\A i \in DOMAIN Code : Linked(i))'
    BY <1>3, <1>6
  <2> QED BY <1>6, <2>1, <2>2, <2>3, <2>4 DEF InstrInv
<1>7. ASSUME Apply(next) /= Refused
      PROVE  next' = next + 1
  BY <1>7 DEF Patch
<1>8. ASSUME Apply(next) /= Refused, Code[1].type /= "CALL"
      PROVE  InstrInv'
  <2>1. /\ DOMAIN words' = DOMAIN words
        /\ \A i \in DOMAIN Code : i /= next => words'[i] = words[i]
        /\ DOMAIN words'[next] = DOMAIN words[next]
        /\ Kept(next, words'[next])
        /\ Cond => RightWord(next, words'[next])
    BY <1>8, PatchedWord
  <2>2. \A i \in DOMAIN Code : DOMAIN words'[i] = DOMAIN words[i]
    BY <2>1
  <2>3. DOMAIN words = DOMAIN Code
    BY <1>1 DEF InstrShape
  <2>4. ASSUME NEW i \in DOMAIN Code
        PROVE  Kept(i, words'[i])
    <3>1. CASE i = next
      BY <2>1, <3>1
    <3>2. CASE i /= next
      BY <1>1, <2>1, <2>3, <3>2 DEF OpcodeKept, Kept
    <3> QED BY <3>1, <3>2
  <2>5. OpcodeKept'
    BY <1>3, <2>1, <2>3, <2>4 DEF OpcodeKept, Kept
  <2>6. \A i \in DOMAIN Code : Code[i].type /= "none"
    BY <1>1, <1>8, IdiomIs, ShapesAre
  <2>7. ASSUME NEW i \in DOMAIN Code
        PROVE  Linked(i)'
    <3>1. i \in Int /\ next' = next + 1
      BY <1>1, <1>7, <1>8, IdiomIs
    <3>2. CASE i = next
      <4>1. i < next'
        BY <1>4, <3>1, <3>2
      <4>2. Cond => RightWord(i, words[i])'
        BY <1>3, <2>1, <3>2 DEF RightWord
      <4> QED BY <1>3, <4>1, <4>2 DEF Linked
    <3>3. CASE i < next
      <4>1. i < next' /\ words'[i] = words[i]
        BY <1>4, <2>1, <3>1, <3>3
      <4>2. Cond => RightWord(i, words[i])
        BY <1>1, <3>3 DEF Linked
      <4>3. Cond => RightWord(i, words[i])'
        BY <1>3, <4>1, <4>2 DEF RightWord
      <4> QED BY <1>3, <4>1, <4>3 DEF Linked
    <3>4. CASE i > next
      <4>1. ~(i < next') /\ ~(i < next) /\ words'[i] = words[i]
        BY <1>4, <2>1, <3>1, <3>4
      <4>2. words[i] = Code[i].word
        BY <1>1, <2>6, <4>1 DEF Linked
      <4> QED BY <1>3, <2>6, <4>1, <4>2 DEF Linked
    <3> QED BY <1>4, <3>1, <3>2, <3>3, <3>4
  <2> QED BY <1>6, <1>8, <2>1, <2>2, <2>5, <2>7
<1>9. ASSUME Apply(next) /= Refused, Code[1].type = "CALL"
      PROVE  InstrInv'
  <2>1. /\ DOMAIN words' = DOMAIN words /\ next = 1 /\ Code[2].type = "none"
        /\ \A i \in DOMAIN Code :
             /\ DOMAIN words'[i] = DOMAIN words[i]
             /\ Kept(i, words'[i])
             /\ Cond => RightWord(i, words'[i])
    BY <1>9, PatchedCall
  <2>2. DOMAIN words = DOMAIN Code /\ next' = 2
    BY <1>1, <1>7, <1>9, <2>1 DEF InstrShape
  <2>3. OpcodeKept'
    BY <1>3, <2>1, <2>2 DEF OpcodeKept, Kept
  <2>4. ASSUME NEW i \in DOMAIN Code
        PROVE  Linked(i)'
    <3>1. Cond => RightWord(i, words[i])'
      BY <1>3, <2>1 DEF RightWord
    <3>2. i < next' \/ (next' > 1 /\ Code'[i].type = "none")
      BY <1>1, <1>3, <2>1, <2>2, IdiomIs
    <3> QED BY <1>3, <3>1, <3>2 DEF Linked
  <2> QED BY <1>6, <1>9, <2>1, <2>3, <2>4
<1> QED BY <1>5, <1>8, <1>9

LEMMA UnrelocatedInstr ==
  ASSUME InstrInv, Unrelocated
  PROVE  InstrInv'
<1>1. InstrShape /\ OpcodeKept /\ (\A i \in DOMAIN Code : Linked(i)) /\ idiom \in Idioms
  BY DEF InstrInv, InstrShape, Unrelocated
<1>2. /\ stage = "link" /\ stage' = "link" /\ next \in DOMAIN Code /\ Code[next].type = "none"
      /\ idiom' = idiom /\ reg' = reg /\ words' = words /\ next' = next + 1
  BY DEF Unrelocated
<1>3. /\ Code' = Code /\ (Cond' <=> Cond) /\ \A i : Delta(i)' = Delta(i)
  BY <1>2, SameIdiom
<1>4. next = 2 /\ Len(Code) = 2
  BY <1>1, <1>2, IdiomIs, ShapesAre
<1>5. InstrShape'
  BY <1>1, <1>2, <1>3, <1>4 DEF InstrShape
<1>6. OpcodeKept' /\ RefusedForCause' /\ Lands'
  BY <1>1, <1>2, <1>3 DEF OpcodeKept, RefusedForCause, Lands
<1>7. ASSUME NEW i \in DOMAIN Code
      PROVE  Linked(i)'
  <2>1. i \in {1, 2} /\ i < next'
    BY <1>1, <1>2, <1>4, IdiomIs
  <2>2. Cond => RightWord(i, words[i])
    BY <1>1, <1>2, <1>4, <2>1 DEF Linked
  <2>3. Cond => RightWord(i, words[i])'
    BY <1>2, <1>3, <2>2 DEF RightWord
  <2> QED BY <1>3, <2>1, <2>3 DEF Linked
<1>8. (\A i \in DOMAIN Code : Linked(i))'
  BY <1>3, <1>7
<1> QED BY <1>2, <1>5, <1>6, <1>8 DEF InstrInv

LEMMA PatchedInstr ==
  ASSUME InstrInv, Patched
  PROVE  InstrInv'
<1>1. InstrShape /\ OpcodeKept /\ (\A i \in DOMAIN Code : Linked(i)) /\ idiom \in Idioms
  BY DEF InstrInv, InstrShape, Patched
<1>2. /\ stage' = "run" /\ next \notin DOMAIN Code
      /\ idiom' = idiom /\ reg' = reg /\ words' = words /\ next' = 1
  BY DEF Patched
<1>3. /\ Code' = Code /\ (Cond' <=> Cond) /\ \A i : Delta(i)' = Delta(i)
  BY <1>2, SameIdiom
<1>4. next = Len(Code) + 1
  BY <1>1, <1>2, IdiomIs DEF InstrShape
<1>5. InstrShape'
  BY <1>1, <1>2, <1>3, IdiomIs DEF InstrShape
<1>6. OpcodeKept' /\ RefusedForCause' /\ Lands'
  BY <1>1, <1>2, <1>3 DEF OpcodeKept, RefusedForCause, Lands
<1>7. ASSUME NEW i \in DOMAIN Code
      PROVE  Cond' => RightWord(i, words[i])'
  <2>1. i < next
    BY <1>1, <1>4, IdiomIs
  <2>2. Cond => RightWord(i, words[i])
    BY <1>1, <2>1 DEF Linked
  <2> QED BY <1>2, <1>3, <2>2 DEF RightWord
<1>8. (\A i \in DOMAIN Code : Cond => RightWord(i, words[i]))'
  BY <1>3, <1>7
<1> QED BY <1>2, <1>5, <1>6, <1>8 DEF InstrInv

\* The first instruction starts from its own address, or from zero, the second
\* one from the register.
LEMMA OriginsAre ==
  ASSUME idiom \in Idioms
  PROVE  /\ Origin(1) = From
         /\ Len(Code) = 2 => Origin(2) = reg
BY ShapesAre DEF Origin, From

LEMMA ExecuteInstr ==
  ASSUME InstrInv, Execute
  PROVE  InstrInv'
<1>1. /\ InstrShape /\ OpcodeKept /\ idiom \in Idioms
      /\ \A i \in DOMAIN Code : Cond => RightWord(i, words[i])
      /\ Cond /\ next > 1 => Reached
  BY DEF InstrInv, InstrShape, Execute
<1>2. /\ stage = "run" /\ stage' = "run" /\ next \in DOMAIN Code
      /\ idiom' = idiom /\ words' = words /\ next' = next + 1
      /\ reg' = Plus(Origin(next), Immediate(words[next], Formats[Code[next].op]))
  BY DEF Execute
<1>3. /\ Code' = Code /\ (Cond' <=> Cond) /\ LowPart' = LowPart /\ \A i : Delta(i)' = Delta(i)
  BY <1>2, SameIdiom
<1>4. next \in Nat /\ 1 <= next /\ next <= Len(Code) /\ next' \in Nat
  BY <1>1, <1>2, IdiomIs
<1>5. InstrShape'
  BY <1>1, <1>2, <1>3, <1>4 DEF InstrShape
<1>6. OpcodeKept' /\ RefusedForCause' /\ Lands'
  BY <1>1, <1>2, <1>3 DEF OpcodeKept, RefusedForCause, Lands
<1>7. (\A i \in DOMAIN Code : Cond => RightWord(i, words[i]))'
  <2>1. ASSUME NEW i \in DOMAIN Code
        PROVE  Cond' => RightWord(i, words[i])'
    BY <1>1, <1>2, <1>3 DEF RightWord
  <2> QED BY <1>3, <2>1
<1>8. ASSUME Cond
      PROVE  Reached'
  <2> DEFINE n == Immediate(words[next], Formats[Code[next].op])
             r == Origin(next)
             m == Val(idiom.means)
  <2>1. n \in Addr /\ Val(n) = Delta(next)
    BY <1>1, <1>2, <1>8 DEF RightWord
  <2>2. m \in Int /\ LowPart \in Int
    BY <1>1, IdiomIs, AddrShape, PartsAddUp
  <2>3. /\ r \in Addr
        /\ Val(r) + Delta(next) = m - (IF next' \in DOMAIN Code THEN LowPart ELSE 0)
    <3>1. CASE next = 1
      <4>1. r = From /\ From \in Addr
            /\ Delta(1) + Val(From) = m - (IF Len(Code) = 2 THEN LowPart ELSE 0)
        BY <1>1, <3>1, OriginsAre, PartsAddUp
      <4>2. Val(From) \in Int /\ Delta(1) \in Int
        <5>1. Delta(1) = Val(n)
          BY <2>1, <3>1
        <5> QED BY <2>1, <4>1, <5>1, AddrShape
      <4>3. (next' \in DOMAIN Code) <=> Len(Code) = 2
        <5>1. next' = 2
          BY <1>2, <3>1
        <5> QED BY <1>1, <5>1, IdiomIs
      <4>4. Val(From) + Delta(1) = Delta(1) + Val(From)
        BY <4>2
      <4> QED BY <3>1, <4>1, <4>3, <4>4
    <3>2. CASE next /= 1
      <4>1. next = 2 /\ Len(Code) = 2 /\ next > 1 /\ next' \notin DOMAIN Code
        BY <1>1, <1>2, <1>4, <3>2, IdiomIs
      <4>2. r = reg /\ reg \in Addr /\ Val(reg) = m - LowPart /\ Delta(next) = LowPart
        BY <1>1, <1>2, <1>8, <4>1, OriginsAre, PartsAddUp DEF Reached
      <4> DEFINE g == LowPart
      <4> HIDE DEF g, m
      <4>3. g \in Int /\ m \in Int /\ m - g + g = m - 0
        BY <2>2 DEF g
      <4> QED BY <4>1, <4>2, <4>3 DEF g
    <3> QED BY <3>1, <3>2
  <2>4. reg' = Plus(r, n)
    BY <1>2
  <2> HIDE DEF r, n, m
  <2>5. reg' \in Addr /\ Val(reg') = Val(r) + Val(n)
    BY <2>1, <2>3, <2>4, SumIs
  <2>6. Val(reg') = m - (IF next' \in DOMAIN Code THEN LowPart ELSE 0)
    BY <2>1, <2>3, <2>5
  <2> QED BY <1>2, <1>3, <2>5, <2>6 DEF Reached, Val, m
<1> QED BY <1>2, <1>3, <1>5, <1>6, <1>7, <1>8 DEF InstrInv

LEMMA ExecutedInstr ==
  ASSUME InstrInv, Executed
  PROVE  InstrInv'
<1>1. /\ InstrShape /\ OpcodeKept /\ idiom \in Idioms
      /\ Cond /\ next > 1 => Reached
  BY DEF InstrInv, InstrShape, Executed
<1>2. /\ stage' = "done" /\ next \notin DOMAIN Code
      /\ idiom' = idiom /\ words' = words /\ next' = next /\ reg' = reg
  BY DEF Executed
<1>3. /\ Code' = Code /\ (Cond' <=> Cond)
  BY <1>2, SameIdiom
<1>4. next = Len(Code) + 1 /\ next > 1
  BY <1>1, <1>2, IdiomIs DEF InstrShape
<1>5. InstrShape'
  BY <1>1, <1>2, <1>3 DEF InstrShape
<1>6. OpcodeKept' /\ RefusedForCause'
  BY <1>1, <1>2, <1>3 DEF OpcodeKept, RefusedForCause
<1>7. Cond => reg = idiom.means
  <2> SUFFICES ASSUME Cond PROVE reg = idiom.means
    OBVIOUS
  <2>1. reg \in Addr /\ idiom.means \in Addr /\ Val(reg) = Val(idiom.means) - 0
    BY <1>1, <1>2, <1>4, IdiomIs DEF Reached
  <2>2. Val(idiom.means) \in Int
    BY <2>1, AddrShape
  <2>3. Val(reg) = Val(idiom.means)
    BY <2>1, <2>2
  <2> QED BY <2>1, <2>3, SameVal
<1>8. Lands'
  <2>1. Cond' => reg' = idiom'.means
    BY <1>2, <1>3, <1>7
  <2> QED BY <2>1 DEF Lands, Cond
<1> QED BY <1>2, <1>5, <1>6, <1>8 DEF InstrInv

LEMMA StutterInstr ==
  ASSUME InstrInv, UNCHANGED instrVars
  PROVE  InstrInv'
<1>1. idiom' = idiom /\ words' = words /\ next' = next /\ reg' = reg /\ stage' = stage
  BY DEF instrVars
<1>2. /\ Code' = Code /\ (Cond' <=> Cond) /\ LowPart' = LowPart /\ \A i : Delta(i)' = Delta(i)
  BY <1>1, SameIdiom
<1>3. InstrShape' /\ OpcodeKept'
  BY <1>1, <1>2 DEF InstrInv, InstrShape, OpcodeKept
<1>4. RefusedForCause'
  <2>1. \A i : Needed(i)' = Needed(i)
    BY <1>1, SameNeeded
  <2> QED BY <1>1, <1>2, <2>1 DEF InstrInv, RefusedForCause
<1>5. Lands'
  BY <1>1, <1>2 DEF InstrInv, Lands, Cond
<1>6. \A i : RightWord(i, words[i])' <=> RightWord(i, words[i])
  BY <1>1, <1>2 DEF RightWord
<1>7. \A i : Linked(i)' <=> Linked(i)
  BY <1>1, <1>2, <1>6 DEF Linked
<1>8. Reached' <=> Reached
  BY <1>1, <1>2 DEF Reached, Val
<1> QED BY <1>1, <1>2, <1>3, <1>4, <1>5, <1>6, <1>7, <1>8 DEF InstrInv

LEMMA InstrInvariant == InstrSpec => []InstrInv
<1>1. InstrInit => InstrInv
  BY InitInstr
<1>2. InstrInv /\ [InstrNext \/ InstrReturned]_instrVars => InstrInv'
  <2> SUFFICES ASSUME InstrInv, [InstrNext \/ InstrReturned]_instrVars PROVE InstrInv'
    OBVIOUS
  <2>1. CASE Patch
    BY <2>1, PatchInstr
  <2>2. CASE Unrelocated
    BY <2>2, UnrelocatedInstr
  <2>3. CASE Patched
    BY <2>3, PatchedInstr
  <2>4. CASE Execute
    BY <2>4, ExecuteInstr
  <2>5. CASE Executed
    BY <2>5, ExecutedInstr
  <2>6. CASE UNCHANGED instrVars
    BY <2>6, StutterInstr
  <2> QED BY <2>1, <2>2, <2>3, <2>4, <2>5, <2>6 DEF InstrNext, InstrReturned
<1> QED BY <1>1, <1>2, PTL DEF InstrSpec

\* Fixups touch immediates only: in no sequence of any of the five machines does
\* a relocation change a bit of an opcode or a register number.
THEOREM OpcodesKept == InstrSpec => []OpcodeKept
<1>1. InstrInv => OpcodeKept
  BY DEF InstrInv
<1> QED BY <1>1, InstrInvariant, PTL

\* A back end returns an error only for a value that the instruction cannot encode.
THEOREM RefusalsHaveCause == InstrSpec => []RefusedForCause
<1>1. InstrInv => RefusedForCause
  BY DEF InstrInv
<1> QED BY <1>1, InstrInvariant, PTL

\* Whatever the target, the addend and the instruction's place: a sequence that
\* links ends at its target.
THEOREM SequencesLand == InstrSpec => []Lands
<1>1. InstrInv => Lands
  BY DEF InstrInv
<1> QED BY <1>1, InstrInvariant, PTL
===============================================================================
