--------------------------------- MODULE Words ---------------------------------
(***************************************************************************)
(* Addresses and instruction words of the relocation back ends.            *)
(*                                                                         *)
(* An address or displacement is a number of 4 KiB pages (any integer) and *)
(* the rest, 0 .. 4095: the code's int64 arithmetic in two limbs, each of  *)
(* which TLC can compute with.  A word is a function from bit numbers to   *)
(* 0 or 1.  A field is a set of slices <<hi, lo, at>>: bits hi .. lo of    *)
(* the value go to the bits of the word from `at' upwards.                 *)
(***************************************************************************)
EXTENDS Integers, Sequences

PageBits == 12
PageLen  == 2^PageBits

Num(pages, rest) == [pg |-> pages + rest \div PageLen, lo |-> rest % PageLen]
Plus(a, b)  == Num(a.pg + b.pg, a.lo + b.lo)
Minus(a, b) == Num(a.pg - b.pg, a.lo - b.lo)
Page(a)     == [a EXCEPT !.lo = 0]     \* a &^ 0xFFF
Low12(a)    == [a EXCEPT !.pg = 0]     \* a & 0xFFF

\* a >> k, for k up to PageBits.
Shifted(a, k) ==
  [pg |-> a.pg \div 2^k, lo |-> ((a.pg % 2^k) * PageLen + a.lo) \div 2^k]

Aligned(a, k) == a.lo % 2^k = 0

\* -2^k <= a < 2^k
Within(a, k) ==
  IF k >= PageBits THEN -(2^(k - PageBits)) <= a.pg /\ a.pg < 2^(k - PageBits)
  ELSE (a.pg = 0 /\ a.lo < 2^k) \/ (a.pg = -1 /\ a.lo >= PageLen - 2^k)

Bit(a, i) ==
  IF i < PageBits THEN (a.lo \div 2^i) % 2 ELSE (a.pg \div 2^(i - PageBits)) % 2

\* The number whose bits, from the last one on, are bit[lo] .. bit[hi] and those
\* of `above'.
Number(bit, lo, hi, above) ==
  LET up[e \in lo .. hi + 1] == IF e = hi + 1 THEN above ELSE 2 * up[e + 1] + bit[e]
  IN  up[lo]

\* The value whose bits hi .. lo are bits of the word, as an unsigned number.
FieldOf(w, top, bottom) == Number(w, bottom, top, 0)

Covers(s, b) == s[3] <= b /\ b <= s[3] + s[1] - s[2]

\* The word with the field replaced: inst &^ mask | bits of the value.
Spliced(w, value, field) ==
  [b \in DOMAIN w |->
     IF \E s \in field : Covers(s, b)
     THEN LET s == CHOOSE s \in field : Covers(s, b) IN Bit(value, s[2] + b - s[3])
     ELSE w[b]]
===============================================================================
