------------------------------ MODULE PIEProofs ------------------------------
(***************************************************************************)
(* Proofs about LinkPIE, for every set of ELF files and options: the       *)
(* sections and .reloc lie apart in memory and in the file, the headers    *)
(* are free, a PE loader and an ELF loader make the same of every word,    *)
(* and a file is refused exactly if no PE image can express it.            *)
(***************************************************************************)
EXTENDS PIE, PEImageProofs, FiniteSetTheorems

-------------------------------------------------------------------------------
(* Sorting, minima and sequences *)

\* An enumeration of a finite set visits its members and nothing else.
LEMMA Enumerates ==
  ASSUME NEW S, IsFiniteSet(S), NEW q \in Bijection(1 .. Cardinality(S), S)
  PROVE  /\ Cardinality(S) \in Nat /\ (S = {} <=> Cardinality(S) = 0)
         /\ DOMAIN q = 1 .. Cardinality(S) /\ Len(q) = Cardinality(S) /\ q \in Seq(S)
         /\ \A k \in DOMAIN q : q[k] \in S
         /\ \A s \in S : \E k \in DOMAIN q : q[k] = s
<1>1. Cardinality(S) \in Nat /\ (S = {} <=> Cardinality(S) = 0)
  BY FS_CardinalityType, FS_EmptySet
<1>2. q \in [1 .. Cardinality(S) -> S] /\ \A s \in S : \E k \in 1 .. Cardinality(S) : q[k] = s
  BY DEF Bijection, Injection, Surjection
<1>3. q \in Seq(S) /\ Len(q) = Cardinality(S)
  BY <1>1, <1>2
<1> QED BY <1>1, <1>2, <1>3

\* An address of a segment is within the width of an RVA of the base.
LEMMA WithinWidth ==
  ASSUME NEW b \in Nat, NEW v \in Nat, NEW m \in Nat, NEW w \in Nat, NEW a \in Nat,
         b <= v, v <= a, a <= v + m, v + m - b < w
  PROVE  a - b \in Nat /\ a - b < w
<1>1. a - b <= v + m - b
  OBVIOUS
<1>2. a - b \in Nat /\ v + m - b \in Nat
  OBVIOUS
<1> QED BY <1>1, <1>2

LEMMA MaxIs ==
  ASSUME NEW T \in SUBSET Nat, NEW m \in T, \A y \in T : y <= m
  PROVE  Max(T) = m
<1>1. \A x \in T : (\A y \in T : x >= y) => x = m
  OBVIOUS
<1>2. \A y \in T : m >= y
  OBVIOUS
<1> QED BY <1>1, <1>2 DEF Max

LEMMA MinSingle ==
  ASSUME NEW m \in Nat
  PROVE  Min({m}) = m
BY DEF Min

LEMMA Appended ==
  ASSUME NEW T, NEW s \in Seq(T), NEW x \in T
  PROVE  /\ Append(s, x) \in Seq(T) /\ Len(Append(s, x)) = Len(s) + 1
         /\ DOMAIN Append(s, x) = 1 .. Len(s) + 1 /\ Append(s, x)[Len(s) + 1] = x
         /\ \A i \in DOMAIN s : i \in DOMAIN Append(s, x) /\ Append(s, x)[i] = s[i]
         /\ \A i \in DOMAIN Append(s, x) : i \in DOMAIN s \/ i = Len(s) + 1
OBVIOUS

\* The base relocations of a step follow those that were there.
LEMMA Joined ==
  ASSUME baseRel \in Seq(Nat), NEW rs \in Seq(Nat), baseRel' = baseRel \o rs
  PROVE  /\ baseRel' \in Seq(Nat)
         /\ \A k \in DOMAIN baseRel : k \in DOMAIN baseRel' /\ baseRel'[k] = baseRel[k]
         /\ \A k \in DOMAIN rs :
              /\ Len(baseRel) + k \in DOMAIN baseRel' /\ Len(baseRel) + k \notin DOMAIN baseRel
              /\ baseRel'[Len(baseRel) + k] = rs[k]
         /\ \A k \in DOMAIN baseRel' :
              k \in DOMAIN baseRel \/ \E j \in DOMAIN rs : k = Len(baseRel) + j
<1> DEFINE s == baseRel
           u == baseRel'
<1>0. s \in Seq(Nat) /\ u = s \o rs
  OBVIOUS
<1> HIDE DEF s, u
<1>1. /\ u \in Seq(Nat) /\ Len(u) = Len(s) + Len(rs)
      /\ \A i \in 1 .. Len(s) + Len(rs) : u[i] = IF i <= Len(s) THEN s[i] ELSE rs[i - Len(s)]
  BY <1>0
<1>2. DOMAIN s = 1 .. Len(s) /\ DOMAIN rs = 1 .. Len(rs) /\ Len(s) \in Nat /\ Len(rs) \in Nat
      /\ DOMAIN u = 1 .. Len(s) + Len(rs)
  BY <1>0, <1>1
<1>3. ASSUME NEW k \in DOMAIN u, k \notin DOMAIN s
      PROVE  \E j \in DOMAIN rs : k = Len(s) + j
  <2>1. k - Len(s) \in DOMAIN rs /\ k = Len(s) + (k - Len(s))
    BY <1>2, <1>3
  <2> QED BY <2>1
<1>4. ASSUME NEW k \in DOMAIN rs
      PROVE  /\ Len(s) + k \in DOMAIN u /\ Len(s) + k \notin DOMAIN s
             /\ u[Len(s) + k] = rs[k]
  <2>1. /\ Len(s) + k \in DOMAIN u /\ Len(s) + k \notin DOMAIN s
        /\ ~(Len(s) + k <= Len(s)) /\ Len(s) + k - Len(s) = k
    BY <1>2
  <2> QED BY <1>1, <1>2, <2>1
<1>5. ASSUME NEW k \in DOMAIN s
      PROVE  k \in DOMAIN u /\ u[k] = s[k]
  <2>1. k \in 1 .. Len(s) + Len(rs) /\ k <= Len(s)
    BY <1>2
  <2> QED BY <1>1, <1>2, <2>1
<1> QED BY <1>1, <1>3, <1>4, <1>5 DEF s, u

-------------------------------------------------------------------------------
(* The cursor of RELR *)

LEMMA CursorStarts ==
  ASSUME NEW es
  PROVE  RelrCursor(es, 1) = 0
BY DEF RelrCursor

\* Entry by entry, the cursor moves as the decoder's does.
LEMMA CursorMoves ==
  ASSUME NEW es \in Seq(RelrEntry), NEW k \in DOMAIN es, RelrCursor(es, k) \in Nat
  PROVE  RelrCursor(es, k + 1) =
           IF es[k].kind = "address" THEN es[k].site + 8 ELSE RelrCursor(es, k) + 504
<1> DEFINE A(n) == {j \in 1 .. n - 1 : es[j].kind = "address"}
<1>1. k \in Nat \ {0} /\ k + 1 - 1 = k
  OBVIOUS
<1>2. RelrCursor(es, k) = IF A(k) = {} THEN 8 * 63 * (k - 1)
                          ELSE es[Max(A(k))].site + 8 + 8 * 63 * (k - Max(A(k)) - 1)
  BY DEF RelrCursor
<1>3. RelrCursor(es, k + 1) = IF A(k + 1) = {} THEN 8 * 63 * ((k + 1) - 1)
                              ELSE es[Max(A(k + 1))].site + 8 + 8 * 63 * ((k + 1) - Max(A(k + 1)) - 1)
  BY DEF RelrCursor
<1>4. CASE es[k].kind = "address"
  <2>1. k \in A(k + 1) /\ A(k + 1) \in SUBSET Nat /\ \A j \in A(k + 1) : j <= k
    BY <1>1, <1>4
  <2>2. Max(A(k + 1)) = k /\ A(k + 1) /= {}
    BY <2>1, MaxIs
  <2>3. es[k] \in RelrEntry
    OBVIOUS
  <2>4. es[k].site \in Nat
    BY <2>3, <1>4 DEF RelrEntry
  <2> HIDE DEF A
  <2>5. RelrCursor(es, k + 1) = es[k].site + 8 + 8 * 63 * ((k + 1) - k - 1)
    BY <1>3, <2>2
  <2>6. 8 * 63 * ((k + 1) - k - 1) = 0
    BY <1>1
  <2>7. RelrCursor(es, k + 1) = es[k].site + 8
    BY <2>4, <2>5, <2>6
  <2> QED BY <1>4, <2>7
<1>5. CASE es[k].kind /= "address"
  <2>1. A(k + 1) = A(k)
    BY <1>1, <1>5
  <2>2. CASE A(k) = {}
    <3> HIDE DEF A
    <3> QED BY <1>1, <1>2, <1>3, <1>5, <2>1, <2>2
  <2>3. CASE A(k) /= {}
    <3>1. A(k) \in SUBSET Nat /\ \A j \in A(k) : j <= k
      BY <1>1
    <3>2. PICK m \in A(k) : \A j \in A(k) : j <= m
      <4> HIDE DEF A
      <4> QED BY <2>3, <3>1, <1>1, GreatestExists
    <3>3. Max(A(k)) = m
      <4> HIDE DEF A
      <4> QED BY <3>1, <3>2, MaxIs
    <3>4. m \in Nat /\ es[m] \in RelrEntry /\ es[m].kind = "address"
      BY <3>2
    <3>5. es[m].site \in Nat
      BY <3>4 DEF RelrEntry
    <3> HIDE DEF A
    <3>6. RelrCursor(es, k) = es[m].site + 8 + 8 * 63 * (k - m - 1)
      BY <1>2, <2>3, <3>3
    <3>7. RelrCursor(es, k + 1) = es[m].site + 8 + 8 * 63 * ((k + 1) - m - 1)
      BY <1>3, <2>1, <2>3, <3>3
    <3>8. 8 * 63 * ((k + 1) - m - 1) = 8 * 63 * (k - m - 1) + 504 /\ 8 * 63 * (k - m - 1) \in Int
      BY <1>1, <3>4
    <3>9. RelrCursor(es, k + 1) = RelrCursor(es, k) + 504
      <4> DEFINE a == es[m].site + 8
                 b == 8 * 63 * (k - m - 1)
                 c == 8 * 63 * ((k + 1) - m - 1)
      <4>1. a \in Nat /\ b \in Int /\ c = b + 504
        <5>1. a \in Nat
          BY <3>5
        <5>2. b \in Int /\ c = b + 504
          BY <3>8
        <5> QED BY <5>1, <5>2
      <4>2. RelrCursor(es, k) = a + b /\ RelrCursor(es, k + 1) = a + c
        BY <3>6, <3>7
      <4> HIDE DEF a, b, c
      <4> QED BY <4>1, <4>2
    <3> QED BY <1>5, <3>9
  <2> QED BY <2>2, <2>3
<1> QED BY <1>4, <1>5

-------------------------------------------------------------------------------
(* The invariant *)

\* The images that the properties are about.
Good == Small /\ SegmentsApart

WordMaps == UNION {[S -> Nat] : S \in SUBSET Nat}

Section == [rva : Nat, foff : Nat, vsize : Nat, raw : Nat, data : Nat, words : WordMaps]

TypeInv ==
  /\ file \in Files
  /\ pc = "open" => /\ opts.base \in Nat /\ opts.sa \in Nat /\ opts.fa \in Nat
                    /\ loads = << >> /\ out = << >> /\ baseRel = << >>
                    /\ table = 1 /\ at = 1 /\ where = 0
  /\ pc \in {"open", "map", "table", "emitted", "error"}
  /\ out \in Seq(Section) /\ baseRel \in Seq(Nat)
  /\ foff \in Nat /\ table \in Nat \ {0} /\ at \in Nat \ {0} /\ where \in Nat

Opened == pc \in {"map", "table", "emitted"}

\* What the checks at the beginning leave, and the sorted segments.
OpenInv ==
  /\ opts.base \in Nat /\ opts.sa \in Nat \ {0} /\ opts.fa \in Nat \ {0} /\ opts.hr \in Nat
  /\ opts.hr = AlignUp(HeaderTotal(Len(loads) + 1), opts.fa)
  /\ Len(loads) \in Nat \ {0} /\ DOMAIN loads = 1 .. Len(loads)
  /\ \A i \in DOMAIN loads : Segment(loads[i])
  /\ \A i, j \in DOMAIN loads : i < j => loads[i].vaddr <= loads[j].vaddr
  /\ opts.base <= loads[1].vaddr
  /\ opts.base = 0 => opts.sa <= loads[1].vaddr
  /\ file.dyn /\ file.machine /\ PTLoads /= {}
  /\ \A i \in PTLoads : loads[1].vaddr <= file.segs[i].vaddr

\* The section made of a segment, but for its words.
Placed(i) ==
  /\ out[i].rva = (loads[i].vaddr - opts.base) % Narrow
  /\ out[i].rva % opts.sa = 0
  /\ out[i].vsize = loads[i].memsz /\ out[i].data = loads[i].filesz
  /\ out[i].raw = AlignUp(loads[i].filesz, opts.fa)
  /\ opts.hr <= out[i].foff

\* The sections so far, in the order of the file.
SectionsInv ==
  /\ \A i \in DOMAIN out : i \in DOMAIN loads /\ Placed(i)
  /\ \A i, j \in DOMAIN out : i < j => RawEnd(out[i]) <= out[j].foff

MapInv ==
  /\ SectionsInv /\ Len(out) <= Len(loads)
  /\ opts.hr <= foff /\ \A i \in DOMAIN out : RawEnd(out[i]) <= foff
  /\ \A i \in DOMAIN out : out[i].words = loads[i].words
  /\ baseRel = << >> /\ table = 1 /\ at = 1 /\ where = 0

\* The entries the decoder has behind it, and the sites of one.
Done(t, k) ==
  /\ t \in DOMAIN file.tables /\ k \in DOMAIN EntriesOf(t)
  /\ t < table \/ (t = table /\ k < at)

RelativeEntry(t, k) == file.tables[t].kind = "RELA" /\ EntriesOf(t)[k].type = "RELATIVE"

EntrySites(t, k) ==
  IF file.tables[t].kind = "RELR" THEN RelrDenotes(EntriesOf(t), k)
  ELSE IF RelativeEntry(t, k) THEN {EntriesOf(t)[k].offset} ELSE {}

\* The cursor is where the format has it.
CursorInv ==
  /\ table <= Len(file.tables) + 1
  /\ \A t \in DOMAIN file.tables : t < table => ~file.tables[t].ragged
  /\ table \in DOMAIN file.tables =>
       /\ at <= Len(EntriesOf(table)) + 1
       /\ file.tables[table].ragged => at = 1
       /\ file.tables[table].kind = "RELR" => where = RelrCursor(EntriesOf(table), at)

\* Base relocations are those of the entries done, and what was passed was sound.
SitesInv ==
  /\ \A t, k : Done(t, k) =>
       /\ file.tables[t].kind = "RELA" => EntriesOf(t)[k].type /= "other"
       /\ \A va \in EntrySites(t, k) :
            SiteBacked(va) /\ \E j \in DOMAIN baseRel : opts.base + baseRel[j] = va
  /\ \A j \in DOMAIN baseRel : \E t, k : Done(t, k) /\ opts.base + baseRel[j] \in EntrySites(t, k)

\* A word holds the addend of its entry, or what it held in the file.
WordsInv ==
  \A i \in DOMAIN loads :
    /\ \A l \in DOMAIN out[i].words : l < loads[i].filesz
    /\ \A l \in Nat : l < loads[i].filesz =>
         /\ \A t, k : Done(t, k) /\ RelativeEntry(t, k)
                        /\ EntriesOf(t)[k].offset = loads[i].vaddr + l =>
              WordAt(out[i].words, l) = EntriesOf(t)[k].addend
         /\ \/ WordAt(out[i].words, l) = WordAt(loads[i].words, l)
            \/ \E t, k : Done(t, k) /\ RelativeEntry(t, k)
                           /\ EntriesOf(t)[k].offset = loads[i].vaddr + l

TableInv ==
  /\ SectionsInv /\ Len(out) = Len(loads)
  /\ CursorInv
  /\ Good => SitesInv
  /\ Good /\ ListedOnce => WordsInv

PIEInv ==
  /\ TypeInv
  /\ Opened => OpenInv
  /\ pc = "map" => MapInv
  /\ pc = "table" => TableInv
  /\ PIEApart /\ HeadersFree /\ RebaseAgrees /\ PIEFailsForCause

-------------------------------------------------------------------------------
(* The beginning and the segments *)

\* The properties speak of images that are written and of files that are refused.
LEMMA PropertiesLater ==
  ASSUME pc \notin {"emitted", "error"}
  PROVE  PIEApart /\ HeadersFree /\ RebaseAgrees /\ PIEFailsForCause
BY DEF PIEApart, HeadersFree, RebaseAgrees, PIEFailsForCause

LEMMA InitInv == PIEInit => PIEInv
<1> SUFFICES ASSUME PIEInit PROVE PIEInv
  OBVIOUS
<1>1. pc = "open"
  BY DEF PIEInit
<1>2. PICK o \in Options : opts = [base |-> o.base, sa |-> o.sa, fa |-> o.fa, hr |-> 0]
  BY DEF PIEInit
<1>3. opts.base \in Nat /\ opts.sa \in Nat /\ opts.fa \in Nat
  BY <1>2, PIEAssumption DEF PIEOptions
<1>4. TypeInv
  BY <1>1, <1>3 DEF PIEInit, TypeInv
<1> QED BY <1>1, <1>4, PropertiesLater DEF PIEInv, Opened

LEMMA FileTyped ==
  ASSUME TypeInv
  PROVE  File(file)
BY PIEAssumption DEF TypeInv

\* The segments to load, in the order of their addresses.
LEMMA LoadsSorted ==
  ASSUME TypeInv, NEW q \in Sorted([i \in PTLoads |-> file.segs[i].vaddr]),
         NEW ls, ls = [k \in DOMAIN q |-> file.segs[q[k]]]
  PROVE  /\ Len(ls) \in Nat /\ DOMAIN ls = 1 .. Len(ls) /\ (ls = << >> <=> PTLoads = {})
         /\ \A k \in DOMAIN ls : Segment(ls[k])
         /\ \A j, k \in DOMAIN ls : j < k => ls[j].vaddr <= ls[k].vaddr
         /\ ls /= << >> => \A i \in PTLoads : ls[1].vaddr <= file.segs[i].vaddr
         /\ DOMAIN ls = DOMAIN q /\ \A k \in DOMAIN q : q[k] \in PTLoads
<1>1. PTLoads \in SUBSET (1 .. Len(file.segs)) /\ Len(file.segs) \in Nat
      /\ \A i \in PTLoads : Segment(file.segs[i])
  BY FileTyped DEF PTLoads, File
<1>2. IsFiniteSet(PTLoads)
  <2>1. 1 \in Int /\ Len(file.segs) \in Int
    BY <1>1
  <2>2. IsFiniteSet(1 .. Len(file.segs))
    BY <2>1, FS_Interval
  <2> QED BY <1>1, <2>2, FS_Subset
<1>3. /\ q \in Bijection(1 .. Cardinality(PTLoads), PTLoads)
      /\ \A j, k \in DOMAIN q : j < k => file.segs[q[j]].vaddr <= file.segs[q[k]].vaddr
  <2> DEFINE key == [i \in PTLoads |-> file.segs[i].vaddr]
  <2>1. DOMAIN key = PTLoads /\ \A i \in PTLoads : key[i] = file.segs[i].vaddr
    OBVIOUS
  <2>2. q \in Sorted(key)
    OBVIOUS
  <2> HIDE DEF key
  <2>3. /\ q \in Bijection(1 .. Cardinality(PTLoads), PTLoads)
        /\ \A j, k \in DOMAIN q : j < k => key[q[j]] <= key[q[k]]
    BY <2>1, <2>2 DEF Sorted
  <2>4. \A j \in DOMAIN q : q[j] \in PTLoads
    BY <2>3 DEF Bijection, Injection
  <2> QED BY <2>1, <2>3, <2>4
<1> DEFINE n == Cardinality(PTLoads)
<1>4. /\ n \in Nat /\ (PTLoads = {} <=> n = 0) /\ DOMAIN q = 1 .. n
      /\ \A k \in DOMAIN q : q[k] \in PTLoads
      /\ \A s \in PTLoads : \E k \in DOMAIN q : q[k] = s
  BY <1>2, <1>3, Enumerates
<1> HIDE DEF n
<1>5. DOMAIN ls = 1 .. n /\ Len(ls) = n /\ (ls = << >> <=> n = 0)
  BY <1>4
<1>6. \A k \in DOMAIN ls : ls[k] = file.segs[q[k]] /\ q[k] \in PTLoads
  BY <1>4, <1>5
<1>7. \A k \in DOMAIN ls : Segment(ls[k])
  BY <1>1, <1>6
<1>8. \A j, k \in DOMAIN ls : j < k => ls[j].vaddr <= ls[k].vaddr
  BY <1>3, <1>4, <1>5, <1>6
<1>9. ASSUME ls /= << >>, NEW i \in PTLoads
      PROVE  ls[1].vaddr <= file.segs[i].vaddr
  <2>1. PICK k \in DOMAIN q : q[k] = i
    BY <1>4
  <2>2. 1 \in DOMAIN ls /\ k \in DOMAIN ls /\ ls[k] = file.segs[i]
    BY <1>4, <1>5, <1>6, <1>9, <2>1
  <2>3. ls[1].vaddr \in Nat /\ ls[k].vaddr \in Nat
    BY <1>7, <2>2 DEF Segment
  <2>4. k = 1 \/ 1 < k
    BY <1>5, <2>2
  <2> QED BY <1>8, <2>2, <2>3, <2>4
<1> QED BY <1>4, <1>5, <1>7, <1>8, <1>9

\* A file that is refused at the beginning has no segments to load, or no place
\* for the first one.
LEMMA OpenStep ==
  ASSUME PIEInv, Open
  PROVE  PIEInv'
<1> USE DEF PIEInv
<1> DEFINE sa == Default(opts.sa, 4096)
           fa == Default(opts.fa, 512)
<1>1. pc = "open" /\ UNCHANGED <<file, out, table, at, where, baseRel, image>>
  BY DEF Open
<1>2. PICK q \in Sorted([i \in PTLoads |-> file.segs[i].vaddr]) :
         OpenWith([k \in DOMAIN q |-> file.segs[q[k]]], sa, fa)
  BY DEF Open
<1> DEFINE ls == [k \in DOMAIN q |-> file.segs[q[k]]]
           hr == AlignUp(HeaderTotal(ReservedSlots(Len(ls))), fa)
<1>3. /\ Len(ls) \in Nat /\ DOMAIN ls = 1 .. Len(ls) /\ (ls = << >> <=> PTLoads = {})
      /\ \A k \in DOMAIN ls : Segment(ls[k])
      /\ \A j, k \in DOMAIN ls : j < k => ls[j].vaddr <= ls[k].vaddr
      /\ ls /= << >> => \A i \in PTLoads : ls[1].vaddr <= file.segs[i].vaddr
      /\ DOMAIN ls = DOMAIN q /\ \A k \in DOMAIN q : q[k] \in PTLoads
  BY LoadsSorted
<1>4. /\ opts.base \in Nat /\ opts.sa \in Nat /\ opts.fa \in Nat
      /\ loads = << >> /\ out = << >> /\ baseRel = << >> /\ table = 1 /\ at = 1 /\ where = 0
  BY <1>1 DEF TypeInv
<1>5. sa \in Nat \ {0} /\ fa \in Nat \ {0}
  BY <1>4 DEF Default
<1>6. HeaderTotal(ReservedSlots(Len(ls))) \in Nat /\ ReservedSlots(Len(ls)) = Len(ls) + 1
  BY <1>3 DEF HeaderTotal, TableStart, SlotBytes, ReservedSlots
<1>7. hr \in Nat
  <2> HIDE DEF sa, fa, ls
  <2> QED BY <1>5, <1>6, AlignUpBounds
<1>8. ls /= << >> => 1 \in DOMAIN ls /\ ls[1].vaddr \in Nat /\ Len(ls) \in Nat \ {0}
  BY <1>3 DEF Segment
<1> HIDE DEF sa, fa, ls, hr
<1> DEFINE Refused == \/ ~file.dyn \/ ~file.machine \/ ls = << >>
                      \/ opts.base = 0 /\ ls[1].vaddr < sa
                      \/ ls[1].vaddr < opts.base
<1>9. CASE Refused
  <2>1. pc' = "error" /\ UNCHANGED <<opts, loads, foff>>
    BY <1>2, <1>9 DEF OpenWith, ls
  <2>2. TypeInv'
    BY <1>1, <2>1 DEF TypeInv
  <2>3. \/ ~file.dyn \/ ~file.machine \/ PTLoads = {}
        \/ \E i \in PTLoads :
             file.segs[i].vaddr < (IF opts.base = 0 THEN Default(opts.sa, 4096) ELSE opts.base)
    <3>1. CASE ls = << >> \/ ~file.dyn \/ ~file.machine
      BY <1>3, <3>1
    <3>2. CASE ls /= << >> /\ ((opts.base = 0 /\ ls[1].vaddr < sa) \/ ls[1].vaddr < opts.base)
      <4>1. PICK i \in PTLoads : ls[1] = file.segs[i]
        <5>1. q[1] \in PTLoads /\ ls[1] = file.segs[q[1]]
          <6>1. 1 \in DOMAIN q
            BY <1>3, <1>8, <3>2
          <6> QED BY <1>3, <6>1 DEF ls
        <5> QED BY <5>1
      <4>2. ls[1].vaddr < (IF opts.base = 0 THEN sa ELSE opts.base)
        BY <1>4, <1>8, <3>2
      <4> QED BY <4>1, <4>2 DEF sa
    <3> QED BY <1>9, <3>1, <3>2
  <2>4. Unfit'
    BY <1>1, <2>1, <2>3 DEF Unfit, PTLoads
  <2>5. PIEFailsForCause' /\ PIEApart' /\ HeadersFree' /\ RebaseAgrees'
    BY <2>1, <2>4 DEF PIEFailsForCause, PIEApart, HeadersFree, RebaseAgrees
  <2> QED BY <2>1, <2>2, <2>5 DEF Opened
<1>10. CASE ~Refused
  <2>1. /\ opts' = [base |-> ImageBase([opts EXCEPT !.sa = sa], ls), sa |-> sa, fa |-> fa, hr |-> hr]
        /\ loads' = ls /\ foff' = hr /\ pc' = "map"
    BY <1>2, <1>10 DEF OpenWith, ls, hr
  <2>2. TypeInv'
    BY <1>1, <1>7, <2>1 DEF TypeInv
  <2>3. ls /= << >> /\ file.dyn /\ file.machine
    BY <1>10
  <2>4. opts'.base = IF opts.base = 0 THEN ls[1].vaddr - sa ELSE opts.base
    BY <2>1, <1>4 DEF ImageBase
  <2>5. /\ opts'.base \in Nat /\ opts'.base <= ls[1].vaddr
        /\ opts'.base = 0 => sa <= ls[1].vaddr
    BY <1>4, <1>5, <1>8, <1>10, <2>3, <2>4
  <2>6. opts'.hr = AlignUp(HeaderTotal(Len(loads') + 1), opts'.fa)
    BY <1>6, <2>1 DEF hr
  <2>7. OpenInv'
    BY <1>1, <1>3, <1>5, <1>7, <1>8, <2>1, <2>3, <2>5, <2>6 DEF OpenInv, PTLoads
  <2>8. MapInv'
    <3>1. out' = << >> /\ Len(out') = 0 /\ DOMAIN out' = {}
      BY <1>1, <1>4
    <3> QED BY <1>1, <1>3, <1>4, <1>7, <2>1, <3>1 DEF MapInv, SectionsInv
  <2>9. PIEFailsForCause' /\ PIEApart' /\ HeadersFree' /\ RebaseAgrees'
    BY <2>1, PropertiesLater DEF PIEFailsForCause, PIEApart, HeadersFree, RebaseAgrees
  <2> QED BY <2>1, <2>2, <2>7, <2>8, <2>9 DEF Opened
<1> QED BY <1>9, <1>10

\* Addresses ascend from the first segment on, and RVAs of a small image are whole.
LEMMA Ascent ==
  ASSUME OpenInv, NEW i \in DOMAIN loads
  PROVE  /\ loads[i].vaddr \in Nat /\ loads[i].filesz \in Nat /\ loads[i].memsz \in Nat
         /\ i \in Nat /\ 1 \in DOMAIN loads
         /\ loads[1].vaddr \in Nat /\ loads[1].vaddr <= loads[i].vaddr
         /\ loads[i].vaddr - opts.base \in Nat
         /\ Small => (loads[i].vaddr - opts.base) % Narrow = loads[i].vaddr - opts.base
<1>1. /\ loads[i].vaddr \in Nat /\ loads[i].filesz \in Nat /\ loads[i].memsz \in Nat
      /\ i \in Nat /\ 1 \in DOMAIN loads /\ loads[1].vaddr \in Nat
      /\ i = 1 \/ 1 < i
  BY DEF OpenInv, Segment
<1>2. loads[1].vaddr <= loads[i].vaddr
  BY <1>1 DEF OpenInv
<1>3. loads[i].vaddr - opts.base \in Nat
  BY <1>1, <1>2 DEF OpenInv
<1>4. ASSUME Small
      PROVE  (loads[i].vaddr - opts.base) % Narrow = loads[i].vaddr - opts.base
  <2>1. loads[i].vaddr + loads[i].memsz - opts.base < Narrow
    BY <1>4 DEF Small
  <2>2. loads[i].vaddr - opts.base < Narrow /\ Narrow \in Nat \ {0}
    <3>1. opts.base \in Nat /\ opts.base <= loads[1].vaddr /\ Narrow \in Nat \ {0}
      BY PIEAssumption DEF OpenInv
    <3>2. opts.base <= loads[i].vaddr
      BY <1>1, <1>2, <3>1
    <3>3. loads[i].vaddr <= loads[i].vaddr + loads[i].memsz
      BY <1>1
    <3> QED BY <1>1, <2>1, <3>1, <3>2, <3>3, WithinWidth
  <2> DEFINE d == loads[i].vaddr - opts.base
  <2> HIDE DEF d
  <2>3. d \in Nat /\ d < Narrow
    BY <1>3, <2>2 DEF d
  <2>4. d % Narrow = d
    BY <2>2, <2>3
  <2> QED BY <2>4 DEF d
<1> QED BY <1>1, <1>2, <1>3, <1>4

\* What is behind the checks at the beginning stays so while the segments are.
LEMMA OpenInvKeeps ==
  ASSUME OpenInv, UNCHANGED <<file, opts, loads>>
  PROVE  OpenInv'
BY DEF OpenInv, PTLoads

LEMMA MapSegmentStep ==
  ASSUME PIEInv, MapSegment
  PROVE  PIEInv'
<1> USE DEF PIEInv
<1>n. PICK n : n = Len(out) + 1
  OBVIOUS
<1> DEFINE p   == loads[n]
           rva == (p.vaddr - opts.base) % Narrow
           raw == AlignUp(p.filesz, opts.fa)
           sec == [rva |-> rva, foff |-> foff, vsize |-> p.memsz, raw |-> raw,
                   data |-> p.filesz, words |-> p.words]
<1>1. /\ pc = "map" /\ Len(out) < Len(loads)
      /\ UNCHANGED <<file, opts, loads, table, at, where, baseRel, image>>
  BY DEF MapSegment
<1>2. TypeInv /\ OpenInv /\ MapInv
  BY <1>1 DEF Opened
<1>3. OpenInv'
  BY <1>1, <1>2, OpenInvKeeps
<1>4. /\ out \in Seq(Section) /\ Len(out) \in Nat /\ DOMAIN out = 1 .. Len(out)
      /\ foff \in Nat /\ n \in DOMAIN loads
  BY <1>n, <1>1, <1>2 DEF TypeInv, OpenInv
<1>5. p.vaddr \in Nat /\ p.filesz \in Nat /\ p.memsz \in Nat /\ p.vaddr - opts.base \in Nat
  BY <1>2, <1>4, Ascent
<1>6. CASE rva % opts.sa /= 0
  <2>1. pc' = "error" /\ UNCHANGED <<out, foff>>
    BY <1>n, <1>6 DEF MapSegment
  <2>2. TypeInv'
    BY <1>1, <1>2, <2>1 DEF TypeInv
  <2>3. ASSUME Small PROVE Unfit'
    <3>1. (p.vaddr - opts.base) % opts.sa /= 0
      BY <1>2, <1>4, <1>6, <2>3, Ascent
    <3>2. \E i \in DOMAIN loads : (loads[i].vaddr - opts.base) % opts.sa /= 0
      BY <1>4, <3>1
    <3> QED BY <1>1, <3>2 DEF Unfit
  <2>4. PIEFailsForCause' /\ PIEApart' /\ HeadersFree' /\ RebaseAgrees'
    BY <1>1, <2>1, <2>3 DEF PIEFailsForCause, PIEApart, HeadersFree, RebaseAgrees, Small
  <2> QED BY <2>1, <2>2, <2>4 DEF Opened
<1>7. CASE rva % opts.sa = 0
  <2>1. out' = Append(out, sec) /\ foff' = foff + raw /\ pc' = "map"
    BY <1>n, <1>1, <1>7 DEF MapSegment
  <2>2. rva \in Nat /\ raw \in Nat
    <3>1. Narrow \in Nat \ {0} /\ opts.fa \in Nat \ {0}
      BY <1>2, PIEAssumption DEF OpenInv
    <3>2. raw \in Nat
      BY <1>5, <3>1, AlignUpBounds
    <3> DEFINE d == p.vaddr - opts.base
    <3>3. d \in Nat
      BY <1>5
    <3> HIDE DEF d
    <3>4. d % Narrow \in Nat
      BY <3>1, <3>3
    <3> QED BY <3>2, <3>4 DEF d
  <2>3. p.words \in WordMaps
    <3>1. Segment(p)
      BY <1>2, <1>4 DEF OpenInv
    <3>2. p.words \in [DOMAIN p.words -> Nat] /\ DOMAIN p.words \in SUBSET Nat
      BY <3>1 DEF Segment
    <3> QED BY <3>2 DEF WordMaps
  <2>4. sec \in Section
    BY <1>4, <1>5, <2>2, <2>3 DEF Section
  <2>5. /\ out' \in Seq(Section) /\ Len(out') = n /\ DOMAIN out' = 1 .. n
        /\ out'[n] = sec /\ \A i \in DOMAIN out : i \in DOMAIN out' /\ out'[i] = out[i]
        /\ \A i \in DOMAIN out' : i = n \/ i \in DOMAIN out
    <3> HIDE DEF sec
    <3> QED BY <1>n, <1>4, <2>1, <2>4
  <2>6. TypeInv'
    BY <1>1, <1>2, <1>4, <2>1, <2>2, <2>5 DEF TypeInv
  <2>7. /\ sec.rva = rva /\ sec.foff = foff /\ sec.vsize = p.memsz /\ sec.raw = raw
        /\ sec.data = p.filesz /\ sec.words = p.words
    OBVIOUS
  <2>8. RawEnd(sec) = foff'
    BY <2>1, <2>7 DEF RawEnd
  <2>9. foff <= foff' /\ foff' \in Nat /\ opts.hr \in Nat /\ opts.hr <= foff
    BY <1>2, <1>4, <2>1, <2>2 DEF OpenInv, MapInv
  <2> HIDE DEF sec
  <2>10. ASSUME NEW i \in DOMAIN out'
         PROVE  /\ i \in DOMAIN loads' /\ Placed(i)'
                /\ RawEnd(out'[i]) <= foff' /\ out'[i].words = loads'[i].words
    <3>1. CASE i = n
      <4>1. Placed(n)'
        BY <1>1, <1>7, <2>5, <2>7, <2>9 DEF Placed
      <4> QED BY <1>1, <1>4, <2>5, <2>7, <2>8, <2>9, <3>1, <4>1
    <3>2. CASE i \in DOMAIN out
      <4>1. /\ i \in DOMAIN loads /\ Placed(i) /\ RawEnd(out[i]) <= foff
            /\ out[i].words = loads[i].words
        BY <1>2, <3>2 DEF MapInv, SectionsInv
      <4>2. RawEnd(out[i]) \in Nat
        <5>1. out[i] \in Section
          BY <1>4, <3>2
        <5> QED BY <5>1 DEF RawEnd, Section
      <4>3. Placed(i)'
        BY <1>1, <2>5, <3>2, <4>1 DEF Placed
      <4> QED BY <1>1, <1>4, <2>5, <2>9, <3>2, <4>1, <4>2, <4>3
    <3> QED BY <2>5, <3>1, <3>2
  <2>11. ASSUME NEW i \in DOMAIN out', NEW j \in DOMAIN out', i < j
         PROVE  RawEnd(out'[i]) <= out'[j].foff
    <3>1. i \in DOMAIN out
      BY <1>4, <2>5, <2>11
    <3>2. CASE j = n
      BY <1>2, <2>5, <2>7, <3>1, <3>2 DEF MapInv
    <3>3. CASE j \in DOMAIN out
      BY <1>2, <2>5, <2>11, <3>1, <3>3 DEF MapInv, SectionsInv
    <3> QED BY <2>5, <3>2, <3>3
  <2>12. SectionsInv'
    BY <2>10, <2>11 DEF SectionsInv
  <2>13. MapInv'
    BY <1>1, <1>2, <1>4, <2>5, <2>9, <2>10, <2>12 DEF MapInv
  <2>14. PIEFailsForCause' /\ PIEApart' /\ HeadersFree' /\ RebaseAgrees'
    BY <2>1, PropertiesLater DEF PIEFailsForCause, PIEApart, HeadersFree, RebaseAgrees
  <2> QED BY <1>3, <2>1, <2>6, <2>13, <2>14 DEF Opened
<1> QED BY <1>6, <1>7

\* Before the first entry nothing is done.
LEMMA MappedStep ==
  ASSUME PIEInv, Mapped
  PROVE  PIEInv'
<1> USE DEF PIEInv
<1>1. /\ pc = "map" /\ Len(out) = Len(loads) /\ pc' = "table"
      /\ UNCHANGED <<file, opts, loads, out, foff, table, at, where, baseRel, image>>
  BY DEF Mapped
<1>2. TypeInv /\ OpenInv /\ MapInv
  BY <1>1 DEF Opened
<1>3. OpenInv'
  BY <1>1, <1>2, OpenInvKeeps
<1>4. TypeInv'
  BY <1>1, <1>2 DEF TypeInv
<1>5. SectionsInv'
  BY <1>1, <1>2 DEF MapInv, SectionsInv, Placed
<1>6. file.tables \in Seq(Table)
  BY <1>2, FileTyped DEF File
<1>7. CursorInv
  <2>1. Len(file.tables) \in Nat /\ DOMAIN file.tables = 1 .. Len(file.tables)
    BY <1>6
  <2>2. table = 1 /\ at = 1 /\ where = 0
    BY <1>2 DEF MapInv
  <2>3. ASSUME table \in DOMAIN file.tables PROVE Len(EntriesOf(table)) \in Nat
    <3>1. file.tables[table] \in Table
      BY <1>6, <2>3
    <3>2. EntriesOf(table) \in Seq(RelaEntry) \/ EntriesOf(table) \in Seq(RelrEntry)
      BY <3>1 DEF Table, EntriesOf
    <3> QED BY <3>2
  <2> QED BY <2>1, <2>2, <2>3, CursorStarts DEF CursorInv
<1>8. CursorInv'
  BY <1>1, <1>7 DEF CursorInv, EntriesOf
<1>9. \A t, k : ~Done(t, k)'
  <2> SUFFICES ASSUME NEW t, NEW k, Done(t, k)' PROVE FALSE
    OBVIOUS
  <2>1. /\ t \in DOMAIN file.tables /\ k \in DOMAIN EntriesOf(t)
        /\ t < 1 \/ (t = 1 /\ k < 1)
    BY <1>1, <1>2 DEF Done, EntriesOf, MapInv
  <2>2. t \in Nat \ {0}
    BY <1>6, <2>1
  <2>3. EntriesOf(t) \in Seq(RelaEntry) \/ EntriesOf(t) \in Seq(RelrEntry)
    BY <1>6, <2>1 DEF Table, EntriesOf
  <2>4. k \in Nat \ {0}
    BY <2>1, <2>3
  <2> QED BY <2>1, <2>2, <2>4
<1>10. SitesInv'
  BY <1>1, <1>2, <1>9 DEF SitesInv, MapInv
<1>11. WordsInv'
  <2>1. \A i \in DOMAIN loads : out[i].words = loads[i].words
    BY <1>1, <1>2 DEF MapInv, OpenInv, TypeInv
  <2>2. \A i \in DOMAIN loads : \A l \in DOMAIN loads[i].words : l < loads[i].filesz
    BY <1>2 DEF OpenInv, Segment
  <2> QED BY <1>1, <1>9, <2>1, <2>2 DEF WordsInv, WordAt
<1>12. TableInv'
  BY <1>1, <1>5, <1>8, <1>10, <1>11 DEF TableInv
<1>13. PIEFailsForCause' /\ PIEApart' /\ HeadersFree' /\ RebaseAgrees'
  BY <1>1 DEF PIEFailsForCause, PIEApart, HeadersFree, RebaseAgrees
<1> QED BY <1>1, <1>3, <1>4, <1>12, <1>13 DEF Opened

-------------------------------------------------------------------------------
(* Entries *)

\* In a good image the section that the code looks a site up in is the segment
\* that has all of it in its file data.
LEMMA HeldBacked ==
  ASSUME OpenInv, SectionsInv, Len(out) = Len(loads), out \in Seq(Section), Good, NEW va \in Nat
  PROVE  /\ Holds(va) <=> SiteBacked(va)
         /\ \A i \in DOMAIN loads :
              loads[i].vaddr <= va /\ va < loads[i].vaddr + loads[i].filesz => sectionForVA(va) = i
         /\ \A i \in DOMAIN loads :
              loads[i].vaddr <= va /\ va + 8 <= loads[i].vaddr + loads[i].filesz =>
                /\ sectionForVA(va) = i /\ Loc(i, va) = va - loads[i].vaddr
                /\ SiteRVA(va) = va - opts.base /\ SiteRVA(va) \in Nat
<1>1. /\ opts.base \in Nat /\ DOMAIN loads = 1 .. Len(loads) /\ Len(loads) \in Nat
      /\ DOMAIN out = DOMAIN loads /\ Small /\ SegmentsApart
  BY DEF OpenInv, Good
<1>2. ASSUME NEW i \in DOMAIN loads
      PROVE  /\ loads[i].vaddr \in Nat /\ loads[i].filesz \in Nat /\ loads[i].memsz \in Nat
             /\ opts.base + out[i].rva = loads[i].vaddr /\ out[i].data = loads[i].filesz
             /\ loads[i].filesz <= loads[i].memsz
             /\ loads[i].vaddr + loads[i].memsz - opts.base < Narrow
  <2>1. Placed(i)
    BY <1>1, <1>2 DEF SectionsInv
  <2>2. out[i].rva = loads[i].vaddr - opts.base /\ loads[i].vaddr \in Nat
    BY <1>1, <1>2, <2>1, Ascent DEF Placed
  <2>3. opts.base + out[i].rva = loads[i].vaddr
    BY <1>1, <2>2
  <2> QED BY <1>1, <1>2, <2>1, <2>3, Ascent DEF Placed, SegmentsApart, Small
<1>3. \A i \in DOMAIN loads :
        Covers(out[i], va) <=> loads[i].vaddr <= va /\ va < loads[i].vaddr + loads[i].filesz
  BY <1>2 DEF Covers
<1>4. ASSUME NEW i \in DOMAIN loads, Covers(out[i], va)
      PROVE  sectionForVA(va) = i
  <2>1. ASSUME NEW j \in DOMAIN loads, Covers(out[j], va) PROVE j = i
    <3>1. ASSUME NEW a \in DOMAIN loads, NEW b \in DOMAIN loads, a < b,
                 Covers(out[a], va), Covers(out[b], va)
          PROVE  FALSE
      <4>1. loads[a].vaddr + loads[a].memsz <= loads[b].vaddr
        BY <1>1, <3>1 DEF SegmentsApart
      <4>2. va < loads[a].vaddr + loads[a].filesz /\ loads[b].vaddr <= va
        BY <1>3, <3>1
      <4> QED BY <1>2, <4>1, <4>2
    <3>2. i \in Nat /\ j \in Nat
      BY <1>1
    <3>3. ~(i < j) /\ ~(j < i)
      BY <1>4, <2>1, <3>1
    <3> QED BY <3>2, <3>3
  <2>2. {j \in DOMAIN out : Covers(out[j], va)} = {i}
    BY <1>1, <1>4, <2>1
  <2>3. Min({i}) = i
    BY <1>1, MinSingle
  <2> QED BY <2>2, <2>3 DEF sectionForVA
<1>5. ASSUME NEW i \in DOMAIN loads, loads[i].vaddr <= va,
             va + 8 <= loads[i].vaddr + loads[i].filesz
      PROVE  /\ sectionForVA(va) = i /\ Loc(i, va) = va - loads[i].vaddr
             /\ SiteRVA(va) = va - opts.base /\ SiteRVA(va) \in Nat /\ Holds(va)
  <2>1. va < loads[i].vaddr + loads[i].filesz
    BY <1>2, <1>5
  <2>2. Covers(out[i], va)
    BY <1>3, <1>5, <2>1
  <2>3. sectionForVA(va) = i
    BY <1>4, <2>2
  <2>4. Loc(i, va) = va - loads[i].vaddr
    BY <1>2 DEF Loc
  <2>5. va - opts.base \in Nat /\ va - opts.base < Narrow
    <3>1. opts.base \in Nat /\ loads[i].vaddr - opts.base \in Nat
      BY <1>1, Ascent
    <3>2. /\ loads[i].vaddr \in Nat /\ loads[i].filesz \in Nat /\ loads[i].memsz \in Nat
          /\ loads[i].filesz <= loads[i].memsz
          /\ loads[i].vaddr + loads[i].memsz - opts.base < Narrow
      BY <1>2
    <3>3. opts.base <= loads[i].vaddr
      BY <3>1, <3>2
    <3>4. Narrow \in Nat
      BY PIEAssumption
    <3>5. va <= loads[i].vaddr + loads[i].memsz
      BY <2>1, <3>2
    <3> QED BY <1>5, <3>1, <3>2, <3>3, <3>4, <3>5, WithinWidth
  <2>6. SiteRVA(va) = va - opts.base
    <3> DEFINE d == va - opts.base
    <3>1. d \in Nat /\ d < Narrow /\ Narrow \in Nat \ {0}
      BY <2>5, PIEAssumption
    <3> HIDE DEF d
    <3>2. d % Narrow = d
      BY <3>1
    <3> QED BY <3>2 DEF d, SiteRVA
  <2>7. Loc(i, va) + 8 <= out[i].data /\ i /= 0
    BY <1>1, <1>2, <1>5, <2>4
  <2>8. Holds(va)
    BY <2>3, <2>7 DEF Holds
  <2> QED BY <2>3, <2>4, <2>5, <2>6, <2>8
<1>6. ASSUME Holds(va) PROVE SiteBacked(va)
  <2> DEFINE found == {j \in DOMAIN out : Covers(out[j], va)}
  <2>1. found /= {}
    BY <1>6 DEF Holds, sectionForVA
  <2>2. PICK i \in DOMAIN loads : Covers(out[i], va)
    BY <1>1, <2>1
  <2>3. sectionForVA(va) = i
    BY <1>4, <2>2
  <2>4. Loc(i, va) + 8 <= out[i].data
    BY <1>6, <2>3 DEF Holds
  <2>5. loads[i].vaddr <= va /\ va + 8 <= loads[i].vaddr + loads[i].filesz
    BY <1>2, <1>3, <2>2, <2>4 DEF Loc
  <2> QED BY <2>5 DEF SiteBacked
<1> QED BY <1>3, <1>4, <1>5, <1>6 DEF SiteBacked

\* The entry that the decoder is at.
LEMMA EntryTyped ==
  ASSUME TypeInv, NEW kind, InTable(kind)
  PROVE  /\ pc = "table" /\ table \in DOMAIN file.tables /\ at \in DOMAIN EntriesOf(table)
         /\ file.tables[table].kind = kind /\ ~file.tables[table].ragged
         /\ file.tables \in Seq(Table) /\ Entry = EntriesOf(table)[at]
         /\ kind = "RELA" => EntriesOf(table) \in Seq(RelaEntry) /\ Entry \in RelaEntry
         /\ kind = "RELR" => EntriesOf(table) \in Seq(RelrEntry) /\ Entry \in RelrEntry
         /\ Len(EntriesOf(table)) \in Nat /\ DOMAIN EntriesOf(table) = 1 .. Len(EntriesOf(table))
<1>1. /\ pc = "table" /\ table \in DOMAIN file.tables /\ at \in DOMAIN EntriesOf(table)
      /\ file.tables[table].kind = kind /\ ~file.tables[table].ragged
      /\ Entry = EntriesOf(table)[at]
  BY DEF InTable, Entry, EntriesOf
<1>2. file.tables \in Seq(Table)
  BY FileTyped DEF File
<1>3. file.tables[table] \in Table
  BY <1>1, <1>2
<1>4. kind = "RELA" => EntriesOf(table) \in Seq(RelaEntry)
  BY <1>1, <1>3 DEF Table, EntriesOf
<1>5. kind = "RELR" => EntriesOf(table) \in Seq(RelrEntry)
  BY <1>1, <1>3 DEF Table, EntriesOf
<1>6. kind = "RELA" \/ kind = "RELR"
  BY <1>1, <1>3 DEF Table
<1>7. CASE kind = "RELA"
  <2>1. EntriesOf(table) \in Seq(RelaEntry)
    BY <1>4, <1>7
  <2> QED BY <1>1, <1>2, <1>7, <2>1
<1>8. CASE kind = "RELR"
  <2>1. EntriesOf(table) \in Seq(RelrEntry)
    BY <1>5, <1>8
  <2> QED BY <1>1, <1>2, <1>8, <2>1
<1> QED BY <1>6, <1>7, <1>8

\* The sites that RELR selects at the cursor are those that the entry denotes.
LEMMA SitesHere ==
  ASSUME TypeInv, CursorInv, InTable("RELR")
  PROVE  /\ RelrSites = EntrySites(table, at)
         /\ RelrSites \in SUBSET Nat /\ IsFiniteSet(RelrSites)
<1>1. /\ Entry = EntriesOf(table)[at] /\ Entry \in RelrEntry
      /\ file.tables[table].kind = "RELR" /\ table \in DOMAIN file.tables
  BY EntryTyped
<1>2. where = RelrCursor(EntriesOf(table), at) /\ where \in Nat
  BY <1>1 DEF CursorInv, TypeInv
<1>3. RelrSites = EntrySites(table, at)
  BY <1>1, <1>2 DEF RelrSites, EntrySites, RelrDenotes
<1>4. CASE Entry.kind = "address"
  <2>1. Entry.site \in Nat /\ RelrSites = {Entry.site}
    BY <1>1, <1>4 DEF RelrEntry, RelrSites
  <2> QED BY <1>3, <2>1, FS_Singleton
<1>5. CASE Entry.kind /= "address"
  <2>1. Entry.bits \in SUBSET (0 .. 62) /\ RelrSites = {where + 8 * b : b \in Entry.bits}
    BY <1>1, <1>5 DEF RelrEntry, RelrSites
  <2>2. \A va \in RelrSites : va \in Nat /\ va <= where + 496
    BY <1>2, <2>1
  <2>3. RelrSites \in SUBSET Nat /\ where + 496 \in Nat
    BY <1>2, <2>2
  <2> QED BY <1>3, <2>2, <2>3, FS_BoundedSetOfNaturals
<1> QED BY <1>4, <1>5

\* What is behind the decoder when it moves on.
LEMMA DoneNext ==
  ASSUME TypeInv, NEW kind, InTable(kind), UNCHANGED <<file, table>>, at' = at + 1
  PROVE  \A t, k : Done(t, k)' <=> Done(t, k) \/ (t = table /\ k = at)
<1>1. /\ table \in DOMAIN file.tables /\ at \in DOMAIN EntriesOf(table) /\ at \in Nat
      /\ table \in Nat /\ \A k \in DOMAIN EntriesOf(table) : k \in Nat
  BY EntryTyped DEF TypeInv
<1> SUFFICES ASSUME NEW t, NEW k
             PROVE  Done(t, k)' <=> Done(t, k) \/ (t = table /\ k = at)
  OBVIOUS
<1>2. Done(t, k)' <=> /\ t \in DOMAIN file.tables /\ k \in DOMAIN EntriesOf(t)
                      /\ t < table \/ (t = table /\ k < at + 1)
  BY DEF Done, EntriesOf
<1>3. CASE t = table
  <2>1. k \in DOMAIN EntriesOf(table) => (k < at + 1 <=> k < at \/ k = at)
    BY <1>1
  <2>2. ~(table < table)
    BY <1>1
  <2> QED BY <1>1, <1>2, <1>3, <2>1, <2>2 DEF Done
<1>4. CASE t /= table
  BY <1>2, <1>4 DEF Done
<1> QED BY <1>3, <1>4

LEMMA CursorNext ==
  ASSUME TypeInv, CursorInv, NEW kind, InTable(kind), UNCHANGED <<file, table>>, at' = at + 1,
         kind = "RELR" =>
           where' = IF Entry.kind = "address" THEN Entry.site + 8 ELSE where + 8 * MapWords
  PROVE  CursorInv'
<1>1. /\ table \in DOMAIN file.tables /\ at \in DOMAIN EntriesOf(table)
      /\ file.tables[table].kind = kind /\ ~file.tables[table].ragged
      /\ Entry = EntriesOf(table)[at]
      /\ kind = "RELR" => EntriesOf(table) \in Seq(RelrEntry)
      /\ Len(EntriesOf(table)) \in Nat /\ DOMAIN EntriesOf(table) = 1 .. Len(EntriesOf(table))
  BY EntryTyped
<1>2. at + 1 <= Len(EntriesOf(table)) + 1
  BY <1>1
<1>3. ASSUME kind = "RELR" PROVE where' = RelrCursor(EntriesOf(table), at + 1)
  <2>1. where = RelrCursor(EntriesOf(table), at) /\ where \in Nat
    BY <1>1, <1>3 DEF CursorInv, TypeInv
  <2>2. RelrCursor(EntriesOf(table), at + 1) =
          IF Entry.kind = "address" THEN Entry.site + 8 ELSE where + 504
    BY <1>1, <1>3, <2>1, CursorMoves
  <2>3. 8 * MapWords = 504
    BY DEF MapWords
  <2> QED BY <1>3, <2>2, <2>3
<1>4. EntriesOf(table)' = EntriesOf(table)
  BY DEF EntriesOf
<1> QED BY <1>1, <1>2, <1>3, <1>4 DEF CursorInv

\* The base relocations of one more entry.
LEMMA SitesNext ==
  ASSUME TypeInv, OpenInv, SitesInv, NEW kind, InTable(kind), UNCHANGED <<file, opts, loads, table>>,
         at' = at + 1, kind = "RELA" => Entry.type /= "other",
         NEW rs \in Seq(Nat), baseRel' = baseRel \o rs,
         \A va \in EntrySites(table, at) :
           SiteBacked(va) /\ \E j \in DOMAIN rs : opts.base + rs[j] = va,
         \A j \in DOMAIN rs : opts.base + rs[j] \in EntrySites(table, at)
  PROVE  SitesInv'
<1>1. \A t, k : Done(t, k)' <=> Done(t, k) \/ (t = table /\ k = at)
  BY DoneNext
<1>2. baseRel \in Seq(Nat)
  BY DEF TypeInv
<1>3. /\ \A k \in DOMAIN baseRel : k \in DOMAIN baseRel' /\ baseRel'[k] = baseRel[k]
      /\ \A k \in DOMAIN rs : Len(baseRel) + k \in DOMAIN baseRel'
                              /\ baseRel'[Len(baseRel) + k] = rs[k]
      /\ \A k \in DOMAIN baseRel' : k \in DOMAIN baseRel \/ \E j \in DOMAIN rs : k = Len(baseRel) + j
  BY <1>2, Joined
<1>4. \A t, k : EntrySites(t, k)' = EntrySites(t, k)
  <2>1. file' = file
    OBVIOUS
  <2> QED BY <2>1 DEF EntrySites, RelativeEntry, EntriesOf
<1>5. \A va : SiteBacked(va)' <=> SiteBacked(va)
  BY DEF SiteBacked
<1>6. ASSUME NEW t, NEW k, Done(t, k)'
      PROVE  /\ file'.tables[t].kind = "RELA" => EntriesOf(t)'[k].type /= "other"
             /\ \A va \in EntrySites(t, k)' :
                  SiteBacked(va)' /\ \E j \in DOMAIN baseRel' : opts'.base + baseRel'[j] = va
  <2>1. CASE Done(t, k)
    <3>1. /\ file.tables[t].kind = "RELA" => EntriesOf(t)[k].type /= "other"
          /\ \A va \in EntrySites(t, k) :
               SiteBacked(va) /\ \E j \in DOMAIN baseRel : opts.base + baseRel[j] = va
      BY <2>1 DEF SitesInv
    <3>2. \A j \in DOMAIN baseRel : j \in DOMAIN baseRel' /\ opts'.base + baseRel'[j] = opts.base + baseRel[j]
      BY <1>3
    <3>3. EntriesOf(t)' = EntriesOf(t)
      BY DEF EntriesOf
    <3>4. ASSUME NEW va \in EntrySites(t, k)
          PROVE  \E j \in DOMAIN baseRel' : opts'.base + baseRel'[j] = va
      <4>1. PICK j \in DOMAIN baseRel : opts.base + baseRel[j] = va
        BY <3>1
      <4> QED BY <3>2, <4>1
    <3> QED BY <1>4, <1>5, <3>1, <3>3, <3>4
  <2>2. CASE t = table /\ k = at
    <3>1. EntriesOf(t)' = EntriesOf(t) /\ Entry = EntriesOf(t)[k] /\ file.tables[t].kind = kind
      BY <2>2, EntryTyped DEF EntriesOf
    <3>2. \A j \in DOMAIN rs : Len(baseRel) + j \in DOMAIN baseRel'
                               /\ opts'.base + baseRel'[Len(baseRel) + j] = opts.base + rs[j]
      BY <1>3
    <3>3. ASSUME NEW va \in EntrySites(t, k)
          PROVE  \E j \in DOMAIN baseRel' : opts'.base + baseRel'[j] = va
      <4>1. PICK j \in DOMAIN rs : opts.base + rs[j] = va
        BY <2>2
      <4> QED BY <3>2, <4>1
    <3> QED BY <1>4, <1>5, <2>2, <3>1, <3>3
  <2> QED BY <1>1, <1>6, <2>1, <2>2
<1>7. ASSUME NEW j \in DOMAIN baseRel'
      PROVE  \E t, k : Done(t, k)' /\ opts'.base + baseRel'[j] \in EntrySites(t, k)'
  <2>1. CASE j \in DOMAIN baseRel
    <3>1. PICK t, k : Done(t, k) /\ opts.base + baseRel[j] \in EntrySites(t, k)
      BY <2>1 DEF SitesInv
    <3> QED BY <1>1, <1>3, <1>4, <2>1, <3>1
  <2>2. CASE j \notin DOMAIN baseRel
    <3>1. PICK i \in DOMAIN rs : j = Len(baseRel) + i
      BY <1>3, <2>2
    <3>2. opts'.base + baseRel'[j] \in EntrySites(table, at)
      BY <1>3, <3>1
    <3>3. PICK t, k : t = table /\ k = at
      OBVIOUS
    <3>4. Done(t, k)' /\ opts'.base + baseRel'[j] \in EntrySites(t, k)
      BY <1>1, <3>2, <3>3
    <3> QED BY <1>4, <3>4
  <2> QED BY <2>1, <2>2
<1> QED BY <1>6, <1>7 DEF SitesInv

\* A longer list without repetition is longer than one without.
LEMMA ListedBefore ==
  ASSUME baseRel \in Seq(Nat), NEW rs \in Seq(Nat), baseRel' = baseRel \o rs, ListedOnce'
  PROVE  ListedOnce
<1>1. \A k \in DOMAIN baseRel : k \in DOMAIN baseRel' /\ baseRel'[k] = baseRel[k]
  BY Joined
<1>2. \A j, k \in DOMAIN baseRel' : j /= k => baseRel'[j] /= baseRel'[k]
  BY DEF ListedOnce
<1>3. ASSUME NEW j \in DOMAIN baseRel, NEW k \in DOMAIN baseRel, j /= k
      PROVE  baseRel[j] /= baseRel[k]
  BY <1>1, <1>2, <1>3, Zenon
<1> QED BY <1>3 DEF ListedOnce

\* An entry that stores nothing leaves the words as they were.
LEMMA WordsStay ==
  ASSUME TypeInv, WordsInv, NEW kind, InTable(kind), ~RelativeEntry(table, at),
         UNCHANGED <<file, loads, out, table>>, at' = at + 1
  PROVE  WordsInv'
<1>1. \A t, k : Done(t, k)' /\ RelativeEntry(t, k)' <=> Done(t, k) /\ RelativeEntry(t, k)
  BY DoneNext DEF RelativeEntry, EntriesOf
<1>2. \A t : EntriesOf(t)' = EntriesOf(t)
  BY DEF EntriesOf
<1> QED BY <1>1, <1>2 DEF WordsInv, WordAt

\* The sections stay where they are; only words change.
LEMMA TableKeeps ==
  ASSUME PIEInv, pc = "table", pc' = "table", UNCHANGED <<file, opts, loads>>,
         Len(out') = Len(out), DOMAIN out' = DOMAIN out,
         \A i \in DOMAIN out :
           out'[i].rva = out[i].rva /\ out'[i].foff = out[i].foff /\ out'[i].vsize = out[i].vsize
             /\ out'[i].raw = out[i].raw /\ out'[i].data = out[i].data,
         TypeInv', CursorInv', Good' => SitesInv', Good' /\ ListedOnce' => WordsInv'
  PROVE  PIEInv'
<1>1. TypeInv /\ OpenInv /\ TableInv
  BY DEF PIEInv, Opened
<1>2. OpenInv'
  BY <1>1, OpenInvKeeps
<1>3. ASSUME NEW i \in DOMAIN out' PROVE i \in DOMAIN loads' /\ Placed(i)'
  <2>1. i \in DOMAIN loads /\ Placed(i)
    BY <1>1, <1>3 DEF TableInv, SectionsInv
  <2> QED BY <1>3, <2>1 DEF Placed
<1>4. ASSUME NEW i \in DOMAIN out', NEW j \in DOMAIN out', i < j
      PROVE  RawEnd(out'[i]) <= out'[j].foff
  BY <1>1, <1>4 DEF TableInv, SectionsInv, RawEnd
<1>5. SectionsInv'
  BY <1>3, <1>4 DEF SectionsInv
<1>6. TableInv'
  BY <1>1, <1>5 DEF TableInv
<1>7. PIEFailsForCause' /\ PIEApart' /\ HeadersFree' /\ RebaseAgrees'
  BY DEF PIEFailsForCause, PIEApart, HeadersFree, RebaseAgrees
<1> QED BY <1>2, <1>6, <1>7 DEF PIEInv, Opened

\* Refusing leaves everything else as it was.
LEMMA RejectKeeps ==
  ASSUME PIEInv, Reject, Good => Unfit
  PROVE  PIEInv'
<1>1. /\ pc' = "error"
      /\ UNCHANGED <<file, opts, loads, out, foff, table, at, where, baseRel, image>>
  BY DEF Reject
<1>2. TypeInv'
  BY <1>1 DEF PIEInv, TypeInv
<1>3. Good => Unfit'
  <2>1. PTLoads' = PTLoads /\ Tables("RELA")' = Tables("RELA")
    BY <1>1 DEF PTLoads, Tables
  <2>2. \A t : RelaEntriesOf(t)' = RelaEntriesOf(t)
    BY <1>1 DEF RelaEntriesOf, EntriesOf
  <2>3. RelaSites' = RelaSites
    BY <1>1 DEF RelaSites, Relative, RelaEntriesOf, EntriesOf, Tables
  <2>4. RelrSitesAll' = RelrSitesAll
    BY <1>1 DEF RelrSitesAll, EntriesOf, Tables
  <2>5. \A va : SiteBacked(va)' <=> SiteBacked(va)
    BY <1>1 DEF SiteBacked
  <2> QED BY <1>1, <2>1, <2>2, <2>3, <2>4, <2>5 DEF Unfit
<1>4. PIEFailsForCause' /\ PIEApart' /\ HeadersFree' /\ RebaseAgrees'
  BY <1>1, <1>3 DEF PIEFailsForCause, PIEApart, HeadersFree, RebaseAgrees, Good, Small, SegmentsApart
<1> QED BY <1>1, <1>2, <1>4 DEF PIEInv, Opened

LEMMA GoodKeeps ==
  ASSUME UNCHANGED <<opts, loads>>
  PROVE  Good' <=> Good
BY DEF Good, Small, SegmentsApart

LEMMA RelaNoneStep ==
  ASSUME PIEInv, RelaNone
  PROVE  PIEInv'
<1>1. /\ InTable("RELA") /\ Entry.type = "NONE" /\ at' = at + 1
      /\ UNCHANGED <<file, opts, loads, out, foff, table, where, baseRel, image, pc>>
  BY DEF RelaNone
<1>2. TypeInv /\ pc = "table"
  BY <1>1 DEF PIEInv, InTable
<1>3. OpenInv /\ TableInv
  BY <1>2 DEF PIEInv, Opened
<1>4. Entry = EntriesOf(table)[at] /\ file.tables[table].kind = "RELA"
  BY <1>1, <1>2, EntryTyped
<1>5. ~RelativeEntry(table, at) /\ EntrySites(table, at) = {}
  BY <1>1, <1>4 DEF RelativeEntry, EntrySites
<1>6. TypeInv'
  BY <1>1, <1>2 DEF TypeInv
<1>7. CursorInv'
  BY <1>1, <1>2, <1>3, CursorNext DEF TableInv
<1>8. baseRel' = baseRel \o << >> /\ << >> \in Seq(Nat) /\ DOMAIN << >> = {}
  BY <1>1, <1>2 DEF TypeInv
<1>9. ASSUME Good PROVE SitesInv'
  <2>1. SitesInv
    BY <1>3, <1>9 DEF TableInv
  <2> QED BY <1>1, <1>2, <1>3, <1>5, <1>8, <2>1, SitesNext
<1>10. ASSUME Good, ListedOnce' PROVE WordsInv'
  <2>1. ListedOnce
    BY <1>1, <1>10 DEF ListedOnce
  <2>2. WordsInv
    BY <1>3, <1>10, <2>1 DEF TableInv
  <2> QED BY <1>1, <1>2, <1>5, <2>2, WordsStay
<1>11. Good' <=> Good
  BY <1>1, GoodKeeps
<1> QED BY <1>1, <1>2, <1>6, <1>7, <1>9, <1>10, <1>11, TableKeeps

LEMMA RelaRefusedStep ==
  ASSUME PIEInv, RelaRefused
  PROVE  PIEInv'
<1>1. /\ InTable("RELA") /\ Entry.type /= "NONE" /\ Reject
      /\ Entry.type /= "RELATIVE" \/ ~Holds(Entry.offset)
  BY DEF RelaRefused
<1>2. TypeInv /\ pc = "table"
  BY <1>1 DEF PIEInv, InTable
<1>3. OpenInv /\ TableInv
  BY <1>2 DEF PIEInv, Opened
<1>4. /\ Entry = EntriesOf(table)[at] /\ file.tables[table].kind = "RELA" /\ Entry \in RelaEntry
      /\ table \in DOMAIN file.tables /\ at \in DOMAIN EntriesOf(table)
  BY <1>1, <1>2, EntryTyped
<1>5. table \in Tables("RELA") /\ Entry \in RelaEntriesOf(table)
  BY <1>4 DEF Tables, RelaEntriesOf
<1>6. ASSUME Good PROVE Unfit
  <2>1. CASE Entry.type = "other"
    BY <1>5, <2>1 DEF Unfit
  <2>2. CASE Entry.type = "RELATIVE" /\ ~Holds(Entry.offset)
    <3>1. Entry.offset \in RelaSites
      BY <1>5, <2>2 DEF RelaSites, Relative
    <3>2. Entry.offset \in Nat
      BY <1>4 DEF RelaEntry
    <3>3. ~SiteBacked(Entry.offset)
      BY <1>2, <1>3, <1>6, <2>2, <3>2, HeldBacked DEF TableInv, TypeInv
    <3> QED BY <3>1, <3>3 DEF Unfit
  <2> QED BY <1>1, <1>4, <2>1, <2>2 DEF RelaEntry
<1> QED BY <1>1, <1>6, RejectKeeps

LEMMA RelrRefusedStep ==
  ASSUME PIEInv, RelrRefused
  PROVE  PIEInv'
<1>1. InTable("RELR") /\ Reject
  BY DEF RelrRefused
<1>2. TypeInv /\ pc = "table"
  BY <1>1 DEF PIEInv, InTable
<1>3. OpenInv /\ TableInv
  BY <1>2 DEF PIEInv, Opened
<1>4. PICK va \in RelrSites : ~Holds(va)
  BY DEF RelrRefused
<1>5. RelrSites = EntrySites(table, at) /\ RelrSites \in SUBSET Nat
  BY <1>1, <1>2, <1>3, SitesHere DEF TableInv
<1>6. /\ file.tables[table].kind = "RELR" /\ table \in DOMAIN file.tables
      /\ at \in DOMAIN EntriesOf(table)
  BY <1>1, <1>2, EntryTyped
<1>7. va \in RelrSitesAll
  BY <1>4, <1>5, <1>6 DEF RelrSitesAll, EntrySites, Tables
<1>8. ASSUME Good PROVE ~SiteBacked(va)
  BY <1>2, <1>3, <1>4, <1>5, <1>8, HeldBacked DEF TableInv, TypeInv
<1> QED BY <1>1, <1>7, <1>8, RejectKeeps DEF Unfit

LEMMA RaggedStep ==
  ASSUME PIEInv, Ragged
  PROVE  PIEInv'
<1>1. Reject /\ table \in DOMAIN file.tables /\ file.tables[table].ragged
  BY DEF Ragged
<1>2. Unfit
  BY <1>1 DEF Unfit
<1> QED BY <1>1, <1>2, RejectKeeps

LEMMA NextTableStep ==
  ASSUME PIEInv, NextTable
  PROVE  PIEInv'
<1>1. /\ pc = "table" /\ table \in DOMAIN file.tables /\ ~file.tables[table].ragged
      /\ at \notin DOMAIN EntriesOf(table)
      /\ table' = table + 1 /\ at' = 1 /\ where' = 0
      /\ UNCHANGED <<file, opts, loads, out, foff, baseRel, image, pc>>
  BY DEF NextTable, EntriesOf
<1>2. TypeInv /\ OpenInv /\ TableInv
  BY <1>1 DEF PIEInv, Opened
<1>3. TypeInv'
  BY <1>1, <1>2 DEF TypeInv
<1>4. file.tables \in Seq(Table)
  BY <1>2, FileTyped DEF File
<1>5. ASSUME NEW t \in DOMAIN file.tables
      PROVE  /\ Len(EntriesOf(t)) \in Nat /\ DOMAIN EntriesOf(t) = 1 .. Len(EntriesOf(t))
             /\ t \in Nat \ {0} /\ t <= Len(file.tables)
  <2>1. file.tables[t] \in Table
    BY <1>4, <1>5
  <2>2. EntriesOf(t) \in Seq(RelaEntry) \/ EntriesOf(t) \in Seq(RelrEntry)
    BY <2>1 DEF Table, EntriesOf
  <2>3. Len(EntriesOf(t)) \in Nat /\ DOMAIN EntriesOf(t) = 1 .. Len(EntriesOf(t))
    BY <2>2
  <2> QED BY <1>4, <1>5, <2>3
<1>6. /\ table \in Nat \ {0} /\ at \in Nat \ {0} /\ table <= Len(file.tables)
      /\ Len(file.tables) \in Nat /\ DOMAIN file.tables = 1 .. Len(file.tables)
  BY <1>1, <1>2, <1>4 DEF TypeInv
<1>7. \A t, k : Done(t, k)' <=> Done(t, k)
  <2> SUFFICES ASSUME NEW t, NEW k PROVE Done(t, k)' <=> Done(t, k)
    OBVIOUS
  <2>1. Done(t, k)' <=> /\ t \in DOMAIN file.tables /\ k \in DOMAIN EntriesOf(t)
                        /\ t < table + 1 \/ (t = table + 1 /\ k < 1)
    BY <1>1 DEF Done, EntriesOf
  <2>2. CASE t \in DOMAIN file.tables /\ k \in DOMAIN EntriesOf(t)
    <3>1. k \in Nat \ {0} /\ t \in Nat \ {0} /\ k <= Len(EntriesOf(t)) /\ Len(EntriesOf(t)) \in Nat
      BY <1>5, <2>2
    <3>2. CASE t = table
      <4>1. at > Len(EntriesOf(table))
        BY <1>1, <1>5, <1>6
      <4> QED BY <1>6, <2>1, <2>2, <3>1, <3>2, <4>1 DEF Done
    <3>3. CASE t /= table
      BY <1>6, <2>1, <2>2, <3>1, <3>3 DEF Done
    <3> QED BY <3>2, <3>3
  <2>3. CASE ~(t \in DOMAIN file.tables /\ k \in DOMAIN EntriesOf(t))
    BY <2>1, <2>3 DEF Done
  <2> QED BY <2>2, <2>3
<1>8. \A t : EntriesOf(t)' = EntriesOf(t)
  BY <1>1 DEF EntriesOf
<1>9. CursorInv'
  <2>1. table + 1 <= Len(file.tables) + 1
    BY <1>6
  <2>2. \A t \in DOMAIN file.tables : t < table + 1 => ~file.tables[t].ragged
    <3>1. \A t \in DOMAIN file.tables : t < table + 1 => t < table \/ t = table
      BY <1>5, <1>6
    <3> QED BY <1>1, <1>2, <3>1 DEF TableInv, CursorInv
  <2>3. \A t \in DOMAIN file.tables : 1 <= Len(EntriesOf(t)) + 1
    BY <1>5
  <2> QED BY <1>1, <1>8, <2>1, <2>2, <2>3, CursorStarts DEF CursorInv
<1>10. ASSUME Good PROVE SitesInv'
  <2>1. SitesInv
    BY <1>2, <1>10 DEF TableInv
  <2>2. \A t, k : EntrySites(t, k)' = EntrySites(t, k)
    BY <1>1 DEF EntrySites, RelativeEntry, EntriesOf
  <2> QED BY <1>1, <1>7, <1>8, <2>1, <2>2 DEF SitesInv, SiteBacked
<1>11. ASSUME Good, ListedOnce' PROVE WordsInv'
  <2>1. WordsInv
    BY <1>1, <1>2, <1>11 DEF TableInv, ListedOnce
  <2>2. \A t, k : RelativeEntry(t, k)' <=> RelativeEntry(t, k)
    BY <1>1 DEF RelativeEntry, EntriesOf
  <2> QED BY <1>1, <1>7, <1>8, <2>1, <2>2 DEF WordsInv, WordAt
<1>12. Good' <=> Good
  BY <1>1, GoodKeeps
<1> QED BY <1>1, <1>3, <1>9, <1>10, <1>11, <1>12, TableKeeps

\* One entry of RELR: a base relocation for each site, and no word changes.
LEMMA RelrEntryInv ==
  ASSUME PIEInv, RelrEntryStep
  PROVE  PIEInv'
<1>1. /\ InTable("RELR") /\ at' = at + 1 /\ \A va \in RelrSites : Holds(va)
      /\ where' = IF Entry.kind = "address" THEN Entry.site + 8 ELSE where + 8 * MapWords
      /\ UNCHANGED <<file, opts, loads, out, foff, table, image, pc>>
  BY DEF RelrEntryStep
<1>2. PICK q \in Sorted([va \in RelrSites |-> va]) :
         baseRel' = baseRel \o [k \in DOMAIN q |-> SiteRVA(q[k])]
  BY DEF RelrEntryStep
<1> DEFINE rs == [k \in DOMAIN q |-> SiteRVA(q[k])]
<1>3. TypeInv /\ pc = "table"
  BY <1>1 DEF PIEInv, InTable
<1>4. OpenInv /\ TableInv
  BY <1>3 DEF PIEInv, Opened
<1>5. /\ Entry = EntriesOf(table)[at] /\ file.tables[table].kind = "RELR" /\ Entry \in RelrEntry
  BY <1>1, <1>3, EntryTyped
<1>6. RelrSites = EntrySites(table, at) /\ RelrSites \in SUBSET Nat /\ IsFiniteSet(RelrSites)
  BY <1>1, <1>3, <1>4, SitesHere DEF TableInv
<1>7. q \in Bijection(1 .. Cardinality(RelrSites), RelrSites)
  BY DEF Sorted
<1> DEFINE n == Cardinality(RelrSites)
<1>8. /\ n \in Nat /\ DOMAIN q = 1 .. n /\ \A k \in DOMAIN q : q[k] \in RelrSites
      /\ \A va \in RelrSites : \E k \in DOMAIN q : q[k] = va
  BY <1>6, <1>7, Enumerates
<1> HIDE DEF n
<1>9. \A va \in Nat : SiteRVA(va) \in Nat
  <2> SUFFICES ASSUME NEW va \in Nat PROVE SiteRVA(va) \in Nat
    OBVIOUS
  <2> DEFINE d == va - opts.base
  <2>1. d \in Int /\ Narrow \in Nat \ {0}
    BY <1>4, PIEAssumption DEF OpenInv
  <2> HIDE DEF d
  <2>2. d % Narrow \in Nat
    BY <2>1
  <2> QED BY <2>2 DEF d, SiteRVA
<1>10. rs \in Seq(Nat) /\ DOMAIN rs = DOMAIN q /\ \A k \in DOMAIN rs : rs[k] = SiteRVA(q[k])
  <2>1. rs \in [1 .. n -> Nat]
    BY <1>6, <1>8, <1>9
  <2> QED BY <1>8, <2>1
<1> HIDE DEF rs
<1>11. baseRel' = baseRel \o rs /\ baseRel \in Seq(Nat)
  BY <1>2, <1>3 DEF rs, TypeInv
<1>12. TypeInv'
  <2>1. baseRel' \in Seq(Nat)
    BY <1>10, <1>11, Joined
  <2>2. where' \in Nat
    <3>1. Entry.kind = "address" => Entry.site \in Nat
      BY <1>5 DEF RelrEntry
    <3>2. where \in Nat /\ where + 8 * MapWords \in Nat
      BY <1>3 DEF TypeInv, MapWords
    <3> QED BY <1>1, <3>1, <3>2
  <2> QED BY <1>1, <1>3, <2>1, <2>2 DEF TypeInv
<1>13. CursorInv'
  BY <1>1, <1>3, <1>4, CursorNext DEF TableInv
<1>14. ASSUME Good PROVE SitesInv'
  <2>1. SitesInv
    BY <1>4, <1>14 DEF TableInv
  <2>2. ASSUME NEW va \in RelrSites
        PROVE  SiteBacked(va) /\ SiteRVA(va) = va - opts.base
    <3>1. va \in Nat
      BY <1>6
    <3>2. SiteBacked(va)
      BY <1>1, <1>3, <1>4, <1>14, <3>1, HeldBacked DEF TableInv, TypeInv
    <3>3. PICK i \in DOMAIN loads :
             loads[i].vaddr <= va /\ va + 8 <= loads[i].vaddr + loads[i].filesz
      BY <3>2 DEF SiteBacked
    <3> QED BY <1>3, <1>4, <1>14, <3>1, <3>2, <3>3, HeldBacked DEF TableInv, TypeInv
  <2>3. ASSUME NEW k \in DOMAIN rs PROVE opts.base + rs[k] = q[k] /\ q[k] \in RelrSites
    <3>1. q[k] \in RelrSites /\ rs[k] = SiteRVA(q[k])
      BY <1>8, <1>10
    <3>2. rs[k] = q[k] - opts.base /\ q[k] \in Nat /\ opts.base \in Nat
      BY <1>4, <1>6, <2>2, <3>1 DEF OpenInv
    <3> QED BY <3>1, <3>2
  <2>4. \A va \in EntrySites(table, at) :
          SiteBacked(va) /\ \E j \in DOMAIN rs : opts.base + rs[j] = va
    BY <1>6, <1>8, <1>10, <2>2, <2>3
  <2>5. \A j \in DOMAIN rs : opts.base + rs[j] \in EntrySites(table, at)
    BY <1>6, <2>3
  <2> QED BY <1>1, <1>3, <1>4, <1>10, <1>11, <2>1, <2>4, <2>5, SitesNext
<1>15. ASSUME Good, ListedOnce' PROVE WordsInv'
  <2>1. ListedOnce
    BY <1>10, <1>11, <1>15, ListedBefore
  <2>2. WordsInv
    BY <1>4, <1>15, <2>1 DEF TableInv
  <2>3. ~RelativeEntry(table, at)
    BY <1>5 DEF RelativeEntry
  <2> QED BY <1>1, <1>3, <2>2, <2>3, WordsStay
<1>16. Good' <=> Good
  BY <1>1, GoodKeeps
<1> QED BY <1>1, <1>3, <1>12, <1>13, <1>14, <1>15, <1>16, TableKeeps

\* A RELATIVE entry stores its addend in one word of one section.
LEMMA RelaRelativeStep ==
  ASSUME PIEInv, RelaRelative
  PROVE  PIEInv'
<1>1. PICK i, va : i = sectionForVA(Entry.offset) /\ va = Entry.offset
  OBVIOUS
<1>2. PICK m : m = Loc(i, va)
  OBVIOUS
<1>3. PICK e : e = Entry
  OBVIOUS
<1>4. /\ InTable("RELA") /\ Entry.type = "RELATIVE" /\ Holds(va) /\ at' = at + 1
      /\ out' = [out EXCEPT ![i].words = [l \in DOMAIN @ \cup {m} |-> IF l = m THEN e.addend ELSE @[l]]]
      /\ baseRel' = Append(baseRel, SiteRVA(va))
      /\ UNCHANGED <<file, opts, loads, foff, table, where, image, pc>>
  BY <1>1, <1>2, <1>3 DEF RelaRelative
<1>5. TypeInv /\ pc = "table"
  BY <1>4 DEF PIEInv, InTable
<1>6. OpenInv /\ TableInv
  BY <1>5 DEF PIEInv, Opened
<1>7. /\ e = EntriesOf(table)[at] /\ e \in RelaEntry /\ file.tables[table].kind = "RELA"
      /\ e.type = "RELATIVE" /\ e.offset = va /\ va \in Nat /\ e.addend \in Nat
  <2>1. /\ Entry = EntriesOf(table)[at] /\ file.tables[table].kind = "RELA" /\ Entry \in RelaEntry
    BY <1>4, <1>5, EntryTyped
  <2> QED BY <1>1, <1>3, <1>4, <2>1 DEF RelaEntry
<1>8. /\ out \in Seq(Section) /\ Len(out) \in Nat /\ DOMAIN out = 1 .. Len(out)
      /\ baseRel \in Seq(Nat)
  BY <1>5 DEF TypeInv
<1>9. i \in DOMAIN out /\ m \in Nat
  <2> DEFINE found == {k \in DOMAIN out : Covers(out[k], va)}
  <2>1. i = IF found = {} THEN 0 ELSE Min(found)
    BY <1>1, <1>7 DEF sectionForVA
  <2>2. i /= 0
    BY <1>1, <1>4, <1>7 DEF Holds
  <2>3. found /= {} /\ i = Min(found) /\ found \in SUBSET Nat
    BY <1>8, <2>1, <2>2
  <2>4. PICK k \in found : \A l \in found : k <= l
    <3> HIDE DEF found
    <3> QED BY <2>3, LeastExists
  <2>5. Min(found) \in found
    <3> HIDE DEF found
    <3> QED BY <2>4 DEF Min
  <2>6. i \in DOMAIN out /\ Covers(out[i], va)
    BY <2>3, <2>5
  <2>7. out[i] \in Section /\ opts.base \in Nat
    BY <1>6, <1>8, <2>6 DEF OpenInv
  <2>8. opts.base + out[i].rva <= va /\ out[i].rva \in Nat
    BY <2>6, <2>7 DEF Covers, Section
  <2>9. m \in Nat
    BY <1>2, <1>7, <2>7, <2>8 DEF Loc
  <2> QED BY <2>6, <2>9
<1>10. out[i] \in Section /\ out[i].words \in WordMaps
  <2>1. out[i] \in Section
    BY <1>8, <1>9
  <2> QED BY <2>1 DEF Section
<1> DEFINE W == [l \in DOMAIN out[i].words \cup {m} |-> IF l = m THEN e.addend ELSE out[i].words[l]]
<1>11. W \in WordMaps
  <2>1. PICK S \in SUBSET Nat : out[i].words \in [S -> Nat]
    BY <1>10 DEF WordMaps
  <2>2. W \in [S \cup {m} -> Nat] /\ S \cup {m} \in SUBSET Nat
    BY <1>7, <1>9, <2>1
  <2> QED BY <2>2 DEF WordMaps
<1>12. out' = [out EXCEPT ![i] = [out[i] EXCEPT !.words = W]]
  BY <1>4, <1>9, <1>10 DEF Section
<1> HIDE DEF W
<1>13. [out[i] EXCEPT !.words = W] \in Section
  BY <1>10, <1>11 DEF Section
<1>14. /\ out' \in Seq(Section) /\ Len(out') = Len(out) /\ DOMAIN out' = DOMAIN out
       /\ out'[i] = [out[i] EXCEPT !.words = W]
       /\ \A k \in DOMAIN out : k /= i => out'[k] = out[k]
  BY <1>8, <1>9, <1>12, <1>13
<1>15. /\ out'[i].words = W
       /\ \A k \in DOMAIN out :
           out'[k].rva = out[k].rva /\ out'[k].foff = out[k].foff /\ out'[k].vsize = out[k].vsize
             /\ out'[k].raw = out[k].raw /\ out'[k].data = out[k].data
  BY <1>10, <1>14 DEF Section
<1>16. SiteRVA(va) \in Nat
  <2> DEFINE d == va - opts.base
  <2>1. d \in Int /\ Narrow \in Nat \ {0}
    BY <1>6, <1>7, PIEAssumption DEF OpenInv
  <2> HIDE DEF d
  <2>2. d % Narrow \in Nat
    BY <2>1
  <2> QED BY <2>2 DEF d, SiteRVA
<1>17. PICK rs : rs = << SiteRVA(va) >>
  OBVIOUS
<1>18. rs \in Seq(Nat) /\ baseRel' = baseRel \o rs /\ DOMAIN rs = {1} /\ rs[1] = SiteRVA(va)
  BY <1>4, <1>8, <1>16, <1>17
<1>19. TypeInv'
  <2>1. baseRel' \in Seq(Nat)
    BY <1>8, <1>18, Joined
  <2> QED BY <1>4, <1>5, <1>14, <2>1 DEF TypeInv
<1>20. CursorInv'
  BY <1>4, <1>5, <1>6, CursorNext DEF TableInv
<1>21. EntrySites(table, at) = {va} /\ RelativeEntry(table, at)
  BY <1>7 DEF EntrySites, RelativeEntry
<1>22. Good' <=> Good
  BY <1>4, GoodKeeps
<1>23. ASSUME Good
       PROVE  /\ SiteBacked(va) /\ opts.base + SiteRVA(va) = va
              /\ i \in DOMAIN loads /\ m = va - loads[i].vaddr /\ loads[i].vaddr <= va
              /\ va + 8 <= loads[i].vaddr + loads[i].filesz
              /\ \A k \in DOMAIN loads :
                   loads[k].vaddr <= va /\ va < loads[k].vaddr + loads[k].filesz => k = i
  <2>1. /\ Holds(va) <=> SiteBacked(va)
        /\ \A k \in DOMAIN loads :
             loads[k].vaddr <= va /\ va < loads[k].vaddr + loads[k].filesz => sectionForVA(va) = k
        /\ \A k \in DOMAIN loads :
             loads[k].vaddr <= va /\ va + 8 <= loads[k].vaddr + loads[k].filesz =>
               /\ sectionForVA(va) = k /\ Loc(k, va) = va - loads[k].vaddr
               /\ SiteRVA(va) = va - opts.base
    BY <1>6, <1>7, <1>8, <1>23, HeldBacked DEF TableInv
  <2>2. PICK k \in DOMAIN loads :
           loads[k].vaddr <= va /\ va + 8 <= loads[k].vaddr + loads[k].filesz
    BY <1>4, <2>1 DEF SiteBacked
  <2>3. k = i /\ m = va - loads[k].vaddr /\ SiteRVA(va) = va - opts.base
    BY <1>1, <1>2, <1>7, <2>1, <2>2
  <2>4. opts.base + SiteRVA(va) = va
    BY <1>6, <1>7, <2>3 DEF OpenInv
  <2> QED BY <1>1, <1>4, <1>7, <2>1, <2>2, <2>3, <2>4
<1>24. ASSUME Good PROVE SitesInv'
  <2>1. SitesInv
    BY <1>6, <1>24 DEF TableInv
  <2>2. \A v \in EntrySites(table, at) :
          SiteBacked(v) /\ \E j \in DOMAIN rs : opts.base + rs[j] = v
    BY <1>18, <1>21, <1>23, <1>24
  <2>3. \A j \in DOMAIN rs : opts.base + rs[j] \in EntrySites(table, at)
    BY <1>18, <1>21, <1>23, <1>24
  <2>4. Entry.type /= "other"
    BY <1>4
  <2> QED BY <1>4, <1>5, <1>6, <1>18, <2>1, <2>2, <2>3, <2>4, SitesNext
<1>25. ASSUME Good, ListedOnce' PROVE WordsInv'
  <2>1. SitesInv /\ WordsInv
    <3>1. ListedOnce
      BY <1>8, <1>18, <1>25, ListedBefore
    <3> QED BY <1>6, <1>25, <3>1 DEF TableInv
  <2>2. \A t, k : Done(t, k)' <=> Done(t, k) \/ (t = table /\ k = at)
    BY <1>4, <1>5, DoneNext
  <2>3. \A t : EntriesOf(t)' = EntriesOf(t)
    BY <1>4 DEF EntriesOf
  <2>4. \A t, k : RelativeEntry(t, k)' <=> RelativeEntry(t, k)
    BY <1>4 DEF RelativeEntry, EntriesOf
  <2>5. ASSUME NEW t, NEW k, Done(t, k), RelativeEntry(t, k)
        PROVE  EntriesOf(t)[k].offset /= va
    <3>1. SUFFICES ASSUME EntriesOf(t)[k].offset = va PROVE FALSE
      OBVIOUS
    <3>2. va \in EntrySites(t, k)
      BY <2>5, <3>1 DEF EntrySites, RelativeEntry
    <3>3. PICK j \in DOMAIN baseRel : opts.base + baseRel[j] = va
      BY <2>1, <2>5, <3>2 DEF SitesInv
    <3>4. baseRel[j] \in Nat /\ opts.base \in Nat
      BY <1>6, <1>8 DEF OpenInv
    <3>5. baseRel[j] = SiteRVA(va)
      BY <1>16, <1>23, <1>25, <3>3, <3>4
    <3>6. /\ j \in DOMAIN baseRel' /\ baseRel'[j] = baseRel[j]
          /\ Len(baseRel) + 1 \in DOMAIN baseRel' /\ baseRel'[Len(baseRel) + 1] = SiteRVA(va)
          /\ Len(baseRel) + 1 \notin DOMAIN baseRel
      BY <1>8, <1>18, Joined
    <3> QED BY <1>25, <3>5, <3>6 DEF ListedOnce
  <2>6. ASSUME NEW k \in DOMAIN loads
        PROVE  k \in DOMAIN out /\ (k /= i => out'[k].words = out[k].words)
    BY <1>6, <1>8, <1>14 DEF TableInv, OpenInv
  <2>7. ASSUME NEW k \in DOMAIN loads, NEW l \in DOMAIN out'[k].words
        PROVE  l < loads[k].filesz
    <3>1. CASE k = i /\ l = m
      <4>1. loads[i].vaddr \in Nat /\ loads[i].filesz \in Nat
        BY <1>6, <1>23, <1>25, Ascent
      <4> QED BY <1>7, <1>23, <1>25, <3>1, <4>1
    <3>2. CASE ~(k = i /\ l = m)
      <4>1. l \in DOMAIN out[k].words
        BY <1>15, <2>6, <2>7, <3>2 DEF W
      <4> QED BY <2>1, <2>7, <4>1 DEF WordsInv
    <3> QED BY <3>1, <3>2
  <2>8. ASSUME NEW k \in DOMAIN loads, NEW l \in Nat, l < loads[k].filesz
        PROVE  /\ \A t, n : Done(t, n)' /\ RelativeEntry(t, n)
                              /\ EntriesOf(t)[n].offset = loads[k].vaddr + l =>
                    WordAt(out'[k].words, l) = EntriesOf(t)[n].addend
               /\ \/ WordAt(out'[k].words, l) = WordAt(loads[k].words, l)
                  \/ \E t, n : Done(t, n)' /\ RelativeEntry(t, n)
                                 /\ EntriesOf(t)[n].offset = loads[k].vaddr + l
    <3>1. loads[k].vaddr \in Nat /\ loads[k].filesz \in Nat
      BY <1>6, Ascent
    <3>2. CASE loads[k].vaddr + l = va
      <4>1. loads[k].vaddr <= va /\ va < loads[k].vaddr + loads[k].filesz
        BY <1>7, <2>8, <3>1, <3>2
      <4>2. k = i /\ l = m
        BY <1>7, <1>23, <1>25, <3>1, <3>2, <4>1
      <4>3. WordAt(out'[k].words, l) = e.addend
        BY <1>15, <4>2 DEF W, WordAt
      <4>4. \A t, n : Done(t, n)' /\ RelativeEntry(t, n)
                        /\ EntriesOf(t)[n].offset = loads[k].vaddr + l => t = table /\ n = at
        BY <2>2, <2>5, <3>2
      <4>5. PICK t, n : t = table /\ n = at
        OBVIOUS
      <4>6. Done(t, n)' /\ RelativeEntry(t, n) /\ EntriesOf(t)[n].offset = loads[k].vaddr + l
        BY <1>7, <1>21, <2>2, <3>2, <4>5
      <4> QED BY <1>7, <4>3, <4>4, <4>6
    <3>3. CASE loads[k].vaddr + l /= va
      <4>1. WordAt(out'[k].words, l) = WordAt(out[k].words, l)
        <5>1. CASE k /= i
          BY <2>6, <5>1
        <5>2. CASE k = i
          <6>1. l /= m
            BY <1>7, <1>23, <1>25, <3>1, <3>3, <5>2
          <6> QED BY <1>15, <5>2, <6>1 DEF W, WordAt
        <5> QED BY <5>1, <5>2
      <4>2. \A t, n : Done(t, n)' /\ RelativeEntry(t, n)
                        /\ EntriesOf(t)[n].offset = loads[k].vaddr + l => Done(t, n)
        BY <1>7, <2>2, <3>3
      <4>3. /\ \A t, n : Done(t, n) /\ RelativeEntry(t, n)
                           /\ EntriesOf(t)[n].offset = loads[k].vaddr + l =>
                 WordAt(out[k].words, l) = EntriesOf(t)[n].addend
            /\ \/ WordAt(out[k].words, l) = WordAt(loads[k].words, l)
               \/ \E t, n : Done(t, n) /\ RelativeEntry(t, n)
                              /\ EntriesOf(t)[n].offset = loads[k].vaddr + l
        BY <2>1, <2>8 DEF WordsInv
      <4> QED BY <2>2, <4>1, <4>2, <4>3
    <3> QED BY <3>2, <3>3
  <2>9. loads' = loads
    BY <1>4
  <2>10. ASSUME NEW k \in DOMAIN loads', NEW l \in Nat, l < loads'[k].filesz
         PROVE  /\ \A t, n : Done(t, n)' /\ RelativeEntry(t, n)'
                               /\ EntriesOf(t)'[n].offset = loads'[k].vaddr + l =>
                     WordAt(out'[k].words, l) = EntriesOf(t)'[n].addend
                /\ \/ WordAt(out'[k].words, l) = WordAt(loads'[k].words, l)
                   \/ \E t, n : Done(t, n)' /\ RelativeEntry(t, n)'
                                  /\ EntriesOf(t)'[n].offset = loads'[k].vaddr + l
    <3>1. k \in DOMAIN loads /\ l < loads[k].filesz /\ loads'[k] = loads[k]
      BY <2>9, <2>10
    <3>2. /\ \A t, n : Done(t, n)' /\ RelativeEntry(t, n)
                           /\ EntriesOf(t)[n].offset = loads[k].vaddr + l =>
                 WordAt(out'[k].words, l) = EntriesOf(t)[n].addend
          /\ \/ WordAt(out'[k].words, l) = WordAt(loads[k].words, l)
             \/ \E t, n : Done(t, n)' /\ RelativeEntry(t, n)
                            /\ EntriesOf(t)[n].offset = loads[k].vaddr + l
      BY <2>8, <3>1
    <3> QED BY <2>3, <2>4, <3>1, <3>2
  <2>11. \A k \in DOMAIN loads' : \A l \in DOMAIN out'[k].words : l < loads'[k].filesz
    BY <2>7, <2>9
  <2> QED BY <2>10, <2>11 DEF WordsInv
<1> QED BY <1>4, <1>5, <1>14, <1>15, <1>19, <1>20, <1>22, <1>24, <1>25, TableKeeps

-------------------------------------------------------------------------------
(* The tail *)

\* The sections, with .reloc behind them or without.
LEMMA TailPlaced ==
  ASSUME OpenInv, SectionsInv, Len(out) = Len(loads), out \in Seq(Section), Good, NEW n \in Nat,
         NEW all, all = out \/ all = Append(out, RelocSection(out[Len(out)], n))
  PROVE  /\ all \in Seq(Section) /\ Len(all) \in Nat /\ DOMAIN all = 1 .. Len(all)
         /\ Len(all) <= Len(loads) + 1 /\ Extents(all) /\ Ascending(all)
         /\ \A i \in DOMAIN loads : i \in DOMAIN all /\ all[i] = out[i]
         /\ \A i \in DOMAIN all :
              /\ all[i].rva % opts.sa = 0 /\ all[i].data <= all[i].raw /\ opts.hr <= all[i].foff
              /\ loads[1].vaddr - opts.base <= all[i].rva
<1> DEFINE L    == Len(out)
           prev == out[L]
           m    == RelocSection(prev, n)
<1>1. /\ DOMAIN loads = 1 .. L /\ L \in Nat \ {0} /\ DOMAIN out = 1 .. L /\ L = Len(loads)
      /\ opts.base \in Nat /\ opts.sa \in Nat \ {0} /\ opts.fa \in Nat \ {0} /\ opts.hr \in Nat
      /\ Small /\ SegmentsApart
  BY DEF OpenInv, Good
<1>2. ASSUME NEW i \in DOMAIN out
      PROVE  /\ out[i] \in Section /\ Placed(i) /\ i \in DOMAIN loads
             /\ out[i].rva = loads[i].vaddr - opts.base
             /\ out[i].rva % opts.sa = 0 /\ out[i].data <= out[i].raw /\ opts.hr <= out[i].foff
             /\ loads[1].vaddr - opts.base <= out[i].rva
             /\ VirtualEnd(out[i]) = loads[i].vaddr + loads[i].memsz - opts.base
             /\ VirtualEnd(out[i]) \in Nat /\ RawEnd(out[i]) \in Nat
             /\ out[i].rva <= VirtualEnd(out[i]) /\ out[i].foff <= RawEnd(out[i])
  <2>1. i \in DOMAIN loads /\ Placed(i)
    BY <1>2 DEF SectionsInv
  <2>2. out[i] \in Section
    BY <1>2
  <2>3. /\ loads[i].vaddr \in Nat /\ loads[i].filesz \in Nat /\ loads[i].memsz \in Nat
        /\ loads[1].vaddr \in Nat /\ loads[1].vaddr <= loads[i].vaddr
        /\ (loads[i].vaddr - opts.base) % Narrow = loads[i].vaddr - opts.base
    BY <1>1, <2>1, Ascent
  <2>4. out[i].rva = loads[i].vaddr - opts.base /\ out[i].vsize = loads[i].memsz
    BY <2>1, <2>3 DEF Placed
  <2>5. out[i].rva \in Nat /\ out[i].vsize \in Nat /\ out[i].foff \in Nat /\ out[i].raw \in Nat
    BY <2>2 DEF Section
  <2>6. out[i].data <= out[i].raw
    BY <1>1, <2>1, <2>3, AlignUpBounds DEF Placed
  <2>7. loads[1].vaddr - opts.base <= out[i].rva
    <3>1. opts.base \in Nat
      BY <1>1
    <3> QED BY <2>3, <2>4, <3>1
  <2>8. VirtualEnd(out[i]) = loads[i].vaddr + loads[i].memsz - opts.base
    BY <1>1, <2>3, <2>4 DEF VirtualEnd
  <2>9. /\ VirtualEnd(out[i]) \in Nat /\ RawEnd(out[i]) \in Nat
        /\ out[i].rva <= VirtualEnd(out[i]) /\ out[i].foff <= RawEnd(out[i])
    <3>1. VirtualEnd(out[i]) = out[i].rva + out[i].vsize /\ RawEnd(out[i]) = out[i].foff + out[i].raw
      BY DEF VirtualEnd, RawEnd
    <3> QED BY <2>5, <3>1
  <2> QED BY <2>1, <2>2, <2>4, <2>6, <2>7, <2>8, <2>9 DEF Placed
<1>3. ASSUME NEW i \in DOMAIN out, NEW j \in DOMAIN out, i < j
      PROVE  VirtualEnd(out[i]) <= out[j].rva /\ RawEnd(out[i]) <= out[j].foff
  <2>1. RawEnd(out[i]) <= out[j].foff
    BY <1>3 DEF SectionsInv
  <2>2. loads[i].vaddr + loads[i].memsz <= loads[j].vaddr
    BY <1>1, <1>2, <1>3 DEF SegmentsApart
  <2>3. loads[i].vaddr \in Nat /\ loads[i].memsz \in Nat /\ loads[j].vaddr \in Nat
    BY <1>2, <1>3, Ascent
  <2>4. VirtualEnd(out[i]) <= out[j].rva
    <3> DEFINE end  == loads[i].vaddr + loads[i].memsz
               next == loads[j].vaddr
               base == opts.base
    <3>1. end \in Nat /\ next \in Nat /\ end <= next /\ base \in Nat
      BY <1>1, <2>2, <2>3, SMTT(30)
    <3>2. VirtualEnd(out[i]) = end - base /\ out[j].rva = next - base
      <4>1. /\ VirtualEnd(out[i]) = loads[i].vaddr + loads[i].memsz - opts.base
            /\ out[j].rva = loads[j].vaddr - opts.base
        BY <1>2, <1>3
      <4> QED BY <2>3, <3>1, <4>1, SMTT(30)
    <3> HIDE DEF end, next, base
    <3> QED BY <3>1, <3>2
  <2> QED BY <2>1, <2>4
<1>4. Extents(out)
  BY <1>1, <1>2 DEF Extents, Extent, Section
<1>5. CASE all = out
  <2>1. Ascending(all)
    BY <1>3, <1>5 DEF Ascending
  <2>2. \A i \in DOMAIN all :
          /\ all[i].rva % opts.sa = 0 /\ all[i].data <= all[i].raw /\ opts.hr <= all[i].foff
          /\ loads[1].vaddr - opts.base <= all[i].rva
    BY <1>2, <1>5
  <2>3. /\ all \in Seq(Section) /\ Len(all) \in Nat /\ DOMAIN all = 1 .. Len(all)
        /\ Len(all) <= Len(loads) + 1 /\ \A i \in DOMAIN loads : i \in DOMAIN all /\ all[i] = out[i]
    BY <1>1, <1>5
  <2> QED BY <1>4, <1>5, <2>1, <2>2, <2>3
<1>6. CASE all = Append(out, m)
  <2>1. L \in DOMAIN out
    BY <1>1
  <2>2. VirtualEnd(prev) \in Nat /\ RawEnd(prev) \in Nat /\ prev.rva <= VirtualEnd(prev)
        /\ prev.rva \in Nat /\ prev.foff \in Nat /\ prev.foff <= RawEnd(prev)
        /\ opts.hr <= prev.foff /\ loads[1].vaddr - opts.base <= prev.rva
    BY <1>2, <2>1 DEF Section
  <2>3. /\ RelocRVA(prev, opts) \in Nat /\ VirtualEnd(prev) <= RelocRVA(prev, opts)
        /\ RelocRVA(prev, opts) % opts.sa = 0
    BY <1>1, <2>2, AlignUpBounds DEF RelocRVA
  <2>4. RelocOffset(prev, opts) \in Nat /\ RawEnd(prev) <= RelocOffset(prev, opts)
    <3>1. AlignUp(RawEnd(prev), opts.fa) \in Nat /\ RawEnd(prev) <= AlignUp(RawEnd(prev), opts.fa)
      BY <1>1, <2>2, AlignUpBounds
    <3> HIDE DEF prev
    <3> QED BY <2>2, <3>1 DEF RelocOffset
  <2>5. AlignUp(n, opts.fa) \in Nat /\ n <= AlignUp(n, opts.fa)
    BY <1>1, AlignUpBounds
  <2>6. << >> \in WordMaps
    <3>1. << >> \in [{} -> Nat] /\ {} \in SUBSET Nat
      OBVIOUS
    <3> QED BY <3>1 DEF WordMaps
  <2>7. /\ m \in Section /\ m.rva = RelocRVA(prev, opts) /\ m.foff = RelocOffset(prev, opts)
        /\ m.raw = AlignUp(n, opts.fa) /\ m.data = n
    BY <2>3, <2>4, <2>5, <2>6 DEF RelocSection, Section
  <2>8. /\ m.rva % opts.sa = 0 /\ m.data <= m.raw /\ opts.hr <= m.foff
        /\ loads[1].vaddr - opts.base <= m.rva
    <3>1. loads[1].vaddr - opts.base \in Int
      <4>1. 1 \in DOMAIN loads
        BY <1>1
      <4> QED BY <1>1, <4>1, Ascent
    <3>2. m.rva % opts.sa = 0 /\ m.data <= m.raw
      BY <2>3, <2>5, <2>7
    <3>3. opts.hr \in Nat /\ prev.foff \in Nat /\ RawEnd(prev) \in Nat /\ m.foff \in Nat
          /\ opts.hr <= prev.foff /\ prev.foff <= RawEnd(prev) /\ RawEnd(prev) <= m.foff
      BY <1>1, <2>2, <2>4, <2>7
    <3>4. prev.rva \in Nat /\ VirtualEnd(prev) \in Nat /\ m.rva \in Nat
          /\ loads[1].vaddr - opts.base <= prev.rva /\ prev.rva <= VirtualEnd(prev)
          /\ VirtualEnd(prev) <= m.rva
      BY <2>2, <2>3, <2>7
    <3> HIDE DEF m, prev
    <3>5. opts.hr <= m.foff
      BY <3>3
    <3>6. loads[1].vaddr - opts.base <= m.rva
      BY <3>1, <3>4
    <3> QED BY <3>2, <3>5, <3>6
  <2>9. VirtualEnd(prev) <= m.rva /\ RawEnd(prev) <= m.foff
    BY <2>3, <2>4, <2>7
  <2> HIDE DEF m
  <2>10. /\ all \in Seq(Section) /\ Len(all) = L + 1 /\ DOMAIN all = 1 .. L + 1 /\ all[L + 1] = m
         /\ \A i \in DOMAIN out : i \in DOMAIN all /\ all[i] = out[i]
         /\ \A i \in DOMAIN all : i \in DOMAIN out \/ i = L + 1
    <3>1. /\ out \in Seq(Section) /\ m \in Section /\ all = Append(out, m) /\ L = Len(out)
          /\ L \in Nat /\ DOMAIN out = 1 .. L
      BY <1>1, <1>6, <2>7
    <3> HIDE DEF L
    <3> DEFINE a == Append(out, m)
    <3>2. /\ a \in Seq(Section) /\ Len(a) = Len(out) + 1
          /\ DOMAIN a = 1 .. Len(out) + 1 /\ a[Len(out) + 1] = m
          /\ \A i \in DOMAIN out : i \in DOMAIN a /\ a[i] = out[i]
          /\ \A i \in DOMAIN a : i \in DOMAIN out \/ i = Len(out) + 1
      BY <3>1, Appended, Zenon
    <3> QED BY <3>1, <3>2, Zenon
  <2> HIDE DEF L, prev
  <2>11. ASSUME NEW i \in DOMAIN out
         PROVE  VirtualEnd(out[i]) <= m.rva /\ RawEnd(out[i]) <= m.foff
    <3>1. CASE i = L
      BY <2>9, <3>1 DEF prev
    <3>2. CASE i < L
      <4>1. VirtualEnd(out[i]) <= prev.rva /\ RawEnd(out[i]) <= prev.foff
        BY <1>3, <2>1, <3>2 DEF prev
      <4>2. VirtualEnd(out[i]) \in Nat /\ RawEnd(out[i]) \in Nat
        BY <1>2
      <4>3. m.rva \in Nat /\ m.foff \in Nat
        BY <2>7 DEF Section
      <4> QED BY <2>2, <2>9, <4>1, <4>2, <4>3
    <3> QED BY <1>1, <3>1, <3>2
  <2>12. ASSUME NEW i \in DOMAIN all, NEW j \in DOMAIN all, i < j
         PROVE  VirtualEnd(all[i]) <= all[j].rva /\ RawEnd(all[i]) <= all[j].foff
    <3>1. i \in DOMAIN out
      BY <1>1, <2>10, <2>12
    <3>2. CASE j = L + 1
      BY <2>10, <2>11, <3>1, <3>2
    <3>3. CASE j \in DOMAIN out
      BY <1>3, <2>10, <2>12, <3>1, <3>3
    <3> QED BY <2>10, <3>2, <3>3
  <2>13. Ascending(all)
    BY <2>12 DEF Ascending
  <2>14. Extents(all)
    <3>1. \A i \in DOMAIN all : all[i] \in Section
      BY <2>10
    <3>2. \A i \in DOMAIN all : Extent(all[i])
      BY <3>1 DEF Extent, Section
    <3>3. Len(all) \in Nat /\ DOMAIN all = 1 .. Len(all)
      BY <2>10
    <3> QED BY <3>2, <3>3 DEF Extents
  <2>15. \A i \in DOMAIN all :
           /\ all[i].rva % opts.sa = 0 /\ all[i].data <= all[i].raw /\ opts.hr <= all[i].foff
           /\ loads[1].vaddr - opts.base <= all[i].rva
    BY <1>2, <2>8, <2>10
  <2> QED BY <1>1, <2>10, <2>13, <2>14, <2>15
<1> QED BY <1>5, <1>6

\* The reserve for one section more than there are segments is what SizeOfHeaders
\* comes to.
LEMMA ReserveEnough ==
  ASSUME OpenInv, NEW k \in Nat, k <= Len(loads) + 1
  PROVE  SizeOfHeaders(k, opts) \in Nat /\ SizeOfHeaders(k, opts) <= opts.hr
<1>1. /\ Alignments(opts) /\ opts.fa \in Nat \ {0} /\ opts.hr \in Nat /\ Len(loads) \in Nat
      /\ opts.hr = AlignUp(HeaderTotal(Len(loads) + 1), opts.fa)
  BY DEF OpenInv, Alignments
<1>2. /\ HeaderTotal(k) \in Nat /\ HeaderTotal(Len(loads) + 1) \in Nat
      /\ HeaderTotal(k) <= HeaderTotal(Len(loads) + 1)
  BY <1>1 DEF HeaderTotal, TableStart, SlotBytes
<1>3. HeaderTotal(Len(loads) + 1) <= opts.hr /\ opts.hr % opts.fa = 0
  <2> DEFINE h == HeaderTotal(Len(loads) + 1)
  <2>1. h \in Nat /\ opts.fa \in Nat \ {0} /\ opts.hr = AlignUp(h, opts.fa)
    BY <1>1, <1>2
  <2> HIDE DEF h
  <2>2. h <= opts.hr /\ opts.hr % opts.fa = 0
    BY <2>1, AlignUpBounds
  <2> QED BY <2>2 DEF h
<1>4. /\ opts.hr <= AlignUp(opts.hr, opts.fa) /\ AlignUp(opts.hr, opts.fa) \in Nat
      /\ AlignUp(opts.hr, opts.fa) <= opts.hr
  <2>1. opts.hr <= AlignUp(opts.hr, opts.fa) /\ AlignUp(opts.hr, opts.fa) \in Nat
    BY <1>1, AlignUpBounds
  <2>2. opts.hr <= opts.hr
    BY <1>1
  <2>3. AlignUp(opts.hr, opts.fa) <= opts.hr
    BY <1>1, <1>3, <2>2, AlignUpLeast
  <2> QED BY <2>1, <2>3
<1>5. HeaderTotal(k) <= AlignUp(opts.hr, opts.fa)
  BY <1>1, <1>2, <1>3, <1>4
<1>6. SizeOfHeaders(k, opts) = AlignUp(opts.hr, opts.fa)
  BY <1>1, <1>5, HeaderSizes
<1> QED BY <1>4, <1>6

\* Behind the last table every entry is done.
LEMMA AllDone ==
  ASSUME TypeInv, CursorInv, table \notin DOMAIN file.tables
  PROVE  /\ \A t \in DOMAIN file.tables : ~file.tables[t].ragged
         /\ \A t \in DOMAIN file.tables : \A k \in DOMAIN EntriesOf(t) : Done(t, k)
<1>1. Len(file.tables) \in Nat /\ DOMAIN file.tables = 1 .. Len(file.tables)
  BY FileTyped DEF File
<1>2. table = Len(file.tables) + 1
  BY <1>1 DEF TypeInv, CursorInv
<1>3. \A t \in DOMAIN file.tables : t < table
  BY <1>1, <1>2
<1> QED BY <1>3 DEF CursorInv, Done

\* A site is one of RELA or one of RELR.
LEMMA SitesAll ==
  ASSUME TypeInv, CursorInv, table \notin DOMAIN file.tables, NEW va
  PROVE  va \in RelaSites \cup RelrSitesAll <=> \E t, k : Done(t, k) /\ va \in EntrySites(t, k)
<1>1. file.tables \in Seq(Table)
  BY FileTyped DEF File
<1>2. \A t \in DOMAIN file.tables : file.tables[t].kind \in {"RELA", "RELR"}
  <2> SUFFICES ASSUME NEW t \in DOMAIN file.tables PROVE file.tables[t].kind \in {"RELA", "RELR"}
    OBVIOUS
  <2>1. file.tables[t] \in Table
    BY <1>1
  <2> QED BY <2>1 DEF Table
<1>3. ASSUME va \in RelaSites PROVE \E t, k : Done(t, k) /\ va \in EntrySites(t, k)
  <2>1. PICK e \in Relative : va = e.offset
    BY <1>3 DEF RelaSites
  <2>2. PICK t \in Tables("RELA") : e \in RelaEntriesOf(t)
    BY <2>1 DEF Relative
  <2>3. PICK k \in DOMAIN EntriesOf(t) : e = EntriesOf(t)[k]
    BY <2>2 DEF RelaEntriesOf
  <2>4. t \in DOMAIN file.tables /\ file.tables[t].kind = "RELA" /\ e.type = "RELATIVE"
    BY <2>1, <2>2 DEF Tables, Relative
  <2>5. va \in EntrySites(t, k)
    BY <2>1, <2>3, <2>4 DEF EntrySites, RelativeEntry
  <2> QED BY <2>3, <2>4, <2>5, AllDone
<1>4. ASSUME va \in RelrSitesAll PROVE \E t, k : Done(t, k) /\ va \in EntrySites(t, k)
  <2>1. PICK t \in Tables("RELR") : \E k \in DOMAIN EntriesOf(t) : va \in RelrDenotes(EntriesOf(t), k)
    BY <1>4 DEF RelrSitesAll
  <2>2. PICK k \in DOMAIN EntriesOf(t) : va \in RelrDenotes(EntriesOf(t), k)
    BY <2>1
  <2>3. t \in DOMAIN file.tables /\ file.tables[t].kind = "RELR"
    BY <2>1 DEF Tables
  <2>4. va \in EntrySites(t, k)
    BY <2>2, <2>3 DEF EntrySites
  <2> QED BY <2>2, <2>3, <2>4, AllDone
<1>5. ASSUME NEW t, NEW k, Done(t, k), va \in EntrySites(t, k)
      PROVE  va \in RelaSites \cup RelrSitesAll
  <2>1. t \in DOMAIN file.tables /\ k \in DOMAIN EntriesOf(t)
    BY <1>5 DEF Done
  <2>2. CASE file.tables[t].kind = "RELR"
    <3>1. va \in RelrDenotes(EntriesOf(t), k) /\ t \in Tables("RELR")
      BY <1>5, <2>1, <2>2 DEF EntrySites, Tables
    <3> QED BY <2>1, <3>1 DEF RelrSitesAll
  <2>3. CASE file.tables[t].kind = "RELA"
    <3>1. RelativeEntry(t, k) /\ va = EntriesOf(t)[k].offset /\ t \in Tables("RELA")
      BY <1>5, <2>1, <2>3 DEF EntrySites, Tables
    <3>2. EntriesOf(t)[k] \in Relative
      BY <2>1, <3>1 DEF Relative, RelaEntriesOf, RelativeEntry
    <3> QED BY <3>1, <3>2 DEF RelaSites
  <2> QED BY <1>2, <2>1, <2>2, <2>3
<1> QED BY <1>3, <1>4, <1>5

\* .reloc is a section like others.
LEMMA RelocTyped ==
  ASSUME TypeInv, OpenInv, Len(out) = Len(loads), NEW n \in Nat
  PROVE  RelocSection(out[Len(out)], n) \in Section
<1> DEFINE prev == out[Len(out)]
<1>1. opts.sa \in Nat \ {0} /\ opts.fa \in Nat \ {0} /\ Len(out) \in DOMAIN out
  BY DEF OpenInv, TypeInv
<1>2. prev \in Section
  BY <1>1 DEF TypeInv
<1> HIDE DEF prev
<1>3. VirtualEnd(prev) \in Nat /\ RawEnd(prev) \in Nat
  BY <1>2 DEF VirtualEnd, RawEnd, Section
<1>4. RelocRVA(prev, opts) \in Nat
  BY <1>1, <1>3, AlignUpBounds DEF RelocRVA
<1>5. RelocOffset(prev, opts) \in Nat
  BY <1>1, <1>3, AlignUpBounds DEF RelocOffset
<1>6. AlignUp(n, opts.fa) \in Nat
  BY <1>1, AlignUpBounds
<1>7. << >> \in WordMaps
  <2>1. << >> \in [{} -> Nat] /\ {} \in SUBSET Nat
    OBVIOUS
  <2> QED BY <2>1 DEF WordMaps
<1>8. RelocSection(prev, n) \in Section
  BY <1>4, <1>5, <1>6, <1>7 DEF RelocSection, Section
<1> QED BY <1>8 DEF prev

LEMMA StutterKeeps ==
  ASSUME PIEInv, UNCHANGED <<file, opts, loads, out, foff, table, at, where, baseRel, image, pc>>
  PROVE  PIEInv'
<1>1. TypeInv' /\ (Opened' <=> Opened)
  BY DEF PIEInv, TypeInv, Opened
<1>2. OpenInv => OpenInv'
  BY OpenInvKeeps
<1>3. SectionsInv => SectionsInv'
  BY DEF SectionsInv, Placed
<1>4. MapInv => MapInv'
  BY <1>3 DEF MapInv
<1>5. CursorInv => CursorInv'
  BY DEF CursorInv, EntriesOf
<1>6. \A t, k : /\ Done(t, k)' <=> Done(t, k)
                /\ RelativeEntry(t, k)' <=> RelativeEntry(t, k)
                /\ EntrySites(t, k)' = EntrySites(t, k)
                /\ EntriesOf(t)' = EntriesOf(t)
  BY DEF Done, RelativeEntry, EntrySites, EntriesOf
<1>7. SitesInv => SitesInv'
  BY <1>6 DEF SitesInv, SiteBacked
<1>8. WordsInv => WordsInv'
  BY <1>6 DEF WordsInv
<1>9. (Good' <=> Good) /\ (ListedOnce' <=> ListedOnce)
  BY DEF Good, Small, SegmentsApart, ListedOnce
<1>10. TableInv => TableInv'
  BY <1>3, <1>5, <1>7, <1>8, <1>9 DEF TableInv
<1>11. RelaSites' = RelaSites /\ RelrSitesAll' = RelrSitesAll
  BY DEF Tables, RelaEntriesOf, EntriesOf, RelaSites, Relative, RelrSitesAll
<1>12. PIEApart => PIEApart'
  BY DEF PIEApart, Small, SegmentsApart
<1>13. HeadersFree => HeadersFree'
  BY DEF HeadersFree, Small, SegmentsApart
<1>14. Unfit' <=> Unfit
  BY <1>11 DEF Unfit, PTLoads, Tables, RelaEntriesOf, EntriesOf, SiteBacked
<1>15. PIEFailsForCause => PIEFailsForCause'
  BY <1>14 DEF PIEFailsForCause, Small, SegmentsApart
<1>16. RebaseAgrees => RebaseAgrees'
  <2>1. (Small' <=> Small) /\ (SegmentsApart' <=> SegmentsApart) /\ (WordsApart' <=> WordsApart)
    BY DEF Small, SegmentsApart, WordsApart, Words
  <2>2. \A i : WordsOf(i)' = WordsOf(i)
    BY <1>11 DEF WordsOf
  <2>3. \A i, l, bias : PELoaded(i, l, bias)' = PELoaded(i, l, bias)
    BY DEF PELoaded
  <2>4. \A s, l, bias : ELFLoaded(s, l, bias)' = ELFLoaded(s, l, bias)
    BY <1>11 DEF ELFLoaded, RelaOf, Relative, Tables, RelaEntriesOf, EntriesOf
  <2> QED BY <1>9, <1>11, <2>1, <2>2, <2>3, <2>4 DEF RebaseAgrees
<1> QED BY <1>1, <1>2, <1>4, <1>10, <1>12, <1>13, <1>15, <1>16 DEF PIEInv

LEMMA RelocBytesTyped ==
  ASSUME TypeInv
  PROVE  RelocBytes \in Nat
<1> DEFINE D       == DOMAIN baseRel
           page(i) == baseRel[i] \div 4096
           pages   == {page(i) : i \in D}
           odd     == {p \in pages : Cardinality({i \in D : page(i) = p}) % 2 = 1}
<1>1. D = 1 .. Len(baseRel) /\ Len(baseRel) \in Nat
  BY DEF TypeInv
<1>2. IsFiniteSet(D)
  <2>1. 1 \in Int /\ Len(baseRel) \in Int
    BY <1>1
  <2> QED BY <1>1, <2>1, FS_Interval
<1>3. IsFiniteSet(pages)
  <2> DEFINE f == [i \in D |-> page(i)]
  <2>1. f \in Surjection(D, pages)
    BY DEF Surjection
  <2> HIDE DEF f, pages, D
  <2> QED BY <1>2, <2>1, FS_Surjection DEF ExistsSurjection
<1>4. IsFiniteSet(odd)
  <2>1. odd \in SUBSET pages
    OBVIOUS
  <2> HIDE DEF odd, pages
  <2> QED BY <1>3, <2>1, FS_Subset
<1>5. Cardinality(pages) \in Nat /\ Cardinality(odd) \in Nat
  BY <1>3, <1>4, FS_CardinalityType
<1>6. RelocBytes = 8 * Cardinality(pages) + 2 * Len(baseRel) + 2 * Cardinality(odd)
  BY DEF RelocBytes
<1> HIDE DEF pages, odd
<1> QED BY <1>1, <1>5, <1>6

\* In a list without repetition a value occurs once or never.
LEMMA CountOnce ==
  ASSUME ListedOnce, NEW r
  PROVE  Cardinality({k \in DOMAIN baseRel : baseRel[k] = r})
           = IF \E k \in DOMAIN baseRel : baseRel[k] = r THEN 1 ELSE 0
<1>1. CASE \E k \in DOMAIN baseRel : baseRel[k] = r
  <2>1. PICK k \in DOMAIN baseRel : baseRel[k] = r
    BY <1>1
  <2>2. {j \in DOMAIN baseRel : baseRel[j] = r} = {k}
    BY <2>1 DEF ListedOnce
  <2> QED BY <1>1, <2>2, FS_Singleton
<1>2. CASE ~\E k \in DOMAIN baseRel : baseRel[k] = r
  <2>1. {j \in DOMAIN baseRel : baseRel[j] = r} = {}
    BY <1>2
  <2> QED BY <1>2, <2>1, FS_EmptySet
<1> QED BY <1>1, <1>2

\* Behind the last table both loaders agree on every word.
LEMMA WordsAgree ==
  ASSUME TypeInv, OpenInv, TableInv, table \notin DOMAIN file.tables, Good, ListedOnce,
         NEW i \in DOMAIN loads, NEW bias \in Nat, NEW l \in WordsOf(i)
  PROVE  PELoaded(i, l, bias) = ELFLoaded(loads[i], l, bias)
<1>1. /\ loads[i].vaddr \in Nat /\ loads[i].filesz \in Nat /\ Segment(loads[i])
      /\ opts.base \in Nat /\ i \in DOMAIN out /\ out[i] \in Section
      /\ out[i].rva = loads[i].vaddr - opts.base
  <2>1. i \in DOMAIN out /\ out[i] \in Section /\ opts.base \in Nat
    BY DEF TypeInv, OpenInv, TableInv
  <2>2. Placed(i)
    BY <2>1 DEF TableInv, SectionsInv
  <2> QED BY <2>1, <2>2, Ascent DEF Placed, Good, OpenInv
<1>2. CursorInv /\ SitesInv /\ WordsInv
  BY DEF TableInv
<1>3. l \in Nat /\ l < loads[i].filesz
  <2>1. CASE l \in DOMAIN out[i].words
    <3>1. out[i].words \in WordMaps
      BY <1>1 DEF Section
    <3>2. PICK S \in SUBSET Nat : out[i].words \in [S -> Nat]
      BY <3>1 DEF WordMaps
    <3> QED BY <1>2, <2>1, <3>2 DEF WordsInv
  <2>2. CASE l \notin DOMAIN out[i].words
    <3>1. PICK va \in RelaSites \cup RelrSitesAll :
             /\ loads[i].vaddr <= va /\ va < loads[i].vaddr + loads[i].filesz
             /\ l = va - loads[i].vaddr
      BY <2>2 DEF WordsOf
    <3>2. va \in Nat
      <4>1. PICK t, k : Done(t, k) /\ va \in EntrySites(t, k)
        BY <1>2, <3>1, SitesAll
      <4>2. PICK j \in DOMAIN baseRel : opts.base + baseRel[j] = va
        BY <1>2, <4>1 DEF SitesInv
      <4>3. baseRel[j] \in Nat
        BY <4>2 DEF TypeInv
      <4> QED BY <1>1, <4>2, <4>3
    <3> QED BY <1>1, <3>1, <3>2
  <2> QED BY <2>1, <2>2
<1> DEFINE va == loads[i].vaddr + l
           r  == out[i].rva + l
<1>4. va \in Nat /\ r \in Int /\ opts.base + r = va
  BY <1>1, <1>3
<1>5. (\E k \in DOMAIN baseRel : baseRel[k] = r) <=> va \in RelaSites \cup RelrSitesAll
  <2>1. ASSUME NEW k \in DOMAIN baseRel, baseRel[k] = r PROVE va \in RelaSites \cup RelrSitesAll
    <3>1. PICK t, n : Done(t, n) /\ opts.base + baseRel[k] \in EntrySites(t, n)
      BY <1>2 DEF SitesInv
    <3>2. va \in EntrySites(t, n)
      BY <1>4, <2>1, <3>1
    <3> HIDE DEF va
    <3> QED BY <1>2, <3>1, <3>2, SitesAll
  <2>2. ASSUME va \in RelaSites \cup RelrSitesAll PROVE \E k \in DOMAIN baseRel : baseRel[k] = r
    <3> HIDE DEF va, r
    <3>1. PICK t, n : Done(t, n) /\ va \in EntrySites(t, n)
      BY <1>2, <2>2, SitesAll
    <3>2. PICK k \in DOMAIN baseRel : opts.base + baseRel[k] = va
      BY <1>2, <3>1 DEF SitesInv
    <3>3. baseRel[k] \in Nat
      BY DEF TypeInv
    <3>4. baseRel[k] = r
      BY <1>1, <1>4, <3>2, <3>3
    <3> QED BY <3>4
  <2> QED BY <2>1, <2>2
<1> DEFINE c == Cardinality({k \in DOMAIN baseRel : baseRel[k] = r})
<1>6. c = IF va \in RelaSites \cup RelrSitesAll THEN 1 ELSE 0
  <2> HIDE DEF va, r
  <2> QED BY <1>5, CountOnce
<1>7. PELoaded(i, l, bias) = WordAt(out[i].words, l) + bias * c
  BY DEF PELoaded
<1>8. /\ \A t, k : Done(t, k) /\ RelativeEntry(t, k) /\ EntriesOf(t)[k].offset = va =>
           WordAt(out[i].words, l) = EntriesOf(t)[k].addend
      /\ \/ WordAt(out[i].words, l) = WordAt(loads[i].words, l)
         \/ \E t, k : Done(t, k) /\ RelativeEntry(t, k) /\ EntriesOf(t)[k].offset = va
  BY <1>2, <1>3 DEF WordsInv
<1>9. \A t, k : Done(t, k) /\ RelativeEntry(t, k) => EntriesOf(t)[k] \in Relative
  <2> SUFFICES ASSUME NEW t, NEW k, Done(t, k), RelativeEntry(t, k)
               PROVE  EntriesOf(t)[k] \in Relative
    OBVIOUS
  <2>1. t \in DOMAIN file.tables /\ k \in DOMAIN EntriesOf(t)
    BY DEF Done
  <2>2. t \in Tables("RELA") /\ EntriesOf(t)[k].type = "RELATIVE"
    BY <2>1 DEF RelativeEntry, Tables
  <2> QED BY <2>1, <2>2 DEF Relative, RelaEntriesOf
<1> HIDE DEF c, r
<1>10. CASE RelaOf(va) /= {}
  <2> DEFINE e == CHOOSE x \in RelaOf(va) : TRUE
  <2>1. e \in RelaOf(va)
    BY <1>10
  <2> HIDE DEF e
  <2>2. e \in Relative /\ e.offset = va
    BY <2>1 DEF RelaOf
  <2>3. PICK t \in Tables("RELA") : e \in RelaEntriesOf(t)
    BY <2>2 DEF Relative
  <2>4. PICK k \in DOMAIN EntriesOf(t) : e = EntriesOf(t)[k]
    BY <2>3 DEF RelaEntriesOf
  <2>5. t \in DOMAIN file.tables /\ file.tables[t].kind = "RELA" /\ e.type = "RELATIVE"
    BY <2>2, <2>3 DEF Tables, Relative
  <2>6. Done(t, k) /\ RelativeEntry(t, k)
    BY <1>2, <2>4, <2>5, AllDone DEF RelativeEntry
  <2>7. WordAt(out[i].words, l) = e.addend
    BY <1>8, <2>2, <2>4, <2>6
  <2>8. e.addend \in Nat
    <3>1. file.tables[t] \in Table
      BY <2>5, FileTyped DEF File
    <3>2. EntriesOf(t) \in Seq(RelaEntry)
      BY <2>5, <3>1 DEF Table, EntriesOf
    <3>3. e \in RelaEntry
      BY <2>4, <3>2
    <3> QED BY <3>3 DEF RelaEntry
  <2>9. c = 1
    <3>1. va \in RelaSites
      BY <2>2 DEF RelaSites
    <3> QED BY <1>6, <3>1
  <2>10. ELFLoaded(loads[i], l, bias) = bias + e.addend
    BY <1>10 DEF ELFLoaded, e
  <2>11. PELoaded(i, l, bias) = e.addend + bias
    BY <1>7, <2>7, <2>8, <2>9
  <2> QED BY <2>8, <2>10, <2>11
<1>11. CASE RelaOf(va) = {}
  <2>1. ~\E t, k : Done(t, k) /\ RelativeEntry(t, k) /\ EntriesOf(t)[k].offset = va
    BY <1>9, <1>11 DEF RelaOf
  <2>2. WordAt(out[i].words, l) = WordAt(loads[i].words, l)
    BY <1>8, <2>1
  <2>3. va \notin RelaSites
    BY <1>11 DEF RelaSites, RelaOf
  <2>4. c = IF va \in RelrSitesAll THEN 1 ELSE 0
    BY <1>6, <2>3
  <2>5. WordAt(loads[i].words, l) \in Nat
    BY <1>1 DEF Segment, WordAt
  <2>6. ELFLoaded(loads[i], l, bias) =
          WordAt(loads[i].words, l) + (IF va \in RelrSitesAll THEN bias ELSE 0)
    BY <1>11 DEF ELFLoaded
  <2>7. bias * c = IF va \in RelrSitesAll THEN bias ELSE 0
    BY <2>4
  <2> QED BY <1>7, <2>2, <2>6, <2>7
<1> QED BY <1>10, <1>11

\* What reaches the end has nothing in it that would have been refused.
LEMMA NothingUnfit ==
  ASSUME TypeInv, OpenInv, TableInv, table \notin DOMAIN file.tables, Good
  PROVE  ~Unfit
<1>1. CursorInv /\ SitesInv /\ SectionsInv
  BY DEF TableInv
<1>2. ASSUME NEW i \in PTLoads
      PROVE  ~(file.segs[i].vaddr < (IF opts.base = 0 THEN Default(opts.sa, 4096) ELSE opts.base))
  <2>1. Default(opts.sa, 4096) = opts.sa /\ opts.sa \in Nat /\ opts.base \in Nat
    BY DEF OpenInv, Default
  <2>2. loads[1].vaddr <= file.segs[i].vaddr /\ opts.base <= loads[1].vaddr
        /\ (opts.base = 0 => opts.sa <= loads[1].vaddr)
    BY DEF OpenInv
  <2>3. file.segs[i].vaddr \in Nat
    BY FileTyped DEF File, PTLoads, Segment
  <2>4. loads[1].vaddr \in Nat
    BY DEF OpenInv, Segment
  <2> QED BY <2>1, <2>2, <2>3, <2>4
<1>3. ASSUME NEW i \in DOMAIN loads PROVE (loads[i].vaddr - opts.base) % opts.sa = 0
  <2>1. i \in DOMAIN out
    BY DEF OpenInv, TableInv, TypeInv
  <2>2. Placed(i)
    BY <1>1, <2>1 DEF SectionsInv
  <2> QED BY <2>2, Ascent DEF Placed, Good
<1>4. \A t \in DOMAIN file.tables : ~file.tables[t].ragged
  BY <1>1, AllDone
<1>5. \A t \in Tables("RELA") : \A e \in RelaEntriesOf(t) : e.type /= "other"
  BY <1>1, AllDone DEF SitesInv, Tables, RelaEntriesOf
<1>6. \A va \in RelaSites \cup RelrSitesAll : SiteBacked(va)
  BY <1>1, SitesAll DEF SitesInv
<1> QED BY <1>2, <1>3, <1>4, <1>5, <1>6 DEF Unfit, OpenInv

LEMMA EmitStep ==
  ASSUME PIEInv, Emit
  PROVE  PIEInv'
<1>1. /\ pc = "table" /\ table \notin DOMAIN file.tables /\ pc' = "emitted"
      /\ image' = [soh |-> SizeOfHeaders(Len(out'), opts), soi |-> SizeOfImage(out', opts),
                   size |-> FileSize(out', opts), entry |-> SiteRVA(file.entry)]
      /\ out' = IF baseRel = << >> THEN out
                ELSE Append(out, RelocSection(out[Len(out)], RelocBytes))
      /\ UNCHANGED <<file, opts, loads, foff, table, at, where, baseRel>>
  BY DEF Emit
<1>2. TypeInv /\ OpenInv /\ TableInv
  BY <1>1 DEF PIEInv, Opened
<1>3. OpenInv'
  BY <1>1, <1>2, OpenInvKeeps
<1>4. RelocBytes \in Nat
  BY <1>2, RelocBytesTyped
<1>5. out' \in Seq(Section)
  <2>1. CASE baseRel = << >>
    BY <1>1, <1>2, <2>1 DEF TypeInv
  <2>2. CASE baseRel /= << >>
    <3>1. RelocSection(out[Len(out)], RelocBytes) \in Section
      BY <1>2, <1>4, RelocTyped DEF TableInv
    <3>2. out \in Seq(Section)
      BY <1>2 DEF TypeInv
    <3>3. out' = Append(out, RelocSection(out[Len(out)], RelocBytes))
      BY <1>1, <2>2
    <3> QED BY <3>1, <3>2, <3>3, Appended
  <2> QED BY <2>1, <2>2
<1>6. TypeInv'
  BY <1>1, <1>2, <1>5 DEF TypeInv
<1>7. Good' <=> Good
  BY <1>1, GoodKeeps
<1>8. ASSUME Good
      PROVE  /\ Len(out') \in Nat /\ Len(out') <= Len(loads) + 1 /\ Extents(out') /\ Ascending(out')
             /\ \A i \in DOMAIN loads : out'[i] = out[i]
             /\ \A i \in DOMAIN out' :
                  /\ out'[i].rva % opts.sa = 0 /\ out'[i].data <= out'[i].raw
                  /\ opts.hr <= out'[i].foff /\ loads[1].vaddr - opts.base <= out'[i].rva
                  /\ out'[i] \in Section
  <2>1. out' = out \/ out' = Append(out, RelocSection(out[Len(out)], RelocBytes))
    BY <1>1
  <2>2. SectionsInv /\ Len(out) = Len(loads) /\ out \in Seq(Section)
    BY <1>2 DEF TableInv, TypeInv
  <2>3. PICK all : all = out'
    OBVIOUS
  <2>4. /\ all \in Seq(Section) /\ Len(all) \in Nat
        /\ Len(all) <= Len(loads) + 1 /\ Extents(all) /\ Ascending(all)
        /\ \A i \in DOMAIN loads : i \in DOMAIN all /\ all[i] = out[i]
        /\ \A i \in DOMAIN all :
             /\ all[i].rva % opts.sa = 0 /\ all[i].data <= all[i].raw /\ opts.hr <= all[i].foff
             /\ loads[1].vaddr - opts.base <= all[i].rva
    BY <1>2, <1>4, <1>8, <2>1, <2>2, <2>3, TailPlaced
  <2> QED BY <2>3, <2>4
<1>9. PIEApart'
  <2>1. ASSUME Good
        PROVE  /\ Ascending(out')
               /\ \A i \in DOMAIN out' :
                    /\ out'[i].rva % opts.sa = 0 /\ out'[i].data <= out'[i].raw
                    /\ VirtualEnd(out'[i]) <= image'.soi
                    /\ out'[i].raw > 0 => RawEnd(out'[i]) <= image'.size
    <3>1. Alignments(opts)
      BY <1>2 DEF OpenInv, Alignments
    <3>2. Extents(out') /\ Ascending(out')
      BY <1>8, <2>1
    <3>3. \A i \in DOMAIN out' : VirtualEnd(out'[i]) <= SizeOfImage(out', opts)
      BY <3>1, <3>2, SizeOfImageCovers
    <3>4. \A i \in DOMAIN out' : out'[i].raw > 0 => RawEnd(out'[i]) <= FileSize(out', opts)
      BY <3>1, <3>2, FileSizeCovers
    <3>5. image'.soi = SizeOfImage(out', opts) /\ image'.size = FileSize(out', opts)
      BY <1>1
    <3> QED BY <1>8, <2>1, <3>2, <3>3, <3>4, <3>5
  <2>2. opts' = opts /\ (Small' /\ SegmentsApart' => Good)
    BY <1>1, <1>7 DEF Good
  <2> QED BY <2>1, <2>2 DEF PIEApart
<1>10. HeadersFree'
  <2>1. ASSUME Good, NEW i \in DOMAIN out'
        PROVE  /\ image'.soh <= out'[i].foff
               /\ opts.base + opts.sa <= loads[1].vaddr /\ image'.soh <= opts.sa =>
                    image'.soh <= out'[i].rva
    <3>1. image'.soh = SizeOfHeaders(Len(out'), opts)
      BY <1>1
    <3>2. image'.soh \in Nat /\ image'.soh <= opts.hr
      BY <1>2, <1>8, <2>1, <3>1, ReserveEnough
    <3>3. /\ opts.hr <= out'[i].foff /\ loads[1].vaddr - opts.base <= out'[i].rva
          /\ out'[i].foff \in Nat /\ out'[i].rva \in Nat
      BY <1>8, <2>1 DEF Section
    <3>4. opts.hr \in Nat /\ opts.base \in Nat /\ opts.sa \in Nat /\ loads[1].vaddr \in Nat
      BY <1>2 DEF OpenInv, Segment
    <3> QED BY <3>2, <3>3, <3>4
  <2>2. opts' = opts /\ loads' = loads /\ (Small' /\ SegmentsApart' => Good)
    BY <1>1, <1>7 DEF Good
  <2> QED BY <2>1, <2>2 DEF HeadersFree
<1>11. PIEFailsForCause'
  <2>1. Good => ~Unfit
    BY <1>1, <1>2, NothingUnfit
  <2>2. Unfit' <=> Unfit
    BY <1>1 DEF Unfit, PTLoads, Tables, RelaEntriesOf, EntriesOf, RelaSites, Relative,
                RelrSitesAll, SiteBacked
  <2> QED BY <1>1, <1>7, <2>1, <2>2 DEF PIEFailsForCause, Good
<1>12. RebaseAgrees'
  <2>1. RelaSites' = RelaSites /\ RelrSitesAll' = RelrSitesAll
    BY <1>1 DEF Tables, RelaEntriesOf, EntriesOf, RelaSites, Relative, RelrSitesAll
  <2>2. ASSUME Good
        PROVE  {opts.base + baseRel[k] : k \in DOMAIN baseRel} = RelaSites \cup RelrSitesAll
    <3>1. CursorInv /\ SitesInv
      BY <1>2, <2>2 DEF TableInv
    <3>2. ASSUME NEW va
          PROVE  va \in {opts.base + baseRel[k] : k \in DOMAIN baseRel}
                   <=> va \in RelaSites \cup RelrSitesAll
      <4>1. va \in RelaSites \cup RelrSitesAll <=> \E t, k : Done(t, k) /\ va \in EntrySites(t, k)
        BY <1>1, <1>2, <3>1, SitesAll
      <4>2. (\E t, k : Done(t, k) /\ va \in EntrySites(t, k))
              => \E j \in DOMAIN baseRel : opts.base + baseRel[j] = va
        BY <3>1 DEF SitesInv
      <4>3. (\E j \in DOMAIN baseRel : opts.base + baseRel[j] = va)
              => \E t, k : Done(t, k) /\ va \in EntrySites(t, k)
        BY <3>1 DEF SitesInv
      <4> QED BY <4>1, <4>2, <4>3
    <3> QED BY <3>2
  <2>3. ASSUME Good, ListedOnce, NEW i \in DOMAIN loads, NEW bias \in Biases, NEW l \in WordsOf(i)
        PROVE  PELoaded(i, l, bias) = ELFLoaded(loads[i], l, bias)
    BY <1>1, <1>2, <2>3, WordsAgree, PIEAssumption
  <2>4. ASSUME Good, NEW i \in DOMAIN loads
        PROVE  /\ WordsOf(i)' = WordsOf(i)
               /\ \A l, bias : PELoaded(i, l, bias)' = PELoaded(i, l, bias)
    <3>1. out'[i] = out[i]
      BY <1>8, <2>4
    <3> QED BY <1>1, <2>1, <3>1 DEF WordsOf, PELoaded
  <2>5. \A s, l, bias : ELFLoaded(s, l, bias)' = ELFLoaded(s, l, bias)
    BY <1>1, <2>1 DEF ELFLoaded, RelaOf, Relative, Tables, RelaEntriesOf, EntriesOf
  <2>6. ListedOnce' <=> ListedOnce
    BY <1>1 DEF ListedOnce
  <2>7. Small' /\ SegmentsApart' => Good
    BY <1>7 DEF Good
  <2> SUFFICES ASSUME Good, ListedOnce
               PROVE  /\ {opts'.base + baseRel'[k] : k \in DOMAIN baseRel'}
                            = RelaSites' \cup RelrSitesAll'
                      /\ \A i \in DOMAIN loads', bias \in Biases : \A l \in WordsOf(i)' :
                           PELoaded(i, l, bias)' = ELFLoaded(loads[i], l, bias)'
    BY <2>6, <2>7 DEF RebaseAgrees
  <2>8. \A i \in DOMAIN loads', bias \in Biases : \A l \in WordsOf(i)' :
          PELoaded(i, l, bias)' = ELFLoaded(loads[i], l, bias)'
    BY <1>1, <2>3, <2>4, <2>5
  <2> QED BY <1>1, <2>1, <2>2, <2>8
<1> QED BY <1>1, <1>3, <1>6, <1>9, <1>10, <1>11, <1>12 DEF PIEInv, Opened

-------------------------------------------------------------------------------
(* The theorems *)

LEMMA PIEInvariant == PIESpec => []PIEInv
<1>1. PIEInit => PIEInv
  BY InitInv
<1>2. PIEInv /\ [PIENext \/ PIEReturned]_pieVars => PIEInv'
  <2> SUFFICES ASSUME PIEInv, [PIENext \/ PIEReturned]_pieVars PROVE PIEInv'
    OBVIOUS
  <2>1. CASE Open
    BY <2>1, OpenStep
  <2>2. CASE MapSegment
    BY <2>2, MapSegmentStep
  <2>3. CASE Mapped
    BY <2>3, MappedStep
  <2>4. CASE RelaNone
    BY <2>4, RelaNoneStep
  <2>5. CASE RelaRelative
    BY <2>5, RelaRelativeStep
  <2>6. CASE RelaRefused
    BY <2>6, RelaRefusedStep
  <2>7. CASE RelrEntryStep
    BY <2>7, RelrEntryInv
  <2>8. CASE RelrRefused
    BY <2>8, RelrRefusedStep
  <2>9. CASE Ragged
    BY <2>9, RaggedStep
  <2>10. CASE NextTable
    BY <2>10, NextTableStep
  <2>11. CASE Emit
    BY <2>11, EmitStep
  <2>12. CASE PIEReturned \/ UNCHANGED pieVars
    <3>1. UNCHANGED <<file, opts, loads, out, foff, table, at, where, baseRel, image, pc>>
      BY <2>12 DEF PIEReturned, pieVars
    <3> QED BY <3>1, StutterKeeps
  <2> QED BY <2>1, <2>2, <2>3, <2>4, <2>5, <2>6, <2>7, <2>8, <2>9, <2>10, <2>11, <2>12 DEF PIENext
<1> QED BY <1>1, <1>2, PTL DEF PIESpec

\* The sections of an image follow each other in memory and in the file, .reloc
\* behind them, whatever the files and the options: at pie.go:116 the file offsets,
\* and at link.go:85 the section that is appended.
THEOREM PIESectionsApart == PIESpec => []PIEApart
<1>1. PIEInv => PIEApart
  BY DEF PIEInv
<1> QED BY <1>1, PIEInvariant, PTL

\* The reserve computed at pie.go:101 for one section more than there are segments
\* keeps the headers off the data, and SectionAlignment off the memory where it
\* has room for them.
THEOREM PIEHeadersFree == PIESpec => []HeadersFree
<1>1. PIEInv => HeadersFree
  BY DEF PIEInv
<1> QED BY <1>1, PIEInvariant, PTL

\* For every file, every list of RELA and RELR tables and every load address, a PE
\* loader makes of the image what an ELF loader makes of the file.
THEOREM PIERebaseAgrees == PIESpec => []RebaseAgrees
<1>1. PIEInv => RebaseAgrees
  BY DEF PIEInv
<1> QED BY <1>1, PIEInvariant, PTL

\* LinkPIE refuses a file exactly if no PE image can express it.
THEOREM PIEVerdictRight == PIESpec => []PIEFailsForCause
<1>1. PIEInv => PIEFailsForCause
  BY DEF PIEInv
<1> QED BY <1>1, PIEInvariant, PTL
===============================================================================
