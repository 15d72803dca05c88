---------------------------------- MODULE PIE ----------------------------------
(***************************************************************************)
(* LinkPIE of linker/pie.go: one PE section per PT_LOAD segment, the RELA  *)
(* and RELR tables entry by entry, and the tail it shares with Link; then  *)
(* what a PE loader and an ELF loader make of the result and of the        *)
(* original when they put it somewhere else.                               *)
(*                                                                         *)
(* A segment's file data is the 64-bit words that something refers to, by  *)
(* offset; the rest of its bytes are counted.  Addresses are unbounded,    *)
(* RVAs are taken modulo Narrow: 2^32 in the code.                         *)
(***************************************************************************)
EXTENDS PEImage, FiniteSets, FiniteSetsExt, Functions

CONSTANTS Files,     \* the ELF files
          Options,   \* the PIEOptions a caller may pass, 0 = unset
          Biases,    \* distances from ImageBase at which the image is loaded
          Narrow

\* The words of a segment lie in its file data.
Segment(s) ==
  /\ s.type \in {"PT_LOAD", "other"} /\ s.vaddr \in Nat /\ s.filesz \in Nat /\ s.memsz \in Nat
  /\ s.words \in [DOMAIN s.words -> Nat]
  /\ \A l \in DOMAIN s.words : l \in Nat /\ l + 8 <= s.filesz

\* Entries of a table: Elf64_Rela, or an address or a bitmap of RELR.
RelaEntry == [offset : Nat, type : {"RELATIVE", "NONE", "other"}, addend : Nat]
RelrEntry == [kind : {"address"}, site : Nat] \cup [kind : {"bitmap"}, bits : SUBSET (0 .. 62)]
Table == [kind : {"RELA"}, ragged : BOOLEAN, entries : Seq(RelaEntry)]
           \cup [kind : {"RELR"}, ragged : BOOLEAN, entries : Seq(RelrEntry)]

File(f) ==
  /\ f.dyn \in BOOLEAN /\ f.machine \in BOOLEAN /\ f.entry \in Nat
  /\ Len(f.segs) \in Nat /\ DOMAIN f.segs = 1 .. Len(f.segs)
  /\ \A i \in DOMAIN f.segs : Segment(f.segs[i])
  /\ f.tables \in Seq(Table)

PIEOptions == [base : Nat, sa : Nat, fa : Nat]

ASSUME PIEAssumption ==
  /\ Narrow \in Nat \ {0} /\ Biases \subseteq Nat
  /\ \A o \in Options : o \in PIEOptions
  /\ \A f \in Files : File(f)

VARIABLES file,
          opts,     \* with defaults; hr is the HeaderReserve of the layout
          loads,    \* the PT_LOAD segments by address
          out,      \* the sections
          foff,     \* the next file offset
          table, at,\* the relocation table and the entry in it
          where,    \* the cursor of RELR
          baseRel,  \* RVAs of the DIR64 base relocations, as found
          image,
          pc

pieVars == <<file, opts, loads, out, foff, table, at, where, baseRel, image, pc>>

Default(v, d) == IF v = 0 THEN d ELSE v
NoImage == [soh |-> 0, soi |-> 0, size |-> 0, entry |-> 0]

-------------------------------------------------------------------------------
(* Segments *)

\* The members of a set by their keys, equal ones in any order (sort.Slice).
Sorted(key) ==
  LET S == DOMAIN key IN
  {q \in Bijection(1 .. Cardinality(S), S) :
     \A j, k \in DOMAIN q : j < k => key[q[j]] <= key[q[k]]}

PTLoads == {i \in DOMAIN file.segs : file.segs[i].type = "PT_LOAD" /\ file.segs[i].memsz > 0}

\* The reserve computed for the segments alone: .reloc comes later.
ReservedSlots_Loads(n) == n
ReservedSlots(n) == n + 1

\* The lowest segment lands one section alignment above the image's base.
ImageBase(o, ls) == IF o.base = 0 THEN ls[1].vaddr - o.sa ELSE o.base

OpenWith(ls, sa, fa) ==
  LET hr == AlignUp(HeaderTotal(ReservedSlots(Len(ls))), fa) IN
  IF \/ ~file.dyn \/ ~file.machine \/ ls = << >>
     \/ opts.base = 0 /\ ls[1].vaddr < sa
     \/ ls[1].vaddr < opts.base
  THEN pc' = "error" /\ UNCHANGED <<opts, loads, foff>>
  ELSE /\ opts' = [base |-> ImageBase([opts EXCEPT !.sa = sa], ls), sa |-> sa, fa |-> fa, hr |-> hr]
       /\ loads' = ls /\ foff' = hr
       /\ pc' = "map"

Open ==
  /\ pc = "open"
  /\ \E q \in Sorted([i \in PTLoads |-> file.segs[i].vaddr]) :
       OpenWith([k \in DOMAIN q |-> file.segs[q[k]]], Default(opts.sa, 4096), Default(opts.fa, 512))
  /\ UNCHANGED <<file, out, table, at, where, baseRel, image>>

MapSegment ==
  LET p   == loads[Len(out) + 1]
      rva == (p.vaddr - opts.base) % Narrow
      raw == AlignUp(p.filesz, opts.fa)
  IN
  /\ pc = "map" /\ Len(out) < Len(loads)
  /\ IF rva % opts.sa /= 0
     THEN pc' = "error" /\ UNCHANGED <<out, foff>>
     ELSE /\ out' = Append(out, [rva |-> rva, foff |-> foff, vsize |-> p.memsz, raw |-> raw,
                                 data |-> p.filesz, words |-> p.words])
          /\ foff' = foff + raw
          /\ UNCHANGED pc
  /\ UNCHANGED <<file, opts, loads, table, at, where, baseRel, image>>

Mapped ==
  /\ pc = "map" /\ Len(out) = Len(loads)
  /\ pc' = "table"
  /\ UNCHANGED <<file, opts, loads, out, foff, table, at, where, baseRel, image>>

-------------------------------------------------------------------------------
(* Relocation tables *)

Covers(s, va) == opts.base + s.rva <= va /\ va < opts.base + s.rva + s.data

sectionForVA(va) ==
  LET found == {i \in DOMAIN out : Covers(out[i], va)}
  IN  IF found = {} THEN 0 ELSE Min(found)

Loc(i, va) == va - (opts.base + out[i].rva)

\* Inside the file data of a section, all eight bytes, and one more.
Holds_Strict(va) == LET i == sectionForVA(va) IN i /= 0 /\ Loc(i, va) + 8 < out[i].data
\* Inside the file data of a section, all eight bytes.
Holds(va) == LET i == sectionForVA(va) IN i /= 0 /\ Loc(i, va) + 8 <= out[i].data

SiteRVA(va) == (va - opts.base) % Narrow

InTable(kind) ==
  pc = "table" /\ table \in DOMAIN file.tables /\ file.tables[table].kind = kind
    /\ at \in DOMAIN file.tables[table].entries /\ ~file.tables[table].ragged

Entry == file.tables[table].entries[at]

Reject ==
  /\ pc' = "error"
  /\ UNCHANGED <<file, opts, loads, out, foff, table, at, where, baseRel, image>>

RelaNone ==
  /\ InTable("RELA") /\ Entry.type = "NONE"
  /\ at' = at + 1
  /\ UNCHANGED <<file, opts, loads, out, foff, table, where, baseRel, image, pc>>

\* The addend is the target's address at the preferred base.
RelaRelative ==
  LET i == sectionForVA(Entry.offset) IN
  /\ InTable("RELA") /\ Entry.type = "RELATIVE" /\ Holds(Entry.offset)
  /\ out' = [out EXCEPT ![i].words =
               [l \in DOMAIN @ \cup {Loc(i, Entry.offset)} |->
                  IF l = Loc(i, Entry.offset) THEN Entry.addend ELSE @[l]]]
  /\ baseRel' = Append(baseRel, SiteRVA(Entry.offset))
  /\ at' = at + 1
  /\ UNCHANGED <<file, opts, loads, foff, table, where, image, pc>>

RelaRefused ==
  /\ InTable("RELA") /\ Entry.type /= "NONE"
  /\ Entry.type /= "RELATIVE" \/ ~Holds(Entry.offset)
  /\ Reject

\* The cursor moves on by the 64 bits of the entry instead of its 63 words.
MapWords_Bits == 64
MapWords == 63

\* The sites of an entry: itself, or the words its bits select from the cursor.
RelrSites ==
  IF Entry.kind = "address" THEN {Entry.site} ELSE {where + 8 * b : b \in Entry.bits}

RelrEntryStep ==
  /\ InTable("RELR") /\ \A va \in RelrSites : Holds(va)
  /\ \E q \in Sorted([va \in RelrSites |-> va]) :
       baseRel' = baseRel \o [k \in DOMAIN q |-> SiteRVA(q[k])]
  /\ where' = IF Entry.kind = "address" THEN Entry.site + 8 ELSE where + 8 * MapWords
  /\ at' = at + 1
  /\ UNCHANGED <<file, opts, loads, out, foff, table, image, pc>>

RelrRefused ==
  /\ InTable("RELR") /\ \E va \in RelrSites : ~Holds(va)
  /\ Reject

Ragged ==
  /\ pc = "table" /\ table \in DOMAIN file.tables /\ file.tables[table].ragged
  /\ Reject

NextTable ==
  /\ pc = "table" /\ table \in DOMAIN file.tables /\ ~file.tables[table].ragged
  /\ at \notin DOMAIN file.tables[table].entries
  /\ table' = table + 1 /\ at' = 1 /\ where' = 0
  /\ UNCHANGED <<file, opts, loads, out, foff, baseRel, image, pc>>

-------------------------------------------------------------------------------
(* The tail *)

\* A block per page: its header, two bytes an entry, and two more for an odd number.
RelocBytes ==
  LET page(i) == baseRel[i] \div 4096
      pages   == {page(i) : i \in DOMAIN baseRel}
      odd     == {p \in pages : Cardinality({i \in DOMAIN baseRel : page(i) = p}) % 2 = 1}
  IN  8 * Cardinality(pages) + 2 * Len(baseRel) + 2 * Cardinality(odd)

RelocSection(prev, n) ==
  [rva |-> RelocRVA(prev, opts), foff |-> RelocOffset(prev, opts), vsize |-> n,
   raw |-> AlignUp(n, opts.fa), data |-> n, words |-> << >>]

Emit ==
  LET all == IF baseRel = << >> THEN out
             ELSE Append(out, RelocSection(out[Len(out)], RelocBytes))
  IN
  /\ pc = "table" /\ table \notin DOMAIN file.tables
  /\ out' = all
  /\ image' = [soh |-> SizeOfHeaders(Len(all), opts), soi |-> SizeOfImage(all, opts),
               size |-> FileSize(all, opts), entry |-> SiteRVA(file.entry)]
  /\ pc' = "emitted"
  /\ UNCHANGED <<file, opts, loads, foff, table, at, where, baseRel>>

PIEInit ==
  /\ file \in Files
  /\ \E o \in Options : opts = [base |-> o.base, sa |-> o.sa, fa |-> o.fa, hr |-> 0]
  /\ loads = << >> /\ out = << >> /\ foff = 0
  /\ table = 1 /\ at = 1 /\ where = 0 /\ baseRel = << >>
  /\ image = NoImage /\ pc = "open"

PIENext ==
  \/ Open \/ MapSegment \/ Mapped
  \/ RelaNone \/ RelaRelative \/ RelaRefused
  \/ RelrEntryStep \/ RelrRefused \/ Ragged \/ NextTable
  \/ Emit

PIEReturned == pc \in {"emitted", "error"} /\ UNCHANGED pieVars

PIESpec == PIEInit /\ [][PIENext \/ PIEReturned]_pieVars

-------------------------------------------------------------------------------
(* The two loaders *)

WordAt(words, l) == IF l \in DOMAIN words THEN words[l] ELSE 0

\* PE: every base relocation adds the distance.
PELoaded(i, l, bias) ==
  WordAt(out[i].words, l)
    + bias * Cardinality({k \in DOMAIN baseRel : baseRel[k] = out[i].rva + l})

Tables(kind)     == {t \in DOMAIN file.tables : file.tables[t].kind = kind}
EntriesOf(t)     == file.tables[t].entries
RelaEntriesOf(t) == {EntriesOf(t)[k] : k \in DOMAIN EntriesOf(t)}

Relative   == {e \in UNION {RelaEntriesOf(t) : t \in Tables("RELA")} : e.type = "RELATIVE"}
RelaOf(va) == {e \in Relative : e.offset = va}
RelaSites  == {e.offset : e \in Relative}

\* RELR, by the format: a bitmap continues where the entries since the last
\* address left off, each of them for 63 words.
RelrCursor(es, k) ==
  LET addrs == {j \in 1 .. k - 1 : es[j].kind = "address"} IN
  IF addrs = {} THEN 8 * 63 * (k - 1)
  ELSE es[Max(addrs)].site + 8 + 8 * 63 * (k - Max(addrs) - 1)

RelrDenotes(es, k) ==
  IF es[k].kind = "address" THEN {es[k].site}
  ELSE {RelrCursor(es, k) + 8 * b : b \in es[k].bits}

RelrSitesAll ==
  UNION {UNION {RelrDenotes(EntriesOf(t), k) : k \in DOMAIN EntriesOf(t)} : t \in Tables("RELR")}

\* ELF: RELA stores bias + addend, RELR adds the bias to what is there.
ELFLoaded(s, l, bias) ==
  LET va == s.vaddr + l IN
  IF RelaOf(va) /= {} THEN bias + (CHOOSE e \in RelaOf(va) : TRUE).addend
  ELSE WordAt(s.words, l) + (IF va \in RelrSitesAll THEN bias ELSE 0)

-------------------------------------------------------------------------------
(* Properties *)

\* An image of less than 4 GiB from its base on; beyond, RVAs are cut off.
Small == \A i \in DOMAIN loads : loads[i].vaddr + loads[i].memsz - opts.base < Narrow

\* Segments as an ELF linker lays them out: none holds more than its memory, and
\* none shares an address with the next.
SegmentsApart ==
  /\ \A i \in DOMAIN loads : loads[i].filesz <= loads[i].memsz
  /\ \A i, j \in DOMAIN loads : i < j => loads[i].vaddr + loads[i].memsz <= loads[j].vaddr

\* No word is listed twice, and no two overlap, as a linker emits its dynamic
\* relocations: a word stands for eight bytes.
ListedOnce == \A j, k \in DOMAIN baseRel : j /= k => baseRel[j] /= baseRel[k]

Words == {baseRel[k] : k \in DOMAIN baseRel}
           \cup UNION {{out[i].rva + l : l \in DOMAIN out[i].words} : i \in DOMAIN loads}
WordsApart == \A v, w \in Words : v < w => v + 8 <= w

\* The words of a section that hold something or that a table names.
WordsOf(i) ==
  DOMAIN out[i].words
    \cup {va - loads[i].vaddr :
            va \in {v \in RelaSites \cup RelrSitesAll :
                     loads[i].vaddr <= v /\ v < loads[i].vaddr + loads[i].filesz}}

\* Wherever it is loaded, the PE image holds in every word what the ELF file
\* would hold with the same bias: each RELATIVE and RELR site is rebased, once,
\* from the right value, and no other word changes.
RebaseAgrees ==
  pc = "emitted" /\ Small /\ SegmentsApart /\ ListedOnce /\ WordsApart =>
    /\ {opts.base + baseRel[k] : k \in DOMAIN baseRel} = RelaSites \cup RelrSitesAll
    /\ \A i \in DOMAIN loads, bias \in Biases : \A l \in WordsOf(i) :
         PELoaded(i, l, bias) = ELFLoaded(loads[i], l, bias)

\* Sections, with .reloc behind them, follow each other in memory and in the
\* file, and the sizes of the headers cover them.
PIEApart ==
  pc = "emitted" /\ Small /\ SegmentsApart =>
    /\ Ascending(out)
    /\ \A i \in DOMAIN out :
         /\ out[i].rva % opts.sa = 0 /\ out[i].data <= out[i].raw
         /\ VirtualEnd(out[i]) <= image.soi
         /\ out[i].raw > 0 => RawEnd(out[i]) <= image.size

\* The headers end before the first section's data, .reloc's table slot included,
\* and, where SectionAlignment has room for them and ImageBase leaves that much,
\* before the first section's memory.
HeadersFree ==
  pc = "emitted" /\ Small /\ SegmentsApart =>
    \A i \in DOMAIN out :
      /\ image.soh <= out[i].foff
      /\ opts.base + opts.sa <= loads[1].vaddr /\ image.soh <= opts.sa => image.soh <= out[i].rva

SiteBacked(va) ==
  \E i \in DOMAIN loads : loads[i].vaddr <= va /\ va + 8 <= loads[i].vaddr + loads[i].filesz

\* What no PE image can express: no segments, no room for the headers, a segment
\* off the alignment, a table of another format, a symbolic relocation, or a site
\* whose eight bytes are not all in the file.
Unfit ==
  \/ ~file.dyn \/ ~file.machine \/ PTLoads = {}
  \/ \E i \in PTLoads :
       file.segs[i].vaddr < (IF opts.base = 0 THEN Default(opts.sa, 4096) ELSE opts.base)
  \/ \E i \in DOMAIN loads : (loads[i].vaddr - opts.base) % opts.sa /= 0
  \/ \E t \in DOMAIN file.tables : file.tables[t].ragged
  \/ \E t \in Tables("RELA") : \E e \in RelaEntriesOf(t) : e.type = "other"
  \/ \E va \in RelaSites \cup RelrSitesAll : ~SiteBacked(va)

\* LinkPIE refuses a file exactly if there is something in it that no PE image can
\* express.
PIEFailsForCause ==
  Small /\ SegmentsApart =>
    /\ pc = "error" => Unfit
    /\ pc = "emitted" => ~Unfit
===============================================================================
