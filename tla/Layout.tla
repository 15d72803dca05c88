-------------------------------- MODULE Layout --------------------------------
(***************************************************************************)
(* ComputeLayout of linker/layout.go: input sections are filtered, sorted, *)
(* concatenated into buckets (pass A), the buckets become the output       *)
(* section list (pass B), and the list gets its RVAs and file offsets      *)
(* (pass C).  The program is sequential; what it does not determine is the *)
(* order in which pass B ranges over the map of buckets.                   *)
(*                                                                         *)
(* An input section is identified by its position in natural (object,      *)
(* section) order, the SectionRef of the code.  Its bytes are abstracted   *)
(* to their number; a bucket remembers whose bytes it holds in `from'.     *)
(* A name is the pair of its canonical part and its COMDAT suffix.         *)
(***************************************************************************)
EXTENDS PEImage

CONSTANTS Inputs,     \* the section lists a link may start from
          Options,    \* the LayoutOptions a caller may pass, 0 = unset
          NameOrder   \* the canonical names in use, in byte order

ToSet(s) == {s[i] : i \in DOMAIN s}
Stems    == ToSet(NameOrder)

InputSection ==
  [name : [stem : Stems, sub : STRING], exec : BOOLEAN, bss : BOOLEAN,
   discardable : BOOLEAN, data : Nat, vsize : Nat, align : Nat]

LayoutOptions == [sa : Nat, fa : Nat, hr : Nat]

ASSUME NamesAssumption ==
  /\ NameOrder \in Seq(STRING)
  /\ \A i, j \in DOMAIN NameOrder : NameOrder[i] = NameOrder[j] => i = j
  /\ {".text", ".rdata", ".rodata", ".xdata", ".data", ".bss", ".drectve"}
       \subseteq Stems

ASSUME InputsAssumption ==
  /\ Inputs \subseteq Seq(InputSection)
  /\ Options \subseteq LayoutOptions

\* alignUp masks bits: it rounds to powers of two, as PE asks for, and 0 is unset.
ASSUME AlignmentsAssumption ==
  \A o \in Options : \A a \in {o.sa, o.fa} : a = 0 \/ \E k \in 0 .. 31 : a = 2^k

VARIABLES secs,     \* the input sections
          opts,     \* the options, defaults applied
          todo,     \* entries not yet placed
          buckets,  \* bucket key -> merged section under construction
          customs,  \* keys of the "other" buckets, first seen first
          offIn,    \* Layout.OffsetIn
          where,    \* Layout.Where; 0 stands for the -1 of pass A
          out,      \* Layout.Out
          strided,  \* sections pass C has placed
          rva, foff,\* pass C's running pointers
          pc

layoutVars ==
  <<secs, opts, todo, buckets, customs, offIn, where, out, strided, rva, foff, pc>>

-------------------------------------------------------------------------------
(* Classification *)

Default(v, d) == IF v = 0 THEN d ELSE v

\* An unset file alignment stays zero.
WithDefaults_KeepZero(o) == [sa |-> Default(o.sa, 4096), fa |-> o.fa, hr |-> o.hr]
WithDefaults(o) ==
  [sa |-> Default(o.sa, 4096), fa |-> Default(o.fa, 512), hr |-> Default(o.hr, 1024)]

canonicalName(n) == n.stem

outputClass(s) ==
  CASE canonicalName(s.name) = ".text" -> "text"
    [] canonicalName(s.name) \in {".rdata", ".rodata", ".xdata"} -> "rdata"
    [] canonicalName(s.name) = ".data" -> "data"
    [] canonicalName(s.name) = ".bss" -> "bss"
    [] OTHER -> IF s.exec THEN "text" ELSE "other"

\* BSS inputs are merged into the .data bucket.
bucketClass(s) == IF outputClass(s) = "bss" THEN "data" ELSE outputClass(s)

outputName(class, n) ==
  CASE class = "text"  -> ".text"
    [] class = "rdata" -> ".rdata"
    [] class = "data"  -> ".data"
    [] class = "bss"   -> ".bss"
    [] OTHER -> canonicalName(n)

bucketName(s) == outputName(bucketClass(s), s.name)

\* Buckets keyed by the input's own name: aliases of .text keep apart.
bucketKey_PerName(s) == <<bucketClass(s), canonicalName(s.name)>>
bucketKey(s) == <<bucketClass(s), bucketName(s)>>

Classes    == {"text", "rdata", "data", "bss", "other"}
classOrder == <<"text", "rdata", "data", "bss">>
ClassRank(c) == CHOOSE i \in DOMAIN classOrder : classOrder[i] = c

Filtered(s) == \/ canonicalName(s.name) = ".drectve"
               \/ s.discardable
               \/ s.vsize = 0 /\ s.data = 0

-------------------------------------------------------------------------------
(* The order sortInputs leaves the entries in *)

priority(s) == IF canonicalName(s.name) = bucketName(s) THEN 0 ELSE 1
Rank(n)     == CHOOSE i \in DOMAIN NameOrder : NameOrder[i] = n

\* The sort without its secondary key: .bss bytes may come before .data bytes.
Precedes_NoPriority(i, j) ==
  LET ri == Rank(bucketName(secs[i]))
      rj == Rank(bucketName(secs[j]))
  IN  ri < rj \/ (ri = rj /\ i < j)

Precedes(i, j) ==
  LET ri == Rank(bucketName(secs[i]))
      rj == Rank(bucketName(secs[j]))
      pi == priority(secs[i])
      pj == priority(secs[j])
  IN  \/ ri < rj
      \/ ri = rj /\ pi < pj
      \/ ri = rj /\ pi = pj /\ i < j

-------------------------------------------------------------------------------
(* Pass A *)

\* "reloc" is the class of the section Link itself adds.
Merged == [class : Classes \cup {"reloc"}, name : Stems \cup {".reloc"},
           bss : BOOLEAN, data : Nat, vsize : Nat, from : SUBSET Nat,
           rva : Nat, foff : Nat, raw : Nat]

\* addToBucket: a passthrough bucket keeps the flags of its first input.
NewBucket(k, s) ==
  [class |-> k[1], name |-> k[2], bss |-> k[1] = "other" /\ s.bss,
   data |-> 0, vsize |-> 0, from |-> {}, rva |-> 0, foff |-> 0, raw |-> 0]

BucketFor(k, s) == IF k \in DOMAIN buckets THEN buckets[k] ELSE NewBucket(k, s)

PlacedAt(b, s) == IF s.bss THEN b.vsize ELSE b.data

Absorb(b, s, i) ==
  IF s.bss
  THEN [b EXCEPT !.vsize = @ + s.vsize, !.from = @ \cup {i}]
  ELSE [b EXCEPT !.data = @ + s.data, !.vsize = b.data + s.data, !.from = @ \cup {i}]

Put(f, x, v) == [y \in DOMAIN f \cup {x} |-> IF y = x THEN v ELSE f[y]]

Place(i) ==
  LET s == secs[i]
      k == bucketKey(s)
      b == BucketFor(k, s)
  IN  /\ pc = "place"
      /\ \A j \in todo \ {i} : Precedes(i, j)
      /\ todo' = todo \ {i}
      /\ buckets' = Put(buckets, k, Absorb(b, s, i))
      /\ customs' = IF k[1] = "other" /\ k \notin DOMAIN buckets
                    THEN Append(customs, k) ELSE customs
      /\ offIn' = Put(offIn, i, PlacedAt(b, s))
      /\ where' = Put(where, i, 0)
      /\ UNCHANGED <<secs, opts, out, strided, rva, foff, pc>>

AllPlaced ==
  /\ pc = "place" /\ todo = {}
  /\ pc' = "emit"
  /\ UNCHANGED <<secs, opts, todo, buckets, customs, offIn, where, out, strided, rva, foff>>

-------------------------------------------------------------------------------
(* Pass B *)

Emitted  == {<<out[i].class, out[i].name>> : i \in DOMAIN out}
StdKeys  == {k \in DOMAIN buckets : k[1] /= "other"}
Pending  == StdKeys \ Emitted

\* One class after the other; within a class in any order of the map.
EmitStandard(k) ==
  /\ pc = "emit" /\ k \in Pending
  /\ \A l \in Pending : ClassRank(k[1]) <= ClassRank(l[1])
  /\ out' = Append(out, buckets[k])
  /\ UNCHANGED <<secs, opts, todo, buckets, customs, offIn, where, strided, rva, foff, pc>>

EmitCustoms ==
  /\ pc = "emit" /\ Pending = {}
  /\ out' = out \o [i \in DOMAIN customs |-> buckets[customs[i]]]
  /\ pc' = "bind"
  /\ UNCHANGED <<secs, opts, todo, buckets, customs, offIn, where, strided, rva, foff>>

\* The section an input is bound to, looked up by its own name.
HomeName_Canonical(s) == canonicalName(s.name)
HomeName(s) == bucketName(s)

\* The first output section of that name, -1 if there is none.
FirstNamed(n) ==
  LET at == {i \in DOMAIN out : out[i].name = n}
  IN  IF at = {} THEN 0 ELSE CHOOSE i \in at : \A j \in at : i <= j

BindWhere ==
  /\ pc = "bind"
  /\ where' = [i \in DOMAIN where |-> FirstNamed(HomeName(secs[i]))]
  /\ rva'  = AlignUp(opts.hr, opts.sa)
  /\ foff' = AlignUp(opts.hr, opts.fa)
  /\ pc' = "stride"
  /\ UNCHANGED <<secs, opts, todo, buckets, customs, offIn, out, strided>>

-------------------------------------------------------------------------------
(* Pass C *)

RawSize(m) == IF m.bss THEN 0 ELSE AlignUp(m.data, opts.fa)

\* The memory a section takes, were it measured by its bytes on disk.
VirtualStride_Raw(m) == AlignUp(m.data, opts.sa)
VirtualStride(m) == AlignUp(m.vsize, opts.sa)

Stride ==
  LET n == strided + 1
      m == out[n]
  IN  /\ pc = "stride" /\ strided < Len(out)
      /\ out' = [out EXCEPT ![n].rva = rva, ![n].foff = foff, ![n].raw = RawSize(m)]
      /\ rva'  = rva + VirtualStride(m)
      /\ foff' = foff + RawSize(m)
      /\ strided' = n
      /\ UNCHANGED <<secs, opts, todo, buckets, customs, offIn, where, pc>>

Laid ==
  /\ pc = "stride" /\ strided = Len(out)
  /\ pc' = "laid"
  /\ UNCHANGED <<secs, opts, todo, buckets, customs, offIn, where, out, strided, rva, foff>>

-------------------------------------------------------------------------------

LayoutInit ==
  /\ secs \in Inputs
  /\ opts \in {WithDefaults(o) : o \in Options}
  /\ todo = {i \in DOMAIN secs : ~Filtered(secs[i])}
  /\ buckets = << >> /\ customs = << >>
  /\ offIn = << >> /\ where = << >>
  /\ out = << >> /\ strided = 0
  /\ rva = 0 /\ foff = 0
  /\ pc = "place"

LayoutNext ==
  \/ \E i \in todo : Place(i)
  \/ AllPlaced
  \/ \E k \in DOMAIN buckets : EmitStandard(k)
  \/ EmitCustoms
  \/ BindWhere
  \/ Stride
  \/ Laid

\* A reference the maps do not hold reads their zero values: the first output
\* section, and if the layout has none, the index is out of range.
OutOf(ref) == IF ref \in DOMAIN where THEN where[ref] ELSE 1

ResolvePanics(ref) == OutOf(ref) \notin DOMAIN out

ResolveRVA(ref, off) ==
  out[OutOf(ref)].rva + (IF ref \in DOMAIN offIn THEN offIn[ref] ELSE 0) + off

LayoutReturned == pc = "laid" /\ UNCHANGED layoutVars

LayoutSpec == LayoutInit /\ [][LayoutNext \/ LayoutReturned]_layoutVars

-------------------------------------------------------------------------------
(* Properties *)

\* Every variable keeps its type through the three passes of ComputeLayout.
LayoutTypeOK ==
  /\ secs \in Seq(InputSection)
  /\ opts \in LayoutOptions /\ opts.sa > 0 /\ opts.fa > 0
  /\ todo \subseteq DOMAIN secs
  /\ buckets \in [DOMAIN buckets -> Merged]
  /\ customs \in Seq(DOMAIN buckets)
  /\ DOMAIN offIn \subseteq DOMAIN secs /\ offIn \in [DOMAIN offIn -> Nat]
  /\ DOMAIN where = DOMAIN offIn /\ where \in [DOMAIN where -> Nat]
  /\ out \in Seq(Merged)
  /\ strided \in 0 .. Len(out)
  /\ rva \in Nat /\ foff \in Nat
  /\ pc \in {"place", "emit", "bind", "stride", "laid"}

Kept     == {i \in DOMAIN secs : ~Filtered(secs[i])}
Bytes(i) == IF secs[i].bss THEN secs[i].vsize ELSE secs[i].data

\* Inputs as compilers emit them: an uninitialised section shares a bucket with
\* initialised ones only as the .bss alias of .data.
WellFlagged ==
  \A i, j \in Kept :
    bucketKey(secs[i]) = bucketKey(secs[j]) /\ secs[i].bss /\ ~secs[j].bss
      => priority(secs[j]) < priority(secs[i])

Fits(b, i) == /\ offIn[i] + Bytes(i) <= b.vsize
              /\ ~secs[i].bss => offIn[i] + Bytes(i) <= b.data

Apart(i, j) == \/ offIn[i] + Bytes(i) <= offIn[j]
               \/ offIn[j] + Bytes(j) <= offIn[i]

Concatenated ==
  \A k \in DOMAIN buckets : \A i \in buckets[k].from :
    /\ i \in DOMAIN offIn
    /\ Fits(buckets[k], i)
    /\ \A j \in buckets[k].from \ {i} : Apart(i, j)

\* The concatenation of pass A: inputs of one bucket never overlap and none
\* reaches past the bucket's end, with the BSS inputs riding on the data.
InputsApart == WellFlagged => Concatenated

\* Pass C: the sections placed so far follow each other, in memory and in the
\* file, aligned, clear of the header reserve, their bytes within RawSize.
SectionsApart ==
  LET placed == SubSeq(out, 1, strided) IN
  /\ Ascending(placed)
  /\ \A i \in DOMAIN placed :
       /\ placed[i].rva % opts.sa = 0 /\ placed[i].rva >= opts.hr
       /\ placed[i].foff % opts.fa = 0 /\ placed[i].foff >= opts.hr
       /\ WellFlagged => placed[i].data <= placed[i].raw

\* Pass B: every surviving input is bound to the section that holds its bytes,
\* and to one section only.
WhereHome ==
  pc \in {"stride", "laid"} =>
    /\ DOMAIN where = Kept
    /\ \A i \in Kept : {m \in DOMAIN out : i \in out[m].from} = {where[i]}

\* The standard sections come first in classOrder, at most one of each, whatever
\* order the map of buckets is ranged over; no two sections have the same name.
OutputOrder ==
  pc \in {"bind", "stride", "laid"} =>
    \A i, j \in DOMAIN out : i < j =>
      /\ out[i].name /= out[j].name
      /\ out[j].class \in ToSet(classOrder) =>
           /\ out[i].class \in ToSet(classOrder)
           /\ ClassRank(out[i].class) < ClassRank(out[j].class)

===============================================================================
