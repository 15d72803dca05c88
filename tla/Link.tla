--------------------------------- MODULE Link ---------------------------------
(***************************************************************************)
(* The tail of Link in linker/link.go, on top of ComputeLayout: the .reloc *)
(* section is appended to the finished layout and emitPE lays the image    *)
(* out.  The bytes of .reloc come from module BaseRelocs; here only their  *)
(* number matters.  The emitted image is its section table with the sizes  *)
(* and the relocation directory of its optional header.                    *)
(***************************************************************************)
EXTENDS Layout

CONSTANT RelocSizes   \* lengths BuildRelocSection may return, 0 = no .reloc

ASSUME RelocSizesAssumption == RelocSizes \subseteq Nat

VARIABLES stage,   \* how far Link has come
          image    \* the result of emitPE

linkVars == <<layoutVars, stage, image>>

NoDir   == [rva |-> 0, size |-> 0]
NoImage == [soh |-> 0, soi |-> 0, size |-> 0, relocDir |-> NoDir, table |-> << >>]

RelocSection(prev, n) ==
  [class |-> "reloc", name |-> ".reloc", bss |-> FALSE, data |-> n, vsize |-> n,
   from |-> {}, rva |-> RelocRVA(prev, opts), foff |-> RelocOffset(prev, opts),
   raw |-> AlignUp(n, opts.fa)]

\* Base relocations come from placed sections, so there is a previous section.
appendRelocSection(n) ==
  /\ pc = "laid" /\ stage = "layout"
  /\ n > 0 => out /= << >>
  /\ out' = IF n = 0 THEN out ELSE Append(out, RelocSection(out[Len(out)], n))
  /\ stage' = "linked"
  /\ UNCHANGED <<secs, opts, todo, buckets, customs, offIn, where, strided, rva,
                 foff, pc, image>>

RelocDir(table) ==
  LET at == {i \in DOMAIN table : table[i].name = ".reloc"}
      m  == table[CHOOSE i \in at : \A j \in at : i <= j]
  IN  IF at = {} THEN NoDir ELSE [rva |-> m.rva, size |-> m.vsize]

emitPE ==
  /\ stage = "linked"
  /\ image' = [soh |-> SizeOfHeaders(Len(out), opts), soi |-> SizeOfImage(out, opts),
               size |-> FileSize(out, opts), relocDir |-> RelocDir(out), table |-> out]
  /\ stage' = "emitted"
  /\ UNCHANGED layoutVars

LinkInit == LayoutInit /\ stage = "layout" /\ image = NoImage

LinkNext ==
  \/ LayoutNext /\ UNCHANGED <<stage, image>>
  \/ \E n \in RelocSizes : appendRelocSection(n)
  \/ emitPE

LinkReturned == stage = "emitted" /\ UNCHANGED linkVars

LinkSpec == LinkInit /\ [][LinkNext \/ LinkReturned]_linkVars

-------------------------------------------------------------------------------
(* Properties *)

\* The variables the tail of Link adds keep their types.
LinkTypeOK ==
  /\ LayoutTypeOK
  /\ stage \in {"layout", "linked", "emitted"}
  /\ image \in [soh : Nat, soi : Nat, size : Nat,
                relocDir : [rva : Nat, size : Nat], table : Seq(Merged)]

\* appendRelocSection takes the next free addresses: with .reloc the sections
\* still follow each other in memory and in the file, each of them aligned.
LinkedApart ==
  stage /= "layout" =>
    /\ Ascending(out)
    /\ \A i \in DOMAIN out : out[i].rva % opts.sa = 0 /\ out[i].foff % opts.fa = 0

\* The sizes emitPE derives from the last section cover every section, so its
\* copies stay inside the buffer and a loader maps all of the image.
ImageCovers ==
  stage = "emitted" =>
    /\ HeaderTotal(Len(image.table)) <= image.soh /\ image.soh <= image.size
    /\ \A i \in DOMAIN image.table :
         /\ VirtualEnd(image.table[i]) <= image.soi
         /\ image.table[i].raw > 0 => RawEnd(image.table[i]) <= image.size

\* As long as the section table fits the reserve, SizeOfHeaders is the place of
\* the first section, and raw data does not overlap the headers; nor does memory,
\* if the section alignment is a multiple of the file alignment.
HeadersClear ==
  stage = "emitted" /\ HeaderTotal(Len(image.table)) <= AlignUp(opts.hr, opts.fa) =>
    \A i \in DOMAIN image.table :
      /\ image.table[i].foff >= image.soh
      /\ opts.sa % opts.fa = 0 => image.table[i].rva >= image.soh
      /\ i = 1 => image.table[i].foff = image.soh

NoInputReloc == \A i \in DOMAIN secs : canonicalName(secs[i].name) /= ".reloc"

\* The base relocation directory names the synthesised section and nothing else.
RelocDirRight ==
  stage = "emitted" /\ NoInputReloc =>
    LET made == {i \in DOMAIN image.table : image.table[i].class = "reloc"} IN
    /\ made = {} => image.relocDir = NoDir
    /\ \A i \in made :
         image.relocDir = [rva |-> image.table[i].rva, size |-> image.table[i].vsize]

\* What emitPE writes into the headers agrees with the sections that follow them.
HeadersRight == ImageCovers /\ HeadersClear /\ RelocDirRight
===============================================================================
