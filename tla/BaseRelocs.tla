------------------------------- MODULE BaseRelocs -------------------------------
(***************************************************************************)
(* BuildRelocSection of linker/reloc_section.go, one block per step, then  *)
(* the loader that the format is meant for, one fixup per step.  The code  *)
(* under src/ has no loader: its steps read the format that the comment of *)
(* BuildRelocSection describes.                                            *)
(*                                                                         *)
(* The stream is a sequence of little-endian 16-bit halfwords.  sort.Slice *)
(* is not stable: entries with one RVA come out in any order.              *)
(***************************************************************************)
EXTENDS PEImage, FiniteSets

CONSTANT EntryLists   \* the lists of base relocations ApplyRelocations may return

PageSize == 4096
BaseRelocTypes == 1 .. 15   \* 4 bits, and 0 means padding

BaseReloc == [rva : Nat, type : BaseRelocTypes]

ASSUME EntriesAssumption == EntryLists \subseteq Seq(BaseReloc)

VARIABLES entries,   \* the list, unsorted
          todo,      \* entries not yet in the stream
          buf,       \* the stream
          phase,     \* "build", "load" or "loaded"
          pos,       \* the block the loader is in, by the halfword it begins at
          fix,       \* the next fixup of that block
          applied    \* what the loader has applied: a bag of relocations

relocVars == <<entries, todo, buf, phase, pos, fix, applied>>

Half(v) == << v % 65536, v \div 65536 >>
Word(h, i) == h[i] + 65536 * h[i + 1]

PageOf(rva) == (rva \div PageSize) * PageSize

-------------------------------------------------------------------------------
(* BuildRelocSection *)

\* A window of two pages, as if the mask were 0x1fff.
SamePage_Wide(a, b) == a \div (2 * PageSize) = b \div (2 * PageSize)
SamePage(a, b) == PageOf(a) = PageOf(b)

\* The entries in RVA order; orders of equal RVAs are all possible.
SortedBy(S) ==
  {q \in [1 .. Cardinality(S) -> S] :
     /\ \A i, j \in DOMAIN q : i /= j => q[i] /= q[j]
     /\ \A i \in 1 .. Len(q) - 1 : entries[q[i]].rva <= entries[q[i + 1]].rva}

Lowest(S) == {i \in S : \A j \in S : entries[i].rva <= entries[j].rva}

Window(i) == {j \in todo : SamePage(entries[j].rva, entries[i].rva)}

\* A block of an odd number of entries is not padded.
Padding_None(n) == << >>
Padding(n) == IF 8 + 2 * n < BlockSize(n) THEN << 0 >> ELSE << >>

Encode(e, page) == (e.type * PageSize) + ((e.rva - page) % PageSize)

Block(q) ==
  LET page == PageOf(entries[q[1]].rva)
  IN  Half(page) \o Half(BlockSize(Len(q)))
        \o [k \in DOMAIN q |-> Encode(entries[q[k]], page)] \o Padding(Len(q))

EmitBlock ==
  /\ phase = "build" /\ todo /= {}
  /\ \E i \in Lowest(todo) :
       /\ \E q \in SortedBy(Window(i)) : buf' = buf \o Block(q)
       /\ todo' = todo \ Window(i)
  /\ UNCHANGED <<entries, phase, pos, fix, applied>>

Built ==
  /\ phase = "build" /\ todo = {}
  /\ phase' = "load"
  /\ UNCHANGED <<entries, todo, buf, pos, fix, applied>>

-------------------------------------------------------------------------------
(* The loader *)

Count(x, f) == Cardinality({i \in DOMAIN f : f[i] = x})

BlockEnd == pos + Word(buf, pos + 2) \div 2

BlockReadable ==
  /\ pos + 3 <= Len(buf)
  /\ Word(buf, pos + 2) > 8
  /\ BlockEnd <= Len(buf) + 1

\* A halfword of a block on a page, as a fixup.
Fixup(h, page) == [rva |-> page + (h % PageSize), type |-> h \div PageSize]

\* Fixups of type 0 are padding.
LoadFixup ==
  /\ phase = "load" /\ BlockReadable /\ fix < BlockEnd
  /\ LET f == Fixup(buf[fix], Word(buf, pos))
     IN  applied' = IF f.type = 0 THEN applied ELSE Append(applied, f)
  /\ fix' = fix + 1
  /\ UNCHANGED <<entries, todo, buf, phase, pos>>

NextBlock ==
  /\ phase = "load" /\ BlockReadable /\ fix >= BlockEnd
  /\ pos' = BlockEnd /\ fix' = BlockEnd + 4
  /\ UNCHANGED <<entries, todo, buf, phase, applied>>

LoadedAll ==
  /\ phase = "load" /\ pos = Len(buf) + 1
  /\ phase' = "loaded"
  /\ UNCHANGED <<entries, todo, buf, pos, fix, applied>>

RelocInit ==
  /\ entries \in EntryLists
  /\ todo = DOMAIN entries
  /\ buf = << >> /\ phase = "build" /\ pos = 1 /\ fix = 5 /\ applied = << >>

RelocNext == EmitBlock \/ Built \/ LoadFixup \/ NextBlock \/ LoadedAll

RelocFinished == phase = "loaded" /\ UNCHANGED relocVars

RelocSpec == RelocInit /\ [][RelocNext \/ RelocFinished]_relocVars

-------------------------------------------------------------------------------
(* Properties *)

\* The stream holds halfwords, the loader stays in it.
RelocTypeOK ==
  /\ entries \in Seq(BaseReloc) /\ todo \subseteq DOMAIN entries
  /\ \A i \in DOMAIN buf : buf[i] \in Nat /\ buf[i] < 65536
  /\ phase \in {"build", "load", "loaded"}
  /\ pos \in 1 .. Len(buf) + 1 /\ fix \in 5 .. Len(buf) + 5
  /\ applied \in Seq(BaseReloc)

\* A loader that reads the blocks applies each base relocation as often as it
\* was listed, in ascending order, and nothing else.
RoundTrip ==
  phase = "loaded" =>
    /\ Len(applied) = Len(entries)
    /\ \A i \in 1 .. Len(applied) - 1 : applied[i].rva <= applied[i + 1].rva
    /\ \A x \in {applied[i] : i \in DOMAIN applied} : Count(x, applied) = Count(x, entries)

\* The loader never meets a block it cannot read: every block begins on a 4-byte
\* boundary and, block by block, the sizes lead to the end of the stream.
BlocksReadable ==
  /\ Len(buf) % 2 = 0 /\ pos % 2 = 1
  /\ phase = "load" /\ pos <= Len(buf) => BlockReadable
===============================================================================
