------------------------------- MODULE PEImage -------------------------------
(***************************************************************************)
(* The arithmetic of PE images that the linker and its proofs share:       *)
(* alignment, the extents of an output section in memory and in the file,  *)
(* and the three sizes emitPE writes into the optional header.  An output  *)
(* section is a record with at least the fields                            *)
(*     rva, vsize (memory extent)   and   foff, raw (file extent).         *)
(* Addresses are unbounded naturals: the code's uint32 fields agree with   *)
(* them for every image smaller than 4 GiB.                                *)
(***************************************************************************)
EXTENDS Integers, Sequences

\* alignUp masks the low bits off v+a-1; the alignments are powers of two.
AlignUp(v, a) == ((v + a - 1) \div a) * a

VirtualEnd(s) == s.rva + s.vsize
RawEnd(s)     == s.foff + s.raw

\* DOS stub, signature, COFF header, optional header, then n section headers.
SlotBytes      == 40
TableStart     == 64 + 4 + 20 + 240
HeaderTotal(n) == TableStart + SlotBytes * n

\* SizeOfHeaders without the reserve: the slack that an appender needs is lost.
SizeOfHeaders_Tight(n, opts) == AlignUp(HeaderTotal(n), opts.fa)

SizeOfHeaders(n, opts) ==
  LET needed  == AlignUp(HeaderTotal(n), opts.fa)
      reserve == AlignUp(opts.hr, opts.fa)
  IN  IF reserve > needed THEN reserve ELSE needed

\* The end of the last section that has raw bytes, at least the headers.
FileSize(out, opts) ==
  LET soh    == SizeOfHeaders(Len(out), opts)
      onDisk == {i \in DOMAIN out : out[i].raw > 0}
      tail   == IF onDisk = {} THEN 0
                ELSE RawEnd(out[CHOOSE i \in onDisk : \A j \in onDisk : j <= i])
  IN  IF tail < soh THEN soh ELSE tail

SizeOfImage(out, opts) ==
  IF out = <<>> THEN AlignUp(SizeOfHeaders(0, opts), opts.sa)
  ELSE AlignUp(VirtualEnd(out[Len(out)]), opts.sa)

\* appendRelocSection: the next free addresses behind the last section.
\* .reloc placed right behind the virtual end, without page alignment.
RelocRVA_Unaligned(prev, opts) == VirtualEnd(prev)
RelocRVA(prev, opts) == AlignUp(VirtualEnd(prev), opts.sa)

RelocOffset(prev, opts) ==
  IF RawEnd(prev) % opts.fa /= 0 THEN AlignUp(RawEnd(prev), opts.fa) ELSE RawEnd(prev)

\* The size of a .reloc block of n entries, padded to 4 bytes.
BlockSize(n) == LET s == 8 + 2 * n IN IF s % 4 /= 0 THEN s + 2 ELSE s

\* Consecutive extents in table order: no two sections share a byte of memory
\* or of the file.
Ascending(out) ==
  \A i, j \in DOMAIN out :
    i < j => /\ VirtualEnd(out[i]) <= out[j].rva
             /\ RawEnd(out[i]) <= out[j].foff
==============================================================================
