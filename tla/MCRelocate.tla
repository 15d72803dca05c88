------------------------------- MODULE MCRelocate -------------------------------
(* Instances of Relocate: 12-bit words, 8-bit narrow and 6-bit short words, pages of 16 bytes. *)
EXTENDS Relocate, TLC

MCPage   == 16
MCShort  == 64
MCNarrow == 256
MCWide   == 4096
MCDeltas == {0, 48, 3840}

\* The image lies above Narrow, its sections from RVA 32 on.
ImageBase == 512

Defined(v)  == [kind |-> "defined", value |-> v]
Absolute(v) == [kind |-> "absolute", value |-> v]
Undefined   == [kind |-> "undefined", value |-> 0]
Nowhere     == [kind |-> "error", value |-> 0]

R(site, kind, target, elf, addend) ==
  [placed |-> TRUE, site |-> site, room |-> 8, kind |-> kind, target |-> target,
   elf |-> elf, addend |-> addend]

\* Targets at the ends of the PC-relative range of site 40, a negative addend,
\* an absolute symbol, a discarded section, a short section, an unknown type.
CoffKinds(site) ==
  { R(site, "abs64", Defined(64), FALSE, 0), R(site, "abs32", Defined(70), FALSE, 0),
    R(site, "rva32", Defined(64), FALSE, 0), R(site, "pc32", Defined(site + 131), FALSE, 0),
    R(site, "pc32", Defined(site + 132), FALSE, 0), R(site, "pc32", Absolute(400), FALSE, 0),
    R(site, "none", Absolute(0), FALSE, 0), R(site, "other", Defined(64), FALSE, 0),
    R(site, "abs64", Nowhere, FALSE, 0),
    [R(site, "abs64", Defined(64), FALSE, 0) EXCEPT !.room = 4],
    [R(site, "abs32", Defined(64), FALSE, 0) EXCEPT !.room = -1],
    [R(site, "abs64", Nowhere, FALSE, 0) EXCEPT !.placed = FALSE] }

\* auipc at site 40 or 56, its low part at 48 or at 36, with targets that make
\* the low part zero, positive, half a page and negative.
ElfKinds(site) ==
  { R(site, "abs64", Defined(64), TRUE, -8), R(site, "abs32", Defined(64), TRUE, 9),
    R(site, "pc32", Defined(64), TRUE, -4), R(site, "none", Absolute(0), TRUE, 0),
    R(site, "lo12", Defined(40), TRUE, 0), R(site, "lo12", Defined(44), TRUE, 0) }
    \cup { R(site, "hi20", Defined(t), TRUE, a) : t \in {56, 63, 64, 71}, a \in {0, -60} }
    \cup { [R(site, "hi20", Defined(56), TRUE, 0) EXCEPT !.placed = FALSE],
           R(site, "hi20", Nowhere, TRUE, 0),
           R(site, "hi20", Undefined, TRUE, 0) }

\* Displacements of AArch64 data at both ends of 16 and 32 bits.
ArmKinds(site) ==
  { R(site, k, Defined(t), TRUE, a) :
      k \in {"pc64", "prel32", "prel16"}, t \in {8, 64, site + 31, site + 128}, a \in {0, -20} }
    \cup { R(site, "abs16", Defined(64), TRUE, 0), R(site, "abs64", Defined(64), TRUE, 0),
           [R(site, "pc64", Defined(64), TRUE, 0) EXCEPT !.room = 7],
           [R(site, "prel16", Defined(64), TRUE, 0) EXCEPT !.room = 1],
           [R(site, "prel16", Defined(64), TRUE, 0) EXCEPT !.room = 2] }

\* Bytes in place: a negative, a zero and a positive COFF addend.
MCMem == [s \in {36, 40, 44} |-> IF s = 36 THEN 4092 ELSE IF s = 40 THEN 0 ELSE 3]

Prog(machines, relocs) ==
  [machines |-> machines, base |-> ImageBase, relocs |-> relocs, mem |-> MCMem]

\* Three sites each, in both orders of the input.
Lists(K(_)) ==
  {<<a, b, c>> : a \in K(36), b \in K(40), c \in K(44)}
    \cup {<<c, b, a>> : a \in K(36), b \in K(40), c \in K(44)}

MCPrograms ==
  {Prog(<<"amd64">>, l) : l \in Lists(CoffKinds)}
    \cup {Prog(<<"riscv64", "riscv64">>, l) : l \in Lists(ElfKinds)}
    \cup {Prog(<<"arm64">>, <<a, b>>) : a \in ArmKinds(36), b \in ArmKinds(44)}
    \cup {Prog(<<"amd64", "arm64">>, << >>), Prog(<< >>, << >>)}
===============================================================================
