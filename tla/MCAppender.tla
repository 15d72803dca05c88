------------------------------- MODULE MCAppender -------------------------------
(* Instances of Appender: stubs with room for four more table entries. *)
EXTENDS Appender, TLC

MCNames == {"", ".bss", ".text", ".reloc", ".linux", ".cmdline", ".toolongname"}
MCLong  == {".toolongname"}

Hdr(name, rva, vsize, foff, raw, k) ==
  [name |-> name, vsize |-> vsize, rva |-> rva, raw |-> raw, foff |-> foff, id |-> <<0, k>>]

RunOf(h) == [at |-> h.foff, len |-> h.raw, id |-> h.id]

Stub(table, len, soi, overlay) ==
  [table |-> table, start |-> 328, soh |-> 512, soi |-> soi, sa |-> 64, fa |-> 32,
   len |-> len,
   runs |-> {RunOf(table[i]) : i \in {j \in DOMAIN table : table[j].raw > 0}} \cup overlay]

Overlay(at) == {[at |-> at, len |-> 8, id |-> <<0, 9>>]}

\* As the linker emits them; with an uninitialised section at the end and bytes
\* behind the last section; with entries out of address order; with no section.
MCImages ==
  { Stub(<<Hdr(".text", 512, 70, 512, 96, 1), Hdr(".reloc", 640, 12, 608, 32, 2)>>,
         640, 704, {}),
    Stub(<<Hdr(".text", 512, 50, 512, 64, 1), Hdr(".bss", 576, 200, 576, 0, 2)>>,
         588, 776, Overlay(580)),
    Stub(<<Hdr(".reloc", 640, 12, 544, 32, 1), Hdr(".text", 512, 30, 512, 32, 2)>>,
         576, 704, {}),
    Stub(<< >>, 512, 512, {}) }

New(name, len) == [name |-> name, len |-> len]

MCLists ==
  { << >>, <<New(".linux", 100)>>, <<New(".cmdline", 5), New(".linux", 64)>>,
    <<New(".cmdline", 0)>>, <<New(".reloc", 3)>>,
    <<New(".toolongname", 4)>> }

ThreeCalls == 3
===============================================================================
