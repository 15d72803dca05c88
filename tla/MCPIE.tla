--------------------------------- MODULE MCPIE ---------------------------------
(* Instances of PIE: two to four segments from 64 KiB on, RVAs of 16 bits.     *)
EXTENDS PIE, TLC

MCNarrow == 65536
MCBiases == {0, 4096, 70000}

Seg(vaddr, filesz, memsz, words) ==
  [type |-> "PT_LOAD", vaddr |-> vaddr, filesz |-> filesz, memsz |-> memsz, words |-> words]

\* A link-time pointer is stored at the words from 65536 on that RELR names.
Text == Seg(65536, 2048, 2048, [l \in {0, 8, 16, 504, 512, 1008} |-> 65536 + l])
Data == Seg(69632, 24, 5000, [l \in {0, 8, 16} |-> 65600])
Gap  == [Seg(65600, 100, 100, << >>) EXCEPT !.type = "other"]
Bss  == Seg(77824, 0, 4096, << >>)
Ro   == Seg(81920, 600, 600, << >>)

\* Off the alignment; beyond 4 GiB, scaled.
Skew == Seg(73736, 16, 16, << >>)
Far  == Seg(135168, 24, 24, << >>)

Rela(offset, type, addend) == [offset |-> offset, type |-> type, addend |-> addend]
RelaEntries ==
  { Rela(69632, "RELATIVE", 65540), Rela(69648, "RELATIVE", 69632), Rela(69652, "RELATIVE", 0),
    Rela(69656, "RELATIVE", 0), Rela(0, "NONE", 0), Rela(69632, "other", 0),
    Rela(67576, "RELATIVE", 77824) }

Address(va) == [kind |-> "address", site |-> va]
Bitmap(bits) == [kind |-> "bitmap", bits |-> bits]
RelrEntries ==
  { Address(65536), Address(66040), Address(69640), Bitmap({0, 1}), Bitmap({62}), Bitmap({}) }

Lists(S, n) == UNION {[1 .. k -> S] : k \in 0 .. n}

RelaTables == {[kind |-> "RELA", ragged |-> r, entries |-> es] :
                 r \in {FALSE}, es \in Lists(RelaEntries, 2)}
RelrTables == {[kind |-> "RELR", ragged |-> r, entries |-> es] :
                 r \in {FALSE}, es \in Lists(RelrEntries, 3)}
Ragged1 == [kind |-> "RELA", ragged |-> TRUE, entries |-> << >>]

Elf(segs, tables) == [dyn |-> TRUE, machine |-> TRUE, segs |-> segs, tables |-> tables, entry |-> 65544]

MCFiles ==
  {Elf(<<Data, Gap, Text>>, <<a, b>>) : a \in RelaTables, b \in RelrTables}
    \cup {Elf(<<Text, Ro, Bss, Data>>, <<b, a>>) :
            a \in {t \in RelaTables : Len(t.entries) = 1}, b \in {t \in RelrTables : Len(t.entries) = 1}}
    \cup {Elf(s, << >>) : s \in {<< >>, <<Gap>>, <<Text, Skew>>, <<Text, Far>>, <<Bss>>}}
    \cup {Elf(<<Far, Text>>, << [kind |-> "RELR", ragged |-> FALSE, entries |-> <<Address(135168)>>] >>),
          Elf(<<Text>>, <<Ragged1>>),
          [Elf(<<Text>>, << >>) EXCEPT !.dyn = FALSE],
          [Elf(<<Text>>, << >>) EXCEPT !.machine = FALSE],
          [Elf(<<Seg(2048, 16, 16, << >>)>>, << >>) EXCEPT !.entry = 2048]}

MCOptions == { [base |-> 0, sa |-> 0, fa |-> 0], [base |-> 0, sa |-> 4096, fa |-> 64],
               [base |-> 57344, sa |-> 0, fa |-> 0], [base |-> 65536, sa |-> 4096, fa |-> 512],
               [base |-> 65600, sa |-> 0, fa |-> 0] }
===============================================================================
