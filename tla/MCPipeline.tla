------------------------------ MODULE MCPipeline ------------------------------
(* Instances of Pipeline: two objects that refer to each other, in
   both orders. *)
EXTENDS Pipeline, TLC

MCPage   == 4096
MCShort  == 65536
MCNarrow == 16777216       \* 2^24
MCWide   == 268435456      \* 2^28
MCDeltas == {0, 196608, 16842752}
MCNames  == {"main", "f", "s"}
MCOrder  == << ".bss", ".data", ".drectve", ".rdata", ".rodata", ".text", ".xdata" >>

Sec(stem, flag, size) ==
  [name |-> [stem |-> stem, sub |-> ""], exec |-> flag = "x", bss |-> flag = "b",
   discardable |-> FALSE, data |-> IF flag = "b" THEN 0 ELSE size, vsize |-> size, align |-> 1]

\* Object 1: code, data over a page boundary, bss; object 2: code, data, a dropped section.
MCSecs == << Sec(".text", "x", 20), Sec(".data", "w", 4200), Sec(".bss", "b", 64),
             Sec(".text", "x", 600), Sec(".data", "w", 40), Sec(".drectve", "r", 8) >>

Row(obj, name, class, kind, sec, value) ==
  [obj |-> obj, name |-> name, class |-> class, kind |-> kind, sec |-> sec, value |-> value]

\* f is defined in object 2 in one of several ways, or not; s is static in both.
Providers == { Row(2, "f", "external", "defined", 1, 16), Row(2, "f", "external", "defined", 2, 8),
               Row(2, "f", "external", "absolute", 0, 7), Row(2, "f", "weak", "undefined", 0, 0),
               Row(2, "f", "other", "undefined", 0, 0), Row(2, "main", "external", "defined", 1, 0) }

Rows(f) == << Row(1, "main", "external", "defined", 1, 4), Row(1, "f", "external", "undefined", 0, 0),
              Row(1, "s", "static", "defined", 3, 0), f, Row(2, "s", "static", "defined", 2, 4),
              Row(2, "f", "other", "undefined", 0, 0) >>

R(sec, off, sym, kind, elf, addend, field) ==
  [sec |-> sec, off |-> off, sym |-> sym, kind |-> kind, elf |-> elf, addend |-> addend, field |-> field]

\* Pointers on both pages of object 1's data, code of object 2, a slot in bss.
First(elf)  == { R(2, 8, s, k, elf, IF elf THEN 4 ELSE 0, IF elf THEN 0 ELSE 4) :
                   s \in {2, 3}, k \in {"abs64", "abs32", "rva32"} }
                 \cup {R(3, 0, 1, "abs64", elf, 0, 0), R(2, 8, 1, "other", elf, 0, 0)}
Second(elf) == { R(2, 4096, 1, "abs64", elf, 0, 0), R(2, 4190, 3, "abs64", elf, 0, 0),
                 R(2, 4100, 2, "abs32", elf, 0, 0) }
Third(elf)  == { R(4, 12, s, k, elf, IF elf THEN -4 ELSE 0, 0) : s \in {1, 5}, k \in {"pc32", "none"} }
                 \cup {R(6, 0, 5, "abs64", elf, 0, 0), R(5, 0, 6, "rva32", elf, 0, 0)}

JobOf(machines, f, relocs, entry, allow, hr) ==
  [machines |-> machines, rows |-> Rows(f), first |-> <<0, 3>>, secs |-> MCSecs, relocs |-> relocs,
   entry |-> entry, allow |-> allow, opts |-> [sa |-> 0, fa |-> 0, hr |-> hr], base |-> 1048576]

\* The same objects in the other order: the second half of all lists comes first.
Other(i)     == IF i <= 3 THEN i + 3 ELSE i - 3
SwapRow(r)   == [r EXCEPT !.obj = 3 - @]
SwapReloc(r) == [r EXCEPT !.sec = Other(@), !.sym = Other(@)]
Swapped(j) ==
  [j EXCEPT !.rows   = [i \in DOMAIN @ |-> SwapRow(@[Other(i)])],
            !.secs   = [i \in DOMAIN @ |-> @[Other(i)]],
            !.relocs = [i \in DOMAIN @ |-> SwapReloc(@[IF i = 1 THEN 3 ELSE i - 1])]]

Sound == <<"amd64", "amd64">>

\* Links of which nothing survives the filter.
Bare(machines, entry) ==
  [machines |-> machines, rows |-> << Row(1, "main", "external", "defined", 1, 4) >>, first |-> <<0>>,
   secs |-> << Sec(".drectve", "r", 8), Sec(".bss", "b", 0) >>,
   relocs |-> << R(1, 0, 1, "abs64", TRUE, 0, 0) >>,
   entry |-> entry, allow |-> FALSE, opts |-> [sa |-> 0, fa |-> 0, hr |-> 0], base |-> 65536]

Exchanges ==
  { JobOf(Sound, f, <<a, b, c>>, "main", allow, 0) :
      f \in Providers, a \in First(TRUE), b \in Second(TRUE), c \in Third(TRUE), allow \in BOOLEAN }

MCJobs ==
  Exchanges \cup {Swapped(j) : j \in Exchanges}
    \cup { JobOf(Sound, f, <<a>>, "f", allow, 0) :
             f \in Providers, a \in First(TRUE), allow \in BOOLEAN }
    \cup { JobOf(Sound, f, <<a, b, c>>, "main", TRUE, 5000) :
             f \in Providers, a \in First(FALSE), b \in Second(FALSE), c \in Third(FALSE) }
    \cup { JobOf(<<"amd64", "arm64">>, f, << >>, "main", TRUE, 0) : f \in Providers }
    \cup { JobOf(Sound, f, << >>, "s", TRUE, 0) : f \in Providers }
    \cup { Bare(<<"amd64">>, e) : e \in {"main", "s"} }
    \cup { [machines |-> << >>, rows |-> << >>, first |-> << >>, secs |-> << >>, relocs |-> << >>,
            entry |-> "main", allow |-> TRUE, opts |-> [sa |-> 0, fa |-> 0, hr |-> 0], base |-> 65536] }

MCInputs     == {j.secs : j \in MCJobs}
MCOptions    == {j.opts : j \in MCJobs}
MCRelocSizes == {}
===============================================================================
