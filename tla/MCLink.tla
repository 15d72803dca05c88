-------------------------------- MODULE MCLink --------------------------------
(* Instances of Link: short lists of the section kinds compilers emit. *)
EXTENDS Link, TLC

Sec(stem, sub, flag, size) ==
  [name |-> [stem |-> stem, sub |-> sub], exec |-> flag = "x", bss |-> flag = "b",
   discardable |-> flag = "d", data |-> IF flag = "b" THEN 0 ELSE size,
   vsize |-> size, align |-> 1]

MCNames == << ".bss", ".cmdline", ".data", ".debug", ".drectve", ".init",
              ".noinit", ".osrel", ".rdata", ".rodata", ".text", ".xdata" >>

\* Sizes on both sides of the file and the section alignment.
MCKinds ==
  { Sec(".text", "", "x", 4608),  Sec(".text", "mn", "x", 48),
    Sec(".init", "", "x", 512),   Sec(".rdata", "", "r", 100),
    Sec(".xdata", "", "r", 24),   Sec(".data", "", "w", 600),
    Sec(".bss", "", "b", 9000),   Sec(".cmdline", "", "r", 512),
    Sec(".noinit", "", "b", 64),  Sec(".debug", "S", "d", 80),
    Sec(".drectve", "", "r", 16), Sec(".data", "", "w", 0),
    Sec(".data", "rel", "w", 8),  Sec(".bss", "", "w", 5),
    Sec(".rodata", "", "r", 6) }

MCInputs  == UNION {[1 .. k -> MCKinds] : k \in 0 .. 3}
MCOptions == { [sa |-> 0, fa |-> 0, hr |-> 0],
               [sa |-> 4096, fa |-> 1024, hr |-> 400],
               [sa |-> 512, fa |-> 512, hr |-> 300],
               [sa |-> 512, fa |-> 1024, hr |-> 300] }
MCRelocSizes == {0, 12, 520}
===============================================================================
