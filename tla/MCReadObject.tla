------------------------------ MODULE MCReadObject ------------------------------
(* Instances of ReadObject: files with three sections and two symbols. *)
EXTENDS ReadObject, TLC

H(type, alloc, exec, size, info, entries) ==
  [type |-> type, alloc |-> alloc, exec |-> exec, size |-> size, vsize |-> 0,
   info |-> info, entries |-> entries]

Sym(name, bind, place, index, aux) ==
  [name |-> name, bind |-> bind, place |-> place, index |-> index, aux |-> aux]

E(sym, type)     == [site |-> 4, sym |-> sym, type |-> type, addend |-> 0]
EA(sym, type, a) == [E(sym, type) EXCEPT !.addend = a]

Null == H("null", FALSE, FALSE, 0, 0, << >>)

\* Tables for sections 1 and 2 and for one that is not there, a null symbol, a
\* type that does not fit, two entries of ELF32 and a half; debug bytes, an empty
\* section.
ElfHeaders ==
  { H("bytes", TRUE, TRUE, 16, 0, << >>), H("bytes", TRUE, FALSE, 0, 0, << >>),
    H("nobits", TRUE, FALSE, 32, 0, << >>), H("other", FALSE, FALSE, 9, 0, << >>),
    H("rela", FALSE, FALSE, 48, 1, << EA(1, 2, -4), EA(2, 4, 8) >>),
    H("rela", FALSE, FALSE, 24, 2, << E(0, 51) >>),
    H("rela", FALSE, FALSE, 24, 1, << E(1, 65536) >>),
    H("rela", FALSE, FALSE, 30, 2, << E(1, 1) >>), H("rela", FALSE, FALSE, 24, 9, << E(1, 1) >>) }

ElfSymbols ==
  { << Sym("main", "global", "section", 1, FALSE), Sym("data", "weak", "section", 2, FALSE) >>,
    << Sym("", "local", "section", 2, FALSE), Sym("abort", "global", "undef", 0, FALSE) >>,
    << Sym("buf", "global", "common", 0, FALSE), Sym("flag", "local", "abs", 0, FALSE) >> }

ElfFiles ==
  {[format |-> "elf", relocatable |-> TRUE, machine |-> "x86_64",
    headers |-> << Null, a, b, c >>, symbols |-> s] :
     a \in ElfHeaders, b \in ElfHeaders, c \in ElfHeaders, s \in ElfSymbols}

CoffHeaders ==
  { H("bytes", TRUE, TRUE, 16, 0, << E(0, 4), E(2, 1) >>), H("nobits", TRUE, FALSE, 32, 0, << >>),
    H("bytes", FALSE, FALSE, 9, 0, << E(0, 11) >>), H("bytes", TRUE, FALSE, 0, 0, << >>) }

CoffSymbols ==
  { << Sym(".text", "local", "section", 1, FALSE), Sym("aux", "other", "section", 1, TRUE),
       Sym("_start", "global", "section", 2, FALSE) >>,
    << Sym("memcpy", "weak", "undef", 0, FALSE), Sym("aux", "other", "undef", 0, TRUE),
       Sym(".file", "other", "abs", 0, FALSE) >> }

CoffFiles ==
  {[format |-> "coff", relocatable |-> TRUE, machine |-> "amd64", headers |-> << a, b >>,
    symbols |-> s] : a \in CoffHeaders, b \in CoffHeaders, s \in CoffSymbols}

\* Linked images, and a machine without a back end.
Refused ==
  {[f EXCEPT !.relocatable = FALSE] : f \in CoffFiles}
    \cup {[format |-> "elf", relocatable |-> TRUE, machine |-> "mips",
           headers |-> << Null >>, symbols |-> << >>]}

MCNames == {"", "main", "data", "abort", "buf", "flag", ".text", "aux", "_start", "memcpy", ".file"}

MCFiles == ElfFiles \cup CoffFiles \cup Refused
===============================================================================
