------------------------------- MODULE MCResolve -------------------------------
(* Instances of Resolve: every short list of symbols over two names. *)
EXTENDS Resolve, TLC

MCNames == {"abort", "efi_main"}

\* Rows as ReadObject makes them: only a defined symbol has a section, and a
\* COFF weak external is undefined where an ELF weak symbol may be defined.
Shape(class, kind, value) ==
  [class |-> class, kind |-> kind, sec |-> IF kind = "defined" THEN 1 ELSE 0,
   value |-> value]

MCShapes ==
  { Shape("external", "undefined", 0), Shape("external", "defined", 8),
    Shape("external", "absolute", 5), Shape("weak", "undefined", 0),
    Shape("weak", "defined", 8), Shape("static", "defined", 4), Shape("other", "defined", 2) }

\* Two rows to an object.
Row(i, n, s) ==
  [obj |-> (i + 1) \div 2, name |-> n, class |-> s.class, kind |-> s.kind,
   sec |-> s.sec, value |-> s.value]

\* "other" rows make the shorter lists.
Lists(k, S) ==
  {[i \in 1 .. k |-> Row(i, f[i][1], f[i][2])] : f \in [1 .. k -> MCNames \X S]}

MCPrograms == Lists(3, MCShapes)
===============================================================================
