------------------------------ MODULE SymbolTable ------------------------------
(***************************************************************************)
(* What Resolve of linker/resolve.go promises, in one step: the verdict on *)
(* a list of symbols and, when they resolve, the global table.  The rules  *)
(* are those of its doc comment (resolve.go:55-74), and none of them       *)
(* depends on the order of the symbols.                                    *)
(*                                                                         *)
(* The symbols of all objects are one sequence in link order; a position   *)
(* stands for the pair (object, symbol index) of the code.                 *)
(***************************************************************************)
EXTENDS Integers, Sequences

CONSTANTS Names,     \* symbol names
          Programs   \* the symbol lists a link may start from

\* A row of a symbol table as ReadObject leaves it: IMAGE_SYM_CLASS_* values
\* other than the three the linker knows are "other".
Symbol == [obj : Nat, name : Names, class : {"external", "static", "weak", "other"},
           kind : {"undefined", "defined", "absolute"}, sec : Nat, value : Nat]

\* Where a name lives.  Sections count from 1 where SecIdx counts from 0, and are 0
\* unless the kind is "defined"; value is the offset or the final value.
Resolved == [kind : {"defined", "absolute"}, obj : Nat, sec : Nat, value : Nat]

AbsoluteZero == [kind |-> "absolute", obj |-> 0, sec |-> 0, value |-> 0]

EntryOf(s) ==
  [kind |-> s.kind, obj |-> IF s.kind = "defined" THEN s.obj ELSE 0,
   sec |-> IF s.kind = "defined" THEN s.sec ELSE 0, value |-> s.value]

VARIABLES rows,      \* the symbols
          allow,     \* ResolveOptions.AllowUnresolved
          table,     \* the table Resolve returns, empty until then and on error
          verdict    \* "none", then "ok", "duplicate" or "unresolved"

tableVars == <<rows, allow, table, verdict>>

-------------------------------------------------------------------------------

Defines(i)    == rows[i].class = "external" /\ rows[i].kind /= "undefined"
References(i) == rows[i].class = "external" /\ rows[i].kind = "undefined"
Weak(i)       == rows[i].class = "weak"

Definitions(n) == {i \in DOMAIN rows : Defines(i) /\ rows[i].name = n}

\* Two definitions of a name; no assembler defines a name twice in one object.
Ambiguous == \E i, j \in DOMAIN rows :
               i /= j /\ Defines(i) /\ Defines(j) /\ rows[i].name = rows[j].name

\* A reference is resolved by an external definition of its name, in any object.
Supplied(i) == Definitions(rows[i].name) /= {}

Unsupplied == {i \in DOMAIN rows : References(i) /\ ~Supplied(i)}

GlobalNames == {rows[i].name : i \in {j \in DOMAIN rows : rows[j].class \in {"external", "weak"}}}

\* A weak symbol that brings a definition of its name along, as in an ELF object.
WeakDefinitions(n) == {i \in DOMAIN rows : Weak(i) /\ rows[i].name = n /\ rows[i].kind /= "undefined"}

\* What a global name may resolve to: its external definition, without one a weak
\* definition, and zero if nothing supplies a definition.
Meanings(n) ==
  IF Definitions(n) /= {} THEN {EntryOf(rows[i]) : i \in Definitions(n)}
  ELSE IF WeakDefinitions(n) /= {} THEN {EntryOf(rows[i]) : i \in WeakDefinitions(n)}
  ELSE {AbsoluteZero}

IsTable(t) == DOMAIN t = GlobalNames /\ \A n \in GlobalNames : t[n] \in Meanings(n)

Verdict == IF Ambiguous THEN "duplicate"
           ELSE IF Unsupplied /= {} /\ ~allow THEN "unresolved" ELSE "ok"

TableInit ==
  /\ rows \in Programs /\ allow \in BOOLEAN
  /\ table = << >> /\ verdict = "none"

Decide ==
  /\ verdict = "none"
  /\ verdict' = Verdict
  /\ IF Verdict = "ok" THEN IsTable(table') ELSE table' = << >>
  /\ UNCHANGED <<rows, allow>>

-------------------------------------------------------------------------------
(* The lists without a weak symbol about which the two passes of Resolve    *)
(* and these rules disagree.                                               *)

WeakName(n) == \E i \in DOMAIN rows : Weak(i) /\ rows[i].name = n

\* No reference that must be refused shares its name with a weak symbol.
WeakApart == allow \/ \A i \in Unsupplied : ~WeakName(rows[i].name)

\* The only definition of the name is one that a weak symbol brings along.
OnlyWeak(n) == Definitions(n) = {} /\ WeakDefinitions(n) /= {}

WeakEmpty == \A n \in GlobalNames : ~OnlyWeak(n)

Plain == WeakApart /\ WeakEmpty

TableSpec == TableInit /\ [][Plain => Decide]_tableVars
===============================================================================
