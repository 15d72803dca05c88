-------------------------------- MODULE Resolve --------------------------------
(***************************************************************************)
(* Resolve and Lookup of linker/resolve.go: pass 1 installs the external   *)
(* definitions, pass 2 checks the references and installs zeros, one       *)
(* symbol per step.  SymbolTable says what the two loops compute.          *)
(***************************************************************************)
EXTENDS Integers, Sequences

CONSTANTS Names, Programs

VARIABLES rows,     \* the symbols of all objects, in link order
          allow,    \* ResolveOptions.AllowUnresolved
          at,       \* the symbol the current loop looks at
          tab,      \* SymTab.Entries
          missing,  \* the references listed as unresolved
          pc        \* the loop, then the outcome

resolveVars == <<rows, allow, at, tab, missing, pc>>

Outcomes == {"ok", "duplicate", "unresolved"}

\* The promise: nothing is visible before Resolve returns.
Promise == INSTANCE SymbolTable
             WITH table <- IF pc = "ok" THEN tab ELSE << >>,
                  verdict <- IF pc \in Outcomes THEN pc ELSE "none"

Symbol       == Promise!Symbol
Resolved     == Promise!Resolved
AbsoluteZero == Promise!AbsoluteZero
EntryOf(s)   == Promise!EntryOf(s)

ASSUME ResolveInputs == Programs \subseteq Seq(Symbol)

Entry(n, e) == [x \in DOMAIN tab \cup {n} |-> IF x = n THEN e ELSE tab[x]]

-------------------------------------------------------------------------------

\* The duplicate check confined to one class of definitions: the last one wins.
Duplicate_Absolute(s) == s.name \in DOMAIN tab /\ s.kind = "absolute"
Duplicate(s) == s.name \in DOMAIN tab

\* Every external row is installed, the undefined ones too.
Skipped_ByClass(s) == s.class /= "external"
Skipped(s) == s.class /= "external" \/ s.kind = "undefined"

\* Pass 1 stops at a duplicate.
Install ==
  LET s == rows[at] IN
  /\ pc = "install" /\ at \in DOMAIN rows
  /\ IF Skipped(s)
     THEN /\ at' = at + 1 /\ UNCHANGED <<tab, pc>>
     ELSE IF Duplicate(s)
     THEN /\ pc' = "duplicate" /\ UNCHANGED <<at, tab>>
     ELSE /\ tab' = Entry(s.name, EntryOf(s))
          /\ at' = at + 1 /\ UNCHANGED pc
  /\ UNCHANGED <<rows, allow, missing>>

Installed ==
  /\ pc = "install" /\ at \notin DOMAIN rows
  /\ pc' = "check" /\ at' = 1
  /\ UNCHANGED <<rows, allow, tab, missing>>

\* Only the first unresolved reference is listed.
CheckExternal_First(s) ==
  IF s.kind = "undefined" /\ s.name \notin DOMAIN tab
  THEN IF allow
       THEN tab' = Entry(s.name, AbsoluteZero) /\ UNCHANGED missing
       ELSE missing' = (IF missing = {} THEN {at} ELSE missing) /\ UNCHANGED tab
  ELSE UNCHANGED <<tab, missing>>

\* An undefined external: a zero if the caller allows it, else an error line.
\* It keeps going, so that every unresolved reference is listed.
CheckExternal(s) ==
  IF s.kind = "undefined" /\ s.name \notin DOMAIN tab
  THEN IF allow
       THEN tab' = Entry(s.name, AbsoluteZero) /\ UNCHANGED missing
       ELSE missing' = missing \cup {at} /\ UNCHANGED tab
  ELSE UNCHANGED <<tab, missing>>

\* A weak symbol that overrides what has been installed.
CheckWeak_Override(s) == tab' = Entry(s.name, AbsoluteZero) /\ UNCHANGED missing

CheckWeak(s) ==
  /\ tab' = IF s.name \in DOMAIN tab THEN tab ELSE Entry(s.name, AbsoluteZero)
  /\ UNCHANGED missing

Check ==
  LET s == rows[at] IN
  /\ pc = "check" /\ at \in DOMAIN rows
  /\ \/ s.class = "external" /\ CheckExternal(s)
     \/ s.class = "weak" /\ CheckWeak(s)
     \/ s.class \notin {"external", "weak"} /\ UNCHANGED <<tab, missing>>
  /\ at' = at + 1
  /\ UNCHANGED <<rows, allow, pc>>

Verdict == IF missing /= {} THEN "unresolved" ELSE "ok"

Checked ==
  /\ pc = "check" /\ at \notin DOMAIN rows
  /\ pc' = Verdict
  /\ UNCHANGED <<rows, allow, at, tab, missing>>

ResolveInit ==
  /\ rows \in Programs /\ allow \in BOOLEAN
  /\ at = 1 /\ tab = << >> /\ missing = {} /\ pc = "install"

ResolveNext == Install \/ Installed \/ Check \/ Checked

ResolveReturned == pc \in Outcomes /\ UNCHANGED resolveVars

ResolveSpec == ResolveInit /\ [][ResolveNext \/ ResolveReturned]_resolveVars

-------------------------------------------------------------------------------
(* Lookup, once the table is built *)

LookupError == [kind |-> "error", obj |-> 0, sec |-> 0, value |-> 0]

\* Static symbols of the same name share the global table.
Lookup_Global(i) ==
  IF i \notin DOMAIN rows \/ rows[i].name \notin DOMAIN tab THEN LookupError
  ELSE tab[rows[i].name]

\* 0 stands for an index past the object's own table.
Lookup(i) ==
  IF i \notin DOMAIN rows THEN LookupError
  ELSE IF rows[i].class = "static" THEN EntryOf(rows[i])
  ELSE IF rows[i].name \in DOMAIN tab THEN tab[rows[i].name]
  ELSE LookupError

-------------------------------------------------------------------------------
(* Properties *)

\* The variables of the two loops of Resolve keep their types.
ResolveTypeOK ==
  /\ rows \in Seq(Symbol) /\ allow \in BOOLEAN
  /\ at \in 1 .. Len(rows) + 1
  /\ DOMAIN tab \subseteq Names /\ tab \in [DOMAIN tab -> Resolved]
  /\ missing \subseteq DOMAIN rows
  /\ pc \in {"install", "check"} \cup Outcomes

\* Resolve only adds names: what a name resolves to once installed is final, so
\* a weak symbol or an allowed zero never replaces a definition.
EntriesFinal ==
  [][\A n \in DOMAIN tab : n \in DOMAIN tab' /\ tab'[n] = tab[n]]_tab

\* Resolve implements its promise on every list that is plain about its weak
\* symbols: the verdict and the whole table are those of the documented rules,
\* whatever the order of the symbols.
ImplementsPromise == Promise!TableSpec

\* A strict Resolve lists every reference without an external definition, not only
\* the first one, and nothing else; it may leave out those of a name that is also
\* weak, and succeeds if only such are left.  A permissive one never fails for them.
AllMissingListed ==
  /\ pc = "unresolved" => ~allow
  /\ pc \in {"ok", "unresolved"} /\ ~allow =>
    /\ missing \subseteq Promise!Unsupplied
    /\ \A i \in Promise!Unsupplied : i \in missing \/ Promise!WeakName(rows[i].name)

\* After a successful Resolve a relocation finds its symbol's own definition if it
\* is static, else what the rules say of the name; only the classes the resolver
\* ignores stay unknown.  Names with no definition but a weak symbol's own are
\* left to WeakDefined.
LookupFinds ==
  pc = "ok" =>
    \A i \in DOMAIN rows :
      LET r == rows[i] IN
      IF r.class = "static" THEN Lookup(i) = EntryOf(r)
      ELSE IF r.name \notin Promise!GlobalNames THEN Lookup(i) = LookupError
      ELSE Promise!OnlyWeak(r.name) \/ Lookup(i) \in Promise!Meanings(r.name)

-------------------------------------------------------------------------------
(* Documented rules that the two passes do not keep.  TLC refutes both on   *)
(* the lists of MCResolve; the conditions of Plain are where they hold.    *)

\* A weak symbol is zero only "if nothing supplies a definition"
\* (resolve.go:68-70): a name that a weak symbol defines resolves to a definition.
WeakDefined ==
  pc = "ok" => \A n \in Promise!GlobalNames : Promise!OnlyWeak(n) => tab[n] \in Promise!Meanings(n)

\* An undefined external must be resolved "by another object's EXTERNAL
\* definition" (resolve.go:61-63): unless the caller allows it, Resolve does not
\* succeed while a reference has none.
ReferencesResolved == pc = "ok" /\ ~allow => Promise!Unsupplied = {}
===============================================================================
