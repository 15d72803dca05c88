----------------------------- MODULE ResolveProofs -----------------------------
(***************************************************************************)
(* Theorems about Resolve, for symbol lists of any length over any names.  *)
(* The invariant says what each pass has established for the symbols in    *)
(* front of its cursor; at the end of pass 2 that is the promise.          *)
(***************************************************************************)
EXTENDS Resolve, SequenceTheorems, TLAPS

Defines(i)     == Promise!Defines(i)
References(i)  == Promise!References(i)
Weak(i)        == Promise!Weak(i)
Definitions(n) == Promise!Definitions(n)

\* Rows the running pass has seen.
Seen(i) == i \in DOMAIN rows /\ i < at

\* Pass 1: the table holds the definitions seen, one for each name.
InstallInv ==
  /\ missing = {}
  /\ \A i \in DOMAIN rows : Seen(i) /\ Defines(i) => rows[i].name \in DOMAIN tab
  /\ \A n \in DOMAIN tab : \E i \in DOMAIN rows :
       Seen(i) /\ Defines(i) /\ rows[i].name = n
  /\ \A i \in DOMAIN rows : Seen(i) /\ Defines(i) => tab[rows[i].name] = EntryOf(rows[i])
  /\ \A i, j \in DOMAIN rows :
       Seen(i) /\ Seen(j) /\ Defines(i) /\ Defines(j) /\ rows[i].name = rows[j].name => i = j

\* Pass 2: every definition is installed for good, the zeros come from symbols
\* seen, and the references listed have no definition.
CheckInv ==
  /\ ~Promise!Ambiguous
  /\ \A i \in DOMAIN rows : Defines(i) =>
       rows[i].name \in DOMAIN tab /\ tab[rows[i].name] = EntryOf(rows[i])
  /\ \A n \in DOMAIN tab : Definitions(n) = {} =>
       /\ tab[n] = AbsoluteZero
       /\ \E j \in DOMAIN rows :
            Seen(j) /\ rows[j].name = n /\ (Weak(j) \/ (References(j) /\ allow))
  /\ \A j \in DOMAIN rows : Seen(j) /\ Weak(j) => rows[j].name \in DOMAIN tab
  /\ \A j \in DOMAIN rows : Seen(j) /\ References(j) =>
       rows[j].name \in DOMAIN tab \/ j \in missing
  /\ \A j \in missing :
       Seen(j) /\ References(j) /\ ~allow /\ Definitions(rows[j].name) = {}

ResolveInv ==
  /\ ResolveTypeOK
  /\ pc = "install" => InstallInv
  /\ pc = "duplicate" => Promise!Ambiguous
  /\ pc \in {"check", "ok", "unresolved"} => CheckInv
  /\ pc \in {"ok", "unresolved"} => at = Len(rows) + 1 /\ pc = Verdict

-------------------------------------------------------------------------------
(* Types *)

LEMMA EntryOfType ==
  ASSUME NEW s \in Symbol, s.kind /= "undefined"
  PROVE  EntryOf(s) \in Resolved
BY DEF EntryOf, Promise!EntryOf, Symbol, Promise!Symbol, Resolved, Promise!Resolved

LEMMA ZeroType == AbsoluteZero \in Resolved
BY DEF AbsoluteZero, Promise!AbsoluteZero, Resolved, Promise!Resolved

LEMMA EntryType ==
  ASSUME NEW n \in Names, NEW e \in Resolved,
         DOMAIN tab \subseteq Names, tab \in [DOMAIN tab -> Resolved]
  PROVE  /\ DOMAIN Entry(n, e) \subseteq Names
         /\ Entry(n, e) \in [DOMAIN Entry(n, e) -> Resolved]
BY DEF Entry

LEMMA RowType ==
  ASSUME ResolveTypeOK, at \in DOMAIN rows
  PROVE  /\ rows[at] \in Symbol /\ rows[at].name \in Names
         /\ at \in 1 .. Len(rows) /\ Len(rows) \in Nat
<1>1. rows \in Seq(Symbol) /\ Len(rows) \in Nat /\ DOMAIN rows = 1 .. Len(rows)
  BY LenProperties DEF ResolveTypeOK
<1>2. rows[at] \in Symbol
  BY <1>1, ElementOfSeq
<1> QED BY <1>1, <1>2 DEF Symbol, Promise!Symbol

LEMMA ResolveTypeStep ==
  ResolveTypeOK /\ [ResolveNext \/ ResolveReturned]_resolveVars => ResolveTypeOK'
<1> SUFFICES ASSUME ResolveTypeOK, [ResolveNext \/ ResolveReturned]_resolveVars
             PROVE  ResolveTypeOK'
  OBVIOUS
<1>1. Len(rows) \in Nat /\ DOMAIN rows = 1 .. Len(rows)
  BY LenProperties DEF ResolveTypeOK
<1>2. CASE Install
  <2> DEFINE s == rows[at]
  <2>1. s \in Symbol /\ s.name \in Names /\ at + 1 \in 1 .. Len(rows) + 1
    BY <1>2, RowType DEF Install
  <2>2. CASE Skipped(s) \/ Duplicate(s)
    BY <1>2, <2>1, <2>2 DEF Install, ResolveTypeOK, Outcomes
  <2>3. CASE ~Skipped(s) /\ ~Duplicate(s)
    <3>1. tab' = Entry(s.name, EntryOf(s)) /\ at' = at + 1 /\ UNCHANGED <<rows, allow, missing, pc>>
      BY <1>2, <2>3 DEF Install
    <3>2. EntryOf(s) \in Resolved
      BY <2>1, <2>3, EntryOfType DEF Skipped
    <3>3. DOMAIN tab' \subseteq Names /\ tab' \in [DOMAIN tab' -> Resolved]
      BY <2>1, <3>1, <3>2, EntryType DEF ResolveTypeOK
    <3> QED BY <2>1, <3>1, <3>3 DEF ResolveTypeOK
  <2> QED BY <2>2, <2>3
<1>3. CASE Installed
  BY <1>1, <1>3 DEF Installed, ResolveTypeOK
<1>4. CASE Check
  <2> DEFINE s == rows[at]
  <2>1. /\ s.name \in Names /\ at \in DOMAIN rows /\ at + 1 \in 1 .. Len(rows) + 1
        /\ at' = at + 1 /\ UNCHANGED <<rows, allow, pc>>
    BY <1>4, RowType DEF Check
  <2>2. /\ tab' = tab \/ tab' = Entry(s.name, AbsoluteZero)
        /\ missing' = missing \/ missing' = missing \cup {at}
    BY <1>4 DEF Check, CheckExternal, CheckWeak
  <2>3. DOMAIN tab' \subseteq Names /\ tab' \in [DOMAIN tab' -> Resolved]
    BY <2>1, <2>2, EntryType, ZeroType DEF ResolveTypeOK
  <2>4. missing' \subseteq DOMAIN rows
    BY <2>1, <2>2 DEF ResolveTypeOK
  <2> QED BY <2>1, <2>3, <2>4 DEF ResolveTypeOK
<1>5. CASE Checked
  BY <1>5 DEF Checked, Verdict, ResolveTypeOK, Outcomes
<1>6. CASE ResolveReturned \/ UNCHANGED resolveVars
  BY <1>6 DEF ResolveReturned, resolveVars, ResolveTypeOK
<1> QED BY <1>2, <1>3, <1>4, <1>5, <1>6 DEF ResolveNext

LEMMA ResolveTypeInit == ResolveInit => ResolveTypeOK
<1> SUFFICES ASSUME ResolveInit PROVE ResolveTypeOK
  OBVIOUS
<1>1. rows \in Seq(Symbol)
  BY ResolveInputs DEF ResolveInit
<1>2. Len(rows) \in Nat
  BY <1>1, LenProperties
<1> QED BY <1>1, <1>2 DEF ResolveInit, ResolveTypeOK

\* The cursor stays within the symbols, the table holds no undefined entry and
\* only known names, in both passes of Resolve.
THEOREM ResolveTypeCorrect == ResolveSpec => []ResolveTypeOK
BY ResolveTypeInit, ResolveTypeStep, PTL DEF ResolveSpec

-------------------------------------------------------------------------------
(* What is installed stays *)

LEMMA FinalStep ==
  [ResolveNext \/ ResolveReturned]_resolveVars
    => [\A n \in DOMAIN tab : n \in DOMAIN tab' /\ tab'[n] = tab[n]]_tab
<1> SUFFICES ASSUME [ResolveNext \/ ResolveReturned]_resolveVars, tab' /= tab
             PROVE  \A n \in DOMAIN tab : n \in DOMAIN tab' /\ tab'[n] = tab[n]
  OBVIOUS
<1>1. \E n, e : n \notin DOMAIN tab /\ tab' = Entry(n, e)
  <2>1. CASE Install
    BY <2>1 DEF Install, Duplicate
  <2>2. CASE Check
    BY <2>2 DEF Check, CheckExternal, CheckWeak
  <2> QED BY <2>1, <2>2
      DEF ResolveNext, ResolveReturned, Installed, Checked, resolveVars
<1> QED BY <1>1 DEF Entry

\* No symbol, weak or allowed to be missing, replaces what an earlier one
\* installed: a resolution is final as soon as it is in the table.
THEOREM ResolveEntriesFinal == ResolveSpec => EntriesFinal
BY FinalStep, PTL DEF ResolveSpec, EntriesFinal

-------------------------------------------------------------------------------
(* The two passes *)

LEMMA InstallStep ==
  ASSUME ResolveTypeOK, InstallInv, Install
  PROVE  /\ pc' = "install" => InstallInv'
         /\ pc' = "duplicate" => Promise!Ambiguous'
         /\ pc' \in {"install", "duplicate"}
<1> DEFINE s == rows[at]
<1>1. /\ at \in DOMAIN rows /\ pc = "install" /\ UNCHANGED <<rows, allow, missing>>
      /\ at \in Nat /\ DOMAIN rows \subseteq Nat
  BY LenProperties DEF Install, ResolveTypeOK
<1>2. \A i : Defines(i)' <=> Defines(i)
  BY <1>1 DEF Defines, Promise!Defines
<1>3. Defines(at) <=> ~Skipped(s)
  BY DEF Defines, Promise!Defines, Skipped
<1>4. CASE Skipped(s)
  <2>1. at' = at + 1 /\ UNCHANGED <<tab, pc>>
    BY <1>4 DEF Install
  <2>2. \A i \in DOMAIN rows : Defines(i) => (Seen(i)' <=> Seen(i))
    BY <1>1, <1>3, <1>4, <2>1 DEF Seen
  <2> QED BY <1>1, <1>2, <2>1, <2>2 DEF InstallInv
<1>5. CASE ~Skipped(s) /\ Duplicate(s)
  <2>1. pc' = "duplicate"
    BY <1>5 DEF Install
  <2>2. PICK i \in DOMAIN rows : i < at /\ Defines(i) /\ rows[i].name = s.name
    BY <1>5 DEF Duplicate, InstallInv, Seen
  <2>3. i /= at /\ Defines(at)
    BY <1>1, <1>3, <1>5, <2>2
  <2>4. Promise!Ambiguous'
    BY <1>1, <2>2, <2>3 DEF Promise!Ambiguous, Defines, Promise!Defines
  <2> QED BY <2>1, <2>4
<1>6. CASE ~Skipped(s) /\ ~Duplicate(s)
  <2>1. tab' = Entry(s.name, EntryOf(s)) /\ at' = at + 1 /\ pc' = pc
    BY <1>6 DEF Install
  <2>2. s.name \notin DOMAIN tab /\ Defines(at)
    BY <1>3, <1>6 DEF Duplicate
  <2>3. /\ DOMAIN tab' = DOMAIN tab \cup {s.name} /\ tab'[s.name] = EntryOf(s)
        /\ \A x \in DOMAIN tab : tab'[x] = tab[x]
    BY <2>1, <2>2 DEF Entry
  <2>4. \A i \in DOMAIN rows : Seen(i)' <=> Seen(i) \/ i = at
    BY <1>1, <2>1 DEF Seen
  <2>5. \A i \in DOMAIN rows : Seen(i) /\ Defines(i) =>
          rows[i].name \in DOMAIN tab /\ tab[rows[i].name] = EntryOf(rows[i]) /\ rows[i].name /= s.name
    BY <2>2 DEF InstallInv
  <2>6. \A i \in DOMAIN rows : Seen(i)' /\ Defines(i)' =>
          rows'[i].name \in DOMAIN tab' /\ tab'[rows'[i].name] = EntryOf(rows'[i])
    BY <1>1, <1>2, <2>3, <2>4, <2>5
  <2>7. \A n \in DOMAIN tab' : \E i \in DOMAIN rows' :
          Seen(i)' /\ Defines(i)' /\ rows'[i].name = n
    BY <1>1, <1>2, <2>2, <2>3, <2>4 DEF InstallInv
  <2>8. \A i, j \in DOMAIN rows :
          Seen(i)' /\ Seen(j)' /\ Defines(i) /\ Defines(j) /\ rows[i].name = rows[j].name => i = j
    BY <2>4, <2>5 DEF InstallInv
  <2>9. InstallInv'
    <3>1. \A i : EntryOf(rows[i])' = EntryOf(rows'[i])
      BY DEF EntryOf, Promise!EntryOf
    <3> QED BY <1>1, <1>2, <2>6, <2>7, <2>8, <3>1 DEF InstallInv
  <2> QED BY <1>1, <2>1, <2>9
<1> QED BY <1>4, <1>5, <1>6

\* Pass 1 ran to the end: all definitions are in the table, each name has one.
LEMMA InstalledStep ==
  ASSUME ResolveTypeOK, InstallInv, Installed
  PROVE  CheckInv'
<1>1. /\ rows' = rows /\ allow' = allow /\ tab' = tab /\ missing' = {} /\ at' = 1
      /\ Len(rows) \in Nat /\ DOMAIN rows = 1 .. Len(rows) /\ at = Len(rows) + 1
  BY LenProperties DEF Installed, ResolveTypeOK, InstallInv
<1>2. \A i \in DOMAIN rows : Seen(i) /\ ~Seen(i)'
  BY <1>1 DEF Seen
<1>3. ~Promise!Ambiguous'
  BY <1>1, <1>2 DEF InstallInv, Promise!Ambiguous, Defines, Promise!Defines
<1>4. (\A i \in DOMAIN rows : Defines(i) =>
        rows[i].name \in DOMAIN tab /\ tab[rows[i].name] = EntryOf(rows[i]))'
  BY <1>1, <1>2 DEF InstallInv, Defines, Promise!Defines, EntryOf, Promise!EntryOf
<1>5. (\A n \in DOMAIN tab : Definitions(n) /= {})'
  BY <1>1, <1>2 DEF InstallInv, Defines, Promise!Defines, Definitions, Promise!Definitions
<1> QED BY <1>1, <1>2, <1>3, <1>4, <1>5 DEF CheckInv

LEMMA CheckStep ==
  ASSUME ResolveTypeOK, CheckInv, Check
  PROVE  CheckInv'
<1> DEFINE s == rows[at]
<1>1. /\ at \in DOMAIN rows /\ UNCHANGED <<rows, allow, pc>> /\ at' = at + 1
      /\ at \in Nat /\ DOMAIN rows \subseteq Nat
  BY LenProperties DEF Check, ResolveTypeOK
<1>2. /\ \A i : Defines(i)' <=> Defines(i)
      /\ \A i : References(i)' <=> References(i)
      /\ \A i : Weak(i)' <=> Weak(i)
      /\ \A n : Definitions(n)' = Definitions(n)
      /\ \A i : EntryOf(rows[i])' = EntryOf(rows[i])
      /\ Promise!Ambiguous' <=> Promise!Ambiguous
  BY <1>1 DEF Defines, Promise!Defines, References, Promise!References, Weak, Promise!Weak,
     Definitions, Promise!Definitions, EntryOf, Promise!EntryOf, Promise!Ambiguous
<1>3. \A i \in DOMAIN rows : Seen(i)' <=> Seen(i) \/ i = at
  BY <1>1 DEF Seen
<1>4. \A n \in DOMAIN tab : n \in DOMAIN tab' /\ tab'[n] = tab[n]
  BY DEF Check, CheckExternal, CheckWeak, Entry
<1>5. \A n \in DOMAIN tab' : n \notin DOMAIN tab =>
        n = s.name /\ tab'[n] = AbsoluteZero /\ (Weak(at) \/ (References(at) /\ allow))
  BY DEF Check, CheckExternal, CheckWeak, Entry, Weak, Promise!Weak, References, Promise!References
<1>6. /\ Weak(at) => s.name \in DOMAIN tab'
      /\ References(at) => s.name \in DOMAIN tab' \/ at \in missing'
      /\ missing \subseteq missing' /\ missing' \subseteq missing \cup {at}
  BY DEF Check, CheckExternal, CheckWeak, Entry, Weak, Promise!Weak, References, Promise!References
<1>7. /\ at \in missing' /\ at \notin missing => References(at) /\ ~allow /\ s.name \notin DOMAIN tab
      /\ References(at) /\ ~allow /\ s.name \notin DOMAIN tab => at \in missing'
  BY DEF Check, CheckExternal, CheckWeak, References, Promise!References
<1>9. \A i \in DOMAIN rows : Defines(i)' =>
        rows'[i].name \in DOMAIN tab' /\ tab'[rows'[i].name] = EntryOf(rows[i])'
  BY <1>1, <1>2, <1>4 DEF CheckInv
<1>10. \A n \in DOMAIN tab' : Definitions(n) = {} =>
         /\ tab'[n] = AbsoluteZero
         /\ \E j \in DOMAIN rows :
              Seen(j)' /\ rows[j].name = n /\ (Weak(j) \/ (References(j) /\ allow))
  <2> SUFFICES ASSUME NEW n \in DOMAIN tab', Definitions(n) = {}
               PROVE  /\ tab'[n] = AbsoluteZero
                      /\ \E j \in DOMAIN rows :
                           Seen(j)' /\ rows[j].name = n /\ (Weak(j) \/ (References(j) /\ allow))
    OBVIOUS
  <2>1. CASE n \in DOMAIN tab
    BY <1>3, <1>4, <2>1 DEF CheckInv
  <2>2. CASE n \notin DOMAIN tab
    BY <1>1, <1>3, <1>5, <2>2
  <2> QED BY <2>1, <2>2
<1>11. \A j \in DOMAIN rows : Seen(j)' =>
         /\ Weak(j) => rows[j].name \in DOMAIN tab'
         /\ References(j) => rows[j].name \in DOMAIN tab' \/ j \in missing'
  BY <1>3, <1>4, <1>6 DEF CheckInv
<1>12. \A j \in missing' : Seen(j)' /\ References(j) /\ ~allow
  BY <1>1, <1>3, <1>6, <1>7 DEF CheckInv, Seen
<1>13. ASSUME NEW j \in missing' PROVE Definitions(rows[j].name) = {}
  <2>1. CASE j \in missing
    BY <2>1 DEF CheckInv
  <2>2. CASE j \notin missing
    <3>1. j = at /\ s.name \notin DOMAIN tab
      BY <1>6, <1>7, <2>2
    <3>2. \A i \in DOMAIN rows : Defines(i) => rows[i].name \in DOMAIN tab
      BY DEF CheckInv
    <3> QED BY <3>1, <3>2 DEF Definitions, Promise!Definitions, Defines
  <2> QED BY <2>1, <2>2
<1>14. ~Promise!Ambiguous'
  BY <1>2 DEF CheckInv
<1>15. AbsoluteZero' = AbsoluteZero
  BY DEF AbsoluteZero, Promise!AbsoluteZero
<1> HIDE DEF s
<1> QED BY <1>1, <1>2, <1>9, <1>10, <1>11, <1>12, <1>13, <1>14, <1>15 DEF CheckInv

LEMMA CheckInvKept ==
  ASSUME CheckInv, UNCHANGED <<rows, allow, at, tab, missing>>
  PROVE  CheckInv'
BY DEF CheckInv, Seen, Defines, Promise!Defines, References, Promise!References,
   Weak, Promise!Weak, Definitions, Promise!Definitions,
   EntryOf, Promise!EntryOf, Promise!Ambiguous, AbsoluteZero, Promise!AbsoluteZero

LEMMA ResolveInvInit == ResolveInit => ResolveInv
<1> SUFFICES ASSUME ResolveInit PROVE ResolveInv
  OBVIOUS
<1>1. ResolveTypeOK
  BY ResolveTypeInit
<1>2. DOMAIN rows \subseteq Nat \ {0}
  BY <1>1, LenProperties DEF ResolveTypeOK
<1>3. InstallInv
  BY <1>2 DEF ResolveInit, InstallInv, Seen
<1> QED BY <1>1, <1>3 DEF ResolveInit, ResolveInv

LEMMA ResolveInvStep ==
  ResolveInv /\ [ResolveNext \/ ResolveReturned]_resolveVars => ResolveInv'
<1> SUFFICES ASSUME ResolveInv, [ResolveNext \/ ResolveReturned]_resolveVars
             PROVE  ResolveInv'
  OBVIOUS
<1>1. ResolveTypeOK /\ ResolveTypeOK'
  BY ResolveTypeStep DEF ResolveInv
<1>2. CASE Install
  BY <1>1, <1>2, InstallStep DEF ResolveInv, Install
<1>3. CASE Installed
  BY <1>1, <1>3, InstalledStep DEF ResolveInv, Installed
<1>4. CASE Check
  BY <1>1, <1>4, CheckStep DEF ResolveInv, Check
<1>5. CASE Checked
  <2>1. /\ CheckInv /\ UNCHANGED <<rows, allow, at, tab, missing>> /\ pc' = Verdict
        /\ at \notin DOMAIN rows
    BY <1>5 DEF ResolveInv, Checked
  <2>2. at = Len(rows) + 1
    BY <1>1, <2>1, LenProperties DEF ResolveTypeOK
  <2> QED BY <1>1, <2>1, <2>2, CheckInvKept DEF ResolveInv, Verdict
<1>6. CASE ResolveReturned \/ UNCHANGED resolveVars
  <2>1. UNCHANGED <<rows, allow, at, tab, missing, pc>>
    BY <1>6 DEF ResolveReturned, resolveVars
  <2>2. pc /= "install" \/ ~ResolveReturned
    BY DEF ResolveReturned, Outcomes
  <2>3. InstallInv => InstallInv'
    BY <2>1 DEF InstallInv, Seen, Defines, Promise!Defines, EntryOf, Promise!EntryOf
  <2>4. Promise!Ambiguous' <=> Promise!Ambiguous
    BY <2>1 DEF Promise!Ambiguous, Promise!Defines
  <2> QED BY <1>1, <2>1, <2>3, <2>4, CheckInvKept DEF ResolveInv, Verdict
<1> QED BY <1>2, <1>3, <1>4, <1>5, <1>6 DEF ResolveNext

-------------------------------------------------------------------------------
(* The promise *)

\* The references listed at the end: none with an external definition, and all of
\* the others whose name is not weak too.
LEMMA MissingRight ==
  ASSUME ResolveTypeOK, CheckInv, at = Len(rows) + 1
  PROVE  /\ missing \subseteq Promise!Unsupplied
         /\ ~allow => \A i \in Promise!Unsupplied :
                        i \in missing \/ Promise!WeakName(rows[i].name)
<1>1. \A i \in DOMAIN rows : Seen(i)
  BY LenProperties DEF ResolveTypeOK, Seen
<1>2. missing \subseteq DOMAIN rows
  BY DEF ResolveTypeOK
<1>3. missing \subseteq Promise!Unsupplied
  BY <1>2 DEF CheckInv, Promise!Unsupplied, References, Promise!Supplied, Definitions
<1>4. ASSUME ~allow, NEW i \in Promise!Unsupplied, i \notin missing
      PROVE  Promise!WeakName(rows[i].name)
  <2>1. i \in DOMAIN rows /\ References(i) /\ Definitions(rows[i].name) = {}
    BY DEF Promise!Unsupplied, References, Promise!Supplied, Definitions
  <2>2. rows[i].name \in DOMAIN tab
    BY <1>1, <1>4, <2>1 DEF CheckInv
  <2>3. \E j \in DOMAIN rows : rows[j].name = rows[i].name /\ Weak(j)
    BY <1>4, <2>1, <2>2 DEF CheckInv
  <2> QED BY <2>3 DEF Promise!WeakName, Weak
<1> QED BY <1>3, <1>4

\* The verdict of pass 2 is the promised one, unless a weak symbol stands in for
\* a definition.
LEMMA VerdictKept ==
  ASSUME ResolveTypeOK, CheckInv, at = Len(rows) + 1
  PROVE  /\ Verdict /= "ok" => Promise!Verdict = Verdict
         /\ Promise!WeakApart => Promise!Verdict = Verdict
<1>1. allow => missing = {}
  BY DEF CheckInv
<1>2. ~Promise!Ambiguous
  BY DEF CheckInv
<1>3. missing /= {} => Promise!Unsupplied /= {} /\ ~allow
  BY <1>1, MissingRight DEF ResolveTypeOK
<1>4. Promise!WeakApart /\ missing = {} => allow \/ Promise!Unsupplied = {}
  BY MissingRight DEF Promise!WeakApart
<1> QED BY <1>2, <1>3, <1>4 DEF Verdict, Promise!Verdict

\* The names of the table are the global ones.
LEMMA NamesKept ==
  ASSUME ResolveTypeOK, CheckInv, at = Len(rows) + 1, missing = {}
  PROVE  DOMAIN tab = Promise!GlobalNames
<1> DEFINE global == {j \in DOMAIN rows : rows[j].class \in {"external", "weak"}}
<1>1. \A i \in DOMAIN rows : Seen(i) /\ rows[i] \in Symbol
  BY LenProperties, ElementOfSeq DEF ResolveTypeOK, Seen
<1>2. \A i \in DOMAIN rows : i \in global <=> Defines(i) \/ References(i) \/ Weak(i)
  BY DEF Defines, Promise!Defines, References, Promise!References, Weak, Promise!Weak
<1>3. \A i \in global : rows[i].name \in DOMAIN tab
  BY <1>1, <1>2 DEF CheckInv
<1>4. \A n \in DOMAIN tab : \E i \in global : rows[i].name = n
  <2> TAKE n \in DOMAIN tab
  <2>1. CASE Definitions(n) = {}
    BY <1>2, <2>1 DEF CheckInv
  <2>2. CASE Definitions(n) /= {}
    BY <1>2, <2>2 DEF Definitions, Promise!Definitions, Defines
  <2> QED BY <2>1, <2>2
<1> QED BY <1>3, <1>4 DEF Promise!GlobalNames

\* A name resolves to one of its meanings, unless only a weak symbol defines it.
LEMMA MeaningKept ==
  ASSUME ResolveTypeOK, CheckInv, NEW n \in DOMAIN tab, ~Promise!OnlyWeak(n)
  PROVE  tab[n] \in Promise!Meanings(n)
<1>1. CASE Definitions(n) = {}
  <2>1. Promise!Definitions(n) = {} /\ Promise!WeakDefinitions(n) = {}
    BY <1>1 DEF Definitions, Promise!OnlyWeak
  <2>2. tab[n] = Promise!AbsoluteZero
    BY <1>1 DEF CheckInv, AbsoluteZero
  <2> QED BY <2>1, <2>2 DEF Promise!Meanings
<1>2. CASE Definitions(n) /= {}
  <2>1. PICK i \in Promise!Definitions(n) : TRUE
    BY <1>2 DEF Definitions
  <2>2. i \in DOMAIN rows /\ Defines(i) /\ rows[i].name = n
    BY <2>1 DEF Promise!Definitions, Defines
  <2>3. tab[n] = Promise!EntryOf(rows[i])
    BY <2>2 DEF CheckInv, EntryOf
  <2> QED BY <2>1, <2>3 DEF Promise!Meanings
<1> QED BY <1>1, <1>2

LEMMA TableKept ==
  ASSUME ResolveTypeOK, CheckInv, at = Len(rows) + 1, missing = {}, Promise!WeakEmpty
  PROVE  Promise!IsTable(tab)
BY NamesKept, MeaningKept DEF Promise!IsTable, Promise!WeakEmpty

LEMMA PromiseStep ==
  ResolveInv /\ [ResolveNext \/ ResolveReturned]_resolveVars
    => [Promise!Plain => Promise!Decide]_(Promise!tableVars)
<1> SUFFICES ASSUME ResolveInv, [ResolveNext \/ ResolveReturned]_resolveVars, Promise!Plain
             PROVE  [Promise!Decide]_(Promise!tableVars)
  OBVIOUS
<1>1. ResolveTypeOK
  BY DEF ResolveInv
<1>2. CASE Install
  <2>1. CASE pc' = "duplicate"
    <3>1. /\ UNCHANGED <<rows, allow>> /\ pc = "install"
      BY <1>2 DEF Install
    <3>2. Promise!Ambiguous'
      BY <1>1, <1>2, <2>1, InstallStep DEF ResolveInv, Install
    <3>3. Promise!Verdict = "duplicate"
      BY <3>1, <3>2 DEF Promise!Verdict, Promise!Ambiguous, Promise!Defines
    <3> QED BY <2>1, <3>1, <3>3 DEF Promise!Decide, Outcomes
  <2>2. CASE pc' /= "duplicate"
    <3>1. pc = "install" /\ pc' = "install" /\ UNCHANGED <<rows, allow>>
      BY <1>2, <2>2 DEF Install
    <3> QED BY <3>1 DEF Promise!tableVars, Outcomes
  <2> QED BY <2>1, <2>2
<1>3. CASE Installed
  BY <1>3 DEF Installed, Promise!tableVars, Outcomes
<1>4. CASE Check
  BY <1>4 DEF Check, Promise!tableVars, Outcomes
<1>5. CASE Checked
  <2>1. /\ CheckInv /\ at = Len(rows) + 1 /\ pc = "check" /\ pc' = Verdict
        /\ UNCHANGED <<rows, allow, tab, missing>>
    BY <1>1, <1>5, LenProperties DEF ResolveInv, Checked, ResolveTypeOK
  <2>2. Verdict = Promise!Verdict /\ Verdict \in {"ok", "unresolved"}
    BY <1>1, <2>1, VerdictKept DEF Verdict, Promise!Plain
  <2>3. Verdict = "ok" => Promise!IsTable((IF pc = "ok" THEN tab ELSE << >>)')
    <3>1. Verdict = "ok" => Promise!IsTable(tab)
      BY <1>1, <2>1, TableKept DEF Verdict, Promise!Plain
    <3>2. Verdict = "ok" => (IF pc = "ok" THEN tab ELSE << >>)' = tab
      BY <2>1
    <3> QED BY <3>1, <3>2 DEF Promise!IsTable
  <2> QED BY <2>1, <2>2, <2>3 DEF Promise!Decide, Outcomes
<1>6. CASE ResolveReturned \/ UNCHANGED resolveVars
  BY <1>6 DEF ResolveReturned, resolveVars, Promise!tableVars
<1> QED BY <1>2, <1>3, <1>4, <1>5, <1>6 DEF ResolveNext

LEMMA PromiseInit == ResolveInit => Promise!TableInit
BY DEF ResolveInit, Promise!TableInit, Outcomes

\* Resolve implements SymbolTable: whatever the order of the symbols, its two
\* loops decide what the documented rules decide in one step, duplicates,
\* unresolved references and table alike, on every list that is plain.
THEOREM ResolveImplements == ResolveSpec => ImplementsPromise
<1>1. ResolveSpec => []ResolveInv
  BY ResolveInvInit, ResolveInvStep, PTL DEF ResolveSpec
<1> QED BY <1>1, PromiseInit, PromiseStep, PTL
    DEF ResolveSpec, ImplementsPromise, Promise!TableSpec

LEMMA MissingKept == ResolveInv => AllMissingListed
<1> SUFFICES ASSUME ResolveInv, pc \in {"ok", "unresolved"}
             PROVE  /\ pc = "unresolved" => ~allow
                    /\ ~allow =>
                         /\ missing \subseteq Promise!Unsupplied
                         /\ \A i \in Promise!Unsupplied :
                              i \in missing \/ Promise!WeakName(rows[i].name)
  BY DEF AllMissingListed
<1>1. ResolveTypeOK /\ CheckInv /\ at = Len(rows) + 1 /\ pc = Verdict
  BY DEF ResolveInv, Verdict
<1>2. pc = "unresolved" => ~allow
  BY <1>1 DEF CheckInv, ResolveTypeOK, Verdict
<1> QED BY <1>1, <1>2, MissingRight

\* For every list of symbols: what a strict Resolve refuses is every reference without
\* an external definition and no other, except those of names that are also weak.
THEOREM ResolveAllMissing == ResolveSpec => []AllMissingListed
BY ResolveInvInit, ResolveInvStep, MissingKept, PTL DEF ResolveSpec

LEMMA LookupKept == ResolveInv => LookupFinds
<1> SUFFICES ASSUME ResolveInv, pc = "ok", NEW i \in DOMAIN rows
             PROVE  LET r == rows[i] IN
                    IF r.class = "static" THEN Lookup(i) = EntryOf(r)
                    ELSE IF r.name \notin Promise!GlobalNames THEN Lookup(i) = LookupError
                    ELSE Promise!OnlyWeak(r.name) \/ Lookup(i) \in Promise!Meanings(r.name)
  BY DEF LookupFinds
<1>1. ResolveTypeOK /\ CheckInv /\ at = Len(rows) + 1 /\ missing = {}
  BY DEF ResolveInv, Verdict
<1>2. DOMAIN tab = Promise!GlobalNames
  BY <1>1, NamesKept
<1>3. CASE rows[i].class = "static"
  BY <1>3 DEF Lookup
<1>4. CASE rows[i].class /= "static" /\ rows[i].name \notin DOMAIN tab
  BY <1>2, <1>4 DEF Lookup
<1>5. CASE rows[i].class /= "static" /\ rows[i].name \in DOMAIN tab
  <2>1. Lookup(i) = tab[rows[i].name]
    BY <1>5 DEF Lookup
  <2> QED BY <1>1, <1>2, <1>5, <2>1, MeaningKept
<1> QED BY <1>3, <1>4, <1>5

\* Whatever the objects and their order, a relocation reaches its static symbol's
\* own place, else the external definition of its name, else zero.
THEOREM ResolveLookup == ResolveSpec => []LookupFinds
BY ResolveInvInit, ResolveInvStep, LookupKept, PTL DEF ResolveSpec
===============================================================================
