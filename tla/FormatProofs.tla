------------------------------ MODULE FormatProofs ------------------------------
(***************************************************************************)
(* Proofs about the files at the two ends of the tool.                     *)
(*                                                                         *)
(* ReadObject, for files with any number of sections, symbols and          *)
(* relocation tables: what the layout sees of a section, and that a        *)
(* relocation keeps its section and its symbol.                            *)
(*                                                                         *)
(* Firmware, for any segments, any length of a line and bytes of any       *)
(* width: the flat image is the segments, and what is loaded at the other  *)
(* end is the flat image.  The invariant says of every record in front of  *)
(* the encoder what it carries, and of the reader that it has what the     *)
(* records in front of it carry.                                           *)
(*                                                                         *)
(* Append and AppendBefore, for every sound image, every list of sections  *)
(* and any number of calls: the image stays sound, the bytes of every      *)
(* section are where its header says, old sections keep fields, order and  *)
(* bytes, and a section put before another one stays before it.            *)
(***************************************************************************)
EXTENDS ReadObject, Firmware, Appender, PEImageProofs, FiniteSetTheorems

-------------------------------------------------------------------------------
(* ReadObject: the inductive invariant *)

\* The loops behind the first one start when every header has its section.
PhaseInv ==
  /\ file \in Files
  /\ pc = "detect" => sections = << >> /\ at = 1
  /\ pc = "sections" => Len(sections) = at - 1
  /\ pc \notin {"detect", "sections", "error"} =>
       Len(sections) = Len(file.headers) /\ file.relocatable
  /\ pc = "sections" => file.relocatable
  /\ pc = "rela" => file.format = "elf"
  /\ pc \in {"symbols", "read"} /\ file.format = "elf" => at = Len(file.headers) + 1
  /\ pc = "read" => symbols = SymbolRows

\* What ReadSection makes of header i, relocations aside.
Made(i) ==
  IF file.format = "coff" THEN coffSection(file.headers[i])
  ELSE IF i = 1 THEN EmptySection ELSE elfSection(file.headers[i])

\* The later loops leave everything but the relocations of a section alone.
FieldsInv ==
  \A i \in DOMAIN sections :
    /\ sections[i].vsize = Made(i).vsize
    /\ sections[i].data = Made(i).data
    /\ sections[i].discardable = Made(i).discardable

\* Of the tables of an ELF file those in front of the loop have been attached.
RelocsInv ==
  \A i \in DOMAIN sections :
    /\ file.format = "coff" => sections[i].relocs = file.headers[i].entries
    /\ pc \in {"rela", "symbols", "read"} /\ file.format = "elf" =>
         \A j \in Patches(i) :
           Patches(i) = {j} /\ j < at => sections[i].relocs = file.headers[j].entries

ReadInv == ReadTypeOK /\ PhaseInv /\ FieldsInv /\ RelocsInv

-------------------------------------------------------------------------------
(* ReadObject: what it makes of one row *)

\* What debug/pe and debug/elf present of a file.
LEMMA FileShape ==
  ASSUME file \in File
  PROVE  /\ DOMAIN file.headers = 1 .. Len(file.headers) /\ Len(file.headers) \in Nat
         /\ \A i \in DOMAIN file.headers : file.headers[i] \in Header
         /\ DOMAIN file.symbols = 1 .. Len(file.symbols) /\ Len(file.symbols) \in Nat
         /\ \A i \in DOMAIN file.symbols : file.symbols[i] \in FileSymbol
<1>1. file.headers \in Seq(Header) /\ file.symbols \in Seq(FileSymbol)
  BY DEF File
<1> QED BY <1>1, LenProperties, ElementOfSeq

\* Entries whose types fit are relocations of the linker.
LEMMA TypeFits ==
  ASSUME NEW t \in Nat, t <= LastType
  PROVE  t \in RelocType
<1>1. LastType \in Nat
  BY DEF LastType
<1> QED BY <1>1 DEF RelocType

LEMMA EntriesFit ==
  ASSUME NEW es \in Seq(Entry), \A k \in DOMAIN es : es[k].type <= LastType
  PROVE  es \in Seq(Reloc)
<1>1. DOMAIN es = 1 .. Len(es) /\ Len(es) \in Nat /\ es \in [1 .. Len(es) -> Entry]
  BY LenProperties
<1>2. ASSUME NEW k \in 1 .. Len(es) PROVE es[k] \in Reloc
  <2>1. es[k] \in Entry /\ es[k].type <= LastType
    BY <1>1, <1>2
  <2>2. es[k].type \in Nat
    BY <2>1 DEF Entry
  <2>3. es[k].type \in RelocType
    BY <2>1, <2>2, TypeFits
  <2> QED BY <2>1, <2>3 DEF Entry, Reloc
<1>3. es \in [1 .. Len(es) -> Reloc]
  BY <1>1, <1>2
<1> QED BY <1>1, <1>3

LEMMA MadeOf ==
  ASSUME NEW i
  PROVE  /\ file.format = "coff" => Made(i) = coffSection(file.headers[i])
         /\ file.format /= "coff" => Made(i) = IF i = 1 THEN EmptySection
                                               ELSE elfSection(file.headers[i])
BY DEF Made

LEMMA CoffFields ==
  ASSUME NEW h
  PROVE  /\ coffSection(h).relocs = h.entries
         /\ coffSection(h).vsize = coffVirtualSize(h)
         /\ coffSection(h).discardable = ~h.alloc
         /\ coffSection(h).data = IF h.type /= "nobits" THEN h.size ELSE 0
BY DEF coffSection

LEMMA MadeTyped ==
  ASSUME file \in File, file \in Files, NEW i \in DOMAIN file.headers
  PROVE  Made(i) \in Section
<1> DEFINE h == file.headers[i]
<1>1. h \in Header
  BY FileShape
<1>2. CASE file.format = "coff"
  <2>1. h.entries \in Seq(Reloc)
    <3>1. \A k \in DOMAIN h.entries : h.entries[k].type <= LastType
      BY <1>2, FilesAssumption
    <3>2. h.entries \in Seq(Entry)
      BY <1>1 DEF Header
    <3> QED BY <3>1, <3>2, EntriesFit
  <2>2. coffVirtualSize(h) \in Nat /\ h.size \in Nat /\ h.exec \in BOOLEAN
    BY <1>1 DEF coffVirtualSize, Header
  <2>3. coffSection(h) \in Section
    BY <2>1, <2>2 DEF coffSection, Section
  <2> QED BY <1>2, <2>3, MadeOf<1>3. CASE file.format /= "coff"
  <2>1. << >> \in Seq(Reloc)
    BY EmptySeq
  <2>2. EmptySection \in Section
    BY <2>1 DEF EmptySection, Section
  <2>3. elfSection(h) \in Section
    BY <1>1, <2>1 DEF elfSection, Section, Header
  <2> QED BY <1>3, <2>2, <2>3, MadeOf
<1> QED BY <1>2, <1>3

LEMMA PlaceholderTyped == Placeholder \in Symbol
BY DEF Placeholder, Symbol

LEMMA RowTyped ==
  ASSUME NEW s \in FileSymbol
  PROVE  ConvertSymbol(s) \in Symbol
<1>1. ClassOf(s) \in {"external", "static", "weak", "other"}
  BY DEF ClassOf
<1>2. KindOf(s) \in {"undefined", "defined", "absolute"}
  BY DEF KindOf
<1>3. s.name \in Names /\ (IF s.place = "section" THEN s.index ELSE 0) \in Int
  BY DEF FileSymbol
<1> QED BY <1>1, <1>2, <1>3 DEF ConvertSymbol, Symbol

LEMMA Prefixed ==
  ASSUME NEW S, NEW x \in S, NEW s \in Seq(S)
  PROVE  /\ << x >> \o s \in Seq(S) /\ Len(<< x >> \o s) = Len(s) + 1
         /\ (<< x >> \o s)[1] = x
         /\ \A i \in 1 .. Len(s) : (<< x >> \o s)[i + 1] = s[i]
<1> DEFINE one == << x >>
<1>1. one \in Seq(S) /\ Len(one) = 1 /\ one[1] = x
  OBVIOUS
<1>2. Len(s) \in Nat
  BY LenProperties
<1> HIDE DEF one
<1>3. one \o s \in Seq(S) /\ Len(one \o s) = Len(one) + Len(s)
  BY <1>1, ConcatProperties
<1>4. ASSUME NEW i \in 1 .. Len(one) + Len(s)
      PROVE  (one \o s)[i] = IF i <= Len(one) THEN one[i] ELSE s[i - Len(one)]
  BY <1>1, ConcatProperties
<1>5. (one \o s)[1] = x
  BY <1>1, <1>2, <1>4
<1>6. ASSUME NEW i \in 1 .. Len(s) PROVE (one \o s)[i + 1] = s[i]
  <2>1. i + 1 \in 1 .. Len(one) + Len(s) /\ ~(i + 1 <= Len(one)) /\ (i + 1) - Len(one) = i
    BY <1>1, <1>2
  <2> QED BY <1>4, <2>1
<1>7. Len(one \o s) = Len(s) + 1
  BY <1>1, <1>2, <1>3
<1> QED BY <1>3, <1>5, <1>6, <1>7 DEF one

\* The rows before the null symbol of ELF is put in front.
Rows == [i \in DOMAIN file.symbols |-> ConvertSymbol(file.symbols[i])]

LEMMA RowsShape ==
  ASSUME file \in File
  PROVE  /\ Rows \in Seq(Symbol) /\ Len(Rows) = Len(file.symbols)
         /\ DOMAIN Rows = 1 .. Len(file.symbols)
         /\ \A i \in DOMAIN Rows : Rows[i].name = file.symbols[i].name
<1>1. DOMAIN file.symbols = 1 .. Len(file.symbols) /\ Len(file.symbols) \in Nat
  BY FileShape
<1>2. \A i \in DOMAIN file.symbols : ConvertSymbol(file.symbols[i]) \in Symbol
  BY FileShape, RowTyped
<1>3. Rows \in [1 .. Len(file.symbols) -> Symbol]
  BY <1>1, <1>2 DEF Rows
<1>4. Rows \in Seq(Symbol) /\ Len(Rows) = Len(file.symbols)
  BY <1>1, <1>3
<1>5. \A i \in DOMAIN Rows : Rows[i].name = file.symbols[i].name
  BY DEF Rows, ConvertSymbol
<1> QED BY <1>1, <1>3, <1>4, <1>5

LEMMA SymbolRowsAre == SymbolRows = IF file.format = "elf" THEN << Placeholder >> \o Rows ELSE Rows
BY DEF SymbolRows, Rows

LEMMA RowsTyped ==
  ASSUME file \in File
  PROVE  SymbolRows \in Seq(Symbol)
<1>1. << Placeholder >> \o Rows \in Seq(Symbol)
  BY PlaceholderTyped, RowsShape, Prefixed
<1> QED BY <1>1, RowsShape, SymbolRowsAre

\* Row n of a table is what the file means by its symbol n.
LEMMA RowsRight ==
  ASSUME file \in File, symbols = SymbolRows, NEW n \in Nat, n + 1 \in DOMAIN symbols
  PROVE  RowRight(n)
<1>1. CASE file.format = "elf"
  <2>1. symbols = << Placeholder >> \o Rows
    BY <1>1, SymbolRowsAre
  <2>2. /\ symbols \in Seq(Symbol) /\ Len(symbols) = Len(Rows) + 1
        /\ symbols[1] = Placeholder /\ \A i \in 1 .. Len(Rows) : symbols[i + 1] = Rows[i]
    BY <2>1, PlaceholderTyped, RowsShape, Prefixed
  <2>3. CASE n = 0
    <3>1. symbols[n + 1] = Placeholder
      BY <2>2, <2>3
    <3>2. symbols[n + 1].class = "static" /\ symbols[n + 1].kind = "absolute"
      <4>1. Placeholder.class = "static" /\ Placeholder.kind = "absolute"
        BY DEF Placeholder
      <4> QED BY <3>1, <4>1, Zenon
    <3> QED BY <1>1, <2>3, <3>2, Zenon DEF RowRight
  <2>4. CASE n > 0
    <3>1. n \in 1 .. Len(Rows)
      BY <2>2, <2>4, RowsShape, LenProperties
    <3>2. symbols[n + 1] = Rows[n] /\ n \in DOMAIN Rows
      BY <2>2, <3>1, RowsShape
    <3> QED BY <1>1, <2>4, <3>2, RowsShape DEF RowRight
  <2> QED BY <2>3, <2>4
<1>2. CASE file.format /= "elf"
  <2>1. symbols = Rows
    BY <1>2, SymbolRowsAre
  <2> QED BY <1>2, <2>1, RowsShape DEF RowRight
<1> QED BY <1>1, <1>2

-------------------------------------------------------------------------------
(* ReadObject: the steps *)

LEMMA ReadInitInv == ReadInit => ReadInv
<1> SUFFICES ASSUME ReadInit PROVE ReadInv
  OBVIOUS
<1>1. file \in File
  BY FilesAssumption DEF ReadInit
<1>2. sections = << >> /\ symbols = << >> /\ at = 1 /\ pc = "detect" /\ file \in Files
  BY DEF ReadInit
<1>3. Len(file.headers) \in Nat
  BY <1>1, FileShape
<1>4. ReadTypeOK
  BY <1>1, <1>2, <1>3, EmptySeq DEF ReadTypeOK
<1> QED BY <1>2, <1>4 DEF ReadInv, PhaseInv, FieldsInv, RelocsInv

LEMMA DetectStep == ReadInv /\ Detect => ReadInv'
<1> SUFFICES ASSUME ReadInv, Detect PROVE ReadInv'
  OBVIOUS
<1>1. sections = << >> /\ at = 1 /\ UNCHANGED <<file, sections, symbols, at>>
  BY DEF Detect, ReadInv, PhaseInv
<1>2. pc' = "error" \/ (pc' = "sections" /\ file.relocatable)
  <2>1. pc' = IF Readable THEN "sections" ELSE "error"
    BY DEF Detect
  <2>2. Readable => file.relocatable
    BY DEF Readable
  <2> QED BY <2>1, <2>2, Zenon
<1>3. ReadTypeOK'
  BY <1>1, <1>2 DEF ReadInv, ReadTypeOK
<1>4. PhaseInv'
  BY <1>1, <1>2, EmptySeq DEF ReadInv, PhaseInv
<1>5. FieldsInv' /\ RelocsInv'
  BY <1>1 DEF FieldsInv, RelocsInv
<1> QED BY <1>3, <1>4, <1>5 DEF ReadInv

LEMMA ReadSectionStep == ReadInv /\ ReadSection => ReadInv'
<1> SUFFICES ASSUME ReadInv, ReadSection PROVE ReadInv'
  OBVIOUS
<1>1. /\ pc = "sections" /\ at \in DOMAIN file.headers
      /\ sections' = Append(sections, Made(at))
      /\ at' = at + 1 /\ UNCHANGED <<file, symbols, pc>>
  BY DEF ReadSection, Made
<1>2. /\ file \in File /\ file \in Files /\ sections \in Seq(Section)
      /\ Len(sections) = at - 1 /\ file.relocatable
  BY <1>1 DEF ReadInv, ReadTypeOK, PhaseInv
<1>3. at \in 1 .. Len(file.headers) /\ Len(file.headers) \in Nat
  BY <1>1, <1>2, FileShape
<1>4. Made(at) \in Section
  BY <1>1, <1>2, MadeTyped
<1>5. sections' \in Seq(Section) /\ Len(sections') = at
  BY <1>1, <1>2, <1>3, <1>4
<1>6. DOMAIN sections' = 1 .. at /\ DOMAIN sections = 1 .. at - 1
  BY <1>2, <1>5, LenProperties
<1>7. \A i \in 1 .. at : sections'[i] = IF i = at THEN Made(at) ELSE sections[i]
  BY <1>1, <1>2, <1>3, <1>4
<1>8. ReadTypeOK'
  BY <1>1, <1>3, <1>5 DEF ReadInv, ReadTypeOK
<1>9. PhaseInv'
  BY <1>1, <1>2, <1>3, <1>5 DEF PhaseInv
<1>10. FieldsInv'
  <2>1. SUFFICES ASSUME NEW i \in DOMAIN sections'
                 PROVE  /\ sections'[i].vsize = Made(i).vsize
                        /\ sections'[i].data = Made(i).data
                        /\ sections'[i].discardable = Made(i).discardable
    BY <1>1 DEF FieldsInv, Made
  <2>2. CASE i = at
    BY <1>6, <1>7, <2>2
  <2>3. CASE i /= at
    <3>1. i \in DOMAIN sections /\ sections'[i] = sections[i]
      BY <1>3, <1>6, <1>7, <2>3
    <3> QED BY <3>1 DEF ReadInv, FieldsInv
  <2> QED BY <2>2, <2>3
<1>11. RelocsInv'
  <2>1. SUFFICES ASSUME NEW i \in DOMAIN sections', file.format = "coff"
                 PROVE  sections'[i].relocs = file.headers[i].entries
    BY <1>1 DEF RelocsInv
  <2>2. CASE i = at
    BY <1>1, <1>6, <1>7, <2>1, <2>2, MadeOf, CoffFields
  <2>3. CASE i /= at
    <3>1. i \in DOMAIN sections /\ sections'[i] = sections[i]
      BY <1>3, <1>6, <1>7, <2>3
    <3> QED BY <2>1, <3>1 DEF ReadInv, RelocsInv
  <2> QED BY <2>2, <2>3
<1> QED BY <1>8, <1>9, <1>10, <1>11 DEF ReadInv

LEMMA SectionsReadStep == ReadInv /\ SectionsRead => ReadInv'
<1> SUFFICES ASSUME ReadInv, SectionsRead PROVE ReadInv'
  OBVIOUS
<1>1. /\ pc = "sections" /\ at \notin DOMAIN file.headers /\ at' = 1
      /\ pc' = IF file.format = "elf" THEN "rela" ELSE "symbols"
      /\ UNCHANGED <<file, sections, symbols>>
  BY DEF SectionsRead
<1>2. /\ file \in File /\ Len(sections) = at - 1 /\ file.relocatable
      /\ at \in 1 .. Len(file.headers) + 1
  BY <1>1 DEF ReadInv, ReadTypeOK, PhaseInv
<1>3. DOMAIN file.headers = 1 .. Len(file.headers) /\ Len(file.headers) \in Nat
  BY <1>2, FileShape
<1>4. Len(sections) = Len(file.headers)
  BY <1>1, <1>2, <1>3
<1>5. ReadTypeOK'
  BY <1>1, <1>3 DEF ReadInv, ReadTypeOK
<1>6. PhaseInv'
  BY <1>1, <1>2, <1>4 DEF ReadInv, PhaseInv
<1>7. FieldsInv'
  BY <1>1 DEF ReadInv, FieldsInv, Made
<1>8. RelocsInv'
  <2>1. \A i : \A j \in Patches(i) : file.format = "elf" => ~(j < at')
    BY <1>1, <1>3 DEF Patches
  <2>2. \A i : Patches(i)' = Patches(i)
    BY <1>1 DEF Patches
  <2> QED BY <1>1, <2>1, <2>2 DEF ReadInv, RelocsInv
<1> QED BY <1>5, <1>6, <1>7, <1>8 DEF ReadInv

\* A table that is attached is that of the header the loop looks at.
LEMMA ParseRELAStep == ReadInv /\ ParseRELA => ReadInv'
<1> SUFFICES ASSUME ReadInv, ParseRELA PROVE ReadInv'
  OBVIOUS
<1> DEFINE h == file.headers[at]
<1>1. pc = "rela" /\ at \in DOMAIN file.headers /\ UNCHANGED <<file, symbols>>
  BY DEF ParseRELA
<1>2. /\ file \in File /\ file \in Files /\ file.format = "elf" /\ file.relocatable
      /\ sections \in Seq(Section) /\ Len(sections) = Len(file.headers)
  BY <1>1 DEF ReadInv, ReadTypeOK, PhaseInv
<1>3. at \in 1 .. Len(file.headers) /\ Len(file.headers) \in Nat /\ h \in Header
  BY <1>1, <1>2, FileShape
<1>4. DOMAIN sections = 1 .. Len(file.headers)
  BY <1>2, LenProperties
<1>5. \A i : Patches(i)' = Patches(i)
  BY <1>1 DEF Patches
<1>6. CASE pc' = "error" /\ UNCHANGED <<sections, at>>
  <2>1. ReadTypeOK'
    BY <1>1, <1>6 DEF ReadInv, ReadTypeOK
  <2>2. PhaseInv'
    BY <1>1, <1>6 DEF ReadInv, PhaseInv
  <2>3. FieldsInv' /\ RelocsInv'
    BY <1>1, <1>2, <1>6 DEF ReadInv, FieldsInv, RelocsInv, Made
  <2> QED BY <2>1, <2>2, <2>3 DEF ReadInv
<1>7. CASE h.type /= "rela" /\ at' = at + 1 /\ UNCHANGED <<sections, pc>>
  <2>1. ReadTypeOK'
    BY <1>1, <1>3, <1>7 DEF ReadInv, ReadTypeOK
  <2>2. PhaseInv'
    BY <1>1, <1>7 DEF ReadInv, PhaseInv
  <2>3. FieldsInv'
    BY <1>1, <1>7 DEF ReadInv, FieldsInv, Made
  <2>4. \A i : \A j \in Patches(i) : j < at' => j < at
    <3>1. \A i : at \notin Patches(i)
      BY <1>2, <1>7 DEF Patches
    <3>2. \A i : \A j \in Patches(i) : j \in 1 .. Len(file.headers)
      BY <1>2, FileShape DEF Patches
    <3> QED BY <1>3, <1>7, <3>1, <3>2
  <2>5. RelocsInv'
    BY <1>1, <1>2, <1>5, <1>7, <2>4 DEF ReadInv, RelocsInv
  <2> QED BY <2>1, <2>2, <2>3, <2>5 DEF ReadInv
<1>8. CASE /\ h.type = "rela" /\ h.info < Len(sections) /\ TypesFit(h.entries)
           /\ sections' = [sections EXCEPT ![h.info + 1].relocs = h.entries]
           /\ at' = at + 1 /\ UNCHANGED pc
  <2> DEFINE t == h.info + 1
             new == [sections[t] EXCEPT !.relocs = h.entries]
  <2>1. t \in 1 .. Len(sections) /\ sections' = [sections EXCEPT ![t] = new]
    BY <1>2, <1>3, <1>8 DEF Header
  <2>2. h.entries \in Seq(Reloc)
    BY <1>3, <1>8, EntriesFit DEF Header, TypesFit
  <2>3. sections[t] \in Section
    BY <1>2, <2>1, ElementOfSeq
  <2>4. /\ new \in Section /\ new.relocs = h.entries /\ new.vsize = sections[t].vsize
        /\ new.data = sections[t].data /\ new.discardable = sections[t].discardable
    BY <2>2, <2>3 DEF Section
  <2> HIDE DEF t, new
  <2>5. /\ sections' \in Seq(Section) /\ Len(sections') = Len(sections)
        /\ \A i \in 1 .. Len(sections) : sections'[i] = IF i = t THEN new ELSE sections[i]
    BY <1>2, <2>1, <2>4, ExceptSeq
  <2>6. DOMAIN sections' = DOMAIN sections
    BY <1>2, <1>4, <2>5, LenProperties
  <2>7. ReadTypeOK'
    BY <1>1, <1>2, <1>3, <1>8, <2>5 DEF ReadInv, ReadTypeOK
  <2>8. PhaseInv'
    BY <1>1, <1>8, <2>5 DEF ReadInv, PhaseInv
  <2>9. FieldsInv'
    <3>1. \A i : Made(i)' = Made(i)
      BY <1>1 DEF Made
    <3> QED BY <1>2, <1>4, <2>4, <2>5, <2>6, <3>1 DEF ReadInv, FieldsInv
  <2>10. RelocsInv'
    <3>1. SUFFICES ASSUME NEW i \in DOMAIN sections, NEW j \in Patches(i),
                          Patches(i) = {j}, j < at'
                   PROVE  sections'[i].relocs = file.headers[j].entries
      BY <1>1, <1>2, <1>5, <2>6 DEF RelocsInv
    <3>2. j \in 1 .. Len(file.headers) /\ file.headers[j].info + 1 = i
      BY <1>2, FileShape DEF Patches
    <3>3. CASE i = t
      <4>1. at \in Patches(i)
        BY <1>1, <1>2, <1>8, <3>3 DEF Patches, t
      <4>2. j = at
        BY <3>1, <4>1
      <4> QED BY <1>2, <1>4, <2>4, <2>5, <3>3, <4>2
    <3>4. CASE i /= t
      <4>1. j /= at
        BY <3>2, <3>4 DEF t
      <4>2. j < at
        BY <1>3, <1>8, <3>1, <3>2, <4>1
      <4>3. sections[i].relocs = file.headers[j].entries
        BY <1>1, <1>2, <3>1, <4>2 DEF ReadInv, RelocsInv
      <4> QED BY <1>2, <1>4, <2>5, <3>4, <4>3
    <3> QED BY <3>3, <3>4
  <2> QED BY <2>7, <2>8, <2>9, <2>10 DEF ReadInv
<1>9. /\ h.info \in Nat /\ Len(sections) \in Nat
  BY <1>2, <1>3 DEF Header
<1> QED BY <1>6, <1>7, <1>8, <1>9 DEF ParseRELA

LEMMA RelaReadStep == ReadInv /\ RelaRead => ReadInv'
<1> SUFFICES ASSUME ReadInv, RelaRead PROVE ReadInv'
  OBVIOUS
<1>1. /\ pc = "rela" /\ at \notin DOMAIN file.headers /\ pc' = "symbols"
      /\ UNCHANGED <<file, sections, symbols, at>>
  BY DEF RelaRead
<1>2. file \in File /\ at \in 1 .. Len(file.headers) + 1
  BY DEF ReadInv, ReadTypeOK
<1>3. at = Len(file.headers) + 1
  BY <1>1, <1>2, FileShape
<1>4. ReadTypeOK'
  BY <1>1 DEF ReadInv, ReadTypeOK
<1>5. PhaseInv'
  BY <1>1, <1>3 DEF ReadInv, PhaseInv
<1>6. FieldsInv' /\ RelocsInv'
  BY <1>1 DEF ReadInv, FieldsInv, RelocsInv, Made, Patches
<1> QED BY <1>4, <1>5, <1>6 DEF ReadInv

LEMMA ReadSymbolsStep == ReadInv /\ ReadSymbols => ReadInv'
<1> SUFFICES ASSUME ReadInv, ReadSymbols PROVE ReadInv'
  OBVIOUS
<1>1. /\ pc = "symbols" /\ pc' = "read" /\ symbols' = SymbolRows
      /\ UNCHANGED <<file, sections, at>>
  BY DEF ReadSymbols
<1>2. SymbolRows' = SymbolRows
  BY <1>1 DEF SymbolRows, ConvertSymbol, ClassOf, KindOf
<1>3. SymbolRows \in Seq(Symbol)
  BY RowsTyped DEF ReadInv, ReadTypeOK
<1>4. ReadTypeOK'
  BY <1>1, <1>3 DEF ReadInv, ReadTypeOK
<1>5. PhaseInv'
  BY <1>1, <1>2 DEF ReadInv, PhaseInv
<1>6. FieldsInv' /\ RelocsInv'
  BY <1>1 DEF ReadInv, FieldsInv, RelocsInv, Made, Patches
<1> QED BY <1>4, <1>5, <1>6 DEF ReadInv

LEMMA ReadStep == ReadInv /\ [ReadNext \/ ReadReturned]_readVars => ReadInv'
<1> SUFFICES ASSUME ReadInv, [ReadNext \/ ReadReturned]_readVars PROVE ReadInv'
  OBVIOUS
<1>1. CASE ReadReturned \/ UNCHANGED readVars
  <2>1. UNCHANGED <<file, sections, symbols, at, pc>>
    BY <1>1 DEF ReadReturned, readVars
  <2>2. SymbolRows' = SymbolRows
    BY <2>1 DEF SymbolRows, ConvertSymbol, ClassOf, KindOf
  <2>3. ReadTypeOK' /\ PhaseInv'
    BY <2>1, <2>2 DEF ReadInv, ReadTypeOK, PhaseInv
  <2>4. FieldsInv' /\ RelocsInv'
    BY <2>1 DEF ReadInv, FieldsInv, RelocsInv, Made, Patches
  <2> QED BY <2>3, <2>4 DEF ReadInv
<1> QED BY <1>1, DetectStep, ReadSectionStep, SectionsReadStep, ParseRELAStep,
        RelaReadStep, ReadSymbolsStep DEF ReadNext

LEMMA ReadInvariant == ReadSpec => []ReadInv
BY ReadInitInv, ReadStep, PTL DEF ReadSpec

-------------------------------------------------------------------------------
(* ReadObject: the theorems *)

\* Both readers keep their types for every file; in particular no relocation gets
\* a type of more than 16 bits (elf_rela.go cuts none off).
THEOREM ReadTypeCorrect == ReadSpec => []ReadTypeOK
<1>1. ReadInv => ReadTypeOK
  BY DEF ReadInv
<1> QED BY <1>1, ReadInvariant, PTL

LEMMA WholeFromInv == ReadInv => KeptWhole
<1> SUFFICES ASSUME ReadInv, pc = "read" PROVE KeptWhole
  BY DEF KeptWhole
<1>1. /\ file \in File /\ file \in Files /\ file.relocatable
      /\ sections \in Seq(Section) /\ Len(sections) = Len(file.headers)
  BY DEF ReadInv, ReadTypeOK, PhaseInv
<1>2. SUFFICES ASSUME NEW i \in DOMAIN sections
               PROVE  LET h == file.headers[i]
                          s == sections[i]
                      IN  /\ Dropped(s) <=> ~h.alloc \/ h.size = 0
                          /\ ~Dropped(s) =>
                               /\ s.vsize = h.size
                               /\ s.data = IF h.type = "nobits" THEN 0 ELSE h.size
  BY <1>1 DEF KeptWhole
<1> DEFINE h == file.headers[i]
           s == sections[i]
<1>3. i \in DOMAIN file.headers /\ h \in Header
  BY <1>1, LenProperties, FileShape
<1>4. s.vsize = Made(i).vsize /\ s.data = Made(i).data /\ s.discardable = Made(i).discardable
  BY DEF ReadInv, FieldsInv
<1>5. h.size \in Nat /\ h.alloc \in BOOLEAN
  BY <1>3 DEF Header
<1>6. CASE file.format = "coff"
  <2>1. h.vsize = 0
    BY <1>1, <1>3, <1>6, FilesAssumption
  <2>2. /\ s.vsize = h.size /\ s.discardable = ~h.alloc
        /\ s.data = IF h.type /= "nobits" THEN h.size ELSE 0
    BY <1>4, <1>6, <2>1, MadeOf, CoffFields DEF coffVirtualSize
  <2> HIDE DEF h, s
  <2> QED BY <1>5, <2>2 DEF Dropped, h, s
<1>7. CASE file.format = "elf" /\ i = 1
  <2>1. ~h.alloc
    BY <1>1, <1>7, FilesAssumption
  <2>2. s.vsize = 0 /\ s.data = 0
    BY <1>4, <1>7, MadeOf DEF EmptySection
  <2> QED BY <2>1, <2>2 DEF Dropped
<1>8. CASE file.format = "elf" /\ i /= 1
  <2>1. /\ s.vsize = h.size /\ s.discardable = ~h.alloc
        /\ s.data = IF h.alloc /\ h.type /= "nobits" THEN h.size ELSE 0
    BY <1>4, <1>8, MadeOf DEF elfSection
  <2> HIDE DEF h, s
  <2> QED BY <1>5, <2>1 DEF Dropped, h, s
<1> QED BY <1>1, <1>6, <1>7, <1>8 DEF File

\* Of every file that is read, the layout drops exactly the sections that are not
\* loaded or empty, and gets all of the others in full size (object.go:206,
\* elf.go:40-70).
THEOREM ReadKeepsWhole == ReadSpec => []KeptWhole
BY WholeFromInv, ReadInvariant, PTL

LEMMA NamesFromInv == ReadInv => RelocsNameSymbols
<1> SUFFICES ASSUME ReadInv, pc = "read",
                    NEW i \in DOMAIN sections, NEW j \in Patches(i), Patches(i) = {j}
             PROVE  LET es == file.headers[j].entries IN
                    /\ sections[i].relocs = es
                    /\ \A k \in DOMAIN es :
                         es[k].sym + 1 \in DOMAIN symbols => RowRight(es[k].sym)
  BY DEF RelocsNameSymbols
<1> DEFINE es == file.headers[j].entries
<1>1. /\ file \in File /\ symbols = SymbolRows /\ file.format \in {"coff", "elf"}
      /\ Len(sections) = Len(file.headers) /\ sections \in Seq(Section)
  BY DEF ReadInv, ReadTypeOK, PhaseInv, File
<1>2. DOMAIN file.headers = 1 .. Len(file.headers) /\ DOMAIN sections = 1 .. Len(file.headers)
  BY <1>1, FileShape, LenProperties
<1>3. j \in DOMAIN file.headers
  BY <1>1, <1>2 DEF Patches
<1>4. sections[i].relocs = es
  <2>1. CASE file.format = "coff"
    BY <2>1 DEF ReadInv, RelocsInv, Patches
  <2>2. CASE file.format = "elf"
    <3>1. j < at
      BY <1>2, <1>3, <2>2 DEF ReadInv, PhaseInv
    <3> QED BY <2>2, <3>1 DEF ReadInv, RelocsInv
  <2> QED BY <1>1, <2>1, <2>2
<1>5. es \in Seq(Entry)
  BY <1>1, <1>3, FileShape DEF Header
<1> HIDE DEF es
<1>6. \A k \in DOMAIN es : es[k].sym \in Nat
  <2>1. \A k \in DOMAIN es : es[k] \in Entry
    BY <1>5, LenProperties, ElementOfSeq
  <2> QED BY <2>1 DEF Entry
<1>7. \A k \in DOMAIN es : es[k].sym + 1 \in DOMAIN symbols => RowRight(es[k].sym)
  BY <1>1, <1>6, RowsRight
<1> QED BY <1>4, <1>7 DEF es

\* In every file, a section that one relocation table is for has that table, and
\* the symbol indices in it find the rows that the file means (elf.go:85, :101).
THEOREM ReadNamesSymbols == ReadSpec => []RelocsNameSymbols
BY NamesFromInv, ReadInvariant, PTL

-------------------------------------------------------------------------------
(* Induction and sums *)

\* f holds the sums of the first terms of b.
Sums(f, b) ==
  /\ f \in [0 .. Len(b) -> Int] /\ f[0] = 0
  /\ \A n \in 1 .. Len(b) : f[n] = f[n - 1] + b[n]

\* The sums of the first terms exist, for a sequence of any length.
LEMMA SumsExist ==
  ASSUME NEW b \in Seq(Int)
  PROVE  \E f : Sums(f, b)
<1> DEFINE Upto(m) == \E f \in [0 .. m -> Int] :
                        f[0] = 0 /\ \A n \in 1 .. m : f[n] = f[n - 1] + b[n]
           T == {m \in 0 .. Len(b) : Upto(m)}
<1>1. Len(b) \in Nat /\ b \in [1 .. Len(b) -> Int]
  BY LenProperties
<1>2. Upto(0)
  <2>1. [n \in 0 .. 0 |-> 0] \in [0 .. 0 -> Int] /\ [n \in 0 .. 0 |-> 0][0] = 0
    OBVIOUS
  <2>2. 1 .. 0 = {}
    OBVIOUS
  <2> QED BY <2>1, <2>2
<1>3. ASSUME NEW m \in 0 .. Len(b) - 1, Upto(m) PROVE Upto(m + 1)
  <2>1. PICK f \in [0 .. m -> Int] : f[0] = 0 /\ \A n \in 1 .. m : f[n] = f[n - 1] + b[n]
    BY <1>3
  <2> DEFINE g == [n \in 0 .. m + 1 |-> IF n = m + 1 THEN f[m] + b[m + 1] ELSE f[n]]
  <2>2. m \in 0 .. m /\ b[m + 1] \in Int
    BY <1>1
  <2>3. g \in [0 .. m + 1 -> Int]
    <3>1. \A n \in 0 .. m + 1 : n /= m + 1 => n \in 0 .. m
      OBVIOUS
    <3>2. f[m] + b[m + 1] \in Int
      BY <2>2
    <3> QED BY <3>1, <3>2
  <2>4. g[0] = 0
    BY <2>1
  <2>5. ASSUME NEW n \in 1 .. m + 1 PROVE g[n] = g[n - 1] + b[n]
    <3>1. CASE n = m + 1
      <4>1. g[n] = f[m] + b[m + 1] /\ g[n - 1] = f[m]
        BY <3>1
      <4> QED BY <3>1, <4>1
    <3>2. CASE n /= m + 1
      <4>1. n \in 1 .. m /\ n - 1 \in 0 .. m + 1 /\ n - 1 /= m + 1 /\ n \in 0 .. m + 1
        BY <3>2
      <4>2. g[n] = f[n] /\ g[n - 1] = f[n - 1]
        BY <3>2, <4>1
      <4> QED BY <2>1, <4>1, <4>2
    <3> QED BY <3>1, <3>2
  <2> HIDE DEF g
  <2> QED BY <2>3, <2>4, <2>5
<1> HIDE DEF Upto
<1>4. 0 \in T
  BY <1>1, <1>2
<1>5. ASSUME NEW m \in 0 .. Len(b) - 1, m \in T PROVE m + 1 \in T
  <2>1. m + 1 \in 0 .. Len(b)
    BY <1>1
  <2> QED BY <1>3, <1>5, <2>1
<1>6. \A m \in 0 .. Len(b) : m \in T
  <2> HIDE DEF T
  <2> QED BY <1>1, <1>4, <1>5, UpTo
<1>7. Upto(Len(b))
  BY <1>1, <1>6
<1> QED BY <1>7 DEF Upto, Sums

\* SumOf is the last of them.
LEMMA SumOfIs ==
  ASSUME NEW b \in Seq(Int), NEW f, Sums(f, b)
  PROVE  SumOf(b) = f[Len(b)] /\ SumOf(b) \in Int
<1> DEFINE Rec(g) == g = [n \in 0 .. Len(b) |-> IF n = 0 THEN 0 ELSE g[n - 1] + b[n]]
<1>1. Len(b) \in Nat /\ b \in [1 .. Len(b) -> Int]
  BY LenProperties
<1>2. Rec(f)
  <2>1. \A n \in 0 .. Len(b) : f[n] = IF n = 0 THEN 0 ELSE f[n - 1] + b[n]
    <3>1. \A n \in 0 .. Len(b) : n /= 0 => n \in 1 .. Len(b)
      BY <1>1
    <3> QED BY <3>1 DEF Sums
  <2> QED BY <2>1 DEF Sums
<1>3. ASSUME NEW g, Rec(g) PROVE g = f
  <2>1. DOMAIN g = 0 .. Len(b) /\ DOMAIN f = 0 .. Len(b)
    BY <1>3 DEF Sums
  <2> DEFINE T == {m \in 0 .. Len(b) : f[m] = g[m]}
  <2>2. 0 \in T
    BY <1>1, <1>2, <1>3
  <2>3. ASSUME NEW m \in 0 .. Len(b) - 1, m \in T PROVE m + 1 \in T
    <3>1. m + 1 \in 0 .. Len(b) /\ (m + 1) - 1 = m /\ m + 1 /= 0
      BY <1>1
    <3>2. f[m + 1] = f[m] + b[m + 1] /\ g[m + 1] = g[m] + b[m + 1]
      BY <1>2, <1>3, <3>1
    <3> QED BY <2>3, <3>1, <3>2
  <2>4. \A m \in 0 .. Len(b) : m \in T
    <3> HIDE DEF T
    <3> QED BY <1>1, <2>2, <2>3, UpTo
  <2>5. g = [n \in 0 .. Len(b) |-> g[n]] /\ f = [n \in 0 .. Len(b) |-> f[n]]
    BY <1>3 DEF Sums
  <2> QED BY <2>4, <2>5
<1>4. SumOf(b) = (CHOOSE g : Rec(g))[Len(b)]
  BY DEF SumOf
<1>5. (CHOOSE g : Rec(g)) = f
  <2> HIDE DEF Rec
  <2> QED BY <1>2, <1>3
<1>6. f[Len(b)] \in Int
  BY <1>1 DEF Sums
<1> QED BY <1>4, <1>5, <1>6

\* One byte adds up to itself.
LEMMA SumOfOne ==
  ASSUME NEW v \in Int
  PROVE  << v >> \in Seq(Int) /\ SumOf(<< v >>) = v
<1> DEFINE f == [n \in 0 .. 1 |-> IF n = 0 THEN 0 ELSE v]
<1>1. << v >> \in Seq(Int) /\ Len(<< v >>) = 1 /\ << v >>[1] = v
  OBVIOUS
<1>2. Sums(f, << v >>)
  <2>1. f \in [0 .. 1 -> Int] /\ f[0] = 0 /\ f[1] = v
    OBVIOUS
  <2>2. \A n \in 1 .. 1 : n = 1
    OBVIOUS
  <2> HIDE DEF f
  <2> QED BY <1>1, <2>1, <2>2 DEF Sums
<1>3. f[1] = v
  OBVIOUS
<1> HIDE DEF f
<1> QED BY <1>1, <1>2, <1>3, SumOfIs

\* The sum of a concatenation.
LEMMA SumOfConcat ==
  ASSUME NEW s \in Seq(Int), NEW t \in Seq(Int)
  PROVE  s \o t \in Seq(Int) /\ SumOf(s \o t) = SumOf(s) + SumOf(t)
<1>1. /\ Len(s) \in Nat /\ Len(t) \in Nat /\ s \o t \in Seq(Int) /\ Len(s \o t) = Len(s) + Len(t)
      /\ \A n \in 1 .. Len(s) : (s \o t)[n] = s[n]
      /\ \A n \in 1 .. Len(t) : (s \o t)[Len(s) + n] = t[n]
  BY LenProperties, ConcatProperties
<1>2. PICK f : Sums(f, s)
  BY SumsExist
<1>3. PICK g : Sums(g, t)
  BY SumsExist
<1>4. SumOf(s) = f[Len(s)] /\ SumOf(t) = g[Len(t)] /\ f[Len(s)] \in Int
  BY <1>2, <1>3, SumOfIs
<1> DEFINE h == [n \in 0 .. Len(s) + Len(t) |->
                   IF n <= Len(s) THEN f[n] ELSE f[Len(s)] + g[n - Len(s)]]
<1>5. h \in [0 .. Len(s) + Len(t) -> Int] /\ h[0] = 0
  <2>1. ASSUME NEW n \in 0 .. Len(s) + Len(t) PROVE h[n] \in Int
    <3>1. CASE n <= Len(s)
      <4>1. n \in 0 .. Len(s)
        BY <1>1, <3>1
      <4>2. f[n] \in Int
        BY <1>2, <4>1 DEF Sums
      <4> QED BY <3>1, <4>2
    <3>2. CASE ~(n <= Len(s))
      <4>1. n - Len(s) \in 0 .. Len(t)
        BY <1>1, <3>2
      <4>2. g[n - Len(s)] \in Int
        BY <1>3, <4>1 DEF Sums
      <4>3. h[n] = f[Len(s)] + g[n - Len(s)]
        BY <3>2
      <4> QED BY <1>4, <4>2, <4>3
    <3> QED BY <3>1, <3>2
  <2>2. h[0] = f[0]
    BY <1>1
  <2> QED BY <1>2, <2>1, <2>2 DEF Sums
<1>6. ASSUME NEW n \in 1 .. Len(s) + Len(t) PROVE h[n] = h[n - 1] + (s \o t)[n]
  <2>1. CASE n <= Len(s)
    <3>1. n \in 1 .. Len(s) /\ h[n] = f[n] /\ h[n - 1] = f[n - 1] /\ (s \o t)[n] = s[n]
      BY <1>1, <2>1
    <3> QED BY <1>2, <3>1 DEF Sums
  <2>2. CASE ~(n <= Len(s))
    <3> DEFINE k == n - Len(s)
    <3>1. k \in 1 .. Len(t) /\ n = Len(s) + k /\ k - 1 = n - 1 - Len(s)
      BY <1>1, <2>2
    <3>2. (s \o t)[n] = t[k] /\ h[n] = f[Len(s)] + g[k]
      BY <1>1, <2>2, <3>1
    <3>3. g[k] = g[k - 1] + t[k] /\ g[k - 1] \in Int /\ g[0] = 0 /\ t[k] \in Int
      <4>1. k - 1 \in 0 .. Len(t) /\ g \in [0 .. Len(t) -> Int]
        BY <1>3, <3>1 DEF Sums
      <4>2. t[k] \in Int
        BY <3>1, ElementOfSeq
      <4>3. g[k - 1] \in Int
        BY <4>1
      <4>4. g[k] = g[k - 1] + t[k] /\ g[0] = 0
        BY <1>3, <3>1 DEF Sums
      <4> QED BY <4>2, <4>3, <4>4
    <3>4. h[n - 1] = f[Len(s)] + g[k - 1]
      <4>1. CASE k = 1
        BY <1>1, <1>4, <3>1, <3>3, <4>1
      <4>2. CASE k /= 1
        <5>1. ~(n - 1 <= Len(s)) /\ n - 1 \in 0 .. Len(s) + Len(t)
          BY <1>1, <3>1, <4>2
        <5>2. h[n - 1] = f[Len(s)] + g[n - 1 - Len(s)]
          BY <5>1
        <5> QED BY <3>1, <5>2
      <4> QED BY <4>1, <4>2
    <3> HIDE DEF k, h
    <3>5. \A x, y, z \in Int : x + (y + z) = (x + y) + z
      OBVIOUS
    <3>6. f[Len(s)] + (g[k - 1] + t[k]) = (f[Len(s)] + g[k - 1]) + t[k]
      BY <1>4, <3>3, <3>5
    <3>7. h[n] = f[Len(s)] + (g[k - 1] + t[k])
      BY <3>2, <3>3
    <3> QED BY <3>2, <3>4, <3>6, <3>7
  <2> QED BY <2>1, <2>2
<1>7. Sums(h, s \o t)
  <2> HIDE DEF h
  <2> QED BY <1>1, <1>5, <1>6 DEF Sums
<1>8. h[Len(s) + Len(t)] = SumOf(s) + SumOf(t)
  <2>1. CASE Len(t) = 0
    <3>1. g[Len(t)] = 0 /\ h[Len(s) + Len(t)] = f[Len(s)]
      BY <1>1, <1>3, <2>1 DEF Sums
    <3> QED BY <1>4, <3>1
  <2>2. CASE Len(t) /= 0
    <3>1. ~(Len(s) + Len(t) <= Len(s)) /\ Len(s) + Len(t) - Len(s) = Len(t)
      BY <1>1, <2>2
    <3>2. Len(s) + Len(t) \in 0 .. Len(s) + Len(t)
      BY <1>1
    <3>3. h[Len(s) + Len(t)] = f[Len(s)] + g[Len(s) + Len(t) - Len(s)]
      BY <3>1, <3>2
    <3> QED BY <1>4, <3>1, <3>3
  <2> QED BY <2>1, <2>2
<1> HIDE DEF h
<1> QED BY <1>1, <1>7, <1>8, SumOfIs

-------------------------------------------------------------------------------
(* Bytes and words *)

LEMMA Widths ==
  /\ Byte \in Nat /\ Byte > 4 /\ Half \in Nat /\ Half > Byte /\ Word \in Nat /\ Word > Half
  /\ Half = Byte * Byte /\ Word = Half * Half
<1>1. Byte \in Nat /\ Byte > 4
  BY ByteAssumption
<1>2. Byte * Byte \in Nat /\ Byte * Byte > Byte
  BY <1>1
<1>3. Half \in Nat /\ Half > Byte /\ Half = Byte * Byte
  BY <1>2 DEF Half
<1>4. Half * Half \in Nat /\ Half * Half > Half
  BY <1>1, <1>3
<1> QED BY <1>1, <1>3, <1>4 DEF Word

\* A number below w * w has two digits to the base w.
LEMMA TwoDigits ==
  ASSUME NEW w \in Nat \ {0}, NEW v \in Nat, v < w * w
  PROVE  /\ v \div w \in 0 .. w - 1 /\ v % w \in 0 .. w - 1 /\ (v \div w) % w = v \div w
         /\ w * (v \div w) + (v % w) = v
<1>1. v \div w \in Nat /\ v % w \in 0 .. w - 1
  BY SMT
<1>2. w * (v \div w) + (v % w) = v
  BY SMT
<1>3. v \div w < w
  <2> DEFINE q == v \div w
  <2>1. q \in Nat /\ w * q <= v
    BY <1>1, <1>2
  <2> HIDE DEF q
  <2>2. ASSUME q >= w PROVE FALSE
    <3>1. w * q >= w * w
      BY <2>1, <2>2
    <3>2. w * w \in Nat /\ w * q \in Nat
      BY <2>1
    <3> QED BY <2>1, <3>1, <3>2
  <2>3. q < w
    BY <2>1, <2>2
  <2> QED BY <2>3 DEF q
<1>4. (v \div w) % w = v \div w
  BY <1>1, <1>3
<1> QED BY <1>1, <1>2, <1>3, <1>4

LEMMA SmallMod ==
  ASSUME NEW w \in Nat \ {0}, NEW v \in 0 .. w - 1
  PROVE  v % w = v
BY SMT

\* A reader decodes what binary.BigEndian wrote, whatever comes behind it.
LEMMA Decode16 ==
  ASSUME NEW v \in 0 .. Half - 1
  PROVE  /\ PutUint16(v) \in Seq(Bytes) /\ Len(PutUint16(v)) = 2
         /\ \A b : b[1] = PutUint16(v)[1] /\ b[2] = PutUint16(v)[2] => Uint16(b) = v
<1>1. /\ v \div Byte \in 0 .. Byte - 1 /\ v % Byte \in 0 .. Byte - 1
      /\ (v \div Byte) % Byte = v \div Byte /\ Byte * (v \div Byte) + (v % Byte) = v
  <2>1. Byte \in Nat \ {0} /\ v \in Nat /\ v < Byte * Byte
    BY Widths
  <2> QED BY <2>1, TwoDigits
<1>2. PutUint16(v) = << v \div Byte, v % Byte >>
  BY <1>1 DEF PutUint16
<1>3. PutUint16(v) \in Seq(Bytes) /\ Len(PutUint16(v)) = 2
  BY <1>1, <1>2 DEF Bytes
<1>4. PutUint16(v)[1] = v \div Byte /\ PutUint16(v)[2] = v % Byte
  BY <1>2
<1> QED BY <1>1, <1>3, <1>4 DEF Uint16

\* The elements of a concatenation.
LEMMA ConcatAt ==
  ASSUME NEW S, NEW s \in Seq(S), NEW t \in Seq(S)
  PROVE  /\ s \o t \in Seq(S) /\ Len(s) \in Nat /\ Len(t) \in Nat /\ Len(s \o t) = Len(s) + Len(t)
         /\ \A i \in 1 .. Len(s) : (s \o t)[i] = s[i]
         /\ \A i \in 1 .. Len(t) : (s \o t)[Len(s) + i] = t[i]
BY LenProperties, ConcatProperties

LEMMA TwoPairs ==
  ASSUME NEW S, NEW s \in Seq(S), NEW t \in Seq(S)
  PROVE  Len(s) = 2 /\ Len(t) = 2 =>
         /\ s \o t \in Seq(S) /\ Len(s \o t) = 4
         /\ (s \o t)[1] = s[1] /\ (s \o t)[2] = s[2]
         /\ (s \o t)[3] = t[1] /\ (s \o t)[4] = t[2]
<1>1. /\ s \o t \in Seq(S) /\ Len(s \o t) = Len(s) + Len(t)
      /\ \A i \in 1 .. Len(s) : (s \o t)[i] = s[i]
      /\ \A i \in 1 .. Len(t) : (s \o t)[Len(s) + i] = t[i]
  BY ConcatAt
<1>2. 1 \in 1 .. 2 /\ 2 \in 1 .. 2
  OBVIOUS
<1> QED BY <1>1, <1>2

LEMMA Decode32 ==
  ASSUME NEW v \in 0 .. Word - 1, NEW d \in Seq(Bytes)
  PROVE  /\ PutUint32(v) \in Seq(Bytes) /\ Len(PutUint32(v)) = 4
         /\ Uint32(PutUint32(v) \o d) = v
<1> DEFINE hi == v \div Half
           lo == v % Half
           b  == PutUint32(v) \o d
<1>1. hi \in 0 .. Half - 1 /\ lo \in 0 .. Half - 1 /\ Half * hi + lo = v
  <2>1. Half \in Nat \ {0} /\ v \in Nat /\ v < Half * Half
    BY Widths
  <2> QED BY <2>1, TwoDigits
<1>2. PutUint32(v) = PutUint16(hi) \o PutUint16(lo)
  BY DEF PutUint32
<1> HIDE DEF hi, lo
<1>3. /\ PutUint16(hi) \in Seq(Bytes) /\ Len(PutUint16(hi)) = 2
      /\ PutUint16(lo) \in Seq(Bytes) /\ Len(PutUint16(lo)) = 2
  BY <1>1, Decode16
<1>4. /\ PutUint32(v) \in Seq(Bytes) /\ Len(PutUint32(v)) = 4
      /\ PutUint32(v)[1] = PutUint16(hi)[1] /\ PutUint32(v)[2] = PutUint16(hi)[2]
      /\ PutUint32(v)[3] = PutUint16(lo)[1] /\ PutUint32(v)[4] = PutUint16(lo)[2]
  BY <1>2, <1>3, TwoPairs
<1>5. /\ b \in Seq(Bytes) /\ Len(b) \in Nat /\ Len(b) >= 4
      /\ \A i \in 1 .. 4 : b[i] = PutUint32(v)[i]
  <2>1. Len(d) \in Nat /\ Len(b) = Len(PutUint32(v)) + Len(d) /\ b \in Seq(Bytes)
    BY <1>4, ConcatAt
  <2>2. \A i \in 1 .. Len(PutUint32(v)) : b[i] = PutUint32(v)[i]
    BY <1>4, ConcatAt
  <2> QED BY <1>4, <2>1, <2>2
<1> HIDE DEF b
<1>6. SubSeq(b, 3, 4)[1] = b[3] /\ SubSeq(b, 3, 4)[2] = b[4]
  <2>1. \A i \in 3 .. 4 : b[i] \in Bytes
    BY <1>5, ElementOfSeq
  <2>2. \A i \in 1 .. 4 - 3 + 1 : SubSeq(b, 3, 4)[i] = b[3 + i - 1]
    BY <2>1, SubSeqProperties
  <2> QED BY <2>2
<1>7. Uint16(b) = hi
  BY <1>1, <1>4, <1>5, Decode16
<1>8. Uint16(SubSeq(b, 3, 4)) = lo
  <2>1. \A c : c[1] = PutUint16(lo)[1] /\ c[2] = PutUint16(lo)[2] => Uint16(c) = lo
    BY <1>1, Decode16
  <2>2. b[3] = PutUint16(lo)[1] /\ b[4] = PutUint16(lo)[2]
    BY <1>4, <1>5
  <2> QED BY <1>6, <2>1, <2>2
<1>9. Uint32(b) = v
  BY <1>1, <1>7, <1>8 DEF Uint32
<1> QED BY <1>4, <1>9 DEF b

-------------------------------------------------------------------------------
(* Firmware: what is in a record *)

Record == [type : {"S0", "S3", "S7", ":"}, bytes : Seq(Int)]

LEMMA BytesAreNumbers ==
  ASSUME NEW d \in Seq(Bytes)
  PROVE  d \in Seq(Int) /\ Len(d) \in Nat
<1>1. Bytes \subseteq Int
  BY Widths DEF Bytes
<1> QED BY <1>1, LenProperties, SeqMonotonic

\* SubSeq by where it starts and how long it is.
LEMMA SubSeqAt ==
  ASSUME NEW S, NEW s \in Seq(S), NEW n \in Nat, NEW k \in Nat, n + k <= Len(s)
  PROVE  /\ SubSeq(s, n + 1, n + k) \in Seq(S) /\ Len(SubSeq(s, n + 1, n + k)) = k
         /\ \A i \in 1 .. k : SubSeq(s, n + 1, n + k)[i] = s[n + i]
<1> DEFINE a == n + 1
           b == n + k
<1>1. a \in Int /\ b \in Int /\ b - a + 1 = k /\ (a <= b <=> k > 0) /\ \A i \in 1 .. k : a + i - 1 = n + i
  OBVIOUS
<1>2. \A i \in a .. b : s[i] \in S
  <2>1. Len(s) \in Nat
    BY LenProperties
  <2>2. \A i \in a .. b : i \in 1 .. Len(s)
    BY <2>1
  <2> QED BY <2>2, ElementOfSeq
<1> HIDE DEF a, b
<1>3. /\ SubSeq(s, a, b) \in Seq(S) /\ Len(SubSeq(s, a, b)) = IF a <= b THEN b - a + 1 ELSE 0
      /\ \A i \in 1 .. b - a + 1 : SubSeq(s, a, b)[i] = s[a + i - 1]
  BY <1>1, <1>2, SubSeqProperties
<1>4. /\ SubSeq(s, a, b) \in Seq(S) /\ Len(SubSeq(s, a, b)) = k
      /\ \A i \in 1 .. k : SubSeq(s, a, b)[i] = s[n + i]
  BY <1>1, <1>3
<1> QED BY <1>4 DEF a, b

\* The tail of a concatenation, read with SubSeq.
LEMMA TailOf ==
  ASSUME NEW S, NEW s \in Seq(S), NEW t \in Seq(S)
  PROVE  SubSeq(s \o t, Len(s) + 1, Len(s \o t)) = t
<1> DEFINE b == s \o t
           c == SubSeq(b, Len(s) + 1, Len(b))
<1>1. /\ b \in Seq(S) /\ Len(s) \in Nat /\ Len(t) \in Nat /\ Len(b) = Len(s) + Len(t)
      /\ \A i \in 1 .. Len(t) : b[Len(s) + i] = t[i]
  BY ConcatAt
<1> HIDE DEF b
<1>2. c \in Seq(S) /\ Len(c) = Len(t) /\ \A i \in 1 .. Len(t) : c[i] = b[Len(s) + i]
  BY <1>1, SubSeqAt
<1> HIDE DEF c
<1>3. c = t
  BY <1>1, <1>2, SeqEqual
<1> QED BY <1>3 DEF b, c

\* A record: its count, its body and its checksum.
LEMMA Framed ==
  ASSUME NEW c \in Int, NEW k \in Int, NEW b \in Seq(Int)
  PROVE  LET r == << c >> \o b \o << k >> IN
         /\ r \in Seq(Int) /\ Len(r) = Len(b) + 2 /\ r[1] = c /\ Body(r) = b
         /\ SumOf(r) = c + SumOf(b) + k
<1> DEFINE h == << c >> \o b
           r == h \o << k >>
<1>1. << c >> \in Seq(Int) /\ Len(<< c >>) = 1 /\ << k >> \in Seq(Int) /\ Len(<< k >>) = 1 /\ Len(b) \in Nat
  BY LenProperties
<1>2. /\ h \in Seq(Int) /\ Len(h) = Len(b) + 1 /\ h[1] = c
      /\ \A i \in 1 .. Len(b) : h[1 + i] = b[i]
  <2>1. /\ << c >> \o b \in Seq(Int) /\ Len(<< c >> \o b) = Len(<< c >>) + Len(b)
        /\ \A i \in 1 .. Len(<< c >>) : (<< c >> \o b)[i] = << c >>[i]
        /\ \A i \in 1 .. Len(b) : (<< c >> \o b)[Len(<< c >>) + i] = b[i]
    BY <1>1, ConcatAt
  <2> QED BY <1>1, <2>1
<1>3. /\ r \in Seq(Int) /\ Len(r) = Len(h) + 1 /\ \A i \in 1 .. Len(h) : r[i] = h[i]
  <2> HIDE DEF h
  <2>1. /\ h \o << k >> \in Seq(Int) /\ Len(h \o << k >>) = Len(h) + Len(<< k >>)
        /\ \A i \in 1 .. Len(h) : (h \o << k >>)[i] = h[i]
    BY <1>1, <1>2, ConcatAt
  <2> QED BY <1>1, <2>1
<1>4. SumOf(r) = c + SumOf(b) + k
  <2>1. SumOf(<< c >>) = c /\ SumOf(<< k >>) = k
    BY SumOfOne
  <2>2. SumOf(h) = SumOf(<< c >>) + SumOf(b)
    BY <1>1, SumOfConcat
  <2>3. SumOf(h \o << k >>) = SumOf(h) + SumOf(<< k >>)
    <3> HIDE DEF h
    <3> QED BY <1>1, <1>2, SumOfConcat
  <2> HIDE DEF h
  <2> QED BY <2>1, <2>2, <2>3
<1> HIDE DEF h, r
<1>5. Len(r) = Len(b) + 2 /\ r[1] = c
  BY <1>1, <1>2, <1>3
<1>6. Body(r) = b
  <2> DEFINE m == SubSeq(r, 2, Len(r) - 1)
  <2>1. Len(r) - 1 = Len(b) + 1 /\ Len(b) + 1 \in Int
    BY <1>1, <1>5
  <2>2. /\ m \in Seq(Int) /\ Len(m) = Len(b)
        /\ \A i \in 1 .. Len(b) : m[i] = r[1 + i]
    <3>1. /\ SubSeq(r, 1 + 1, 1 + Len(b)) \in Seq(Int) /\ Len(SubSeq(r, 1 + 1, 1 + Len(b))) = Len(b)
          /\ \A i \in 1 .. Len(b) : SubSeq(r, 1 + 1, 1 + Len(b))[i] = r[1 + i]
      <4>1. 1 + Len(b) <= Len(r)
        BY <1>1, <1>5
      <4> QED BY <1>1, <1>3, <4>1, SubSeqAt
    <3>2. m = SubSeq(r, 1 + 1, 1 + Len(b))
      BY <2>1
    <3> QED BY <3>1, <3>2
  <2> HIDE DEF m
  <2>3. ASSUME NEW i \in 1 .. Len(b) PROVE m[i] = b[i]
    <3>1. 1 + i \in 1 .. Len(h)
      BY <1>1, <1>2
    <3>2. m[i] = r[1 + i] /\ h[1 + i] = b[i]
      BY <1>2, <2>2
    <3> QED BY <1>3, <3>1, <3>2
  <2>4. m = b
    BY <2>2, <2>3, SeqEqual
  <2> QED BY <2>4 DEF m, Body
<1>7. r = << c >> \o b \o << k >>
  BY DEF r, h
<1> QED BY <1>3, <1>4, <1>5, <1>6, <1>7

\* The sum of a record whose last byte complements the rest.
LEMMA Complemented ==
  ASSUME NEW s \in Int
  PROVE  /\ s % Byte \in 0 .. Byte - 1 /\ (s + (Byte - 1 - (s % Byte))) % Byte = Byte - 1
         /\ (-s) % Byte \in 0 .. Byte - 1 /\ (s + ((-s) % Byte)) % Byte = 0
<1>1. Byte \in Nat \ {0}
  BY Widths
<1>2. \A v \in Int : v % Byte \in 0 .. Byte - 1 /\ v \div Byte \in Int /\ v = Byte * (v \div Byte) + (v % Byte)
  BY <1>1, SMT
<1>3. \A q \in Int, r \in 0 .. Byte - 1 : (Byte * q + r) % Byte = r
  BY <1>1, SMT
<1>4. (s + (Byte - 1 - (s % Byte))) % Byte = Byte - 1
  <2> DEFINE q == s \div Byte
             r == s % Byte
  <2>1. q \in Int /\ r \in 0 .. Byte - 1 /\ s = Byte * q + r
    BY <1>2
  <2> HIDE DEF q, r
  <2>2. s + (Byte - 1 - r) = Byte * q + (Byte - 1)
    <3>1. Byte * q \in Int
      BY <1>1, <2>1
    <3> QED BY <1>1, <2>1, <3>1
  <2>3. Byte - 1 \in 0 .. Byte - 1
    BY <1>1
  <2>4. (s + (Byte - 1 - r)) % Byte = Byte - 1
    BY <1>3, <2>1, <2>2, <2>3
  <2> QED BY <2>4 DEF r
<1>5. (s + ((-s) % Byte)) % Byte = 0
  <2> DEFINE q == (-s) \div Byte
             r == (-s) % Byte
  <2>1. -s \in Int
    OBVIOUS
  <2>2. q \in Int /\ r \in 0 .. Byte - 1 /\ -s = Byte * q + r
    BY <1>2, <2>1
  <2> HIDE DEF q, r
  <2>3. s + r = Byte * (-q) + 0 /\ -q \in Int
    <3>1. Byte * q \in Int /\ Byte * (-q) = -(Byte * q)
      BY <1>1, <2>2
    <3> QED BY <1>1, <2>2, <3>1
  <2>4. 0 \in 0 .. Byte - 1
    BY <1>1
  <2>5. (s + r) % Byte = 0
    BY <1>3, <2>3, <2>4
  <2> QED BY <2>5 DEF r
<1>6. s % Byte \in 0 .. Byte - 1 /\ (-s) % Byte \in 0 .. Byte - 1
  BY <1>2
<1> QED BY <1>4, <1>5, <1>6

\* What a reader finds in a line of SREC, and that it accepts it.
LEMMA SrecRecord ==
  ASSUME NEW type \in {"S0", "S3", "S7"}, NEW a \in 0 .. Word - 1, NEW d \in Seq(Bytes)
  PROVE  LET r == srecLine(type, a, d)
             b == Body(r.bytes)
         IN  /\ r \in Record /\ r.type = type /\ Uint32(b) = a /\ SubSeq(b, 5, Len(b)) = d
             /\ Len(d) + 5 < Byte => SrecGood(r)
<1> DEFINE body == PutUint32(a) \o d
           s == SrecSum(body)
           k == Byte - 1 - (s % Byte)
           c == CountByte(Len(body) + 1)
           bs == << c >> \o body \o << k >>
           r == srecLine(type, a, d)
<1>1. /\ PutUint32(a) \in Seq(Bytes) /\ Len(PutUint32(a)) = 4 /\ Uint32(body) = a
  BY Decode32
<1>2. /\ body \in Seq(Bytes) /\ Len(d) \in Nat /\ Len(body) = 4 + Len(d)
      /\ SubSeq(body, 5, Len(body)) = d
  <2>1. Len(d) \in Nat /\ body \in Seq(Bytes) /\ Len(body) = Len(PutUint32(a)) + Len(d)
    BY <1>1, ConcatAt
  <2>2. SubSeq(body, Len(PutUint32(a)) + 1, Len(body)) = d
    BY <1>1, TailOf
  <2> HIDE DEF body
  <2> QED BY <1>1, <2>1, <2>2
<1>3. r.type = type /\ r.bytes = bs /\ r = [type |-> type, bytes |-> bs]
  BY DEF srecLine
<1> HIDE DEF body, r
<1>4. body \in Seq(Int) /\ SumOf(body) \in Int /\ Len(body) \in Nat
  <2>1. body \in Seq(Int)
    BY <1>2, BytesAreNumbers
  <2> QED BY <1>2, <2>1, SumsExist, SumOfIs
<1>5. s \in Int /\ k \in Int /\ c \in Int /\ s = Len(body) + 1 + SumOf(body) /\ c = (Len(body) + 1) % Byte
  <2>1. s = Len(body) + 1 + SumOf(body) /\ c = (Len(body) + 1) % Byte
    BY DEF SrecSum, CountByte
  <2>2. s \in Int /\ Len(body) + 1 \in Int
    BY <1>4, <2>1
  <2> HIDE DEF s, c
  <2>3. s % Byte \in 0 .. Byte - 1 /\ c \in 0 .. Byte - 1
    BY <2>1, <2>2, Complemented
  <2> QED BY <2>1, <2>2, <2>3, Widths
<1>6. /\ bs \in Seq(Int) /\ Len(bs) = Len(body) + 2 /\ bs[1] = c /\ Body(bs) = body
      /\ SumOf(bs) = c + SumOf(body) + k
  <2> HIDE DEF s, k, c
  <2> QED BY <1>4, <1>5, Framed
<1>7. ASSUME Len(d) + 5 < Byte PROVE SrecGood(r)
  <2>1. c = Len(body) + 1
    <3>1. Len(body) + 1 \in 0 .. Byte - 1 /\ Byte \in Nat \ {0}
      BY <1>2, <1>7, Widths
    <3>2. (Len(body) + 1) % Byte = Len(body) + 1
      BY <3>1, SmallMod
    <3> QED BY <1>5, <3>2
  <2>2. (s + k) % Byte = Byte - 1
    BY <1>5, Complemented
  <2> HIDE DEF s, k, c, bs
  <2>3. SumOf(bs) = s + k
    BY <1>4, <1>5, <1>6, <2>1
  <2> QED BY <1>3, <1>4, <1>6, <2>1, <2>2, <2>3 DEF SrecGood
<1> HIDE DEF s, k, c, bs
<1>8. Uint32(Body(r.bytes)) = a /\ SubSeq(Body(r.bytes), 5, Len(Body(r.bytes))) = d
  BY <1>1, <1>2, <1>3, <1>6
<1>9. r \in Record
  BY <1>3, <1>6 DEF Record
<1> QED BY <1>3, <1>7, <1>8, <1>9 DEF r

\* The same for a record of IHEX.
LEMMA IhexRecord ==
  ASSUME NEW a \in Nat, NEW type \in Int, NEW d \in Seq(Bytes)
  PROVE  LET r == ihexRecord(a, type, d)
             b == Body(r.bytes)
         IN  /\ r \in Record /\ Uint16(b) = a % Half /\ b[3] = type /\ SubSeq(b, 4, Len(b)) = d
             /\ Len(d) < Byte => IhexGood(r)
<1> DEFINE P == PutUint16(a % Half)
           h == P \o << type >>
           body == h \o d
           s == Len(d) + SumOf(body)
           k == (-s) % Byte
           c == CountByte(Len(d))
           bs == << c >> \o body \o << k >>
           r == ihexRecord(a, type, d)
<1>1. a % Half \in 0 .. Half - 1
  BY Widths
<1>2. /\ P \in Seq(Bytes) /\ Len(P) = 2
      /\ \A x : x[1] = P[1] /\ x[2] = P[2] => Uint16(x) = a % Half
  BY <1>1, Decode16
<1>3. /\ P \in Seq(Int) /\ << type >> \in Seq(Int) /\ Len(<< type >>) = 1 /\ << type >>[1] = type
      /\ d \in Seq(Int) /\ Len(d) \in Nat
  BY <1>2, BytesAreNumbers
<1> HIDE DEF P
<1>4. /\ h \in Seq(Int) /\ Len(h) = 3 /\ h[1] = P[1] /\ h[2] = P[2] /\ h[3] = type
  <2>1. /\ h \in Seq(Int) /\ Len(h) = Len(P) + Len(<< type >>)
        /\ \A i \in 1 .. Len(P) : h[i] = P[i]
        /\ \A i \in 1 .. Len(<< type >>) : h[Len(P) + i] = << type >>[i]
    BY <1>3, ConcatAt
  <2> HIDE DEF h
  <2> QED BY <1>2, <1>3, <2>1
<1> HIDE DEF h
<1>5. /\ body \in Seq(Int) /\ Len(body) = 3 + Len(d) /\ SubSeq(body, 4, Len(body)) = d
      /\ body[1] = P[1] /\ body[2] = P[2] /\ body[3] = type
  <2>0. h \in Seq(Int) /\ d \in Seq(Int)
    BY <1>3, <1>4
  <2>1. /\ body \in Seq(Int) /\ Len(body) = Len(h) + Len(d)
        /\ \A i \in 1 .. Len(h) : body[i] = h[i]
    BY <2>0, ConcatAt
  <2>2. SubSeq(body, Len(h) + 1, Len(body)) = d
    BY <2>0, TailOf
  <2> HIDE DEF body
  <2> QED BY <1>4, <2>1, <2>2
<1>6. Uint16(body) = a % Half
  BY <1>2, <1>5
<1>7. r.bytes = bs /\ r = [type |-> ":", bytes |-> bs]
  BY DEF ihexRecord, h, P
<1> HIDE DEF body, r
<1>8. SumOf(body) \in Int /\ Len(body) \in Nat
  BY <1>3, <1>5, SumsExist, SumOfIs
<1>9. s \in Int /\ k \in Int /\ c \in Int /\ s = Len(d) + SumOf(body) /\ c = Len(d) % Byte
  <2>1. s = Len(d) + SumOf(body) /\ c = Len(d) % Byte
    BY DEF CountByte
  <2>2. s \in Int /\ Len(d) \in Int
    BY <1>3, <1>8, <2>1
  <2> HIDE DEF s, c
  <2>3. (-s) % Byte \in 0 .. Byte - 1 /\ c \in 0 .. Byte - 1
    BY <2>1, <2>2, Complemented
  <2> QED BY <2>1, <2>2, <2>3, Widths
<1>10. /\ bs \in Seq(Int) /\ Len(bs) = Len(body) + 2 /\ bs[1] = c /\ Body(bs) = body
       /\ SumOf(bs) = c + SumOf(body) + k
  <2> HIDE DEF s, k, c
  <2> QED BY <1>5, <1>9, Framed
<1>11. ASSUME Len(d) < Byte PROVE IhexGood(r)
  <2>1. c = Len(d)
    <3>1. Len(d) \in 0 .. Byte - 1
      BY <1>3, <1>11, Widths
    <3> QED BY <1>9, <3>1, Widths
  <2>2. (s + k) % Byte = 0
    BY <1>9, Complemented
  <2> HIDE DEF s, k, c, bs
  <2>3. SumOf(bs) = s + k
    BY <1>3, <1>8, <1>9, <1>10, <2>1
  <2>4. c = Len(bs) - 5
    BY <1>3, <1>5, <1>10, <2>1
  <2> QED BY <1>7, <1>10, <2>2, <2>3, <2>4 DEF IhexGood
<1> HIDE DEF s, k, c, bs
<1>12. Uint16(Body(r.bytes)) = a % Half /\ Body(r.bytes)[3] = type /\ SubSeq(Body(r.bytes), 4, Len(Body(r.bytes))) = d
  BY <1>5, <1>6, <1>7, <1>10
<1>13. r \in Record
  BY <1>7, <1>10 DEF Record
<1> QED BY <1>11, <1>12, <1>13 DEF r

-------------------------------------------------------------------------------
(* Firmware: what a reader loads *)

\* The first n bytes of the image are in memory, at their addresses, and nothing
\* else is.
Rebuilt(m, n) ==
  /\ DOMAIN m = base .. base + n - 1
  /\ \A x \in base .. base + n - 1 : m[x] = img[x - base + 1]

\* A piece of the image from its byte o on.
Piece(o) == SubSeq(img, o + 1, o + (IF o + PerLine > Len(img) THEN Len(img) - o ELSE PerLine))

LEMMA LoadedNext ==
  ASSUME NEW n \in Nat, NEW d \in Seq(Bytes), base \in Nat, Rebuilt(mem, n),
         base + n + Len(d) <= Word, \A i \in 1 .. Len(d) : d[i] = img[n + i]
  PROVE  Rebuilt(Loaded(base + n, d), n + Len(d))
<1> DEFINE a == base + n
           I(x) == {j \in DOMAIN d : (a + j - 1) % Word = x}
           m == Loaded(a, d)
<1>1. Len(d) \in Nat /\ DOMAIN d = 1 .. Len(d)
  BY LenProperties
<1>2. ASSUME NEW j \in 1 .. Len(d) PROVE (a + j - 1) % Word = a + j - 1
  <2>1. a + j - 1 \in 0 .. Word - 1 /\ Word \in Nat \ {0}
    BY <1>1, Widths
  <2> QED BY <2>1, SmallMod
<1>3. DOMAIN mem \cup {(a + i - 1) % Word : i \in DOMAIN d} = base .. base + (n + Len(d)) - 1
  <2>1. {(a + i - 1) % Word : i \in DOMAIN d} = a .. a + Len(d) - 1
    <3>1. \A i \in DOMAIN d : (a + i - 1) % Word \in a .. a + Len(d) - 1
      BY <1>1, <1>2
    <3>2. ASSUME NEW x \in a .. a + Len(d) - 1 PROVE \E i \in DOMAIN d : (a + i - 1) % Word = x
      <4>1. x - a + 1 \in 1 .. Len(d) /\ a + (x - a + 1) - 1 = x
        BY <1>1
      <4> QED BY <1>1, <1>2, <4>1
    <3> HIDE DEF a
    <3> QED BY <3>1, <3>2
  <2>2. DOMAIN mem = base .. a - 1
    BY DEF Rebuilt
  <2>3. base .. a - 1 \cup a .. a + Len(d) - 1 = base .. base + (n + Len(d)) - 1
    BY <1>1
  <2> QED BY <2>1, <2>2, <2>3
<1>4. /\ DOMAIN m = base .. base + (n + Len(d)) - 1
      /\ \A x \in base .. base + (n + Len(d)) - 1 :
           m[x] = IF I(x) = {} THEN mem[x] ELSE d[Max(I(x))]
  BY <1>3 DEF Loaded
<1>5. ASSUME NEW x \in base .. base + (n + Len(d)) - 1 PROVE m[x] = img[x - base + 1]
  <2>1. CASE x < a
    <3>1. I(x) = {}
      BY <1>1, <1>2, <2>1
    <3>2. x \in base .. base + n - 1
      BY <2>1
    <3> QED BY <1>4, <3>1, <3>2 DEF Rebuilt
  <2>2. CASE ~(x < a)
    <3> DEFINE j == x - a + 1
    <3>1. j \in 1 .. Len(d) /\ a + j - 1 = x /\ x - base + 1 = n + j
      BY <1>1, <2>2
    <3>2. \A i \in 1 .. Len(d) : a + i - 1 = x => i = j
      BY <1>1
    <3>3. I(x) = {j}
      <4> HIDE DEF j, a
      <4> QED BY <1>1, <1>2, <3>1, <3>2
    <3>4. Max({j}) = j
      <4> HIDE DEF j
      <4> QED BY <3>1 DEF Max
    <3> HIDE DEF j, a, m
    <3>5. m[x] = d[j]
      BY <1>4, <3>3, <3>4
    <3> QED BY <3>1, <3>5
  <2> QED BY <2>1, <2>2
<1> HIDE DEF m
<1>6. base + (n + Len(d)) - 1 = base + (n + Len(d)) - 1
  OBVIOUS
<1>7. Rebuilt(m, n + Len(d))
  BY <1>4, <1>5 DEF Rebuilt
<1> QED BY <1>7 DEF m

-------------------------------------------------------------------------------
(* Firmware: the inductive invariant *)

FwTypeOK ==
  /\ job \in Jobs /\ todo \subseteq Loads
  /\ img \in Seq(Bytes) /\ base \in Nat /\ off \in Nat /\ upper \in 0 .. Half - 1
  /\ recs \in Seq(Record) /\ pos \in Nat
  /\ phase \in {"open", "copy", "error", "header", "encode", "wrap", "read", "loaded", "rejected"}

\* The encoder starts on a flat image, the reader on all records.
FlowInv ==
  /\ phase /= "copy" => todo = {}
  /\ phase \in {"open", "copy", "error", "header", "wrap"} => recs = << >> /\ off = 0
  /\ phase \in {"open", "copy", "error", "header", "wrap", "encode"} =>
       pos = 1 /\ linear = 0 /\ mem = << >>
  /\ phase = "header" => job.format = "SREC"
  /\ phase = "encode" => job.format \in {"SREC", "IHEX"}
  /\ phase = "encode" /\ job.format = "SREC" => recs /= << >>
  /\ phase = "wrap" => job.format = "UImage"

\* The image spans the segments; those that have been copied are in place.
FlatInv ==
  phase \notin {"open", "error"} =>
    /\ \E i \in Loads : addr(job.segs[i]) = base
    /\ \E i \in Loads : LoadEnd(i) = base + Len(img)
    /\ \A i \in Loads : base <= addr(job.segs[i]) /\ LoadEnd(i) <= base + Len(img)
    /\ LoadsApart =>
         \A i \in Loads \ todo : \A k \in DOMAIN job.segs[i].data :
           img[addr(job.segs[i]) - base + k] = job.segs[i].data[k]
    /\ \A k \in DOMAIN img :
         (\A i \in Loads : base + k - 1 < addr(job.segs[i]) \/ base + k - 1 >= LoadEnd(i))
           => img[k] = job.pad

\* The p-th record, when n bytes are in the records in front of it and n2 behind
\* it, and the upper half that they have announced is h and then h2.
SrecRow(r, p, n, n2, h, h2) ==
  /\ h2 = h
  /\ IF p = 1 THEN r = srecLine("S0", 0, job.name) /\ n2 = n
     ELSE /\ n < Len(img) /\ n2 = n + PerLine
          /\ r = srecLine("S3", (base + n) % Word, Piece(n))

IhexRow(r, n, n2, h, h2) ==
  \/ r = ihexRecord(0, 4, PutUint16(h2)) /\ n2 = n
  \/ /\ n < Len(img) /\ n2 = n + PerLine /\ h2 = h
     /\ h = ((base + n) % Word) \div Half
     /\ r = ihexRecord((base + n) % Word, 0, Piece(n))

Row(r, p, n, n2, h, h2) ==
  IF job.format = "SREC" THEN SrecRow(r, p, n, n2, h, h2) ELSE IhexRow(r, n, n2, h, h2)

\* What the records rs say: o and u are those numbers in front of each of them.
Log(rs, o, u) ==
  /\ o \in [1 .. Len(rs) + 1 -> Nat] /\ u \in [1 .. Len(rs) + 1 -> 0 .. Half - 1]
  /\ o[1] = 0 /\ u[1] = FirstUpper
  /\ \A p \in 1 .. Len(rs) : Row(rs[p], p, o[p], o[p + 1], u[p], u[p + 1])

EndRecord ==
  IF job.format = "SREC" THEN srecLine("S7", job.entry, << >>) ELSE ihexRecord(0, 1, << >>)

\* The bytes of the image among the first n.
InImage(n) == IF n < Len(img) THEN n ELSE Len(img)

\* The reader has what the records in front of its position say.
ReaderAt(o, u) ==
  /\ phase = "read" => Rebuilt(mem, InImage(o[pos]))
  /\ phase = "loaded" => Rebuilt(mem, Len(img))
  /\ phase = "read" /\ job.format = "IHEX" =>
       linear = u[pos] \/ (pos = 1 /\ linear = 0 /\ base \div Half /= 0)

\* All of them say that n bytes are written and that h is announced.
Written(rs, n, h) == \E o, u : Log(rs, o, u) /\ o[Len(rs) + 1] = n /\ u[Len(rs) + 1] = h

ReadBack ==
  \E rs \in Seq(Record) : \E o, u :
    /\ recs = Append(rs, EndRecord) /\ Log(rs, o, u) /\ o[Len(rs) + 1] >= Len(img)
    /\ job.format = "SREC" => rs /= << >>
    /\ pos \in 1 .. Len(rs) + 2 /\ (phase = "read" => pos <= Len(rs) + 1)
    /\ LinesFit => phase /= "rejected"
    /\ LinesFit /\ NotAtSentinel /\ InWord => ReaderAt(o, u)

RecordInv ==
  job.format /= "UImage" =>
    /\ phase \in {"header", "encode"} => Written(recs, off, upper)
    /\ phase \in {"read", "loaded", "rejected"} => ReadBack

UImageInv ==
  job.format = "UImage" =>
    /\ phase = "read" =>
         /\ header.hcrc = Crc([header EXCEPT !.hcrc = << >>])
         /\ header.dcrc = Crc(img) /\ header.size = Len(img) % Word /\ header.load = base % Word
    /\ phase = "read" => mem = << >>
    /\ phase = "rejected" => Len(img) >= Word
    /\ phase = "loaded" /\ InWord => Rebuilt(mem, Len(img))

FwInv == FwTypeOK /\ FlowInv /\ FlatInv /\ RecordInv /\ UImageInv

\* Segments, their addresses and their contents.
LEMMA JobShape ==
  ASSUME job \in Jobs
  PROVE  /\ job.segs \in Seq(Segment) /\ job.pad \in Bytes /\ job.name \in Seq(Bytes)
         /\ job.entry \in 0 .. Word - 1 /\ PerLine \in Nat \ {0}
         /\ job.format \in {"SREC", "IHEX", "UImage"}
         /\ DOMAIN job.segs = 1 .. Len(job.segs) /\ Len(job.segs) \in Nat
         /\ \A i \in DOMAIN job.segs :
              /\ job.segs[i].data \in Seq(Bytes) /\ addr(job.segs[i]) \in Nat
              /\ Len(job.segs[i].data) \in Nat /\ DOMAIN job.segs[i].data = 1 .. Len(job.segs[i].data)
              /\ LoadEnd(i) = addr(job.segs[i]) + Len(job.segs[i].data)
<1>1. job \in Job /\ job.entry < Word
  BY JobsAssumption
<1>2. /\ job.segs \in Seq(Segment) /\ job.pad \in Bytes /\ job.name \in Seq(Bytes)
      /\ job.entry \in Nat /\ job.perLine \in Int /\ job.useVaddr \in BOOLEAN
      /\ job.format \in {"SREC", "IHEX", "UImage"}
  BY <1>1 DEF Job
<1>3. PerLine \in Nat \ {0}
  BY <1>2 DEF PerLine
<1>4. DOMAIN job.segs = 1 .. Len(job.segs) /\ Len(job.segs) \in Nat
  BY <1>2, LenProperties
<1>5. ASSUME NEW i \in DOMAIN job.segs
      PROVE  /\ job.segs[i].data \in Seq(Bytes) /\ addr(job.segs[i]) \in Nat
             /\ Len(job.segs[i].data) \in Nat /\ DOMAIN job.segs[i].data = 1 .. Len(job.segs[i].data)
             /\ LoadEnd(i) = addr(job.segs[i]) + Len(job.segs[i].data)
  <2>1. job.segs[i] \in Segment
    BY <1>2, <1>4, ElementOfSeq
  <2>2. job.segs[i].data \in Seq(Bytes) /\ addr(job.segs[i]) \in Nat
    BY <2>1 DEF Segment, addr
  <2>3. LoadEnd(i) = addr(job.segs[i]) + Len(job.segs[i].data)
    BY DEF LoadEnd, Size
  <2> QED BY <2>2, <2>3, LenProperties
<1> QED BY <1>1, <1>2, <1>3, <1>4, <1>5, Widths

\* The first address and the last one of some segments.
Start == Min({addr(job.segs[i]) : i \in Loads})
End   == Max({LoadEnd(i) : i \in Loads})

LEMMA FlatBounds ==
  ASSUME job \in Jobs, Loads /= {}
  PROVE  /\ Start \in Nat /\ End \in Nat /\ Start < End
         /\ \E i \in Loads : addr(job.segs[i]) = Start
         /\ \E i \in Loads : LoadEnd(i) = End
         /\ \A i \in Loads : Start <= addr(job.segs[i]) /\ LoadEnd(i) <= End
<1> DEFINE Firsts == {addr(job.segs[i]) : i \in Loads}
           Lasts == {LoadEnd(i) : i \in Loads}
<1>1. Loads \subseteq DOMAIN job.segs /\ \A i \in Loads : Len(job.segs[i].data) > 0
  BY DEF Loads, Size
<1>2. /\ DOMAIN job.segs = 1 .. Len(job.segs) /\ Len(job.segs) \in Nat
      /\ \A i \in DOMAIN job.segs :
           /\ addr(job.segs[i]) \in Nat /\ Len(job.segs[i].data) \in Nat
           /\ LoadEnd(i) = addr(job.segs[i]) + Len(job.segs[i].data)
  BY JobShape
<1>3. Firsts \in SUBSET Nat /\ Firsts /= {} /\ Lasts \in SUBSET Nat /\ Lasts /= {}
  BY <1>1, <1>2
<1>4. Min(Firsts) \in Firsts /\ \A x \in Firsts : Min(Firsts) <= x
  <2>1. \E x \in Firsts : \A y \in Firsts : x <= y
    BY <1>3, LeastExists
  <2> HIDE DEF Firsts
  <2> QED BY <2>1 DEF Min
<1>5. Max(Lasts) \in Lasts /\ \A x \in Lasts : x <= Max(Lasts)
  <2> DEFINE f == [i \in 1 .. Len(job.segs) |-> LoadEnd(i)]
  <2>1. \A i \in 1 .. Len(job.segs) : f[i] \in Nat
    BY <1>2
  <2>2. \E b \in Nat : \A i \in 1 .. Len(job.segs) : f[i] <= b
    <3> HIDE DEF f
    <3> QED BY <1>2, <2>1, BoundExists
  <2>3. PICK b \in Nat : \A i \in 1 .. Len(job.segs) : LoadEnd(i) <= b
    BY <2>2
  <2>4. \A x \in Lasts : x <= b
    BY <1>1, <1>2, <2>3
  <2>5. \E x \in Lasts : \A y \in Lasts : y <= x
    <3> HIDE DEF Lasts
    <3> QED BY <1>3, <2>4, GreatestExists
  <2> HIDE DEF Lasts
  <2> QED BY <2>5 DEF Max
<1>6. PICK j \in Loads : addr(job.segs[j]) = Min(Firsts)
  BY <1>4
<1>7. LoadEnd(j) <= Max(Lasts) /\ LoadEnd(j) > Min(Firsts)
  <2>1. LoadEnd(j) \in Lasts
    OBVIOUS
  <2>2. LoadEnd(j) = Min(Firsts) + Len(job.segs[j].data) /\ Len(job.segs[j].data) > 0
    BY <1>1, <1>2, <1>6
  <2>3. Min(Firsts) \in Nat /\ Len(job.segs[j].data) \in Nat
    BY <1>1, <1>2, <1>6
  <2> HIDE DEF Firsts, Lasts
  <2> QED BY <1>5, <2>1, <2>2, <2>3
<1>8. /\ \E i \in Loads : LoadEnd(i) = Max(Lasts)
      /\ \A i \in Loads : Min(Firsts) <= addr(job.segs[i]) /\ LoadEnd(i) <= Max(Lasts)
  BY <1>4, <1>5
<1>9. Min(Firsts) \in Nat /\ Max(Lasts) \in Nat
  BY <1>3, <1>4, <1>5
<1> HIDE DEF Firsts, Lasts
<1>10. Min(Firsts) < Max(Lasts)
  <2>1. LoadEnd(j) \in Nat
    BY <1>1, <1>2
  <2> QED BY <1>7, <1>9, <2>1
<1>11. /\ Min(Firsts) \in Nat /\ Max(Lasts) \in Nat /\ Min(Firsts) < Max(Lasts)
       /\ \E i \in Loads : addr(job.segs[i]) = Min(Firsts)
       /\ \E i \in Loads : LoadEnd(i) = Max(Lasts)
       /\ \A i \in Loads : Min(Firsts) <= addr(job.segs[i]) /\ LoadEnd(i) <= Max(Lasts)
  BY <1>6, <1>8, <1>9, <1>10
<1> QED BY <1>11 DEF Firsts, Lasts, Start, End

-------------------------------------------------------------------------------
(* Firmware: Flatten *)

LEMMA OpenStep ==
  ASSUME FwInv, Open
  PROVE  FwInv'
<1>1. /\ phase = "open" /\ job \in Jobs /\ todo = {} /\ img \in Seq(Bytes) /\ base \in Nat
      /\ off = 0 /\ recs = << >> /\ pos = 1 /\ linear = 0 /\ mem = << >>
  BY DEF FwInv, FwTypeOK, FlowInv, Open
<1>2. UNCHANGED <<job, off, upper, recs, header, pos, linear, mem>> /\ Loads' = Loads
  BY DEF Open, Loads, Size
<1>3. CASE Loads = {}
  <2>1. phase' = "error" /\ UNCHANGED <<todo, img, base>>
    BY <1>3 DEF Open
  <2> QED BY <1>1, <1>2, <2>1
          DEF FwInv, FwTypeOK, FlowInv, FlatInv, RecordInv, UImageInv
<1>4. CASE Loads /= {}
  <2>1. base' = Start /\ img' = Blank(End - Start) /\ todo' = Loads /\ phase' = "copy"
    BY <1>4 DEF Open, Start, End
  <2>2. /\ Start \in Nat /\ End \in Nat /\ Start < End
        /\ \E i \in Loads : addr(job.segs[i]) = Start
        /\ \E i \in Loads : LoadEnd(i) = End
        /\ \A i \in Loads : Start <= addr(job.segs[i]) /\ LoadEnd(i) <= End
    BY <1>1, <1>4, FlatBounds
  <2>3. End - Start \in Nat /\ job.pad \in Bytes
    BY <1>1, <2>2, JobShape
  <2>4. img' \in Seq(Bytes) /\ Len(img') = End - Start /\ \A k \in DOMAIN img' : img'[k] = job.pad
    <3> DEFINE n == End - Start
    <3>1. img' = [i \in 1 .. n |-> job.pad] /\ n \in Nat
      BY <2>1, <2>3 DEF Blank
    <3> HIDE DEF n
    <3>2. [i \in 1 .. n |-> job.pad] \in Seq(Bytes) /\ Len([i \in 1 .. n |-> job.pad]) = n
      BY <2>3, <3>1
    <3> QED BY <3>1, <3>2 DEF n
  <2>5. FwTypeOK'
    BY <1>1, <1>2, <2>1, <2>2, <2>4 DEF FwInv, FwTypeOK
  <2>6. FlowInv'
    BY <1>1, <1>2, <2>1 DEF FlowInv
  <2>7. FlatInv'
    <3>1. \A p : addr(p)' = addr(p)
      BY <1>2 DEF addr
    <3>2. job' = job /\ Loads' = Loads /\ (\A i : LoadEnd(i)' = LoadEnd(i)) /\ job'.segs = job.segs
      BY <1>2, <3>1 DEF LoadEnd, Size
    <3>3. base' + Len(img') = End /\ Loads' \ todo' = {}
      BY <2>1, <2>2, <2>4, <3>2
    <3> QED BY <2>1, <2>2, <2>4, <3>1, <3>2, <3>3 DEF FlatInv
  <2> QED BY <2>1, <2>5, <2>6, <2>7 DEF FwInv, RecordInv, UImageInv
<1> QED BY <1>3, <1>4

\* The bytes of one segment go to their place, and no other segment's do.
LEMMA CopyStep ==
  ASSUME FwInv, NEW i \in todo, CopySegment(i)
  PROVE  FwInv'
<1> DEFINE s == job.segs[i]
           shift == addr(s) - base
<1>1. /\ phase = "copy" /\ job \in Jobs /\ todo \subseteq Loads /\ img \in Seq(Bytes) /\ base \in Nat
      /\ off = 0 /\ recs = << >> /\ pos = 1 /\ linear = 0 /\ mem = << >> /\ i \in Loads
  BY DEF FwInv, FwTypeOK, FlowInv, CopySegment
<1>2. /\ UNCHANGED <<job, base, off, upper, recs, header, pos, linear, mem, phase>>
      /\ todo' = todo \ {i}
      /\ img' = [k \in DOMAIN img |-> IF k - shift \in DOMAIN s.data THEN s.data[k - shift] ELSE img[k]]
  BY DEF CopySegment
<1>3. /\ DOMAIN job.segs = 1 .. Len(job.segs)
      /\ \A j \in DOMAIN job.segs :
           /\ job.segs[j].data \in Seq(Bytes) /\ addr(job.segs[j]) \in Nat
           /\ Len(job.segs[j].data) \in Nat /\ DOMAIN job.segs[j].data = 1 .. Len(job.segs[j].data)
           /\ LoadEnd(j) = addr(job.segs[j]) + Len(job.segs[j].data)
  BY <1>1, JobShape
<1>4. Loads \subseteq DOMAIN job.segs
  BY DEF Loads
<1>5. /\ \A p : addr(p)' = addr(p)
      /\ job' = job /\ Loads' = Loads /\ \A j : LoadEnd(j)' = LoadEnd(j)
  BY <1>2 DEF addr, Loads, LoadEnd, Size
<1>6. FlatInv /\ phase \notin {"open", "error"}
  BY <1>1 DEF FwInv
<1>7. /\ DOMAIN img = 1 .. Len(img) /\ Len(img) \in Nat /\ \A k \in DOMAIN img : img[k] \in Bytes
  BY <1>1, LenProperties, ElementOfSeq
<1>8. /\ img' \in Seq(Bytes) /\ Len(img') = Len(img) /\ DOMAIN img' = DOMAIN img
  <2>1. \A k \in DOMAIN img : k - shift \in DOMAIN s.data => s.data[k - shift] \in Bytes
    BY <1>1, <1>3, <1>4, ElementOfSeq
  <2>2. \A k \in DOMAIN img : img'[k] \in Bytes
    BY <1>2, <1>7, <2>1
  <2>3. DOMAIN img' = 1 .. Len(img) /\ img' = [k \in 1 .. Len(img) |-> img'[k]]
    BY <1>2, <1>7
  <2> QED BY <1>7, <2>2, <2>3
<1>9. LoadsApart' = LoadsApart
  BY <1>5 DEF LoadsApart
<1>10. base <= addr(s) /\ LoadEnd(i) <= base + Len(img)
  BY <1>1, <1>6 DEF FlatInv
<1>11. ASSUME LoadsApart, NEW j \in Loads \ todo', NEW k \in DOMAIN job.segs[j].data
       PROVE  img'[addr(job.segs[j]) - base + k] = job.segs[j].data[k]
  <2> DEFINE m == addr(job.segs[j]) - base + k
  <2>1. /\ j \in DOMAIN job.segs /\ i \in DOMAIN job.segs /\ k \in 1 .. Len(job.segs[j].data)
        /\ base <= addr(job.segs[j]) /\ LoadEnd(j) <= base + Len(img)
    BY <1>1, <1>3, <1>4, <1>6 DEF FlatInv
  <2>2. m \in DOMAIN img
    <3>1. addr(job.segs[j]) \in Nat /\ LoadEnd(j) = addr(job.segs[j]) + Len(job.segs[j].data)
      BY <1>3, <2>1
    <3>2. Len(job.segs[j].data) \in Nat
      BY <1>3, <2>1
    <3> QED BY <1>1, <1>7, <2>1, <3>1, <3>2
  <2>3. CASE j = i
    <3>1. m - shift = k
      BY <1>1, <1>3, <2>1, <2>3
    <3> HIDE DEF m, shift, s
    <3>2. s.data = job.segs[j].data
      BY <2>3 DEF s
    <3> QED BY <1>2, <2>2, <3>1, <3>2 DEF m
  <2>4. CASE j /= i
    <3>1. j \in Loads \ todo
      BY <1>2, <2>4
    <3>2. img[m] = job.segs[j].data[k]
      BY <1>6, <1>11, <3>1 DEF FlatInv
    <3>3. LoadEnd(i) <= addr(job.segs[j]) \/ LoadEnd(j) <= addr(s)
      BY <1>1, <1>11, <2>4 DEF LoadsApart
    <3>4. m - shift \notin DOMAIN s.data
      <4>1. m - shift = addr(job.segs[j]) + k - addr(s)
        BY <1>1, <1>3, <2>1
      <4>2. LoadEnd(i) = addr(s) + Len(s.data) /\ DOMAIN s.data = 1 .. Len(s.data)
        BY <1>3, <2>1
      <4> HIDE DEF m, shift
      <4>3. addr(job.segs[j]) \in Nat /\ addr(s) \in Nat /\ Len(s.data) \in Nat /\ Len(job.segs[j].data) \in Nat
        BY <1>3, <2>1
      <4>4. LoadEnd(j) = addr(job.segs[j]) + Len(job.segs[j].data)
        BY <1>3, <2>1
      <4> HIDE DEF s
      <4>5. CASE LoadEnd(i) <= addr(job.segs[j])
        <5>1. m - shift > Len(s.data)
          BY <2>1, <4>1, <4>2, <4>3, <4>5
        <5> QED BY <4>2, <4>3, <5>1
      <4>6. CASE LoadEnd(j) <= addr(s)
        <5>1. m - shift <= 0
          BY <2>1, <4>1, <4>3, <4>4, <4>6
        <5> QED BY <4>2, <5>1
      <4> QED BY <3>3, <4>5, <4>6
    <3> HIDE DEF m, shift, s
    <3>5. img'[m] = img[m]
      BY <1>2, <2>2, <3>4
    <3> QED BY <3>2, <3>5 DEF m
  <2> QED BY <2>3, <2>4
<1>12. ASSUME NEW k \in DOMAIN img,
              \A j \in Loads : base + k - 1 < addr(job.segs[j]) \/ base + k - 1 >= LoadEnd(j)
       PROVE  img'[k] = job.pad
  <2>1. img[k] = job.pad
    BY <1>6, <1>12 DEF FlatInv
  <2>2. k - shift \notin DOMAIN s.data
    <3>1. base + k - 1 < addr(s) \/ base + k - 1 >= LoadEnd(i)
      BY <1>1, <1>12
    <3>2. LoadEnd(i) = addr(s) + Len(s.data) /\ DOMAIN s.data = 1 .. Len(s.data) /\ addr(s) \in Nat /\ Len(s.data) \in Nat
      BY <1>1, <1>3, <1>4
    <3> HIDE DEF s
    <3> QED BY <1>1, <1>7, <3>1, <3>2
  <2> HIDE DEF shift, s
  <2> QED BY <1>2, <2>1, <2>2
<1>13. FlatInv'
  <2>1. /\ \E j \in Loads : addr(job.segs[j]) = base
        /\ \E j \in Loads : LoadEnd(j) = base + Len(img)
        /\ \A j \in Loads : base <= addr(job.segs[j]) /\ LoadEnd(j) <= base + Len(img)
    BY <1>6 DEF FlatInv
  <2> HIDE DEF s, shift
  <2>2. base' = base /\ Len(img') = Len(img) /\ DOMAIN img' = DOMAIN img /\ job' = job
    BY <1>2, <1>8
  <2> QED BY <1>5, <1>9, <1>11, <1>12, <2>1, <2>2 DEF FlatInv
<1>14. FwTypeOK'
  BY <1>1, <1>2, <1>5, <1>8 DEF FwInv, FwTypeOK
<1>15. FlowInv' /\ RecordInv' /\ UImageInv'
  BY <1>1, <1>2 DEF FlowInv, RecordInv, UImageInv
<1> QED BY <1>13, <1>14, <1>15 DEF FwInv

-------------------------------------------------------------------------------
(* Firmware: the encoders *)

\* Steps that leave the image alone leave what is known of it alone.
LEMMA FlatKept ==
  ASSUME FwInv, UNCHANGED <<job, img, base, todo>>, phase \notin {"open", "error"}
  PROVE  FlatInv'
<1>1. /\ \A p : addr(p)' = addr(p)
      /\ job' = job /\ Loads' = Loads /\ \A j : LoadEnd(j)' = LoadEnd(j)
  BY DEF addr, Loads, LoadEnd, Size
<1>2. LoadsApart' = LoadsApart
  BY <1>1 DEF LoadsApart
<1> QED BY <1>1, <1>2 DEF FwInv, FlatInv

LEMMA LogKept ==
  ASSUME UNCHANGED <<job, img, base>>, NEW rs, NEW o, NEW u
  PROVE  Log(rs, o, u)' = Log(rs, o, u)
<1>1. PerLine' = PerLine /\ FirstUpper' = FirstUpper
  BY DEF PerLine, FirstUpper
<1>2. \A n : Piece(n)' = Piece(n)
  BY <1>1 DEF Piece
<1>3. \A r, p, n, n2, h, h2 : Row(r, p, n, n2, h, h2)' = Row(r, p, n, n2, h, h2)
  BY <1>1, <1>2 DEF Row, SrecRow, IhexRow
<1> QED BY <1>1, <1>3 DEF Log

\* What was written stays; the new record says where the next one goes on.
LEMMA WrittenGrows ==
  ASSUME NEW rs \in Seq(Record), NEW n1, NEW h1, Written(rs, n1, h1), NEW r \in Record,
         NEW n2 \in Nat, NEW h2 \in 0 .. Half - 1, Row(r, Len(rs) + 1, n1, n2, h1, h2)
  PROVE  Written(Append(rs, r), n2, h2)
<1>0. PICK o, u : Log(rs, o, u) /\ o[Len(rs) + 1] = n1 /\ u[Len(rs) + 1] = h1
  BY DEF Written
<1> DEFINE n  == Len(rs)
           o2 == [p \in 1 .. n + 2 |-> IF p = n + 2 THEN n2 ELSE o[p]]
           u2 == [p \in 1 .. n + 2 |-> IF p = n + 2 THEN h2 ELSE u[p]]
           rs2 == Append(rs, r)
<1>1. n \in Nat /\ rs2 \in Seq(Record) /\ Len(rs2) = n + 1 /\ rs2[n + 1] = r /\ \A p \in 1 .. n : rs2[p] = rs[p]
  BY LenProperties, AppendProperties
<1> HIDE DEF rs2
<1>2. o \in [1 .. n + 1 -> Nat] /\ u \in [1 .. n + 1 -> 0 .. Half - 1] /\ o[1] = 0 /\ u[1] = FirstUpper
  BY <1>0 DEF Log
<1>3. \A p \in 1 .. n : Row(rs[p], p, o[p], o[p + 1], u[p], u[p + 1])
  BY <1>0 DEF Log
<1>4. Row(r, n + 1, o[n + 1], n2, u[n + 1], h2)
  BY <1>0
<1> HIDE DEF n
<1>5. \A p \in 1 .. n + 2 : p /= n + 2 => p \in 1 .. n + 1
  BY <1>1
<1>6. o2 \in [1 .. n + 2 -> Nat] /\ u2 \in [1 .. n + 2 -> 0 .. Half - 1]
  BY <1>2, <1>5
<1>7. o2[1] = 0 /\ u2[1] = FirstUpper /\ o2[n + 2] = n2 /\ u2[n + 2] = h2
  BY <1>1, <1>2
<1>8. ASSUME NEW p \in 1 .. n + 1 PROVE Row(rs2[p], p, o2[p], o2[p + 1], u2[p], u2[p + 1])
  <2>1. o2[p] = o[p] /\ u2[p] = u[p]
    BY <1>1
  <2>2. CASE p = n + 1
    <3>1. o2[p + 1] = n2 /\ u2[p + 1] = h2
      BY <1>1, <2>2
    <3> HIDE DEF o2, u2
    <3> QED BY <1>1, <1>4, <2>1, <2>2, <3>1
  <2>3. CASE p /= n + 1
    <3>1. p \in 1 .. n /\ o2[p + 1] = o[p + 1] /\ u2[p + 1] = u[p + 1]
      BY <1>1, <2>3
    <3> HIDE DEF o2, u2
    <3> QED BY <1>1, <1>3, <2>1, <3>1
  <2> QED BY <2>2, <2>3
<1> HIDE DEF o2, u2
<1>9. Log(rs2, o2, u2)
  <2>1. Len(rs2) + 1 = n + 2
    BY <1>1
  <2> QED BY <1>1, <1>6, <1>7, <1>8, <2>1 DEF Log
<1>10. Written(rs2, n2, h2)
  <2>1. Len(rs2) + 1 = n + 2
    BY <1>1
  <2> QED BY <1>7, <1>9, <2>1 DEF Written
<1> QED BY <1>10 DEF rs2

\* A piece of the image holds its bytes, and the next one starts behind it.
LEMMA PieceIs ==
  ASSUME NEW n \in Nat, img \in Seq(Bytes), PerLine \in Nat \ {0}, n < Len(img)
  PROVE  /\ Piece(n) \in Seq(Bytes) /\ Len(Piece(n)) \in 1 .. PerLine
         /\ n + Len(Piece(n)) = InImage(n + PerLine)
         /\ \A i \in 1 .. Len(Piece(n)) : Piece(n)[i] = img[n + i]
<1> DEFINE k == IF n + PerLine > Len(img) THEN Len(img) - n ELSE PerLine
<1>1. Len(img) \in Nat /\ k \in 1 .. PerLine /\ n + k <= Len(img) /\ n + k = InImage(n + PerLine)
  <2>1. Len(img) \in Nat
    BY LenProperties
  <2> QED BY <2>1 DEF InImage
<1>2. Piece(n) = SubSeq(img, n + 1, n + k)
  BY DEF Piece
<1> HIDE DEF k
<1>3. /\ Piece(n) \in Seq(Bytes) /\ Len(Piece(n)) = k
      /\ \A i \in 1 .. k : Piece(n)[i] = img[n + i]
  BY <1>1, <1>2, SubSeqAt
<1> QED BY <1>1, <1>3

LEMMA AddressIs ==
  ASSUME NEW n \in Nat, base \in Nat
  PROVE  (base + n) % Word \in 0 .. Word - 1 /\ ((base + n) % Word) \div Half \in 0 .. Half - 1
<1>1. (base + n) % Word \in 0 .. Word - 1
  BY Widths
<1>2. Half \in Nat \ {0} /\ (base + n) % Word \in Nat /\ (base + n) % Word < Half * Half
  BY <1>1, Widths
<1> QED BY <1>1, <1>2, TwoDigits

LEMMA FlattenedStep ==
  ASSUME FwInv, Flattened
  PROVE  FwInv'
<1>1. /\ phase = "copy" /\ todo = {} /\ job \in Jobs /\ off = 0 /\ recs = << >>
      /\ upper' = FirstUpper
      /\ phase' = IF job.format = "SREC" THEN "header" ELSE IF job.format = "IHEX" THEN "encode" ELSE "wrap"
      /\ UNCHANGED <<job, todo, img, base, off, recs, header, pos, linear, mem>>
  BY DEF FwInv, FwTypeOK, FlowInv, Flattened
<1>2. FlatInv'
  BY <1>1, FlatKept
<1>3. FirstUpper \in 0 .. Half - 1
  BY Widths DEF FirstUpper
<1>4. job.format \in {"SREC", "IHEX", "UImage"}
  BY <1>1, JobShape
<1>5. FwTypeOK'
  <2>1. Loads' = Loads
    BY <1>1 DEF Loads, Size
  <2> QED BY <1>1, <1>3, <2>1 DEF FwInv, FwTypeOK
<1>6. FlowInv'
  BY <1>1, <1>4 DEF FwInv, FlowInv
<1>7. Written(recs, off, upper)'
  <2>1. PICK o, u : /\ o \in [1 .. 1 -> Nat] /\ u \in [1 .. 1 -> 0 .. Half - 1]
                    /\ o[1] = 0 /\ u[1] = FirstUpper
    <3>1. /\ [p \in 1 .. 1 |-> 0] \in [1 .. 1 -> Nat] /\ [p \in 1 .. 1 |-> 0][1] = 0
          /\ [p \in 1 .. 1 |-> FirstUpper] \in [1 .. 1 -> 0 .. Half - 1]
          /\ [p \in 1 .. 1 |-> FirstUpper][1] = FirstUpper
      BY <1>3
    <3> QED BY <3>1
  <2>2. Len(recs) = 0 /\ Len(recs) + 1 = 1 /\ 1 .. Len(recs) = {}
    BY <1>1
  <2>3. Log(recs, o, u)
    BY <2>1, <2>2 DEF Log
  <2>4. Log(recs, o, u)' /\ o[Len(recs') + 1] = off' /\ u[Len(recs') + 1] = upper'
    <3>1. Log(recs, o, u)' = Log(recs, o, u)
      <4>1. \A rs : Log(rs, o, u)' = Log(rs, o, u)
        BY <1>1, LogKept
      <4> QED BY <1>1, <4>1
    <3> QED BY <1>1, <2>1, <2>2, <2>3, <3>1
  <2> QED BY <2>4 DEF Written
<1>8. RecordInv' /\ UImageInv'
  BY <1>1, <1>4, <1>7 DEF RecordInv, UImageInv
<1> QED BY <1>2, <1>5, <1>6, <1>8 DEF FwInv

\* What a step of an encoder has to show.
LEMMA EncodeStep ==
  ASSUME FwInv, phase \in {"header", "encode"}, phase' = "encode",
         UNCHANGED <<job, todo, img, base, header, pos, linear, mem>>,
         NEW rs \in Seq(Record), recs' = rs, rs /= << >>,
         off' \in Nat, upper' \in 0 .. Half - 1, Written(rs, off', upper')
  PROVE  FwInv'
<1>1. FlatInv'
  BY FlatKept
<1>2. /\ job \in Jobs /\ todo = {} /\ pos = 1 /\ linear = 0 /\ mem = << >>
      /\ job.format \in {"SREC", "IHEX"}
  BY DEF FwInv, FwTypeOK, FlowInv
<1>3. FwTypeOK'
  <2>1. Loads' = Loads
    BY DEF Loads, Size
  <2> QED BY <2>1 DEF FwInv, FwTypeOK
<1>4. FlowInv'
  BY <1>2 DEF FlowInv
<1>5. Written(recs, off, upper)'
  <2>1. PICK o, u : Log(rs, o, u) /\ o[Len(rs) + 1] = off' /\ u[Len(rs) + 1] = upper'
    BY DEF Written
  <2>2. Log(recs, o, u)'
    <3>1. Log(rs, o, u)'
      BY <2>1, LogKept
    <3> QED BY <3>1 DEF Log
  <2>3. (o[Len(recs) + 1] = off /\ u[Len(recs) + 1] = upper)'
    BY <2>1
  <2> QED BY <2>2, <2>3 DEF Written
<1>6. RecordInv' /\ UImageInv'
  BY <1>2, <1>5 DEF RecordInv, UImageInv
<1> QED BY <1>1, <1>3, <1>4, <1>6 DEF FwInv

LEMMA SrecHeaderStep ==
  ASSUME FwInv, SrecHeader
  PROVE  FwInv'
<1> DEFINE r == srecLine("S0", 0, job.name)
<1>1. /\ phase = "header" /\ phase' = "encode" /\ recs' = << r >>
      /\ UNCHANGED <<job, todo, img, base, off, upper, header, pos, linear, mem>>
  BY DEF SrecHeader
<1>2. /\ job \in Jobs /\ recs = << >> /\ recs \in Seq(Record) /\ off = 0 /\ upper \in 0 .. Half - 1
      /\ job.format = "SREC" /\ Written(recs, off, upper)
  BY <1>1 DEF FwInv, FwTypeOK, FlowInv, RecordInv
<1>3. r \in Record
  <2>1. 0 \in 0 .. Word - 1 /\ job.name \in Seq(Bytes)
    BY <1>2, JobShape, Widths
  <2> QED BY <2>1, SrecRecord
<1>4. Row(r, Len(recs) + 1, off, off, upper, upper)
  BY <1>2 DEF Row, SrecRow
<1> HIDE DEF r
<1>5. Written(Append(recs, r), off, upper)
  BY <1>2, <1>3, <1>4, WrittenGrows
<1>6. Append(recs, r) = << r >> /\ << r >> \in Seq(Record) /\ << r >> /= << >>
  BY <1>2, <1>3
<1> QED BY <1>1, <1>2, <1>5, <1>6, EncodeStep

LEMMA SrecDataStep ==
  ASSUME FwInv, SrecData
  PROVE  FwInv'
<1> DEFINE r == srecLine("S3", Address, Chunk)
<1>1. /\ phase = "encode" /\ phase' = "encode" /\ recs' = Append(recs, r)
      /\ job.format = "SREC" /\ off < Len(img) /\ off' = off + PerLine
      /\ UNCHANGED <<job, todo, img, base, upper, header, pos, linear, mem>>
  BY DEF SrecData
<1>2. /\ job \in Jobs /\ recs \in Seq(Record) /\ off \in Nat /\ upper \in 0 .. Half - 1
      /\ img \in Seq(Bytes) /\ base \in Nat /\ recs /= << >> /\ Written(recs, off, upper)
  BY <1>1 DEF FwInv, FwTypeOK, FlowInv, RecordInv
<1>3. PerLine \in Nat \ {0}
  BY <1>2, JobShape
<1>4. Piece(off) \in Seq(Bytes) /\ (base + off) % Word \in 0 .. Word - 1
  BY <1>1, <1>2, <1>3, PieceIs, AddressIs
<1>5. r = srecLine("S3", (base + off) % Word, Piece(off))
  BY DEF Address, Chunk, Piece
<1> HIDE DEF r
<1>6. r \in Record
  BY <1>4, <1>5, SrecRecord
<1>7. Len(recs) \in Nat \ {0}
  BY <1>2, EmptySeq
<1>8. Row(r, Len(recs) + 1, off, off + PerLine, upper, upper)
  BY <1>1, <1>5, <1>7 DEF Row, SrecRow
<1>9. off + PerLine \in Nat
  BY <1>2, <1>3
<1>10. Written(Append(recs, r), off + PerLine, upper)
  BY <1>2, <1>6, <1>8, <1>9, WrittenGrows
<1>11. Append(recs, r) \in Seq(Record) /\ Append(recs, r) /= << >>
  BY <1>2, <1>6
<1> QED BY <1>1, <1>2, <1>9, <1>10, <1>11, EncodeStep

LEMMA IhexDataStep ==
  ASSUME FwInv, IhexData
  PROVE  FwInv'
<1> DEFINE hi == Address \div Half
           ext == ihexRecord(0, 4, PutUint16(hi))
           r == ihexRecord(Address, 0, Chunk)
<1>1. /\ phase = "encode" /\ phase' = "encode"
      /\ recs' = recs \o (IF Announce(hi) THEN << ext >> ELSE << >>) \o << r >>
      /\ job.format = "IHEX" /\ off < Len(img) /\ off' = off + PerLine /\ upper' = hi
      /\ UNCHANGED <<job, todo, img, base, header, pos, linear, mem>>
  BY DEF IhexData
<1>2. /\ job \in Jobs /\ recs \in Seq(Record) /\ off \in Nat /\ upper \in 0 .. Half - 1
      /\ img \in Seq(Bytes) /\ base \in Nat /\ Written(recs, off, upper)
  BY <1>1 DEF FwInv, FwTypeOK, RecordInv
<1>3. PerLine \in Nat \ {0}
  BY <1>2, JobShape
<1>4. /\ Piece(off) \in Seq(Bytes) /\ (base + off) % Word \in 0 .. Word - 1
      /\ ((base + off) % Word) \div Half \in 0 .. Half - 1
  BY <1>1, <1>2, <1>3, PieceIs, AddressIs
<1>5. /\ hi = ((base + off) % Word) \div Half
      /\ r = ihexRecord((base + off) % Word, 0, Piece(off))
  BY DEF Address, Chunk, Piece
<1>6. hi \in 0 .. Half - 1 /\ PutUint16(hi) \in Seq(Bytes)
  BY <1>4, <1>5, Decode16
<1>7. Announce(hi) = (hi /= upper)
  BY DEF Announce
<1>8. ext = ihexRecord(0, 4, PutUint16(hi))
  OBVIOUS
<1> HIDE DEF r, hi, ext
<1>9. ext \in Record /\ r \in Record
  <2>1. r \in Record
    <3>1. (base + off) % Word \in Nat
      BY <1>4, Widths
    <3> QED BY <1>4, <1>5, <3>1, IhexRecord
  <2>2. ext \in Record
    BY <1>6, <1>8, IhexRecord
  <2> QED BY <2>1, <2>2
<1> DEFINE rs == IF hi /= upper THEN Append(recs, ext) ELSE recs
<1>10. rs \in Seq(Record) /\ recs' = Append(rs, r)
  <2>1. CASE hi /= upper
    <3>1. recs' = (recs \o << ext >>) \o << r >>
      BY <1>1, <1>7, <2>1
    <3>2. recs \o << ext >> = Append(recs, ext) /\ Append(recs, ext) \in Seq(Record)
      BY <1>2, <1>9, AppendIsConcat, AppendProperties
    <3>3. Append(recs, ext) \o << r >> = Append(Append(recs, ext), r)
      BY <1>9, <3>2, AppendIsConcat
    <3> QED BY <2>1, <3>1, <3>2, <3>3
  <2>2. CASE hi = upper
    <3>1. recs' = (recs \o << >>) \o << r >>
      BY <1>1, <1>7, <2>2
    <3>2. recs \o << >> = recs
      BY <1>2, ConcatEmptySeq
    <3>3. recs \o << r >> = Append(recs, r)
      BY <1>2, <1>9, AppendIsConcat
    <3> QED BY <1>2, <2>2, <3>1, <3>2, <3>3
  <2> QED BY <2>1, <2>2
<1>11. Written(rs, off, hi)
  <2>1. CASE hi /= upper
    <3>1. Row(ext, Len(recs) + 1, off, off, upper, hi)
      BY <1>1, <1>8 DEF Row, IhexRow
    <3>2. Written(Append(recs, ext), off, hi)
      BY <1>2, <1>6, <1>9, <3>1, WrittenGrows
    <3> QED BY <2>1, <3>2
  <2>2. CASE hi = upper
    BY <1>2, <2>2
  <2> QED BY <2>1, <2>2
<1> HIDE DEF rs
<1>12. Row(r, Len(rs) + 1, off, off + PerLine, hi, hi)
  BY <1>1, <1>5 DEF Row, IhexRow
<1>13. off + PerLine \in Nat
  BY <1>2, <1>3
<1>14. Written(Append(rs, r), off + PerLine, hi)
  BY <1>6, <1>9, <1>10, <1>11, <1>12, <1>13, WrittenGrows
<1>15. Append(rs, r) \in Seq(Record) /\ Append(rs, r) /= << >>
  BY <1>9, <1>10
<1> QED BY <1>1, <1>6, <1>10, <1>13, <1>14, <1>15, EncodeStep

\* The last record leaves the reader at the first one, with an empty memory.
LEMMA EndStep ==
  ASSUME FwInv, SrecEnd \/ IhexEnd
  PROVE  FwInv'
<1>1. /\ phase = "encode" /\ phase' = "read" /\ recs' = Append(recs, EndRecord)
      /\ job.format \in {"SREC", "IHEX"} /\ off >= Len(img)
      /\ UNCHANGED <<job, todo, img, base, off, upper, header, pos, linear, mem>>
  BY DEF SrecEnd, IhexEnd, EndRecord
<1>2. /\ job \in Jobs /\ recs \in Seq(Record) /\ off \in Nat /\ todo = {}
      /\ img \in Seq(Bytes) /\ base \in Nat /\ Written(recs, off, upper)
      /\ pos = 1 /\ linear = 0 /\ mem = << >> /\ (job.format = "SREC" => recs /= << >>)
  BY <1>1 DEF FwInv, FwTypeOK, FlowInv, RecordInv
<1>3. EndRecord \in Record
  <2>1. << >> \in Seq(Bytes) /\ job.entry \in 0 .. Word - 1
    BY <1>2, JobShape
  <2>2. srecLine("S7", job.entry, << >>) \in Record
    BY <2>1, SrecRecord
  <2>3. ihexRecord(0, 1, << >>) \in Record
    <3>1. PICK d \in Seq(Bytes) : d = << >>
      BY <2>1
    <3>2. 0 \in Nat /\ 1 \in Int
      OBVIOUS
    <3>3. ihexRecord(0, 1, d) \in Record
      BY <3>2, IhexRecord
    <3> QED BY <3>1, <3>3
  <2> QED BY <2>2, <2>3 DEF EndRecord
<1>4. Append(recs, EndRecord) \in Seq(Record) /\ Len(recs) \in Nat /\ Len(img) \in Nat
  BY <1>2, <1>3, AppendProperties, LenProperties
<1>5. FlatInv'
  BY <1>1, FlatKept
<1>6. FwTypeOK'
  <2>1. Loads' = Loads
    BY <1>1 DEF Loads, Size
  <2> QED BY <1>1, <1>4, <2>1 DEF FwInv, FwTypeOK
<1>7. FlowInv'
  BY <1>1, <1>2 DEF FlowInv
<1>8. ReadBack'
  <2>1. PICK o, u : Log(recs, o, u) /\ o[Len(recs) + 1] = off /\ u[Len(recs) + 1] = upper
    BY <1>2 DEF Written
  <2>2. \A rs : Log(rs, o, u)' = Log(rs, o, u)
    BY <1>1, LogKept
  <2>3. EndRecord' = EndRecord
    BY <1>1 DEF EndRecord
  <2>4. PICK rs \in Seq(Record) : rs = recs
    BY <1>2
  <2>5. Log(rs, o, u)' /\ recs' = Append(rs, EndRecord)' /\ o[Len(rs) + 1] >= Len(img)'
    BY <1>1, <2>1, <2>2, <2>3, <2>4
  <2>6. ReaderAt(o, u)'
    <3>1. o[1] = 0 /\ u[1] = FirstUpper
      BY <2>1 DEF Log
    <3>2. InImage(0) = 0
      BY <1>4 DEF InImage
    <3>3. Rebuilt(mem, 0)'
      <4>1. base .. base + 0 - 1 = {} /\ DOMAIN << >> = {}
        BY <1>2
      <4> QED BY <1>1, <1>2, <4>1 DEF Rebuilt
    <3>4. InImage(o[pos])' = 0
      BY <1>1, <1>2, <3>1, <3>2 DEF InImage
    <3>5. linear' = u[pos'] \/ (pos' = 1 /\ linear' = 0 /\ base' \div Half /= 0)
      BY <1>1, <1>2, <3>1 DEF FirstUpper
    <3>6. Rebuilt(mem, InImage(o[pos]))'
      BY <3>3, <3>4 DEF Rebuilt
    <3> QED BY <1>1, <3>5, <3>6 DEF ReaderAt
  <2>7. /\ (job.format = "SREC" => rs /= << >>)'
        /\ (pos \in 1 .. Len(rs) + 2)' /\ (phase = "read" => pos <= Len(rs) + 1)'
        /\ (phase /= "rejected")'
    BY <1>1, <1>2, <1>4, <2>4
  <2> QED BY <2>5, <2>6, <2>7 DEF ReadBack
<1>9. RecordInv' /\ UImageInv'
  BY <1>1, <1>8 DEF RecordInv, UImageInv
<1> QED BY <1>5, <1>6, <1>7, <1>9 DEF FwInv

\* The header UImage writes, by its fields.
HeaderOf(s, l, e, d, c, n) ==
  [magic |-> 1, size |-> s, load |-> l, entry |-> e, dcrc |-> d, hcrc |-> c, name |-> n]

LEMMA HeaderFields ==
  ASSUME NEW s, NEW l, NEW e, NEW d, NEW n, NEW c
  PROVE  LET h == HeaderOf(s, l, e, d, c, n) IN
         /\ \A c2 : [h EXCEPT !.hcrc = c2] = HeaderOf(s, l, e, d, c2, n)
         /\ h.hcrc = c /\ h.dcrc = d /\ h.size = s /\ h.load = l
<1>1. ASSUME NEW c2 PROVE [HeaderOf(s, l, e, d, c, n) EXCEPT !.hcrc = c2] = HeaderOf(s, l, e, d, c2, n)
  BY SMTT(30) DEF HeaderOf
<1> QED BY <1>1 DEF HeaderOf

LEMMA UImageStep ==
  ASSUME FwInv, UImage
  PROVE  FwInv'
<1> DEFINE H(c) == HeaderOf(Len(img) % Word, base % Word, job.entry, Crc(img), c, NameField(job.name))
<1>1. /\ phase = "wrap" /\ phase' = "read"
      /\ header' = [H(<< >>) EXCEPT !.hcrc = HeaderCrc(H(<< >>))]
      /\ UNCHANGED <<job, todo, img, base, off, upper, recs, pos, linear, mem>>
  BY DEF UImage, HeaderOf
<1>2. job.format = "UImage" /\ todo = {} /\ mem = << >>
  BY <1>1 DEF FwInv, FlowInv
<1>3. FlatInv'
  BY <1>1, FlatKept
<1>4. FwTypeOK'
  <2>1. Loads' = Loads
    BY <1>1 DEF Loads, Size
  <2> QED BY <1>1, <2>1 DEF FwInv, FwTypeOK
<1>5. FlowInv'
  BY <1>1, <1>2 DEF FlowInv
<1>6. /\ header'.hcrc = Crc([header' EXCEPT !.hcrc = << >>])
      /\ header'.dcrc = Crc(img) /\ header'.size = Len(img) % Word /\ header'.load = base % Word
  <2>1. \A c, c2 : [H(c) EXCEPT !.hcrc = c2] = H(c2)
    BY HeaderFields
  <2>2. \A c : H(c).hcrc = c /\ H(c).dcrc = Crc(img) /\ H(c).size = Len(img) % Word /\ H(c).load = base % Word
    BY HeaderFields
  <2> HIDE DEF H
  <2>3. HeaderCrc(H(<< >>)) = H(<< >>)
    BY <2>1 DEF HeaderCrc, Crc
  <2>4. header' = H(H(<< >>))
    BY <1>1, <2>1, <2>3
  <2> QED BY <2>1, <2>2, <2>4 DEF Crc
<1>7. RecordInv' /\ UImageInv'
  BY <1>1, <1>2, <1>6 DEF RecordInv, UImageInv, Crc
<1> QED BY <1>3, <1>4, <1>5, <1>7 DEF FwInv

-------------------------------------------------------------------------------
(* Firmware: the readers *)

\* What a step of a reader has to show.
LEMMA RecordRead ==
  ASSUME FwInv, phase = "read", job.format \in {"SREC", "IHEX"},
         UNCHANGED <<job, todo, img, base, off, upper, recs, header>>, pos' = pos + 1,
         phase' \in {"read", "loaded", "rejected"},
         NEW rs \in Seq(Record), NEW o, NEW u, recs = Append(rs, EndRecord), Log(rs, o, u),
         o[Len(rs) + 1] >= Len(img), job.format = "SREC" => rs /= << >>,
         pos \in 1 .. Len(rs) + 1, phase' = "read" => pos <= Len(rs),
         LinesFit => phase' /= "rejected",
         LinesFit /\ NotAtSentinel /\ InWord =>
           /\ phase' = "read" => Rebuilt(mem', InImage(o[pos + 1]))
           /\ phase' = "loaded" => Rebuilt(mem', Len(img))
           /\ phase' = "read" /\ job.format = "IHEX" => linear' = u[pos + 1]
  PROVE  FwInv'
<1>1. FlatInv'
  BY FlatKept
<1>2. FwTypeOK'
  <2>1. Loads' = Loads
    BY DEF Loads, Size
  <2> QED BY <2>1 DEF FwInv, FwTypeOK
<1>3. FlowInv'
  BY DEF FwInv, FlowInv
<1>4. ReadBack'
  <2>1. Log(rs, o, u)' /\ EndRecord' = EndRecord
    BY LogKept DEF EndRecord
  <2>2. LinesFit' = LinesFit /\ NotAtSentinel' = NotAtSentinel /\ InWord' = InWord
    BY DEF LinesFit, NotAtSentinel, InWord, PerLine
  <2>3. (LinesFit /\ NotAtSentinel /\ InWord => ReaderAt(o, u))'
    BY <2>2 DEF ReaderAt, Rebuilt, InImage
  <2>4. Len(rs) \in Nat
    BY LenProperties
  <2>5. (pos \in 1 .. Len(rs) + 2)' /\ (phase = "read" => pos <= Len(rs) + 1)'
    BY <2>4
  <2>6. /\ (recs = Append(rs, EndRecord))' /\ (o[Len(rs) + 1] >= Len(img))'
        /\ (job.format = "SREC" => rs /= << >>)' /\ (LinesFit => phase /= "rejected")'
    BY <2>1, <2>2
  <2> QED BY <2>1, <2>3, <2>5, <2>6 DEF ReadBack
<1>5. RecordInv' /\ UImageInv'
  BY <1>4 DEF RecordInv, UImageInv
<1> QED BY <1>1, <1>2, <1>3, <1>5 DEF FwInv

\* What the reader knows at its position: rs are the records in front of the last.
Knows(rs, o, u) ==
  /\ rs \in Seq(Record) /\ recs = Append(rs, EndRecord) /\ Log(rs, o, u)
  /\ o[Len(rs) + 1] >= Len(img) /\ (job.format = "SREC" => rs /= << >>)
  /\ pos \in 1 .. Len(rs) + 1 /\ Len(rs) \in Nat
  /\ pos <= Len(rs) => /\ recs[pos] = rs[pos] /\ u[pos + 1] \in 0 .. Half - 1
                       /\ Row(rs[pos], pos, o[pos], o[pos + 1], u[pos], u[pos + 1])
  /\ pos = Len(rs) + 1 => recs[pos] = EndRecord
  /\ o[pos] \in Nat /\ u[pos] \in 0 .. Half - 1 /\ o[1] = 0 /\ u[1] = FirstUpper
  /\ LinesFit /\ NotAtSentinel /\ InWord => ReaderAt(o, u)

LEMMA ReaderKnows ==
  ASSUME FwInv, phase = "read", job.format \in {"SREC", "IHEX"}
  PROVE  \E rs, o, u : Knows(rs, o, u)
<1>1. ReadBack
  BY DEF FwInv, RecordInv
<1>2. PICK rs \in Seq(Record) : \E o, u :
        /\ recs = Append(rs, EndRecord) /\ Log(rs, o, u) /\ o[Len(rs) + 1] >= Len(img)
        /\ job.format = "SREC" => rs /= << >>
        /\ pos \in 1 .. Len(rs) + 2 /\ pos <= Len(rs) + 1
        /\ LinesFit /\ NotAtSentinel /\ InWord => ReaderAt(o, u)
  BY <1>1 DEF ReadBack
<1>3. PICK o, u :
        /\ recs = Append(rs, EndRecord) /\ Log(rs, o, u) /\ o[Len(rs) + 1] >= Len(img)
        /\ job.format = "SREC" => rs /= << >>
        /\ pos \in 1 .. Len(rs) + 2 /\ pos <= Len(rs) + 1
        /\ LinesFit /\ NotAtSentinel /\ InWord => ReaderAt(o, u)
  BY <1>2
<1>4. Len(rs) \in Nat
  BY LenProperties
<1>5. pos \in 1 .. Len(rs) + 1
  BY <1>3, <1>4
<1>6. pos <= Len(rs) => recs[pos] = rs[pos]
  BY <1>3, <1>4, <1>5
<1>7. pos = Len(rs) + 1 => recs[pos] = EndRecord
  BY <1>3, <1>4, <1>5
<1>8. pos <= Len(rs) => pos \in 1 .. Len(rs) /\ pos + 1 \in 1 .. Len(rs) + 1
  BY <1>4, <1>5
<1>9. /\ o[pos] \in Nat /\ u[pos] \in 0 .. Half - 1 /\ o[1] = 0 /\ u[1] = FirstUpper
      /\ pos <= Len(rs) => u[pos + 1] \in 0 .. Half - 1
      /\ pos <= Len(rs) => Row(rs[pos], pos, o[pos], o[pos + 1], u[pos], u[pos + 1])
  BY <1>3, <1>5, <1>8 DEF Log
<1> QED BY <1>3, <1>4, <1>5, <1>6, <1>7, <1>9 DEF Knows

\* Pieces that fit a word are loaded behind what is in memory.
LEMMA PieceLoaded ==
  ASSUME NEW n \in Nat, img \in Seq(Bytes), base \in Nat, PerLine \in Nat \ {0}, n < Len(img), InWord
  PROVE  /\ (base + n) % Word = base + n
         /\ Rebuilt(mem, n) => Rebuilt(Loaded(base + n, Piece(n)), InImage(n + PerLine))
<1>1. /\ Piece(n) \in Seq(Bytes) /\ Len(Piece(n)) \in 1 .. PerLine
      /\ n + Len(Piece(n)) = InImage(n + PerLine)
      /\ \A i \in 1 .. Len(Piece(n)) : Piece(n)[i] = img[n + i]
  BY PieceIs
<1>2. Len(img) \in Nat /\ base + Len(img) <= Word
  BY LenProperties DEF InWord
<1>3. InImage(n + PerLine) <= Len(img)
  BY <1>2 DEF InImage
<1>4. base + n + Len(Piece(n)) <= Word
  <2>1. base + n + Len(Piece(n)) = base + InImage(n + PerLine)
    BY <1>1
  <2>2. InImage(n + PerLine) \in Nat
    BY <1>2 DEF InImage
  <2> QED BY <1>2, <1>3, <2>1, <2>2, Widths
<1>5. Rebuilt(mem, n) => Rebuilt(Loaded(base + n, Piece(n)), n + Len(Piece(n)))
  BY <1>1, <1>4, LoadedNext
<1>6. (base + n) % Word = base + n
  <2>1. base + n \in 0 .. Word - 1 /\ Word \in Nat \ {0}
    BY <1>2, Widths
  <2> QED BY <2>1, SmallMod
<1> QED BY <1>1, <1>5, <1>6

LEMMA ReadSrecStep ==
  ASSUME FwInv, ReadSrec
  PROVE  FwInv'
<1> DEFINE r == recs[pos]
           b == Body(r.bytes)
<1>1. /\ phase = "read" /\ job.format = "SREC" /\ pos' = pos + 1
      /\ UNCHANGED <<job, todo, img, base, off, upper, recs, header, linear>>
      /\ SrecGood(r) =>
           /\ mem' = IF r.type = "S3" THEN Loaded(Uint32(b), SubSeq(b, 5, Len(b))) ELSE mem
           /\ phase' = IF r.type = "S7" THEN "loaded" ELSE "read"
      /\ ~SrecGood(r) => phase' = "rejected"
  BY DEF ReadSrec
<1>2. job \in Jobs /\ img \in Seq(Bytes) /\ base \in Nat
  BY DEF FwInv, FwTypeOK
<1>3. /\ job.name \in Seq(Bytes) /\ job.entry \in 0 .. Word - 1 /\ PerLine \in Nat \ {0}
      /\ Len(img) \in Nat
  BY <1>2, JobShape, LenProperties
<1>4. LinesFit => PerLine + 5 < Byte /\ Len(job.name) + 5 < Byte
  BY <1>1 DEF LinesFit
<1>5. PICK rs, o, u : Knows(rs, o, u)
  BY <1>1, ReaderKnows
<1> DEFINE n == o[pos]
           Safe == LinesFit /\ NotAtSentinel /\ InWord
           Goal == /\ phase' \in {"read", "loaded", "rejected"} /\ (phase' = "read" => pos <= Len(rs))
                   /\ LinesFit => phase' /= "rejected"
                   /\ Safe => /\ phase' = "read" => Rebuilt(mem', InImage(o[pos + 1]))
                              /\ phase' = "loaded" => Rebuilt(mem', Len(img))
<1>7. Safe => Rebuilt(mem, InImage(n))
  BY <1>1, <1>5 DEF Knows, ReaderAt
<1>8. ASSUME pos = Len(rs) + 1 PROVE Goal
  <2>1. r = srecLine("S7", job.entry, << >>)
    BY <1>1, <1>5, <1>8 DEF Knows, EndRecord
  <2>2. PICK d \in Seq(Bytes) : d = << >> /\ Len(d) = 0
    BY EmptySeq
  <2> HIDE DEF r, b
  <2>3. r.type = "S7" /\ (Len(d) + 5 < Byte => SrecGood(r))
    <3>1. r = srecLine("S7", job.entry, d)
      BY <2>1, <2>2
    <3> QED BY <1>3, <3>1, SrecRecord
  <2>4. LinesFit => SrecGood(r)
    <3>1. LinesFit => 0 + 5 < Byte
      BY <1>3, <1>4, Widths
    <3> QED BY <2>2, <2>3, <3>1
  <2>5. InImage(n) = Len(img)
    BY <1>3, <1>5, <1>8 DEF Knows, InImage
  <2> HIDE DEF n
  <2>6. SrecGood(r) => mem' = mem /\ phase' = "loaded"
    BY <1>1, <2>3
  <2> QED BY <1>1, <1>7, <2>4, <2>5, <2>6
<1>9. ASSUME pos <= Len(rs) PROVE Goal
  <2>1. SrecRow(r, pos, n, o[pos + 1], u[pos], u[pos + 1])
    BY <1>1, <1>5, <1>9 DEF Knows, Row
  <2>2. CASE pos = 1
    <3>1. r = srecLine("S0", 0, job.name) /\ o[pos + 1] = n
      BY <2>1, <2>2 DEF SrecRow
    <3>2. r.type = "S0" /\ (Len(job.name) + 5 < Byte => SrecGood(r))
      <4>1. 0 \in 0 .. Word - 1
        BY Widths
      <4> HIDE DEF r, b, n
      <4> QED BY <1>3, <3>1, <4>1, SrecRecord
    <3> HIDE DEF r, b, n
    <3>3. SrecGood(r) => mem' = mem /\ phase' = "read"
      BY <1>1, <3>2
    <3> QED BY <1>1, <1>4, <1>7, <1>9, <3>1, <3>2, <3>3
  <2>3. CASE pos /= 1
    <3>1. /\ n < Len(img) /\ o[pos + 1] = n + PerLine
          /\ r = srecLine("S3", (base + n) % Word, Piece(n))
      BY <2>1, <2>3 DEF SrecRow
    <3>2. n \in Nat
      BY <1>5 DEF Knows
    <3> HIDE DEF n
    <3>3. Piece(n) \in Seq(Bytes) /\ Len(Piece(n)) \in 1 .. PerLine /\ (base + n) % Word \in 0 .. Word - 1
      BY <1>2, <1>3, <3>1, <3>2, PieceIs, AddressIs
    <3>4. /\ r.type = "S3" /\ Uint32(b) = (base + n) % Word /\ SubSeq(b, 5, Len(b)) = Piece(n)
          /\ Len(Piece(n)) + 5 < Byte => SrecGood(r)
      BY <3>1, <3>3, SrecRecord
    <3>5. LinesFit => SrecGood(r)
      BY <1>3, <1>4, <3>3, <3>4, Widths
    <3> HIDE DEF r, b
    <3>6. SrecGood(r) => mem' = Loaded((base + n) % Word, Piece(n)) /\ phase' = "read"
      BY <1>1, <3>4
    <3>7. Safe => Rebuilt(mem', InImage(n + PerLine))
      <4> SUFFICES ASSUME Safe PROVE Rebuilt(mem', InImage(n + PerLine))
        OBVIOUS
      <4>1. (base + n) % Word = base + n /\ (Rebuilt(mem, n) => Rebuilt(Loaded(base + n, Piece(n)), InImage(n + PerLine)))
        BY <1>2, <1>3, <3>1, <3>2, PieceLoaded
      <4>2. InImage(n) = n
        BY <3>1 DEF InImage
      <4> QED BY <1>7, <3>5, <3>6, <4>1, <4>2
    <3> QED BY <1>1, <1>9, <3>1, <3>5, <3>6, <3>7
  <2> QED BY <2>2, <2>3
<1>10. Goal
  <2> HIDE DEF Goal
  <2> QED BY <1>5, <1>8, <1>9 DEF Knows
<1> HIDE DEF r, b, n
<1> QED BY <1>1, <1>5, <1>10, RecordRead DEF Knows

LEMMA ReadIhexStep ==
  ASSUME FwInv, ReadIhex
  PROVE  FwInv'
<1> DEFINE r == recs[pos]
           b == Body(r.bytes)
           data == SubSeq(b, 4, Len(b))
<1>1. /\ phase = "read" /\ job.format = "IHEX" /\ pos' = pos + 1
      /\ UNCHANGED <<job, todo, img, base, off, upper, recs, header>>
      /\ IhexGood(r) =>
           /\ mem' = IF b[3] = 0 THEN Loaded(linear * Half + Uint16(b), data) ELSE mem
           /\ linear' = IF b[3] = 4 THEN Uint16(data) ELSE linear
           /\ phase' = IF b[3] = 1 THEN "loaded" ELSE "read"
      /\ ~IhexGood(r) => phase' = "rejected"
  BY DEF ReadIhex
<1>2. job \in Jobs /\ img \in Seq(Bytes) /\ base \in Nat
  BY DEF FwInv, FwTypeOK
<1>3. PerLine \in Nat \ {0} /\ Len(img) \in Nat
  BY <1>2, JobShape, LenProperties
<1>4. LinesFit => PerLine < Byte
  BY <1>1 DEF LinesFit
<1>5. PICK rs, o, u : Knows(rs, o, u)
  BY <1>1, ReaderKnows
<1> DEFINE n == o[pos]
           Safe == LinesFit /\ NotAtSentinel /\ InWord
           Goal == /\ phase' \in {"read", "loaded", "rejected"} /\ (phase' = "read" => pos <= Len(rs))
                   /\ LinesFit => phase' /= "rejected"
                   /\ Safe => /\ phase' = "read" => Rebuilt(mem', InImage(o[pos + 1]))
                              /\ phase' = "loaded" => Rebuilt(mem', Len(img))
                              /\ phase' = "read" => linear' = u[pos + 1]
<1>7. Safe => /\ Rebuilt(mem, InImage(n))
              /\ linear = u[pos] \/ (pos = 1 /\ linear = 0 /\ base \div Half /= 0)
  BY <1>1, <1>5 DEF Knows, ReaderAt
<1>8. ASSUME pos = Len(rs) + 1 PROVE Goal
  <2>1. r = ihexRecord(0, 1, << >>)
    BY <1>1, <1>5, <1>8 DEF Knows, EndRecord
  <2>2. PICK d \in Seq(Bytes) : d = << >> /\ Len(d) = 0
    BY EmptySeq
  <2> HIDE DEF r
  <2>3. b[3] = 1 /\ (Len(d) < Byte => IhexGood(r))
    <3>1. r = ihexRecord(0, 1, d)
      BY <2>1, <2>2
    <3>2. 0 \in Nat /\ 1 \in Int
      OBVIOUS
    <3> QED BY <3>1, <3>2, IhexRecord
  <2>4. IhexGood(r)
    BY <2>2, <2>3, Widths
  <2>5. InImage(n) = Len(img)
    BY <1>3, <1>5, <1>8 DEF Knows, InImage
  <2> HIDE DEF n, b, data
  <2>6. mem' = mem /\ phase' = "loaded"
    BY <1>1, <2>3, <2>4
  <2> QED BY <1>1, <1>7, <2>5, <2>6
<1>9. ASSUME pos <= Len(rs) PROVE Goal
  <2>1. IhexRow(r, n, o[pos + 1], u[pos], u[pos + 1])
    BY <1>1, <1>5, <1>9 DEF Knows, Row
  <2>2. CASE r = ihexRecord(0, 4, PutUint16(u[pos + 1])) /\ o[pos + 1] = n
    <3> DEFINE h == u[pos + 1]
    <3>1. h \in 0 .. Half - 1
      BY <1>5, <1>9 DEF Knows
    <3> HIDE DEF h
    <3>2. /\ PutUint16(h) \in Seq(Bytes) /\ Len(PutUint16(h)) = 2 /\ Uint16(PutUint16(h)) = h
      BY <3>1, Decode16
    <3>3. r = ihexRecord(0, 4, PutUint16(h)) /\ 0 \in Nat /\ 4 \in Int
      BY <2>2 DEF h
    <3> HIDE DEF r
    <3>4. b[3] = 4 /\ data = PutUint16(h) /\ (Len(PutUint16(h)) < Byte => IhexGood(r))
      <4> DEFINE d == PutUint16(h)
      <4>1. d \in Seq(Bytes) /\ r = ihexRecord(0, 4, d) /\ 0 \in Nat /\ 4 \in Int
        BY <3>2, <3>3
      <4> HIDE DEF d
      <4>2. b[3] = 4 /\ data = d /\ (Len(d) < Byte => IhexGood(r))
        BY <4>1, IhexRecord
      <4> QED BY <4>2 DEF d
    <3>5. IhexGood(r)
      BY <3>2, <3>4, Widths
    <3> HIDE DEF n, b, data
    <3>6. mem' = mem /\ phase' = "read" /\ linear' = h
      BY <1>1, <3>2, <3>4, <3>5
    <3> QED BY <1>7, <1>9, <2>2, <3>6 DEF h
  <2>3. CASE /\ n < Len(img) /\ o[pos + 1] = n + PerLine /\ u[pos + 1] = u[pos]
             /\ u[pos] = ((base + n) % Word) \div Half
             /\ r = ihexRecord((base + n) % Word, 0, Piece(n))
    <3> DEFINE a == (base + n) % Word
    <3>1. n \in Nat
      BY <1>5 DEF Knows
    <3> HIDE DEF n
    <3>2. Piece(n) \in Seq(Bytes) /\ Len(Piece(n)) \in 1 .. PerLine /\ a \in 0 .. Word - 1
      BY <1>2, <1>3, <2>3, <3>1, PieceIs, AddressIs
    <3>3. a = (base + n) % Word /\ a \in Nat /\ 0 \in Int /\ r = ihexRecord(a, 0, Piece(n))
      BY <2>3, <3>2, Widths
    <3> HIDE DEF r, a
    <3>4. /\ Uint16(b) = a % Half /\ b[3] = 0 /\ data = Piece(n)
          /\ Len(Piece(n)) < Byte => IhexGood(r)
      BY <3>2, <3>3, IhexRecord
    <3>5. LinesFit => IhexGood(r)
      BY <1>3, <1>4, <3>2, <3>4, Widths
    <3> HIDE DEF b, data
    <3>6. IhexGood(r) => mem' = Loaded(linear * Half + (a % Half), Piece(n)) /\ phase' = "read" /\ linear' = linear
      BY <1>1, <3>4
    <3>7. ASSUME Safe
          PROVE  Rebuilt(mem', InImage(n + PerLine)) /\ linear' = u[pos]
      <4>1. a = base + n /\ (Rebuilt(mem, n) => Rebuilt(Loaded(base + n, Piece(n)), InImage(n + PerLine)))
        BY <1>2, <1>3, <2>3, <3>1, <3>3, <3>7, PieceLoaded
      <4>2. InImage(n) = n
        BY <2>3 DEF InImage
      <4>3. linear = u[pos]
        <5> SUFFICES ASSUME pos = 1, base \div Half /= 0 PROVE FALSE
          BY <1>7, <3>7
        <5>1. n = 0 /\ u[pos] = Half - 1
          BY <1>5 DEF Knows, n, FirstUpper
        <5>2. base \div Half = Half - 1
          BY <1>2, <2>3, <3>3, <4>1, <5>1
        <5> QED BY <1>1, <3>7, <5>2 DEF NotAtSentinel
      <4>4. (linear * Half) + (a % Half) = a
        <5>1. Half \in Nat \ {0} /\ a \in Nat /\ a < Half * Half
          BY <3>2, Widths
        <5>2. Half * (a \div Half) + (a % Half) = a /\ a \div Half \in 0 .. Half - 1
          BY <5>1, TwoDigits
        <5>3. linear = a \div Half
          BY <2>3, <3>3, <4>3
        <5>4. linear * Half = Half * (a \div Half)
          BY <5>1, <5>2, <5>3
        <5> QED BY <5>2, <5>4
      <4> QED BY <1>7, <3>5, <3>6, <3>7, <4>1, <4>2, <4>3, <4>4
    <3> QED BY <1>1, <1>9, <2>3, <3>5, <3>6, <3>7
  <2> HIDE DEF Goal, r, n
  <2> QED BY <2>1, <2>2, <2>3 DEF IhexRow
<1>10. Goal
  <2> HIDE DEF Goal
  <2> QED BY <1>5, <1>8, <1>9 DEF Knows
<1> HIDE DEF r, b, n, data
<1> QED BY <1>1, <1>5, <1>10, RecordRead DEF Knows

\* An image is not empty.
LEMMA ImageNotEmpty ==
  ASSUME FwInv, phase \notin {"open", "error"}
  PROVE  Len(img) \in Nat \ {0}
<1>1. job \in Jobs /\ img \in Seq(Bytes) /\ base \in Nat
  BY DEF FwInv, FwTypeOK
<1>2. PICK i \in Loads : base <= addr(job.segs[i]) /\ LoadEnd(i) <= base + Len(img)
  BY DEF FwInv, FlatInv
<1>3. i \in DOMAIN job.segs /\ Len(job.segs[i].data) > 0
  BY DEF Loads, Size
<1>4. /\ addr(job.segs[i]) \in Nat /\ Len(job.segs[i].data) \in Nat
      /\ LoadEnd(i) = addr(job.segs[i]) + Len(job.segs[i].data)
  BY <1>1, <1>3, JobShape
<1>5. Len(img) \in Nat
  BY <1>1, LenProperties
<1> QED BY <1>1, <1>2, <1>3, <1>4, <1>5

LEMMA BootUImageStep ==
  ASSUME FwInv, BootUImage
  PROVE  FwInv'
<1>1. /\ phase = "read" /\ job.format = "UImage"
      /\ UNCHANGED <<job, todo, img, base, off, upper, recs, header, pos, linear>>
      /\ \/ mem' = Loaded(header.load, img) /\ phase' = "loaded"
         \/ /\ phase' = "rejected"
            /\ ~(/\ header.hcrc = Crc([header EXCEPT !.hcrc = << >>])
                 /\ header.dcrc = Crc(img) /\ header.size = Len(img))
  BY DEF BootUImage
<1>2. job \in Jobs /\ img \in Seq(Bytes) /\ base \in Nat
  BY DEF FwInv, FwTypeOK
<1>3. /\ header.hcrc = Crc([header EXCEPT !.hcrc = << >>])
      /\ header.dcrc = Crc(img) /\ header.size = Len(img) % Word /\ header.load = base % Word
      /\ mem = << >>
  BY <1>1 DEF FwInv, UImageInv
<1>4. Len(img) \in Nat \ {0}
  BY <1>1, ImageNotEmpty
<1>5. phase' = "rejected" => Len(img) >= Word
  <2> SUFFICES ASSUME phase' = "rejected", ~(Len(img) >= Word) PROVE FALSE
    OBVIOUS
  <2>1. Len(img) \in 0 .. Word - 1 /\ Word \in Nat \ {0}
    BY <1>4, Widths
  <2>2. Len(img) % Word = Len(img)
    BY <2>1, SmallMod
  <2> QED BY <1>1, <1>3, <2>2
<1>6. phase' = "loaded" /\ InWord => Rebuilt(mem', Len(img))
  <2> SUFFICES ASSUME phase' = "loaded", InWord PROVE Rebuilt(mem', Len(img))
    OBVIOUS
  <2>1. base \in 0 .. Word - 1 /\ Word \in Nat \ {0} /\ base + 0 + Len(img) <= Word
    BY <1>2, <1>4, Widths DEF InWord
  <2>2. header.load = base + 0
    BY <1>2, <1>3, <2>1, SmallMod
  <2>3. Rebuilt(mem, 0)
    <3>1. DOMAIN mem = {} /\ base .. base + 0 - 1 = {}
      BY <1>2, <1>3
    <3> QED BY <3>1 DEF Rebuilt
  <2>4. \A i \in 1 .. Len(img) : img[i] = img[0 + i]
    BY <1>4
  <2>5. Rebuilt(Loaded(base + 0, img), 0 + Len(img))
    BY <1>2, <2>1, <2>3, <2>4, LoadedNext
  <2>6. 0 + Len(img) = Len(img)
    BY <1>4
  <2> QED BY <1>1, <2>2, <2>5, <2>6
<1>7. FlatInv'
  BY <1>1, FlatKept
<1>8. FwTypeOK'
  <2>1. Loads' = Loads
    BY <1>1 DEF Loads, Size
  <2> QED BY <1>1, <2>1 DEF FwInv, FwTypeOK
<1>9. FlowInv'
  BY <1>1 DEF FwInv, FlowInv
<1>10. RecordInv' /\ UImageInv'
  <2>1. RecordInv'
    BY <1>1 DEF RecordInv
  <2>2. InWord' = InWord /\ Rebuilt(mem, Len(img))' = Rebuilt(mem', Len(img))
    BY <1>1 DEF InWord, Rebuilt
  <2>3. UImageInv'
    BY <1>1, <1>5, <1>6, <2>2 DEF UImageInv
  <2> QED BY <2>1, <2>3
<1> QED BY <1>7, <1>8, <1>9, <1>10 DEF FwInv

-------------------------------------------------------------------------------
(* Firmware: the invariant and what follows from it *)

LEMMA FwInvHolds == FwSpec => []FwInv
<1>1. FwInit => FwInv
  <2> SUFFICES ASSUME FwInit PROVE FwInv
    OBVIOUS
  <2>1. PICK d \in Seq(Bytes) : d = << >> /\ Len(d) = 0
    BY EmptySeq
  <2>2. PICK rs \in Seq(Record) : rs = << >> /\ Len(rs) = 0
    BY EmptySeq
  <2>3. FwTypeOK
    BY <2>1, <2>2, Widths DEF FwInit, FwTypeOK
  <2>4. FlowInv /\ FlatInv /\ RecordInv /\ UImageInv
    BY DEF FwInit, FlowInv, FlatInv, RecordInv, UImageInv
  <2> QED BY <2>3, <2>4 DEF FwInv
<1>2. FwInv /\ [FwNext \/ FwReturned]_fwVars => FwInv'
  <2> SUFFICES ASSUME FwInv, [FwNext \/ FwReturned]_fwVars PROVE FwInv'
    OBVIOUS
  <2>1. CASE Open
    BY <2>1, OpenStep
  <2>2. ASSUME NEW i \in todo, CopySegment(i) PROVE FwInv'
    BY <2>2, CopyStep
  <2>3. CASE Flattened
    BY <2>3, FlattenedStep
  <2>4. CASE SrecHeader
    BY <2>4, SrecHeaderStep
  <2>5. CASE SrecData
    BY <2>5, SrecDataStep
  <2>6. CASE SrecEnd \/ IhexEnd
    BY <2>6, EndStep
  <2>7. CASE IhexData
    BY <2>7, IhexDataStep
  <2>8. CASE UImage
    BY <2>8, UImageStep
  <2>9. CASE ReadSrec
    BY <2>9, ReadSrecStep
  <2>10. CASE ReadIhex
    BY <2>10, ReadIhexStep
  <2>11. CASE BootUImage
    BY <2>11, BootUImageStep
  <2>12. CASE UNCHANGED fwVars
    <3>1. UNCHANGED <<job, todo, img, base, off, upper, recs, header, pos, linear, mem, phase>>
      BY <2>12 DEF fwVars
    <3>2. FlatInv'
      <4>1. phase \in {"open", "error"} => FlatInv'
        BY <3>1 DEF FlatInv
      <4> QED BY <3>1, <4>1, FlatKept
    <3>3. Loads' = Loads /\ LinesFit' = LinesFit /\ NotAtSentinel' = NotAtSentinel /\ InWord' = InWord
      BY <3>1 DEF Loads, Size, LinesFit, NotAtSentinel, InWord, PerLine
    <3>4. FwTypeOK' /\ FlowInv'
      BY <3>1, <3>3 DEF FwInv, FwTypeOK, FlowInv
    <3>5. \A rs, o, u : Log(rs, o, u)' = Log(rs, o, u)
      BY <3>1, LogKept
    <3>6. ReadBack' = ReadBack
      BY <3>1, <3>3, <3>5 DEF ReadBack, EndRecord, ReaderAt, Rebuilt, InImage
    <3>7. RecordInv' /\ UImageInv'
      BY <3>1, <3>3, <3>5, <3>6 DEF FwInv, RecordInv, UImageInv, Written, Rebuilt
    <3> QED BY <3>2, <3>4, <3>7 DEF FwInv
  <2> QED BY <2>1, <2>2, <2>3, <2>4, <2>5, <2>6, <2>7, <2>8, <2>9, <2>10, <2>11, <2>12
          DEF FwNext, FwReturned
<1> QED BY <1>1, <1>2, PTL DEF FwSpec

\* Flatten (fwimg.go:50): the image has every byte of every segment at its
\* address, the pad between them, and starts and ends with them.
THEOREM FlattenIsFaithful == FwSpec => []FlattenFaithful
<1>1. FwInv => FlattenFaithful
  <2> SUFFICES ASSUME FwInv, phase \notin {"open", "copy", "error"}, LoadsApart
               PROVE  FlattenFaithful
    BY DEF FlattenFaithful
  <2>1. todo = {} /\ FlatInv
    BY DEF FwInv, FlowInv
  <2> QED BY <2>1 DEF FlatInv, FlattenFaithful
<1> QED BY <1>1, FwInvHolds, PTL

\* The encoders (fwimg.go:90-197): a reader never rejects what they write, when
\* the counts fit their byte and the size its word.
THEOREM EveryRecordAccepted == FwSpec => []RecordsAccepted
<1>1. FwInv => RecordsAccepted
  <2> SUFFICES ASSUME FwInv, LinesFit, phase = "rejected" PROVE FALSE
    BY DEF RecordsAccepted
  <2>1. job \in Jobs /\ img \in Seq(Bytes)
    BY DEF FwInv, FwTypeOK
  <2>2. job.format /= "UImage" => (LinesFit => phase /= "rejected")
    BY DEF FwInv, RecordInv, ReadBack
  <2>3. job.format = "UImage" => Len(img) >= Word /\ Len(img) < Word
    BY DEF FwInv, UImageInv, LinesFit
  <2>4. Len(img) \in Nat /\ Word \in Nat
    BY <2>1, LenProperties, Widths
  <2> QED BY <2>2, <2>3, <2>4
<1> QED BY <1>1, FwInvHolds, PTL

\* What is loaded at the other end is the image Flatten has built, at its
\* address: for every format, every length of a line, across every change of
\* the upper half of an address.
THEOREM MemoryIsRebuilt == FwSpec => []MemoryRebuilt
<1>1. FwInv => MemoryRebuilt
  <2> SUFFICES ASSUME FwInv, phase = "loaded", LinesFit, NotAtSentinel, InWord
               PROVE  MemoryRebuilt
    BY DEF MemoryRebuilt
  <2>1. job.format /= "UImage" => Rebuilt(mem, Len(img))
    BY DEF FwInv, RecordInv, ReadBack, ReaderAt
  <2>2. job.format = "UImage" => Rebuilt(mem, Len(img))
    BY DEF FwInv, UImageInv
  <2> QED BY <2>1, <2>2 DEF Rebuilt, MemoryRebuilt
<1> QED BY <1>1, FwInvHolds, PTL

-------------------------------------------------------------------------------
(* Appender: the inductive invariant *)

\* What a header made so far has in common with the loop's running pointers.
Placed(h) ==
  /\ h.rva % image.sa = 0 /\ VirtualEnd(h) <= nextVA
  /\ h.foff % image.fa = 0 /\ h.raw % image.fa = 0
  /\ h.foff >= Aligned /\ RawEnd(h) <= nextFile
  /\ [at |-> h.foff - Aligned, len |-> h.raw, id |-> h.id] \in appended

LoopInv ==
  /\ Fits(image, list) /\ insertAt \in 0 .. Len(image.table)
  /\ nextVA % image.sa = 0 /\ nextFile % image.fa = 0
  /\ Aligned >= image.soh
  /\ \A i \in DOMAIN image.table :
       LET s == image.table[i] IN
       /\ VirtualEnd(s) <= nextVA /\ RawEnd(s) <= Aligned
       /\ \A k \in DOMAIN headers : VirtualEnd(s) <= headers[k].rva
  /\ \A k \in DOMAIN headers : headers[k].id = <<calls, k>> /\ Placed(headers[k])
  /\ \A k, l \in DOMAIN headers : k < l =>
       /\ VirtualEnd(headers[k]) <= headers[l].rva
       /\ RawEnd(headers[k]) <= headers[l].foff

\* The identities in the table are distinct and older than the running call.
MarksInv ==
  /\ \A i, j \in DOMAIN image.table : image.table[i].id = image.table[j].id => i = j
  /\ \A i \in DOMAIN image.table :
       image.table[i].id[1] <= calls /\ (doing = "place" => image.table[i].id[1] < calls)

\* A promise is about a section of its call and an older one, and holds; those of
\* the running call are about the section at the insertion point.
PromisesInv ==
  /\ \A p \in before : p[2][1] < p[1][1] /\ p[1][1] <= calls
  /\ \A i, j \in DOMAIN image.table :
       <<image.table[i].id, image.table[j].id>> \in before => i < j
  /\ doing = "place" => \A p \in before : p[1][1] = calls =>
       insertAt + 1 \in DOMAIN image.table /\ p[2] = image.table[insertAt + 1].id

AppendInv ==
  /\ AppendTypeOK /\ Sound(image) /\ Held(image) /\ MarksInv /\ PromisesInv
  /\ doing = "place" => LoopInv

-------------------------------------------------------------------------------
(* Appender: the next free addresses *)

\* MaxOf is an upper bound of finitely many naturals.
LEMMA MaxOfBounds ==
  ASSUME NEW n \in Nat, NEW f, \A i \in 1 .. n : f[i] \in Nat
  PROVE  LET S == {f[i] : i \in 1 .. n} IN
         /\ MaxOf(S, 0) \in Nat
         /\ \A i \in 1 .. n : f[i] <= MaxOf(S, 0)
         /\ MaxOf(S, 0) = 0 \/ \E i \in 1 .. n : MaxOf(S, 0) = f[i]
<1> DEFINE S == {f[i] : i \in 1 .. n}
<1>1. S \in SUBSET Nat
  OBVIOUS
<1>2. CASE S = {}
  BY <1>2 DEF MaxOf
<1>3. CASE S /= {}
  <2>1. PICK b \in Nat : \A i \in 1 .. n : f[i] <= b
    BY BoundExists
  <2>2. \A x \in S : x <= b
    BY <2>1
  <2>3. \E x \in S : \A y \in S : y <= x
    <3> HIDE DEF S
    <3> QED BY <1>1, <1>3, <2>2, GreatestExists
  <2>4. MaxOf(S, 0) \in S /\ \A y \in S : y <= MaxOf(S, 0)
    <3> HIDE DEF S
    <3> QED BY <1>3, <2>3 DEF MaxOf
  <2> QED BY <1>1, <2>4
<1> QED BY <1>2, <1>3

\* An image with the fields of its sections spelt out.
LEMMA ImageFields ==
  ASSUME NEW exe \in Image
  PROVE  /\ Len(exe.table) \in Nat /\ DOMAIN exe.table = 1 .. Len(exe.table)
         /\ exe.soh \in Nat /\ exe.start \in Nat /\ exe.sa \in Nat /\ exe.fa \in Nat
         /\ \A i \in DOMAIN exe.table :
              LET s == exe.table[i] IN
              /\ s \in SectionHeader /\ s.rva \in Nat /\ s.vsize \in Nat
              /\ s.raw \in Nat /\ s.foff \in Nat
              /\ VirtualEnd(s) \in Nat /\ RawEnd(s) \in Nat
<1>1. exe.table \in Seq(SectionHeader)
  BY DEF Image
<1>2. /\ Len(exe.table) \in Nat /\ DOMAIN exe.table = 1 .. Len(exe.table)
      /\ \A i \in DOMAIN exe.table : exe.table[i] \in SectionHeader
  BY <1>1, LenProperties, ElementOfSeq
<1>3. /\ exe.soh \in Nat /\ exe.start \in Nat /\ exe.sa \in Nat /\ exe.fa \in Nat
  BY DEF Image
<1>4. ASSUME NEW s \in SectionHeader
      PROVE  /\ s.rva \in Nat /\ s.vsize \in Nat /\ s.raw \in Nat /\ s.foff \in Nat
             /\ VirtualEnd(s) \in Nat /\ RawEnd(s) \in Nat
  BY DEF SectionHeader, VirtualEnd, RawEnd
<1> QED BY <1>2, <1>3, <1>4

\* The first new section lies behind every old one in memory,
LEMMA NextVABehind ==
  ASSUME NEW exe \in Image, exe.sa > 0
  PROVE  /\ NextVA(exe) \in Nat /\ NextVA(exe) % exe.sa = 0
         /\ \A i \in DOMAIN exe.table : VirtualEnd(exe.table[i]) <= NextVA(exe)
<1> DEFINE n == Len(exe.table)
           f == [i \in 1 .. n |-> alignUp(VirtualEnd(exe.table[i]), exe.sa)]
           S == {f[i] : i \in 1 .. n}
           top == MaxOf(S, 0)
<1>1. n \in Nat /\ DOMAIN exe.table = 1 .. n /\ exe.sa \in Nat \ {0} /\ exe.soh \in Nat
  BY ImageFields
<1>2. \A i \in 1 .. n : /\ VirtualEnd(exe.table[i]) \in Nat
                        /\ f[i] \in Nat /\ f[i] % exe.sa = 0
                        /\ VirtualEnd(exe.table[i]) <= f[i]
  BY <1>1, ImageFields, AlignUpBounds DEF alignUp
<1>3. S = {alignUp(VirtualEnd(exe.table[i]), exe.sa) : i \in DOMAIN exe.table}
  BY <1>1
<1>4. NextVA(exe) = IF top = 0 THEN alignUp(exe.soh, exe.sa) ELSE top
  BY <1>3 DEF NextVA
<1>5. alignUp(exe.soh, exe.sa) \in Nat /\ alignUp(exe.soh, exe.sa) % exe.sa = 0
  BY <1>1, AlignUpBounds DEF alignUp
<1>6. top \in Nat /\ \A i \in 1 .. n : f[i] <= top
  <2> HIDE DEF f
  <2> QED BY <1>1, <1>2, MaxOfBounds
<1>7. top = 0 \/ \E i \in 1 .. n : top = f[i]
  <2> HIDE DEF f
  <2> QED BY <1>1, <1>2, MaxOfBounds
<1>8. top /= 0 => top % exe.sa = 0
  BY <1>2, <1>7
<1> HIDE DEF f, top
<1> QED BY <1>1, <1>2, <1>4, <1>5, <1>6, <1>8, SMTT(30)

\* and behind every old one and the headers in the file.
LEMMA NextFileBehind ==
  ASSUME NEW exe \in Image, exe.fa > 0
  PROVE  /\ NextFile(exe) \in Nat /\ NextFile(exe) % exe.fa = 0
         /\ exe.soh <= NextFile(exe)
         /\ \A i \in DOMAIN exe.table : RawEnd(exe.table[i]) <= NextFile(exe)
<1> DEFINE n == Len(exe.table)
           f == [i \in 1 .. n |-> RawEnd(exe.table[i])]
           S == {f[i] : i \in 1 .. n}
           end == MaxOf(S, 0)
           body == alignUp(end, exe.fa)
           head == alignUp(exe.soh, exe.fa)
<1>1. n \in Nat /\ DOMAIN exe.table = 1 .. n /\ exe.fa \in Nat \ {0} /\ exe.soh \in Nat
  BY ImageFields
<1>2. \A i \in 1 .. n : f[i] = RawEnd(exe.table[i]) /\ f[i] \in Nat
  BY <1>1, ImageFields
<1>3. S = {RawEnd(exe.table[i]) : i \in DOMAIN exe.table}
  BY <1>1
<1>4. NextFile(exe) = IF body < head THEN head ELSE body
  BY <1>3 DEF NextFile
<1>5. end \in Nat /\ \A i \in 1 .. n : f[i] <= end
  <2> HIDE DEF f
  <2> QED BY <1>1, <1>2, MaxOfBounds
<1> HIDE DEF f, end
<1>6. /\ head \in Nat /\ head % exe.fa = 0 /\ exe.soh <= head
      /\ body \in Nat /\ body % exe.fa = 0 /\ end <= body
  BY <1>1, <1>5, AlignUpBounds DEF alignUp
<1> HIDE DEF head, body
<1> QED BY <1>1, <1>2, <1>4, <1>5, <1>6

-------------------------------------------------------------------------------
(* Appender: splicing the new headers into the table *)

\* Where the entries of the new table come from.
LEMMA SplicedEntries ==
  ASSUME NEW S, NEW t \in Seq(S), NEW new \in Seq(S), NEW n \in 0 .. Len(t)
  PROVE  LET u == Spliced(t, n, new) IN
         /\ u \in Seq(S) /\ Len(u) = Len(t) + Len(new)
         /\ \A i \in 1 .. n : u[i] = t[i]
         /\ \A k \in 1 .. Len(new) : u[n + k] = new[k]
         /\ \A i \in n + 1 .. Len(t) : u[i + Len(new)] = t[i]
<1> DEFINE front == SubSeq(t, 1, n)
           back  == SubSeq(t, n + 1, Len(t))
           head  == front \o new
           u     == head \o back
<1>1. Len(t) \in Nat /\ Len(new) \in Nat /\ n \in Nat /\ n <= Len(t)
  BY LenProperties
<1>2. \A i \in 1 .. Len(t) : t[i] \in S
  BY ElementOfSeq
<1>3. front \in Seq(S) /\ Len(front) = n /\ \A i \in 1 .. n : front[i] = t[i]
  BY <1>1, <1>2, SubSeqProperties
<1>4. /\ back \in Seq(S) /\ Len(back) = Len(t) - n
      /\ \A i \in 1 .. Len(t) - n : back[i] = t[n + i]
  BY <1>1, <1>2, SubSeqProperties
<1> HIDE DEF front, back
<1>5. /\ head \in Seq(S) /\ Len(head) = n + Len(new)
      /\ \A i \in 1 .. n + Len(new) : head[i] = IF i <= n THEN front[i] ELSE new[i - n]
  BY <1>3, ConcatProperties
<1> HIDE DEF head
<1>6. /\ u \in Seq(S) /\ Len(u) = n + Len(new) + (Len(t) - n)
      /\ \A i \in 1 .. n + Len(new) + (Len(t) - n) :
           u[i] = IF i <= n + Len(new) THEN head[i] ELSE back[i - (n + Len(new))]
  <2>1. /\ u \in Seq(S) /\ Len(u) = Len(head) + Len(back)
        /\ \A i \in 1 .. Len(head) + Len(back) :
             u[i] = IF i <= Len(head) THEN head[i] ELSE back[i - Len(head)]
    BY <1>4, <1>5, ConcatProperties
  <2> QED BY <1>4, <1>5, <2>1
<1> HIDE DEF u
<1>7. Len(u) = Len(t) + Len(new)
  BY <1>1, <1>6
<1>8. ASSUME NEW i \in 1 .. n PROVE u[i] = t[i]
  <2>1. i \in 1 .. n + Len(new) /\ i \in 1 .. n + Len(new) + (Len(t) - n)
        /\ i <= n /\ i <= n + Len(new)
    BY <1>1
  <2> QED BY <1>3, <1>5, <1>6, <2>1
<1>9. ASSUME NEW k \in 1 .. Len(new) PROVE u[n + k] = new[k]
  <2>1. /\ n + k \in 1 .. n + Len(new) /\ n + k \in 1 .. n + Len(new) + (Len(t) - n)
        /\ ~(n + k <= n) /\ n + k <= n + Len(new) /\ (n + k) - n = k
    BY <1>1
  <2> QED BY <1>5, <1>6, <2>1
<1>10. ASSUME NEW i \in n + 1 .. Len(t) PROVE u[i + Len(new)] = t[i]
  <2>1. /\ i + Len(new) \in 1 .. n + Len(new) + (Len(t) - n)
        /\ ~(i + Len(new) <= n + Len(new))
        /\ (i + Len(new)) - (n + Len(new)) = i - n
        /\ i - n \in 1 .. Len(t) - n /\ n + (i - n) = i
    BY <1>1
  <2> QED BY <1>4, <1>6, <2>1
<1>11. Spliced(t, n, new) = u
  BY DEF Spliced, front, back, head, u
<1> QED BY <1>6, <1>7, <1>8, <1>9, <1>10, <1>11

-------------------------------------------------------------------------------
(* Appender: runs of bytes *)

\* Cutting a file off keeps the runs in front of the cut as they are.
LEMMA CutOffKeeps ==
  ASSUME NEW runs \in SUBSET Run, NEW n \in Nat
  PROVE  /\ CutOff(runs, n) \subseteq Run
         /\ \A r \in runs : r.at < n /\ r.at + r.len <= n => r \in CutOff(runs, n)
<1> DEFINE cut(r) == [r EXCEPT !.len = IF r.at + r.len > n THEN n - r.at ELSE r.len]
<1>1. CutOff(runs, n) = {cut(r) : r \in {q \in runs : q.at < n}}
  BY DEF CutOff
<1>2. ASSUME NEW r \in runs, r.at < n PROVE cut(r) \in Run
  BY <1>2 DEF Run
<1>3. ASSUME NEW r \in runs, r.at < n, r.at + r.len <= n PROVE cut(r) = r
  <2>1. r \in Run /\ r.at \in Nat /\ r.len \in Nat
    BY DEF Run
  <2>2. ~(r.at + r.len > n)
    BY <1>3, <2>1
  <2> QED BY <2>1, <2>2 DEF Run
<1> HIDE DEF cut
<1> QED BY <1>1, <1>2, <1>3

LEMMA ShiftedRuns ==
  ASSUME NEW runs \in SUBSET Run, NEW n \in Nat
  PROVE  /\ Shifted(runs, n) \subseteq Run
         /\ \A r \in runs : [at |-> r.at + n, len |-> r.len, id |-> r.id] \in Shifted(runs, n)
<1> DEFINE moved(r) == [r EXCEPT !.at = @ + n]
<1>1. Shifted(runs, n) = {moved(r) : r \in runs}
  BY DEF Shifted
<1>2. ASSUME NEW r \in runs
      PROVE  moved(r) \in Run /\ moved(r) = [at |-> r.at + n, len |-> r.len, id |-> r.id]
  BY DEF Run
<1> HIDE DEF moved
<1> QED BY <1>1, <1>2

-------------------------------------------------------------------------------
(* Appender: accepting and refusing a call *)

LEMMA AppendInitInv == AppendInit => AppendInv
<1> SUFFICES ASSUME AppendInit PROVE AppendInv
  OBVIOUS
<1> USE DEF AppendInit
<1>1. /\ image \in Image /\ image.sa > 0 /\ image.fa > 0 /\ MaxCalls \in Nat
      /\ Sound(image) /\ Held(image) /\ Marked(image)
  BY ImagesAssumption
<1>2. list \in Seq(NewSection) /\ headers \in Seq(SectionHeader) /\ Len(headers) = 0 /\ Len(list) = 0
  BY EmptySeq
<1>3. AppendTypeOK
  BY <1>1, <1>2 DEF AppendTypeOK
<1>4. MarksInv /\ PromisesInv
  BY <1>1 DEF Marked, MarksInv, PromisesInv
<1> QED BY <1>1, <1>3, <1>4 DEF AppendInv

\* The entry that a call inserts before, if it names one.
First(n) == CHOOSE i \in Named(image, n) : \A j \in Named(image, n) : i <= j

LEMMA FirstIsNamed ==
  ASSUME image \in Image, NEW n, Named(image, n) /= {}
  PROVE  First(n) \in DOMAIN image.table
<1>1. Named(image, n) \in SUBSET Nat
  BY ImageFields DEF Named
<1>2. \E i \in Named(image, n) : \A j \in Named(image, n) : i <= j
  BY <1>1, LeastExists
<1> QED BY <1>2 DEF First, Named

\* Where a call inserts: at the end of the table, or before the named entry.
LEMMA InsertionPoint ==
  ASSUME image \in Image, NEW n, n = None \/ Named(image, n) /= {}
  PROVE  /\ InsertAt(image, n) \in 0 .. Len(image.table)
         /\ n /= None => InsertAt(image, n) + 1 = First(n) /\ First(n) \in DOMAIN image.table
<1>1. Len(image.table) \in Nat /\ DOMAIN image.table = 1 .. Len(image.table)
  BY ImageFields
<1>2. CASE n = None
  BY <1>1, <1>2 DEF InsertAt
<1>3. CASE n /= None
  <2>1. First(n) \in 1 .. Len(image.table)
    BY <1>1, <1>3, FirstIsNamed
  <2>2. InsertAt(image, n) = First(n) - 1
    BY <1>3 DEF InsertAt, First
  <2> QED BY <1>1, <1>3, <2>1, <2>2
<1> QED BY <1>2, <1>3

LEMMA AcceptStep ==
  ASSUME AppendInv, NEW n \in SectionNames, NEW l \in SectionLists, Accept(n, l)
  PROVE  AppendInv'
<1>1. /\ image \in Image /\ image.sa > 0 /\ image.fa > 0 /\ calls \in 0 .. MaxCalls
      /\ MaxCalls \in Nat
  BY ImagesAssumption DEF AppendInv, AppendTypeOK
<1>2. /\ doing = "idle" /\ calls < MaxCalls /\ doing' = "place" /\ calls' = calls + 1
      /\ list' = l /\ insertAt' = InsertAt(image, n) /\ image' = image
      /\ headers' = << >> /\ appended' = {} /\ bytes' = 0
      /\ nextVA' = NextVA(image) /\ nextFile' = NextFile(image)
      /\ Fits(image, l) /\ (n = None \/ Named(image, n) /= {})
  BY DEF Accept, Refused
<1>3. before' = IF n = None THEN before
                ELSE before \cup {<< <<calls + 1, k>>, image.table[First(n)].id >> : k \in DOMAIN l}
  BY DEF Accept, First
<1>4. l \in Seq(NewSection) /\ DOMAIN l = 1 .. Len(l) /\ Len(l) \in Nat
  BY ImagesAssumption, LenProperties
<1>5. /\ NextVA(image) \in Nat /\ NextVA(image) % image.sa = 0
      /\ \A i \in DOMAIN image.table : VirtualEnd(image.table[i]) <= NextVA(image)
  BY <1>1, NextVABehind
<1>6. /\ NextFile(image) \in Nat /\ NextFile(image) % image.fa = 0
      /\ image.soh <= NextFile(image)
      /\ \A i \in DOMAIN image.table : RawEnd(image.table[i]) <= NextFile(image)
  BY <1>1, NextFileBehind
<1>7. /\ InsertAt(image, n) \in 0 .. Len(image.table)
      /\ n /= None => InsertAt(image, n) + 1 = First(n) /\ First(n) \in DOMAIN image.table
  BY <1>1, <1>2, InsertionPoint
<1>8. << >> \in Seq(SectionHeader) /\ Len(<< >>) = 0 /\ DOMAIN << >> = {}
  BY EmptySeq
<1>9. \A i \in DOMAIN image.table : image.table[i].id \in Nat \X Nat
  BY <1>1, ImageFields DEF SectionHeader
<1>10. ASSUME NEW p \in before' \ before
       PROVE  /\ n /= None /\ p \in (Nat \X Nat) \X (Nat \X Nat)
              /\ p[1][1] = calls + 1 /\ p[2] = image.table[First(n)].id
              /\ p[2][1] < p[1][1]
  <2>1. PICK k \in DOMAIN l : n /= None /\ p = << <<calls + 1, k>>, image.table[First(n)].id >>
    BY <1>3
  <2>2. k \in Nat /\ calls + 1 \in Nat /\ First(n) \in DOMAIN image.table
    BY <1>1, <1>4, <1>7, <2>1
  <2>3. image.table[First(n)].id \in Nat \X Nat /\ image.table[First(n)].id[1] <= calls
    BY <1>9, <2>2 DEF AppendInv, MarksInv
  <2>4. image.table[First(n)].id[1] < calls + 1
    BY <1>1, <2>3
  <2> QED BY <2>1, <2>2, <2>3, <2>4
<1>11. before \subseteq before'
  BY <1>3
<1>12. AppendTypeOK'
  <2>1. before' \subseteq (Nat \X Nat) \X (Nat \X Nat)
    BY <1>10 DEF AppendInv, AppendTypeOK
  <2>2. calls' \in 0 .. MaxCalls /\ insertAt' \in Nat
    BY <1>1, <1>2, <1>7
  <2>3. headers' \in Seq(SectionHeader) /\ Len(headers') <= Len(list') /\ appended' \subseteq Run
    BY <1>2, <1>4, <1>8
  <2> QED BY <1>1, <1>2, <1>4, <1>5, <1>6, <2>1, <2>2, <2>3 DEF AppendTypeOK
<1>13. Sound(image)' /\ Held(image)'
  BY <1>2 DEF AppendInv, Sound, Held, TableEnd, Apart, VirtualEnd, RawEnd
<1>14. \A i \in DOMAIN image.table : /\ image.table[i].id[1] \in Nat
                                     /\ image.table[i].id[1] < calls + 1
  BY <1>1, <1>2, <1>9 DEF AppendInv, MarksInv
<1>15. MarksInv'
  BY <1>1, <1>2, <1>14 DEF AppendInv, MarksInv
<1>16. PromisesInv'
  <2>1. ASSUME NEW p \in before'
        PROVE  /\ p[2][1] < p[1][1] /\ p[1][1] <= calls'
               /\ p[1][1] = calls' => /\ insertAt' + 1 \in DOMAIN image'.table
                                      /\ p[2] = image'.table[insertAt' + 1].id
    <3>1. CASE p \in before
      <4>1. p[2][1] < p[1][1] /\ p[1][1] <= calls /\ p[1][1] \in Nat
        BY <3>1 DEF AppendInv, PromisesInv, AppendTypeOK
      <4>2. p[1][1] <= calls + 1 /\ p[1][1] /= calls + 1
        BY <1>1, <4>1
      <4> QED BY <1>2, <4>1, <4>2
    <3>2. CASE p \notin before
      <4>1. p[1][1] <= calls'
        BY <1>1, <1>2, <1>10, <3>2
      <4> QED BY <1>2, <1>7, <1>10, <3>2, <4>1
    <3> QED BY <3>1, <3>2
  <2>2. ASSUME NEW i \in DOMAIN image.table, NEW j \in DOMAIN image.table,
               <<image.table[i].id, image.table[j].id>> \in before'
        PROVE  i < j
    <3> DEFINE p == <<image.table[i].id, image.table[j].id>>
    <3>1. p \in before
      <4>1. p[1][1] /= calls + 1
        BY <1>1, <1>14
      <4> QED BY <1>10, <2>2, <4>1
    <3> QED BY <3>1 DEF AppendInv, PromisesInv
  <2> QED BY <1>2, <2>1, <2>2 DEF PromisesInv
<1>17. LoopInv'
  <2>1. Aligned' = NextFile(image)
    BY <1>2, <1>6 DEF Aligned
  <2>2. Fits(image, list)'
    BY <1>2 DEF Fits, TableEnd
  <2>3. DOMAIN headers' = {}
    BY <1>2, <1>8
  <2>4. /\ nextVA' % image'.sa = 0 /\ nextFile' % image'.fa = 0
        /\ Aligned' >= image'.soh /\ insertAt' \in 0 .. Len(image'.table)
    BY <1>1, <1>2, <1>5, <1>6, <1>7, <2>1, ImageFields
  <2>5. \A i \in DOMAIN image'.table :
          VirtualEnd(image'.table[i]) <= nextVA' /\ RawEnd(image'.table[i]) <= Aligned'
    BY <1>2, <1>5, <1>6, <2>1
  <2> QED BY <2>2, <2>3, <2>4, <2>5 DEF LoopInv, VirtualEnd, RawEnd
<1> QED BY <1>12, <1>13, <1>15, <1>16, <1>17 DEF AppendInv

LEMMA RefuseStep ==
  ASSUME AppendInv, NEW n \in SectionNames, NEW l \in SectionLists, Refuse(n, l)
  PROVE  AppendInv'
<1>1. /\ doing = "idle" /\ doing' = doing /\ calls' = calls + 1 /\ calls < MaxCalls
      /\ UNCHANGED <<image, list, insertAt, headers, appended, bytes, nextVA, nextFile, before>>
      /\ calls \in 0 .. MaxCalls /\ MaxCalls \in Nat
  BY ImagesAssumption DEF Refuse, AppendInv, AppendTypeOK
<1>2. AppendTypeOK'
  BY <1>1 DEF AppendInv, AppendTypeOK
<1>3. Sound(image)' /\ Held(image)'
  BY <1>1 DEF AppendInv, Sound, Held, TableEnd, Apart, VirtualEnd, RawEnd
<1>4. \A i \in DOMAIN image.table : image.table[i].id[1] \in Nat
  BY ImageFields DEF AppendInv, AppendTypeOK, SectionHeader
<1>5. MarksInv'
  BY <1>1, <1>4 DEF AppendInv, MarksInv
<1>6. \A p \in before : p[1][1] \in Nat
  BY DEF AppendInv, AppendTypeOK
<1>7. PromisesInv'
  BY <1>1, <1>6 DEF AppendInv, PromisesInv
<1> QED BY <1>1, <1>2, <1>3, <1>5, <1>7 DEF AppendInv

-------------------------------------------------------------------------------
(* Appender: the loop over the new sections *)

\* One iteration in the terms of the proofs: header h is made.
PlaceWrites(k, s, h) ==
  /\ doing = "place" /\ UNCHANGED <<image, list, insertAt, calls, before, doing>>
  /\ k = Len(headers) + 1 /\ k <= Len(list) /\ s \in NewSection
  /\ h = [name |-> s.name, vsize |-> s.len, rva |-> nextVA,
          raw |-> RawSize(s.len), foff |-> nextFile, id |-> <<calls, k>>]
  /\ h \in SectionHeader /\ RawSize(s.len) \in Nat /\ RawSize(s.len) % image.fa = 0
  /\ headers' \in Seq(SectionHeader) /\ Len(headers') = k /\ DOMAIN headers' = 1 .. k
  /\ headers'[k] = h /\ \A i \in DOMAIN headers : i < k /\ headers'[i] = headers[i]
  /\ \A i \in 1 .. k : i = k \/ i \in DOMAIN headers
  /\ appended' = appended \cup {[at |-> bytes, len |-> h.raw, id |-> h.id]}
  /\ bytes' = bytes + h.raw /\ nextFile' = nextFile + h.raw
  /\ nextVA' \in Nat /\ nextVA' % image.sa = 0 /\ nextVA + h.vsize <= nextVA'

LEMMA PlaceHeader ==
  ASSUME AppendTypeOK, Place
  PROVE  \E k, s, h : PlaceWrites(k, s, h)
<1> DEFINE k == Len(headers) + 1
           s == list[k]
           h == [name |-> s.name, vsize |-> s.len, rva |-> nextVA,
                 raw |-> RawSize(s.len), foff |-> nextFile, id |-> <<calls, k>>]
<1>1. /\ image \in Image /\ image.sa \in Nat \ {0} /\ image.fa \in Nat \ {0}
      /\ headers \in Seq(SectionHeader) /\ Len(headers) \in Nat /\ DOMAIN headers = 1 .. Len(headers)
      /\ list \in Seq(NewSection) /\ Len(list) \in Nat
      /\ nextVA \in Nat /\ nextFile \in Nat /\ bytes \in Nat /\ calls \in Nat
  BY ImageFields, LenProperties DEF AppendTypeOK
<1>2. /\ doing = "place" /\ UNCHANGED <<image, list, insertAt, calls, before, doing>>
      /\ k <= Len(list) /\ headers' = Append(headers, h)
      /\ appended' = appended \cup {[at |-> bytes, len |-> RawSize(s.len), id |-> <<calls, k>>]}
      /\ bytes' = bytes + RawSize(s.len) /\ nextFile' = nextFile + RawSize(s.len)
      /\ nextVA' = alignUp(nextVA + s.len, image.sa)
  BY DEF Place
<1>3. s \in NewSection /\ k \in Nat
  <2>1. k \in 1 .. Len(list)
    BY <1>1, <1>2
  <2> QED BY <1>1, <2>1, ElementOfSeq
<1>4. s.len \in Nat /\ s.name \in SectionNames
  BY <1>3 DEF NewSection
<1> HIDE DEF s
<1>5. RawSize(s.len) \in Nat /\ RawSize(s.len) % image.fa = 0
  BY <1>1, <1>4, AlignUpBounds DEF RawSize, alignUp
<1>6. h \in SectionHeader
  BY <1>1, <1>3, <1>4, <1>5 DEF SectionHeader
<1>7. nextVA' \in Nat /\ nextVA' % image.sa = 0 /\ nextVA + s.len <= nextVA'
  <2>1. nextVA + s.len \in Nat
    BY <1>1, <1>4
  <2> QED BY <1>1, <1>2, <2>1, AlignUpBounds DEF alignUp
<1>8. h.raw = RawSize(s.len) /\ h.id = <<calls, k>> /\ h.vsize = s.len
  OBVIOUS
<1>9. h = [name |-> s.name, vsize |-> s.len, rva |-> nextVA,
           raw |-> RawSize(s.len), foff |-> nextFile, id |-> <<calls, k>>]
  OBVIOUS
<1> HIDE DEF h
<1>10. /\ headers' \in Seq(SectionHeader) /\ Len(headers') = k /\ DOMAIN headers' = 1 .. k
       /\ headers'[k] = h /\ \A i \in DOMAIN headers : headers'[i] = headers[i]
  BY <1>1, <1>2, <1>6, AppendProperties, LenProperties
<1>11. /\ \A i \in DOMAIN headers : i < k
       /\ \A i \in 1 .. k : i = k \/ i \in DOMAIN headers
  BY <1>1
<1>12. k = Len(headers) + 1
  OBVIOUS
<1> HIDE DEF k
<1>13. PlaceWrites(k, s, h)
  BY <1>2, <1>3, <1>5, <1>6, <1>7, <1>8, <1>9, <1>10, <1>11, <1>12 DEF PlaceWrites
<1> QED BY <1>13

LEMMA PlaceTyped ==
  ASSUME AppendTypeOK, Place
  PROVE  AppendTypeOK'
<1>1. PICK k, s, h : PlaceWrites(k, s, h)
  BY PlaceHeader
<1>2. h.raw \in Nat /\ h.id \in Nat \X Nat
  BY <1>1 DEF PlaceWrites, SectionHeader
<1>3. bytes' \in Nat /\ nextFile' \in Nat /\ nextVA' \in Nat
  BY <1>1, <1>2, SMTT(30) DEF PlaceWrites, AppendTypeOK
<1>4. appended' \subseteq Run
  <2>1. [at |-> bytes, len |-> h.raw, id |-> h.id] \in Run
    BY <1>2 DEF Run, AppendTypeOK
  <2> QED BY <1>1, <2>1 DEF PlaceWrites, AppendTypeOK
<1> QED BY <1>1, <1>3, <1>4 DEF PlaceWrites, AppendTypeOK

LEMMA PlaceStep ==
  ASSUME AppendInv, Place
  PROVE  AppendInv'
<1>1. PICK k, s, h : PlaceWrites(k, s, h)
  BY PlaceHeader DEF AppendInv
<1>2. /\ doing = "place" /\ UNCHANGED <<image, list, insertAt, calls, before, doing>>
      /\ LoopInv /\ AppendTypeOK
  BY <1>1 DEF PlaceWrites, AppendInv
<1>3. AppendTypeOK'
  BY <1>2, PlaceTyped
<1>4. Sound(image)' /\ Held(image)' /\ MarksInv' /\ PromisesInv'
  BY <1>2 DEF AppendInv, Sound, Held, TableEnd, Apart, VirtualEnd, RawEnd, MarksInv, PromisesInv
<1>5. /\ image \in Image /\ image.sa \in Nat \ {0} /\ image.fa \in Nat \ {0}
      /\ nextVA \in Nat /\ nextFile \in Nat /\ bytes \in Nat
      /\ headers \in Seq(SectionHeader)
  BY <1>2, ImageFields DEF AppendTypeOK
<1>6. /\ h.rva = nextVA /\ h.foff = nextFile /\ h.id = <<calls, k>>
      /\ h.raw \in Nat /\ h.vsize \in Nat /\ h.raw % image.fa = 0
  BY <1>1 DEF PlaceWrites, SectionHeader
<1>7. /\ bytes' = bytes + h.raw /\ nextFile' = nextFile + h.raw
      /\ nextVA' \in Nat /\ nextVA' % image.sa = 0 /\ nextVA + h.vsize <= nextVA'
  BY <1>1, <1>6 DEF PlaceWrites
<1>8. Aligned' = Aligned /\ nextVA <= nextVA' /\ nextFile <= nextFile' /\ Aligned <= nextFile
      /\ Aligned \in Int
  <2> DEFINE r == h.raw
             z == h.vsize
  <2>1. /\ r \in Nat /\ z \in Nat /\ bytes' = bytes + r /\ nextFile' = nextFile + r
        /\ nextVA' \in Nat /\ nextVA + z <= nextVA'
    BY <1>6, <1>7
  <2> HIDE DEF r, z
  <2>2. Aligned' = Aligned /\ Aligned <= nextFile /\ Aligned \in Int
    BY <1>5, <2>1 DEF Aligned
  <2>3. nextVA <= nextVA' /\ nextFile <= nextFile'
    BY <1>5, <2>1
  <2> QED BY <2>2, <2>3
<1>9. nextVA % image.sa = 0 /\ nextFile % image.fa = 0
  BY <1>2 DEF LoopInv
<1>10. nextFile' % image.fa = 0
  BY <1>5, <1>6, <1>7, <1>9, SumAligned
<1>11. Placed(h)'
  <2>1. VirtualEnd(h) <= nextVA' /\ RawEnd(h) <= nextFile' /\ h.foff >= Aligned
    BY <1>5, <1>6, <1>7, <1>8 DEF VirtualEnd, RawEnd
  <2>2. h.foff - Aligned = bytes
    BY <1>5, <1>6 DEF Aligned
  <2>3. [at |-> h.foff - Aligned, len |-> h.raw, id |-> h.id] \in appended'
    BY <1>1, <2>2 DEF PlaceWrites
  <2>4. h.rva % image.sa = 0 /\ h.foff % image.fa = 0 /\ h.raw % image.fa = 0
    BY <1>6, <1>9
  <2> QED BY <1>2, <1>8, <2>1, <2>3, <2>4 DEF Placed
<1>12. ASSUME NEW i \in DOMAIN headers
       PROVE  /\ headers'[i] = headers[i] /\ i < k
              /\ headers[i].id = <<calls, i>> /\ Placed(headers[i])'
              /\ VirtualEnd(headers[i]) <= h.rva /\ RawEnd(headers[i]) <= h.foff
  <2>1. /\ headers'[i] = headers[i] /\ i < k
    BY <1>1 DEF PlaceWrites
  <2>2. headers[i].id = <<calls, i>> /\ Placed(headers[i])
    BY <1>2 DEF LoopInv
  <2>3. VirtualEnd(headers[i]) \in Nat /\ RawEnd(headers[i]) \in Nat
    <3>1. headers[i] \in SectionHeader
      BY <1>5, LenProperties, ElementOfSeq
    <3> QED BY <3>1 DEF SectionHeader, VirtualEnd, RawEnd
  <2>4. VirtualEnd(headers[i]) <= nextVA /\ RawEnd(headers[i]) <= nextFile
    BY <2>2 DEF Placed
  <2>5. VirtualEnd(headers[i]) <= nextVA' /\ RawEnd(headers[i]) <= nextFile'
    BY <1>5, <1>6, <1>7, <1>8, <2>3, <2>4, SMTT(30)
  <2>6. [at |-> headers[i].foff - Aligned, len |-> headers[i].raw, id |-> headers[i].id]
          \in appended'
    BY <1>1, <2>2 DEF Placed, PlaceWrites
  <2> DEFINE g == headers[i]
  <2>7. Placed(g)'
    <3>1. /\ g.rva % image.sa = 0 /\ g.foff % image.fa = 0 /\ g.raw % image.fa = 0
          /\ g.foff >= Aligned
      BY <2>2 DEF Placed
    <3>2. headers'[i].foff - Aligned' = g.foff - Aligned
      BY <1>8, <2>1
    <3> QED BY <1>2, <1>8, <2>1, <2>5, <2>6, <3>1 DEF Placed
  <2> QED BY <1>6, <2>1, <2>2, <2>4, <2>7
<1>13. \A j \in DOMAIN headers' : headers'[j].id = <<calls, j>> /\ Placed(headers[j])'
  <2> TAKE j \in DOMAIN headers'
  <2>1. j = k \/ j \in DOMAIN headers
    BY <1>1 DEF PlaceWrites
  <2>2. ASSUME j = k PROVE headers'[j].id = <<calls, j>> /\ Placed(headers[j])'
    <3>1. headers'[j] = h
      BY <1>1, <2>2 DEF PlaceWrites
    <3> QED BY <1>6, <1>11, <2>2, <3>1 DEF Placed
  <2> QED BY <1>12, <2>1, <2>2
<1>14. ASSUME NEW i \in DOMAIN headers', NEW j \in DOMAIN headers', i < j
       PROVE  VirtualEnd(headers'[i]) <= headers'[j].rva /\ RawEnd(headers'[i]) <= headers'[j].foff
  <2>1. (i = k \/ i \in DOMAIN headers) /\ (j = k \/ j \in DOMAIN headers) /\ k \in Nat
    BY <1>1, <1>5, LenProperties DEF PlaceWrites
  <2>2. i \in DOMAIN headers
    <3>1. i /= k
      <4>1. j \in DOMAIN headers => j < k /\ j \in Nat
        BY <1>5, <1>12, LenProperties
      <4> QED BY <1>14, <2>1, <4>1
    <3> QED BY <2>1, <3>1
  <2>3. CASE j = k
    BY <1>1, <1>12, <2>2, <2>3 DEF PlaceWrites
  <2>4. CASE j \in DOMAIN headers
    BY <1>2, <1>12, <1>14, <2>2, <2>4 DEF LoopInv
  <2> QED BY <2>1, <2>3, <2>4
<1>15. ASSUME NEW i \in DOMAIN image.table
       PROVE  LET s0 == image.table[i] IN
              /\ VirtualEnd(s0) <= nextVA' /\ RawEnd(s0) <= Aligned'
              /\ \A j \in DOMAIN headers' : VirtualEnd(s0) <= headers'[j].rva
  <2> DEFINE e == VirtualEnd(image.table[i])
  <2>1. e \in Nat
    BY <1>5, ImageFields
  <2>2. /\ e <= nextVA /\ RawEnd(image.table[i]) <= Aligned
        /\ \A j \in DOMAIN headers : e <= headers[j].rva
    BY <1>2 DEF LoopInv
  <2>3. e <= nextVA'
    <3> HIDE DEF e
    <3> QED BY <1>5, <1>7, <1>8, <2>1, <2>2
  <2>4. \A j \in DOMAIN headers' : e <= headers'[j].rva
    <3> HIDE DEF e
    <3> TAKE j \in DOMAIN headers'
    <3>1. j = k \/ j \in DOMAIN headers
      BY <1>1 DEF PlaceWrites
    <3>2. headers'[k] = h
      BY <1>1 DEF PlaceWrites
    <3> QED BY <1>6, <1>12, <2>2, <3>1, <3>2
  <2> QED BY <1>8, <2>2, <2>3, <2>4
<1>16. /\ Fits(image, list)' /\ insertAt' \in 0 .. Len(image'.table)
       /\ nextVA' % image'.sa = 0 /\ nextFile' % image'.fa = 0 /\ Aligned' >= image'.soh
  BY <1>2, <1>7, <1>8, <1>10 DEF LoopInv, Fits, TableEnd
<1>17. LoopInv'
  BY <1>2, <1>13, <1>14, <1>15, <1>16 DEF LoopInv, VirtualEnd, RawEnd
<1> QED BY <1>2, <1>3, <1>4, <1>17 DEF AppendInv

-------------------------------------------------------------------------------
(* Appender: writing the output *)

\* Where the old and the new entries are in the new table.
OldAt(i) == IF i <= insertAt THEN i ELSE i + Len(headers)
NewAt(k) == insertAt + k

\* The new image, field by field and entry by entry.
WrittenOut(exe) ==
  /\ exe.soh = image.soh /\ exe.start = image.start
  /\ exe.sa = image.sa /\ exe.fa = image.fa
  /\ exe.soi = nextVA /\ exe.len = nextFile
  /\ Len(exe.table) = Len(image.table) + Len(headers)
  /\ \A i \in DOMAIN image.table :
       OldAt(i) \in DOMAIN exe.table /\ exe.table[OldAt(i)] = image.table[i]
  /\ \A k \in DOMAIN headers :
       NewAt(k) \in DOMAIN exe.table /\ exe.table[NewAt(k)] = headers[k]
  /\ \A m \in DOMAIN exe.table : \/ \E i \in DOMAIN image.table : m = OldAt(i)
                                 \/ \E k \in DOMAIN headers : m = NewAt(k)
  /\ \A r \in image.runs : r.at < Aligned /\ r.at + r.len <= Aligned => r \in exe.runs
  /\ \A r \in appended :
       [at |-> r.at + Aligned, len |-> r.len, id |-> r.id] \in exe.runs

LEMMA WriteStep ==
  ASSUME AppendTypeOK, LoopInv, Write
  PROVE  WrittenOut(image') /\ image' \in Image
<1> DEFINE table == image.table
           new   == Spliced(table, insertAt, headers)
           runs  == CutOff(image.runs, Aligned) \cup Shifted(appended, Aligned)
<1>1. /\ image \in Image /\ table \in Seq(SectionHeader) /\ headers \in Seq(SectionHeader)
      /\ Len(table) \in Nat /\ DOMAIN table = 1 .. Len(table)
      /\ Len(headers) \in Nat /\ DOMAIN headers = 1 .. Len(headers)
      /\ insertAt \in 0 .. Len(table) /\ image.soh \in Nat
      /\ bytes \in Nat /\ nextFile \in Nat /\ nextVA \in Nat
      /\ image.runs \in SUBSET Run /\ appended \in SUBSET Run
  BY LenProperties, ImageFields DEF AppendTypeOK, LoopInv, Image
<1>2. Aligned \in Nat /\ Aligned + bytes = nextFile
  BY <1>1 DEF LoopInv, Aligned
<1>3. image' = [image EXCEPT !.table = new, !.soi = nextVA, !.len = Aligned + bytes,
                             !.runs = runs]
  BY DEF Write
<1>4. /\ new \in Seq(SectionHeader) /\ Len(new) = Len(table) + Len(headers)
      /\ \A i \in 1 .. insertAt : new[i] = table[i]
      /\ \A k \in 1 .. Len(headers) : new[insertAt + k] = headers[k]
      /\ \A i \in insertAt + 1 .. Len(table) : new[i + Len(headers)] = table[i]
  <2> HIDE DEF table
  <2> QED BY <1>1, SplicedEntries
<1>5. /\ runs \in SUBSET Run
      /\ \A r \in image.runs : r.at < Aligned /\ r.at + r.len <= Aligned => r \in runs
      /\ \A r \in appended : [at |-> r.at + Aligned, len |-> r.len, id |-> r.id] \in runs
  BY <1>1, <1>2, CutOffKeeps, ShiftedRuns
<1> HIDE DEF new, runs
<1>6. image' \in Image
  BY <1>1, <1>2, <1>3, <1>4, <1>5 DEF Image
<1>7. /\ image'.table = new /\ image'.soi = nextVA /\ image'.len = nextFile
      /\ image'.runs = runs
      /\ image'.soh = image.soh /\ image'.start = image.start
      /\ image'.sa = image.sa /\ image'.fa = image.fa
  BY <1>1, <1>2, <1>3 DEF Image
<1>8. DOMAIN new = 1 .. Len(table) + Len(headers)
  BY <1>4, LenProperties
<1>9. ASSUME NEW i \in DOMAIN table PROVE OldAt(i) \in DOMAIN new /\ new[OldAt(i)] = table[i]
  <2>1. CASE i <= insertAt
    <3>1. i \in 1 .. insertAt /\ i \in DOMAIN new
      BY <1>1, <1>8, <2>1
    <3> QED BY <1>4, <2>1, <3>1 DEF OldAt
  <2>2. CASE ~(i <= insertAt)
    <3>1. i \in insertAt + 1 .. Len(table) /\ i + Len(headers) \in DOMAIN new
      BY <1>1, <1>8, <2>2
    <3> QED BY <1>4, <2>2, <3>1 DEF OldAt
  <2> QED BY <2>1, <2>2
<1>10. ASSUME NEW k \in DOMAIN headers
       PROVE  NewAt(k) \in DOMAIN new /\ new[NewAt(k)] = headers[k]
  BY <1>1, <1>4, <1>8 DEF NewAt
<1>11. ASSUME NEW m \in DOMAIN new
       PROVE  \/ \E i \in DOMAIN table : m = OldAt(i)
              \/ \E k \in DOMAIN headers : m = NewAt(k)
  <2>1. CASE m <= insertAt
    <3>1. m \in DOMAIN table /\ OldAt(m) = m
      BY <1>1, <1>8, <2>1 DEF OldAt
    <3> QED BY <3>1
  <2>2. CASE ~(m <= insertAt) /\ m <= insertAt + Len(headers)
    <3>1. m - insertAt \in DOMAIN headers /\ NewAt(m - insertAt) = m
      BY <1>1, <1>8, <2>2 DEF NewAt
    <3> QED BY <3>1
  <2>3. CASE ~(m <= insertAt + Len(headers))
    <3>1. m - Len(headers) \in DOMAIN table /\ OldAt(m - Len(headers)) = m
      BY <1>1, <1>8, <2>3 DEF OldAt
    <3> QED BY <3>1
  <2> QED BY <2>1, <2>2, <2>3
<1> QED BY <1>4, <1>5, <1>6, <1>7, <1>9, <1>10, <1>11, SMTT(30) DEF WrittenOut

\* What an old and a new entry have to do with the image that is written.
OldFacts(s) ==
  /\ s \in SectionHeader /\ s.rva \in Nat /\ s.foff \in Nat /\ s.raw \in Nat
  /\ VirtualEnd(s) \in Nat /\ RawEnd(s) \in Nat
  /\ s.rva % image.sa = 0 /\ VirtualEnd(s) <= nextVA /\ RawEnd(s) <= Aligned
  /\ s.raw > 0 => /\ s.foff % image.fa = 0 /\ s.raw % image.fa = 0
                  /\ s.foff >= image.soh
                  /\ s.foff < Aligned /\ RawEnd(s) <= nextFile
                  /\ [at |-> s.foff, len |-> s.raw, id |-> s.id] \in image.runs
  /\ s.id[1] < calls

NewFacts(h, k) ==
  /\ h \in SectionHeader /\ h.rva \in Nat /\ h.foff \in Nat /\ h.raw \in Nat
  /\ VirtualEnd(h) \in Nat /\ RawEnd(h) \in Nat
  /\ Placed(h) /\ h.id = <<calls, k>> /\ h.foff >= image.soh

LEMMA EntryFacts ==
  ASSUME AppendInv, doing = "place"
  PROVE  /\ \A i \in DOMAIN image.table : OldFacts(image.table[i])
         /\ \A k \in DOMAIN headers : NewFacts(headers[k], k)
<1>1. /\ AppendTypeOK /\ LoopInv /\ Sound(image) /\ Held(image) /\ MarksInv
      /\ image \in Image /\ image.soh \in Nat /\ nextFile \in Nat /\ bytes \in Nat
      /\ Aligned \in Int /\ Aligned >= image.soh /\ Aligned <= nextFile
      /\ headers \in Seq(SectionHeader)
  BY ImageFields DEF AppendInv, AppendTypeOK, LoopInv, Aligned
<1>2. ASSUME NEW i \in DOMAIN image.table PROVE OldFacts(image.table[i])
  <2> DEFINE s == image.table[i]
  <2>1. /\ s \in SectionHeader /\ s.rva \in Nat /\ s.foff \in Nat /\ s.raw \in Nat
        /\ VirtualEnd(s) \in Nat /\ RawEnd(s) \in Nat /\ RawEnd(s) = s.foff + s.raw
    BY <1>1, ImageFields DEF RawEnd
  <2>2. s.rva % image.sa = 0 /\ VirtualEnd(s) <= nextVA /\ RawEnd(s) <= Aligned
    BY <1>1 DEF Sound, LoopInv
  <2>3. s.raw > 0 => /\ s.foff % image.fa = 0 /\ s.raw % image.fa = 0
                     /\ s.foff >= image.soh
                     /\ [at |-> s.foff, len |-> s.raw, id |-> s.id] \in image.runs
    BY <1>1 DEF Sound, Held
  <2>4. s.id[1] < calls
    BY <1>1 DEF MarksInv
  <2> HIDE DEF s
  <2>5. s.raw > 0 => s.foff < Aligned /\ RawEnd(s) <= nextFile
    BY <1>1, <2>1, <2>2
  <2>6. OldFacts(s)
    BY <2>1, <2>2, <2>3, <2>4, <2>5 DEF OldFacts
  <2> QED BY <2>6 DEF s
<1>3. ASSUME NEW k \in DOMAIN headers PROVE NewFacts(headers[k], k)
  <2> DEFINE h == headers[k]
  <2>1. h \in SectionHeader
    BY <1>1, LenProperties, ElementOfSeq
  <2>2. Placed(h) /\ h.id = <<calls, k>>
    BY <1>1 DEF LoopInv
  <2> HIDE DEF h
  <2>3. /\ h.rva \in Nat /\ h.foff \in Nat /\ h.raw \in Nat
        /\ VirtualEnd(h) \in Nat /\ RawEnd(h) \in Nat
    BY <2>1 DEF SectionHeader, VirtualEnd, RawEnd
  <2>4. h.foff >= image.soh
    BY <1>1, <2>2, <2>3 DEF Placed
  <2>5. NewFacts(h, k)
    BY <2>1, <2>2, <2>3, <2>4 DEF NewFacts
  <2> QED BY <2>5 DEF h
<1> QED BY <1>2, <1>3

\* Apart is symmetric, and holds of what lies one behind the other.
LEMMA ApartBehind ==
  ASSUME NEW s, NEW t, VirtualEnd(s) <= t.rva, s.raw > 0 /\ t.raw > 0 => RawEnd(s) <= t.foff
  PROVE  Apart(s, t) /\ Apart(t, s)
BY DEF Apart

LEMMA WriteSound ==
  ASSUME AppendInv, Write, WrittenOut(image')
  PROVE  Sound(image') /\ Held(image')
<1> DEFINE u == image'.table
<1>1. /\ doing = "place" /\ AppendTypeOK /\ LoopInv /\ Sound(image) /\ MarksInv
      /\ Len(headers) = Len(list)
  BY DEF Write, AppendInv
<1>2. /\ \A i \in DOMAIN image.table : OldFacts(image.table[i])
      /\ \A k \in DOMAIN headers : NewFacts(headers[k], k)
  BY <1>1, EntryFacts
<1>3. /\ \A i \in DOMAIN image.table : u[OldAt(i)] = image.table[i]
      /\ \A k \in DOMAIN headers : u[NewAt(k)] = headers[k]
      /\ \A m \in DOMAIN u : \/ \E i \in DOMAIN image.table : m = OldAt(i)
                             \/ \E k \in DOMAIN headers : m = NewAt(k)
  BY DEF WrittenOut
<1>4. /\ image'.soh = image.soh /\ image'.start = image.start
      /\ image'.sa = image.sa /\ image'.fa = image.fa
      /\ image'.soi = nextVA /\ image'.len = nextFile
      /\ Len(u) = Len(image.table) + Len(headers)
  BY DEF WrittenOut
<1> HIDE DEF u
<1>5. TableEnd(image', Len(u)) <= image'.soh
  BY <1>1, <1>4 DEF LoopInv, Fits, TableEnd
<1>6. ASSUME NEW m \in DOMAIN u
      PROVE  /\ u[m].rva % image'.sa = 0 /\ VirtualEnd(u[m]) <= image'.soi
             /\ u[m].raw > 0 => /\ u[m].foff % image'.fa = 0 /\ u[m].raw % image'.fa = 0
                                /\ u[m].foff >= image'.soh /\ RawEnd(u[m]) <= image'.len
             /\ u[m].raw > 0 => [at |-> u[m].foff, len |-> u[m].raw, id |-> u[m].id] \in image'.runs
  <2>1. ASSUME NEW i \in DOMAIN image.table, m = OldAt(i)
        PROVE  /\ u[m].rva % image'.sa = 0 /\ VirtualEnd(u[m]) <= image'.soi
               /\ u[m].raw > 0 => /\ u[m].foff % image'.fa = 0 /\ u[m].raw % image'.fa = 0
                                  /\ u[m].foff >= image'.soh /\ RawEnd(u[m]) <= image'.len
               /\ u[m].raw > 0 => [at |-> u[m].foff, len |-> u[m].raw, id |-> u[m].id] \in image'.runs
    <3> DEFINE s == image.table[i]
               r == [at |-> s.foff, len |-> s.raw, id |-> s.id]
    <3>1. u[m] = s /\ OldFacts(s)
      BY <1>2, <1>3, <2>1
    <3>2. r.at = s.foff /\ r.len = s.raw /\ r.at + r.len = RawEnd(s)
      BY DEF RawEnd
    <3> HIDE DEF s, r
    <3>3. s.raw > 0 => r \in image'.runs
      <4>1. s.raw > 0 => r \in image.runs /\ r.at < Aligned /\ r.at + r.len <= Aligned
        BY <3>1, <3>2 DEF OldFacts, r
      <4> QED BY <4>1 DEF WrittenOut
    <3> QED BY <1>4, <3>1, <3>3 DEF OldFacts, r
  <2>2. ASSUME NEW k \in DOMAIN headers, m = NewAt(k)
        PROVE  /\ u[m].rva % image'.sa = 0 /\ VirtualEnd(u[m]) <= image'.soi
               /\ u[m].raw > 0 => /\ u[m].foff % image'.fa = 0 /\ u[m].raw % image'.fa = 0
                                  /\ u[m].foff >= image'.soh /\ RawEnd(u[m]) <= image'.len
               /\ u[m].raw > 0 => [at |-> u[m].foff, len |-> u[m].raw, id |-> u[m].id] \in image'.runs
    <3> DEFINE h == headers[k]
               r == [at |-> h.foff - Aligned, len |-> h.raw, id |-> h.id]
    <3>1. u[m] = h /\ NewFacts(h, k)
      BY <1>2, <1>3, <2>2
    <3> HIDE DEF h
    <3>2. r \in appended
      BY <3>1 DEF NewFacts, Placed
    <3>3. r.at + Aligned = h.foff /\ r.len = h.raw /\ r.id = h.id
      BY <1>1, <3>1 DEF NewFacts, Aligned, AppendTypeOK
    <3> HIDE DEF r
    <3>4. [at |-> r.at + Aligned, len |-> r.len, id |-> r.id] \in image'.runs
      BY <3>2 DEF WrittenOut
    <3>5. [at |-> h.foff, len |-> h.raw, id |-> h.id] \in image'.runs
      BY <3>3, <3>4
    <3>6. /\ h.rva % image.sa = 0 /\ VirtualEnd(h) <= nextVA
          /\ h.foff % image.fa = 0 /\ h.raw % image.fa = 0
          /\ h.foff >= image.soh /\ RawEnd(h) <= nextFile
      BY <3>1 DEF NewFacts, Placed
    <3> QED BY <1>4, <3>1, <3>5, <3>6
  <2> QED BY <1>3, <2>1, <2>2
<1>7. ASSUME NEW i \in DOMAIN image.table, NEW k \in DOMAIN headers
      PROVE  Apart(image.table[i], headers[k]) /\ Apart(headers[k], image.table[i])
  <2>1. VirtualEnd(image.table[i]) <= headers[k].rva
    BY <1>1 DEF LoopInv
  <2>2. RawEnd(image.table[i]) <= Aligned /\ headers[k].foff >= Aligned
        /\ RawEnd(image.table[i]) \in Nat /\ headers[k].foff \in Nat /\ Aligned \in Int
    <3>1. OldFacts(image.table[i]) /\ NewFacts(headers[k], k) /\ Aligned \in Int
      BY <1>1, <1>2 DEF Aligned, AppendTypeOK
    <3> QED BY <3>1 DEF OldFacts, NewFacts, Placed
  <2>3. RawEnd(image.table[i]) <= headers[k].foff
    BY <2>2
  <2> QED BY <2>1, <2>3, ApartBehind
<1>8. ASSUME NEW k \in DOMAIN headers, NEW l \in DOMAIN headers, k /= l
      PROVE  Apart(headers[k], headers[l])
  <2>1. k \in Nat /\ l \in Nat
    BY <1>1, LenProperties DEF AppendTypeOK
  <2>2. CASE k < l
    BY <1>1, <2>2, ApartBehind DEF LoopInv
  <2>3. CASE l < k
    BY <1>1, <2>3, ApartBehind DEF LoopInv
  <2> QED BY <1>8, <2>1, <2>2, <2>3
<1>9. ASSUME NEW m \in DOMAIN u, NEW q \in DOMAIN u, m /= q PROVE Apart(u[m], u[q])
  <2>1. ASSUME NEW i \in DOMAIN image.table, NEW j \in DOMAIN image.table,
               m = OldAt(i), q = OldAt(j)
        PROVE  Apart(u[m], u[q])
    BY <1>1, <1>3, <1>9, <2>1 DEF Sound
  <2>2. ASSUME NEW k \in DOMAIN headers, NEW l \in DOMAIN headers, m = NewAt(k), q = NewAt(l)
        PROVE  Apart(u[m], u[q])
    BY <1>3, <1>8, <1>9, <2>2
  <2> QED BY <1>3, <1>7, <2>1, <2>2
<1> QED BY <1>5, <1>6, <1>9 DEF Sound, Held, u

LEMMA WritePromises ==
  ASSUME AppendInv, Write, WrittenOut(image')
  PROVE  MarksInv' /\ PromisesInv'
<1> DEFINE u == image'.table
<1>1. /\ doing = "place" /\ doing' = "idle" /\ UNCHANGED <<calls, before>>
      /\ AppendTypeOK /\ LoopInv /\ MarksInv /\ PromisesInv
  BY DEF Write, AppendInv
<1>2. /\ Len(image.table) \in Nat /\ DOMAIN image.table = 1 .. Len(image.table)
      /\ Len(headers) \in Nat /\ DOMAIN headers = 1 .. Len(headers)
      /\ insertAt \in 0 .. Len(image.table) /\ calls \in Nat
      /\ \A i \in DOMAIN image.table : image.table[i].id \in Nat \X Nat
  BY <1>1, ImageFields, LenProperties DEF AppendTypeOK, LoopInv, SectionHeader
<1>3. /\ \A i \in DOMAIN image.table : u[OldAt(i)] = image.table[i]
      /\ \A k \in DOMAIN headers : u[NewAt(k)] = headers[k]
      /\ \A m \in DOMAIN u : \/ \E i \in DOMAIN image.table : m = OldAt(i)
                             \/ \E k \in DOMAIN headers : m = NewAt(k)
  BY DEF WrittenOut
<1> HIDE DEF u
<1>4. /\ \A i \in DOMAIN image.table : image.table[i].id[1] < calls /\ image.table[i].id[1] \in Nat
      /\ \A k \in DOMAIN headers : headers[k].id = <<calls, k>>
  BY <1>1, <1>2 DEF MarksInv, LoopInv
<1>5. ASSUME NEW m \in DOMAIN u, NEW q \in DOMAIN u, u[m].id = u[q].id PROVE m = q
  <2>1. ASSUME NEW i \in DOMAIN image.table, NEW j \in DOMAIN image.table,
               m = OldAt(i), q = OldAt(j)
        PROVE  m = q
    BY <1>1, <1>3, <1>5, <2>1 DEF MarksInv
  <2>2. ASSUME NEW k \in DOMAIN headers, NEW l \in DOMAIN headers, m = NewAt(k), q = NewAt(l)
        PROVE  m = q
    BY <1>3, <1>4, <1>5, <2>2
  <2>3. ASSUME NEW i \in DOMAIN image.table, NEW k \in DOMAIN headers
        PROVE  image.table[i].id /= headers[k].id
    BY <1>2, <1>4
  <2> QED BY <1>3, <1>5, <2>1, <2>2, <2>3
<1>6. ASSUME NEW m \in DOMAIN u PROVE u[m].id[1] <= calls
  <2>1. \A i \in DOMAIN image.table : image.table[i].id[1] <= calls
    BY <1>2, <1>4
  <2>2. \A k \in DOMAIN headers : headers[k].id[1] <= calls
    BY <1>2, <1>4
  <2> QED BY <1>3, <2>1, <2>2
<1>7. MarksInv'
  BY <1>1, <1>5, <1>6 DEF MarksInv, u
<1>8. ASSUME NEW m \in DOMAIN u, NEW q \in DOMAIN u, <<u[m].id, u[q].id>> \in before
      PROVE  m < q
  <2> DEFINE p == <<u[m].id, u[q].id>>
  <2>0. p[1] = u[m].id /\ p[2] = u[q].id
    OBVIOUS
  <2>1. p[2][1] < p[1][1] /\ p[1][1] <= calls
        /\ (p[1][1] = calls => insertAt + 1 \in DOMAIN image.table
                               /\ p[2] = image.table[insertAt + 1].id)
    BY <1>1, <1>8 DEF PromisesInv
  <2>2. ASSUME NEW i \in DOMAIN image.table, NEW j \in DOMAIN image.table,
               m = OldAt(i), q = OldAt(j)
        PROVE  m < q
    <3>1. i < j
      BY <1>1, <1>3, <1>8, <2>2 DEF PromisesInv
    <3> QED BY <1>2, <2>2, <3>1 DEF OldAt
  <2>3. ASSUME NEW k \in DOMAIN headers, NEW j \in DOMAIN image.table,
               m = NewAt(k), q = OldAt(j)
        PROVE  m < q
    <3>1. u[m].id = <<calls, k>> /\ u[q].id = image.table[j].id
      BY <1>3, <1>4, <2>3
    <3>2. insertAt + 1 \in DOMAIN image.table /\ image.table[j].id = image.table[insertAt + 1].id
      BY <2>0, <2>1, <3>1
    <3>3. j = insertAt + 1
      BY <1>1, <3>2 DEF MarksInv
    <3> QED BY <1>2, <2>3, <3>3 DEF OldAt, NewAt
  <2>4. ASSUME NEW k \in DOMAIN headers, q = NewAt(k) PROVE FALSE
    <3>1. u[q].id = <<calls, k>> /\ p[2][1] = calls
      BY <1>3, <1>4, <2>0, <2>4
    <3>2. u[m].id[1] \in Nat
      BY <1>2, <1>3, <1>4
    <3> QED BY <1>2, <2>0, <2>1, <3>1, <3>2
  <2> QED BY <1>3, <2>2, <2>3, <2>4
<1>9. PromisesInv'
  BY <1>1, <1>8 DEF PromisesInv, u
<1> QED BY <1>7, <1>9

LEMMA WriteInv ==
  ASSUME AppendInv, Write
  PROVE  AppendInv'
<1>1. /\ doing = "place" /\ doing' = "idle"
      /\ UNCHANGED <<list, insertAt, headers, appended, bytes, nextVA, nextFile, calls, before>>
      /\ AppendTypeOK /\ LoopInv
  BY DEF Write, AppendInv
<1>2. WrittenOut(image') /\ image' \in Image
  BY <1>1, WriteStep
<1>3. image'.sa > 0 /\ image'.fa > 0
  BY <1>1, <1>2 DEF WrittenOut, AppendTypeOK
<1>4. AppendTypeOK'
  BY <1>1, <1>2, <1>3 DEF AppendTypeOK
<1>5. Sound(image)' /\ Held(image)' /\ MarksInv' /\ PromisesInv'
  <2>1. Sound(image') /\ Held(image')
    BY <1>2, WriteSound
  <2> QED BY <1>2, <2>1, WritePromises
          DEF Sound, Held, TableEnd, Apart, VirtualEnd, RawEnd
<1> QED BY <1>1, <1>4, <1>5 DEF AppendInv

-------------------------------------------------------------------------------
(* Appender: the theorems *)

LEMMA AppendStep == AppendInv /\ [AppendNext]_appendVars => AppendInv'
<1> SUFFICES ASSUME AppendInv, [AppendNext]_appendVars PROVE AppendInv'
  OBVIOUS
<1>1. ASSUME NEW n \in SectionNames, NEW l \in SectionLists, Accept(n, l) \/ Refuse(n, l)
      PROVE  AppendInv'
  BY <1>1, AcceptStep, RefuseStep
<1>2. CASE Place
  BY <1>2, PlaceStep
<1>3. CASE Write
  BY <1>3, WriteInv
<1>4. CASE UNCHANGED appendVars
  <2>1. UNCHANGED <<image, list, insertAt, headers, appended, bytes, nextVA, nextFile,
                    calls, before, doing>>
    BY <1>4 DEF appendVars
  <2>2. AppendTypeOK'
    BY <2>1 DEF AppendInv, AppendTypeOK
  <2>3. Sound(image)' /\ Held(image)' /\ MarksInv' /\ PromisesInv'
    BY <2>1 DEF AppendInv, Sound, Held, TableEnd, Apart, VirtualEnd, RawEnd, MarksInv, PromisesInv
  <2>4. LoopInv => LoopInv'
    BY <2>1 DEF LoopInv, Fits, TableEnd, Placed, Aligned, VirtualEnd, RawEnd
  <2> QED BY <2>1, <2>2, <2>3, <2>4 DEF AppendInv
<1> QED BY <1>1, <1>2, <1>3, <1>4 DEF AppendNext

LEMMA AppendInvariant == AppendSpec => []AppendInv
BY AppendInitInv, AppendStep, PTL DEF AppendSpec

\* The variables of appendCore keep their types across any number of calls.
THEOREM AppendTypeCorrect == AppendSpec => []AppendTypeOK
<1>1. AppendInv => AppendTypeOK
  BY DEF AppendInv
<1> QED BY <1>1, AppendInvariant, PTL

\* A sound image stays sound: sections disjoint in memory and in the file, covered
\* by SizeOfImage and by the file, and a table that fits the headers.
THEOREM AppendImageSound == AppendSpec => []ImageSound
<1>1. AppendInv => ImageSound
  BY DEF AppendInv, ImageSound
<1> QED BY <1>1, AppendInvariant, PTL

\* The bytes of every section, old or new, are where its header says.
THEOREM AppendDataHeld == AppendSpec => []DataHeld
<1>1. AppendInv => DataHeld
  BY DEF AppendInv, DataHeld
<1> QED BY <1>1, AppendInvariant, PTL

\* A section put before another one stays before it, whatever calls follow.
THEOREM AppendBeforeNamed == AppendSpec => []BeforeNamed
<1>1. AppendInv => BeforeNamed
  BY DEF AppendInv, PromisesInv, BeforeNamed
<1> QED BY <1>1, AppendInvariant, PTL

KeepsOld ==
  /\ \E now \in [DOMAIN image.table -> DOMAIN image'.table] :
       /\ \A i \in DOMAIN image.table : image'.table[now[i]] = image.table[i]
       /\ \A i, j \in DOMAIN image.table : i < j => now[i] < now[j]
  /\ \A i \in DOMAIN image.table :
       LET s == image.table[i]
           r == [at |-> s.foff, len |-> s.raw, id |-> s.id]
       IN  r \in image.runs => r \in image'.runs \/ s.raw = 0

LEMMA WriteKeepsOld ==
  ASSUME AppendInv, Write
  PROVE  KeepsOld
<1>1. doing = "place" /\ AppendTypeOK /\ LoopInv
  BY DEF Write, AppendInv
<1>2. WrittenOut(image')
  BY <1>1, WriteStep
<1>3. /\ Len(image.table) \in Nat /\ DOMAIN image.table = 1 .. Len(image.table)
      /\ Len(headers) \in Nat /\ insertAt \in Nat
  BY <1>1, ImageFields, LenProperties DEF AppendTypeOK
<1> DEFINE now == [i \in DOMAIN image.table |-> OldAt(i)]
<1>4. now \in [DOMAIN image.table -> DOMAIN image'.table]
  BY <1>2 DEF WrittenOut
<1>5. \A i \in DOMAIN image.table : image'.table[now[i]] = image.table[i]
  BY <1>2 DEF WrittenOut
<1>6. \A i, j \in DOMAIN image.table : i < j => now[i] < now[j]
  BY <1>3 DEF OldAt
<1>7. ASSUME NEW i \in DOMAIN image.table
      PROVE  LET s == image.table[i]
                 r == [at |-> s.foff, len |-> s.raw, id |-> s.id]
             IN  r \in image.runs => r \in image'.runs \/ s.raw = 0
  <2> DEFINE s == image.table[i]
             r == [at |-> s.foff, len |-> s.raw, id |-> s.id]
  <2>1. OldFacts(s)
    BY <1>1, EntryFacts
  <2>2. r.at = s.foff /\ r.len = s.raw /\ r.at + r.len = RawEnd(s)
    BY DEF RawEnd
  <2> HIDE DEF s, r
  <2>3. s.raw = 0 \/ (r.at < Aligned /\ r.at + r.len <= Aligned)
    BY <2>1, <2>2 DEF OldFacts
  <2>4. r \in image.runs => r \in image'.runs \/ s.raw = 0
    BY <1>2, <2>3 DEF WrittenOut
  <2> QED BY <2>4 DEF r, s
<1> HIDE DEF now
<1> QED BY <1>4, <1>5, <1>6, <1>7 DEF KeepsOld

\* No call changes, reorders or drops an old entry of the table, nor its bytes.
THEOREM AppendKeepsOld == AppendSpec => OldSectionsKept
<1>1. AppendInv /\ [AppendNext]_appendVars => [KeepsOld]_image
  <2> SUFFICES ASSUME AppendInv, [AppendNext]_appendVars, image' /= image PROVE KeepsOld
    OBVIOUS
  <2>1. Write
    BY DEF AppendNext, appendVars, Accept, Refuse, Place
  <2> QED BY <2>1, WriteKeepsOld
<1>2. AppendSpec => [][KeepsOld]_image
  BY <1>1, AppendInvariant, PTL DEF AppendSpec
<1> QED BY <1>2, PTL DEF OldSectionsKept, KeepsOld
===============================================================================
