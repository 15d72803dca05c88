------------------------------- MODULE ReadObject -------------------------------
(***************************************************************************)
(* ReadObject of linker/object.go with its two readers: readCOFFObject and *)
(* readELFObject of linker/elf.go, one section header per step.  debug/pe  *)
(* and debug/elf have parsed the file: a file is the tables they present.  *)
(*                                                                         *)
(* Headers, sections and symbol rows are sequences, so entry i stands for  *)
(* index i-1 of the code.  Element 1 of the headers of an ELF file is its  *)
(* null section; its symbols come without their null entry.                *)
(***************************************************************************)
EXTENDS Integers, Sequences

CONSTANTS Files,   \* the object files a link may start from
          Names    \* the names of symbols

\* A relocation of the linker has 16 bits for its type.
LastType  == 65535
RelocType == 0 .. LastType

\* A relocation as the file has it, its type still 32 bits wide; a COFF one keeps its
\* addend in the bytes it patches, so that its own is 0.
Entry == [site : Nat, sym : Nat, type : Nat, addend : Int]

\* Section headers.  info and entries belong to RELA sections in ELF; in COFF
\* the entries hang on the section they patch.
Header == [type : {"null", "bytes", "nobits", "rela", "other"}, alloc : BOOLEAN,
           exec : BOOLEAN, size : Nat, vsize : Nat, info : Nat, entries : Seq(Entry)]

\* Symbols.  place tells the reserved section numbers from real ones; an aux row
\* continues a COFF symbol.
FileSymbol == [name : Names, bind : {"local", "global", "weak", "other"}, aux : BOOLEAN,
               place : {"undef", "abs", "common", "section"}, index : Nat]

File == [format : {"coff", "elf"}, relocatable : BOOLEAN, machine : STRING,
         headers : Seq(Header), symbols : Seq(FileSymbol)]

\* The null section of an ELF file is not loaded.  In a COFF file a type has 16
\* bits, and a relocatable one has no memory sizes (object.go:200).
ASSUME FilesAssumption ==
  /\ Files \subseteq File
  /\ \A f \in Files : f.format = "elf" =>
       f.headers /= << >> /\ f.headers[1].type = "null" /\ ~f.headers[1].alloc
  /\ \A f \in Files : f.format = "coff" =>
       \A i \in DOMAIN f.headers :
         /\ \A k \in DOMAIN f.headers[i].entries :
              f.headers[i].entries[k].type <= LastType /\ f.headers[i].entries[k].addend = 0
         /\ f.relocatable => f.headers[i].vsize = 0

VARIABLES file,
          sections,  \* Object.Sections
          symbols,   \* Object.Symbols
          at,        \* the header the current loop looks at
          pc

readVars == <<file, sections, symbols, at, pc>>

Reloc   == [site : Nat, sym : Nat, type : RelocType, addend : Int]
Section == [exec : BOOLEAN, bss : BOOLEAN, discardable : BOOLEAN, data : Nat, vsize : Nat,
            relocs : Seq(Reloc)]
Symbol  == [name : Names \cup {""}, class : {"external", "static", "weak", "other"},
            kind : {"undefined", "defined", "absolute"}, number : Int]

EmptySection == [exec |-> FALSE, bss |-> FALSE, discardable |-> FALSE, data |-> 0,
                 vsize |-> 0, relocs |-> << >>]

-------------------------------------------------------------------------------
(* Sections *)

elfMachines == {"x86_64", "aarch64", "riscv", "loongarch"}

\* A section that is not loaded gets no other flag than MEM_DISCARDABLE.
elfSection(h) ==
  [exec |-> h.alloc /\ h.exec /\ h.type /= "nobits",
   bss |-> h.alloc /\ h.type = "nobits",
   discardable |-> ~h.alloc,
   data |-> IF h.alloc /\ h.type /= "nobits" THEN h.size ELSE 0,
   vsize |-> h.size, relocs |-> << >>]

\* The memory size as the header has it: 0 in every relocatable COFF file.
coffVirtualSize_Header(h) == h.vsize
coffVirtualSize(h) == IF h.vsize = 0 THEN h.size ELSE h.vsize

coffSection(h) ==
  [exec |-> h.exec, bss |-> h.type = "nobits", discardable |-> ~h.alloc,
   data |-> IF h.type /= "nobits" THEN h.size ELSE 0,
   vsize |-> coffVirtualSize(h), relocs |-> h.entries]

\* Reject what is a linked image or for a machine the linker does not know.
Readable == file.relocatable /\ (file.format = "elf" => file.machine \in elfMachines)

Detect ==
  /\ pc = "detect"
  /\ pc' = IF Readable THEN "sections" ELSE "error"
  /\ UNCHANGED <<file, sections, symbols, at>>

ReadSection ==
  LET h == file.headers[at] IN
  /\ pc = "sections" /\ at \in DOMAIN file.headers
  /\ sections' = Append(sections,
                   IF file.format = "coff" THEN coffSection(h)
                   ELSE IF at = 1 THEN EmptySection ELSE elfSection(h))
  /\ at' = at + 1
  /\ UNCHANGED <<file, symbols, pc>>

SectionsRead ==
  /\ pc = "sections" /\ at \notin DOMAIN file.headers
  /\ pc' = IF file.format = "elf" THEN "rela" ELSE "symbols"
  /\ at' = 1
  /\ UNCHANGED <<file, sections, symbols>>

-------------------------------------------------------------------------------
(* RELA sections *)

\* The upper half of the type is cut off instead of refused.
TypesFit_Any(es) == TRUE
TypesFit(es) == \A k \in DOMAIN es : es[k].type <= LastType

\* Entries of ELF64: those of ELF32 have 12 bytes.
EntrySize == 24
WholeEntries(h) == h.size % EntrySize = 0

ParseRELA ==
  LET h == file.headers[at] IN
  /\ pc = "rela" /\ at \in DOMAIN file.headers
  /\ IF h.type /= "rela"
     THEN at' = at + 1 /\ UNCHANGED <<sections, pc>>
     ELSE IF h.info >= Len(sections) \/ ~WholeEntries(h) \/ ~TypesFit(h.entries)
     THEN pc' = "error" /\ UNCHANGED <<sections, at>>
     ELSE /\ sections' = [sections EXCEPT ![h.info + 1].relocs = h.entries]
          /\ at' = at + 1 /\ UNCHANGED pc
  /\ UNCHANGED <<file, symbols>>

RelaRead ==
  /\ pc = "rela" /\ at \notin DOMAIN file.headers
  /\ pc' = "symbols"
  /\ UNCHANGED <<file, sections, symbols, at>>

-------------------------------------------------------------------------------
(* Symbols *)

KindOf(s) == CASE s.place = "undef" -> "undefined"
               [] s.place = "section" -> "defined"
               [] OTHER -> "absolute"

\* The storage class of an auxiliary row reads as 0.
ClassOf(s) == IF s.aux THEN "other"
              ELSE CASE s.bind = "global" -> "external"
                     [] s.bind = "weak"   -> "weak"
                     [] s.bind = "local"  -> "static"
                     [] OTHER -> IF file.format = "elf" THEN "static" ELSE "other"

\* classify and convertELFSymbol: the section number is that of the file.
ConvertSymbol(s) ==
  [name |-> s.name, class |-> ClassOf(s), kind |-> KindOf(s),
   number |-> IF s.place = "section" THEN s.index ELSE 0]

Placeholder == [name |-> "", class |-> "static", kind |-> "absolute", number |-> 0]

\* The rows of an ELF file as debug/elf returns them.
SymbolRows_NoNull == [i \in DOMAIN file.symbols |-> ConvertSymbol(file.symbols[i])]

\* Row 0 of an ELF table stands for the null symbol; COFF rows keep their place.
SymbolRows ==
  LET rows == [i \in DOMAIN file.symbols |-> ConvertSymbol(file.symbols[i])]
  IN  IF file.format = "elf" THEN << Placeholder >> \o rows ELSE rows

ReadSymbols ==
  /\ pc = "symbols"
  /\ symbols' = SymbolRows
  /\ pc' = "read"
  /\ UNCHANGED <<file, sections, at>>

\* The section a defined row is taken from: SecIdx is SectionNumber - 1.
Home(row) == row.number

ReadInit ==
  /\ file \in Files
  /\ sections = << >> /\ symbols = << >> /\ at = 1 /\ pc = "detect"

ReadNext == Detect \/ ReadSection \/ SectionsRead \/ ParseRELA \/ RelaRead \/ ReadSymbols

ReadReturned == pc \in {"read", "error"} /\ UNCHANGED readVars

ReadSpec == ReadInit /\ [][ReadNext \/ ReadReturned]_readVars

-------------------------------------------------------------------------------
(* Properties *)

\* The variables of the readers keep their types; relocation types are 16 bits.
ReadTypeOK ==
  /\ file \in File
  /\ sections \in Seq(Section) /\ Len(sections) <= Len(file.headers)
  /\ symbols \in Seq(Symbol)
  /\ at \in 1 .. Len(file.headers) + 1
  /\ pc \in {"detect", "sections", "rela", "symbols", "read", "error"}

\* The row that symbol index n of the file becomes: the null symbol of ELF is an
\* absolute zero that every lookup finds, any other row keeps its name.
RowRight(n) ==
  LET row == symbols[n + 1] IN
  IF file.format = "elf" /\ n = 0 THEN row.class = "static" /\ row.kind = "absolute"
  ELSE row.name = file.symbols[IF file.format = "elf" THEN n ELSE n + 1].name

\* The header whose entries patch section i: itself in COFF, its RELA in ELF.
Patches(i) ==
  IF file.format = "coff" THEN {i}
  ELSE {j \in DOMAIN file.headers : file.headers[j].type = "rela" /\ file.headers[j].info + 1 = i}

\* With one relocation table for a section, the section has its entries in their
\* order, and each of them names the symbol that the file names.
RelocsNameSymbols ==
  pc = "read" =>
    \A i \in DOMAIN sections : \A j \in Patches(i) :
      Patches(i) = {j} =>
        LET es == file.headers[j].entries IN
        /\ sections[i].relocs = es
        /\ \A k \in DOMAIN es : es[k].sym + 1 \in DOMAIN symbols => RowRight(es[k].sym)

\* What the layout drops (layout.go:209 and 212).
Dropped(s) == s.discardable \/ (s.vsize = 0 /\ s.data = 0)

\* The layout sees exactly the sections that have a place in memory, in their
\* full size, with bytes unless they are uninitialised.
KeptWhole ==
  pc = "read" =>
    /\ Len(sections) = Len(file.headers)
    /\ \A i \in DOMAIN sections :
         LET h == file.headers[i]
             s == sections[i]
         IN  /\ Dropped(s) <=> ~h.alloc \/ h.size = 0
             /\ ~Dropped(s) => /\ s.vsize = h.size
                               /\ s.data = IF h.type = "nobits" THEN 0 ELSE h.size

\* elf.go:17 and object.go:128: section numbers count Object.Sections from 1, so
\* whatever the format the linker takes a defined symbol from the section that the
\* file defines it in (a header of the file and its section have the same position).
SymbolsHome ==
  pc = "read" =>
    \A j \in DOMAIN file.symbols :
      LET s == file.symbols[j] IN
      s.place = "section" =>
        IF file.format = "elf" THEN Home(symbols[j + 1]) = s.index + 1
        ELSE Home(symbols[j]) = s.index
===============================================================================
