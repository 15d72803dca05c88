------------------------------- MODULE Pipeline -------------------------------
(***************************************************************************)
(* Link of linker/link.go as a whole: the modules of its stages, run one   *)
(* after the other on the same objects, up to the image or the first error *)
(* that a stage returns; then the loader of BaseRelocs on that image.      *)
(*                                                                         *)
(* The stages hand over what the code hands over: the symbol table, the    *)
(* layout, the patched bytes, the base relocations, the .reloc stream.     *)
(* Objects are flattened as in Layout and Resolve: a section is its        *)
(* position among the sections of all objects, a symbol its position among *)
(* all rows, and first[o] counts the sections of the objects before o.     *)
(* The section of a row counts from 1 in its own object.                   *)
(***************************************************************************)
EXTENDS Link, FiniteSets

CONSTANTS Jobs,                 \* the links to be made
          Names,                \* symbol names
          Deltas,               \* distances at which the image may be loaded
          Page, Short, Narrow, Wide   \* widths, see Relocate

VARIABLES job,
          step,                            \* the stage Link is in, or its outcome
          rowAt, tab, missing, resPc,      \* Resolve
          prog, at, mem, pcrelHI, base, relPc,    \* ApplyRelocations
          pending, buf, phase, pos, fix, applied, \* BuildRelocSection, the loader
          entryRVA

resolution == <<rowAt, tab, missing, resPc>>
relocation == <<prog, at, mem, pcrelHI, base, relPc>>
stream     == <<pending, buf, phase, pos, fix, applied>>

pipelineVars == <<linkVars, job, step, resolution, relocation, stream, entryRVA>>

Symbols == INSTANCE Resolve
             WITH Programs <- {j.rows : j \in Jobs},
                  rows <- job.rows, allow <- job.allow, at <- rowAt, pc <- resPc

Patches == INSTANCE Relocate WITH Programs <- {}, pc <- relPc

TypeCode == [DIR64 |-> 10, HIGHLOW |-> 3]

Stream == INSTANCE BaseRelocs
            WITH EntryLists <- {},
                 entries <- [i \in DOMAIN base |->
                               [rva |-> base[i].rva, type |-> TypeCode[base[i].type]]],
                 todo <- pending

\* A relocation by the place of its section and of its symbol's row; field is what
\* the compiler has left in its slot.
Reloc == [sec : Nat, off : Nat, sym : Nat, kind : Patches!Kinds, elf : BOOLEAN, addend : Int,
          field : 0 .. Wide - 1]

\* Every row is one of an object of the link; relocations of RISC-V come with an
\* object for RISC-V.
ASSUME JobsAssumption ==
  \A j \in Jobs :
    /\ j.machines \in Seq({"amd64", "arm64", "riscv64", "loongarch64"}) /\ j.base \in Nat
    /\ j.rows \in Seq(Symbols!Symbol) /\ j.allow \in BOOLEAN
    /\ j.first \in Seq(Nat) /\ \A i \in DOMAIN j.rows : j.rows[i].obj \in DOMAIN j.first
    /\ j.relocs \in Seq(Reloc)
    /\ \A i \in DOMAIN j.relocs : j.relocs[i].kind \in {"hi20", "lo12"} =>
         \E o \in DOMAIN j.machines : j.machines[o] = "riscv64"

\* The widths as in Relocate.
ASSUME WidthsAssumption ==
  /\ Page \in Nat \ {0} /\ Page % 2 = 0
  /\ Short \in Nat \ {0} /\ Short % Page = 0
  /\ Narrow \in Nat \ {0} /\ Narrow % Short = 0 /\ (Narrow \div Page) % 2 = 0
  /\ Wide \in Nat \ {0} /\ Wide % Narrow = 0
  /\ Deltas \subseteq Nat

-------------------------------------------------------------------------------
(* Resolve and ComputeLayout *)

NoObjects ==
  /\ step = "resolve" /\ job.machines = << >>
  /\ step' = "failed"
  /\ UNCHANGED <<linkVars, job, resolution, relocation, stream, entryRVA>>

ResolveSymbols ==
  /\ step = "resolve" /\ job.machines /= << >>
  /\ UNCHANGED <<linkVars, job, step, relocation, stream, entryRVA>>
  /\ Symbols!ResolveNext

SymbolsResolved ==
  /\ step = "resolve" /\ resPc \in Symbols!Outcomes
  /\ step' = IF resPc = "ok" THEN "layout" ELSE "failed"
  /\ UNCHANGED <<linkVars, job, resolution, relocation, stream, entryRVA>>

LayOut ==
  /\ step = "layout"
  /\ LayoutNext
  /\ UNCHANGED <<stage, image, job, step, resolution, relocation, stream, entryRVA>>

-------------------------------------------------------------------------------
(* What applyOne looks up for a relocation *)

\* The zero SectionRef of an absolute entry is the first section of all.
SectionOf(e) == IF e.obj = 0 THEN 1 ELSE job.first[e.obj] + e.sec

\* The target without its input's offset in the merged section.
TargetRVA_Unbiased(e) == out[where[SectionOf(e)]].rva + e.value
TargetRVA(e) == ResolveRVA(SectionOf(e), e.value)

TargetOf(r) ==
  LET e == Symbols!Lookup(r.sym)
  IN  [kind |-> e.kind, value |-> IF e.kind = "defined" THEN TargetRVA(e) ELSE e.value]

\* The target is looked up for a relocation of a placed section only, so there is a
\* first section to take a target that is not placed for.
IsPlaced(r) == r.sec \in DOMAIN where
Room(r)     == out[where[r.sec]].data - (offIn[r.sec] + r.off)

Handed(r) ==
  IF IsPlaced(r)
  THEN [placed |-> TRUE, site |-> ResolveRVA(r.sec, r.off), room |-> Room(r), kind |-> r.kind,
        target |-> TargetOf(r), elf |-> r.elf, addend |-> r.addend]
  ELSE [placed |-> FALSE, site |-> 0, room |-> 0, kind |-> r.kind,
        target |-> [kind |-> "error", value |-> 0], elf |-> r.elf, addend |-> r.addend]

\* The bytes the compiler has left in the slots.
Fields ==
  LET patched == {i \in DOMAIN job.relocs : IsPlaced(job.relocs[i])}
      Site(i) == ResolveRVA(job.relocs[i].sec, job.relocs[i].off)
  IN  [s \in {Site(i) : i \in patched} |->
         job.relocs[CHOOSE i \in patched : Site(i) = s].field]

LaidOut ==
  /\ step = "layout" /\ pc = "laid"
  /\ step' = "relocate"
  /\ prog' = [machines |-> job.machines, base |-> job.base, mem |-> Fields,
              relocs |-> [i \in DOMAIN job.relocs |-> Handed(job.relocs[i])]]
  /\ mem' = Fields
  /\ UNCHANGED <<linkVars, job, resolution, at, pcrelHI, base, relPc, stream, entryRVA>>

-------------------------------------------------------------------------------
(* ApplyRelocations, BuildRelocSection, appendRelocSection, the entry, emitPE *)

ApplyRelocations ==
  /\ step = "relocate"
  /\ UNCHANGED <<linkVars, job, step, resolution, stream, entryRVA>>
  /\ Patches!RelocateNext

RelocationsApplied ==
  /\ step = "relocate" /\ relPc \in {"linked", "error"}
  /\ step' = IF relPc = "linked" THEN "build" ELSE "failed"
  /\ pending' = DOMAIN base
  /\ UNCHANGED <<linkVars, job, resolution, relocation, buf, phase, pos, fix, applied, entryRVA>>

BuildRelocSection ==
  /\ step = "build"
  /\ UNCHANGED <<linkVars, job, step, resolution, relocation, entryRVA>>
  /\ Stream!EmitBlock \/ Stream!Built

AppendReloc ==
  /\ step = "build" /\ phase = "load"
  /\ appendRelocSection(2 * Len(buf))
  /\ step' = "entry"
  /\ UNCHANGED <<job, resolution, relocation, stream, entryRVA>>

\* Any symbol that is found will do, an absolute one too.
EntryUsable_Found(n) == n \in DOMAIN tab
EntryUsable(n) == n \in DOMAIN tab /\ tab[n].kind = "defined"

\* The entry taken at the start of its merged section.
EntryAddress_Merged(e) == out[where[SectionOf(e)]].rva
EntryAddress(e) == ResolveRVA(SectionOf(e), e.value)

\* If no input has survived the filter, l.Out[0] of an empty slice panics.
resolveEntryRVA ==
  /\ step = "entry"
  /\ \/ ~EntryUsable(job.entry) /\ step' = "failed" /\ UNCHANGED entryRVA
     \/ /\ EntryUsable(job.entry) /\ ResolvePanics(SectionOf(tab[job.entry]))
        /\ step' = "panicked" /\ UNCHANGED entryRVA
     \/ /\ EntryUsable(job.entry) /\ ~ResolvePanics(SectionOf(tab[job.entry]))
        /\ entryRVA' = EntryAddress(tab[job.entry]) /\ step' = "emit"
  /\ UNCHANGED <<linkVars, job, resolution, relocation, stream>>

Emit ==
  /\ step = "emit"
  /\ emitPE
  /\ step' = "emitted"
  /\ UNCHANGED <<job, resolution, relocation, stream, entryRVA>>

\* The loader finds the stream through the directory.
LoadImage ==
  /\ step = "emitted" /\ image.relocDir.size = 2 * Len(buf)
  /\ UNCHANGED <<linkVars, job, step, resolution, relocation, entryRVA>>
  /\ Stream!LoadFixup \/ Stream!NextBlock \/ Stream!LoadedAll

-------------------------------------------------------------------------------

PipelineInit ==
  /\ job \in Jobs
  /\ secs = job.secs /\ opts = WithDefaults(job.opts)
  /\ LinkInit
  /\ step = "resolve"
  /\ rowAt = 1 /\ tab = << >> /\ missing = {} /\ resPc = "install"
  /\ prog = << >> /\ at = 1 /\ mem = << >> /\ pcrelHI = << >> /\ base = << >> /\ relPc = "begin"
  /\ pending = {} /\ buf = << >> /\ phase = "build" /\ pos = 1 /\ fix = 5 /\ applied = << >>
  /\ entryRVA = 0

PipelineNext ==
  \/ NoObjects
  \/ ResolveSymbols \/ SymbolsResolved
  \/ LayOut \/ LaidOut
  \/ ApplyRelocations \/ RelocationsApplied
  \/ BuildRelocSection \/ AppendReloc
  \/ resolveEntryRVA
  \/ Emit
  \/ LoadImage

PipelineReturned ==
  /\ step \in {"failed", "panicked"} \/ phase = "loaded"
  /\ UNCHANGED pipelineVars

\* Link runs on its caller's goroutine and blocks nowhere: it keeps taking steps.
PipelineSpec ==
  /\ PipelineInit /\ [][PipelineNext \/ PipelineReturned]_pipelineVars
  /\ WF_pipelineVars(PipelineNext)

-------------------------------------------------------------------------------
(* Properties *)

\* The components keep their types when they feed each other.
PipelineTypeOK ==
  /\ step \in {"resolve", "layout", "relocate", "build", "entry", "emit", "emitted", "failed",
              "panicked"}
  /\ Symbols!ResolveTypeOK
  /\ LinkTypeOK
  /\ step \in {"relocate", "build", "entry", "emit", "emitted"} => Patches!RelocateTypeOK
  /\ Stream!RelocTypeOK
  /\ entryRVA \in Nat

\* What a symbol row means by the rules of the object files: a static row is
\* itself, any other the one external definition of its name.
Meant(i) ==
  IF job.rows[i].class = "static" THEN {job.rows[i]}
  ELSE {job.rows[j] : j \in Symbols!Promise!Definitions(job.rows[i].name)}

Input(row) == job.first[row.obj] + row.sec

\* Where the image holds the byte a row names, by its section table.
ImageAddresses(row) ==
  {image.table[m].rva + offIn[Input(row)] + row.value :
     m \in {m \in DOMAIN image.table : row.kind = "defined" /\ Input(row) \in image.table[m].from}}

Times(site, k) == Cardinality({i \in DOMAIN applied : applied[i] = [rva |-> site, type |-> k]})

\* A slot after the loader has moved the image by d.
SlotAt(site, d) == (mem[site] + d * (Times(site, 10) + Times(site, 3))) % Wide

OnDisk(site, n) ==
  \E m \in DOMAIN image.table :
    LET s == image.table[m] IN s.rva <= site /\ site + n <= s.rva + s.raw /\ site + n <= s.rva + s.data

\* From end to end: wherever the image is loaded, each slot of a kept section
\* says where the image has the byte that the object file meant, and the slot is
\* in the file.
AddressesMeant ==
  phase = "loaded" =>
    \A i \in DOMAIN job.relocs : job.relocs[i].sec \in Kept =>
      LET r    == job.relocs[i]
          site == prog.relocs[i].site
          add  == Patches!AddendIn(prog.mem, prog.relocs[i])
      IN  \A row \in Meant(r.sym) : \A a \in ImageAddresses(row), d \in Deltas :
            /\ r.kind = "abs64" =>
                 OnDisk(site, 8) /\ SlotAt(site, d) = (job.base + d + a + add) % Wide
            /\ r.kind = "abs32" =>
                 OnDisk(site, 4) /\ SlotAt(site, d) % Narrow = (job.base + d + a + add) % Narrow
            /\ r.kind = "rva32" =>
                 OnDisk(site, 4) /\ SlotAt(site, d) % Narrow = (a + add) % Narrow
            /\ r.kind = "pc32" =>
                 OnDisk(site, 4) /\ site + (IF r.elf THEN 0 ELSE 4)
                                      + Patches!Signed(SlotAt(site, d), Narrow) = a + add

\* The image starts at the byte the definition of the entry symbol names, in a
\* section of its table.
EntryMeant ==
  step = "emitted" =>
    \A j \in Symbols!Promise!Definitions(job.entry) :
      job.rows[j].kind = "defined" /\ Input(job.rows[j]) \in Kept
        => ImageAddresses(job.rows[j]) = {entryRVA}

\* A row that some definition in the objects is meant by.
Resolvable(s) ==
  /\ s \in DOMAIN job.rows
  /\ IF job.rows[s].class = "static" THEN job.rows[s].kind /= "undefined"
     ELSE job.rows[s].name \in Symbols!Promise!GlobalNames

\* What in the objects forbids an image: different machines or none, symbols, the
\* entry, a relocation of a kept section without a meaning or a slot to hold it,
\* and, at the addresses of the layout, one whose value does not fit.
Refusable ==
  \/ job.machines = << >> \/ \E o \in DOMAIN job.machines : job.machines[o] /= job.machines[1]
  \/ Symbols!Promise!Verdict /= "ok"
  \/ ~\E j \in Symbols!Promise!Definitions(job.entry) : job.rows[j].kind = "defined"
  \/ \E i \in DOMAIN job.relocs :
       LET r == job.relocs[i] IN
       /\ r.sec \in Kept
       /\ \/ r.kind = "other"
          \/ r.kind /= "none" /\ secs[r.sec].bss
          \/ ~Resolvable(r.sym)
          \/ pc = "laid" /\ Patches!Misfit(prog.relocs[i])

\* Link returns an error only over something in the objects that forbids an image.
FailsRightly == step = "failed" => Refusable

\* Nothing that forbids an image gets past all of the stages, but for references
\* that a weak symbol in front of them hides from Resolve (ReferencesResolved).
EmitsRightly ==
  step = "emitted" => Kept /= {} /\ (Symbols!Promise!WeakApart => ~Refusable)

\* It panics only if the objects have nothing to lay out and are otherwise sound.
PanicsRightly ==
  step = "panicked" => Kept = {} /\ (Symbols!Promise!WeakApart => ~Refusable)

\* By the documented rules, which know no order of objects or symbols, and whichever
\* stage would notice: Link refuses what forbids an image (if WeakApart), nothing else,
\* and writes an image from everything else that has a byte to lay out.
VerdictRight == FailsRightly /\ EmitsRightly /\ PanicsRightly

\* Every call of Link ends, with an image or with an error, and the loader gets to
\* the end of any image it has written; it panics only for want of a section.
LinkReturns == <>(step = "failed" \/ phase = "loaded" \/ (step = "panicked" /\ Kept = {}))
===============================================================================
