# A verification of go-coff/peln

peln is a pure-Go replacement for `lld-link`, `objcopy --add-section` and
`mkimage` for UEFI and bare-metal images. These modules model its linker, its
appender and its firmware formats in TLA+, check them with TLC on small
instances, and prove with TLAPS, for every input, most of what makes the object
readers, symbol resolution, layout, relocation, instruction fixups, the base
relocation section, emission, the conversion of position-independent executables,
the appender and the firmware formats correct, and what makes the stages of a link
agree from end to end.

peln is a library of sequential functions: no goroutines, no files, no clocks,
no persistent state. What is hard about it is not concurrency. It is that the
same facts (where a section is, what a name means, how large the headers are)
are computed in several passes, from several tables, and have to agree at the
end; that the order of inputs decides what happens; that two things it does
not control are nondeterministic (the order in which Go ranges over a map, the
order in which `sort.Slice` leaves equal elements); and that every mistake
ends in an image that is written without an error and fails at boot.

## The system

| part | source | state | operations | talks to |
| --- | --- | --- | --- | --- |
| object readers | `linker/object.go`, `elf.go`, `elf_rela.go` | the `Object`: sections, relocations, symbol rows | `ReadObject` → COFF or ELF reader | everything below reads `Object` |
| symbol resolution | `linker/resolve.go` | `SymTab.Entries`, the list of missing names | `Resolve` (two passes), `Lookup` | the relocation driver, the entry point |
| section layout | `linker/layout.go` | buckets, `Layout.Out`, `Where`, `OffsetIn` | `ComputeLayout` (passes A, B, C), `ResolveRVA` | relocation driver, emission |
| relocation driver | `linker/relocate.go` | section bytes (rewritten in place), the PCREL_HI20 table, base relocations | `ApplyRelocations`, `applyOne` | back ends, base relocation section |
| back ends | `linker/reloc_*.go` | none | one fixup per relocation type | the driver |
| base relocation section | `linker/reloc_section.go` | the byte stream | `BuildRelocSection` | the firmware's loader |
| link tail and emission | `linker/link.go` | `Layout.Out` grows by `.reloc`; the image | `appendRelocSection`, `resolveEntryRVA`, `emitPE` | also used by `LinkPIE` |
| position-independent executables | `linker/pie.go` | sections made of segments | `LinkPIE`, RELA and RELR | emission |
| appender | `appender/appender.go` | the image, from call to call | `Append`, `AppendBefore` | reads what emission wrote |
| firmware formats | `fwimg/fwimg.go` | none | `Flatten`, `SREC`, `IHEX`, `UImage` | - |

`Link` calls resolution, layout, relocation, `BuildRelocSection`,
`appendRelocSection`, `resolveEntryRVA` and `emitPE` one after the other; the
layout is the shared state, and `.reloc` is appended to it after its addresses
were fixed.

What makes each part correct:

- *readers*: the indices of the file still mean the same rows and sections in
  the `Object`, whatever the two formats count from; loaded sections keep their
  size, the others are recognisable to the layout.
- *resolution*: one entry a name, decided by definitions and not by their order;
  an entry never changes; all missing names are reported.
- *layout*: nothing overlaps, in a bucket, in memory or in the file; `Where` and
  `OffsetIn` describe where the bytes went; output order is deterministic.
- *relocation*: after the loader has moved the image, every slot holds the
  address of its target; what cannot be represented is an error.
- *base relocations*: a loader that reads the stream applies what was listed.
- *emission*: the sizes in the headers cover the sections, and headers and data
  do not overlap.
- *the whole of `Link`*: the stages agree. Each slot and the entry point name the
  byte that the object files meant; a link fails exactly if its input is wrong.
- *instruction fixups*: the parts of an address that two instructions carry add
  up to it, and nothing else in them changes.
- *position-independent executables*: the PE image, rebased, is what the ELF
  loader would have made of the original.
- *firmware formats*: a reader gets back the image, byte for byte, at its address.
- *appender*: after any sequence of calls the image is still sound, old sections
  are where they were, new ones are where the caller asked.

`PROJECT.json` lists under "hazards" the lines where each of these may go wrong.

## The modules

| module | models | state ↔ code |
| --- | --- | --- |
| `PEImage` | the arithmetic of PE images: `alignUp`, extents, the sizes of `emitPE`, the place of `.reloc` | operators only; shared by layout, both tails and the appender |
| `ReadObject` | both readers, one header per step | `sections`, `symbols` = `Object`; `at` the loop index; a file is what `debug/pe` / `debug/elf` present |
| `SymbolTable` | what `Resolve` promises, in one step: the rules of its doc comment (`resolve.go:55-74`), which know no order of symbols | `table`, `verdict`: what the caller gets |
| `Resolve` | the two loops of `Resolve`, one symbol per step; `Lookup` | `tab` = `Entries`, `missing`, `at`; objects are flattened, a row knows its object |
| `Layout` | `ComputeLayout`, one input, one bucket, one section per step; `ResolveRVA` | `buckets`, `customs`, `offIn` = `OffsetIn`, `where` = `Where`, `out` = `Out`, `rva`/`foff` the pointers of pass C |
| `Link` (extends `Layout`) | `appendRelocSection`, `emitPE` | `stage`, `image` = the header fields that depend on the layout |
| `Relocate` | `ApplyRelocations` and the data fixups of all machines; a loader that rebases | `mem` = the patched fields, `pcrelHI`, `base` |
| `Words` | addresses in two limbs, words as bits, fields as slices | operators only |
| `BackEnds` (extends `Words`) | the instruction fixups of the five back ends: value, range check, bit field | one operator per `apply…` function |
| `Instructions` (extends `BackEnds`) | the relocations of one of the sequences that compilers emit (`Emitted`), then a CPU that executes it | `words` = the patched instructions, `stage` and `next` the instruction that is patched or executed, `reg` what the CPU has computed |
| `BaseRelocs` | `BuildRelocSection`, one block per step, and a loader that reads it, one fixup per step | `buf` = the stream in 16-bit halfwords; `pos`, `fix` the loader's place in it, `applied` what it has applied |
| `Pipeline` (extends `Link`) | `Link` from the objects to the image, then the loader | the variables of `Resolve`, `Layout`, `Link`, `Relocate` and `BaseRelocs`; `step` = how far `Link` has come, `failed` and `panicked` included; `entryRVA` |
| `PIE` | `LinkPIE`, one segment or one entry of a table per step; a PE and an ELF loader | `out` = the sections, `table`/`at` the loop indices, `where` the RELR cursor, `baseRel` |
| `Firmware` | `Flatten`, `SREC`, `IHEX`, `UImage`, one segment or record per step; the readers | `img`, `base`; `off`, `upper` = the encoder's variables; `recs`; `mem` what the reader has loaded |
| `Appender` | `Append`, `AppendBefore`, any number of calls | `image` (table, sizes, runs of bytes), `headers`, `appended`, `nextVA`, `nextFile` |
| `PEImageProofs` | lemmas on `AlignUp`, the extents and the sizes of headers, and on division | shared by those below |
| `ResolveProofs`, `RelocateProofs`, `InstructionsProofs`, `BaseRelocsProofs`, `PIEProofs`, `PipelineProofs` | the theorems about the module they are named after; `PipelineProofs` holds those about `Layout` and `Link` too | |
| `FormatProofs` | the theorems about the files at the tool's ends: `ReadObject`, `Firmware` and `Appender` | |
| `MC*` | values of the constants for TLC | |

How the modules compose. `Pipeline` extends `Link`, which extends `Layout`, and
instantiates `Resolve`, `Relocate` and `BaseRelocs` over its own variables: a
step of `Pipeline` is a step of one of them, or the hand-over between two. A
hand-over computes what `applyOne` looks up (`Handed`: the site, the room, the
target through `Lookup` and `ResolveRVA`). So the components are the same
definitions that their own runs check and the proofs are about. `ReadObject`,
`Appender`, `PIE` and `Firmware` meet the others only through files and have
runs of their own.

Conventions. A loop of the code is an action that does one iteration and a
second one that leaves the loop; an early return of an error is an action of
its own or a branch that sets `pc`. When a function has returned the
specification stutters explicitly, so TLC's deadlock check still finds a state
in which a loop is stuck. An index of the code is one less than a position in
a sequence. Names are a canonical part and a COMDAT suffix; their byte order
is the constant `NameOrder`, because TLA+ does not order strings. The insertion
sort of `sortInputs` is represented by the total order it sorts by (`Precedes`).

What is abstracted everywhere: bytes are counted and attributed to their owner
instead of being stored, error texts are left out, and 32-bit addresses are
unbounded naturals. The last means that images of 4 GiB, where the code wraps
around, are outside of the models. Where truncation matters, words have widths.
In `Relocate` `Short`, `Narrow` and `Wide` stand for 2^16, 2^32 and 2^64, `Page`
for 2^12, and TLC uses 2^6, 2^8, 2^12 and 2^4, which keeps all cases (carry of
the low part, both ends of the range, values above `Narrow`) within a few bits.
In `PIE` `Narrow` is the width of an RVA, in `Firmware` `Byte` is 256 and the
halves and words of addresses follow from it (32 for TLC: a line's count has its
limit at 31 bytes, the upper half changes every 1024). `BackEnds` has no such
constants: its fields are those of the real instructions, and its addresses,
kept as pages and rest, are as large as the real ones.

The operators named `X_Something` above an operator `X` are deliberate faults:
how a plausible mistake in the code would look. They are used to see that each
property fails when the code is wrong in a way that it is meant to catch.

## What is checked

### Fairness

`PipelineSpec` assumes `WF_pipelineVars(PipelineNext)`: as long as a step is
possible one is taken. The code justifies it: `Link` runs on its caller's
goroutine, starts no other, takes no lock and reads no channel, so nothing can
keep it from its next statement. Under this assumption `LinkReturns` says that
every call ends, with an image or an error, and that a loader gets to the end of
the relocation stream. A panic ends a call too, and is admitted only where nothing
is left to lay out and `ResolveRVA` indexes an empty `Out` (`layout.go:338`). It would fail for a loop whose iteration can leave its
index where it is (the mutant `Skip_InPlace`). The last steps are the external
loader's, which is a loop of the same kind over a finite buffer.

No other run assumes fairness, none has a liveness property. TLC's deadlock check
is on in all of them except `calls`, where the number of calls is bounded by
`MaxCalls` and the caller may stop at any time.

### Runs

| run | what it explores | what it shows |
| --- | --- | --- |
| `link` | all lists of up to 3 of 15 kinds of sections, 4 sets of options (one with a file alignment above the section alignment), all map orders, 3 sizes of `.reloc` | no two inputs of a bucket overlap (`InputsApart`), sections disjoint and aligned (`SectionsApart`), inputs bound to the section with their bytes (`WhereHome`), order deterministic (`OutputOrder`), `.reloc` disjoint from the rest (`LinkedApart`), sizes, headers and directory agree with the sections (`HeadersRight`) |
| `tables` | all lists of 3 symbols over 2 names and 7 shapes, strict and permissive | on lists that are `Plain` about their weak symbols the two loops implement `SymbolTable` (`ImplementsPromise`), whatever the order of the rows; entries are final, all missing names are listed, `Lookup` finds what the rules say |
| `objects` | ELF files of 3 sections of 9 kinds, a table that is no whole number of entries included, COFF files of 2 of 4 kinds | relocations keep section and symbol (`RelocsNameSymbols`), sections are kept whole or recognisably dropped (`KeptWhole`) |
| `apply` | all lists of 3 relocations of 12 COFF or 18 ELF kinds in both orders, pairs of 29 kinds of AArch64 data, 3 load addresses | slots are right after rebasing (`SlotsRight`), HI20/LO12 pairs add up (`PairsMeet`), errors have a cause in the input and not in its order (`FailsForCause`) |
| `encodings` | 10600 instruction sequences of all five back ends: each branch and each pair, at 3 places in a page, with targets around both ends of the range and low parts around the sign bit, on words of zeros and of ones | a CPU arrives at S + A (`Lands`), only immediates change (`OpcodeKept`), refusals have a cause (`RefusedForCause`) |
| `stream` | all lists of up to 4 base relocations at page boundaries, with duplicates | the loader reads back what was listed, in ascending order (`RoundTrip`), every block is aligned and leads to the next (`BlocksReadable`) |
| `pipeline` | 4431 links: two objects in both orders, six ways to define the symbol both refer to, relocations of both formats in code, data on two pages and dropped sections, entry points that exist or not, two header reserves; links with nothing left to lay out, and without objects | slots and entry name the bytes meant (`AddressesMeant`, `EntryMeant`), the verdict is that of the documented rules (`VerdictRight`), `Link` returns and panics only if no section is left (`LinkReturns`), components keep each other's types (`PipelineTypeOK`) |
| `pie` | 74000 pairs of executable and options: up to 4 segments in any order, RELA tables of 2 and RELR tables of 3 entries in both orders, sites at the ends of the data, bitmaps with the first, the last and no bit, five sets of options | the image equals what the ELF loader makes, at 3 distances (`RebaseAgrees`), sections and `.reloc` apart (`PIEApart`), headers free (`HeadersFree`), a file is refused exactly if it has to be (`PIEFailsForCause`) |
| `firmware` | five arrangements of segments at eight addresses, both kinds of addresses, two pads, lines of five lengths; names of three lengths | `Flatten` puts every byte at its place (`FlattenFaithful`), no record is rejected (`RecordsAccepted`), the reader has the image at its address (`MemoryRebuilt`) |
| `calls` | 3 calls of either function on 4 images with 6 lists of sections | the image stays sound, bytes are where headers say, old sections are untouched, order promised by `AppendBefore` holds for good |

`LayoutTypeOK`, `ResolveTypeOK`, `ReadTypeOK` and `AppendTypeOK` are the type
invariants of their modules; `PipelineTypeOK` is the conjunction of those of the
modules it composes, `Link`, `Relocate` and `BaseRelocs` included. A type error
in the remaining modules shows as a value that a loader, a CPU or a reader makes
of it, so they have no invariant of that kind.

Why the bounds are enough: the interesting cases are relations between two
things (two inputs of a bucket, two symbols of a name, a relocation and its
partner, a call and the previous one, an address and the next bitmap) with a
third that may come before, between or behind them. Sizes are chosen on both
sides of each alignment, sites at both ends of pages and segments, displacements
at both ends of the range, addresses on both sides of a change of their upper half.

### Preconditions

A precondition is a named part of the property, and says what input the code
relies on without checking it:

- `WellFlagged` (`InputsApart`): a section without bytes shares a bucket with
  sections that have some only as the `.bss` alias of `.data`.
- `HeadersClear` is about section tables that fit `HeaderReserve`, and its part
  about memory about section alignments that are multiples of the file alignment,
  as the PE format asks for. Nothing in `withDefaults` enforces that: otherwise the
  headers, padded to the file alignment, reach into the first section.
  `NoInputReloc` excludes an input section called `.reloc`.
- `Plain` (`ImplementsPromise`) is two conditions on weak symbols, each of them the
  case in which the code and the documented rules part ways. `WeakApart`: no reference
  that must be refused shares its name with a weak symbol (`ReferencesResolved`).
  `WeakEmpty`: no name has a weak symbol's own definition as its only one (`WeakDefined`).
  `VerdictRight` needs the first for what it says of images and panics, not for what
  it says of errors; `LookupFinds` leaves out the names of the second (`OnlyWeak`).
- `AlignmentsAssumption` (`Layout`): alignments are powers of two, or 0 for unset.
  `alignUp` masks bits (`layout.go:394`), which rounds up for powers of two only;
  nothing in `withDefaults` checks that.
- `InReach` (`Lands`) and the same condition in `PairsMeet`: the target is within
  reach of the fixups that have no range check (PCREL_HI20, HI20, PCALA_HI20) or
  whose check leaves out the carry (CALL).
- `CarryTaken` (`Lands`): ABS_HI20 adds the carry of a signed low part; with
  `ori`, which is unsigned, that is right only for low parts below 0x800.
- `AddendInPage` (`Lands`): PAGEBASE_REL21 leaves the addend out, so symbol and
  target must be on one page. `SizeInBits`: PAGEOFFSET_12L reads the access size
  from bits 31:30, which are 0 for 16-byte loads.
- `Small` and `SegmentsApart` (all of `PIE`): less than 4 GiB from ImageBase on;
  segments share no address and hold no more than their memory. Of two that
  overlap, `sectionForVA` takes the first, and a site that only the second holds is
  refused. `ListedOnce`, `WordsApart` (`RebaseAgrees`): no word is listed twice, and
  the eight bytes of no two overlap. `HeadersFree` speaks of memory where ImageBase is
  one section alignment below the first segment and the headers fit there: with a
  SectionAlignment of 512 those of four segments and `.reloc` do not, with 4096 those
  of 94, and `LinkPIE` writes such an image without an error.
- `FieldsApart` (the theorems on `Relocate` and on `Pipeline`; `SlotsApart` there
  says the same of a link that has got as far as relocations): no two relocations
  that write have the same site. A compiler leaves one addend in a field, and a
  second relocation would take the result of the first for it. Fields at different
  sites do not overlap in the model, as they do not in compiled code.
- `JobsAssumption`, `ProgramsAssumption`, `FilesAssumption`, `ImagesAssumption`,
  `EntriesAssumption`: the inputs have their types. Two of them say more. A row of
  a symbol table is a row of one of the objects, and the relocation types of RISC-V
  come with an object for RISC-V (`JobsAssumption`). Sections of an
  image to be appended to are apart, its sizes cover them, and each has an identity
  of its own, by which `Appender` knows it again (`ImagesAssumption`).
- `IdiomsAssumption` (`Instructions`): the sequences are those that compilers emit. A
  relocation type comes with an instruction it is meant for (`Alone`, `Paired`), the
  second relocation of a pair names the same target or, on RISC-V, the first
  instruction (`SecondRight`), and COFF addends are in the instructions (`Meaning`).
- `StreamSmall` (`PipelineTypeCorrect`, `StreamTypeCorrect`): addresses and the size
  of `.reloc` are below 2^32.
- `ByteAssumption` (`Firmware`): a byte holds the types of IHEX records, 0 to 4.
- `WidthAssumption` (`Relocate`), `WidthsAssumption` (`Pipeline`): the four widths
  divide each other and half a `Narrow` is a multiple of `Page`, as 2^31 is of 2^12.
- `LoadsApart` (`FlattenFaithful`): segments do not overlap. `LinesFit`
  (`RecordsAccepted`, `MemoryRebuilt`): a line's count fits its byte, which
  neither encoder checks, and the size of a UImage fits its word.
  `NotAtSentinel`: see the run `sentinel`. `InWord`: the image ends within 32 bits.

### Where the code and its documentation disagree

Two runs check a statement of the repository and find a counterexample. The
quotes are in `PROJECT.json`.

| run | statement | what the code does |
| --- | --- | --- |
| `shifted` | section numbers count `Object.Sections` from 1, in both formats | ELF symbols keep the ELF index while `Object.Sections` includes the null section: each is taken from the section in front of its own (`elf.go:179`) |
| `sentinel` | IHEX emits a type 04 record whenever the upper half of the address changes | the sentinel 0xffff is itself the upper half of the topmost 64 KiB: an image that starts there, as one for the x86 reset vector, has no such record and is loaded at the bottom of memory (`fwimg.go:147`) |

The other disagreements met while modelling have no run of their own. The models
have the code's behaviour, and the hazards in `PROJECT.json` name the lines:

- a weak symbol that brings a definition along, as `STB_WEAK` functions of ELF objects
  do, is zero, and so is every reference to it (`CheckWeak`, `resolve.go:116`;
  `resolve.go:69`: zero if nothing supplies a definition). `WeakDefined` in `Resolve`
  states the rule, and TLC refutes it on the lists of the run `tables`;
- an undefined reference behind a weak symbol of its name finds the zero that the
  second pass has just installed and is accepted in strict mode; in front of it it is
  refused (`CheckExternal`, `resolve.go:108`; `resolve.go:61` asks for an external
  definition, in any order). `ReferencesResolved` states that, and is refuted too;
- inputs are concatenated flush (`PlacedAt`; `reloc_loongarch64.go:67` relies on
  the layout to honour alignments, `layout.go:247` says that it does not);
- from 18 sections on with the defaults, the section table reaches over the data
  of the first section (`SizeOfHeaders`; `link.go:118`: headers, padding, data);
- 64-bit references to an absolute symbol, or to an allowed missing external, get
  a base relocation and move (`BaseRelocsOf`; `object.go:114`, `resolve.go:44`);
- custom sections come out in alphabetical order, because inputs are sorted before
  they are collected (`layout.go:147`: in the order first seen);
- a reference into a filtered section resolves to the start of the first output
  section, and panics if there is none (`ResolveRVA`, `ResolvePanics`; `layout.go:49`:
  `OffsetIn` maps each input section);
- in a custom section, an input with bytes behind a BSS input resets the size and
  overlaps it (`Absorb`; `layout.go:34`: a concatenation of every input section);
- the default ImageBase of `LinkPIE` is one section alignment below the first
  segment (`ImageBase`; `pie.go:14`: floored to 64 KiB, which `pie.go:74` says
  was given up);
- a section appended behind an empty one has the same address (`nextVA`
  in `Appender`; `appender.go:95`: past every existing section).

## What is proved

The theorems are in the modules named `...Proofs` and hold for every value of the
constants: any number of objects, sections, symbols, relocations and calls, any
alignments, any widths. What they assume is said at the `ASSUME`s of the modules
and under "Preconditions": the inputs have their types, names have a strict
order, widths divide each other. No theorem assumes anything about how a program
runs. An invariant that a run checks is seldom inductive; what follows says
which stronger one is, and why it has to say more.

### Resolution (`ResolveProofs`)

- `ResolveImplements`: `ResolveSpec => Promise!TableSpec`. The promise is that of the
  doc comment, not of the loops: a name means its external definition, without one a
  weak symbol's, and zero if there is neither; nothing in it depends on the order of
  the rows. `TableSpec` asks a step to be `Decide` if the list is `Plain`. The
  refinement mapping shows the table and the verdict only once `pc` is an outcome, so
  all steps but the last stutter. `ResolveInv` says for each pass what the table is in terms of
  the rows in front of the cursor: in the first pass the entries are exactly the
  definitions seen, no two of a name; in the second they are all definitions and a
  zero for each other name that a weak row, or with `allow` a reference, has
  needed, and `missing` is what neither a definition nor an earlier weak row serves.
  For plain lists that is what the rules say, in any order: `MissingRight` and
  `VerdictKept` show it of the verdict, `NamesKept` and `MeaningKept` of the table.
- `ResolveTypeCorrect`, `ResolveEntriesFinal` (an action property),
  `ResolveAllMissing` and `ResolveLookup`, which are about all lists, follow from the same invariant.

### Layout and emission (first part of `PipelineProofs`)

- `LayoutSectionsApart`. `ApartInv` says where pass C is: both pointers are
  aligned, not below the header reserve and not below the ends of any section
  placed so far. `BssInv` relates the bytes of a bucket to its flag, so that a
  `RawSize` of zero loses nothing; it speaks of the entries still to be placed,
  because a bucket keeps the flag of its first input.
- `LayoutInputsApart`. In a standard bucket nothing overlaps because the sort has
  put the inputs with data in front of the BSS ones: `OrderInv` says that whatever
  is placed precedes whatever is not.
- `LayoutOutputOrder`, `LayoutWhereHome`. `BucketInv`, `CustomInv` and `EmitInv`
  say what each bucket was made of and which buckets were emitted. The order in
  which Go ranges over the map is an arbitrary choice of the step.
- `LinkSectionsApart`, `LinkHeadersRight`. Behind the layout only `TailApart` is
  kept: sections ascend, are aligned, and the first one of the file is behind the
  headers. `.reloc` is one more section of the same kind. `Emission` says what the
  fields of the image are in terms of the final sections.
- `LayoutTypeCorrect`, `LinkTypeCorrect`.

### Relocation (`RelocateProofs`)

- `RelocateSlotsRight`: for any program, any widths and any distance, every slot is
  right after the loader has rebased the image. `MemInv` gives the content of each
  field by the bytes it had at first (`OrigValue`), which is where `FieldsApart`
  is needed; `BaseInv` says that each absolute slot has one base relocation and
  nothing else has any. The rest is arithmetic of `%`, in lemmas.
- `RelocatePairsMeet`: the carry of the high part makes up for the sign of the low
  part, for every address in reach, and the side table of the pre-pass has the
  address of the partner, wherever it is in the input.
- `RelocateFailsForCause`: `ApplyRelocations` fails if, and only if, some
  relocation could not have been applied in any order. The run found one direction
  too weak to be worth proving, and `FailsForCause` now has both.
- `RelocateTypeCorrect`: patched fields keep their width.

### Instructions (`InstructionsProofs`)

- `SequencesLand`: for every sequence of the five back ends, at any address, with
  any target, addend and bits in front of the fixup: a sequence that links ends at
  its target. `OpcodesKept`: no bit outside of an immediate changes.
  `RefusalsHaveCause`: a back end refuses only what the instruction cannot encode.

  A field and an immediate that list the same bits transport those bits of a number
  (`FixupLands`), and a number of the immediate's width is the sum of its bits with
  the sign copied above (`ImmediateIs`). So each relocation leaves in its word what
  the sequence needs from it, one lemma per kind of instruction, and the parts of
  two words add up, carry included (`PartsAddUp`). `InstrInv` adds to the three
  properties that the words patched so far are right and the others original
  (`Linked`), and what the CPU has computed in front of the second instruction, which
  is the target without its low part (`Reached`).

  What a sequence must be to land is in the antecedent of `Lands` (`InReach`,
  `CarryTaken`, `AddendInPage`, `SizeInBits`), and the bounds are those at which it
  ceases to be true. For these proofs the model reads an immediate as a number by its
  bits (`Number`) and names the sequences it is about (`Emitted`).

### The base relocation section (`BaseRelocsProofs`)

- `StreamRoundTrip`: for every list, in any order and with any duplicates, the
  loader applies each base relocation as often as it is listed, in ascending order.
- `StreamBlocksReadable`: blocks begin on 4-byte boundaries, and their sizes lead
  to the end of the stream.
- `StreamTypeCorrect`: while addresses and stream are below 4 GiB, what is written
  are halfwords. `BoundsInv` says so of a small stream only; a stream grows, so one
  that is small now was small at each earlier step.

  `StreamInv` says that the stream is the encoding of a sequence `p` of positions
  of the list, cut into blocks: `s` and `h` give the block and the halfword of its
  k-th fixup. The loader's place (`pos`, `fix`) is then the place of the fixup it
  has come to. The witnesses are unbounded, so TLC cannot evaluate this invariant;
  the two properties are what it checks.

### The readers (first part of `FormatProofs`)

- `ReadKeepsWhole`, `ReadNamesSymbols`, `ReadTypeCorrect`, for files of any number
  of headers, entries and symbols. `RelocsInv` says which tables have been read in
  terms of the cursor: a table of ELF patches the section that its header names, if
  it is the only one to do so. The proof found that two cases of `ReadSection`
  overlapped, where the choice of a CASE is arbitrary; they are ordered now, as in
  the code.

### Firmware images (second part of `FormatProofs`)

- `FlattenIsFaithful`: for any segments that do not overlap, in any order of the
  equal ones. `FlatInv` says that the image spans them from the first step on, that
  those copied are in place and that the rest is still pad.
- `EveryRecordAccepted`, `MemoryIsRebuilt`: for images of any size, lines of any
  length that fit a count, and bytes of any width. `Log` says what the records in
  front of the encoder carry: two sequences `o` and `u` give, for each of them, how
  much of the image is written in front of it and which upper half is announced
  there. The reader then has the first `o[pos]` bytes and the upper half `u[pos]`
  (`ReaderAt`), except in front of its first record, where the encoder may start
  with the sentinel, and that it is never taken for an upper half is
  `NotAtSentinel`. The pair `SrecRecord`, `IhexRecord` shows that a record's count
  and checksum are right and that a reader decodes what went into it. A checksum is
  a sum over a sequence: that such sums exist and add up (`SumsExist`,
  `SumOfConcat`) is proved by taking the least length at which they do not, without
  an induction theorem.

  As before, the proof found what the instances could not show: the size field of
  a UImage is 32 bits wide, so `RecordsAccepted` was false of larger images.
  `LinesFit` says so now.

### Position-independent executables (`PIEProofs`)

- `PIERebaseAgrees`: for every file, any number of segments and of RELA and RELR
  tables, and any distance, each word of the loaded image is what an ELF loader
  would have made of it. `CursorInv` says that the running cursor of RELR is where
  the format has it, which depends on the last address in front of it (`RelrCursor`).
  `SitesInv` relates the base relocations found to the entries decoded, in both
  directions; `WordsInv` says that a word holds the addend of its entry or what the
  file had. That no word is rebased twice is counting (`CountOnce`).
- `PIEVerdictRight`: a file is refused if, and only if, `Unfit`. Each refusal has
  its cause in the file; and what the decoder has passed, it has checked.
- `PIESectionsApart`, `PIEHeadersFree`. `Placed` and `SectionsInv` say where the
  segments are mapped; `.reloc` follows with the lemmas of `PEImageProofs`.

  All four are about images below 4 GiB of segments that lie apart, and the first
  one about words that are listed once and lie apart (see Preconditions).

  The proofs changed the properties. `PIEFailsForCause` had one direction and was
  false of segments that overlap; `HeadersFree` was false of headers that outgrow
  SectionAlignment; both were true on the instances TLC had. `RebaseAgrees` speaks
  of all words that hold something or that a table names, where it had only looked
  at those of the image. The sort is any sequence of the segments in ascending order
  (`Sorted`), since `sort.Slice` promises no more.

### The appender (third part of `FormatProofs`)

- `AppendImageSound`, `AppendDataHeld`, `AppendBeforeNamed`, `AppendTypeCorrect` and
  the action property `AppendKeepsOld`, over any number of calls. Between two calls
  the image is `Sound` and `Held`. Within a call `LoopInv` says where the running
  pointers are: behind every old section and every new one. `MarksInv` tells the
  sections of different calls apart, so that `PromisesInv` can keep the promises
  that `AppendBefore` has made in earlier calls.

### From end to end (`PipelineProofs`)

`Pipeline` uses its components by INSTANCE and so do the proofs: `Resolver`,
`Patcher` and `Reader` are the proof modules of `Resolve`, `Relocate` and
`BaseRelocs` on the variables of `Pipeline`, and their inductive invariants are
parts of `PipelineInv`. What the assumptions of `Relocate` ask of a program is
proved of what the layout and the table hand over (`Handable`, `LaidOutBegins`),
and what those of `BaseRelocs` ask of a list is proved of what `ApplyRelocations`
has found. The other parts say what must survive the hand-over: `.reloc` is
appended after addresses were used, so `Handing` (each relocation is what the
layout and the table say) has to be kept by that step too.

- `PipelineAddressesMeant`: the whole chain. `MeantLookup` says that the symbol of a
  relocation is the row that the object file meant, `TargetMeant` that its address
  is where the section table has that row, `SlotOnDisk` that the slot is in the
  file, `TimesApplied` that the loader of the stream applies what was listed, and
  `SlotsRight` does the rest. It assumes `FieldsApart` and `WellFlagged`.
- `PipelineVerdictRight`: by the documented rules, which know no order, a link that
  fails has something in its objects that forbids an image (`FailInv` follows a
  failure to the stage that reported it); one that ends in an image has nothing of
  the kind, if `WeakApart`, and a byte to lay out (`EmittedKept`); and one that panics
  is as sound, but has nothing to lay out (`PanicInv`). `BareInv` carries the
  emptiness from the filter to the end of the layout. `Refusable` includes the slots
  that are too short and the values that are out of reach at the final addresses.
- `PipelineEntryMeant`, `PipelineSectionsApart`, `PipelineHeadersRight`.
- `PipelineTypeCorrect`: the types of all stages at once, those of the stages that
  have not begun and of those left behind by a failure or a panic included
  (`TypedInv`).

### What is only model-checked

`LinkReturns`, which is liveness, and that the two statements of the repository
in the table above are false: every other property of a run has its theorem.

Out of the prover's reach: liveness, induction over data, which would be needed
for what a recursive definition computes on inputs of any size, and theorems in
modules with RECURSIVE operators. The models have no recursive operator for that
reason: loops are steps. Where they have a recursive function (`Number`, the sums of
`Firmware`), the proofs show that such a function exists and take the set of indices
up to which it is right, in the place of an induction theorem.

## What is not modelled

- The upper words of 64-bit LoongArch addresses (R_LARCH_ABS64_LO20/HI12,
  PCALA64_LO20/HI12): TLC's integers have 32 bits, and addresses above 2^42 do
  not fit the two limbs of `Words`. The last two take bits of an unrounded
  displacement, without the carry of the parts below, which a reader of
  `reloc_loongarch64.go:140` should know.
- Debug relocations (SECTION, SECREL, TOKEN) patch nothing and are the kind `none`.
- The hexadecimal text of records, and CRC-32 as a function: a record is its
  bytes, and a CRC is the content it is computed of, so the model can tell that
  it is taken of the right bytes at the right time, and not that it is CRC-32.
- Names and flags that `LinkPIE` gives to its sections.
- Parsing (`debug/pe`, `debug/elf`, `parse` of the appender) and I/O errors:
  files are given as the tables those present. `Pipeline` therefore starts from
  objects and not from files, and with correct section numbers: the reader's
  shift of ELF sections is shown in `ReadObject`.
- `SizeOfCode`, `SizeOfInitializedData`, `SizeOfUninitializedData` and `BaseOfCode`,
  which `emitPE` sums up for the optional header (`link.go:198-220`): no property
  depends on them.
- Constant header fields, `CheckSum`, `Characteristics` of sections beyond the
  three flags the code branches on.
- Data directories of appended images: cutting off bytes behind the last section
  leaves a certificate directory stale; it is listed as a hazard.

## Plan

Done: all parts named above are modelled and have a run; proved are the readers,
resolution, layout, emission, relocation, instruction fixups, the base relocation
section, position-independent executables, the appender, the firmware formats and,
over the stages of `Link`, the whole of it from the objects to the loaded image.

Next: `Append` on an image that `Pipeline` has made, to discharge the appender's
assumption on its input.
