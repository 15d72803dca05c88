-------------------------------- MODULE Relocate --------------------------------
(***************************************************************************)
(* ApplyRelocations of linker/relocate.go: the machine check, the RISC-V   *)
(* pre-pass over PCREL_HI20 sites, then one relocation per step, in input  *)
(* order, up to the first error; and the loader replaying the base         *)
(* relocations when it loads the image Delta bytes away.                   *)
(*                                                                         *)
(* What Resolve and ComputeLayout have decided comes with each relocation: *)
(* the RVA of its site, the bytes its section has from there on, and what  *)
(* its symbol resolves to.  The types of the five back ends are reduced to *)
(* the fixups they share; the bits of an instruction that a fixup leaves   *)
(* alone are not modelled, its immediate is.  Widths are constants:        *)
(* Page is 2^12, Short 2^16, Narrow 2^32 and Wide 2^64 in the code.         *)
(***************************************************************************)
EXTENDS Integers, Sequences, FiniteSets

CONSTANTS Programs,            \* the relocation lists to be applied
          Deltas,              \* distances at which the image may be loaded
          Page, Short, Narrow, Wide

\* abs64   ADDR64, R_*_64, R_AARCH64_ABS64, R_LARCH_64
\* abs32   ADDR32, R_*_32, R_AARCH64_ABS32
\* rva32   ADDR32NB (COFF)
\* pc32    REL32 (COFF), R_X86_64_PC32 and PLT32 (ELF)
\* pc64    R_X86_64_PC64, R_AARCH64_PREL64
\* prel32  R_AARCH64_PREL32, which has no range check
\* prel16  R_AARCH64_PREL16
\* abs16   R_AARCH64_ABS16: no base relocation has 16 bits
\* hi20    R_RISCV_PCREL_HI20
\* lo12    R_RISCV_PCREL_LO12_I and _S: its symbol labels a hi20 site
\* none    the hints and debug types without a fixup
\* other   a type the back end does not know
Kinds == {"abs64", "abs32", "abs16", "rva32", "pc64", "pc32", "prel32", "prel16", "hi20", "lo12",
          "none", "other"}

Target == [kind : {"defined", "absolute", "undefined", "error"}, value : Nat]

Reloc == [placed : BOOLEAN, site : Nat, room : Int, kind : Kinds, target : Target,
          elf : BOOLEAN, addend : Int]

ASSUME WidthAssumption ==
  /\ Page \in Nat \ {0} /\ Page % 2 = 0
  /\ Short \in Nat \ {0} /\ Short % Page = 0
  /\ Narrow \in Nat \ {0} /\ Narrow % Short = 0 /\ (Narrow \div Page) % 2 = 0
  /\ Wide \in Nat \ {0} /\ Wide % Narrow = 0
  /\ Deltas \subseteq Nat

\* The relocations of a section lie in the memory of the program; those of RISC-V
\* come with an object for RISC-V.
ASSUME ProgramsAssumption ==
  \A p \in Programs :
    /\ p.machines \in Seq({"amd64", "arm64", "riscv64", "loongarch64"})
    /\ p.base \in Nat /\ p.relocs \in Seq(Reloc)
    /\ \A s \in DOMAIN p.mem : p.mem[s] \in 0 .. Wide - 1
    /\ \A i \in DOMAIN p.relocs :
         LET r == p.relocs[i] IN
         /\ r.placed => r.site \in DOMAIN p.mem
         /\ r.kind \in {"hi20", "lo12"} =>
              \E o \in DOMAIN p.machines : p.machines[o] = "riscv64"

VARIABLES prog,   \* the program
          at,     \* the next relocation
          mem,    \* site -> the value or immediate stored there
          pcrelHI,\* VA of a hi20 site -> VA it points at
          base,   \* the base relocations, in the order they are found
          pc

relocateVars == <<prog, at, mem, pcrelHI, base, pc>>

Relocs == prog.relocs

\* Signed reading of a value of w states.
Signed(v, w) == IF v % w < w \div 2 THEN v % w ELSE (v % w) - w

-------------------------------------------------------------------------------
(* ApplyRelocations *)

TargetVA(r) == IF r.target.kind = "defined" THEN prog.base + r.target.value ELSE r.target.value
PatchVA(r)  == prog.base + r.site

\* COFF addends are in the field, whatever its width; ELF ones come with RELA.
AddendIn(m, r) == IF r.elf THEN r.addend
                  ELSE IF r.kind = "abs64" THEN m[r.site] ELSE Signed(m[r.site], Narrow)
Addend(r) == AddendIn(mem, r)

Resolves(r) == r.target.kind \in {"defined", "absolute"}

SameMachine == \A i \in DOMAIN prog.machines : prog.machines[i] = prog.machines[1]

\* The pre-pass stops, instead of moving on, at a relocation of another type.
HiSites_Leading == {i \in DOMAIN Relocs : \A j \in 1 .. i : Relocs[j].kind = "hi20"}
HiSites == {i \in DOMAIN Relocs : Relocs[i].kind = "hi20"}

\* It skips symbols that are not found and looks at placed sections only.
HiUsable == {i \in HiSites : Relocs[i].placed /\ Relocs[i].target.kind /= "error"}

LastOf(S) == CHOOSE i \in S : \A j \in S : j <= i

\* The last of several relocations of a site counts.
pcrelHITable ==
  [va \in {PatchVA(Relocs[i]) : i \in HiUsable} |->
     LET r == Relocs[LastOf({i \in HiUsable : PatchVA(Relocs[i]) = va})]
     IN  TargetVA(r) + r.addend]

Begin ==
  /\ pc = "begin"
  /\ IF SameMachine
     THEN /\ pc' = "apply"
          /\ pcrelHI' = IF prog.machines /= << >> /\ prog.machines[1] = "riscv64"
                        THEN pcrelHITable ELSE << >>
     ELSE pc' = "error" /\ UNCHANGED pcrelHI
  /\ UNCHANGED <<prog, at, mem, base>>

Width(k) ==
  CASE k \in {"abs64", "pc64"} -> 8 [] k \in {"abs16", "prel16"} -> 2 [] OTHER -> 4

\* COFF PC-relative fixups count from the end of the field, ELF ones carry that
\* distance in the addend.
Displacement(r) == TargetVA(r) + Addend(r) - PatchVA(r) - (IF r.elf THEN 0 ELSE 4)

InRange(d) == -(Narrow \div 2) <= d /\ d < Narrow \div 2

\* The high part without the carry of a negative low part.
Hi20_NoCarry(d) == d \div Page
Hi20(d) == (d + Page \div 2) \div Page

Fails(r) ==
  \/ ~Resolves(r)
  \/ r.room < 0
  \/ r.kind = "other"
  \/ r.kind /= "none" /\ r.room < Width(r.kind)
  \/ r.kind = "pc32" /\ ~InRange(Displacement(r))
  \/ r.kind = "lo12" /\ TargetVA(r) \notin DOMAIN pcrelHI

Value(r) ==
  CASE r.kind \in {"abs64", "abs32", "abs16"} -> TargetVA(r) + Addend(r)
    [] r.kind = "rva32" -> TargetVA(r) - prog.base + Addend(r)
    [] r.kind \in {"pc64", "pc32", "prel32", "prel16"} -> Displacement(r)
    [] r.kind = "hi20"  -> Hi20(TargetVA(r) + r.addend - PatchVA(r))
    [] r.kind = "lo12"  -> pcrelHI[TargetVA(r)] - TargetVA(r)

\* How many values the field or immediate has.
Span(k) ==
  CASE k \in {"abs64", "pc64"} -> Wide
    [] k \in {"abs16", "prel16"} -> Short
    [] k = "hi20" -> Narrow \div Page
    [] k = "lo12" -> Page
    [] OTHER -> Narrow

\* The value written over its neighbours, without the field's mask.
Masked_Not(v, k) == v
\* The part of the value that the field or immediate holds.
Masked(v, k) == v % Span(k)

Fixup(r) == Masked(Value(r), r.kind)

\* No base relocation for 32-bit slots.
BaseRelocsOf_64Only(r) ==
  IF r.kind = "abs64" THEN << [rva |-> r.site, type |-> "DIR64"] >> ELSE << >>

BaseRelocsOf(r) ==
  CASE r.kind = "abs64" -> << [rva |-> r.site, type |-> "DIR64"] >>
    [] r.kind = "abs32" -> << [rva |-> r.site, type |-> "HIGHLOW"] >>
    [] OTHER -> << >>

\* The loop that skips a relocation without moving on.
Skip_InPlace ==
  /\ pc = "apply" /\ at \in DOMAIN Relocs /\ ~Relocs[at].placed
  /\ UNCHANGED relocateVars

\* Relocations of discarded sections are skipped unread.
Skip ==
  /\ pc = "apply" /\ at \in DOMAIN Relocs /\ ~Relocs[at].placed
  /\ at' = at + 1
  /\ UNCHANGED <<prog, mem, pcrelHI, base, pc>>

applyOne ==
  LET r == Relocs[at] IN
  /\ pc = "apply" /\ at \in DOMAIN Relocs /\ r.placed /\ ~Fails(r)
  /\ mem' = IF r.kind = "none" THEN mem ELSE [mem EXCEPT ![r.site] = Fixup(r)]
  /\ base' = base \o BaseRelocsOf(r)
  /\ at' = at + 1
  /\ UNCHANGED <<prog, pcrelHI, pc>>

Abort ==
  /\ pc = "apply" /\ at \in DOMAIN Relocs /\ Relocs[at].placed /\ Fails(Relocs[at])
  /\ pc' = "error"
  /\ UNCHANGED <<prog, at, mem, pcrelHI, base>>

Applied ==
  /\ pc = "apply" /\ at \notin DOMAIN Relocs
  /\ pc' = "linked"
  /\ UNCHANGED <<prog, at, mem, pcrelHI, base>>

RelocateInit ==
  /\ prog \in Programs
  /\ at = 1 /\ mem = prog.mem /\ pcrelHI = << >> /\ base = << >> /\ pc = "begin"

RelocateNext == Begin \/ Skip \/ applyOne \/ Abort \/ Applied

RelocateReturned == pc \in {"linked", "error"} /\ UNCHANGED relocateVars

RelocateSpec == RelocateInit /\ [][RelocateNext \/ RelocateReturned]_relocateVars

-------------------------------------------------------------------------------
(* The loader: every base relocation adds the distance to its slot *)

Times(site, type) == Cardinality({i \in DOMAIN base : base[i] = [rva |-> site, type |-> type]})

Loaded(site, d) ==
  IF Times(site, "DIR64") > 0 THEN (mem[site] + d * Times(site, "DIR64")) % Wide
  ELSE (mem[site] + d * Times(site, "HIGHLOW")) % Wide

\* Where the code expects a relocation's target after loading: what is defined
\* in a section moves with the image, an absolute value does not.
Expected(r, d) == TargetVA(r) + (IF r.target.kind = "defined" THEN d ELSE 0)

OrigAddend(r) == AddendIn(prog.mem, r)

-------------------------------------------------------------------------------
(* Properties *)

\* The variables of ApplyRelocations keep their types.
RelocateTypeOK ==
  /\ at \in 1 .. Len(Relocs) + 1
  /\ \A s \in DOMAIN mem : mem[s] \in 0 .. Wide - 1
  /\ \A i \in DOMAIN base : base[i].rva \in DOMAIN mem /\ base[i].type \in {"DIR64", "HIGHLOW"}
  /\ pc \in {"begin", "apply", "linked", "error"}

Placed(k) == {i \in DOMAIN Relocs : Relocs[i].placed /\ Relocs[i].kind \in k}

\* Wherever the loader puts the image, every 64- and 32-bit slot that refers to
\* something in a section holds its address.
SlotsMove ==
  pc = "linked" =>
    \A i \in Placed({"abs64", "abs32"}), d \in Deltas :
      LET r == Relocs[i]
          w == IF r.kind = "abs64" THEN Wide ELSE Narrow
      IN  r.target.kind = "defined" =>
            Loaded(r.site, d) % w = (Expected(r, d) + OrigAddend(r)) % w

\* PC-relative and image-relative slots that refer to a section are right at
\* every distance without a base relocation; pc32 is never silently truncated,
\* the PREL types hold the low bits.
SlotsStay ==
  pc = "linked" =>
    \A i \in Placed({"pc64", "pc32", "prel32", "prel16", "rva32"}), d \in Deltas :
      LET r    == Relocs[i]
          next == PatchVA(r) + d + (IF r.elf THEN 0 ELSE 4)
      IN  r.target.kind = "defined" =>
            CASE r.kind = "pc32" ->
                   next + Signed(Loaded(r.site, d), Narrow) = Expected(r, d) + OrigAddend(r)
              [] r.kind = "rva32" ->
                   Loaded(r.site, d) % Narrow = (r.target.value + OrigAddend(r)) % Narrow
              [] OTHER ->
                   (next + Loaded(r.site, d)) % Span(r.kind)
                     = (Expected(r, d) + OrigAddend(r)) % Span(r.kind)

\* Wherever the loader puts the image, every slot is right.
SlotsRight == SlotsMove /\ SlotsStay

InReach(d) == -(Narrow \div 2) <= d + Page \div 2 /\ d + Page \div 2 < Narrow \div 2

\* A PCREL_LO12 completes the address that its PCREL_HI20 has begun, wherever the
\* two are in the input and however the low part is signed.
PairsMeet ==
  pc = "linked" =>
    \A l \in Placed({"lo12"}), h \in Placed({"hi20"}) :
      LET lo == Relocs[l]
          hi == Relocs[h]
          va == TargetVA(hi) + hi.addend
      IN  PatchVA(hi) = TargetVA(lo) /\ InReach(va - PatchVA(hi)) =>
            PatchVA(hi) + Signed(mem[hi.site], Narrow \div Page) * Page
              + Signed(mem[lo.site], Page) = va

\* A relocation whose slot or value does not fit, by the bytes of its object: a
\* PCREL_LO12 has nothing to complete unless a PCREL_HI20 that is patched is at
\* its symbol.
Misfit(r) ==
  \/ r.room < 0
  \/ r.kind /= "none" /\ r.room < Width(r.kind)
  \/ r.kind = "pc32"
       /\ ~InRange(TargetVA(r) + OrigAddend(r) - PatchVA(r) - (IF r.elf THEN 0 ELSE 4))
  \/ r.kind = "lo12"
       /\ \A h \in Placed({"hi20"}) : Resolves(Relocs[h]) => PatchVA(Relocs[h]) /= TargetVA(r)

\* What no order of the input would make linkable.
Refused ==
  \/ \E i, j \in DOMAIN prog.machines : prog.machines[i] /= prog.machines[j]
  \/ \E i \in Placed(Kinds) :
       ~Resolves(Relocs[i]) \/ Relocs[i].kind = "other" \/ Misfit(Relocs[i])

\* A link that fails does so for a reason no order of the input would avoid: the
\* offending relocation is in itself unresolvable, unsupported or out of range;
\* and no link with such a relocation succeeds.
FailsForCause == (pc = "error" => Refused) /\ (pc = "linked" => ~Refused)
===============================================================================
