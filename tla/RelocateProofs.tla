----------------------------- MODULE RelocateProofs -----------------------------
(***************************************************************************)
(* Proofs about ApplyRelocations, for every program whose relocations      *)
(* patch different fields: the slots it leaves are right at every distance *)
(* at which the image is loaded, and it fails for a cause.                 *)
(***************************************************************************)
EXTENDS Relocate, PEImageProofs, FiniteSetTheorems

-------------------------------------------------------------------------------
(* Modular arithmetic *)

\* Multiples of the modulus do not matter.
LEMMA ModShift ==
  ASSUME NEW v \in Int, NEW w \in Nat \ {0}, NEW k \in Int
  PROVE  (v + w * k) % w = v % w
<1> DEFINE q == v \div w
           r == v % w
<1>1. r \in 0 .. w - 1 /\ q \in Int /\ v = w * q + r
  BY DivMod
<1> HIDE DEF q, r
<1>2. v + w * k = w * (q + k) + r
  BY <1>1
<1>3. (w * (q + k) + r) % w = r
  BY <1>1, ModUnique
<1> QED BY <1>2, <1>3 DEF r

\* A remainder may be taken before an addition.
LEMMA ModAdd ==
  ASSUME NEW v \in Int, NEW w \in Nat \ {0}, NEW d \in Int
  PROVE  ((v % w) + d) % w = (v + d) % w
<1> DEFINE q == v \div w
           r == v % w
<1>1. r \in 0 .. w - 1 /\ q \in Int /\ v = w * q + r
  BY DivMod
<1> HIDE DEF q, r
<1>2. v + d = (r + d) + w * q /\ r + d \in Int
  BY <1>1
<1>3. ((r + d) + w * q) % w = (r + d) % w
  BY <1>1, <1>2, ModShift
<1> QED BY <1>2, <1>3 DEF r

\* A remainder may be taken by a multiple first.
LEMMA ModDivides ==
  ASSUME NEW v \in Int, NEW w \in Nat \ {0}, NEW u \in Nat \ {0}, w % u = 0
  PROVE  (v % w) % u = v % u
<1> DEFINE q == v \div w
           r == v % w
           k == w \div u
<1>1. r \in 0 .. w - 1 /\ q \in Int /\ v = w * q + r
  BY DivMod
<1>2. k \in Int /\ w = u * k
  BY DivMod
<1> HIDE DEF q, r, k
<1>3. w * q = u * (k * q) /\ k * q \in Int
  BY <1>1, <1>2
<1>4. v = r + u * (k * q)
  BY <1>1, <1>3
<1>5. (r + u * (k * q)) % u = r % u
  <2>1. r \in Int
    BY <1>1
  <2> QED BY <1>3, <2>1, ModShift
<1> QED BY <1>4, <1>5 DEF r

\* Small values survive the reduction.
LEMMA ModSmall ==
  ASSUME NEW w \in Nat \ {0}, NEW v \in 0 .. w - 1
  PROVE  v % w = v
<1>1. (w * 0 + v) % w = v
  BY ModUnique
<1> QED BY <1>1

\* The signed reading of the low bits of a value in range is the value.
LEMMA SignedRange ==
  ASSUME NEW w \in Nat \ {0}, w % 2 = 0, NEW v \in Int, -(w \div 2) <= v, v < w \div 2,
         NEW x \in Int, x % w = v % w
  PROVE  Signed(x, w) = v
<1>1. w = 2 * (w \div 2) /\ w \div 2 \in Nat
  OBVIOUS
<1>2. CASE v >= 0
  <2>1. v % w = v
    BY <1>1, <1>2, ModSmall
  <2> QED BY <2>1 DEF Signed
<1>3. CASE v < 0
  <2>1. v + w \in 0 .. w - 1
    BY <1>1, <1>3
  <2>2. (w * (-1) + (v + w)) % w = v + w
    BY <2>1, ModUnique
  <2>3. w * (-1) + (v + w) = v
    OBVIOUS
  <2>4. v % w = v + w
    BY <2>2, <2>3
  <2> QED BY <1>1, <2>1, <2>4 DEF Signed
<1> QED BY <1>2, <1>3

-------------------------------------------------------------------------------
(* The widths *)

\* The widths nest, each a multiple of the ones below it.
LEMMA Widths ==
  /\ Page \in Nat \ {0} /\ Short \in Nat \ {0} /\ Narrow \in Nat \ {0} /\ Wide \in Nat \ {0}
  /\ Narrow % Page = 0 /\ Narrow = Page * (Narrow \div Page)
  /\ Narrow \div Page \in Nat \ {0} /\ (Narrow \div Page) % 2 = 0
  /\ Page % 2 = 0 /\ Narrow % 2 = 0 /\ Wide % Narrow = 0 /\ Wide % Short = 0
<1>1. /\ Page \in Nat \ {0} /\ Short \in Nat \ {0} /\ Narrow \in Nat \ {0} /\ Wide \in Nat \ {0}
      /\ Page % 2 = 0 /\ Short % Page = 0 /\ Narrow % Short = 0 /\ Wide % Narrow = 0
      /\ (Narrow \div Page) % 2 = 0
  BY WidthAssumption
<1>0. /\ Page \in Int /\ Short \in Int /\ Narrow \in Int /\ Wide \in Int /\ 2 \in Nat \ {0}
      /\ Page * (Narrow \div Page) \in Int
  BY <1>1, DivMod
<1>2. Narrow % Page = 0
  <2>1. (Narrow % Short) % Page = Narrow % Page
    BY <1>0, <1>1, ModDivides, Zenon
  <2>2. 0 % Page = 0
    BY <1>1, ModSmall
  <2> QED BY <1>1, <2>1, <2>2
<1>3. Narrow % 2 = 0
  <2>1. (Narrow % Page) % 2 = Narrow % 2
    BY <1>0, <1>1, ModDivides, Zenon
  <2> QED BY <1>2, <2>1
<1>4. Wide % Short = 0
  <2>1. (Wide % Narrow) % Short = Wide % Short
    BY <1>0, <1>1, ModDivides, Zenon
  <2>2. 0 % Short = 0
    BY <1>1, ModSmall
  <2> QED BY <1>1, <2>1, <2>2
<1>5. Narrow = Page * (Narrow \div Page) + (Narrow % Page) /\ Narrow \div Page \in Int
  BY <1>1, DivMod
<1>6. Narrow \div Page \in Nat \ {0}
  <2> DEFINE m == Narrow \div Page
  <2>1. m \in Int /\ Narrow = Page * m
    BY <1>0, <1>2, <1>5
  <2> HIDE DEF m
  <2>2. m > 0
    <3>1. CASE m <= 0
      <4>1. Page * m <= 0
        BY <1>1, <2>1, <3>1
      <4> QED BY <1>1, <2>1, <4>1
    <3> QED BY <2>1, <3>1
  <2> QED BY <2>1, <2>2 DEF m
<1> QED BY <1>1, <1>2, <1>3, <1>4, <1>5, <1>6

\* Each field fits the slot, and its width divides that of the slot.
LEMMA Spans ==
  ASSUME NEW k \in Kinds
  PROVE  Span(k) \in Nat \ {0} /\ Span(k) <= Wide
<1>1. Narrow <= Wide /\ Short <= Wide /\ Page <= Narrow
  <2>1. \A v \in Nat \ {0}, w \in Nat \ {0} : v % w = 0 => w <= v
    <3> SUFFICES ASSUME NEW v \in Nat \ {0}, NEW w \in Nat \ {0}, v % w = 0, v < w PROVE FALSE
      BY Widths
    <3>1. v % w = v
      BY ModSmall
    <3> QED BY <3>1
  <2> QED BY <2>1, Widths
<1>2. Narrow \div Page <= Narrow
  <2> DEFINE m == Narrow \div Page
  <2>1. m \in Nat \ {0} /\ Narrow = Page * m /\ Page \in Nat \ {0}
    BY Widths
  <2> HIDE DEF m
  <2>2. 1 * m <= Page * m
    BY <2>1
  <2> QED BY <2>1, <2>2 DEF m
<1> QED BY <1>1, <1>2, Widths DEF Span

-------------------------------------------------------------------------------
(* The invariant *)

\* A relocation that patches the image.
Writes(r) == r.placed /\ r.kind /= "none"

\* No two relocations patch the same field: what a compiler leaves in a field is
\* the addend of one relocation.
FieldsApart ==
  \A i, j \in DOMAIN Relocs :
    i /= j /\ Writes(Relocs[i]) /\ Writes(Relocs[j]) => Relocs[i].site /= Relocs[j].site

HiTable == IF prog.machines /= << >> /\ prog.machines[1] = "riscv64" THEN pcrelHITable ELSE << >>

\* The fixup of a relocation, from the bytes that were in the slot at first.
OrigDisplacement(r) ==
  TargetVA(r) + OrigAddend(r) - PatchVA(r) - (IF r.elf THEN 0 ELSE 4)

OrigValue(r) ==
  CASE r.kind \in {"abs64", "abs32", "abs16"} -> TargetVA(r) + OrigAddend(r)
    [] r.kind = "rva32" -> TargetVA(r) - prog.base + OrigAddend(r)
    [] r.kind \in {"pc64", "pc32", "prel32", "prel16"} -> OrigDisplacement(r)
    [] r.kind = "hi20"  -> Hi20(TargetVA(r) + r.addend - PatchVA(r))
    [] r.kind = "lo12"  -> pcrelHI[TargetVA(r)] - TargetVA(r)

Written(r) == Masked(OrigValue(r), r.kind)

\* A relocation that applyOne has not refused.
Passed(r) ==
  /\ Resolves(r) /\ r.kind /= "other"
  /\ ~(r.room < 0) /\ ~(r.kind /= "none" /\ r.room < Width(r.kind))
  /\ r.kind = "pc32" => InRange(OrigDisplacement(r))
  /\ r.kind = "lo12" => TargetVA(r) \in DOMAIN pcrelHI

IsSlot(r) == r.placed /\ r.kind \in {"abs64", "abs32"}
Listed(r) == [rva |-> r.site, type |-> IF r.kind = "abs64" THEN "DIR64" ELSE "HIGHLOW"]

TypeInv ==
  /\ prog \in Programs
  /\ RelocateTypeOK
  /\ DOMAIN mem = DOMAIN prog.mem
  /\ base \in Seq([rva : Nat, type : {"DIR64", "HIGHLOW"}])
  /\ pc = "begin" => at = 1 /\ mem = prog.mem /\ base = << >>
  /\ pc \in {"apply", "linked"} => SameMachine /\ pcrelHI = HiTable
  /\ pc = "linked" => at = Len(Relocs) + 1

\* Slots behind the relocation at hand are patched, the others as they were.
MemInv ==
  \A i \in DOMAIN Relocs : Writes(Relocs[i]) =>
    mem[Relocs[i].site] = IF i < at THEN Written(Relocs[i]) ELSE prog.mem[Relocs[i].site]

PassedInv ==
  \A i \in DOMAIN Relocs : i < at /\ Relocs[i].placed => Passed(Relocs[i])

\* One base relocation for each absolute slot, and no other.
BaseInv ==
  /\ \A k \in DOMAIN base : \E i \in DOMAIN Relocs :
       i < at /\ IsSlot(Relocs[i]) /\ base[k] = Listed(Relocs[i])
  /\ \A i \in DOMAIN Relocs : i < at /\ IsSlot(Relocs[i]) =>
       \E k \in DOMAIN base : base[k] = Listed(Relocs[i])
  /\ \A k, l \in DOMAIN base : k /= l => base[k].rva /= base[l].rva

CauseInv == pc = "error" => Refused

RelocateInv ==
  TypeInv /\ (FieldsApart => MemInv /\ PassedInv /\ BaseInv /\ CauseInv)

-------------------------------------------------------------------------------
(* Types *)

LEMMA ProgTyped ==
  ASSUME prog \in Programs
  PROVE  /\ Relocs \in Seq(Reloc) /\ Len(Relocs) \in Nat /\ DOMAIN Relocs = 1 .. Len(Relocs)
         /\ prog.base \in Nat
         /\ \A s \in DOMAIN prog.mem : prog.mem[s] \in 0 .. Wide - 1
         /\ \A i \in DOMAIN Relocs : Relocs[i] \in Reloc
         /\ \A i \in DOMAIN Relocs : Relocs[i].placed => Relocs[i].site \in DOMAIN prog.mem
         /\ \A i \in DOMAIN Relocs : Relocs[i].kind \in {"hi20", "lo12"} =>
              \E o \in DOMAIN prog.machines : prog.machines[o] = "riscv64"
<1>1. /\ Relocs \in Seq(Reloc) /\ prog.base \in Nat
      /\ \A s \in DOMAIN prog.mem : prog.mem[s] \in 0 .. Wide - 1
      /\ \A i \in DOMAIN Relocs : Relocs[i].placed => Relocs[i].site \in DOMAIN prog.mem
      /\ \A i \in DOMAIN Relocs : Relocs[i].kind \in {"hi20", "lo12"} =>
           \E o \in DOMAIN prog.machines : prog.machines[o] = "riscv64"
  BY ProgramsAssumption DEF Relocs
<1>2. Len(Relocs) \in Nat /\ DOMAIN Relocs = 1 .. Len(Relocs)
  BY <1>1, LenProperties
<1>3. \A i \in DOMAIN Relocs : Relocs[i] \in Reloc
  BY <1>1, <1>2, ElementOfSeq
<1> QED BY <1>1, <1>2, <1>3

LEMMA SignedType ==
  ASSUME NEW v \in Int, NEW w \in Nat \ {0}
  PROVE  Signed(v, w) \in Int
<1>1. v % w \in 0 .. w - 1
  BY DivMod
<1> QED BY <1>1 DEF Signed

LEMMA AddendType ==
  ASSUME NEW r \in Reloc, NEW m, r.elf \/ m[r.site] \in Nat
  PROVE  AddendIn(m, r) \in Int
BY SignedType, Widths DEF AddendIn, Reloc

LEMMA AddressTypes ==
  ASSUME prog \in Programs, NEW r \in Reloc
  PROVE  /\ TargetVA(r) \in Nat /\ PatchVA(r) \in Nat /\ r.addend \in Int /\ r.site \in Nat
         /\ r.kind \in Kinds /\ r.placed \in BOOLEAN /\ r.elf \in BOOLEAN
         /\ r.room \in Int /\ r.target.value \in Nat
BY ProgTyped DEF TargetVA, PatchVA, Reloc, Target

LEMMA Hi20Type == ASSUME NEW d \in Int PROVE Hi20(d) \in Int
<1>1. Page \in Nat \ {0} /\ Page \div 2 \in Int
  BY Widths
<1>2. d + Page \div 2 \in Int
  BY <1>1
<1> HIDE DEF Hi20
<1> QED BY <1>1, <1>2, DivMod, Zenon DEF Hi20

\* The table of the pre-pass says where the relocation of a site points.
LEMMA HiTableTyped ==
  ASSUME prog \in Programs, NEW va \in DOMAIN HiTable
  PROVE  HiTable[va] \in Int
<1>1. DOMAIN HiTable \subseteq {PatchVA(Relocs[i]) : i \in HiUsable}
      /\ HiTable = pcrelHITable
  BY DEF HiTable, pcrelHITable
<1> DEFINE same == {i \in HiUsable : PatchVA(Relocs[i]) = va}
           top  == LastOf(same)
<1>2. HiTable[va] = TargetVA(Relocs[top]) + Relocs[top].addend
  BY <1>1 DEF pcrelHITable
<1>3. same /= {} /\ \A i \in same : i \in DOMAIN Relocs
  BY <1>1 DEF HiUsable, HiSites
<1>4. Len(Relocs) \in Nat /\ DOMAIN Relocs = 1 .. Len(Relocs)
  BY ProgTyped
<1>5. same \in SUBSET Nat /\ \A i \in same : i <= Len(Relocs)
  BY <1>3, <1>4
<1>6. \E i \in same : \A j \in same : j <= i
  <2> HIDE DEF same
  <2> QED BY <1>3, <1>4, <1>5, GreatestExists
<1>7. top \in DOMAIN Relocs
  <2> HIDE DEF same
  <2> QED BY <1>3, <1>6 DEF LastOf
<1>8. Relocs[top] \in Reloc
  BY <1>7, ProgTyped
<1> HIDE DEF top
<1> QED BY <1>2, <1>8, AddressTypes

\* Where the slot is as it was, its addend is that of the object file.
LEMMA SameValue ==
  ASSUME NEW r, mem[r.site] = prog.mem[r.site]
  PROVE  Value(r) = OrigValue(r) /\ Displacement(r) = OrigDisplacement(r)
<1>1. Addend(r) = OrigAddend(r)
  BY DEF Addend, OrigAddend, AddendIn
<1>2. Displacement(r) = OrigDisplacement(r)
  BY <1>1 DEF Displacement, OrigDisplacement
<1> QED BY <1>1, <1>2 DEF Value, OrigValue

LEMMA ValueType ==
  ASSUME TypeInv, pc = "apply", NEW i \in DOMAIN Relocs,
         Writes(Relocs[i]), ~Fails(Relocs[i])
  PROVE  Value(Relocs[i]) \in Int
<1> DEFINE r == Relocs[i]
<1>1. r \in Reloc /\ prog \in Programs /\ r.placed /\ r.kind /= "none"
  BY ProgTyped DEF TypeInv, Writes
<1>2. r.site \in DOMAIN mem
  BY <1>1, ProgTyped DEF TypeInv
<1>3. mem[r.site] \in Nat
  BY <1>2, Widths DEF TypeInv, RelocateTypeOK
<1>4. r.kind \in Kinds /\ r.kind /= "other" /\ (r.kind = "lo12" => TargetVA(r) \in DOMAIN pcrelHI)
  BY <1>1, AddressTypes DEF Fails
<1> HIDE DEF r
<1>5. TargetVA(r) \in Int /\ PatchVA(r) \in Int /\ r.addend \in Int /\ prog.base \in Int
  BY <1>1, AddressTypes, ProgTyped
<1>6. Addend(r) \in Int /\ Displacement(r) \in Int
  <2>1. Addend(r) \in Int
    BY <1>1, <1>3, AddendType DEF Addend
  <2> QED BY <1>5, <2>1 DEF Displacement
<1>7. CASE r.kind = "lo12"
  <2>1. pcrelHI[TargetVA(r)] \in Int
    BY <1>1, <1>4, <1>7, HiTableTyped DEF TypeInv
  <2> QED BY <1>5, <1>7, <2>1 DEF Value, r
<1>8. CASE r.kind = "hi20"
  <2>1. TargetVA(r) + r.addend - PatchVA(r) \in Int
    BY <1>5
  <2>2. Hi20(TargetVA(r) + r.addend - PatchVA(r)) \in Int
    BY <2>1, Hi20Type
  <2> QED BY <1>8, <2>2 DEF Value, r
<1>9. CASE r.kind \notin {"hi20", "lo12"}
  BY <1>1, <1>4, <1>5, <1>6, <1>9 DEF Value, Kinds, r
<1> QED BY <1>7, <1>8, <1>9

\* What is written fits the slot.
LEMMA FixupType ==
  ASSUME TypeInv, pc = "apply", NEW i \in DOMAIN Relocs,
         Writes(Relocs[i]), ~Fails(Relocs[i])
  PROVE  Fixup(Relocs[i]) \in 0 .. Wide - 1
<1> DEFINE k == Relocs[i].kind
           v == Value(Relocs[i])
           w == Span(k)
<1>1. v \in Int /\ k \in Kinds
  BY ValueType, ProgTyped, AddressTypes DEF TypeInv
<1>2. w \in Nat \ {0} /\ w <= Wide /\ Wide \in Nat
  BY <1>1, Spans, Widths
<1> HIDE DEF v, w
<1>3. v % w \in 0 .. w - 1
  BY <1>1, <1>2, DivMod
<1>4. v % w \in 0 .. Wide - 1
  BY <1>2, <1>3
<1> QED BY <1>4 DEF Fixup, Masked, v, w

LEMMA BaseRelocsListed ==
  ASSUME NEW r, r.placed
  PROVE  BaseRelocsOf(r) = IF IsSlot(r) THEN << Listed(r) >> ELSE << >>
BY DEF BaseRelocsOf, IsSlot, Listed

LEMMA SameProgram ==
  ASSUME prog' = prog
  PROVE  Relocs' = Relocs /\ SameMachine' = SameMachine /\ HiTable' = HiTable
<1>1. Relocs' = Relocs
  BY DEF Relocs
<1>2. HiSites' = HiSites
  BY <1>1 DEF HiSites
<1>3. HiUsable' = HiUsable
  BY <1>1, <1>2 DEF HiUsable
<1>4. pcrelHITable' = pcrelHITable
  <2>1. \A r : PatchVA(r)' = PatchVA(r) /\ TargetVA(r)' = TargetVA(r)
    BY DEF PatchVA, TargetVA
  <2>2. \A va : {i \in HiUsable : PatchVA(Relocs[i]) = va}'
                   = {i \in HiUsable : PatchVA(Relocs[i]) = va}
    BY <1>1, <1>3, <2>1
  <2> QED BY <1>1, <1>3, <2>1, <2>2 DEF pcrelHITable
<1> QED BY <1>1, <1>4 DEF SameMachine, HiTable

LEMMA TypeStep ==
  TypeInv /\ [RelocateNext \/ RelocateReturned]_relocateVars => TypeInv'
<1> SUFFICES ASSUME TypeInv, RelocateNext \/ RelocateReturned \/ UNCHANGED relocateVars
             PROVE  TypeInv'
  OBVIOUS
<1> USE DEF TypeInv
<1>0. /\ prog \in Programs /\ Len(Relocs) \in Nat /\ DOMAIN Relocs = 1 .. Len(Relocs)
      /\ at \in 1 .. Len(Relocs) + 1
  BY ProgTyped DEF RelocateTypeOK
<1>1. CASE Begin
  <2>1. prog' = prog /\ pcrelHI' = IF pc' = "apply" THEN HiTable ELSE pcrelHI
    BY <1>1 DEF Begin, HiTable
  <2> QED BY <1>0, <1>1, <2>1, SameProgram DEF Begin, RelocateTypeOK
<1>2. CASE Skip \/ Abort \/ Applied
  BY <1>0, <1>2, SameProgram DEF Skip, Abort, Applied, RelocateTypeOK
<1>3. CASE applyOne
  <2> DEFINE r == Relocs[at]
  <2>1. /\ pc = "apply" /\ at \in DOMAIN Relocs /\ r.placed /\ ~Fails(r)
        /\ mem' = IF r.kind = "none" THEN mem ELSE [mem EXCEPT ![r.site] = Fixup(r)]
        /\ base' = base \o BaseRelocsOf(r)
        /\ at' = at + 1 /\ UNCHANGED <<prog, pcrelHI, pc>>
    BY <1>3 DEF applyOne
  <2>2. r \in Reloc /\ r.site \in DOMAIN mem /\ r.site \in Nat
    BY <1>0, <2>1, ProgTyped, AddressTypes
  <2>3. \A s \in DOMAIN mem' : mem'[s] \in 0 .. Wide - 1
    <3>1. CASE r.kind = "none"
      BY <2>1, <3>1 DEF RelocateTypeOK
    <3>2. CASE r.kind /= "none"
      <4>1. Fixup(r) \in 0 .. Wide - 1
        BY <2>1, <3>2, FixupType DEF Writes
      <4> HIDE DEF r
      <4> QED BY <2>1, <3>2, <4>1 DEF RelocateTypeOK
    <3> QED BY <3>1, <3>2
  <2>4. DOMAIN mem' = DOMAIN mem
    BY <2>1
  <2>5. base' \in Seq([rva : Nat, type : {"DIR64", "HIGHLOW"}])
    <3> DEFINE B == [rva : Nat, type : {"DIR64", "HIGHLOW"}]
    <3>1. BaseRelocsOf(r) = IF IsSlot(r) THEN << Listed(r) >> ELSE << >>
      BY <2>1, BaseRelocsListed
    <3>2. Listed(r) \in B
      BY <2>2 DEF Listed
    <3>3. BaseRelocsOf(r) \in Seq(B)
      <4> HIDE DEF B
      <4>1. << Listed(r) >> \in Seq(B) /\ << >> \in Seq(B)
        BY <3>2
      <4> QED BY <3>1, <4>1
    <3> HIDE DEF B
    <3>4. base \in Seq(B)
      BY DEF B
    <3> QED BY <2>1, <3>3, <3>4, ConcatProperties DEF B
  <2>6. \A k \in DOMAIN base' : base'[k].rva \in DOMAIN mem /\ base'[k].type \in {"DIR64", "HIGHLOW"}
    <3>1. BaseRelocsOf(r) = IF IsSlot(r) THEN << Listed(r) >> ELSE << >>
      BY <2>1, BaseRelocsListed
    <3>2. CASE IsSlot(r)
      <4>1. base' = Append(base, Listed(r))
        BY <2>1, <3>1, <3>2
      <4>2. Listed(r).rva \in DOMAIN mem /\ Listed(r).type \in {"DIR64", "HIGHLOW"}
        BY <2>2 DEF Listed
      <4> HIDE DEF r
      <4> QED BY <4>1, <4>2 DEF RelocateTypeOK
    <3>3. CASE ~IsSlot(r)
      <4>1. base' = base
        BY <2>1, <3>1, <3>3
      <4> QED BY <4>1 DEF RelocateTypeOK
    <3> QED BY <3>2, <3>3
  <2>7. at' \in 1 .. Len(Relocs) + 1 /\ Relocs' = Relocs
    BY <1>0, <2>1 DEF Relocs
  <2>8. SameMachine' /\ pcrelHI' = HiTable'
    BY <2>1, SameProgram
  <2> QED BY <2>1, <2>3, <2>4, <2>5, <2>6, <2>7, <2>8 DEF RelocateTypeOK
<1>4. CASE RelocateReturned \/ UNCHANGED relocateVars
  BY <1>4, SameProgram DEF RelocateReturned, relocateVars, RelocateTypeOK
<1> QED BY <1>1, <1>2, <1>3, <1>4 DEF RelocateNext

LEMMA TypeInit == RelocateInit => TypeInv
<1> SUFFICES ASSUME RelocateInit PROVE TypeInv
  OBVIOUS
<1>1. prog \in Programs
  BY DEF RelocateInit
<1> QED BY <1>1, ProgTyped DEF RelocateInit, TypeInv, RelocateTypeOK

\* The variables of ApplyRelocations keep their types, whatever the relocations
\* patch: no fixup leaves its slot and no base relocation names another place.
THEOREM RelocateTypeCorrect == RelocateSpec => []RelocateTypeOK
<1>1. TypeInv => RelocateTypeOK
  BY DEF TypeInv
<1> QED BY <1>1, TypeInit, TypeStep, PTL DEF RelocateSpec

-------------------------------------------------------------------------------
(* What applyOne does to a program whose fields are apart *)

\* applyOne patches the field at hand and no other, with the fixup of the bytes
\* that were there at first.
LEMMA MemStep ==
  ASSUME TypeInv, FieldsApart, MemInv, applyOne
  PROVE  MemInv'
<1> DEFINE r == Relocs[at]
<1>1. /\ pc = "apply" /\ at \in DOMAIN Relocs /\ r.placed /\ ~Fails(r)
      /\ mem' = IF r.kind = "none" THEN mem ELSE [mem EXCEPT ![r.site] = Fixup(r)]
      /\ at' = at + 1 /\ prog' = prog /\ pcrelHI' = pcrelHI
  BY DEF applyOne
<1>2. /\ Relocs' = Relocs /\ Len(Relocs) \in Nat /\ DOMAIN Relocs = 1 .. Len(Relocs)
      /\ r.site \in DOMAIN mem
  BY <1>1, SameProgram, ProgTyped DEF TypeInv
<1> SUFFICES ASSUME NEW i \in DOMAIN Relocs, Writes(Relocs[i])
             PROVE  mem'[Relocs[i].site] = IF i < at + 1 THEN Written(Relocs[i])'
                                           ELSE prog.mem[Relocs[i].site]
  BY <1>1, <1>2 DEF MemInv, Writes
<1>3. Written(Relocs[i])' = Written(Relocs[i])
  BY <1>1, <1>2 DEF Written, OrigValue, OrigDisplacement, OrigAddend, AddendIn, TargetVA, PatchVA
<1>4. CASE i = at
  <2>1. mem[r.site] = prog.mem[r.site]
    BY <1>2, <1>4 DEF MemInv
  <2>2. mem'[r.site] = Fixup(r)
    <3> HIDE DEF r
    <3>1. r.kind /= "none"
      BY <1>4 DEF r, Writes
    <3> QED BY <1>1, <1>2, <3>1
  <2>3. Fixup(r) = Written(r)
    BY <2>1, SameValue DEF Fixup, Written
  <2> QED BY <1>2, <1>3, <1>4, <2>2, <2>3
<1>5. CASE i /= at
  <2>1. mem'[Relocs[i].site] = mem[Relocs[i].site]
    <3>1. r.kind /= "none" => Relocs[i].site /= r.site
      BY <1>1, <1>5 DEF FieldsApart, Writes
    <3> HIDE DEF r
    <3> QED BY <1>1, <3>1
  <2>2. i < at + 1 <=> i < at
    BY <1>1, <1>2, <1>5
  <2> QED BY <1>3, <2>1, <2>2 DEF MemInv
<1> QED BY <1>4, <1>5

\* Displacements of the relocation at hand are those of the object file.
LEMMA DisplacementKept ==
  ASSUME TypeInv, MemInv, at \in DOMAIN Relocs, Relocs[at].placed
  PROVE  Relocs[at].kind = "pc32" => Displacement(Relocs[at]) = OrigDisplacement(Relocs[at])
<1> SUFFICES ASSUME Relocs[at].kind = "pc32"
             PROVE  Displacement(Relocs[at]) = OrigDisplacement(Relocs[at])
  OBVIOUS
<1>1. Writes(Relocs[at]) /\ ~(at < at)
  BY ProgTyped DEF TypeInv, Writes
<1>2. mem[Relocs[at].site] = prog.mem[Relocs[at].site]
  BY <1>1 DEF MemInv
<1> QED BY <1>2, SameValue

LEMMA PassedStep ==
  ASSUME TypeInv, MemInv, PassedInv, Skip \/ applyOne
  PROVE  PassedInv'
<1> DEFINE r == Relocs[at]
<1>1. /\ at \in DOMAIN Relocs /\ (r.placed => ~Fails(r))
      /\ at' = at + 1 /\ prog' = prog /\ pcrelHI' = pcrelHI
  BY DEF Skip, applyOne
<1>2. Relocs' = Relocs /\ DOMAIN Relocs = 1 .. Len(Relocs) /\ Len(Relocs) \in Nat
  BY <1>1, SameProgram, ProgTyped DEF TypeInv
<1>3. r.placed => Passed(r)
  BY <1>1, DisplacementKept DEF Fails, Passed
<1> SUFFICES ASSUME NEW i \in DOMAIN Relocs, i < at + 1, Relocs[i].placed
             PROVE  Passed(Relocs[i])'
  BY <1>1, <1>2 DEF PassedInv
<1>4. Passed(Relocs[i])
  BY <1>1, <1>2, <1>3 DEF PassedInv
<1> QED BY <1>1, <1>2, <1>4
        DEF Passed, Resolves, OrigDisplacement, OrigAddend, AddendIn, TargetVA, PatchVA

\* The base relocation of a slot is listed when the slot is patched, and never again.
LEMMA BaseStep ==
  ASSUME TypeInv, FieldsApart, BaseInv, applyOne
  PROVE  BaseInv'
<1> DEFINE r == Relocs[at]
<1>1. /\ at \in DOMAIN Relocs /\ r.placed
      /\ base' = base \o BaseRelocsOf(r) /\ at' = at + 1 /\ prog' = prog
  BY DEF applyOne
<1>2. Relocs' = Relocs /\ DOMAIN Relocs = 1 .. Len(Relocs) /\ Len(Relocs) \in Nat
  BY <1>1, SameProgram, ProgTyped DEF TypeInv
<1>3. BaseRelocsOf(r) = IF IsSlot(r) THEN << Listed(r) >> ELSE << >>
  BY <1>1, BaseRelocsListed
<1>4. Len(base) \in Nat /\ DOMAIN base = 1 .. Len(base)
  BY LenProperties DEF TypeInv
<1>5. CASE ~IsSlot(r)
  <2>1. base' = base
    BY <1>1, <1>3, <1>5, <1>4 DEF TypeInv
  <2>2. \A i \in DOMAIN Relocs : i < at + 1 /\ IsSlot(Relocs[i]) <=> i < at /\ IsSlot(Relocs[i])
    BY <1>1, <1>2, <1>5
  <2>3. BaseInv' <=>
          /\ \A k \in DOMAIN base : \E i \in DOMAIN Relocs :
               i < at + 1 /\ IsSlot(Relocs[i]) /\ base[k] = Listed(Relocs[i])
          /\ \A i \in DOMAIN Relocs : i < at + 1 /\ IsSlot(Relocs[i]) =>
               \E k \in DOMAIN base : base[k] = Listed(Relocs[i])
          /\ \A k, l \in DOMAIN base : k /= l => base[k].rva /= base[l].rva
    BY <1>1, <1>2, <2>1 DEF BaseInv, IsSlot, Listed
  <2> HIDE DEF r
  <2> QED BY <2>2, <2>3 DEF BaseInv
<1>6. CASE IsSlot(r)
  <2> DEFINE n == Len(base)
             e == Listed(r)
  <2>1. /\ base' = Append(base, e) /\ DOMAIN base' = 1 .. n + 1
        /\ base'[n + 1] = e /\ \A k \in DOMAIN base : base'[k] = base[k]
    <3>1. base' = Append(base, e)
      BY <1>1, <1>3, <1>4, <1>6
    <3> HIDE DEF r, e
    <3> QED BY <1>4, <3>1
  <2>2. ASSUME NEW k \in DOMAIN base PROVE base[k].rva /= e.rva
    <3>1. PICK i \in DOMAIN Relocs : i < at /\ IsSlot(Relocs[i]) /\ base[k] = Listed(Relocs[i])
      BY DEF BaseInv
    <3>2. Relocs[i].site /= r.site
      <4>1. i /= at
        BY <1>1, <1>2, <3>1
      <4>2. Writes(Relocs[i]) /\ Writes(r)
        BY <1>6, <3>1 DEF IsSlot, Writes
      <4> QED BY <1>1, <4>1, <4>2 DEF FieldsApart
    <3> QED BY <3>1, <3>2 DEF Listed
  <2>3. \A k \in DOMAIN base' : \E i \in DOMAIN Relocs :
          i < at + 1 /\ IsSlot(Relocs[i]) /\ base'[k] = Listed(Relocs[i])
    <3> SUFFICES ASSUME NEW k \in 1 .. n + 1
                 PROVE  \E i \in DOMAIN Relocs :
                          i < at + 1 /\ IsSlot(Relocs[i]) /\ base'[k] = Listed(Relocs[i])
      BY <2>1
    <3>1. CASE k = n + 1
      <4>1. at < at + 1
        BY <1>1, <1>2
      <4> QED BY <1>1, <1>6, <2>1, <3>1, <4>1
    <3>2. CASE k /= n + 1
      <4>1. k \in DOMAIN base
        BY <1>4, <3>2
      <4>2. PICK i \in DOMAIN Relocs : i < at /\ IsSlot(Relocs[i]) /\ base[k] = Listed(Relocs[i])
        BY <4>1 DEF BaseInv
      <4>3. i < at + 1
        BY <1>1, <1>2, <4>2
      <4> QED BY <2>1, <4>1, <4>2, <4>3
    <3> QED BY <3>1, <3>2
  <2>4. \A i \in DOMAIN Relocs : i < at + 1 /\ IsSlot(Relocs[i]) =>
          \E k \in DOMAIN base' : base'[k] = Listed(Relocs[i])
    <3> SUFFICES ASSUME NEW i \in DOMAIN Relocs, i < at + 1, IsSlot(Relocs[i])
                 PROVE  \E k \in DOMAIN base' : base'[k] = Listed(Relocs[i])
      OBVIOUS
    <3>1. CASE i = at
      <4>1. n + 1 \in DOMAIN base'
        BY <1>4, <2>1
      <4> QED BY <2>1, <3>1, <4>1
    <3>2. CASE i /= at
      <4>1. i < at
        BY <1>1, <1>2, <3>2
      <4>2. PICK k \in DOMAIN base : base[k] = Listed(Relocs[i])
        BY <4>1 DEF BaseInv
      <4>3. k \in DOMAIN base'
        BY <1>4, <2>1
      <4> QED BY <2>1, <4>2, <4>3
    <3> QED BY <3>1, <3>2
  <2>5. \A k, l \in DOMAIN base' : k /= l => base'[k].rva /= base'[l].rva
    <3> SUFFICES ASSUME NEW k \in 1 .. n + 1, NEW l \in 1 .. n + 1, k /= l
                 PROVE  base'[k].rva /= base'[l].rva
      BY <2>1
    <3>1. (k = n + 1 \/ k \in DOMAIN base) /\ (l = n + 1 \/ l \in DOMAIN base)
      BY <1>4
    <3> HIDE DEF n, e
    <3> QED BY <2>1, <2>2, <3>1 DEF BaseInv
  <2>6. at' = at + 1 /\ Relocs' = Relocs
    BY <1>1, <1>2
  <2> HIDE DEF r, n, e
  <2> QED BY <2>3, <2>4, <2>5, <2>6 DEF BaseInv, IsSlot, Listed
<1> QED BY <1>5, <1>6

-------------------------------------------------------------------------------
(* What applyOne refuses *)

\* The side table has every site that a PCREL_LO12 can label.
LEMMA HiFound ==
  ASSUME TypeInv, pc = "apply", NEW h \in Placed({"hi20"}), Resolves(Relocs[h])
  PROVE  PatchVA(Relocs[h]) \in DOMAIN pcrelHI
<1>1. h \in HiUsable
  BY DEF Placed, Resolves, HiUsable, HiSites
<1>2. prog.machines /= << >> /\ prog.machines[1] = "riscv64"
  <2>1. PICK o \in DOMAIN prog.machines : prog.machines[o] = "riscv64"
    BY ProgTyped DEF TypeInv, Placed
  <2> QED BY <2>1 DEF TypeInv, SameMachine
<1>3. pcrelHI = pcrelHITable
  BY <1>2 DEF TypeInv, HiTable
<1> QED BY <1>1, <1>3 DEF pcrelHITable

\* What the error of a relocation says holds of the object file.
Blamed(r) == ~Resolves(r) \/ r.kind = "other" \/ Misfit(r)

LEMMA AbortBlamed ==
  ASSUME TypeInv, MemInv, Abort
  PROVE  Blamed(Relocs[at])
<1> DEFINE r == Relocs[at]
<1>1. pc = "apply" /\ at \in DOMAIN Relocs /\ r.placed /\ Fails(r)
  BY DEF Abort
<1>2. r.kind = "pc32" => Displacement(r) = OrigDisplacement(r)
  BY <1>1, DisplacementKept
<1>3. \A h \in Placed({"hi20"}) :
        Resolves(Relocs[h]) => PatchVA(Relocs[h]) \in DOMAIN pcrelHI
  BY <1>1, HiFound
<1> HIDE DEF r
<1>4. r.kind = "pc32" /\ ~InRange(Displacement(r)) =>
        ~InRange(TargetVA(r) + OrigAddend(r) - PatchVA(r) - (IF r.elf THEN 0 ELSE 4))
  BY <1>2 DEF OrigDisplacement
<1>5. r.kind = "lo12" /\ TargetVA(r) \notin DOMAIN pcrelHI =>
        \A h \in Placed({"hi20"}) : Resolves(Relocs[h]) => PatchVA(Relocs[h]) /= TargetVA(r)
  BY <1>3
<1> QED BY <1>1, <1>4, <1>5 DEF Fails, Blamed, Misfit, r

LEMMA CauseStep ==
  ASSUME TypeInv, FieldsApart, MemInv, CauseInv,
         RelocateNext \/ RelocateReturned \/ UNCHANGED relocateVars, pc' = "error"
  PROVE  Refused'
<1>1. prog' = prog
  BY DEF RelocateNext, RelocateReturned, relocateVars, Begin, Skip, applyOne, Abort, Applied
<1>2. Relocs' = Relocs
  BY <1>1, SameProgram
<1>3. Refused' <=> Refused
  BY <1>1, <1>2 DEF Refused, Misfit, Placed, Resolves, TargetVA, PatchVA, OrigAddend, AddendIn
<1>4. CASE Begin
  <2>1. ~SameMachine
    BY <1>4 DEF Begin
  <2>2. \E i, j \in DOMAIN prog.machines : prog.machines[i] /= prog.machines[j]
    <3>1. PICK i \in DOMAIN prog.machines : prog.machines[i] /= prog.machines[1]
      BY <2>1 DEF SameMachine
    <3>2. 1 \in DOMAIN prog.machines
      <4>1. \E S : prog.machines \in Seq(S)
        BY ProgramsAssumption DEF TypeInv
      <4> QED BY <3>1, <4>1, LenProperties
    <3> QED BY <3>1, <3>2
  <2> QED BY <1>3, <2>2 DEF Refused
<1>5. CASE Abort
  <2>1. at \in Placed(Kinds)
    BY <1>5, ProgTyped, AddressTypes DEF Abort, Placed, TypeInv
  <2> QED BY <1>3, <1>5, <2>1, AbortBlamed DEF Refused, Blamed
<1>6. CASE pc = "error"
  BY <1>3, <1>6 DEF CauseInv
<1> QED BY <1>4, <1>5, <1>6
        DEF RelocateNext, RelocateReturned, relocateVars, Skip, applyOne, Applied

LEMMA RelocateInvInit == RelocateInit => RelocateInv
<1> SUFFICES ASSUME RelocateInit PROVE RelocateInv
  OBVIOUS
<1>1. TypeInv
  BY TypeInit
<1>2. /\ at = 1 /\ mem = prog.mem /\ base = << >> /\ pc = "begin"
  BY DEF RelocateInit
<1>3. \A i \in DOMAIN Relocs : ~(i < at)
  BY <1>1, <1>2, ProgTyped DEF TypeInv
<1> QED BY <1>1, <1>2, <1>3 DEF RelocateInv, MemInv, PassedInv, BaseInv, CauseInv

\* A step that moves past no relocation keeps what is known of those behind it.
LEMMA InvKept ==
  ASSUME MemInv, PassedInv, BaseInv, UNCHANGED <<prog, at, mem, base>>,
         pcrelHI' = pcrelHI \/ \A i \in DOMAIN Relocs : ~(i < at)
  PROVE  MemInv' /\ PassedInv' /\ BaseInv'
<1>1. Relocs' = Relocs
  BY SameProgram
<1>2. MemInv'
  <2>1. \A i \in DOMAIN Relocs : i < at => Written(Relocs[i])' = Written(Relocs[i])
    BY <1>1 DEF Written, OrigValue, OrigDisplacement, OrigAddend, AddendIn, TargetVA, PatchVA
  <2> QED BY <1>1, <2>1 DEF MemInv, Writes
<1>3. PassedInv'
  BY <1>1 DEF PassedInv, Passed, Resolves, OrigDisplacement, OrigAddend, AddendIn, TargetVA,
     PatchVA
<1>4. BaseInv'
  BY <1>1 DEF BaseInv, IsSlot, Listed
<1> QED BY <1>2, <1>3, <1>4

LEMMA RelocateInvStep ==
  RelocateInv /\ [RelocateNext \/ RelocateReturned]_relocateVars => RelocateInv'
<1> SUFFICES ASSUME RelocateInv, RelocateNext \/ RelocateReturned \/ UNCHANGED relocateVars
             PROVE  RelocateInv'
  OBVIOUS
<1>1. TypeInv /\ TypeInv'
  BY TypeStep DEF RelocateInv
<1>2. prog' = prog
  BY DEF RelocateNext, RelocateReturned, relocateVars, Begin, Skip, applyOne, Abort, Applied
<1>3. FieldsApart' <=> FieldsApart
  BY <1>2, SameProgram DEF FieldsApart, Writes
<1> SUFFICES ASSUME FieldsApart
             PROVE  MemInv' /\ PassedInv' /\ BaseInv' /\ CauseInv'
  BY <1>1, <1>3 DEF RelocateInv
<1>4. MemInv /\ PassedInv /\ BaseInv /\ CauseInv
  BY DEF RelocateInv
<1>5. CauseInv'
  BY <1>1, <1>4, CauseStep DEF CauseInv
<1>6. CASE Begin
  <2>1. \A i \in DOMAIN Relocs : ~(i < at)
    BY <1>1, <1>6, ProgTyped DEF Begin, TypeInv
  <2> QED BY <1>4, <1>5, <1>6, <2>1, InvKept DEF Begin
<1>7. CASE Skip
  <2>1. ~Relocs[at].placed /\ at' = at + 1 /\ Relocs' = Relocs /\ at \in DOMAIN Relocs
    BY <1>7, SameProgram DEF Skip
  <2>2. \A i \in DOMAIN Relocs : Relocs[i].placed => (i < at + 1 <=> i < at)
    BY <1>1, <2>1, ProgTyped DEF TypeInv
  <2>3. PassedInv'
    BY <1>1, <1>4, <1>7, PassedStep
  <2>4. UNCHANGED <<prog, mem, base, pcrelHI>>
    BY <1>7 DEF Skip
  <2>5. MemInv'
    <3>1. \A i \in DOMAIN Relocs : Written(Relocs[i])' = Written(Relocs[i])
      BY <2>1, <2>4
         DEF Written, OrigValue, OrigDisplacement, OrigAddend, AddendIn, TargetVA, PatchVA
    <3> QED BY <1>4, <2>1, <2>2, <2>4, <3>1 DEF MemInv, Writes
  <2>6. BaseInv'
    <3>1. BaseInv' <=>
            /\ \A k \in DOMAIN base : \E i \in DOMAIN Relocs :
                 i < at + 1 /\ IsSlot(Relocs[i]) /\ base[k] = Listed(Relocs[i])
            /\ \A i \in DOMAIN Relocs : i < at + 1 /\ IsSlot(Relocs[i]) =>
                 \E k \in DOMAIN base : base[k] = Listed(Relocs[i])
            /\ \A k, l \in DOMAIN base : k /= l => base[k].rva /= base[l].rva
      BY <2>1, <2>4 DEF BaseInv, IsSlot, Listed
    <3>2. \A i \in DOMAIN Relocs :
            i < at + 1 /\ IsSlot(Relocs[i]) <=> i < at /\ IsSlot(Relocs[i])
      BY <2>2 DEF IsSlot
    <3> QED BY <1>4, <3>1, <3>2 DEF BaseInv
  <2> QED BY <1>5, <2>3, <2>5, <2>6
<1>8. CASE applyOne
  BY <1>1, <1>4, <1>5, <1>8, MemStep, PassedStep, BaseStep
<1>9. CASE Abort \/ Applied \/ RelocateReturned \/ UNCHANGED relocateVars
  BY <1>4, <1>5, <1>9, InvKept DEF Abort, Applied, RelocateReturned, relocateVars
<1> QED BY <1>6, <1>7, <1>8, <1>9 DEF RelocateNext

LEMMA RelocateInvariant == RelocateSpec => []RelocateInv
BY RelocateInvInit, RelocateInvStep, PTL DEF RelocateSpec

\* No relocation of a program that is linked had to be refused.
LEMMA LinkedFits ==
  ASSUME RelocateInv, FieldsApart, pc = "linked"
  PROVE  ~Refused
<1>1. TypeInv /\ PassedInv
  BY DEF RelocateInv
<1>2. \A i \in DOMAIN Relocs : Relocs[i].placed => Passed(Relocs[i])
  BY <1>1, ProgTyped DEF TypeInv, PassedInv
<1>3. \A i, j \in DOMAIN prog.machines : prog.machines[i] = prog.machines[j]
  BY <1>1 DEF TypeInv, SameMachine
<1>4. ASSUME NEW i \in Placed(Kinds)
      PROVE  ~(~Resolves(Relocs[i]) \/ Relocs[i].kind = "other" \/ Misfit(Relocs[i]))
  <2> DEFINE r == Relocs[i]
  <2>1. i \in DOMAIN Relocs /\ r.placed /\ Passed(r)
    BY <1>2 DEF Placed
  <2>2. ASSUME r.kind = "lo12"
        PROVE  \E h \in Placed({"hi20"}) :
                 Resolves(Relocs[h]) /\ PatchVA(Relocs[h]) = TargetVA(r)
    <3>1. TargetVA(r) \in DOMAIN pcrelHI
      BY <2>1, <2>2 DEF Passed
    <3>2. pcrelHI = pcrelHITable
      <4>1. prog.machines /= << >> /\ prog.machines[1] = "riscv64"
        <5>1. PICK o \in DOMAIN prog.machines : prog.machines[o] = "riscv64"
          BY <1>1, <2>1, <2>2, ProgTyped DEF TypeInv
        <5> QED BY <1>1, <5>1 DEF TypeInv, SameMachine
      <4> QED BY <1>1, <4>1 DEF TypeInv, HiTable
    <3>3. PICK h \in HiUsable : PatchVA(Relocs[h]) = TargetVA(r)
      BY <3>1, <3>2 DEF pcrelHITable
    <3>4. h \in Placed({"hi20"})
      BY DEF HiUsable, HiSites, Placed
    <3> QED BY <1>2, <3>3, <3>4 DEF Placed, Passed
  <2> HIDE DEF r
  <2>3. ~Misfit(r)
    BY <2>1, <2>2 DEF Passed, Misfit, OrigDisplacement
  <2> QED BY <2>1, <2>3 DEF Passed, r
<1> QED BY <1>3, <1>4 DEF Refused

\* For every program whose relocations patch different fields: ApplyRelocations
\* fails exactly if the program has a relocation that no order of the input would
\* make right.
THEOREM RelocateFailsForCause == RelocateSpec => [](FieldsApart => FailsForCause)
<1>1. RelocateInv => (FieldsApart => FailsForCause)
  BY LinkedFits DEF RelocateInv, CauseInv, FailsForCause
<1> QED BY <1>1, RelocateInvariant, PTL

-------------------------------------------------------------------------------
(* The slots of a linked program *)

LEMMA LinkedSlots ==
  ASSUME RelocateInv, FieldsApart, pc = "linked", NEW i \in DOMAIN Relocs, Writes(Relocs[i])
  PROVE  mem[Relocs[i].site] = Written(Relocs[i]) /\ Passed(Relocs[i])
<1>1. i < at
  BY ProgTyped DEF RelocateInv, TypeInv
<1> QED BY <1>1 DEF RelocateInv, MemInv, PassedInv, Writes

\* Only an absolute slot has a base relocation, one of its own width.
LEMMA BaseOfSlot ==
  ASSUME RelocateInv, FieldsApart, pc = "linked", NEW i \in DOMAIN Relocs, Writes(Relocs[i]),
         NEW t, NEW k \in DOMAIN base, base[k] = [rva |-> Relocs[i].site, type |-> t]
  PROVE  IsSlot(Relocs[i]) /\ base[k] = Listed(Relocs[i])
<1>1. PICK j \in DOMAIN Relocs : IsSlot(Relocs[j]) /\ base[k] = Listed(Relocs[j])
  BY DEF RelocateInv, BaseInv
<1>2. Relocs[j].site = Relocs[i].site
  BY <1>1 DEF Listed
<1>3. Writes(Relocs[j])
  BY <1>1 DEF IsSlot, Writes
<1>4. j = i
  BY <1>2, <1>3 DEF FieldsApart
<1> QED BY <1>1, <1>4

LEMMA TimesOther ==
  ASSUME RelocateInv, FieldsApart, pc = "linked", NEW i \in DOMAIN Relocs, Writes(Relocs[i]),
         NEW t, ~(IsSlot(Relocs[i]) /\ t = Listed(Relocs[i]).type)
  PROVE  Times(Relocs[i].site, t) = 0
<1> DEFINE x == [rva |-> Relocs[i].site, type |-> t]
<1>1. {k \in DOMAIN base : base[k] = x} = {}
  <2> SUFFICES ASSUME NEW k \in DOMAIN base, base[k] = x PROVE FALSE
    OBVIOUS
  <2>1. IsSlot(Relocs[i]) /\ base[k] = Listed(Relocs[i])
    BY BaseOfSlot
  <2> QED BY <2>1 DEF Listed
<1> QED BY <1>1, FS_EmptySet DEF Times

LEMMA TimesOwn ==
  ASSUME RelocateInv, FieldsApart, pc = "linked", NEW i \in DOMAIN Relocs, IsSlot(Relocs[i])
  PROVE  Times(Relocs[i].site, Listed(Relocs[i]).type) = 1
<1> DEFINE x == Listed(Relocs[i])
<1>1. PICK k \in DOMAIN base : base[k] = x
  <2>1. i < at
    BY ProgTyped DEF RelocateInv, TypeInv
  <2> QED BY <2>1 DEF RelocateInv, BaseInv
<1>2. {l \in DOMAIN base : base[l] = x} = {k}
  BY <1>1 DEF RelocateInv, BaseInv
<1>3. x = [rva |-> Relocs[i].site, type |-> x.type]
  BY DEF Listed
<1> HIDE DEF x
<1>4. Cardinality({l \in DOMAIN base : base[l] = x}) = 1
  BY <1>2, FS_Singleton
<1> QED BY <1>3, <1>4 DEF Times, x

\* A field whose width divides the slot takes the loader's addition modulo its width.
LEMMA AddedMod ==
  ASSUME NEW v \in Int, NEW u \in Nat \ {0}, Wide % u = 0, NEW d \in Int
  PROVE  (((v % u) + d) % Wide) % u = (v + d) % u
<1> DEFINE x == (v % u) + d
<1>1. x \in Int
  BY DivMod
<1>2. Wide \in Nat \ {0}
  BY Widths
<1>3. x % u = (v + d) % u
  BY ModAdd
<1> HIDE DEF x
<1>4. (x % Wide) % u = x % u
  BY <1>1, <1>2, ModDivides, Zenon
<1> QED BY <1>3, <1>4 DEF x

LEMMA OrigAddendType ==
  ASSUME prog \in Programs, NEW i \in DOMAIN Relocs, Relocs[i].placed
  PROVE  OrigAddend(Relocs[i]) \in Int
<1>1. Relocs[i] \in Reloc /\ prog.mem[Relocs[i].site] \in Nat
  BY ProgTyped, Widths
<1> QED BY <1>1, AddendType DEF OrigAddend

\* What a slot holds once the image is loaded d bytes away.
LEMMA LoadedSlot ==
  ASSUME RelocateInv, FieldsApart, pc = "linked", NEW i \in DOMAIN Relocs, Writes(Relocs[i]),
         NEW d \in Nat
  PROVE  Loaded(Relocs[i].site, d)
           = (Written(Relocs[i]) + (IF IsSlot(Relocs[i]) THEN d ELSE 0)) % Wide
<1> DEFINE s == Relocs[i].site
           v == Written(Relocs[i])
<1>1. mem[s] = v
  BY LinkedSlots
<1>2. v \in Int
  <2>1. s \in DOMAIN mem
    BY ProgTyped DEF RelocateInv, TypeInv, Writes
  <2>2. mem[s] \in 0 .. Wide - 1
    BY <2>1 DEF RelocateInv, TypeInv, RelocateTypeOK
  <2> QED BY <1>1, <2>2, Widths
<1>3. CASE ~IsSlot(Relocs[i])
  <2>1. Times(s, "DIR64") = 0 /\ Times(s, "HIGHLOW") = 0
    BY <1>3, TimesOther
  <2> HIDE DEF s, v
  <2>2. Loaded(s, d) = (v + d * 0) % Wide
    BY <1>1, <2>1 DEF Loaded
  <2>3. d * 0 = 0
    OBVIOUS
  <2> QED BY <1>3, <2>2, <2>3 DEF s, v
<1>4. CASE IsSlot(Relocs[i]) /\ Relocs[i].kind = "abs64"
  <2>1. Times(s, "DIR64") = 1
    BY <1>4, TimesOwn DEF Listed
  <2> HIDE DEF s, v
  <2>2. Loaded(s, d) = (v + d * 1) % Wide
    BY <1>1, <2>1 DEF Loaded
  <2>3. d * 1 = d
    OBVIOUS
  <2> QED BY <1>4, <2>2, <2>3 DEF s, v
<1>5. CASE IsSlot(Relocs[i]) /\ Relocs[i].kind /= "abs64"
  <2>1. Times(s, "HIGHLOW") = 1
    BY <1>5, TimesOwn DEF Listed
  <2>2. Times(s, "DIR64") = 0
    BY <1>5, TimesOther DEF Listed
  <2> HIDE DEF s, v
  <2>3. Loaded(s, d) = (v + d * 1) % Wide
    BY <1>1, <2>1, <2>2 DEF Loaded
  <2>4. d * 1 = d
    OBVIOUS
  <2> QED BY <1>5, <2>3, <2>4 DEF s, v
<1> QED BY <1>3, <1>4, <1>5

LEMMA MoveRight ==
  ASSUME RelocateInv, FieldsApart, pc = "linked", NEW i \in Placed({"abs64", "abs32"}),
         NEW d \in Deltas, Relocs[i].target.kind = "defined"
  PROVE  LET r == Relocs[i]
             w == IF r.kind = "abs64" THEN Wide ELSE Narrow
         IN  Loaded(r.site, d) % w = (Expected(r, d) + OrigAddend(r)) % w
<1> DEFINE r == Relocs[i]
           w == IF r.kind = "abs64" THEN Wide ELSE Narrow
           v == TargetVA(r) + OrigAddend(r)
<1>1. i \in DOMAIN Relocs /\ r.placed /\ IsSlot(r) /\ Writes(r) /\ prog \in Programs /\ d \in Nat
  BY WidthAssumption DEF Placed, IsSlot, Writes, RelocateInv, TypeInv
<1>2. TargetVA(r) \in Nat /\ OrigAddend(r) \in Int
  BY <1>1, ProgTyped, AddressTypes, OrigAddendType
<1>3. w \in Nat \ {0} /\ Wide % w = 0
  <2>1. Wide \in Nat \ {0} /\ Narrow \in Nat \ {0} /\ Wide % Narrow = 0
    BY Widths
  <2>2. Wide % Wide = 0
    <3>1. (Wide * 1 + 0) % Wide = 0
      BY <2>1, ModUnique
    <3> QED BY <2>1, <3>1
  <2> QED BY <2>1, <2>2
<1>4. Written(r) = v % w
  BY <1>1 DEF Written, Masked, OrigValue, Span, Placed
<1>5. Loaded(r.site, d) = ((v % w) + d) % Wide
  BY <1>1, <1>4, LoadedSlot
<1>6. v \in Int /\ Expected(r, d) + OrigAddend(r) = v + d
  BY <1>1, <1>2 DEF Expected
<1> HIDE DEF r, w, v
<1>7. Loaded(r.site, d) % w = (v + d) % w
  <2>1. d \in Int
    BY <1>1
  <2>2. (((v % w) + d) % Wide) % w = (v + d) % w
    BY <1>3, <1>6, <2>1, AddedMod, Zenon
  <2> QED BY <1>5, <2>2
<1> QED BY <1>6, <1>7 DEF r, w

LEMMA StayRight ==
  ASSUME RelocateInv, FieldsApart, pc = "linked",
         NEW i \in Placed({"pc64", "pc32", "prel32", "prel16", "rva32"}),
         NEW d \in Deltas, Relocs[i].target.kind = "defined"
  PROVE  LET r    == Relocs[i]
             next == PatchVA(r) + d + (IF r.elf THEN 0 ELSE 4)
         IN  CASE r.kind = "pc32" ->
                    next + Signed(Loaded(r.site, d), Narrow) = Expected(r, d) + OrigAddend(r)
               [] r.kind = "rva32" ->
                    Loaded(r.site, d) % Narrow = (r.target.value + OrigAddend(r)) % Narrow
               [] OTHER ->
                    (next + Loaded(r.site, d)) % Span(r.kind)
                      = (Expected(r, d) + OrigAddend(r)) % Span(r.kind)
<1> DEFINE r    == Relocs[i]
           next == PatchVA(r) + d + (IF r.elf THEN 0 ELSE 4)
           w    == Span(r.kind)
           v    == OrigValue(r)
           held == Loaded(r.site, d)
           goal == Expected(r, d) + OrigAddend(r)
<1>1. /\ i \in DOMAIN Relocs /\ r.placed /\ ~IsSlot(r) /\ Writes(r) /\ prog \in Programs
      /\ d \in Nat /\ r.kind \in {"pc64", "pc32", "prel32", "prel16", "rva32"}
      /\ r.target.kind = "defined"
  BY WidthAssumption DEF Placed, IsSlot, Writes, RelocateInv, TypeInv
<1>2. /\ TargetVA(r) \in Nat /\ OrigAddend(r) \in Int /\ PatchVA(r) \in Nat /\ prog.base \in Nat
      /\ TargetVA(r) = prog.base + r.target.value /\ r.target.value \in Nat
  BY <1>1, ProgTyped, AddressTypes, OrigAddendType DEF TargetVA
<1>3. /\ w \in Nat \ {0} /\ Wide \in Nat \ {0} /\ Wide % w = 0
      /\ r.kind \in {"pc32", "rva32"} => w = Narrow
  <2>1. w \in {Wide, Short, Narrow} /\ (r.kind \in {"pc32", "rva32"} => w = Narrow)
    BY <1>1 DEF Span
  <2>2. Wide % Wide = 0
    <3>1. Wide \in Nat \ {0} /\ (Wide * 1 + 0) % Wide = 0
      BY Widths, ModUnique
    <3> QED BY <3>1
  <2> QED BY <2>1, <2>2, Widths
<1>4. Written(r) = v % w
  BY DEF Written, Masked
<1>5. /\ v \in Int
      /\ r.kind = "rva32" => v = r.target.value + OrigAddend(r)
      /\ r.kind /= "rva32" => next + v = goal
      /\ r.kind = "pc32" => InRange(v)
  <2>1. r.kind = "rva32" => v = TargetVA(r) - prog.base + OrigAddend(r)
    BY DEF OrigValue
  <2>2. r.kind /= "rva32" => v = OrigDisplacement(r)
    BY <1>1 DEF OrigValue
  <2>3. r.kind = "pc32" => InRange(OrigDisplacement(r))
    BY <1>1, LinkedSlots DEF Passed
  <2> HIDE DEF v, r
  <2>4. OrigDisplacement(r) \in Int /\ next + OrigDisplacement(r) = goal
    BY <1>1, <1>2 DEF OrigDisplacement, Expected
  <2> QED BY <1>1, <1>2, <2>1, <2>2, <2>3, <2>4
<1>6. held % w = v % w /\ held \in Int
  <2>1. held = (Written(r) + 0) % Wide
    BY <1>1, LoadedSlot
  <2> HIDE DEF r, w, v, held
  <2>2. v % w \in Int
    BY <1>3, <1>5, DivMod
  <2>3. held = ((v % w) + 0) % Wide /\ (v % w) + 0 \in Int
    BY <1>4, <2>1, <2>2
  <2>4. (((v % w) + 0) % Wide) % w = (v + 0) % w
    BY <1>3, <1>5, AddedMod, 0 \in Int, Zenon
  <2>5. held \in Int
    BY <1>3, <2>3, DivMod
  <2>6. v + 0 = v
    BY <1>5
  <2> QED BY <2>3, <2>4, <2>5, <2>6
<1>7. next \in Int
  BY <1>1, <1>2
<1> HIDE DEF next, w, v, held, goal
<1>8. CASE r.kind = "pc32"
  <2>1. Narrow % 2 = 0 /\ -(Narrow \div 2) <= v /\ v < Narrow \div 2 /\ w = Narrow
    BY <1>3, <1>5, <1>8, Widths DEF InRange
  <2>2. Signed(held, Narrow) = v
    BY <1>3, <1>5, <1>6, <2>1, SignedRange
  <2> HIDE DEF r
  <2>3. next + Signed(held, Narrow) = goal
    BY <1>5, <1>8, <2>2
  <2> QED BY <1>8, <2>3 DEF next, held, goal, r
<1>9. CASE r.kind = "rva32"
  BY <1>3, <1>5, <1>6, <1>9 DEF held
<1>10. CASE r.kind \notin {"pc32", "rva32"}
  <2>1. ((held % w) + next) % w = (held + next) % w
    BY <1>3, <1>6, <1>7, ModAdd
  <2>2. ((v % w) + next) % w = (v + next) % w
    BY <1>3, <1>5, <1>7, ModAdd
  <2>3. (next + held) % w = goal % w
    <3> HIDE DEF r
    <3>1. next + held = held + next /\ next + v = v + next
      BY <1>5, <1>6, <1>7
    <3>2. goal = v + next
      BY <1>5, <1>10, <3>1
    <3> QED BY <1>6, <2>1, <2>2, <3>1, <3>2
  <2> QED BY <1>10, <2>3 DEF next, held, goal, w
<1> QED BY <1>8, <1>9, <1>10

\* For every program whose relocations patch different fields, in whatever order
\* they come: each slot is right at each distance at which the loader puts the image.
THEOREM RelocateSlotsRight == RelocateSpec => [](FieldsApart => SlotsRight)
<1>1. RelocateInv => (FieldsApart => SlotsRight)
  BY MoveRight, StayRight DEF SlotsRight, SlotsMove, SlotsStay
<1> QED BY <1>1, RelocateInvariant, PTL

-------------------------------------------------------------------------------
(* Pairs of RISC-V relocations *)

\* The high part of a distance, with the carry of a low part that reads as
\* negative, and the low part make up the distance.
LEMMA PartsMeet ==
  ASSUME NEW d \in Int, InReach(d)
  PROVE  Signed(Hi20(d) % (Narrow \div Page), Narrow \div Page) * Page
           + Signed(d % Page, Page) = d
<1> DEFINE p == Page
           m == Narrow \div Page
           h == Page \div 2
           q == (d + h) \div p
           e == d - p * q
<1>1. /\ p \in Nat \ {0} /\ m \in Nat \ {0} /\ m % 2 = 0 /\ p % 2 = 0
      /\ Narrow = p * m
  BY Widths
<1>2. p = 2 * h /\ h \in Nat /\ m = 2 * (m \div 2) /\ m \div 2 \in Nat
  <2> HIDE DEF m
  <2> QED BY <1>1
<1>3. q \in Int /\ d + h = p * q + ((d + h) % p) /\ (d + h) % p \in 0 .. p - 1
  <2>1. d + h \in Int
    BY <1>2
  <2> HIDE DEF h
  <2> QED BY <1>1, <2>1, DivMod
<1>4. Narrow \div 2 = p * (m \div 2)
  <2> DEFINE k == m \div 2
  <2>1. Narrow = 2 * (p * k) /\ p * k \in Nat
    <3> HIDE DEF p, m
    <3>1. k \in Nat /\ m = 2 * k
      BY <1>2
    <3> HIDE DEF k
    <3>2. p * m = p * (2 * k) /\ p * (2 * k) = 2 * (p * k) /\ p * k \in Nat
      BY <1>1, <3>1
    <3> QED BY <1>1, <3>2
  <2> HIDE DEF p, k
  <2> DEFINE x == p * k
  <2>2. Narrow = 2 * x /\ x \in Nat
    BY <2>1
  <2> HIDE DEF x
  <2>3. Narrow \div 2 = x
    BY <2>2
  <2> QED BY <2>3 DEF x, k
<1>5. -(p * (m \div 2)) <= d + h /\ d + h < p * (m \div 2)
  BY <1>4 DEF InReach
<1>6. Hi20(d) = q
  BY DEF Hi20
<1> DEFINE k == m \div 2
<1>7. k \in Nat /\ m = 2 * k
  BY <1>2
<1> HIDE DEF h, m, q, k
<1>8. p * q <= d + h /\ d + h < p * q + p
  BY <1>1, <1>2, <1>3
<1>9. q < k
  <2>1. p * q < p * k
    BY <1>1, <1>2, <1>3, <1>5, <1>7, <1>8 DEF k
  <2>2. CASE q >= k
    <3>1. p * k <= p * q
      BY <1>1, <1>3, <1>7, <2>2
    <3> QED BY <1>1, <1>3, <1>7, <2>1, <3>1
  <2> QED BY <1>3, <1>7, <2>2
<1>10. -k <= q
  <2>1. -(p * k) < p * q + p
    BY <1>1, <1>2, <1>3, <1>5, <1>7, <1>8 DEF k
  <2>2. CASE q < -k
    <3>1. p * (q + 1) <= p * (-k)
      BY <1>1, <1>3, <1>7, <2>2
    <3>2. p * (q + 1) = p * q + p /\ p * (-k) = -(p * k)
      BY <1>1, <1>3, <1>7
    <3> QED BY <1>1, <1>3, <1>7, <2>1, <3>1, <3>2
  <2> QED BY <1>3, <1>7, <2>2
<1>11. Signed(q % m, m) = q
  <2>1. q % m \in 0 .. m - 1
    BY <1>1, <1>3, DivMod
  <2>2. (q % m) % m = q % m /\ q % m \in Int
    BY <1>1, <2>1, ModSmall
  <2>3. -(m \div 2) <= q /\ q < m \div 2
    BY <1>9, <1>10 DEF k
  <2> QED BY <1>1, <1>3, <2>2, <2>3, SignedRange
<1>12. Signed(d % p, p) = e
  <2>1. e \in Int /\ d = e + p * q
    BY <1>1, <1>3
  <2>2. -h <= e /\ e < h
    BY <1>1, <1>2, <1>3, <1>8
  <2> HIDE DEF e
  <2>3. d % p = e % p
    <3>1. (e + p * q) % p = e % p
      BY <1>1, <1>3, <2>1, ModShift
    <3> QED BY <2>1, <3>1
  <2>4. d % p \in 0 .. p - 1
    BY <1>1, DivMod
  <2>5. (d % p) % p = e % p /\ d % p \in Int
    BY <1>1, <2>3, <2>4, ModSmall
  <2>6. -(p \div 2) <= e /\ e < p \div 2
    BY <2>2 DEF h
  <2> QED BY <1>1, <2>1, <2>5, <2>6, SignedRange
<1>13. q * p + e = d
  BY <1>1, <1>3
<1> QED BY <1>6, <1>11, <1>12, <1>13 DEF m

LEMMA PairRight ==
  ASSUME RelocateInv, FieldsApart, pc = "linked",
         NEW l \in Placed({"lo12"}), NEW h \in Placed({"hi20"})
  PROVE  LET lo == Relocs[l]
             hi == Relocs[h]
             va == TargetVA(hi) + hi.addend
         IN  PatchVA(hi) = TargetVA(lo) /\ InReach(va - PatchVA(hi)) =>
               PatchVA(hi) + Signed(mem[hi.site], Narrow \div Page) * Page
                 + Signed(mem[lo.site], Page) = va
<1> SUFFICES ASSUME PatchVA(Relocs[h]) = TargetVA(Relocs[l]),
                    InReach(TargetVA(Relocs[h]) + Relocs[h].addend - PatchVA(Relocs[h]))
             PROVE  PatchVA(Relocs[h]) + Signed(mem[Relocs[h].site], Narrow \div Page) * Page
                      + Signed(mem[Relocs[l].site], Page)
                        = TargetVA(Relocs[h]) + Relocs[h].addend
  <2>1. /\ TargetVA(Relocs[h]) \in Nat /\ Relocs[h].addend \in Int /\ PatchVA(Relocs[h]) \in Nat
    BY ProgTyped, AddressTypes DEF RelocateInv, TypeInv, Placed
  <2> QED BY <2>1
<1> DEFINE va   == TargetVA(Relocs[h]) + Relocs[h].addend
           here == PatchVA(Relocs[h])
           d    == va - here
<1>1. /\ h \in DOMAIN Relocs /\ l \in DOMAIN Relocs /\ Writes(Relocs[h]) /\ Writes(Relocs[l])
      /\ Relocs[h].kind = "hi20" /\ Relocs[l].kind = "lo12" /\ prog \in Programs
  BY DEF Placed, Writes, RelocateInv, TypeInv
<1>2. TargetVA(Relocs[h]) \in Nat /\ Relocs[h].addend \in Int /\ here \in Nat
  BY <1>1, ProgTyped, AddressTypes
<1>3. mem[Relocs[h].site] = Hi20(d) % (Narrow \div Page)
  <2>1. mem[Relocs[h].site] = Written(Relocs[h])
    BY <1>1, LinkedSlots
  <2>2. OrigValue(Relocs[h]) = Hi20(d)
    <3>1. OrigValue(Relocs[h])
            = Hi20(TargetVA(Relocs[h]) + Relocs[h].addend - PatchVA(Relocs[h]))
      BY <1>1 DEF OrigValue
    <3>2. TargetVA(Relocs[h]) + Relocs[h].addend - PatchVA(Relocs[h]) = d
      BY <1>2
    <3> QED BY <3>1, <3>2, Zenon
  <2>3. Span(Relocs[h].kind) = Narrow \div Page
    BY <1>1 DEF Span
  <2> HIDE DEF d
  <2> QED BY <2>1, <2>2, <2>3 DEF Written, Masked
<1>4. Passed(Relocs[h]) /\ Passed(Relocs[l])
  BY <1>1, LinkedSlots
<1>5. here \in DOMAIN pcrelHI
  BY <1>1, <1>4 DEF Passed
<1>6. pcrelHI = pcrelHITable
  <2>1. pcrelHI = HiTable
    BY DEF RelocateInv, TypeInv
  <2>2. DOMAIN << >> = {}
    OBVIOUS
  <2> QED BY <1>5, <2>1, <2>2 DEF HiTable
<1>7. h \in HiUsable
  BY <1>1, <1>4 DEF Passed, Resolves, HiUsable, HiSites, Writes
<1>8. {i \in HiUsable : PatchVA(Relocs[i]) = here} = {h}
  <2> SUFFICES ASSUME NEW i \in HiUsable, PatchVA(Relocs[i]) = here PROVE i = h
    BY <1>7
  <2>1. i \in DOMAIN Relocs /\ Writes(Relocs[i])
    BY DEF HiUsable, HiSites, Writes
  <2>2. Relocs[i].site = Relocs[h].site
    <3>1. Relocs[i].site \in Nat /\ Relocs[h].site \in Nat /\ prog.base \in Nat
      BY <1>1, <2>1, ProgTyped, AddressTypes
    <3> QED BY <3>1 DEF PatchVA
  <2> QED BY <1>1, <2>1, <2>2 DEF FieldsApart
<1>9. pcrelHI[here] = va
  <2>1. LastOf({h}) = h
    <3>1. h <= h
      BY <1>1, ProgTyped
    <3> QED BY <3>1 DEF LastOf
  <2> QED BY <1>5, <1>6, <1>8, <2>1 DEF pcrelHITable
<1>10. mem[Relocs[l].site] = d % Page
  <2>1. mem[Relocs[l].site] = Written(Relocs[l])
    BY <1>1, LinkedSlots
  <2> QED BY <1>1, <1>9, <2>1 DEF Written, Masked, OrigValue, Span
<1>11. d \in Int /\ va \in Int /\ InReach(d)
  BY <1>2
<1> HIDE DEF d
<1>12. Signed(Hi20(d) % (Narrow \div Page), Narrow \div Page) * Page + Signed(d % Page, Page) = d
  BY <1>11, PartsMeet
<1>13. /\ Signed(Hi20(d) % (Narrow \div Page), Narrow \div Page) \in Int
       /\ Signed(d % Page, Page) \in Int /\ Page \in Int
  <2>1. Hi20(d) % (Narrow \div Page) \in Int /\ d % Page \in Int
    BY <1>11, Hi20Type, Widths, DivMod
  <2> QED BY <2>1, SignedType, Widths
<1> DEFINE a == Signed(Hi20(d) % (Narrow \div Page), Narrow \div Page)
           b == Signed(d % Page, Page)
<1>14. a * Page + b = d /\ a \in Int /\ b \in Int /\ Page \in Int
  BY <1>12, <1>13
<1> HIDE DEF a, b
<1>15. here + a * Page + b = va
  <2> DEFINE c == a * Page
  <2>1. c + b = d /\ c \in Int
    BY <1>14
  <2>2. d = va - here
    BY DEF d
  <2> HIDE DEF c, va, here
  <2>3. here + c + b = va
    BY <1>2, <1>11, <1>14, <2>1, <2>2
  <2> QED BY <2>3 DEF c
<1> QED BY <1>3, <1>10, <1>15 DEF a, b

\* For every program whose relocations patch different fields: each PCREL_LO12
\* completes the address that its PCREL_HI20 has begun.
THEOREM RelocatePairsMeet == RelocateSpec => [](FieldsApart => PairsMeet)
<1>1. RelocateInv => (FieldsApart => PairsMeet)
  BY PairRight DEF PairsMeet
<1> QED BY <1>1, RelocateInvariant, PTL
===============================================================================
