------------------------------- MODULE BackEnds -------------------------------
(***************************************************************************)
(* The instruction fixups of the five relocation back ends                 *)
(* (linker/reloc_*.go): which value each type encodes, when it is refused, *)
(* and which bits of which words it goes to.  The data types, which all    *)
(* machines share, are in module Relocate.                                 *)
(*                                                                         *)
(* P is the VA of the site, T is S + A.  A fixup yields what is spliced    *)
(* into the words from the site on, or Refused when it returns an error.   *)
(***************************************************************************)
EXTENDS Words

Refused == << >>
Set(value, field) == << [value |-> value, field |-> field] >>
Checked(ok, value, field) == IF ok THEN Set(value, field) ELSE Refused

\* The carry of a low part that is sign-extended.
RoundedUp_NoCarry(a) == a
RoundedUp(a) == Plus(a, Num(0, 2^(PageBits - 1)))

\* A value of 20 bits: (a + 0x800) >> 12.
Hi20(a) == Shifted(RoundedUp(a), PageBits)

-------------------------------------------------------------------------------
(* AArch64: fields shared by both of its back ends *)

Branch26  == {<<25, 0, 0>>}
Branch19  == {<<18, 0, 5>>}
TBranch14 == {<<13, 0, 5>>}
ADRP      == {<<1, 0, 29>>, <<20, 2, 5>>}
Imm12     == {<<11, 0, 10>>}

\* Branches count words; the displacement must be a multiple of four.
BranchInRange_OffByOne(d, bits) ==
  Within(Shifted(d, 2), bits) /\ d /= Num(-(2^(bits + 2 - PageBits)), 0)
BranchInRange(d, bits) == Within(Shifted(d, 2), bits)

Branch(d, bits, field) ==
  Checked(Aligned(d, 2) /\ BranchInRange(d, bits), Shifted(d, 2), field)

PageDisp(T, P) == Shifted(Minus(Page(T), Page(P)), PageBits)

LdStShift == [LDST8 |-> 0, LDST16 |-> 1, LDST32 |-> 2, LDST64 |-> 3, LDST128 |-> 4]

applyARM64ELF(t, T, P) ==
  LET d == Minus(T, P) IN
  CASE t \in {"CALL26", "JUMP26"} -> Branch(d, 25, Branch26)
    [] t = "CONDBR19" -> Branch(d, 18, Branch19)
    [] t = "TSTBR14"  -> Branch(d, 13, TBranch14)
    [] t = "ADR_PREL_PG_HI21" ->
         Checked(Within(PageDisp(T, P), 20), PageDisp(T, P), ADRP)
    [] t = "ADR_PREL_LO21" -> Checked(Within(d, 20), d, ADRP)
    [] t = "ADD_ABS_LO12"  -> Set(Low12(T), Imm12)
    [] t \in DOMAIN LdStShift ->
         Checked(Aligned(T, LdStShift[t]), Shifted(Low12(T), LdStShift[t]), Imm12)

\* COFF: no addend but the one in the immediates that PAGEOFFSET_12A and 12L
\* read back, scaled by the access size in bits 31:30 of the instruction.
applyARM64(t, S, P, w) ==
  LET d     == Minus(S, P)
      size  == IF t = "PAGEOFFSET_12L" THEN FieldOf(w, 31, 30) ELSE 0
      value == Low12(Plus(S, Num(0, FieldOf(w, 21, 10) * 2^size)))
  IN
  CASE t = "BRANCH26" -> Branch(d, 25, Branch26)
    [] t = "BRANCH19" -> Branch(d, 18, Branch19)
    [] t = "PAGEBASE_REL21" ->
         Checked(Within(PageDisp(S, P), 20), PageDisp(S, P), ADRP)
    [] t = "REL21" -> Checked(Within(d, 20), d, ADRP)
    [] t \in {"PAGEOFFSET_12A", "PAGEOFFSET_12L"} ->
         Checked(Aligned(value, size), Shifted(value, size), Imm12)

-------------------------------------------------------------------------------
(* RISC-V *)

PatchU  == {<<19, 0, 12>>}
PatchI  == {<<11, 0, 20>>}
PatchS  == {<<11, 5, 25>>, <<4, 0, 7>>}
PatchB  == {<<12, 12, 31>>, <<10, 5, 25>>, <<4, 1, 8>>, <<11, 11, 7>>}
PatchJ  == {<<20, 20, 31>>, <<10, 1, 21>>, <<11, 11, 20>>, <<19, 12, 12>>}

\* The compressed branch with its mask one bit too wide.
PatchCB_WideMask ==
  {<<8, 8, 12>>, <<4, 3, 10>>, <<9, 6, 5>>, <<2, 1, 3>>, <<5, 5, 2>>}
PatchCB == {<<8, 8, 12>>, <<4, 3, 10>>, <<7, 6, 5>>, <<2, 1, 3>>, <<5, 5, 2>>}
PatchCJ == {<<11, 11, 12>>, <<4, 4, 11>>, <<9, 8, 9>>, <<10, 10, 8>>, <<6, 6, 7>>,
            <<7, 7, 6>>, <<3, 1, 3>>, <<5, 5, 2>>}

\* hiTarget is what pcrelLookup finds for a label, << >> for nothing.
applyRISCV64(t, T, P, S, hiTarget) ==
  LET d == Minus(T, P)
      jump(k, field) == Checked(Aligned(d, 1) /\ Within(d, k), d, field)
      lo(field) == IF hiTarget = << >> THEN Refused
                   ELSE Set(Low12(Minus(hiTarget[1], S)), field)
  IN
  CASE t = "HI20"         -> Set(Hi20(T), PatchU)
    [] t = "LO12_I"       -> Set(Low12(T), PatchI)
    [] t = "LO12_S"       -> Set(Low12(T), PatchS)
    [] t = "BRANCH"       -> jump(12, PatchB)
    [] t = "JAL"          -> jump(20, PatchJ)
    [] t = "RVC_BRANCH"   -> jump(8, PatchCB)
    [] t = "RVC_JUMP"     -> jump(11, PatchCJ)
    [] t = "CALL"         -> IF Within(d, 31)
                             THEN Set(Hi20(d), PatchU) \o Set(Low12(d), PatchI)
                             ELSE Refused
    [] t = "PCREL_HI20"   -> Set(Hi20(d), PatchU)
    [] t = "PCREL_LO12_I" -> lo(PatchI)
    [] t = "PCREL_LO12_S" -> lo(PatchS)

-------------------------------------------------------------------------------
(* LoongArch *)

LoongImm20 == {<<19, 0, 5>>}
LoongImm12 == {<<11, 0, 10>>}
LoongB16   == {<<15, 0, 10>>}
LoongB21   == {<<15, 0, 10>>, <<20, 16, 0>>}
LoongB26   == {<<15, 0, 10>>, <<25, 16, 0>>}

LoongAbs(t, T) ==
  IF t = "ABS_HI20" THEN Set(Hi20(T), LoongImm20) ELSE Set(Low12(T), LoongImm12)

LoongPcala(t, T, P) ==
  IF t = "PCALA_HI20" THEN Set(PageDisp(RoundedUp(T), P), LoongImm20)
  ELSE Set(Low12(T), LoongImm12)

\* Without the upper words of 64-bit addresses (ABS64_*, PCALA64_*).
applyLoongArch64(t, T, P) ==
  LET d == Minus(T, P)
      jump(k, field) == Checked(Aligned(d, 2) /\ Within(d, k), Shifted(d, 2), field)
  IN
  CASE t \in {"ABS_HI20", "ABS_LO12"} -> LoongAbs(t, T)
    [] t \in {"PCALA_HI20", "PCALA_LO12"} -> LoongPcala(t, T, P)
    [] t = "B16" -> jump(17, LoongB16)
    [] t = "B21" -> jump(22, LoongB21)
    [] t = "B26" -> jump(27, LoongB26)

-------------------------------------------------------------------------------
(* x86-64, COFF *)

Disp32 == {<<31, 0, 0>>}

\* REL32_n: n more bytes of the instruction follow the field.
Trailing == [REL32 |-> 0, REL32_1 |-> 1, REL32_2 |-> 2, REL32_3 |-> 3,
             REL32_4 |-> 4, REL32_5 |-> 5]

SignedWord(w) == Num(FieldOf(w, 30, 12) - w[31] * 2^19, FieldOf(w, 11, 0))

applyAMD64(t, S, P, w) ==
  LET d == Plus(Minus(S, Plus(P, Num(0, 4 + Trailing[t]))), SignedWord(w))
  IN  Checked(Within(d, 31), d, Disp32)
===============================================================================
