----------------------------- MODULE Instructions -----------------------------
(***************************************************************************)
(* The instruction sequences through which compiled code refers to a       *)
(* symbol: the linker applies the relocations of one such idiom one after  *)
(* the other, in input order and up to the first error; then a CPU         *)
(* executes the instructions.  The CPU is not part of the repository: its  *)
(* formats are those of the instruction set manuals, where an immediate's  *)
(* parts are listed by the bits they come from.                            *)
(***************************************************************************)
EXTENDS BackEnds, FiniteSetsExt

CONSTANT Idioms   \* the sequences to link and run

\* An instruction at off bytes behind the idiom's start; its relocation is
\* against sym + addend.  "none": a word that an earlier relocation patches too.
Instruction ==
  [op : STRING, type : STRING, off : Nat, sym : [pg : Int, lo : 0 .. PageLen - 1],
   addend : Int, word : [0 .. 31 -> {0, 1}] \cup [0 .. 15 -> {0, 1}]]

Idiom == [arch : {"amd64", "arm64", "arm64elf", "riscv64", "loongarch64"},
          start : [pg : Int, lo : 0 .. PageLen - 1], code : Seq(Instruction),
          means : [pg : Int, lo : 0 .. PageLen - 1]]

VARIABLES idiom,   \* the sequence
          words,   \* its instruction words, as patched so far
          next,    \* the next relocation, then the next instruction
          reg,     \* what the CPU has computed: an address
          stage

instrVars == <<idiom, words, next, reg, stage>>

Code    == idiom.code
Site(i) == Plus(idiom.start, Num(0, Code[i].off))

-------------------------------------------------------------------------------
(* The linker *)

RefersTo(c) == Plus(c.sym, Num(0, c.addend))
Referent(i) == RefersTo(Code[i])

\* The pre-pass of ApplyRelocations: a label leads to the target of its HI20.
pcrelLookup(va) ==
  LET hi == {i \in DOMAIN Code : Code[i].type = "PCREL_HI20" /\ Site(i) = va}
  IN  IF hi = {} THEN << >> ELSE << Referent(CHOOSE i \in hi : TRUE) >>

Apply(i) ==
  LET t == Code[i].type
      S == Code[i].sym
      T == Referent(i)
      P == Site(i)
  IN
  CASE idiom.arch = "amd64"    -> applyAMD64(t, S, P, words[i])
    [] idiom.arch = "arm64"    -> applyARM64(t, S, P, words[i])
    [] idiom.arch = "arm64elf" -> applyARM64ELF(t, T, P)
    [] idiom.arch = "riscv64"  -> applyRISCV64(t, T, P, S, pcrelLookup(S))
    [] idiom.arch = "loongarch64" -> applyLoongArch64(t, T, P)

Patch ==
  /\ stage = "link" /\ next \in DOMAIN Code /\ Code[next].type /= "none"
  /\ LET puts == Apply(next) IN
     IF puts = Refused
     THEN stage' = "error" /\ UNCHANGED <<words, next>>
     ELSE /\ words' = [i \in DOMAIN words |->
                         IF i - next + 1 \in DOMAIN puts
                         THEN Spliced(words[i], puts[i - next + 1].value, puts[i - next + 1].field)
                         ELSE words[i]]
          /\ next' = next + 1
          /\ UNCHANGED stage
  /\ UNCHANGED <<idiom, reg>>

Unrelocated ==
  /\ stage = "link" /\ next \in DOMAIN Code /\ Code[next].type = "none"
  /\ next' = next + 1
  /\ UNCHANGED <<idiom, words, reg, stage>>

Patched ==
  /\ stage = "link" /\ next \notin DOMAIN Code
  /\ stage' = "run" /\ next' = 1
  /\ UNCHANGED <<idiom, words, reg>>

-------------------------------------------------------------------------------
(* The CPU *)

\* What an instruction adds its immediate to, the word's slices <<hi, lo, exp>>
\* (bits hi .. lo weigh 2^exp and up) and the sign bit's weight, if there is one.
Format(base, parts, sign) == [base |-> base, parts |-> parts, sign |-> sign]
Unsigned == -1

Formats ==
  [ a64_b     |-> Format("pc",   {<<25, 0, 2>>}, 27),
    a64_bcond |-> Format("pc",   {<<23, 5, 2>>}, 20),
    a64_tbz   |-> Format("pc",   {<<18, 5, 2>>}, 15),
    a64_adr   |-> Format("pc",   {<<30, 29, 0>>, <<23, 5, 2>>}, 20),
    a64_adrp  |-> Format("page", {<<30, 29, 12>>, <<23, 5, 14>>}, 32),
    a64_add   |-> Format("reg",  {<<21, 10, 0>>}, Unsigned),
    a64_ldrb  |-> Format("reg",  {<<21, 10, 0>>}, Unsigned),
    a64_ldrh  |-> Format("reg",  {<<21, 10, 1>>}, Unsigned),
    a64_ldrw  |-> Format("reg",  {<<21, 10, 2>>}, Unsigned),
    a64_ldrx  |-> Format("reg",  {<<21, 10, 3>>}, Unsigned),
    a64_ldrq  |-> Format("reg",  {<<21, 10, 4>>}, Unsigned),
    rv_auipc  |-> Format("pc",   {<<31, 12, 12>>}, 31),
    rv_lui    |-> Format("zero", {<<31, 12, 12>>}, 31),
    rv_addi   |-> Format("reg",  {<<31, 20, 0>>}, 11),
    rv_store  |-> Format("reg",  {<<31, 25, 5>>, <<11, 7, 0>>}, 11),
    rv_branch |-> Format("pc",   {<<31, 31, 12>>, <<7, 7, 11>>, <<30, 25, 5>>, <<11, 8, 1>>}, 12),
    rv_jal    |-> Format("pc",   {<<31, 31, 20>>, <<19, 12, 12>>, <<20, 20, 11>>, <<30, 21, 1>>}, 20),
    rv_cb     |-> Format("pc",   {<<12, 12, 8>>, <<6, 5, 6>>, <<2, 2, 5>>, <<11, 10, 3>>, <<4, 3, 1>>}, 8),
    rv_cj     |-> Format("pc",   {<<12, 12, 11>>, <<8, 8, 10>>, <<10, 9, 8>>, <<6, 6, 7>>, <<7, 7, 6>>,
                                  <<2, 2, 5>>, <<11, 11, 4>>, <<5, 3, 1>>}, 11),
    la_lu12i  |-> Format("zero", {<<24, 5, 12>>}, 31),
    la_pcala  |-> Format("page", {<<24, 5, 12>>}, 31),
    la_ori    |-> Format("reg",  {<<21, 10, 0>>}, Unsigned),
    la_addi   |-> Format("reg",  {<<21, 10, 0>>}, 11),
    la_beq    |-> Format("pc",   {<<25, 10, 2>>}, 17),
    la_beqz   |-> Format("pc",   {<<4, 0, 18>>, <<25, 10, 2>>}, 22),
    la_b      |-> Format("pc",   {<<9, 0, 18>>, <<25, 10, 2>>}, 27),
    x86_imm0  |-> Format("next", {<<31, 0, 0>>}, 31),
    x86_imm1  |-> Format("next", {<<31, 0, 0>>}, 31),
    x86_imm2  |-> Format("next", {<<31, 0, 0>>}, 31),
    x86_imm4  |-> Format("next", {<<31, 0, 0>>}, 31) ]

\* Bytes of an x86 instruction behind its 32-bit displacement.
BytesBehind == [x86_imm0 |-> 0, x86_imm1 |-> 1, x86_imm2 |-> 2, x86_imm4 |-> 4]

ImmBits(f) == UNION {p[2] .. p[1] : p \in f.parts}
Least(f)   == Min({p[3] : p \in f.parts})

\* The bit of the word that weighs 2^e, if the immediate has one.
Holds(p, e) == p[3] <= e /\ e <= p[3] + p[1] - p[2]
BitOf(f, e) == LET p == CHOOSE p \in f.parts : Holds(p, e) IN p[2] + e - p[3]

\* Bits below the immediate are 0, those above it copies of its sign.
Immediate(w, f) ==
  LET bit == [e \in 0 .. 32 |->
                IF \E p \in f.parts : Holds(p, e) THEN w[BitOf(f, e)]
                ELSE IF f.sign \in 0 .. e THEN w[BitOf(f, f.sign)] ELSE 0]
  IN  [pg |-> Number(bit, PageBits, 32, IF f.sign = Unsigned THEN 0 ELSE -bit[32]),
       lo |-> Number(bit, 0, PageBits - 1, 0)]

Origin(i) ==
  LET f == Formats[Code[i].op] IN
  CASE f.base = "pc"   -> Site(i)
    [] f.base = "page" -> Page(Site(i))
    [] f.base = "zero" -> Num(0, 0)
    [] f.base = "reg"  -> reg
    [] f.base = "next" -> Plus(Site(i), Num(0, 4 + BytesBehind[Code[i].op]))

Execute ==
  /\ stage = "run" /\ next \in DOMAIN Code
  /\ reg' = Plus(Origin(next), Immediate(words[next], Formats[Code[next].op]))
  /\ next' = next + 1
  /\ UNCHANGED <<idiom, words, stage>>

Executed ==
  /\ stage = "run" /\ next \notin DOMAIN Code
  /\ stage' = "done"
  /\ UNCHANGED <<idiom, words, next, reg>>

-------------------------------------------------------------------------------
(* What compilers emit *)

\* Relocations that lead one instruction to its target.
Alone ==
  ({"arm64elf"} \X {<<"CALL26", "a64_b">>, <<"JUMP26", "a64_b">>, <<"CONDBR19", "a64_bcond">>,
                    <<"TSTBR14", "a64_tbz">>, <<"ADR_PREL_LO21", "a64_adr">>})
    \cup ({"arm64"} \X {<<"BRANCH26", "a64_b">>, <<"BRANCH19", "a64_bcond">>, <<"REL21", "a64_adr">>})
    \cup ({"riscv64"} \X {<<"BRANCH", "rv_branch">>, <<"JAL", "rv_jal">>,
                          <<"RVC_BRANCH", "rv_cb">>, <<"RVC_JUMP", "rv_cj">>})
    \cup ({"loongarch64"} \X {<<"B16", "la_beq">>, <<"B21", "la_beqz">>, <<"B26", "la_b">>})
    \cup ({"amd64"} \X {<<"REL32", "x86_imm0">>, <<"REL32_1", "x86_imm1">>,
                        <<"REL32_2", "x86_imm2">>, <<"REL32_4", "x86_imm4">>})

\* Relocations of two instructions, the second of which adds the low part.
Paired ==
  ({<<"arm64elf", "ADR_PREL_PG_HI21", "a64_adrp">>}
     \X {<<"ADD_ABS_LO12", "a64_add">>, <<"LDST8", "a64_ldrb">>, <<"LDST16", "a64_ldrh">>,
         <<"LDST32", "a64_ldrw">>, <<"LDST64", "a64_ldrx">>, <<"LDST128", "a64_ldrq">>})
    \cup ({<<"arm64", "PAGEBASE_REL21", "a64_adrp">>}
            \X ({<<"PAGEOFFSET_12A", "a64_add">>}
                 \cup {"PAGEOFFSET_12L"} \X {"a64_ldrb", "a64_ldrh", "a64_ldrw", "a64_ldrx", "a64_ldrq"}))
    \cup ({<<"riscv64", "PCREL_HI20", "rv_auipc">>}
            \X {<<"PCREL_LO12_I", "rv_addi">>, <<"PCREL_LO12_S", "rv_store">>})
    \cup ({<<"riscv64", "HI20", "rv_lui">>} \X {<<"LO12_I", "rv_addi">>, <<"LO12_S", "rv_store">>})
    \cup ({<<"riscv64", "CALL", "rv_auipc">>} \X {<<"none", "rv_addi">>})
    \cup ({<<"loongarch64", "PCALA_HI20", "la_pcala">>} \X {<<"PCALA_LO12", "la_addi">>})
    \cup ({<<"loongarch64", "ABS_HI20", "la_lu12i">>}
            \X {<<"ABS_LO12", "la_addi">>, <<"ABS_LO12", "la_ori">>})

\* The address that a sequence computes: COFF leaves the addends of AArch64 and
\* x86 in the instructions.
Meaning(m) ==
  LET c == m.code[Len(m.code)] IN
  CASE m.arch = "amd64" -> Plus(c.sym, SignedWord(c.word))
    [] m.arch = "arm64" /\ Len(m.code) = 2 ->
         Plus(c.sym, Num(0, FieldOf(c.word, 21, 10) * 2^Least(Formats[c.op])))
    [] OTHER -> RefersTo(m.code[1])

\* What the relocation of a second instruction names: the target, or, on RISC-V,
\* the instruction that has the high part.
SecondRight(m, c) ==
  LET d == m.code[1] IN
  CASE c.type = "none" -> c.off = d.off + 4
    [] c.type \in {"PCREL_LO12_I", "PCREL_LO12_S"} -> c.sym = Plus(m.start, Num(0, d.off))
    [] c.type = "PAGEOFFSET_12A" -> c.sym = d.sym
    [] c.type = "PAGEOFFSET_12L" ->
         /\ c.sym = d.sym
         /\ FieldOf(c.word, 31, 30) = IF c.op = "a64_ldrq" THEN 0 ELSE Least(Formats[c.op])
    [] OTHER -> RefersTo(c) = m.means

Emitted(m) ==
  /\ m \in Idiom /\ m.means = Meaning(m)
  /\ \A i \in DOMAIN m.code :
       /\ DOMAIN m.code[i].word = IF m.code[i].op \in {"rv_cb", "rv_cj"} THEN 0 .. 15 ELSE 0 .. 31
       /\ m.arch \in {"amd64", "arm64"} => m.code[i].addend = 0
  /\ \/ /\ Len(m.code) = 1
        /\ <<m.arch, <<m.code[1].type, m.code[1].op>>>> \in Alone
     \/ /\ Len(m.code) = 2
        /\ <<<<m.arch, m.code[1].type, m.code[1].op>>, <<m.code[2].type, m.code[2].op>>>> \in Paired
        /\ SecondRight(m, m.code[2])

ASSUME IdiomsAssumption == \A m \in Idioms : Emitted(m)

InstrInit ==
  /\ idiom \in Idioms
  /\ words = [i \in DOMAIN idiom.code |-> idiom.code[i].word]
  /\ next = 1 /\ reg = Num(0, 0) /\ stage = "link"

InstrNext == Patch \/ Unrelocated \/ Patched \/ Execute \/ Executed

InstrReturned == stage \in {"done", "error"} /\ UNCHANGED instrVars

InstrSpec == InstrInit /\ [][InstrNext \/ InstrReturned]_instrVars

-------------------------------------------------------------------------------
(* Properties *)

Opens(type) == Code # << >> /\ Code[1].type = type
Closes(op)  == Code[Len(Code)].op = op

\* The fixups without a range check reach their targets only from here.
InReach ==
  LET T == Referent(1) IN
  /\ Opens("PCREL_HI20") \/ Opens("CALL") => Within(RoundedUp(Minus(T, Site(1))), 31)
  /\ Opens("HI20") \/ Opens("ABS_HI20")   => Within(RoundedUp(T), 31)
  /\ Opens("PCALA_HI20")                  => Within(Minus(Page(RoundedUp(T)), Page(Site(1))), 31)

\* ABS_HI20 adds the carry of a signed low part: ori has none.
CarryTaken == Opens("ABS_HI20") /\ Closes("la_ori") => Referent(1).lo < PageLen \div 2

\* PAGEBASE_REL21 leaves the addend out, so it must not lead to another page.
AddendInPage == Opens("PAGEBASE_REL21") => Page(Code[1].sym) = Page(idiom.means)

\* PAGEOFFSET_12L takes the 16-byte loads for loads of one byte.
SizeInBits == idiom.arch = "arm64" => ~Closes("a64_ldrq")

\* A sequence that links without an error computes S + A, on every machine: the
\* parts that its relocations leave in different instructions add up.
Lands ==
  stage = "done" /\ InReach /\ CarryTaken /\ AddendInPage /\ SizeInBits
    => reg = idiom.means

\* A fixup changes no bit of an instruction that is not part of its immediate.
OpcodeKept ==
  \A i \in DOMAIN words : \A b \in DOMAIN words[i] \ ImmBits(Formats[Code[i].op]) :
    words[i][b] = Code[i].word[b]

\* Whether the format has an immediate of this value.
Encodable(v, f) ==
  /\ Aligned(v, IF Least(f) > PageBits THEN PageBits ELSE Least(f))
  /\ f.sign /= Unsigned => Within(v, f.sign)

\* The value that the relocated instruction would have to encode.
Needed(i) ==
  LET f == Formats[Code[i].op]
  IN
  CASE f.base = "page" -> Minus(Page(Referent(i)), Page(Site(i)))
    [] f.base = "next" -> Minus(idiom.means, Origin(i))
    [] f.base = "reg"  -> Low12(idiom.means)
    [] OTHER -> Minus(Referent(i), Site(i))

\* A fixup is refused only if the instruction has no immediate for it: too far,
\* or not a multiple of its unit.
RefusedForCause ==
  stage = "error" =>
    IF Code[next].type = "CALL" THEN ~Within(Needed(next), 31)
    ELSE ~Encodable(Needed(next), Formats[Code[next].op])
===============================================================================
