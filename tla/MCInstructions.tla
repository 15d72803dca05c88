---------------------------- MODULE MCInstructions ----------------------------
(* Instances of Instructions: every idiom of every machine, with targets around *)
(* the ends of its range and low parts around the sign of twelve bits.         *)
EXTENDS Instructions, TLC

Pow(k)    == IF k >= PageBits THEN Num(2^(k - PageBits), 0) ELSE Num(0, 2^k)
Ends(k)   == {Num(0, 0), Pow(k), Minus(Num(0, 0), Pow(k))}
Off(a, D) == {Plus(a, Num(0, d)) : d \in D}

\* Where the idiom stands: at a page's start, its middle and its end.
Starts == {Num(2^21, 0), Num(2^21, 2046), Num(2^21, 4088)}

\* What the object file has in the bits of the instruction.
Words(n) == {[b \in 0 .. n |-> 0], [b \in 0 .. n |-> 1]}
Zeros    == [b \in 0 .. 31 |-> 0]

Insn(op, type, off, sym, addend, word) ==
  [op |-> op, type |-> type, off |-> off, sym |-> sym, addend |-> addend, word |-> word]

\* One branch at P to all targets at the ends of its range, unit u.
Branches(arch, op, type, n, reach, u, A) ==
  UNION { { [arch |-> arch, start |-> P, means |-> T,
             code |-> << Insn(op, type, 0, Minus(T, Num(0, a)), a, w) >>] :
              T \in UNION {Off(Plus(P, e), {-u, 0, 1, u, 2 * u}) : e \in Ends(reach)},
              a \in A, w \in Words(n) } : P \in Starts }

\* Two instructions that share a target T; the second one's symbol is L(P, T).
Pairs(arch, op1, type1, op2, type2, Ts(_), A, W) ==
  UNION { { [arch |-> arch, start |-> P, means |-> T,
             code |-> << Insn(op1, type1, 0, Minus(T, Num(0, a)), a, w),
                         IF type2 \in {"PCREL_LO12_I", "PCREL_LO12_S"}
                         THEN Insn(op2, type2, 4, P, 0, w)
                         ELSE Insn(op2, type2, 4, Minus(T, Num(0, a)), a, w) >>] :
              T \in Ts(P), a \in A, w \in W } : P \in Starts }

Lows == {0, 16, 2047, 2048, 4080, 4095}

\* Pages around P: the nearest ones, and those at both ends of 2^20 and of 2^19.
Near(P) == {Num(P.pg + p, l) : p \in {-(2^20) - 1, -(2^20), -1, 0, 1, 2^20 - 1, 2^20}, l \in Lows}
Half(P) == {Plus(P, Num(p, l)) : p \in {-(2^19) - 1, -(2^19), -1, 0, 1, 2^19 - 1, 2^19}, l \in Lows}
Abs(P)  == {Num(p, l) : p \in {0, 7, 2^19 - 1, 2^19}, l \in Lows}

A64Elf ==
  Branches("arm64elf", "a64_b", "CALL26", 31, 27, 4, {0, 8})
    \cup Branches("arm64elf", "a64_bcond", "CONDBR19", 31, 20, 4, {0, -4})
    \cup Branches("arm64elf", "a64_tbz", "TSTBR14", 31, 15, 4, {0})
    \cup Branches("arm64elf", "a64_adr", "ADR_PREL_LO21", 31, 20, 1, {0, 3})
    \cup UNION { Pairs("arm64elf", "a64_adrp", "ADR_PREL_PG_HI21", o[1], o[2], Near, {0, 24}, Words(31)) :
                   o \in { <<"a64_add", "ADD_ABS_LO12">>, <<"a64_ldrb", "LDST8">>,
                           <<"a64_ldrh", "LDST16">>, <<"a64_ldrw", "LDST32">>,
                           <<"a64_ldrx", "LDST64">>, <<"a64_ldrq", "LDST128">> } }

\* COFF: bits 21:10 hold the addend, scaled by the size in bits 31:30.
WithBits(w, v, top, bottom) == Spliced(w, Num(0, v), {<<top - bottom, 0, bottom>>})

CoffPair(P, S, a, op, type, size, w) ==
  [arch |-> "arm64", start |-> P, means |-> Plus(S, Num(0, a * 2^size)),
   code |-> << Insn("a64_adrp", "PAGEBASE_REL21", 0, S, 0, w),
               Insn(op, type, 4, S, 0,
                    WithBits(IF type = "PAGEOFFSET_12L" THEN WithBits(w, size % 4, 31, 30) ELSE w,
                             a, 21, 10)) >>]

CoffPairs ==
  UNION { { CoffPair(P, S, a, o[1], o[2], o[3], w) :
              S \in Near(P), a \in {0, 24}, w \in Words(31),
              o \in { <<"a64_add", "PAGEOFFSET_12A", 0>>, <<"a64_ldrb", "PAGEOFFSET_12L", 0>>,
                      <<"a64_ldrh", "PAGEOFFSET_12L", 1>>, <<"a64_ldrw", "PAGEOFFSET_12L", 2>>,
                      <<"a64_ldrx", "PAGEOFFSET_12L", 3>>, <<"a64_ldrq", "PAGEOFFSET_12L", 4>> } } : P \in Starts }

A64Coff ==
  Branches("arm64", "a64_b", "BRANCH26", 31, 27, 4, {0})
    \cup Branches("arm64", "a64_bcond", "BRANCH19", 31, 20, 4, {0})
    \cup Branches("arm64", "a64_adr", "REL21", 31, 20, 1, {0})
    \cup CoffPairs

\* auipc and jalr in one relocation.
Calls ==
  UNION { { [arch |-> "riscv64", start |-> P, means |-> T,
             code |-> << Insn("rv_auipc", "CALL", 0, T, 0, w),
                         Insn("rv_addi", "none", 4, T, 0, w) >>] :
              T \in Half(P), w \in Words(31) } : P \in Starts }

Riscv ==
  Branches("riscv64", "rv_branch", "BRANCH", 31, 12, 2, {0, 6})
    \cup Branches("riscv64", "rv_jal", "JAL", 31, 20, 2, {0})
    \cup Branches("riscv64", "rv_cb", "RVC_BRANCH", 15, 8, 2, {0, -2})
    \cup Branches("riscv64", "rv_cj", "RVC_JUMP", 15, 11, 2, {0})
    \cup Calls
    \cup UNION { Pairs("riscv64", "rv_auipc", "PCREL_HI20", o[1], o[2], Half, {0, -12}, Words(31)) :
                   o \in { <<"rv_addi", "PCREL_LO12_I">>, <<"rv_store", "PCREL_LO12_S">> } }
    \cup UNION { Pairs("riscv64", "rv_lui", "HI20", o[1], o[2], Abs, {0, -12}, Words(31)) :
                   o \in { <<"rv_addi", "LO12_I">>, <<"rv_store", "LO12_S">> } }

Loong ==
  Branches("loongarch64", "la_beq", "B16", 31, 17, 4, {0, 4})
    \cup Branches("loongarch64", "la_beqz", "B21", 31, 22, 4, {0})
    \cup Branches("loongarch64", "la_b", "B26", 31, 27, 4, {0})
    \cup Pairs("loongarch64", "la_pcala", "PCALA_HI20", "la_addi", "PCALA_LO12", Half, {0, 40}, Words(31))
    \cup UNION { Pairs("loongarch64", "la_lu12i", "ABS_HI20", o, "ABS_LO12", Abs, {0, 40}, Words(31)) :
                   o \in {"la_addi", "la_ori"} }

\* x86: the addend is in the field.
X86 ==
  UNION { { [arch |-> "amd64", start |-> P, means |-> Plus(S, Num(0, a)),
             code |-> << Insn(o[1], o[2], 0, S, 0, Spliced(Zeros, Num(0, a), Disp32)) >>] :
              S \in UNION {Off(Plus(P, e), {-1, 0, 3, 4, 5, 7, 8}) : e \in Ends(31)},
              a \in {0, 5, -9},
              o \in { <<"x86_imm0", "REL32">>, <<"x86_imm1", "REL32_1">>,
                      <<"x86_imm2", "REL32_2">>, <<"x86_imm4", "REL32_4">> } } : P \in Starts }

AllIdioms == A64Elf \cup A64Coff \cup Riscv \cup Loong \cup X86
===============================================================================
