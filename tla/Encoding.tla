------------------------------ MODULE Encoding ------------------------------
(***************************************************************************)
(* An instruction on its way from a line of assembly to the decoders of    *)
(* both cores: the formats of ass2bin_wrap.py with the table of            *)
(* doc/instr_map.txt, and the fields that decode and core take apart.      *)
(*                                                                         *)
(* An instruction word, a field or an immediate is the set of its bits     *)
(* that are 1, bit 0 the lowest. A line has the operands rd, rs1, rs2 and  *)
(* imm, of which each format uses its own.                                 *)
(***************************************************************************)
EXTENDS Integers

CONSTANTS
  Mnemonics,         \* the mnemonics tried
  RegisterTriples,   \* the registers rd, rs1 and rs2 that are tried together
  Immediates,        \* the immediates tried
  Weight             \* Weight[n] is 2^n

VARIABLE line

ASSUME ImmediatesAssumption == Immediates \subseteq Int
ASSUME WeightAssumption ==
  /\ Weight \in [0 .. 30 -> Nat \ {0}]
  /\ Weight[0] = 1
  /\ \A n \in 0 .. 29 : Weight[n + 1] = 2 * Weight[n]

\* __binary(x, size): two's complement, cut off at size bits. An x that does
\* not fit in the bytes of size is refused; Immediates are within these.
Bits(x, size) == {n \in 0 .. (size - 1) : (x \div Weight[n]) % 2 = 1}
Put(bits, low) == {n + low : n \in bits}
Slice(w, high, low) == {n - low : n \in w \cap low .. high}

-----------------------------------------------------------------------------
(* The assembler.                                                          *)

\* doc/instr_map.txt, each mnemonic with its opcode, funct3 and funct7.
instr_data ==
  [add   |-> <<51, 0, 0>>,  sub  |-> <<51, 0, 32>>, sll   |-> <<51, 1, 0>>,
   slt   |-> <<51, 2, 0>>,  sltu |-> <<51, 3, 0>>,  xor   |-> <<51, 4, 0>>,
   srl   |-> <<51, 5, 0>>,  sra  |-> <<51, 5, 32>>, or    |-> <<51, 6, 0>>,
   and   |-> <<51, 7, 0>>,  mul  |-> <<51, 0, 1>>,  mulh  |-> <<51, 1, 1>>,
   mulsu |-> <<51, 2, 1>>,  mulu |-> <<51, 3, 1>>,  div   |-> <<51, 4, 1>>,
   divu  |-> <<51, 5, 1>>,  rem  |-> <<51, 6, 1>>,  remu  |-> <<51, 7, 1>>,
   addi  |-> <<19, 0, -1>>, slti |-> <<19, 2, -1>>, sltiu |-> <<19, 3, -1>>,
   xori  |-> <<19, 4, -1>>, ori  |-> <<19, 6, -1>>, andi  |-> <<19, 7, -1>>,
   slli  |-> <<19, 1, 0>>,  srli |-> <<19, 5, 0>>,  srai  |-> <<19, 5, 32>>,
   lb    |-> <<3, 0, -1>>,  lh   |-> <<3, 1, -1>>,  lw    |-> <<3, 2, -1>>,
   lbu   |-> <<3, 4, -1>>,  lhu  |-> <<3, 5, -1>>,  jalr  |-> <<103, 0, -1>>,
   sb    |-> <<35, 0, -1>>, sh   |-> <<35, 1, -1>>, sw    |-> <<35, 2, -1>>,
   beq   |-> <<99, 0, -1>>, bne  |-> <<99, 1, -1>>, blt   |-> <<99, 4, -1>>,
   bge   |-> <<99, 5, -1>>, bltu |-> <<99, 6, -1>>, bgeu  |-> <<99, 7, -1>>,
   auipc |-> <<23, -1, -1>>, lui |-> <<55, -1, -1>>, jal |-> <<111, -1, -1>>]

R_instr == {"add", "sub", "sll", "slt", "sltu", "xor", "srl", "sra", "or",
            "and", "mul", "mulh", "mulu", "mulsu", "div", "divu", "rem", "remu"}
non_imm_ins == {"slli", "srli", "srai"}
I_instr == {"addi", "lb", "lh", "lw", "lbu", "lhu", "slti", "sltiu", "xori",
            "ori", "andi", "jalr"} \cup non_imm_ins
S_instr == {"sw", "sb", "sh"}
SB_instr == {"beq", "bne", "blt", "bge", "bltu", "bgeu"}
U_instr == {"auipc", "lui"}
UJ_instr == {"jal"}

Opcode(m) == Bits(instr_data[m][1], 7)
F3(m) == Put(Bits(instr_data[m][2], 3), 12)
F7(m) == Put(Bits(instr_data[m][3], 7), 25)
Rd(l) == Put(Bits(l.rd, 5), 7)
Rs1(l) == Put(Bits(l.rs1, 5), 15)
Rs2(l) == Put(Bits(l.rs2, 5), 20)

R_type(l) == F7(l.m) \cup Rs2(l) \cup Rs1(l) \cup F3(l.m) \cup Rd(l) \cup Opcode(l.m)

I_type(l) ==
  (IF l.m \in non_imm_ins THEN F7(l.m) \cup Put(Bits(l.imm, 5), 20)
                          ELSE Put(Bits(l.imm, 12), 20))
  \cup Rs1(l) \cup F3(l.m) \cup Rd(l) \cup Opcode(l.m)

S_type(l) ==
  LET lit_imm == Bits(l.imm, 12)
  IN  Put(Slice(lit_imm, 11, 5), 25) \cup Rs2(l) \cup Rs1(l) \cup F3(l.m)
      \cup Put(Slice(lit_imm, 4, 0), 7) \cup Opcode(l.m)

SB_type_LikeStore(l) ==
  LET imm == Bits(l.imm, 13)
  IN  Put(Slice(imm, 11, 5), 25) \cup Rs2(l) \cup Rs1(l) \cup F3(l.m)
      \cup Put(Slice(imm, 4, 0), 7) \cup Opcode(l.m)

SB_type(l) ==
  LET imm == Bits(l.imm, 13)
  IN  Put(Slice(imm, 12, 12), 31) \cup Put(Slice(imm, 10, 5), 25) \cup Rs2(l)
      \cup Rs1(l) \cup F3(l.m) \cup Put(Slice(imm, 4, 1), 8)
      \cup Put(Slice(imm, 11, 11), 7) \cup Opcode(l.m)

U_type(l) == Put(Bits(l.imm, 20), 12) \cup Rd(l) \cup Opcode(l.m)

UJ_type(l) ==
  LET lit_imm == Bits(l.imm, 21)
  IN  Put(Slice(lit_imm, 20, 20), 31) \cup Put(Slice(lit_imm, 10, 1), 21)
      \cup Put(Slice(lit_imm, 11, 11), 20) \cup Put(Slice(lit_imm, 19, 12), 12)
      \cup Rd(l) \cup Opcode(l.m)

\* __interpret on a pseudo-instruction: the line it is assembled as. rs1 and
\* rs2 are its operands in the order written.
Real(m, rd, rs1, rs2, imm) ==
  [m |-> m, rd |-> rd, rs1 |-> rs1, rs2 |-> rs2, imm |-> imm]
handled_pseudo == {"j", "nop", "mv", "neg", "jr", "ret", "bgt", "bgtu", "ble", "bleu"}

Expanded_NotSwapped(l) ==
  IF l.m = "j" THEN Real("jal", 0, 0, 0, l.imm)
  ELSE IF l.m = "nop" THEN Real("addi", 0, 0, 0, 0)
  ELSE IF l.m = "mv" THEN Real("addi", l.rd, l.rs1, 0, 0)
  ELSE IF l.m = "neg" THEN Real("sub", l.rd, 0, l.rs1, 0)
  ELSE IF l.m = "jr" THEN Real("jalr", 0, l.rs1, 0, 0)
  ELSE IF l.m = "ret" THEN Real("jalr", 0, 1, 0, 0)
  ELSE IF l.m \in {"bgt", "bgtu"} THEN Real("blt", 0, l.rs1, l.rs2, l.imm)
  ELSE Real("bge", 0, l.rs1, l.rs2, l.imm)
Expanded(l) ==
  IF l.m = "j" THEN Real("jal", 0, 0, 0, l.imm)
  ELSE IF l.m = "nop" THEN Real("addi", 0, 0, 0, 0)
  ELSE IF l.m = "mv" THEN Real("addi", l.rd, l.rs1, 0, 0)
  ELSE IF l.m = "neg" THEN Real("sub", l.rd, 0, l.rs1, 0)
  ELSE IF l.m = "jr" THEN Real("jalr", 0, l.rs1, 0, 0)
  ELSE IF l.m = "ret" THEN Real("jalr", 0, 1, 0, 0)
  ELSE IF l.m \in {"bgt", "bgtu"} THEN Real("blt", 0, l.rs2, l.rs1, l.imm)
  ELSE Real("bge", 0, l.rs2, l.rs1, l.imm)

Known == R_instr \cup I_instr \cup S_instr \cup SB_instr \cup U_instr \cup UJ_instr

\* A line that is no instruction known here is passed on as it stands, and is
\* then no number in base 2: the assembler stops.
NotAWord == {-1}
InterpretReal(l) ==
  IF l.m \in R_instr THEN R_type(l)
  ELSE IF l.m \in I_instr THEN I_type(l)
  ELSE IF l.m \in S_instr THEN S_type(l)
  ELSE IF l.m \in SB_instr THEN SB_type(l)
  ELSE IF l.m \in U_instr THEN U_type(l)
  ELSE IF l.m \in UJ_instr THEN UJ_type(l)
  ELSE NotAWord
Interpret(l) ==
  InterpretReal(IF l.m \in handled_pseudo THEN Expanded(l) ELSE l)

-----------------------------------------------------------------------------
(* The cores.                                                              *)

SignExtended(bits, sign) == bits \cup (IF sign \in bits THEN sign .. 31 ELSE {})

imm12_I(w) == SignExtended(Slice(w, 31, 20), 11)
imm12_S(w) == SignExtended(Put(Slice(w, 31, 25), 5) \cup Slice(w, 11, 7), 11)
imm13(w) == SignExtended(Put(Slice(w, 31, 31), 12) \cup Put(Slice(w, 30, 25), 5)
              \cup Put(Slice(w, 11, 8), 1) \cup Put(Slice(w, 7, 7), 11), 12)
imm31_12(w) == Put(Slice(w, 31, 12), 12)
imm21_1(w) == SignExtended(Put(Slice(w, 19, 12), 12) \cup Put(Slice(w, 20, 20), 11)
              \cup Put(Slice(w, 30, 21), 1) \cup Put(Slice(w, 31, 31), 20), 20)

\* The major opcodes of riscvISA.h.
OpCodeOf(w) ==
  LET opCode == Slice(w, 6, 0)
  IN  IF opCode = Bits(55, 7) THEN "LUI"
      ELSE IF opCode = Bits(23, 7) THEN "AUIPC"
      ELSE IF opCode = Bits(111, 7) THEN "JAL"
      ELSE IF opCode = Bits(103, 7) THEN "JALR"
      ELSE IF opCode = Bits(99, 7) THEN "BR"
      ELSE IF opCode = Bits(3, 7) THEN "LD"
      ELSE IF opCode = Bits(35, 7) THEN "ST"
      ELSE IF opCode = Bits(19, 7) THEN "OPI"
      ELSE IF opCode = Bits(51, 7) THEN "OP"
      ELSE "NONE"

Immediate(op, w) ==
  IF op \in {"LUI", "AUIPC"} THEN imm31_12(w)
  ELSE IF op = "JAL" THEN imm21_1(w)
  ELSE IF op = "BR" THEN imm13(w)
  ELSE IF op = "ST" THEN imm12_S(w)
  ELSE IF op \in {"JALR", "LD", "OPI"} THEN imm12_I(w)
  ELSE {}

Decode(w) ==
  LET op == OpCodeOf(w)
  IN  [op |-> op, f3 |-> Slice(w, 14, 12), f7 |-> Slice(w, 31, 25),
       rd |-> Slice(w, 11, 7), rs1 |-> Slice(w, 19, 15), rs2 |-> Slice(w, 24, 20),
       imm |-> Immediate(op, w)]

-----------------------------------------------------------------------------
Init == line = [m |-> "add", rd |-> 0, rs1 |-> 0, rs2 |-> 0, imm |-> 0]

Next ==
  \/ \E m \in Mnemonics : line' = [line EXCEPT !.m = m]
  \/ \E t \in RegisterTriples :
       line' = [line EXCEPT !.rd = t[1], !.rs1 = t[2], !.rs2 = t[3]]
  \/ \E k \in Immediates : line' = [line EXCEPT !.imm = k]

Spec == Init /\ [][Next]_line

-----------------------------------------------------------------------------
(* What a line means.                                                      *)

\* The names of riscvISA.h: RISCV_OP_SLTU, RISCV_LD_LBU, ...
Loads == {"lb", "lh", "lw", "lbu", "lhu"}
Operation(m) ==
  IF m \in R_instr THEN "OP"
  ELSE IF m = "jalr" THEN "JALR"
  ELSE IF m \in Loads THEN "LD"
  ELSE IF m \in I_instr THEN "OPI"
  ELSE IF m \in S_instr THEN "ST"
  ELSE IF m \in SB_instr THEN "BR"
  ELSE IF m = "lui" THEN "LUI"
  ELSE IF m = "auipc" THEN "AUIPC"
  ELSE "JAL"
Funct3Of(m) ==
  IF m \in {"add", "sub", "mul", "addi", "lb", "sb", "beq", "jalr"} THEN 0
  ELSE IF m \in {"sll", "slli", "mulh", "lh", "sh", "bne"} THEN 1
  ELSE IF m \in {"slt", "slti", "mulsu", "lw", "sw"} THEN 2
  ELSE IF m \in {"sltu", "sltiu", "mulu"} THEN 3
  ELSE IF m \in {"xor", "xori", "div", "lbu", "blt"} THEN 4
  ELSE IF m \in {"srl", "sra", "srli", "srai", "divu", "lhu", "bge"} THEN 5
  ELSE IF m \in {"or", "ori", "rem", "bltu"} THEN 6
  ELSE 7   \* and, andi, remu, bgeu
IsMultiplication(m) == m \in {"mul", "mulh", "mulsu", "mulu", "div", "divu", "rem", "remu"}
IsAlternative(m) == m \in {"sub", "sra", "srai"}

Word32(x) == {n \in 0 .. 30 : (x \div Weight[n]) % 2 = 1} \cup (IF x < 0 THEN {31} ELSE {})

\* What the format can hold; li leaves the twelve bits of a negative immediate
\* as a positive number.
InRange(m, k) ==
  IF m \in non_imm_ins THEN k \in 0 .. 31
  ELSE IF m \in SB_instr THEN k % 2 = 0 /\ k \in -Weight[12] .. (Weight[12] - 1)
  ELSE IF m \in UJ_instr THEN k % 2 = 0 /\ k \in -Weight[20] .. (Weight[20] - 1)
  ELSE IF m \in U_instr THEN k \in 0 .. (Weight[20] - 1)
  ELSE IF m = "addi" THEN k \in -Weight[11] .. (Weight[12] - 1)
  ELSE m \in I_instr \cup S_instr => k \in -Weight[11] .. (Weight[11] - 1)

\* Whatever the format, the cores decode from a line's word the operation, the
\* registers and the immediate that the line names: no bit of the five
\* immediate formats is misplaced by either side, no mnemonic has another
\* one's codes, and a sign reaches all 32 bits.
DecodesAsWritten ==
  LET i == Decode(Interpret(line))
      m == line.m
      op == Operation(m)
  IN  m \in Known /\ InRange(m, line.imm) =>
        /\ i.op = op
        /\ op \notin {"LUI", "AUIPC", "JAL"} => i.f3 = Bits(Funct3Of(m), 3)
        /\ op = "OP" \/ m \in non_imm_ins =>
             i.f7 = IF IsMultiplication(m) THEN {0}
                    ELSE IF IsAlternative(m) THEN {5} ELSE {}
        /\ op \notin {"ST", "BR"} => i.rd = Bits(line.rd, 5)
        /\ op \notin {"LUI", "AUIPC", "JAL"} => i.rs1 = Bits(line.rs1, 5)
        /\ op \in {"OP", "ST", "BR"} => i.rs2 = Bits(line.rs2, 5)
        /\ m \in non_imm_ins => i.rs2 = Bits(line.imm, 5)
        /\ op \in {"LUI", "AUIPC"} => i.imm = Put(Bits(line.imm, 20), 12)
        /\ op \in {"JAL", "JALR", "BR", "LD", "ST"} => i.imm = Word32(line.imm)
        /\ op = "OPI" /\ m \notin non_imm_ins =>
             i.imm = Word32(IF line.imm >= Weight[11] THEN line.imm - Weight[12]
                          ELSE line.imm)

\* The pseudo-instructions as the RISC-V assembler's manual defines them.
Manual(l) ==
  IF l.m = "bgtu" THEN Real("bltu", 0, l.rs2, l.rs1, l.imm)
  ELSE IF l.m = "bleu" THEN Real("bgeu", 0, l.rs2, l.rs1, l.imm)
  ELSE IF l.m = "bgt" THEN Real("blt", 0, l.rs2, l.rs1, l.imm)
  ELSE IF l.m = "ble" THEN Real("bge", 0, l.rs2, l.rs1, l.imm)
  ELSE IF l.m = "neg" THEN Real("sub", l.rd, 0, l.rs1, 0)
  ELSE IF l.m = "mv" THEN Real("addi", l.rd, l.rs1, 0, 0)
  ELSE IF l.m = "nop" THEN Real("addi", 0, 0, 0, 0)
  ELSE IF l.m = "j" THEN Real("jal", 0, 0, 0, l.imm)
  ELSE IF l.m = "jr" THEN Real("jalr", 0, l.rs1, 0, 0)
  ELSE Real("jalr", 0, 1, 0, 0)   \* ret

\* A pseudo-instruction is decoded as the instruction that the manual gives
\* for it, with its operands where that has them.
PseudoAsNamed ==
  line.m \in handled_pseudo =>
    Decode(Interpret(line)) = Decode(InterpretReal(Manual(line)))

\* All are but bgtu and bleu: operands change places and zeros are filled in
\* where the real instruction has them.
PseudoButUnsigned == line.m \in {"bgtu", "bleu"} \/ PseudoAsNamed
=============================================================================
