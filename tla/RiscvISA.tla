------------------------------ MODULE RiscvISA ------------------------------
(***************************************************************************)
(* What both cores share: the words, the registers, the decoded form of an *)
(* instruction, and the parameters of riscvISA.h and of the two headers    *)
(* (PC_STARTADDR, STACK_INIT, RAADDRESS).                                  *)
(*                                                                         *)
(* The data path is a parameter: OpiAlu, OpAlu, Compare and MulAlu are the *)
(* combinational results of the OPI, OP, BR and MUL* instructions, Extract *)
(* and Insert the lane of a data word that a mask and an address select.   *)
(* Everything the control of a core does must be right for every such      *)
(* data path, and the proofs are about every one of them.                  *)
(***************************************************************************)
EXTENDS Integers

CONSTANTS
  Modulus,            \* 2^32 in the code: the number of values of a word
  InstrBytes,         \* 4 in the code: pc + 4, addr >> 2
  DataBytes,          \* 4 in the code: data[addr >> 2]
  NumReg,             \* 32 in the code
  PrintReg,           \* 11 in the code: the argument register of a print
  PrintMod,           \* bound of the count of printed lines (not in the code)
  PC_STARTADDR, STACK_INIT, RAADDRESS,
  Programs,           \* the contents of imem.txt that are considered
  DMEM_INIT,          \* the content of dmem.txt
  OpiAlu(_, _, _, _), \* funct3, funct7, lhs, rhs
  OpAlu(_, _, _, _),
  Compare(_, _, _),   \* funct3, lhs, rhs
  MulAlu(_, _, _),
  Extract(_, _, _),   \* mask, the byte of the word addressed, the word
  Insert(_, _, _, _)  \* the same, and the data

Word == 0 .. (Modulus - 1)
Reg == 0 .. (NumReg - 1)
Funct3 == 0 .. 7
Funct7 == {0, 1, 32}
OpCode == {"NONE", "LUI", "AUIPC", "JAL", "JALR", "BR", "LD", "ST", "OPI",
           "OP", "MISC_MEM", "SYSTEM"}
MemMask == {"BYTE", "HALF", "WORD", "BYTE_U", "HALF_U"}

\* An instruction word, its fields taken apart; imm is the sign-extended
\* immediate of its format.
Instr == [op : OpCode, f3 : Funct3, f7 : Funct7,
          rd : Reg, rs1 : Reg, rs2 : Reg, imm : Word]

\* The word 0, which no operation code matches.
NoInstr == [op |-> "NONE", f3 |-> 0, f7 |-> 0,
            rd |-> 0, rs1 |-> 0, rs2 |-> 0, imm |-> 0]

Line == [count : 0 .. (PrintMod - 1), last : Word]

ASSUME SizesAssumption ==
  /\ Modulus \in Nat /\ Modulus >= 8
  /\ InstrBytes \in 1 .. (Modulus - 1)
  /\ DataBytes \in 1 .. (Modulus - 1)
  /\ NumReg \in Nat /\ NumReg >= 3
  /\ PrintReg \in Reg
  /\ PrintMod \in Nat \ {0}
  /\ PC_STARTADDR \in Word /\ STACK_INIT \in Word /\ RAADDRESS \in Word
  /\ PC_STARTADDR # RAADDRESS

\* A program: the assembler gives a custom instruction (JALR, funct3 # 0)
\* the destination x0.
IsProgram(p) ==
  /\ p \in [Word -> Instr]
  /\ \A a \in Word : p[a].op = "JALR" /\ p[a].f3 # 0 => p[a].rd = 0

ASSUME ProgramsAssumption == \A p \in Programs : IsProgram(p)

ASSUME MemoryAssumption ==
  /\ DMEM_INIT \in [Word -> Word]
  /\ \A k \in MemMask, l \in 0 .. (DataBytes - 1), w \in Word :
       /\ Extract(k, l, w) \in Word
       /\ \A d \in Word : Insert(k, l, w, d) \in Word

ASSUME AluAssumption ==
  \A f3 \in Funct3, a, b \in Word :
    /\ \A f7 \in Funct7 : /\ OpiAlu(f3, f7, a, b) \in Word
                          /\ OpAlu(f3, f7, a, b) \in Word
    /\ Compare(f3, a, b) \in BOOLEAN
    /\ MulAlu(f3, a, b) \in Word

-----------------------------------------------------------------------------
(* Arithmetic of sc_int<32> and sc_uint<32>.                               *)

Wrap(n) == n % Modulus
Add(a, b) == Wrap(a + b)
Neg(a) == Wrap(Modulus - a)
IsNeg(a) == 2 * a >= Modulus
Signed(a) == IF IsNeg(a) THEN a - Modulus ELSE a
Mag(a) == IF IsNeg(a) THEN Neg(a) ELSE a
SignedIf_Unbounded(neg, a) == IF neg THEN -a ELSE a
SignedIf(neg, a) == IF neg THEN Neg(a) ELSE a

MinInt == Modulus \div 2          \* 0x80000000
OverflowDivisor == Modulus - 4    \* 0xfffffffc

-----------------------------------------------------------------------------
(* Decoding.                                                               *)

IsM(i) == i.op = "OP" /\ i.f7 = 1
IsPrint(i) == i.op = "JALR" /\ i.f3 = 1
M_DIV == 4
M_DIVU == 5
M_REM_AsRemu == 7
M_REM == 6
M_REMU == 7
IsDivision(f3) == f3 \in {M_DIV, M_DIVU, M_REM, M_REMU}
IsSignedDivision(f3) == f3 \in {M_DIV, M_REM}

\* The M extension's divisions; the quotient is found by restoring division
\* of the magnitudes.
Division(f3, a, b) ==
  IF b = 0 THEN IF f3 \in {M_DIV, M_DIVU} THEN Wrap(-1) ELSE a
  ELSE IF IsSignedDivision(f3) /\ a = MinInt /\ b = OverflowDivisor
       THEN IF f3 = M_DIV THEN MinInt ELSE 0
  ELSE IF f3 = M_DIV THEN SignedIf(IsNeg(a) # IsNeg(b), Mag(a) \div Mag(b))
  ELSE IF f3 = M_DIVU THEN a \div b
  ELSE IF f3 = M_REM THEN SignedIf(IsNeg(a), Mag(a) % Mag(b))
  ELSE a % b

\* The result of an OP instruction on operands a and b.
OpResult(i, a, b) ==
  IF ~IsM(i) THEN OpAlu(i.f3, i.f7, a, b)
  ELSE IF IsDivision(i.f3) THEN Division(i.f3, a, b)
  ELSE MulAlu(i.f3, a, b)

\* A memory access of each width: the mask that mems computes from funct3.
MaskOf(f3) == IF f3 = 0 THEN "BYTE"
              ELSE IF f3 = 1 THEN "HALF"
              ELSE IF f3 = 4 THEN "BYTE_U"
              ELSE IF f3 = 5 THEN "HALF_U"
              ELSE "WORD"

Cell(a) == a \div DataBytes
Lane(a) == a % DataBytes
ReadMem(m, f3, a) == Extract(MaskOf(f3), Lane(a), m[Cell(a)])
WriteMem(m, f3, a, d) ==
  [m EXCEPT ![Cell(a)] = Insert(MaskOf(f3), Lane(a), m[Cell(a)], d)]

\* What a print adds to the output.
Printed(o, v) == [count |-> (o.count + 1) % PrintMod, last |-> v]
=============================================================================
