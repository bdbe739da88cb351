---------------------------- MODULE Instructions ----------------------------
(***************************************************************************)
(* Decoded instructions by their names in assembly, and programs made of   *)
(* them. Distances of jumps and branches are in instructions.              *)
(***************************************************************************)
EXTENDS RiscvISA, Sequences

Ins(op, f3, f7, rd, rs1, rs2, imm) ==
  [op |-> op, f3 |-> f3, f7 |-> f7, rd |-> rd, rs1 |-> rs1, rs2 |-> rs2,
   imm |-> imm % Modulus]

lui(rd, k)        == Ins("LUI", 0, 0, rd, 0, 0, k)
auipc(rd, k)      == Ins("AUIPC", 0, 0, rd, 0, 0, k)
addi(rd, a, k)    == Ins("OPI", 0, 0, rd, a, 0, k)
add(rd, a, b)     == Ins("OP", 0, 0, rd, a, b, 0)
sub(rd, a, b)     == Ins("OP", 0, 32, rd, a, b, 0)
slt(rd, a, b)     == Ins("OP", 2, 0, rd, a, b, 0)
lw(rd, a, k)      == Ins("LD", 2, 0, rd, a, 0, k)
lb(rd, a, k)      == Ins("LD", 0, 0, rd, a, 0, k)
sw(b, a, k)       == Ins("ST", 2, 0, k, a, b, k)  \* rd: bits of imm
beq(a, b, k)      == Ins("BR", 0, 0, 0, a, b, InstrBytes * k)
bne(a, b, k)      == Ins("BR", 1, 0, 0, a, b, InstrBytes * k)
blt(a, b, k)      == Ins("BR", 4, 0, 0, a, b, InstrBytes * k)
jal(rd, k)        == Ins("JAL", 0, 0, rd, 0, 0, InstrBytes * k)
jalr(rd, a, k)    == Ins("JALR", 0, 0, rd, a, 0, k)
mul(rd, a, b)     == Ins("OP", 0, 1, rd, a, b, 0)
mulh(rd, a, b)    == Ins("OP", 1, 1, rd, a, b, 0)
div(rd, a, b)     == Ins("OP", M_DIV, 1, rd, a, b, 0)
divu(rd, a, b)    == Ins("OP", M_DIVU, 1, rd, a, b, 0)
rem(rd, a, b)     == Ins("OP", M_REM, 1, rd, a, b, 0)
remu(rd, a, b)    == Ins("OP", M_REMU, 1, rd, a, b, 0)
printf            == Ins("JALR", 1, 0, 0, 0, 0, 0)
fence             == Ins("MISC_MEM", 0, 0, 0, 0, 0, 0)
mv(rd, a)         == addi(rd, a, 0)
li(rd, k)         == addi(rd, 0, k)
ret               == jalr(0, 1, 0)

\* A program: a sequence from PC_STARTADDR on, and ret in every other word.
First == PC_STARTADDR \div InstrBytes
Image(s) == [a \in Word |->
               LET n == a - First + 1
               IN  IF n \in 1 .. Len(s) THEN s[n] ELSE ret]
=============================================================================
