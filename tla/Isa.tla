-------------------------------- MODULE Isa --------------------------------
(***************************************************************************)
(* The machine a program is written for: one instruction at a time, in     *)
(* program order. It is the loop of the scalar core (riscv_core::core of   *)
(* scalar/scriscv_scalar.cpp) with its memory handshakes taken as single   *)
(* steps, and the specification the five-stage pipeline has to implement.  *)
(***************************************************************************)
EXTENDS RiscvISA

VARIABLES
  imem,   \* the program, i_data[]
  pc,
  regs,
  mem,    \* d_data[]
  out     \* what has been printed

vars == <<imem, pc, regs, mem, out>>

\* The state of the loop of core: its local variables and the two memories.
TypeOK ==
  /\ IsProgram(imem)
  /\ pc \in Word
  /\ regs \in [Reg -> Word]
  /\ mem \in [Word -> Word]
  /\ out \in Line

InitRegs == [r \in Reg |-> IF r = 1 THEN RAADDRESS
                           ELSE IF r = 2 THEN STACK_INIT ELSE 0]

Init ==
  /\ IsProgram(imem)
  /\ pc = PC_STARTADDR
  /\ regs = InitRegs
  /\ mem = DMEM_INIT
  /\ out = [count |-> 0, last |-> 0]

-----------------------------------------------------------------------------
Halted == pc = RAADDRESS
ins == imem[pc \div InstrBytes]
valueReg1 == regs[ins.rs1]
valueReg2 == regs[ins.rs2]
NextPc == Add(pc, InstrBytes)

\* regs[rd] = v, and regs[0] = 0 at the head of the loop.
SetRd(v) == regs' = [regs EXCEPT ![ins.rd] = IF ins.rd = 0 THEN 0 ELSE v]

Fallthrough == pc' = NextPc

Compute ==
  /\ \/ ins.op = "LUI"   /\ SetRd(ins.imm)
     \/ ins.op = "AUIPC" /\ SetRd(Add(pc, ins.imm))
     \/ ins.op = "OPI"   /\ SetRd(OpiAlu(ins.f3, ins.f7, valueReg1, ins.imm))
     \/ ins.op = "OP"    /\ SetRd(OpResult(ins, valueReg1, valueReg2))
  /\ Fallthrough
  /\ UNCHANGED <<mem, out>>

Load ==
  /\ ins.op = "LD"
  /\ SetRd(ReadMem(mem, ins.f3, Add(valueReg1, ins.imm)))
  /\ Fallthrough
  /\ UNCHANGED <<mem, out>>

Store ==
  /\ ins.op = "ST"
  /\ mem' = WriteMem(mem, ins.f3, Add(valueReg1, ins.imm), valueReg2)
  /\ Fallthrough
  /\ UNCHANGED <<regs, out>>

JumpAndLink ==
  /\ \/ ins.op = "JAL" /\ pc' = Add(pc, ins.imm)
     \/ ins.op = "JALR" /\ ins.f3 = 0 /\ pc' = Add(ins.imm, valueReg1)
  /\ SetRd(NextPc)
  /\ UNCHANGED <<mem, out>>

Branch ==
  /\ ins.op = "BR"
  /\ pc' = IF Compare(ins.f3, valueReg1, valueReg2)
           THEN Add(pc, ins.imm) ELSE NextPc
  /\ UNCHANGED <<regs, mem, out>>

Printf ==
  /\ IsPrint(ins)
  /\ out' = Printed(out, regs[PrintReg])
  /\ Fallthrough
  /\ UNCHANGED <<regs, mem>>

\* Operation codes without a case, and the custom instructions that do nothing.
Ignore ==
  /\ \/ ins.op \in {"NONE", "MISC_MEM", "SYSTEM"}
     \/ ins.op = "JALR" /\ ins.f3 > 1
  /\ Fallthrough
  /\ UNCHANGED <<regs, mem, out>>

Execute == Compute \/ Load \/ Store \/ JumpAndLink \/ Branch \/ Printf \/ Ignore

Next == ~Halted /\ Execute /\ UNCHANGED imem

Spec == Init /\ [][Next]_vars
=============================================================================
