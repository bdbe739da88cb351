----------------------------- MODULE ScalarCore -----------------------------
(***************************************************************************)
(* The scalar core of scalar/scriscv_scalar.cpp with its two memories: one *)
(* thread that fetches, decodes, executes and only then fetches again,     *)
(* with a wait() wherever a memory has to answer. The core runs at the     *)
(* rising edge of the clock and the memories at the falling edge; an edge  *)
(* is one step, and "at" is the wait() at which the core stands.           *)
(*                                                                         *)
(* Left out: the signals of the instruction memory no thread reads         *)
(* (imem_mask, imem_opType, imem_dataIn, imem_addOut, stallIm).            *)
(***************************************************************************)
EXTENDS RiscvISA

VARIABLES
  phase,         \* which edge of the clock comes next
  imem,          \* i_data[]
  at,            \* where core waits
  pc,
  instruction,
  regs,
  imem_address,
  instruction_ft,
  req,           \* dmem_opType, dmem_mask (as funct3), dmem_address, dmem_dataIn
  dmem,          \* d_data[]
  dmem_dataOut,
  stallDm,
  out            \* the standard output

vars == <<phase, imem, at, pc, instruction, regs, imem_address, instruction_ft,
          req, dmem, dmem_dataOut, stallDm, out>>

\* The wait()s of core, in the order of the loop; "head" is the last of an
\* instruction's, from which the loop is entered again.
Waits == {"head", "fetch", "decode", "load", "store", "halted"}

\* Registers, requests and answers keep their types: what core computes,
\* divisions included, stays within a register.
TypeOK ==
  /\ phase \in {"pos", "neg"}
  /\ IsProgram(imem)
  /\ at \in Waits
  /\ pc \in Word
  /\ instruction \in Instr
  /\ regs \in [Reg -> Word]
  /\ imem_address \in Word
  /\ instruction_ft \in Instr
  /\ req \in [opType : {"NONE", "LOAD", "STORE"}, f3 : Funct3,
              address : Word, dataIn : Word]
  /\ dmem \in [Word -> Word]
  /\ dmem_dataOut \in Word
  /\ stallDm \in BOOLEAN
  /\ out \in Line

InitRegs == [r \in Reg |-> IF r = 1 THEN RAADDRESS
                           ELSE IF r = 2 THEN STACK_INIT ELSE 0]

core_reset ==
  /\ at = "head"
  /\ pc = PC_STARTADDR
  /\ instruction = NoInstr
  /\ regs = InitRegs
  /\ imem_address = PC_STARTADDR
  /\ req = [opType |-> "NONE", f3 |-> 0, address |-> 0, dataIn |-> 0]
  /\ out = [count |-> 0, last |-> 0]
icache_reset == imem \in Programs /\ instruction_ft = NoInstr

\* dcache has no reset section: its outputs are those of the elaboration.
dcache_reset == dmem = DMEM_INIT /\ dmem_dataOut = 0 /\ stallDm = FALSE

\* The test bench releases the reset at the time of a falling edge, so either
\* edge may come first.
Init ==
  /\ phase \in {"pos", "neg"}
  /\ core_reset /\ icache_reset /\ dcache_reset

\* The operators named Name_Variant are not the code's: each is what Name
\* would be under a plausible mistake, and shows that a property sees it.

-----------------------------------------------------------------------------
(* What core computes from the instruction it has read.                    *)

valueReg1 == regs[instruction.rs1]
valueReg2 == regs[instruction.rs2]
NextPc == Add(pc, InstrBytes)
JumpsToReg == instruction.op = "JALR" /\ instruction.f3 = 0

WritesRd == \/ instruction.op \in {"LUI", "AUIPC", "JAL", "OPI", "OP"}
            \/ JumpsToReg

Result ==
  IF instruction.op = "LUI" THEN instruction.imm
  ELSE IF instruction.op = "AUIPC" THEN Add(pc, instruction.imm)
  ELSE IF instruction.op = "OPI"
       THEN OpiAlu(instruction.f3, instruction.f7, valueReg1, instruction.imm)
  ELSE IF instruction.op = "OP" THEN OpResult(instruction, valueReg1, valueReg2)
  ELSE NextPc

\* insbranch, and the address it branches to.
BranchPc ==
  IF instruction.op = "JAL" THEN Add(pc, instruction.imm)
  ELSE IF JumpsToReg THEN Add(instruction.imm, valueReg1)
  ELSE IF /\ instruction.op = "BR"
          /\ Compare(instruction.f3, valueReg1, valueReg2)
  THEN Add(pc, instruction.imm)
  ELSE NextPc

Request(opType) ==
  [opType |-> opType, f3 |-> instruction.f3,
   address |-> Add(valueReg1, instruction.imm),
   dataIn |-> IF opType = "STORE" THEN valueReg2 ELSE req.dataIn]

Withdrawn == [req EXCEPT !.opType = "NONE"]

-----------------------------------------------------------------------------
(* core, from one wait() to the next.                                      *)

\* The head of the loop: regs[0] = 0, and the end of the program or a fetch.
LoopHead_KeepsX0 ==
  /\ at = "head"
  /\ IF pc = RAADDRESS
     THEN at' = "halted" /\ UNCHANGED imem_address
     ELSE at' = "fetch" /\ imem_address' = pc
  /\ UNCHANGED <<pc, instruction, regs, req, out>>

LoopHead_ReadsAtOnce ==
  /\ at = "head"
  /\ regs' = [regs EXCEPT ![0] = 0]
  /\ IF pc = RAADDRESS
     THEN at' = "halted" /\ UNCHANGED <<imem_address, instruction>>
     ELSE at' = "decode" /\ imem_address' = pc /\ instruction' = instruction_ft
  /\ UNCHANGED <<pc, req, out>>

LoopHead ==
  /\ at = "head"
  /\ regs' = [regs EXCEPT ![0] = 0]
  /\ IF pc = RAADDRESS
     THEN at' = "halted" /\ UNCHANGED imem_address
     ELSE at' = "fetch" /\ imem_address' = pc
  /\ UNCHANGED <<pc, instruction, req, out>>

Fetch ==
  /\ at = "fetch" /\ at' = "decode"
  /\ instruction' = instruction_ft
  /\ UNCHANGED <<pc, regs, imem_address, req, out>>

\* Every instruction but a load or a store is over at once.
Execute ==
  /\ at = "decode" /\ instruction.op \notin {"LD", "ST"}
  /\ at' = "head"
  /\ regs' = IF WritesRd THEN [regs EXCEPT ![instruction.rd] = Result] ELSE regs
  /\ pc' = BranchPc
  /\ out' = IF IsPrint(instruction) THEN Printed(out, regs[PrintReg]) ELSE out
  /\ UNCHANGED <<instruction, imem_address, req>>

StartLoad ==
  /\ at = "decode" /\ instruction.op = "LD"
  /\ at' = "load" /\ req' = Request("LOAD")
  /\ UNCHANGED <<pc, instruction, regs, imem_address, out>>

StartStore ==
  /\ at = "decode" /\ instruction.op = "ST"
  /\ at' = "store" /\ req' = Request("STORE")
  /\ UNCHANGED <<pc, instruction, regs, imem_address, out>>

\* do wait(); while (stallDm.read());
EndLoad ==
  /\ at = "load"
  /\ IF stallDm THEN UNCHANGED <<at, regs, req, pc>>
     ELSE /\ at' = "head"
          /\ regs' = [regs EXCEPT ![instruction.rd] = dmem_dataOut]
          /\ req' = Withdrawn
          /\ pc' = NextPc
  /\ UNCHANGED <<instruction, imem_address, out>>

EndStore_LeavesRequest ==
  /\ at = "store" /\ at' = "head"
  /\ pc' = NextPc
  /\ UNCHANGED <<instruction, regs, imem_address, req, out>>

EndStore ==
  /\ at = "store" /\ at' = "head"
  /\ req' = Withdrawn
  /\ pc' = NextPc
  /\ UNCHANGED <<instruction, regs, imem_address, out>>

\* while (1) wait(): the simulation exits here.
Stopped ==
  /\ at = "halted"
  /\ UNCHANGED <<at, pc, instruction, regs, imem_address, req, out>>

core == \/ LoopHead \/ Fetch \/ Execute \/ StartLoad \/ StartStore
        \/ EndLoad \/ EndStore \/ Stopped

Posedge ==
  /\ phase = "pos" /\ phase' = "neg"
  /\ core
  /\ UNCHANGED <<imem, instruction_ft, dmem, dmem_dataOut, stallDm>>

-----------------------------------------------------------------------------
(* The memories, at the falling edge.                                      *)

icache == instruction_ft' = imem[imem_address \div InstrBytes]

\* A load lowers stallDm, everything else raises it.
dcache_LowersForWords ==
  \/ /\ req.opType = "LOAD"
     /\ dmem_dataOut' = ReadMem(dmem, req.f3, req.address)
     /\ stallDm' = (req.f3 # 2)
     /\ UNCHANGED dmem
  \/ /\ req.opType = "STORE"
     /\ dmem' = WriteMem(dmem, req.f3, req.address, req.dataIn)
     /\ stallDm' = TRUE
     /\ UNCHANGED dmem_dataOut
  \/ /\ req.opType = "NONE"
     /\ stallDm' = TRUE
     /\ UNCHANGED <<dmem, dmem_dataOut>>

dcache ==
  \/ /\ req.opType = "LOAD"
     /\ dmem_dataOut' = ReadMem(dmem, req.f3, req.address)
     /\ stallDm' = FALSE
     /\ UNCHANGED dmem
  \/ /\ req.opType = "STORE"
     /\ dmem' = WriteMem(dmem, req.f3, req.address, req.dataIn)
     /\ stallDm' = TRUE
     /\ UNCHANGED dmem_dataOut
  \/ /\ req.opType = "NONE"
     /\ stallDm' = TRUE
     /\ UNCHANGED <<dmem, dmem_dataOut>>

Negedge ==
  /\ phase = "neg" /\ phase' = "pos"
  /\ icache /\ dcache
  /\ UNCHANGED <<imem, at, pc, instruction, regs, imem_address, req, out>>

-----------------------------------------------------------------------------
Next == Posedge \/ Negedge

Spec == Init /\ [][Next]_vars

\* The clock does not stop.
FairSpec == Spec /\ WF_vars(Next)
=============================================================================
