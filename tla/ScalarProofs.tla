---------------------------- MODULE ScalarProofs ----------------------------
(***************************************************************************)
(* The scalar core implements Isa, for every word size, every data path    *)
(* and every program. The invariant Current says that the word in hand is  *)
(* the one stored at pc, Handshake that the answer taken from the data     *)
(* memory is the answer to the request made; with both, each edge is one   *)
(* step of Isa or none.                                                    *)
(***************************************************************************)
EXTENDS ScalarRefinement, RiscvLemmas

-----------------------------------------------------------------------------
(* Types.                                                                  *)

\* The reset leaves every register of the core in its type.
LEMMA InitTyped == Init => TypeOK
<1> SUFFICES ASSUME Init PROVE TypeOK
  OBVIOUS
<1>1. IsProgram(imem)
  BY ProgramsAssumption DEF Init, icache_reset
<1>2. 0 \in Word /\ 0 \in Reg /\ PC_STARTADDR \in Word
  BY ParametersInWord, SizesAssumption DEF Reg
<1>3. NoInstr \in Instr
  BY <1>2 DEF NoInstr, Instr, OpCode, Funct3, Funct7
<1>4. regs \in [Reg -> Word]
  BY <1>2, SizesAssumption DEF Init, core_reset, InitRegs
<1>5. out \in Line
  <2>1. 0 \in 0 .. (PrintMod - 1)
    BY SizesAssumption
  <2> QED
    BY <1>2, <2>1 DEF Init, core_reset, Line
<1>6. dmem \in [Word -> Word]
  BY MemoryAssumption DEF Init, dcache_reset
<1> QED
  <2>1. req \in [opType : {"NONE", "LOAD", "STORE"}, f3 : Funct3,
                 address : Word, dataIn : Word]
    BY <1>2 DEF Init, core_reset, Funct3
  <2> QED
    BY <1>1, <1>2, <1>3, <1>4, <1>5, <1>6, <2>1
    DEF Init, core_reset, icache_reset, dcache_reset, TypeOK, Waits

\* Everything core computes from the instruction in hand has its type.
LEMMA ValuesTyped ==
  ASSUME TypeOK
  PROVE  /\ instruction.rd \in Reg /\ instruction.f3 \in Funct3
         /\ valueReg1 \in Word /\ valueReg2 \in Word /\ NextPc \in Word
         /\ Add(valueReg1, instruction.imm) \in Word
         /\ Result \in Word /\ BranchPc \in Word
<1>1. /\ instruction \in Instr /\ instruction.imm \in Word
      /\ instruction.rd \in Reg /\ instruction.rs1 \in Reg /\ instruction.rs2 \in Reg
      /\ instruction.f3 \in Funct3 /\ instruction.f7 \in Funct7
  BY DEF TypeOK, Instr
<1>2. valueReg1 \in Word /\ valueReg2 \in Word /\ pc \in Word
  BY <1>1 DEF TypeOK, valueReg1, valueReg2
<1>3. /\ NextPc \in Word /\ Add(pc, instruction.imm) \in Word
      /\ Add(valueReg1, instruction.imm) \in Word
      /\ Add(instruction.imm, valueReg1) \in Word
  BY <1>1, <1>2, AddInWord, ParametersInWord DEF NextPc
<1>4. /\ OpiAlu(instruction.f3, instruction.f7, valueReg1, instruction.imm) \in Word
      /\ OpResult(instruction, valueReg1, valueReg2) \in Word
  BY <1>1, <1>2, AluAssumption, OpResultInWord
<1>5. Result \in Word
  BY <1>1, <1>3, <1>4 DEF Result
<1>6. BranchPc \in Word
  BY <1>3 DEF BranchPc
<1> QED
  BY <1>1, <1>2, <1>3, <1>5, <1>6

\* A print keeps the type of the output.
LEMMA PrintedTyped ==
  ASSUME NEW o \in Line, NEW v \in Word PROVE Printed(o, v) \in Line
BY SizesAssumption DEF Printed, Line

\* The rising edge: one step for each wait() of core.
LEMMA CoreTyped == ASSUME TypeOK, Posedge PROVE TypeOK'
<1>1. /\ regs \in [Reg -> Word] /\ pc \in Word /\ instruction_ft \in Instr
      /\ out \in Line /\ dmem_dataOut \in Word /\ imem_address \in Word
      /\ req \in [opType : {"NONE", "LOAD", "STORE"}, f3 : Funct3,
                  address : Word, dataIn : Word]
  BY DEF TypeOK
<1>2. 0 \in Word /\ 0 \in Reg /\ PrintReg \in Reg
  BY ParametersInWord, SizesAssumption DEF Reg
<1>3. Withdrawn \in [opType : {"NONE", "LOAD", "STORE"}, f3 : Funct3,
                     address : Word, dataIn : Word]
  BY <1>1 DEF Withdrawn
<1>4. UNCHANGED <<imem, instruction_ft, dmem, dmem_dataOut, stallDm>> /\ phase' = "neg"
  BY DEF Posedge
<1>5. CASE LoopHead
  BY <1>1, <1>2, <1>4, <1>5 DEF LoopHead, TypeOK, Waits, IsProgram
<1>6. CASE Fetch
  BY <1>1, <1>4, <1>6 DEF Fetch, TypeOK, Waits, IsProgram
<1>7. CASE Execute
  <2>1. regs' \in [Reg -> Word] /\ pc' \in Word
    BY <1>1, <1>7, ValuesTyped DEF Execute
  <2>2. out' \in Line
    BY <1>1, <1>2, <1>7, PrintedTyped DEF Execute
  <2> QED
    BY <1>4, <1>7, <2>1, <2>2 DEF Execute, TypeOK, Waits, IsProgram
<1>8. CASE StartLoad
  <2>1. req' \in [opType : {"NONE", "LOAD", "STORE"}, f3 : Funct3,
                  address : Word, dataIn : Word]
    BY <1>1, <1>8, ValuesTyped DEF StartLoad, Request
  <2> QED
    BY <1>4, <1>8, <2>1 DEF StartLoad, TypeOK, Waits, IsProgram
<1>9. CASE StartStore
  <2>1. req' \in [opType : {"NONE", "LOAD", "STORE"}, f3 : Funct3,
                  address : Word, dataIn : Word]
    BY <1>1, <1>9, ValuesTyped DEF StartStore, Request
  <2> QED
    BY <1>4, <1>9, <2>1 DEF StartStore, TypeOK, Waits, IsProgram
<1>10. CASE EndLoad
  <2>1. regs' \in [Reg -> Word] /\ pc' \in Word
    BY <1>1, <1>10, ValuesTyped DEF EndLoad
  <2>2. /\ at' \in Waits
        /\ req' \in [opType : {"NONE", "LOAD", "STORE"}, f3 : Funct3,
                     address : Word, dataIn : Word]
    BY <1>1, <1>3, <1>10 DEF EndLoad, Waits
  <2> QED
    BY <1>4, <1>10, <2>1, <2>2 DEF EndLoad, TypeOK, IsProgram
<1>11. CASE EndStore
  BY <1>3, <1>4, <1>11, ValuesTyped DEF EndStore, TypeOK, Waits, IsProgram
<1>12. CASE Stopped
  BY <1>4, <1>12 DEF Stopped, TypeOK, IsProgram
<1> QED
  BY <1>5, <1>6, <1>7, <1>8, <1>9, <1>10, <1>11, <1>12 DEF Posedge, core

\* The falling edge: an instruction word, and a load or store of any width.
LEMMA MemoriesTyped == ASSUME TypeOK, Negedge PROVE TypeOK'
<1>1. /\ imem_address \in Word /\ IsProgram(imem) /\ dmem \in [Word -> Word]
      /\ req.f3 \in Funct3 /\ req.address \in Word /\ req.dataIn \in Word
      /\ req.opType \in {"NONE", "LOAD", "STORE"}
  BY DEF TypeOK
<1>2. instruction_ft' \in Instr
  BY <1>1, AccessInWord DEF Negedge, icache, IsProgram
<1>3. /\ ReadMem(dmem, req.f3, req.address) \in Word
      /\ WriteMem(dmem, req.f3, req.address, req.dataIn) \in [Word -> Word]
  BY <1>1, AccessInWord
<1>4. dmem' \in [Word -> Word] /\ dmem_dataOut' \in Word /\ stallDm' \in BOOLEAN
  BY <1>1, <1>3 DEF Negedge, dcache, TypeOK
<1> QED
  BY <1>2, <1>4 DEF Negedge, TypeOK, IsProgram

\* TypeOK is inductive.
LEMMA NextTyped == TypeOK /\ [Next]_vars => TypeOK'
<1>1. ASSUME TypeOK, UNCHANGED vars PROVE TypeOK'
  BY <1>1 DEF vars, TypeOK, IsProgram
<1> QED
  BY <1>1, CoreTyped, MemoriesTyped DEF Next

\* The registers, requests and answers of the scalar core keep their types.
THEOREM ScalarTypes == Spec => []TypeOK
BY InitTyped, NextTyped, PTL DEF Spec

-----------------------------------------------------------------------------
(* The handshakes.                                                         *)

\* What holds at every edge.
IInv == TypeOK /\ Current /\ Handshake

\* After the reset nothing is in hand and nothing is requested.
LEMMA InitHandshake == Init => Current /\ Handshake
BY DEF Init, core_reset, icache_reset, dcache_reset, Current, Handshake

\* The rising edge. Only the head of the loop takes a new pc to fetch, and
\* only a load and a store leave a request behind.
LEMMA CoreHandshake ==
  ASSUME IInv, Posedge PROVE Current' /\ Handshake'
<1>1. /\ phase = "pos" /\ phase' = "neg"
      /\ UNCHANGED <<imem, instruction_ft, dmem, dmem_dataOut, stallDm>>
  BY DEF Posedge
<1>2. regs \in [Reg -> Word] /\ 0 \in Reg
  BY SizesAssumption DEF IInv, TypeOK, Reg
<1>3. CASE LoopHead
  BY <1>1, <1>2, <1>3 DEF LoopHead, IInv, Current, Handshake, Fetched
<1>4. CASE Fetch
  BY <1>1, <1>4 DEF Fetch, IInv, Current, Handshake, Fetched
<1>5. CASE Execute
  BY <1>1, <1>5 DEF Execute, IInv, Current, Handshake
<1>6. CASE StartLoad
  BY <1>1, <1>6
  DEF StartLoad, Request, IInv, Current, Handshake, Fetched, valueReg1
<1>7. CASE StartStore
  BY <1>1, <1>7
  DEF StartStore, Request, IInv, Current, Handshake, Fetched, valueReg1, valueReg2
<1>8. CASE EndLoad
  BY <1>1, <1>8 DEF EndLoad, Withdrawn, IInv, TypeOK, Current, Handshake
<1>9. CASE EndStore
  BY <1>1, <1>9 DEF EndStore, Withdrawn, IInv, TypeOK, Current, Handshake
<1>10. CASE Stopped
  BY <1>1, <1>10 DEF Stopped, IInv, Current, Handshake
<1> QED
  BY <1>3, <1>4, <1>5, <1>6, <1>7, <1>8, <1>9, <1>10 DEF Posedge, core

\* The falling edge. Each memory answers what it is asked.
LEMMA MemoriesHandshake ==
  ASSUME IInv, Negedge PROVE Current' /\ Handshake'
<1>1. /\ phase = "neg" /\ phase' = "pos"
      /\ UNCHANGED <<imem, at, pc, instruction, regs, imem_address, req>>
  BY DEF Negedge
<1>2. Current'
  BY <1>1 DEF Negedge, icache, IInv, Current, Fetched
<1>3. at = "load" => /\ ~stallDm' /\ UNCHANGED dmem
                     /\ dmem_dataOut' = ReadMem(dmem, req.f3, req.address)
  BY DEF Negedge, dcache, IInv, Handshake
<1>4. Handshake'
  BY <1>1, <1>3 DEF IInv, Handshake, valueReg1, valueReg2, ReadMem
<1> QED
  BY <1>2, <1>4

\* Types, the word in hand and the handshakes are inductive together.
LEMMA NextHandshake == IInv /\ [Next]_vars => IInv'
<1>1. ASSUME IInv, UNCHANGED vars PROVE Current' /\ Handshake'
  BY <1>1 DEF vars, IInv, Current, Handshake, Fetched, valueReg1, valueReg2, ReadMem
<1>2. IInv /\ [Next]_vars => TypeOK'
  BY NextTyped DEF IInv
<1> QED
  BY <1>1, <1>2, CoreHandshake, MemoriesHandshake DEF Next, IInv

\* They hold at every edge of every run.
LEMMA Invariant == Spec => []IInv
<1>1. Init => IInv
  BY InitTyped, InitHandshake DEF IInv
<1> QED
  BY <1>1, NextHandshake, PTL DEF Spec

\* The word in hand is the one stored at pc, whatever the core waits for.
THEOREM ScalarCurrent == Spec => []Current
<1>1. IInv => Current
  BY DEF IInv
<1> QED
  BY <1>1, Invariant, PTL

\* Neither a stall nor an answer of the data memory is ever that of an
\* earlier access.
THEOREM ScalarHandshake == Spec => []Handshake
<1>1. IInv => Handshake
  BY DEF IInv
<1> QED
  BY <1>1, Invariant, PTL

-----------------------------------------------------------------------------
(* The refinement.                                                         *)

\* Isa has the words, the decoding and the data path of the core.
LEMMA SameMachine ==
  /\ I!Reg = Reg /\ I!Word = Word
  /\ \A p : I!IsProgram(p) <=> IsProgram(p)
  /\ \A a, b : I!Add(a, b) = Add(a, b)
  /\ \A i : I!IsPrint(i) <=> IsPrint(i)
  /\ \A i, a, b : I!OpResult(i, a, b) = OpResult(i, a, b)
  /\ \A m, f3, a : I!ReadMem(m, f3, a) = ReadMem(m, f3, a)
  /\ \A m, f3, a, d : I!WriteMem(m, f3, a, d) = WriteMem(m, f3, a, d)
  /\ \A o, v : I!Printed(o, v) = Printed(o, v)
<1>1. I!Reg = Reg /\ I!Word = Word
  BY DEF I!Reg, Reg, I!Word, Word
<1>2. \A p : I!IsProgram(p) <=> IsProgram(p)
  BY <1>1 DEF I!IsProgram, IsProgram, I!Instr, Instr, I!OpCode, OpCode,
              I!Funct3, Funct3, I!Funct7, Funct7
<1>3. \A a, b : I!Add(a, b) = Add(a, b)
  BY DEF I!Add, Add, I!Wrap, Wrap
<1>4. \A i : I!IsPrint(i) <=> IsPrint(i)
  BY DEF I!IsPrint, IsPrint
<1>5. \A f3, a, b : I!Division(f3, a, b) = Division(f3, a, b)
  BY DEF I!Division, Division, I!IsSignedDivision, IsSignedDivision,
         I!SignedIf, SignedIf, I!Mag, Mag, I!Neg, Neg, I!IsNeg, IsNeg,
         I!Wrap, Wrap, I!MinInt, MinInt, I!OverflowDivisor, OverflowDivisor,
         I!M_DIV, M_DIV, I!M_DIVU, M_DIVU, I!M_REM, M_REM
<1>6. \A i, a, b : I!OpResult(i, a, b) = OpResult(i, a, b)
  BY <1>5 DEF I!OpResult, OpResult, I!IsM, IsM, I!IsDivision, IsDivision,
              I!M_DIV, M_DIV, I!M_DIVU, M_DIVU, I!M_REM, M_REM, I!M_REMU, M_REMU
<1>7. \A m, f3, a : I!ReadMem(m, f3, a) = ReadMem(m, f3, a)
  BY DEF I!ReadMem, ReadMem, I!MaskOf, MaskOf, I!Cell, Cell, I!Lane, Lane
<1>8. \A m, f3, a, d : I!WriteMem(m, f3, a, d) = WriteMem(m, f3, a, d)
  BY DEF I!WriteMem, WriteMem, I!MaskOf, MaskOf, I!Cell, Cell,
         I!Lane, Lane
<1>9. \A o, v : I!Printed(o, v) = Printed(o, v)
  BY DEF I!Printed, Printed
<1> QED
  BY <1>1, <1>2, <1>3, <1>4, <1>6, <1>7, <1>8, <1>9

\* The reset is the initial state of Isa.
LEMMA InitImplements == Init => I!Init
<1> SUFFICES ASSUME Init PROVE I!Init
  OBVIOUS
<1>1. IsProgram(imem)
  BY ProgramsAssumption DEF Init, icache_reset
<1>2. AbsRegs = I!InitRegs
  BY SizesAssumption, SameMachine
  DEF Init, core_reset, AbsRegs, InitRegs, I!InitRegs, Reg
<1>3. AbsPc = PC_STARTADDR /\ AbsMem = DMEM_INIT
  BY DEF Init, core_reset, icache_reset, dcache_reset, AbsPc, AbsMem
<1> QED
  BY <1>1, <1>2, <1>3, SameMachine
  DEF Init, core_reset, icache_reset, dcache_reset, I!Init

\* While an instruction is in hand, the abstract machine is about to execute it.
LEMMA InHand ==
  ASSUME IInv, phase = "pos", at \in {"decode", "load"}
  PROVE  /\ AbsPc = pc /\ AbsRegs = regs /\ AbsMem = dmem
         /\ I!ins = instruction /\ ~I!Halted
         /\ I!valueReg1 = valueReg1 /\ I!valueReg2 = valueReg2
         /\ I!NextPc = NextPc
<1>1. AbsPc = pc /\ AbsMem = dmem
  BY DEF AbsPc, AbsMem
<1>2. AbsRegs = regs
  BY DEF AbsRegs, IInv, TypeOK, Current
<1>3. I!ins = instruction /\ ~I!Halted
  BY <1>1 DEF I!ins, I!Halted, IInv, Current, Fetched
<1> QED
  BY <1>1, <1>2, <1>3, SameMachine
  DEF I!valueReg1, I!valueReg2, valueReg1, valueReg2, I!NextPc, NextPc

\* Writing a register, x0 or another, writes it in the abstract machine.
LEMMA WriteRegister ==
  ASSUME IInv, phase = "pos", at \in {"decode", "load"},
         NEW v \in Word, regs' = [regs EXCEPT ![instruction.rd] = v]
  PROVE  I!SetRd(v)
<1>1. regs \in [Reg -> Word] /\ instruction.rd \in Reg /\ 0 \in Reg /\ regs[0] = 0
  BY ValuesTyped, SizesAssumption DEF IInv, TypeOK, Current, Reg
<1>2. AbsRegs' = [regs EXCEPT ![instruction.rd] = IF instruction.rd = 0 THEN 0 ELSE v]
  BY <1>1 DEF AbsRegs
<1> QED
  BY <1>2, InHand DEF I!SetRd

\* An instruction that is neither a load nor a store is one step of Isa.
LEMMA ExecuteImplements ==
  ASSUME IInv, Posedge, Execute PROVE I!Next
<1>1. /\ phase = "pos" /\ at = "decode" /\ at' = "head"
      /\ UNCHANGED <<imem, dmem, req>>
      /\ req.opType = "NONE"
  BY DEF Posedge, Execute, IInv, TypeOK, Handshake
<1>2. /\ AbsPc' = BranchPc /\ UNCHANGED AbsMem
      /\ regs' = regs => UNCHANGED AbsRegs
  BY <1>1 DEF Execute, AbsPc, AbsMem, AbsRegs
<1>3. WritesRd => I!SetRd(Result)
  BY <1>1, WriteRegister, ValuesTyped DEF Execute, IInv
<1>4. ~WritesRd => UNCHANGED AbsRegs
  BY <1>2 DEF Execute
<1>5. instruction.op \in OpCode /\ instruction.f3 \in Funct3
  BY DEF IInv, TypeOK, Instr
<1>6. CASE instruction.op \in {"LUI", "AUIPC", "OPI", "OP"}
  <2>1. AbsPc' = NextPc /\ UNCHANGED out
    BY <1>2, <1>6 DEF BranchPc, JumpsToReg, Execute, IsPrint
  <2>2. I!SetRd(Result)
    BY <1>3, <1>6 DEF WritesRd
  <2> QED
    BY <1>1, <1>2, <1>6, <2>1, <2>2, InHand, SameMachine
    DEF Result, I!Compute, I!Fallthrough, I!Execute, I!Next
<1>7. CASE instruction.op = "JAL" \/ JumpsToReg
  <2>1. I!SetRd(NextPc)
    BY <1>3, <1>7 DEF WritesRd, Result, JumpsToReg
  <2>2. UNCHANGED out
    BY <1>7 DEF Execute, IsPrint, JumpsToReg
  <2> QED
    BY <1>1, <1>2, <1>7, <2>1, <2>2, InHand, SameMachine
    DEF BranchPc, JumpsToReg, I!JumpAndLink, I!Execute, I!Next
<1>8. CASE instruction.op = "BR"
  <2>1. UNCHANGED <<AbsRegs, out>>
    BY <1>4, <1>8 DEF WritesRd, JumpsToReg, Execute, IsPrint
  <2> QED
    BY <1>1, <1>2, <1>8, <2>1, InHand, SameMachine
    DEF BranchPc, JumpsToReg, I!Branch, I!Execute, I!Next
<1>9. CASE IsPrint(instruction)
  <2>1. UNCHANGED AbsRegs /\ AbsPc' = NextPc
    BY <1>2, <1>4, <1>9 DEF WritesRd, JumpsToReg, IsPrint, BranchPc
  <2>2. out' = Printed(out, AbsRegs[PrintReg])
    BY <1>1, <1>9, InHand DEF Execute
  <2> QED
    BY <1>1, <1>2, <1>9, <2>1, <2>2, InHand, SameMachine
    DEF I!Printf, I!Fallthrough, I!Execute, I!Next
<1>10. CASE \/ instruction.op \in {"NONE", "MISC_MEM", "SYSTEM"}
            \/ instruction.op = "JALR" /\ instruction.f3 > 1
  <2>1. UNCHANGED <<AbsRegs, out>> /\ AbsPc' = NextPc
    BY <1>2, <1>4, <1>10 DEF WritesRd, JumpsToReg, IsPrint, BranchPc, Execute
  <2> QED
    BY <1>1, <1>2, <1>10, <2>1, InHand, SameMachine
    DEF I!Ignore, I!Fallthrough, I!Execute, I!Next
<1> QED
  BY <1>5, <1>6, <1>7, <1>8, <1>9, <1>10
  DEF Execute, OpCode, Funct3, JumpsToReg, IsPrint

\* A store is one step when it is requested, a load when it is answered.
LEMMA StartStoreImplements ==
  ASSUME IInv, Posedge, StartStore PROVE I!Next
<1>1. /\ phase = "pos" /\ phase' = "neg" /\ at = "decode" /\ at' = "store"
      /\ UNCHANGED <<imem, dmem, pc, instruction, regs, out>>
      /\ instruction.op = "ST" /\ req' = Request("STORE")
  BY DEF Posedge, StartStore
<1>2. AbsPc' = NextPc /\ UNCHANGED AbsRegs
  BY <1>1 DEF AbsPc, AbsRegs, NextPc
<1>3. AbsMem' = WriteMem(dmem, instruction.f3, Add(valueReg1, instruction.imm), valueReg2)
  BY <1>1 DEF AbsMem, Request, WriteMem
<1> QED
  BY <1>1, <1>2, <1>3, InHand, SameMachine DEF I!Store, I!Fallthrough, I!Execute, I!Next

\* The answer taken is the word Isa reads.
LEMMA EndLoadImplements ==
  ASSUME IInv, Posedge, EndLoad PROVE I!Next
<1>1. /\ phase = "pos" /\ at = "load" /\ ~stallDm
      /\ instruction.op = "LD"
      /\ dmem_dataOut = ReadMem(dmem, instruction.f3, Add(valueReg1, instruction.imm))
  BY DEF Posedge, EndLoad, IInv, Current, Handshake
<1>2. /\ at' = "head" /\ pc' = NextPc /\ req' = Withdrawn
      /\ regs' = [regs EXCEPT ![instruction.rd] = dmem_dataOut]
      /\ UNCHANGED <<imem, dmem, out>>
  BY <1>1 DEF Posedge, EndLoad
<1>3. AbsPc' = NextPc /\ AbsMem' = dmem
  BY <1>2 DEF AbsPc, AbsMem, Withdrawn, IInv, TypeOK
<1>4. I!SetRd(dmem_dataOut)
  BY <1>1, <1>2, WriteRegister DEF IInv, TypeOK
<1> QED
  BY <1>1, <1>2, <1>3, <1>4, InHand, SameMachine DEF I!Load, I!Fallthrough, I!Execute, I!Next

\* Every other rising edge, and every falling edge, leaves the abstract
\* machine alone.
LEMMA CoreImplements ==
  ASSUME IInv, Posedge PROVE I!Next \/ UNCHANGED absVars
<1>1. /\ phase = "pos" /\ phase' = "neg" /\ UNCHANGED <<imem, dmem>>
  BY DEF Posedge
<1>2. regs \in [Reg -> Word] /\ 0 \in Reg
  BY SizesAssumption DEF IInv, TypeOK, Reg
<1>3. CASE LoopHead
  <2>1. AbsRegs' = AbsRegs
    BY <1>2, <1>3 DEF LoopHead, AbsRegs
  <2>2. AbsPc' = AbsPc /\ AbsMem' = AbsMem
    BY <1>1, <1>3 DEF LoopHead, AbsPc, AbsMem, IInv, Handshake
  <2> QED
    BY <1>1, <1>3, <2>1, <2>2 DEF LoopHead, absVars
<1>4. CASE Fetch
  BY <1>1, <1>4 DEF Fetch, absVars, AbsPc, AbsRegs, AbsMem, IInv, Handshake
<1>5. CASE StartLoad
  BY <1>1, <1>5 DEF StartLoad, Request, absVars, AbsPc, AbsRegs, AbsMem
<1>6. CASE EndStore
  BY <1>1, <1>6
  DEF EndStore, Withdrawn, absVars, AbsPc, AbsRegs, AbsMem, NextPc, IInv, TypeOK
<1>7. CASE Stopped
  BY <1>1, <1>7 DEF Stopped, absVars, AbsPc, AbsRegs, AbsMem, IInv, Handshake
<1> QED
  BY <1>3, <1>4, <1>5, <1>6, <1>7,
     ExecuteImplements, StartStoreImplements, EndLoadImplements
  DEF Posedge, core

\* A store that reaches memory was already seen in AbsMem.
LEMMA MemoriesImplement ==
  ASSUME IInv, Negedge PROVE UNCHANGED absVars
<1>1. /\ phase = "neg" /\ phase' = "pos"
      /\ UNCHANGED <<imem, at, pc, instruction, regs, req, out>>
  BY DEF Negedge
<1>2. AbsMem' = AbsMem
  BY <1>1 DEF Negedge, dcache, AbsMem, IInv, TypeOK
<1> QED
  BY <1>1, <1>2 DEF absVars, AbsPc, AbsRegs, NextPc

\* Every edge is a step of Isa or none.
LEMMA NextImplements == IInv /\ [Next]_vars => [I!Next]_absVars
<1>1. ASSUME UNCHANGED vars PROVE UNCHANGED absVars
  BY <1>1 DEF vars, absVars, AbsPc, AbsRegs, AbsMem, NextPc, WriteMem
<1> QED
  BY <1>1, CoreImplements, MemoriesImplement DEF Next

\* The scalar core with its two memories and all their waits is the
\* sequential machine: registers, memory, output and order of execution.
THEOREM ScalarImplementsIsa == Spec => ExecutesIsa
BY Invariant, InitImplements, NextImplements, PTL DEF Spec, ExecutesIsa
=============================================================================
