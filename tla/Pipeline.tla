------------------------------ MODULE Pipeline ------------------------------
(***************************************************************************)
(* The five-stage core of pipeline/scriscv_core.cpp with its two memories. *)
(*                                                                         *)
(* The threads fetch, decode, exec, mult, mems and wrbk run at the rising  *)
(* edge of the clock, icache and dcache at the falling edge. A SystemC     *)
(* signal written at an edge is read with its new value only after the     *)
(* edge, so an edge is one step in which every thread reads the old state: *)
(* Posedge is the conjunction of the six threads, Negedge of the two       *)
(* memories. The SC_METHODs (decode_comb, exe_wecomb, mult_res,            *)
(* glbmet_regs, result_mem_arhb, forwardUnit) settle between two edges and *)
(* are state functions here, named after the signals they drive.           *)
(*                                                                         *)
(* Left out: stallDm, which dcache only ever writes 0, and outputs no      *)
(* thread reads. A local variable a case of decode leaves unassigned (lhs  *)
(* of a SYSTEM instruction) is 0, since nothing it can reach is ever used. *)
(***************************************************************************)
EXTENDS RiscvISA

CONSTANT DivSteps   \* cycles of a division: 32 bits, 4 bits a cycle

ASSUME DivStepsAssumption == DivSteps \in Nat \ {0}

VARIABLES
  phase,        \* which edge of the clock comes next
  imem,         \* the instruction memory's data[]
  ic,           \* written by icache: instruction_ft, imem_addOut, stallIm
  ft,           \* written by fetch: imem_address, imem_opType, we_ft
  dc,           \* latched by decode
  ex,           \* latched by exec
  mu,           \* the state of mult
  mm,           \* latched by mems, and the request it makes to dcache
  wb,           \* latched by wrbk
  rf,           \* registerFile
  dmem,         \* the data memory's data[]
  dmem_dataOut,
  out           \* the standard output

vars == <<phase, imem, ic, ft, dc, ex, mu, mm, wb, rf, dmem, dmem_dataOut, out>>

MemOp == {"NONE", "LOAD", "STORE"}

MultRegs(states) ==
  [isM : BOOLEAN, f3 : Funct3, lhs : Word, rhs : Word, result : Word,
   valRet : BOOLEAN, state : states, quotient : Word,
   remainder : Word, dataA : Word, dataB : Word, resIsNeg : BOOLEAN,
   fwd : [u : BOOLEAN, mm : BOOLEAN, mp : BOOLEAN, pm : BOOLEAN]]

LatchesOK ==
  /\ phase \in {"pos", "neg"}
  /\ IsProgram(imem)
  /\ ic \in [instr : Instr, addOut : Word, stall : BOOLEAN]
  /\ ft \in [address : Word, opType : MemOp, we : BOOLEAN]
  /\ dc \in [instr : Instr, pc : Word, we : BOOLEAN, v1 : Word, v2 : Word]
  /\ ex \in [op : OpCode, f3 : Funct3, f7 : Funct7, rd : Reg, imm : Word,
             pc : Word, lhs : Word, rhs : Word, datac : Word,
             we : BOOLEAN, useRd : BOOLEAN]
  /\ mm \in [op : OpCode, f3 : Funct3, rd : Reg, useRd : BOOLEAN,
             we : BOOLEAN, result : Word, datac : Word, opType : MemOp]
  /\ wb \in [rd : Reg, useRd : BOOLEAN, we : BOOLEAN, value : Word]
  /\ rf \in [Reg -> Word]
  /\ dmem \in [Word -> Word]
  /\ dmem_dataOut \in Word
  /\ out \in Line

\* Latches, signals and memories keep their types: what exec, mult and wrbk
\* compute and forward to one another stays within a register.
TypeOK == LatchesOK /\ mu \in MultRegs(0 .. DivSteps)

InitRf == [r \in Reg |-> IF r = 1 THEN RAADDRESS
                         ELSE IF r = 2 THEN STACK_INIT ELSE 0]

\* The reset sections of the threads.
fetch_reset == ft = [address |-> PC_STARTADDR, opType |-> "NONE", we |-> FALSE]
decode_reset ==
  dc = [instr |-> NoInstr, pc |-> 0, we |-> FALSE, v1 |-> 0, v2 |-> 0]
exec_reset ==
  ex = [op |-> "NONE", f3 |-> 0, f7 |-> 0, rd |-> 0, imm |-> 0, pc |-> 0,
        lhs |-> 0, rhs |-> 0, datac |-> 0, we |-> FALSE, useRd |-> FALSE]
mult_reset ==
  mu = [isM |-> FALSE, f3 |-> 0, lhs |-> 0, rhs |-> 0, result |-> 0,
        valRet |-> FALSE, state |-> 0, quotient |-> 0, remainder |-> 0,
        dataA |-> 0, dataB |-> 0, resIsNeg |-> FALSE,
        fwd |-> [u |-> FALSE, mm |-> FALSE, mp |-> FALSE, pm |-> FALSE]]
mems_reset ==
  mm = [op |-> "NONE", f3 |-> 0, rd |-> 0, useRd |-> FALSE, we |-> FALSE,
        result |-> 0, datac |-> 0, opType |-> "NONE"]
wrbk_reset ==
  /\ wb = [rd |-> 0, useRd |-> FALSE, we |-> FALSE, value |-> 0]
  /\ rf = InitRf
  /\ out = [count |-> 0, last |-> 0]

\* The memories with their contents, and the signals that they drive.
icache_reset ==
  /\ imem \in Programs
  /\ ic = [instr |-> NoInstr, addOut |-> PC_STARTADDR, stall |-> FALSE]
dcache_reset ==
  /\ dmem = DMEM_INIT
  /\ dmem_dataOut = 0

\* The test bench releases the reset before a rising edge.
Init ==
  /\ phase = "pos"
  /\ fetch_reset /\ decode_reset /\ exec_reset /\ mult_reset /\ mems_reset
  /\ wrbk_reset /\ icache_reset /\ dcache_reset

\* The operators named Name_Variant are not the code's: each is what Name
\* would be under a plausible mistake, and shows that a property sees it.

-----------------------------------------------------------------------------
(* decode: what it writes is a function of what it has latched.            *)

isBranch_dc == dc.we /\ dc.instr.op = "JAL"
nextPC_dc == Add(dc.pc, dc.instr.imm)
useRs1_dc == dc.we /\ dc.instr.op \in {"JALR", "BR", "LD", "ST", "OPI", "OP"}
useRs2_dc == dc.we /\ dc.instr.op \in {"BR", "OP"}
useRs3_dc == dc.we /\ dc.instr.op = "ST"
rd_dc_FieldOfStore == dc.instr.rd
rd_dc == IF dc.instr.op = "ST" THEN 0 ELSE dc.instr.rd
useRd_dc ==
  /\ dc.we
  /\ dc.instr.op \in {"LUI", "AUIPC", "JAL", "JALR", "LD", "OPI", "OP"}
  /\ rd_dc # 0

lhs_dc == IF dc.instr.op = "LUI" THEN dc.instr.imm
          ELSE IF dc.instr.op = "AUIPC" THEN dc.pc
          ELSE IF dc.instr.op = "JAL" THEN Add(dc.pc, InstrBytes)
          ELSE IF dc.instr.op \in {"JALR", "BR", "LD", "ST", "OPI", "OP"} THEN dc.v1
          ELSE 0
rhs_dc == IF dc.instr.op \in {"AUIPC", "JALR", "LD", "ST", "OPI"} THEN dc.instr.imm
          ELSE IF dc.instr.op \in {"BR", "OP"} THEN dc.v2
          ELSE 0
datac_dc == IF dc.instr.op = "ST" THEN dc.v2 ELSE 0

-----------------------------------------------------------------------------
(* exe_wecomb, mult_res, glbmet_regs and result_mem_arhb.                  *)

result_ex ==
  IF ex.op \in {"LUI", "JAL"} THEN ex.lhs
  ELSE IF ex.op \in {"AUIPC", "LD", "ST"} THEN Add(ex.lhs, ex.rhs)
  ELSE IF ex.op = "JALR" /\ ex.f3 = 0 THEN Add(ex.pc, InstrBytes)
  ELSE IF ex.op = "OPI" THEN OpiAlu(ex.f3, ex.f7, ex.lhs, ex.rhs)
  ELSE IF ex.op = "OP" /\ ex.f7 # 1 THEN OpAlu(ex.f3, ex.f7, ex.lhs, ex.rhs)
  ELSE 0

isBranch_ex ==
  /\ ex.we
  /\ \/ ex.op = "JALR" /\ ex.f3 = 0
     \/ ex.op = "BR" /\ Compare(ex.f3, ex.lhs, ex.rhs)
nextPC_ex == IF ex.op = "BR" THEN Add(ex.pc, ex.imm) ELSE Add(ex.rhs, ex.lhs)
useRd_ex == ex.useRd /\ ex.we

result_ex_ex == IF mu.valRet THEN mu.result ELSE result_ex

\* stallMultAlu
localStall == mu.isM /\ mu.state # 0

result_mem_mem == IF mm.opType = "LOAD" THEN dmem_dataOut ELSE mm.result

-----------------------------------------------------------------------------
(* forwardUnit: where the operand rs of the instruction in decode is, if   *)
(* the instruction has one (use). The youngest of its writers wins.        *)

Forward_OldestWins(use, rs) ==
  IF localStall \/ ~use THEN "NONE"
  ELSE IF wb.useRd /\ rs = wb.rd THEN "WB"
  ELSE IF mm.useRd /\ rs = mm.rd THEN "MM"
  ELSE IF ~(useRd_ex /\ rs = ex.rd) THEN "NONE"
  ELSE IF ex.op = "LD" THEN "STALL" ELSE "EX"

Forward(use, rs) ==
  IF localStall \/ ~use THEN "NONE"
  ELSE IF useRd_ex /\ rs = ex.rd THEN IF ex.op = "LD" THEN "STALL" ELSE "EX"
  ELSE IF mm.useRd /\ rs = mm.rd THEN "MM"
  ELSE IF wb.useRd /\ rs = wb.rd THEN "WB" ELSE "NONE"

forward1 == Forward(useRs1_dc, dc.instr.rs1)
forward2 == Forward(useRs2_dc, dc.instr.rs2)
forward3 == Forward(useRs3_dc, dc.instr.rs2)

\* stallSignals[STALL_FETCH] and stallSignals[STALL_DECODE]; the other three
\* are never set.
stallSignals == "STALL" \in {forward1, forward2, forward3}

\* The operand exec latches; mult takes the same with result_ex for fromEx.
Operand(fwd, fromEx, decoded) ==
  IF fwd = "EX" /\ ex.we THEN fromEx
  ELSE IF fwd = "MM" /\ mm.we THEN result_mem_mem
  ELSE IF fwd = "WB" /\ wb.we THEN wb.value
  ELSE decoded

Frozen == localStall \/ ic.stall
Advance_ThroughLoadUse == ~Frozen
Advance == ~Frozen /\ ~stallSignals

-----------------------------------------------------------------------------
(* The threads of the rising edge.                                         *)

fetch ==
  ft' = [address |-> IF ~Advance THEN ft.address
                     ELSE IF isBranch_ex THEN nextPC_ex
                     ELSE IF isBranch_dc THEN nextPC_dc
                     ELSE ic.addOut,
         opType  |-> IF localStall THEN "NONE" ELSE "LOAD",
         we      |-> TRUE]

\* decode_comb reads registerFile for the word being latched.
decode_KeepsWordAfterJump ==
  dc' = IF ~Advance THEN dc
        ELSE [instr |-> ic.instr,
              pc    |-> ft.address,
              we    |-> ft.we /\ ~isBranch_ex,
              v1    |-> rf[ic.instr.rs1],
              v2    |-> rf[ic.instr.rs2]]

decode ==
  dc' = IF ~Advance THEN dc
        ELSE [instr |-> ic.instr,
              pc    |-> ft.address,
              we    |-> ft.we /\ ~isBranch_ex /\ ~isBranch_dc,
              v1    |-> rf[ic.instr.rs1],
              v2    |-> rf[ic.instr.rs2]]

\* A load-use stall sends a bubble down, which keeps the load's operation
\* code and destination but is not enabled.
exec ==
  ex' = IF Frozen THEN ex
        ELSE IF stallSignals
        THEN [ex EXCEPT !.we = FALSE, !.useRd = FALSE, !.imm = 0, !.pc = 0]
        ELSE [op    |-> dc.instr.op,
              f3    |-> dc.instr.f3,
              f7    |-> dc.instr.f7,
              rd    |-> rd_dc,
              imm   |-> dc.instr.imm,
              pc    |-> dc.pc,
              lhs   |-> Operand(forward1, result_ex_ex, lhs_dc),
              rhs   |-> Operand(forward2, result_ex_ex, rhs_dc),
              datac |-> Operand(forward3, result_ex_ex, datac_dc),
              we    |-> dc.we /\ ~isBranch_ex,
              useRd |-> useRd_dc]

\* What mult holds of the instruction it shares with exec.
MultLatched ==
  IF ~Advance THEN mu
  ELSE [mu EXCEPT !.isM = IsM(dc.instr),
                  !.f3  = dc.instr.f3,
                  !.lhs = Operand(forward1, result_ex, lhs_dc),
                  !.rhs = Operand(forward2, result_ex, rhs_dc)]

\* flag |= (...) | (...); flag = !flag. The operands are compared as 64-bit
\* numbers, so the unsigned dataA is never equal to a negative lhs.
ForwardFlags_In32Bits(l) ==
  LET a == mu.dataA  b == mu.dataB
  IN  [u  |-> ~mu.fwd.u  /\ a = l.lhs /\ b = l.rhs,
       mm |-> ~mu.fwd.mm /\ a = Neg(l.lhs) /\ b = Neg(l.rhs),
       mp |-> ~mu.fwd.mp /\ a = Neg(l.lhs) /\ b = l.rhs,
       pm |-> ~mu.fwd.pm /\ a = l.lhs /\ b = Neg(l.rhs)]

ForwardFlags(l) ==
  LET a == mu.dataA  b == mu.dataB  lhs == Signed(l.lhs)  rhs == Signed(l.rhs)
  IN  [u  |-> ~mu.fwd.u  /\ a = lhs  /\ b = rhs,
       mm |-> ~mu.fwd.mm /\ a = -lhs /\ b = -rhs,
       mp |-> ~mu.fwd.mp /\ a = -lhs /\ b = rhs,
       pm |-> ~mu.fwd.pm /\ a = lhs  /\ b = -rhs]

\* Whether a division returns the quotient or remainder it already holds.
Reuses(l) ==
  LET f == ForwardFlags(l)
  IN  \/ l.f3 \in {M_DIVU, M_REMU} /\ f.u
      \/ l.f3 = M_REM /\ (f.u \/ f.mm \/ f.mp \/ f.pm)

DivByZero(l) == l.rhs = 0
DivOverflow(l) ==
  IsSignedDivision(l.f3) /\ l.lhs = MinInt /\ l.rhs = OverflowDivisor
StartsDivision(l) ==
  IsDivision(l.f3) /\ ~DivByZero(l) /\ ~DivOverflow(l) /\ ~Reuses(l)

\* The quotient or the remainder, with its sign.
DivResult(l, q, r) ==
  IF l.f3 = M_DIV THEN SignedIf(l.resIsNeg, q)
  ELSE IF l.f3 = M_DIVU THEN q
  ELSE IF l.f3 = M_REM THEN SignedIf(IsNeg(l.lhs), r)
  ELSE r

\* state = 0: a result at once, or the start of a division. DIV also shows a
\* result, that of the quotient it is about to discard.
MultStart(l) ==
  LET s == [l EXCEPT !.fwd = ForwardFlags(l), !.dataA = l.lhs,
                     !.dataB = l.rhs, !.resIsNeg = IsNeg(l.lhs) # IsNeg(l.rhs)]
  IN  IF StartsDivision(l)
      THEN [s EXCEPT
             !.state     = DivSteps,
             !.quotient  = 0,
             !.remainder = 0,
             !.dataA     = IF IsSignedDivision(l.f3) THEN Mag(l.lhs) ELSE l.lhs,
             !.dataB     = IF IsSignedDivision(l.f3) THEN Mag(l.rhs) ELSE l.rhs,
             !.valRet    = (l.f3 = M_DIV),
             !.result    = IF l.f3 = M_DIV
                           THEN DivResult(s, mu.quotient, mu.remainder)
                           ELSE @]
      ELSE [s EXCEPT
             !.valRet = TRUE,
             !.result =
               IF ~IsDivision(l.f3) THEN MulAlu(l.f3, l.lhs, l.rhs)
               ELSE IF DivByZero(l)
               THEN IF l.f3 \in {M_DIV, M_DIVU} THEN Wrap(-1) ELSE l.lhs
               ELSE IF DivOverflow(l) THEN IF l.f3 = M_DIV THEN MinInt ELSE 0
               ELSE DivResult(s, mu.quotient, mu.remainder)]

\* Four bits of the restoring division. Its partial quotient and remainder
\* cannot be seen before the last cycle, when they are the whole division's.
MultIterate_WaitsForStall(l) ==
  IF localStall THEN [l EXCEPT !.valRet = FALSE] ELSE [l EXCEPT !.state = 0]

MultIterate(l) ==
  IF l.state > 1 THEN [l EXCEPT !.state = @ - 1, !.valRet = FALSE]
  ELSE LET q == l.dataA \div l.dataB
           r == l.dataA % l.dataB
       IN  [l EXCEPT !.state = 0, !.quotient = q, !.remainder = r,
                     !.valRet = TRUE, !.result = DivResult(l, q, r)]

mult ==
  mu' = LET l == MultLatched
        IN  IF ~l.isM THEN [l EXCEPT !.valRet = FALSE]
            ELSE IF l.state = 0 THEN MultStart(l) ELSE MultIterate(l)

\* The request is made in the cycle after the latch and withdrawn while the
\* divider runs, and with it dmem_flag.
mems ==
  mm' = IF Frozen THEN [mm EXCEPT !.opType = "NONE"]
        ELSE [op     |-> ex.op,
              f3     |-> ex.f3,
              rd     |-> ex.rd,
              useRd  |-> useRd_ex,
              we     |-> ex.we,
              result |-> result_ex_ex,
              datac  |-> ex.datac,
              opType |-> IF ex.we /\ ex.op = "LD" THEN "LOAD"
                         ELSE IF ex.we /\ ex.op = "ST" THEN "STORE"
                         ELSE "NONE"]

\* While the pipeline is frozen wrbk keeps its instruction but not its value.
wrbk ==
  LET l == IF Frozen THEN wb
           ELSE [wb EXCEPT !.rd = mm.rd, !.useRd = mm.useRd, !.we = mm.we]
      writes == l.rd # 0 /\ l.we /\ l.useRd
  IN  /\ wb' = IF writes THEN [l EXCEPT !.value = result_mem_mem]
               ELSE [l EXCEPT !.rd = 0, !.useRd = FALSE]
      /\ rf' = IF writes /\ ~Frozen
               THEN [rf EXCEPT ![l.rd] = result_mem_mem] ELSE rf
      /\ out' = IF IsPrint(mm) /\ ~Frozen
                THEN Printed(out, rf[PrintReg]) ELSE out

Posedge ==
  /\ phase = "pos" /\ phase' = "neg"
  /\ fetch /\ decode /\ exec /\ mult /\ mems /\ wrbk
  /\ UNCHANGED <<imem, ic, dmem, dmem_dataOut>>

-----------------------------------------------------------------------------
(* The memories, at the falling edge.                                      *)

EndOfProgram_OneEarly == isBranch_ex /\ nextPC_ex = RAADDRESS
EndOfProgram == ft.address = RAADDRESS

\* At the end of the program the simulation exits; the hardware raises stallIm
\* for ever.
icache ==
  ic' = IF ic.stall \/ EndOfProgram THEN [ic EXCEPT !.stall = TRUE]
        ELSE [instr  |-> IF ft.opType = "LOAD"
                         THEN imem[ft.address \div InstrBytes] ELSE ic.instr,
              addOut |-> Add(ft.address, InstrBytes),
              stall  |-> FALSE]

dcache ==
  /\ dmem' = IF mm.opType = "STORE"
             THEN WriteMem(dmem, mm.f3, mm.result, mm.datac) ELSE dmem
  /\ dmem_dataOut' = IF mm.opType = "LOAD"
                     THEN ReadMem(dmem, mm.f3, mm.result) ELSE dmem_dataOut

Negedge ==
  /\ phase = "neg" /\ phase' = "pos"
  /\ icache /\ dcache
  /\ UNCHANGED <<imem, ft, dc, ex, mu, mm, wb, rf, out>>

-----------------------------------------------------------------------------
Next == Posedge \/ Negedge

Spec == Init /\ [][Next]_vars

\* The clock does not stop.
FairSpec == Spec /\ WF_vars(Next)
=============================================================================
