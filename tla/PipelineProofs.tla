--------------------------- MODULE PipelineProofs ---------------------------
(***************************************************************************)
(* The pipeline, proved for every word size, every data path, every        *)
(* division length and every program: types, and the order in which        *)
(* instructions are executed; then that it is exact until it loses a value *)
(* in one of the situations PipelineHazards names, and that there is no    *)
(* other. The proof of that is an inductive invariant about where the      *)
(* value of every operand is. Then that none of them occurs in a program   *)
(* of which neighbouring words satisfy some conditions. A call of memcpy,  *)
(* memmove or memset is such a program: a loop invariant of the sequential *)
(* machine shows that it does on the pipeline what its callers rely on.    *)
(* Last the divider of mult: its rounds, one bit each, find the quotient   *)
(* and the remainder, and the pipeline around it cannot tell it from one   *)
(* that divides in its last cycle.                                         *)
(***************************************************************************)
EXTENDS BitPipeline, Library, RiscvLemmas, NumberLemmas

-----------------------------------------------------------------------------
(* Types.                                                                  *)

\* Typing but for the count of the divider, which may be in any unit.
WordsOK == LatchesOK /\ mu \in MultRegs(Nat)

\* WordsOK is the part of TypeOK that the steps need.
LEMMA TypesAreWords == TypeOK => WordsOK
BY DEF TypeOK, WordsOK, MultRegs

\* Every signal a thread latches is a word, a register or a boolean.
LEMMA SignalTypes ==
  ASSUME WordsOK
  PROVE  /\ nextPC_dc \in Word /\ rd_dc \in Reg /\ useRd_dc \in BOOLEAN
         /\ lhs_dc \in Word /\ rhs_dc \in Word /\ datac_dc \in Word
         /\ result_ex \in Word /\ nextPC_ex \in Word /\ useRd_ex \in BOOLEAN
         /\ result_ex_ex \in Word /\ result_mem_mem \in Word
<1>1. /\ dc.pc \in Word /\ dc.v1 \in Word /\ dc.v2 \in Word /\ dc.we \in BOOLEAN
      /\ dc.instr \in Instr
  BY DEF WordsOK, LatchesOK
<1>2. /\ dc.instr.op \in OpCode /\ dc.instr.rd \in Reg /\ dc.instr.imm \in Word
      /\ Add(dc.pc, dc.instr.imm) \in Word /\ Add(dc.pc, InstrBytes) \in Word
  BY <1>1, AddInWord, ParametersInWord DEF Instr
<1>3. nextPC_dc \in Word
  BY <1>2 DEF nextPC_dc
<1>4. rd_dc \in Reg
  BY <1>2, SizesAssumption DEF rd_dc, Reg
<1>5. useRd_dc \in BOOLEAN
  BY <1>1 DEF useRd_dc
<1>6. lhs_dc \in Word
  BY <1>1, <1>2, ParametersInWord DEF lhs_dc
<1>7. rhs_dc \in Word
  BY <1>1, <1>2, ParametersInWord DEF rhs_dc
<1>8. datac_dc \in Word
  BY <1>1, ParametersInWord DEF datac_dc
<1>9. /\ ex.lhs \in Word /\ ex.rhs \in Word /\ ex.pc \in Word /\ ex.imm \in Word
      /\ ex.f3 \in Funct3 /\ ex.f7 \in Funct7
      /\ ex.we \in BOOLEAN /\ ex.useRd \in BOOLEAN
  BY DEF WordsOK, LatchesOK
<1>10. /\ Add(ex.lhs, ex.rhs) \in Word /\ Add(ex.pc, InstrBytes) \in Word
       /\ Add(ex.pc, ex.imm) \in Word /\ Add(ex.rhs, ex.lhs) \in Word
       /\ OpiAlu(ex.f3, ex.f7, ex.lhs, ex.rhs) \in Word
       /\ OpAlu(ex.f3, ex.f7, ex.lhs, ex.rhs) \in Word
  BY <1>9, AddInWord, ParametersInWord, AluAssumption
<1>11. result_ex \in Word
  BY <1>9, <1>10, ParametersInWord DEF result_ex
<1>12. nextPC_ex \in Word
  BY <1>10 DEF nextPC_ex
<1>13. useRd_ex \in BOOLEAN
  BY <1>9 DEF useRd_ex
<1>14. result_ex_ex \in Word
  BY <1>11 DEF result_ex_ex, WordsOK, LatchesOK, MultRegs
<1>15. result_mem_mem \in Word
  BY DEF result_mem_mem, WordsOK, LatchesOK
<1> QED
  BY <1>3, <1>4, <1>5, <1>6, <1>7, <1>8, <1>11, <1>12, <1>13, <1>14, <1>15

\* What is forwarded is a word whenever what is not is.
LEMMA OperandInWord ==
  ASSUME WordsOK, NEW fwd, NEW e \in Word, NEW d \in Word
  PROVE  Operand(fwd, e, d) \in Word
BY SignalTypes DEF Operand, WordsOK, LatchesOK

\* The divider never divides by zero.
DivisorNotZero == mu.state # 0 => mu.dataB # 0

\* The inductive form of TypeOK: the quotient is a word because the divisor
\* is not zero.
Typed == TypeOK /\ DivisorNotZero

\* The reset leaves every register of the core in its type.
LEMMA InitTyped == Init => Typed
<1> SUFFICES ASSUME Init PROVE Typed
  OBVIOUS
<1>1. IsProgram(imem)
  BY ProgramsAssumption DEF Init, icache_reset
<1>2. 0 \in Word /\ 0 \in Reg /\ PC_STARTADDR \in Word
  BY ParametersInWord, SizesAssumption DEF Reg
<1>3. NoInstr \in Instr
  BY <1>2 DEF NoInstr, Instr, OpCode, Funct3, Funct7
<1>4. rf \in [Reg -> Word]
  BY <1>2, SizesAssumption DEF Init, wrbk_reset, InitRf
<1>5. out \in Line
  BY <1>2, SizesAssumption DEF Init, wrbk_reset, Line
<1>6. 0 \in 0 .. DivSteps /\ 0 \in Funct3 /\ 0 \in Funct7
  BY DivStepsAssumption DEF Funct3, Funct7
<1>7. dmem \in [Word -> Word]
  BY MemoryAssumption DEF Init, dcache_reset
<1>8. "NONE" \in OpCode /\ "NONE" \in MemOp
  BY DEF OpCode, MemOp
<1> QED
  BY <1>1, <1>2, <1>3, <1>4, <1>5, <1>6, <1>7, <1>8
  DEF Init, fetch_reset, decode_reset, exec_reset, mult_reset,
      mems_reset, wrbk_reset, icache_reset, dcache_reset,
      Typed, TypeOK, LatchesOK, MultRegs, DivisorNotZero

\* fetch: the address is one of four words.
LEMMA FetchTyped ==
  ASSUME WordsOK, fetch
  PROVE  ft' \in [address : Word, opType : MemOp, we : BOOLEAN]
BY SignalTypes DEF WordsOK, LatchesOK, fetch, MemOp

\* decode: what it latches comes from icache, fetch and registerFile.
LEMMA DecodeTyped ==
  ASSUME WordsOK, decode
  PROVE  dc' \in [instr : Instr, pc : Word, we : BOOLEAN, v1 : Word, v2 : Word]
<1>1. /\ ic.instr \in Instr /\ ft.address \in Word
      /\ (ft.we /\ ~isBranch_ex /\ ~isBranch_dc) \in BOOLEAN
  BY DEF WordsOK, LatchesOK, isBranch_ex, isBranch_dc
<1>2. rf[ic.instr.rs1] \in Word /\ rf[ic.instr.rs2] \in Word
  BY <1>1 DEF WordsOK, LatchesOK, Instr
<1> QED
  BY <1>1, <1>2 DEF WordsOK, LatchesOK, decode

\* exec: decoded or forwarded, the operands are words.
LEMMA ExecTyped ==
  ASSUME WordsOK, exec
  PROVE  ex' \in [op : OpCode, f3 : Funct3, f7 : Funct7, rd : Reg, imm : Word,
                  pc : Word, lhs : Word, rhs : Word, datac : Word,
                  we : BOOLEAN, useRd : BOOLEAN]
<1>1. /\ Operand(forward1, result_ex_ex, lhs_dc) \in Word
      /\ Operand(forward2, result_ex_ex, rhs_dc) \in Word
      /\ Operand(forward3, result_ex_ex, datac_dc) \in Word
  BY SignalTypes, OperandInWord
<1>2. /\ dc.instr.op \in OpCode /\ dc.instr.f3 \in Funct3
      /\ dc.instr.f7 \in Funct7 /\ dc.instr.imm \in Word /\ dc.pc \in Word
      /\ (dc.we /\ ~isBranch_ex) \in BOOLEAN
  BY DEF WordsOK, LatchesOK, Instr, isBranch_ex
<1>3. /\ ex \in [op : OpCode, f3 : Funct3, f7 : Funct7, rd : Reg, imm : Word,
                 pc : Word, lhs : Word, rhs : Word, datac : Word,
                 we : BOOLEAN, useRd : BOOLEAN]
      /\ rd_dc \in Reg /\ useRd_dc \in BOOLEAN /\ 0 \in Word
  BY SignalTypes, ParametersInWord DEF WordsOK, LatchesOK
<1>4. CASE Frozen
  BY <1>3, <1>4 DEF exec
<1>5. CASE ~Frozen /\ stallSignals
  BY <1>3, <1>5 DEF exec
<1>6. CASE ~Frozen /\ ~stallSignals
  BY <1>1, <1>2, <1>3, <1>6 DEF exec
<1> QED
  BY <1>4, <1>5, <1>6

\* mems: a result and a request.
LEMMA MemsTyped ==
  ASSUME WordsOK, mems
  PROVE  mm' \in [op : OpCode, f3 : Funct3, rd : Reg, useRd : BOOLEAN,
                  we : BOOLEAN, result : Word, datac : Word, opType : MemOp]
BY SignalTypes DEF WordsOK, LatchesOK, mems, MemOp

\* wrbk: the register it writes stays a word.
LEMMA WrbkTyped ==
  ASSUME WordsOK, wrbk
  PROVE  /\ wb' \in [rd : Reg, useRd : BOOLEAN, we : BOOLEAN, value : Word]
         /\ rf' \in [Reg -> Word]
         /\ out' \in Line
<1> DEFINE l == IF Frozen THEN wb
               ELSE [wb EXCEPT !.rd = mm.rd, !.useRd = mm.useRd, !.we = mm.we]
           Latch == [rd : Reg, useRd : BOOLEAN, we : BOOLEAN, value : Word]
<1>1. 0 \in Reg /\ result_mem_mem \in Word
  BY SignalTypes, SizesAssumption DEF Reg
<1>2. l \in Latch
  BY DEF WordsOK, LatchesOK
<1>3. wb' \in Latch /\ rf' \in [Reg -> Word]
  <2>1. /\ [l EXCEPT !.value = result_mem_mem] \in Latch
        /\ [l EXCEPT !.rd = 0, !.useRd = FALSE] \in Latch
    BY <1>1, <1>2
  <2>2. wb' \in Latch
    <3> HIDE DEF l
    <3> QED
      BY <2>1 DEF wrbk, l
  <2>3. rf' \in [Reg -> Word]
    BY <1>1, <1>2 DEF WordsOK, LatchesOK, wrbk
  <2> QED
    BY <2>2, <2>3
<1>4. Printed(out, rf[PrintReg]) \in Line
  <2>1. rf[PrintReg] \in Word
    BY SizesAssumption DEF WordsOK, LatchesOK
  <2>2. out.count \in Nat /\ (out.count + 1) % PrintMod \in 0 .. (PrintMod - 1)
    BY SizesAssumption DEF WordsOK, LatchesOK, Line
  <2> QED
    BY <2>1, <2>2 DEF Printed, Line
<1>5. out' \in Line
  BY <1>4 DEF WordsOK, LatchesOK, wrbk
<1> QED
  BY <1>3, <1>5

\* mult: the operands it takes are words.
LEMMA MultLatchedTyped ==
  ASSUME WordsOK
  PROVE  /\ MultLatched \in MultRegs(Nat)
         /\ MultLatched.state = mu.state
         /\ MultLatched.dataB = mu.dataB
<1>1. mu \in MultRegs(Nat)
  BY DEF WordsOK
<1>2. /\ Operand(forward1, result_ex, lhs_dc) \in Word
      /\ Operand(forward2, result_ex, rhs_dc) \in Word
  BY SignalTypes, OperandInWord
<1>3. IsM(dc.instr) \in BOOLEAN /\ dc.instr.f3 \in Funct3
  BY DEF IsM, WordsOK, LatchesOK, Instr
<1> QED
  BY <1>1, <1>2, <1>3 DEF MultLatched, MultRegs

\* A quotient or remainder shown with its sign is a word.
LEMMA DivResultInWord ==
  ASSUME NEW l \in MultRegs(Nat), NEW q \in Word, NEW r \in Word
  PROVE  DivResult(l, q, r) \in Word
<1>1. SignedIf(l.resIsNeg, q) \in Word
  BY SignedIfInWord DEF MultRegs
<1>2. IsNeg(l.lhs) \in BOOLEAN
  BY DEF IsNeg
<1>3. SignedIf(IsNeg(l.lhs), r) \in Word
  BY <1>2, SignedIfInWord
<1> QED
  BY <1>1, <1>3 DEF DivResult

\* A division that starts has a divisor other than 0.
LEMMA MultStartTyped ==
  ASSUME WordsOK, NEW l \in MultRegs(Nat), l.state = 0
  PROVE  /\ MultStart(l) \in MultRegs(Nat)
         /\ MultStart(l).state = IF StartsDivision(l) THEN DivSteps ELSE 0
         /\ StartsDivision(l) => MultStart(l).dataB # 0
<1> DEFINE s == [l EXCEPT !.fwd = ForwardFlags(l), !.dataA = l.lhs,
                          !.dataB = l.rhs,
                          !.resIsNeg = IsNeg(l.lhs) # IsNeg(l.rhs)]
           A == IF IsSignedDivision(l.f3) THEN Mag(l.lhs) ELSE l.lhs
           B == IF IsSignedDivision(l.f3) THEN Mag(l.rhs) ELSE l.rhs
<1>1. /\ l.lhs \in Word /\ l.rhs \in Word /\ l.f3 \in Funct3
      /\ l.result \in Word
  BY DEF MultRegs
<1>2. ForwardFlags(l) \in [u : BOOLEAN, mm : BOOLEAN, mp : BOOLEAN, pm : BOOLEAN]
  BY DEF ForwardFlags
<1>3. s \in MultRegs(Nat) /\ s.result = l.result /\ s.state = 0
  BY <1>1, <1>2 DEF MultRegs
<1>4. mu.quotient \in Word /\ mu.remainder \in Word
  BY DEF WordsOK, MultRegs
<1>5. DivResult(s, mu.quotient, mu.remainder) \in Word
  BY <1>3, <1>4, DivResultInWord
<1>6. A \in Word /\ B \in Word
  BY <1>1, Magnitude
<1>7. 0 \in Word /\ DivSteps \in Nat /\ (l.f3 = M_DIV) \in BOOLEAN
  BY ParametersInWord, DivStepsAssumption
<1>8. CASE StartsDivision(l)
  <2>1. l.rhs # 0
    BY <1>8 DEF StartsDivision, DivByZero
  <2>2. B # 0
    BY <1>1, <2>1, Magnitude
  <2> DEFINE v == IF l.f3 = M_DIV
                  THEN DivResult(s, mu.quotient, mu.remainder) ELSE s.result
             t == [s EXCEPT !.state = DivSteps, !.quotient = 0, !.remainder = 0,
                            !.dataA = A, !.dataB = B, !.valRet = (l.f3 = M_DIV),
                            !.result = v]
  <2>3. v \in Word
    BY <1>1, <1>3, <1>5
  <2>4. MultStart(l) = t
    BY <1>8 DEF MultStart
  <2> HIDE DEF s, A, B, v
  <2>5. t \in MultRegs(Nat) /\ t.dataB = B /\ t.state = DivSteps
    BY <1>3, <1>6, <1>7, <2>3 DEF MultRegs
  <2> HIDE DEF t
  <2> QED
    BY <1>8, <2>2, <2>4, <2>5
<1>9. CASE ~StartsDivision(l)
  <2> DEFINE v == IF ~IsDivision(l.f3) THEN MulAlu(l.f3, l.lhs, l.rhs)
                  ELSE IF DivByZero(l)
                  THEN IF l.f3 \in {M_DIV, M_DIVU} THEN Wrap(-1) ELSE l.lhs
                  ELSE IF DivOverflow(l) THEN IF l.f3 = M_DIV THEN MinInt ELSE 0
                  ELSE DivResult(s, mu.quotient, mu.remainder)
             t == [s EXCEPT !.valRet = TRUE, !.result = v]
  <2>1. MulAlu(l.f3, l.lhs, l.rhs) \in Word
    BY <1>1, AluAssumption
  <2>2. v \in Word
    BY <1>1, <1>5, <2>1, ParametersInWord
  <2>3. MultStart(l) = t
    BY <1>9 DEF MultStart
  <2> HIDE DEF s, v
  <2>4. t \in MultRegs(Nat) /\ t.state = 0
    BY <1>3, <2>2 DEF MultRegs
  <2> HIDE DEF t
  <2> QED
    BY <1>9, <2>3, <2>4
<1> QED
  BY <1>8, <1>9

\* A division that goes on keeps its divisor.
LEMMA MultIterateTyped ==
  ASSUME NEW l \in MultRegs(0 .. DivSteps), l.state # 0, l.dataB # 0
  PROVE  /\ MultIterate(l) \in MultRegs(0 .. DivSteps)
         /\ MultIterate(l).dataB # 0
<1>1. l.dataA \in Word /\ l.dataB \in Word /\ l.state \in 0 .. DivSteps
  BY DEF MultRegs
<1> DEFINE q == l.dataA \div l.dataB
           r == l.dataA % l.dataB
<1>2. q \in Word /\ r \in Word
  BY <1>1, QuotientInWord
<1>3. DivResult(l, q, r) \in Word
  BY <1>2, DivResultInWord DEF MultRegs
<1>4. CASE l.state > 1
  <2>1. l.state - 1 \in 0 .. DivSteps
    BY <1>1, <1>4, DivStepsAssumption
  <2>2. MultIterate(l) = [l EXCEPT !.state = l.state - 1, !.valRet = FALSE]
    BY <1>4 DEF MultIterate
  <2> QED
    BY <2>1, <2>2 DEF MultRegs
<1>5. CASE ~(l.state > 1)
  <2> DEFINE v == DivResult(l, q, r)
  <2>1. MultIterate(l) = [l EXCEPT !.state = 0, !.quotient = q, !.remainder = r,
                                   !.valRet = TRUE, !.result = v]
    BY <1>5 DEF MultIterate
  <2>2. 0 \in 0 .. DivSteps
    BY DivStepsAssumption
  <2> HIDE DEF q, r, v
  <2> QED
    BY <1>2, <1>3, <2>1, <2>2 DEF MultRegs, v
<1> QED
  BY <1>4, <1>5

\* mult as a whole, from its three cases.
LEMMA MultTyped ==
  ASSUME Typed, mult
  PROVE  mu' \in MultRegs(0 .. DivSteps) /\ DivisorNotZero'
<1> DEFINE l == MultLatched
<1>1. /\ WordsOK /\ l \in MultRegs(Nat) /\ l \in MultRegs(0 .. DivSteps)
      /\ l.state # 0 => l.dataB # 0
  BY TypesAreWords, MultLatchedTyped DEF Typed, TypeOK, MultRegs, DivisorNotZero
<1>2. mu' = IF ~l.isM THEN [l EXCEPT !.valRet = FALSE]
            ELSE IF l.state = 0 THEN MultStart(l) ELSE MultIterate(l)
  BY DEF mult
<1> HIDE DEF l
<1>3. CASE ~l.isM
  BY <1>1, <1>2, <1>3 DEF MultRegs, DivisorNotZero
<1>4. CASE l.isM /\ l.state = 0
  <2>1. /\ MultStart(l) \in MultRegs(Nat)
        /\ MultStart(l).state \in {0, DivSteps}
        /\ MultStart(l).state # 0 => MultStart(l).dataB # 0
    BY <1>1, <1>4, MultStartTyped
  <2>2. MultStart(l) \in MultRegs(0 .. DivSteps)
    BY <2>1, DivStepsAssumption DEF MultRegs
  <2> QED
    BY <1>2, <1>4, <2>1, <2>2 DEF DivisorNotZero
<1>5. CASE l.isM /\ l.state # 0
  BY <1>1, <1>2, <1>5, MultIterateTyped DEF DivisorNotZero
<1> QED
  BY <1>3, <1>4, <1>5

\* icache: a word of the program.
LEMMA IcacheTyped ==
  ASSUME WordsOK, icache
  PROVE  ic' \in [instr : Instr, addOut : Word, stall : BOOLEAN]
<1>1. ft.address \in Word /\ imem \in [Word -> Instr]
  BY DEF WordsOK, LatchesOK, IsProgram
<1>2. ft.address \div InstrBytes \in Word
  BY <1>1, QuotientInWord, ParametersInWord
<1>3. imem[ft.address \div InstrBytes] \in Instr /\ Add(ft.address, InstrBytes) \in Word
  BY <1>1, <1>2, AddInWord, ParametersInWord
<1>4. ic \in [instr : Instr, addOut : Word, stall : BOOLEAN]
  BY DEF WordsOK, LatchesOK
<1> QED
  BY <1>3, <1>4 DEF icache

\* dcache: a load or a store of any width.
LEMMA DcacheTyped ==
  ASSUME WordsOK, dcache
  PROVE  dmem' \in [Word -> Word] /\ dmem_dataOut' \in Word
<1>1. /\ dmem \in [Word -> Word] /\ mm.f3 \in Funct3
      /\ mm.result \in Word /\ mm.datac \in Word /\ dmem_dataOut \in Word
  BY DEF WordsOK, LatchesOK
<1> QED
  BY <1>1, AccessInWord DEF dcache

\* Typed is inductive: one step for each thread.
LEMMA NextTyped == Typed /\ [Next]_vars => Typed'
<1> SUFFICES ASSUME Typed, [Next]_vars PROVE Typed'
  OBVIOUS
<1> USE DEF Typed
<1>1. CASE Posedge
  <2>1. /\ phase' = "neg" /\ imem' = imem /\ ic' = ic
        /\ dmem' = dmem /\ dmem_dataOut' = dmem_dataOut
        /\ fetch /\ decode /\ exec /\ mult /\ mems /\ wrbk
    BY <1>1 DEF Posedge
  <2>2. IsProgram(imem)'
    BY <2>1 DEF TypeOK, LatchesOK, IsProgram
  <2>3. WordsOK /\ mu' \in MultRegs(0 .. DivSteps) /\ DivisorNotZero'
    BY <2>1, TypesAreWords, MultTyped
  <2> QED
    BY <2>1, <2>2, <2>3, FetchTyped, DecodeTyped, ExecTyped, MemsTyped, WrbkTyped
    DEF TypeOK, LatchesOK
<1>2. CASE Negedge
  <2>1. /\ phase' = "pos" /\ icache /\ dcache
        /\ UNCHANGED <<imem, ft, dc, ex, mu, mm, wb, rf, out>>
    BY <1>2 DEF Negedge
  <2>2. IsProgram(imem)'
    BY <2>1 DEF TypeOK, LatchesOK, IsProgram
  <2> QED
    BY <2>1, <2>2, TypesAreWords, IcacheTyped, DcacheTyped
    DEF TypeOK, LatchesOK, DivisorNotZero
<1>3. CASE UNCHANGED vars
  BY <1>3 DEF vars, TypeOK, LatchesOK, DivisorNotZero, IsProgram
<1> QED
  BY <1>1, <1>2, <1>3 DEF Next

\* Every register and signal of the pipeline keeps its type in every run:
\* no thread writes what another cannot read, and the division steps of mult
\* never meet a divisor of zero.
THEOREM TypeCorrect == Spec => []TypeOK
<1>1. Typed => TypeOK
  BY DEF Typed
<1> QED
  BY <1>1, InitTyped, NextTyped, PTL DEF Spec


-----------------------------------------------------------------------------
(* The order of execution.                                                 *)

\* Nothing is in the pipeline after the reset.
LEMMA InitOrdered == Init => Ordered
BY DEF Init, fetch_reset, decode_reset, exec_reset, mult_reset,
      mems_reset, wrbk_reset, icache_reset, dcache_reset,
       Ordered, Empty, FetchMatches, DecodeMatches, FetchedAtPc,
       FetchFollowsDecode, DecodeFollowsExec, FetchFollowsExec, Frozen, localStall

\* A load-use stall is for the sake of an enabled instruction in decode, and
\* on account of an enabled load in exec.
LEMMA StallMeansLoadUse ==
  ASSUME TypeOK, stallSignals
  PROVE  dc.we /\ ex.we /\ ex.op = "LD" /\ ~isBranch_ex
<1>1. \E use \in {useRs1_dc, useRs2_dc, useRs3_dc},
         rs \in {dc.instr.rs1, dc.instr.rs2} : Forward(use, rs) = "STALL"
  BY DEF stallSignals, forward1, forward2, forward3
<1>2. PICK use \in {useRs1_dc, useRs2_dc, useRs3_dc},
         rs \in {dc.instr.rs1, dc.instr.rs2} : Forward(use, rs) = "STALL"
  BY <1>1
<1>3. use \in BOOLEAN /\ useRd_ex \in BOOLEAN
  BY <1>2, TypesAreWords, SignalTypes DEF useRs1_dc, useRs2_dc, useRs3_dc
<1>4. use /\ useRd_ex /\ ex.op = "LD"
  BY <1>2, <1>3 DEF Forward
<1> QED
  BY <1>2, <1>4 DEF useRs1_dc, useRs2_dc, useRs3_dc, useRd_ex, isBranch_ex

\* What each rising edge does to the pc and the validity of the stages.
LEMMA FrozenEdge ==
  ASSUME Posedge, Frozen
  PROVE  ex' = ex /\ dc' = dc /\ ft'.address = ft.address /\ ft'.we
BY DEF Posedge, fetch, decode, exec, Advance

\* A load-use stall sends a bubble to exec and holds the stages before it.
LEMMA LoadUseEdge ==
  ASSUME TypeOK, Posedge, ~Frozen, stallSignals
  PROVE  /\ ~ex'.we /\ dc' = dc /\ dc.we /\ ex.we
         /\ ex.op = "LD" /\ ~isBranch_ex
         /\ ft'.address = ft.address /\ ft'.opType = "LOAD" /\ ft'.we
BY StallMeansLoadUse
DEF Posedge, fetch, decode, exec, Advance, Frozen, TypeOK, LatchesOK

\* Every stage takes the instruction of the stage before it.
LEMMA AdvanceEdge ==
  ASSUME Posedge, Advance
  PROVE  /\ ex'.op = dc.instr.op /\ ex'.f3 = dc.instr.f3
         /\ ex'.f7 = dc.instr.f7 /\ ex'.rd = rd_dc
         /\ ex'.imm = dc.instr.imm /\ ex'.pc = dc.pc
         /\ ex'.we = (dc.we /\ ~isBranch_ex)
         /\ dc'.instr = ic.instr /\ dc'.pc = ft.address
         /\ dc'.we = (ft.we /\ ~isBranch_ex /\ ~isBranch_dc)
         /\ ft'.address = IF isBranch_ex THEN nextPC_ex
                          ELSE IF isBranch_dc THEN nextPC_dc ELSE ic.addOut
         /\ ft'.opType = "LOAD" /\ ft'.we
<1>1. exec /\ decode /\ fetch /\ ~Frozen /\ ~stallSignals /\ ~localStall
  BY DEF Posedge, Advance, Frozen
<1> QED
  BY <1>1 DEF exec, decode, fetch, Advance

\* The rising edge keeps the latches in order: frozen, stalled or advancing.
LEMMA PosedgeOrdered == ASSUME TypeOK, Ordered, Posedge PROVE Ordered'
<1> USE DEF Ordered
<1>1. /\ phase = "pos" /\ phase' = "neg" /\ imem' = imem /\ ic' = ic
  BY DEF Posedge
<1>2. CASE Frozen
  <2>1. ft.we
    BY <1>2 DEF Empty
  <2>2. /\ ex' = ex /\ dc' = dc /\ ft'.address = ft.address /\ ft'.we
    BY <1>2, FrozenEdge
  <2>3. FetchMatches'
    BY <1>1, <2>1, <2>2 DEF FetchMatches, Fetched
  <2> QED
    BY <1>1, <2>1, <2>2, <2>3
    DEF Empty, DecodeMatches, FetchedAtPc, FetchFollowsDecode, isBranch_dc,
        DecodeFollowsExec, FetchFollowsExec, isBranch_ex, Successor, nextPC_ex,
        Fetched
<1>3. CASE ~Frozen /\ stallSignals
  <2>1. /\ ~ex'.we /\ dc' = dc /\ dc.we /\ ft'.address = ft.address
        /\ ft'.opType = "LOAD" /\ ft'.we
    BY <1>3, LoadUseEdge
  <2> QED
    BY <1>1, <2>1
    DEF Empty, FetchMatches, DecodeMatches, FetchedAtPc, FetchFollowsDecode,
        isBranch_dc, DecodeFollowsExec, FetchFollowsExec, Fetched
<1>4. CASE Advance
  <2>1. /\ ex'.op = dc.instr.op /\ ex'.f3 = dc.instr.f3
        /\ ex'.f7 = dc.instr.f7 /\ ex'.rd = rd_dc
        /\ ex'.imm = dc.instr.imm /\ ex'.pc = dc.pc
        /\ ex'.we = (dc.we /\ ~isBranch_ex)
        /\ dc'.instr = ic.instr /\ dc'.pc = ft.address
        /\ dc'.we = (ft.we /\ ~isBranch_ex /\ ~isBranch_dc)
        /\ ft'.address = IF isBranch_ex THEN nextPC_ex
                         ELSE IF isBranch_dc THEN nextPC_dc ELSE ic.addOut
        /\ ft'.opType = "LOAD" /\ ft'.we
    BY <1>4, AdvanceEdge
  <2>2. ~ic.stall
    BY <1>4 DEF Advance, Frozen
  <2>3. ft.we => /\ ic.instr = Fetched(ft.address)
                 /\ ic.addOut = Add(ft.address, InstrBytes)
    BY <1>1, <2>2 DEF FetchMatches
  <2>4. Empty' /\ FetchMatches'
    BY <1>1, <2>1 DEF Empty, FetchMatches
  <2>5. DecodeMatches'
    BY <1>1, <2>1, <2>3 DEF DecodeMatches, Fetched
  <2>6. FetchedAtPc'
    BY <1>1, <2>1 DEF DecodeMatches, FetchedAtPc, rd_dc, Fetched
  <2>7. FetchFollowsDecode'
    BY <2>1, <2>3 DEF FetchFollowsDecode
  <2>8. ASSUME ex'.we, ~isBranch_ex'
        PROVE  Successor' = IF isBranch_dc THEN nextPC_dc
                            ELSE Add(dc.pc, InstrBytes)
    <3>1. dc.we
      BY <2>1, <2>8
    <3> QED
      BY <2>1, <2>8, <3>1 DEF Successor, isBranch_dc, nextPC_dc
  <2>9. DecodeFollowsExec'
    BY <2>1, <2>8 DEF DecodeFollowsExec, FetchFollowsDecode
  <2>10. FetchFollowsExec'
    <3>1. ASSUME ex'.we, ~dc'.we PROVE isBranch_dc /\ ~isBranch_ex
      BY <2>1, <3>1 DEF Empty
    <3> QED
      BY <2>1, <2>8, <3>1 DEF FetchFollowsExec
  <2> QED
    BY <2>4, <2>5, <2>6, <2>7, <2>9, <2>10
<1> QED
  BY <1>2, <1>3, <1>4 DEF Advance

\* The falling edge brings icache up to the address fetch has set.
LEMMA NegedgeOrdered == ASSUME TypeOK, Ordered, Negedge PROVE Ordered'
<1>1. /\ phase = "neg" /\ phase' = "pos" /\ icache
      /\ UNCHANGED <<imem, ft, dc, ex>>
  BY DEF Negedge
<1>2. ft.we
  BY <1>1 DEF Ordered, Empty
<1>3. FetchMatches'
  <2>1. CASE ic.stall \/ EndOfProgram
    BY <1>1, <2>1 DEF icache, FetchMatches, TypeOK, LatchesOK
  <2>2. CASE ~ic.stall /\ ~EndOfProgram /\ ft.opType = "LOAD"
    BY <1>1, <2>2 DEF icache, FetchMatches, Fetched
  <2>3. CASE ~ic.stall /\ ~EndOfProgram /\ ft.opType # "LOAD"
    BY <1>1, <1>2, <2>3 DEF icache, Ordered, FetchMatches, Fetched
  <2> QED
    BY <2>1, <2>2, <2>3
<1> QED
  BY <1>1, <1>2, <1>3
  DEF Ordered, Empty, DecodeMatches, FetchedAtPc, FetchFollowsDecode,
      isBranch_dc, DecodeFollowsExec, FetchFollowsExec, isBranch_ex, Successor,
      nextPC_ex, Fetched

\* Ordered is inductive, given the types.
LEMMA NextOrdered == Typed /\ Ordered /\ [Next]_vars => Ordered'
<1>1. ASSUME UNCHANGED vars, Ordered PROVE Ordered'
  BY <1>1
  DEF vars, Ordered, Empty, FetchMatches, DecodeMatches, FetchedAtPc,
      FetchFollowsDecode, DecodeFollowsExec, FetchFollowsExec, isBranch_dc,
      isBranch_ex, Successor, nextPC_ex, Fetched, Frozen, localStall
<1> QED
  BY <1>1, PosedgeOrdered, NegedgeOrdered DEF Typed, Next

\* The latches before mems always hold successive instructions of the
\* program's own control flow, whatever the data path computes and however
\* stalls, squashes and divisions fall.
THEOREM LatchesInOrder == Spec => []Ordered
BY InitTyped, InitOrdered, NextTyped, NextOrdered, PTL DEF Spec

\* No instruction reaches exec enabled that is not the word stored at its pc:
\* what icache showed a half cycle late was never paired with another address.
THEOREM ExecutesWhatIsStored == Spec => []FetchedAtPc
<1>1. Ordered => FetchedAtPc
  BY DEF Ordered
<1> QED
  BY <1>1, LatchesInOrder, PTL

\* A step either leaves the next instruction alone or moves on to its successor.
LEMMA StepInOrder ==
  ASSUME TypeOK, Ordered, Next
  PROVE  IF Commits THEN AbsPc' = Successor ELSE AbsPc' = AbsPc
<1> USE DEF Ordered
<1>1. CASE Negedge
  BY <1>1 DEF Negedge, Commits, AbsPc
<1>2. CASE Posedge /\ Frozen
  BY <1>2, FrozenEdge DEF Commits, AbsPc
<1>3. CASE Posedge /\ ~Frozen /\ stallSignals
  <2>1. /\ ~ex'.we /\ dc' = dc /\ dc.we /\ ex.we /\ ~isBranch_ex
    BY <1>3, LoadUseEdge
  <2>2. AbsPc' = dc.pc /\ dc.pc = Successor
    BY <2>1 DEF AbsPc, DecodeFollowsExec
  <2> QED
    BY <1>3, <2>1, <2>2 DEF Commits, Posedge
<1>4. CASE Posedge /\ Advance
  <2>1. /\ ex'.we = (dc.we /\ ~isBranch_ex) /\ ex'.pc = dc.pc
        /\ dc'.we = (ft.we /\ ~isBranch_ex /\ ~isBranch_dc)
        /\ dc'.pc = ft.address
        /\ ft'.address = IF isBranch_ex THEN nextPC_ex
                         ELSE IF isBranch_dc THEN nextPC_dc ELSE ic.addOut
    BY <1>4, AdvanceEdge
  <2>2. phase = "pos" /\ ~Frozen
    BY <1>4 DEF Posedge, Advance
  <2>3. CASE isBranch_ex
    <3>1. ex.we
      BY <2>3 DEF isBranch_ex
    <3> QED
      BY <2>1, <2>2, <2>3, <3>1 DEF Commits, AbsPc, Successor
  <2>4. CASE ~isBranch_ex /\ dc.we
    BY <2>1, <2>2, <2>4 DEF Commits, AbsPc, DecodeFollowsExec
  <2>5. CASE ~isBranch_ex /\ ~dc.we
    <3>1. ~isBranch_dc
      BY <2>5 DEF isBranch_dc
    <3>2. AbsPc' = ft.address
      BY <2>1, <2>5, <3>1 DEF AbsPc, Empty
    <3> QED
      BY <2>2, <2>5, <3>2 DEF Commits, AbsPc, FetchFollowsExec
  <2> QED
    BY <2>3, <2>4, <2>5
<1> QED
  BY <1>1, <1>2, <1>3, <1>4 DEF Next, Advance

\* Every executed instruction is followed by its successor: across stalls,
\* squashes, redirections from decode and from exec and divisions, nothing is
\* skipped and nothing is executed twice.
THEOREM ExecutesInOrder == Spec => InOrder
<1>1. Typed /\ Ordered /\ [Next]_vars
      => [IF Commits THEN AbsPc' = Successor ELSE AbsPc' = AbsPc]_vars
  BY StepInOrder DEF Typed
<1> QED
  BY <1>1, InitTyped, InitOrdered, NextTyped, NextOrdered, PTL DEF Spec, InOrder

-----------------------------------------------------------------------------
(* Where the value of every operand is: the inductive invariant.           *)

\* What the latches say of the instruction they hold.
Enabled ==
  /\ ex.useRd => ex.rd # 0
  /\ ex.we => (ex.useRd <=> /\ ex.rd # 0
                            /\ ex.op \in {"LUI", "AUIPC", "JAL", "JALR", "LD", "OPI", "OP"})
  /\ mm.useRd => mm.we /\ mm.rd # 0
  /\ wb.useRd => wb.we
  /\ rf[0] = 0

\* Nothing at RAADDRESS is ever executed.
NeverPastReturn ==
  /\ phase = "pos" /\ ~ic.stall => ft.address # RAADDRESS
  /\ dc.we => dc.pc # RAADDRESS
  /\ ex.we => ex.pc # RAADDRESS

\* An operand of the instruction in decode that no older instruction is about
\* to write is in wrbk or, as decode has read it, in decode.
UpToDate(use, rs, v) ==
  use /\ ~(useRd_ex /\ rs = ex.rd) /\ ~(mm.useRd /\ rs = mm.rd)
    => rf[rs] = IF wb.useRd /\ rs = wb.rd THEN wb.value ELSE v

DecodeExact ==
  ic.stall \/ /\ UpToDate(useRs1_dc, dc.instr.rs1, dc.v1)
              /\ UpToDate(useRs2_dc, dc.instr.rs2, dc.v2)
              /\ UpToDate(useRs3_dc, dc.instr.rs2, dc.v2)

\* The operands of the instruction i at address p, from the registers r.
LhsOf(i, p, r) ==
  IF i.op \in {"JALR", "BR", "LD", "ST", "OPI", "OP"} THEN r[i.rs1]
  ELSE IF i.op = "LUI" THEN i.imm
  ELSE IF i.op = "AUIPC" THEN p
  ELSE IF i.op = "JAL" THEN Add(p, InstrBytes) ELSE 0
RhsOf(i, r) ==
  IF i.op \in {"BR", "OP"} THEN r[i.rs2]
  ELSE IF i.op \in {"AUIPC", "JALR", "LD", "ST", "OPI"} THEN i.imm ELSE 0
DatacOf(i, r) == IF i.op = "ST" THEN r[i.rs2] ELSE 0

\* The instruction in exec has the operands that the sequential machine has.
ExecExact ==
  ex.we => LET i == Fetched(ex.pc)
           IN  /\ ex.lhs = LhsOf(i, ex.pc, AbsRegs)
               /\ ex.rhs = RhsOf(i, AbsRegs)
               /\ ex.datac = DatacOf(i, AbsRegs)

\* mult holds the instruction that exec holds.
MultFollowsExec ==
  /\ ~mu.isM => ~mu.valRet /\ mu.state = 0
  /\ ex.we => (mu.isM <=> ex.op = "OP" /\ ex.f7 = 1)
  /\ ex.we /\ mu.isM => mu.f3 = ex.f3 /\ mu.lhs = ex.lhs /\ mu.rhs = ex.rhs

\* The result of an M instruction.
MResult(f3, a, b) == IF IsDivision(f3) THEN Division(f3, a, b) ELSE MulAlu(f3, a, b)

\* The quotient and the remainder that m keeps are those of a and b.
QuotientsOf(m, a, b) == b # 0 /\ m.quotient = a \div b /\ m.remainder = a % b
Quotients(a, b) == QuotientsOf(mu, a, b)

\* The registers m of mult, f whether what they keep is foreign: m shows the
\* result of its instruction or is dividing its operands, and what it keeps
\* belongs to the operands it keeps, or to their magnitudes.
MultExactIn(m, f) ==
  /\ m.isM /\ m.state = 0 => m.valRet /\ m.result = MResult(m.f3, m.lhs, m.rhs)
  /\ m.state # 0
       => /\ ~f /\ IsDivision(m.f3) /\ ~DivByZero(m) /\ ~DivOverflow(m)
          /\ m.dataA = IF IsSignedDivision(m.f3) THEN Mag(m.lhs) ELSE m.lhs
          /\ m.dataB = IF IsSignedDivision(m.f3) THEN Mag(m.rhs) ELSE m.rhs
          /\ m.resIsNeg = (IsNeg(m.lhs) # IsNeg(m.rhs))
  /\ ~f /\ m.state = 0 => \/ QuotientsOf(m, m.dataA, m.dataB)
                          \/ QuotientsOf(m, Mag(m.dataA), Mag(m.dataB))
MultExact == MultExactIn(mu, foreign)

\* When fetch has come to RAADDRESS the stages before mems are empty, and mems
\* has nothing to load, to store or to print.
Drained ==
  ic.stall \/ (phase = "neg" /\ ft.address = RAADDRESS)
    => /\ ft.address = RAADDRESS /\ ~dc.we /\ ~ex.we
       /\ mm.opType = "NONE" /\ ~IsPrint(mm)

Exact == /\ Enabled /\ NeverPastReturn
         /\ ~lost => /\ DecodeExact /\ ExecExact /\ MultFollowsExec /\ MultExact
                     /\ Drained

-----------------------------------------------------------------------------
(* What an edge does to the state the sequential machine has.              *)

\* The registers of the core are of their types, the control bits Booleans.
LEMMA Bits ==
  ASSUME TypeOK
  PROVE  /\ dc.we \in BOOLEAN /\ ex.we \in BOOLEAN /\ ex.useRd \in BOOLEAN
         /\ mm.we \in BOOLEAN /\ mm.useRd \in BOOLEAN
         /\ wb.we \in BOOLEAN /\ wb.useRd \in BOOLEAN
         /\ mu.isM \in BOOLEAN /\ mu.valRet \in BOOLEAN /\ ic.stall \in BOOLEAN
         /\ rf \in [Reg -> Word] /\ mm.rd \in Reg /\ wb.rd \in Reg /\ ex.rd \in Reg
         /\ dc.instr \in Instr /\ dc.instr.rs1 \in Reg /\ dc.instr.rs2 \in Reg
         /\ 0 \in Reg
BY SizesAssumption DEF TypeOK, LatchesOK, MultRegs, Instr, Reg

\* A rising edge that is not frozen: mems takes what exec holds, and wrbk and
\* registerFile what mems held.
LEMMA MovesOn ==
  ASSUME TypeOK, Enabled, Posedge, ~Frozen
  PROVE  /\ phase = "pos" /\ phase' = "neg"
         /\ mm'.op = ex.op /\ mm'.f3 = ex.f3 /\ mm'.rd = ex.rd
         /\ mm'.useRd = useRd_ex /\ mm'.we = ex.we
         /\ mm'.result = result_ex_ex /\ mm'.datac = ex.datac
         /\ mm'.opType = IF ex.we /\ ex.op = "LD" THEN "LOAD"
                         ELSE IF ex.we /\ ex.op = "ST" THEN "STORE" ELSE "NONE"
         /\ wb'.useRd = mm.useRd
         /\ mm.useRd => wb'.rd = mm.rd /\ wb'.value = result_mem_mem /\ wb'.we
         /\ rf' = IF mm.useRd THEN [rf EXCEPT ![mm.rd] = result_mem_mem] ELSE rf
         /\ out' = IF IsPrint(mm) THEN Printed(out, rf[PrintReg]) ELSE out
         /\ imem' = imem /\ ic' = ic /\ dmem' = dmem /\ dmem_dataOut' = dmem_dataOut
<1>1. /\ phase = "pos" /\ phase' = "neg" /\ mems /\ wrbk
      /\ imem' = imem /\ ic' = ic /\ dmem' = dmem /\ dmem_dataOut' = dmem_dataOut
  BY DEF Posedge
<1>2. /\ mm'.op = ex.op /\ mm'.f3 = ex.f3 /\ mm'.rd = ex.rd
      /\ mm'.useRd = useRd_ex /\ mm'.we = ex.we
      /\ mm'.result = result_ex_ex /\ mm'.datac = ex.datac
      /\ mm'.opType = IF ex.we /\ ex.op = "LD" THEN "LOAD"
                      ELSE IF ex.we /\ ex.op = "ST" THEN "STORE" ELSE "NONE"
  BY <1>1, Bits DEF mems
<1>3. mm.useRd <=> mm.rd # 0 /\ mm.we /\ mm.useRd
  BY Bits DEF Enabled
<1> DEFINE l == [wb EXCEPT !.rd = mm.rd, !.useRd = mm.useRd, !.we = mm.we]
<1>4. /\ l.rd = mm.rd /\ l.useRd = mm.useRd /\ l.we = mm.we
      /\ l \in [rd : Reg, useRd : BOOLEAN, we : BOOLEAN, value : Word]
  BY Bits DEF TypeOK, LatchesOK
<1>5. /\ wb' = IF mm.useRd THEN [l EXCEPT !.value = result_mem_mem]
               ELSE [l EXCEPT !.rd = 0, !.useRd = FALSE]
      /\ rf' = IF mm.useRd THEN [rf EXCEPT ![mm.rd] = result_mem_mem] ELSE rf
      /\ out' = IF IsPrint(mm) THEN Printed(out, rf[PrintReg]) ELSE out
  <2> HIDE DEF l
  <2>1. /\ wb' = IF l.rd # 0 /\ l.we /\ l.useRd THEN [l EXCEPT !.value = result_mem_mem]
                 ELSE [l EXCEPT !.rd = 0, !.useRd = FALSE]
        /\ rf' = IF l.rd # 0 /\ l.we /\ l.useRd
                 THEN [rf EXCEPT ![l.rd] = result_mem_mem] ELSE rf
        /\ out' = IF IsPrint(mm) THEN Printed(out, rf[PrintReg]) ELSE out
    BY <1>1 DEF wrbk, l
  <2> QED
    BY <1>3, <1>4, <2>1
<1>6. /\ wb'.useRd = mm.useRd
      /\ mm.useRd => wb'.rd = mm.rd /\ wb'.value = result_mem_mem /\ wb'.we
  <2> HIDE DEF l
  <2> QED
    BY <1>3, <1>4, <1>5, Bits
<1> QED
  BY <1>1, <1>2, <1>5, <1>6

\* Registers, memory and output of the sequential machine, before a rising
\* edge that is not frozen, are those of the core after it.
LEMMA Settled ==
  ASSUME TypeOK, Enabled, Posedge, ~Frozen
  PROVE  rf' = AbsRegs /\ dmem' = AbsMem /\ out' = AbsOut
<1>1. phase = "pos" /\ PendingResult = result_mem_mem
  BY MovesOn DEF PendingResult
<1>2. mm.useRd <=> mm.rd # 0 /\ mm.we /\ mm.useRd
  BY Bits DEF Enabled
<1> QED
  BY <1>1, <1>2, MovesOn DEF AbsRegs, AbsMem, AbsOut

\* A frozen edge changes nothing of them, unless a load loses its answer.
LEMMA FrozenKeeps ==
  ASSUME TypeOK, Enabled, Posedge, Frozen, ~DivisionDropsLoad, Drained
  PROVE  AbsRegs' = AbsRegs /\ AbsMem' = AbsMem /\ AbsOut' = AbsOut
<1>1. /\ phase = "pos" /\ phase' = "neg" /\ rf' = rf /\ out' = out
      /\ dmem' = dmem /\ dmem_dataOut' = dmem_dataOut
      /\ mm' = [mm EXCEPT !.opType = "NONE"]
  BY DEF Posedge, mems, wrbk
<1>2. /\ mm'.op = mm.op /\ mm'.f3 = mm.f3 /\ mm'.rd = mm.rd /\ mm'.we = mm.we
      /\ mm'.useRd = mm.useRd /\ mm'.result = mm.result /\ mm'.opType = "NONE"
  BY <1>1 DEF TypeOK, LatchesOK
<1>3. mm.useRd => PendingResult = mm.result /\ PendingResult' = mm.result
  <2>1. mm.useRd => mm.opType # "LOAD"
    BY DEF Frozen, DivisionDropsLoad, Drained
  <2> QED
    BY <1>1, <1>2, <2>1 DEF PendingResult, result_mem_mem
<1>4. AbsRegs' = AbsRegs
  BY <1>1, <1>2, <1>3 DEF AbsRegs
<1>5. AbsMem' = AbsMem
  BY <1>1, <1>2 DEF AbsMem
<1>6. AbsOut' = AbsOut
  BY <1>1, <1>2 DEF AbsOut, IsPrint
<1> QED
  BY <1>4, <1>5, <1>6

\* The falling edge changes nothing of them: what the memories do then was
\* already certain.
LEMMA NegedgeKeeps ==
  ASSUME Negedge
  PROVE  AbsRegs' = AbsRegs /\ AbsMem' = AbsMem /\ AbsOut' = AbsOut
<1>1. /\ phase = "neg" /\ phase' = "pos" /\ mm' = mm /\ rf' = rf /\ out' = out
      /\ dcache
  BY DEF Negedge
<1>2. PendingResult' = PendingResult
  BY <1>1 DEF dcache, PendingResult, result_mem_mem
<1>3. AbsMem' = AbsMem
  BY <1>1 DEF dcache, AbsMem
<1> QED
  BY <1>1, <1>2, <1>3 DEF AbsRegs, AbsOut

-----------------------------------------------------------------------------
(* The latches.                                                            *)

\* exec takes over what decode says of the register to write.
LEMMA EnabledStep == ASSUME Typed, Enabled, Next PROVE Enabled'
<1> USE DEF Typed
<1>1. CASE Negedge
  BY <1>1 DEF Negedge, Enabled
<1>2. CASE Posedge /\ Frozen
  <2>1. /\ ex' = ex /\ rf' = rf
        /\ mm' = [mm EXCEPT !.opType = "NONE"]
        /\ \/ wb' = [wb EXCEPT !.value = result_mem_mem]
           \/ wb' = [wb EXCEPT !.rd = 0, !.useRd = FALSE]
    BY <1>2 DEF Posedge, exec, mems, wrbk
  <2>2. mm'.useRd = mm.useRd /\ mm'.we = mm.we /\ mm'.rd = mm.rd
    BY <2>1 DEF TypeOK, LatchesOK
  <2>3. wb'.useRd => wb.useRd /\ wb'.we = wb.we
    BY <2>1 DEF TypeOK, LatchesOK
  <2> QED
    BY <2>1, <2>2, <2>3 DEF Enabled
<1>3. CASE Posedge /\ ~Frozen
  <2>1. /\ mm'.useRd = (ex.useRd /\ ex.we) /\ mm'.we = ex.we /\ mm'.rd = ex.rd
        /\ wb'.useRd = mm.useRd /\ (mm.useRd => wb'.we)
        /\ rf' = IF mm.useRd THEN [rf EXCEPT ![mm.rd] = result_mem_mem] ELSE rf
    BY <1>3, MovesOn DEF useRd_ex
  <2>2. rf'[0] = 0
    BY <2>1, Bits DEF Enabled
  <2>3. CASE stallSignals
    <3>1. ex' = [ex EXCEPT !.we = FALSE, !.useRd = FALSE, !.imm = 0, !.pc = 0]
      BY <1>3, <2>3 DEF Posedge, exec
    <3>2. ~ex'.we /\ ~ex'.useRd
      BY <3>1 DEF TypeOK, LatchesOK
    <3> QED
      BY <2>1, <2>2, <3>2, Bits DEF Enabled
  <2>4. CASE ~stallSignals
    <3>1. /\ ex'.useRd = useRd_dc /\ ex'.rd = rd_dc /\ ex'.op = dc.instr.op
          /\ ex'.we = (dc.we /\ ~isBranch_ex)
      BY <1>3, <2>4 DEF Posedge, exec
    <3>2. useRd_dc <=> /\ dc.we /\ rd_dc # 0
                       /\ dc.instr.op \in {"LUI", "AUIPC", "JAL", "JALR", "LD", "OPI", "OP"}
      BY Bits DEF useRd_dc
    <3> QED
      BY <2>1, <2>2, <3>1, <3>2, Bits DEF Enabled
  <2> QED
    BY <2>3, <2>4
<1> QED
  BY <1>1, <1>2, <1>3 DEF Next

\* icache stops at RAADDRESS before decode can take what it shows.
LEMMA NeverPastReturnStep ==
  ASSUME Typed, Ordered, NeverPastReturn, Next PROVE NeverPastReturn'
<1> USE DEF Typed
<1>1. CASE Negedge
  BY <1>1 DEF Negedge, icache, EndOfProgram, NeverPastReturn
<1>2. CASE Posedge /\ Frozen
  BY <1>2, FrozenEdge DEF Posedge, NeverPastReturn
<1>3. CASE Posedge /\ ~Frozen /\ stallSignals
  BY <1>3, LoadUseEdge DEF Posedge, NeverPastReturn
<1>4. CASE Posedge /\ Advance
  <2>1. phase = "pos" /\ phase' = "neg" /\ ~ic.stall
    BY <1>4 DEF Posedge, Advance, Frozen
  <2>2. /\ ex'.pc = dc.pc /\ ex'.we = (dc.we /\ ~isBranch_ex)
        /\ dc'.pc = ft.address /\ dc'.we = (ft.we /\ ~isBranch_ex /\ ~isBranch_dc)
    BY <1>4, AdvanceEdge
  <2> QED
    BY <2>1, <2>2 DEF NeverPastReturn
<1> QED
  BY <1>1, <1>2, <1>3, <1>4 DEF Next, Advance

\* Only a jump or branch that leaves exec empty brings fetch to RAADDRESS.
LEMMA DrainedStep ==
  ASSUME Typed, NeverPastReturn, Drained, Next, phase = "pos" => ~Loses
  PROVE  Drained'
<1> USE DEF Typed
<1>1. CASE Negedge
  BY <1>1, Bits DEF Negedge, icache, EndOfProgram, Drained, TypeOK, LatchesOK
<1>2. CASE Posedge /\ ic.stall
  <2>1. /\ ex' = ex /\ dc' = dc /\ ft'.address = ft.address /\ phase' = "neg"
        /\ mm' = [mm EXCEPT !.opType = "NONE"]
    BY <1>2, FrozenEdge DEF Posedge, mems, Frozen
  <2>2. mm'.opType = "NONE" /\ mm'.op = mm.op /\ mm'.f3 = mm.f3
    BY <2>1 DEF TypeOK, LatchesOK
  <2> QED
    BY <1>2, <2>1, <2>2 DEF Drained, IsPrint
<1>3. CASE Posedge /\ ~ic.stall
  <2>1. ic' = ic /\ ft.address # RAADDRESS /\ ~EndOvertakes
    BY <1>3 DEF Posedge, NeverPastReturn, Loses
  <2>2. CASE ~Advance
    <3>1. ft'.address = ft.address
      BY <1>3, <2>2, FrozenEdge, LoadUseEdge DEF Advance
    <3> QED
      BY <1>3, <2>1, <3>1 DEF Drained
  <2>3. CASE Advance
    <3>1. ft'.address = RAADDRESS => isBranch_ex
      BY <1>3, <2>1, <2>3, AdvanceEdge DEF EndOvertakes
    <3>2. isBranch_ex => /\ ~ex'.we /\ ~dc'.we
                         /\ mm'.opType = "NONE" /\ ~IsPrint(mm')
      <4>1. /\ mm'.op = ex.op /\ mm'.f3 = ex.f3
            /\ mm'.opType = IF ex.we /\ ex.op = "LD" THEN "LOAD"
                            ELSE IF ex.we /\ ex.op = "ST" THEN "STORE" ELSE "NONE"
        BY <1>3, <2>3 DEF Posedge, mems, Advance
      <4>2. isBranch_ex => mm'.opType = "NONE" /\ ~IsPrint(mm')
        BY <4>1 DEF isBranch_ex, IsPrint
      <4>3. /\ ex'.we = (dc.we /\ ~isBranch_ex)
            /\ dc'.we = (ft.we /\ ~isBranch_ex /\ ~isBranch_dc)
        BY <1>3, <2>3, AdvanceEdge
      <4> QED
        BY <4>2, <4>3
    <3> QED
      BY <1>3, <2>1, <3>1, <3>2 DEF Drained
  <2> QED
    BY <2>2, <2>3
<1> QED
  BY <1>1, <1>2, <1>3 DEF Next

-----------------------------------------------------------------------------
(* Operands.                                                               *)

\* A held instruction in decode keeps its operands within reach, unless one of
\* them leaves wrbk.
LEMMA HeldUpToDate ==
  ASSUME TypeOK, Enabled, Posedge, ~Advance, ~ic.stall,
         NEW use \in BOOLEAN, NEW rs \in Reg, NEW v, UpToDate(use, rs, v),
         use /\ wb.useRd /\ rs = wb.rd => \/ useRd_ex /\ rs = ex.rd
                                          \/ mm.useRd /\ rs = mm.rd
  PROVE  use /\ ~(useRd_ex' /\ rs = ex'.rd) /\ ~(mm'.useRd /\ rs = mm'.rd)
           => rf'[rs] = IF wb'.useRd /\ rs = wb'.rd THEN wb'.value ELSE v
<1> SUFFICES ASSUME use, ~(useRd_ex' /\ rs = ex'.rd), ~(mm'.useRd /\ rs = mm'.rd)
             PROVE  rf'[rs] = IF wb'.useRd /\ rs = wb'.rd THEN wb'.value ELSE v
  OBVIOUS
<1>1. CASE Frozen
  <2>1. /\ ex' = ex /\ rf' = rf
        /\ mm' = [mm EXCEPT !.opType = "NONE"]
        /\ \/ wb' = [wb EXCEPT !.value = result_mem_mem]
           \/ wb' = [wb EXCEPT !.rd = 0, !.useRd = FALSE]
    BY <1>1 DEF Posedge, exec, mems, wrbk
  <2>2. mm'.useRd = mm.useRd /\ mm'.rd = mm.rd
    BY <2>1 DEF TypeOK, LatchesOK
  <2>3. wb'.useRd => wb.useRd /\ wb'.rd = wb.rd
    BY <2>1 DEF TypeOK, LatchesOK
  <2>4. ~(useRd_ex /\ rs = ex.rd) /\ ~(mm.useRd /\ rs = mm.rd)
    BY <2>1, <2>2 DEF useRd_ex
  <2>5. ~(wb.useRd /\ rs = wb.rd) /\ ~(wb'.useRd /\ rs = wb'.rd)
    BY <2>3, <2>4
  <2> QED
    BY <2>1, <2>4, <2>5 DEF UpToDate
<1>2. CASE ~Frozen
  <2>1. /\ mm'.useRd = useRd_ex /\ mm'.rd = ex.rd /\ wb'.useRd = mm.useRd
        /\ mm.useRd => wb'.rd = mm.rd /\ wb'.value = result_mem_mem
        /\ rf' = IF mm.useRd THEN [rf EXCEPT ![mm.rd] = result_mem_mem] ELSE rf
    BY <1>2, MovesOn
  <2>2. ~(useRd_ex /\ rs = ex.rd)
    BY <2>1
  <2>3. CASE mm.useRd /\ rs = mm.rd
    BY <2>1, <2>3, Bits
  <2>4. CASE ~(mm.useRd /\ rs = mm.rd)
    <3>1. rf[rs] = v
      BY <2>2, <2>4 DEF UpToDate
    <3> QED
      BY <2>1, <2>4, <3>1, Bits
  <2> QED
    BY <2>3, <2>4
<1> QED
  BY <1>1, <1>2

\* What decode has just read from registerFile is up to date, but for the
\* value that reaches registerFile at the same edge.
LEMMA ReadUpToDate ==
  ASSUME TypeOK, Enabled, Posedge, ~Frozen, NEW rs \in Reg
  PROVE  rf'[rs] = IF wb'.useRd /\ rs = wb'.rd THEN wb'.value ELSE rf[rs]
BY MovesOn, Bits

\* The operands of the instruction in decode stay within reach.
LEMMA DecodeExactStep ==
  ASSUME Typed, Enabled, DecodeExact, Next, phase = "pos" => ~Loses
  PROVE  DecodeExact'
<1> USE DEF Typed
<1>1. CASE Negedge
  <2>1. /\ dc' = dc /\ ex' = ex /\ mm' = mm /\ wb' = wb /\ rf' = rf
        /\ ic.stall => ic'.stall
    BY <1>1 DEF Negedge, icache, TypeOK, LatchesOK
  <2> QED
    BY <2>1 DEF DecodeExact, UpToDate, useRs1_dc, useRs2_dc, useRs3_dc, useRd_ex
<1>2. CASE Posedge /\ ic.stall
  BY <1>2 DEF Posedge, DecodeExact
<1>3. CASE Posedge /\ ~ic.stall /\ ~Advance
  <2>1. dc' = dc
    BY <1>3 DEF Posedge, decode
  <2>2. /\ useRs1_dc' = useRs1_dc /\ useRs2_dc' = useRs2_dc /\ useRs3_dc' = useRs3_dc
        /\ useRs1_dc \in BOOLEAN /\ useRs2_dc \in BOOLEAN /\ useRs3_dc \in BOOLEAN
    BY <2>1, Bits DEF useRs1_dc, useRs2_dc, useRs3_dc
  <2>3. ~OperandInWb
    <3>1. ~LoadUseDropsWb /\ ~DivisionDropsWb
      BY <1>3 DEF Posedge, Loses
    <3> QED
      BY <1>3, <3>1 DEF LoadUseDropsWb, DivisionDropsWb, Advance, Frozen
  <2>4. ASSUME NEW u \in {<<useRs1_dc, dc.instr.rs1>>, <<useRs2_dc, dc.instr.rs2>>,
                         <<useRs3_dc, dc.instr.rs2>>},
               u[1], wb.useRd, u[2] = wb.rd
        PROVE  \/ useRd_ex /\ u[2] = ex.rd
               \/ mm.useRd /\ u[2] = mm.rd
    BY <2>3, <2>4 DEF OperandInWb
  <2>5. /\ useRs1_dc /\ wb.useRd /\ dc.instr.rs1 = wb.rd
             => \/ useRd_ex /\ dc.instr.rs1 = ex.rd
                \/ mm.useRd /\ dc.instr.rs1 = mm.rd
        /\ useRs2_dc /\ wb.useRd /\ dc.instr.rs2 = wb.rd
             => \/ useRd_ex /\ dc.instr.rs2 = ex.rd
                \/ mm.useRd /\ dc.instr.rs2 = mm.rd
        /\ useRs3_dc /\ wb.useRd /\ dc.instr.rs2 = wb.rd
             => \/ useRd_ex /\ dc.instr.rs2 = ex.rd
                \/ mm.useRd /\ dc.instr.rs2 = mm.rd
    BY <2>4
  <2>6. /\ UpToDate(useRs1_dc, dc.instr.rs1, dc.v1)
        /\ UpToDate(useRs2_dc, dc.instr.rs2, dc.v2)
        /\ UpToDate(useRs3_dc, dc.instr.rs2, dc.v2)
    BY <1>3 DEF DecodeExact
  <2>7. UpToDate(useRs1_dc, dc.instr.rs1, dc.v1)'
    <3>1. useRs1_dc /\ ~(useRd_ex' /\ dc.instr.rs1 = ex'.rd) /\ ~(mm'.useRd /\ dc.instr.rs1 = mm'.rd)
            => rf'[dc.instr.rs1] = IF wb'.useRd /\ dc.instr.rs1 = wb'.rd THEN wb'.value ELSE dc.v1
      <4>1. useRs1_dc \in BOOLEAN /\ dc.instr.rs1 \in Reg
        BY <2>2, Bits
      <4> QED
        BY <1>3, <2>5, <2>6, <4>1, HeldUpToDate, ZenonT(40)
    <3> QED
      BY <2>1, <2>2, <3>1 DEF UpToDate
  <2>8. UpToDate(useRs2_dc, dc.instr.rs2, dc.v2)'
    <3>1. useRs2_dc /\ ~(useRd_ex' /\ dc.instr.rs2 = ex'.rd) /\ ~(mm'.useRd /\ dc.instr.rs2 = mm'.rd)
            => rf'[dc.instr.rs2] = IF wb'.useRd /\ dc.instr.rs2 = wb'.rd THEN wb'.value ELSE dc.v2
      <4>1. useRs2_dc \in BOOLEAN /\ dc.instr.rs2 \in Reg
        BY <2>2, Bits
      <4> QED
        BY <1>3, <2>5, <2>6, <4>1, HeldUpToDate, ZenonT(40)
    <3> QED
      BY <2>1, <2>2, <3>1 DEF UpToDate
  <2>9. UpToDate(useRs3_dc, dc.instr.rs2, dc.v2)'
    <3>1. useRs3_dc /\ ~(useRd_ex' /\ dc.instr.rs2 = ex'.rd) /\ ~(mm'.useRd /\ dc.instr.rs2 = mm'.rd)
            => rf'[dc.instr.rs2] = IF wb'.useRd /\ dc.instr.rs2 = wb'.rd THEN wb'.value ELSE dc.v2
      <4>1. useRs3_dc \in BOOLEAN /\ dc.instr.rs2 \in Reg
        BY <2>2, Bits
      <4> QED
        BY <1>3, <2>5, <2>6, <4>1, HeldUpToDate, ZenonT(40)
    <3> QED
      BY <2>1, <2>2, <3>1 DEF UpToDate
  <2> QED
    BY <2>7, <2>8, <2>9 DEF DecodeExact
<1>4. CASE Posedge /\ Advance
  <2>1. /\ dc'.instr = ic.instr /\ dc'.v1 = rf[ic.instr.rs1] /\ dc'.v2 = rf[ic.instr.rs2]
        /\ ~Frozen
    BY <1>4 DEF Posedge, decode, Advance
  <2>2. ic.instr.rs1 \in Reg /\ ic.instr.rs2 \in Reg
    BY DEF TypeOK, LatchesOK, Instr
  <2> QED
    BY <1>4, <2>1, <2>2, ReadUpToDate DEF DecodeExact, UpToDate
<1> QED
  BY <1>1, <1>2, <1>3, <1>4 DEF Next

\* The operand that forwardUnit selects is that of the sequential machine after
\* the instruction in exec.
LEMMA OperandExact ==
  ASSUME TypeOK, Enabled, Posedge, Advance, NEW rs \in Reg, NEW v,
         UpToDate(TRUE, rs, v), Forward(TRUE, rs) # "STALL"
  PROVE  Operand(Forward(TRUE, rs), result_ex_ex, v) = AbsRegs'[rs]
<1>1. /\ ~Frozen /\ ~localStall
      /\ useRd_ex <=> ex.useRd /\ ex.we
  BY DEF Advance, Frozen, useRd_ex
<1>2. /\ mm'.useRd = useRd_ex /\ mm'.rd = ex.rd /\ mm'.we = ex.we
      /\ mm'.result = result_ex_ex
      /\ ex.op # "LD" => mm'.opType # "LOAD"
      /\ rf' = IF mm.useRd THEN [rf EXCEPT ![mm.rd] = result_mem_mem] ELSE rf
  BY <1>1, MovesOn
<1>3. rf' \in [Reg -> Word]
  BY <1>2, Bits, TypesAreWords, SignalTypes
<1>4. AbsRegs' = IF useRd_ex THEN [rf' EXCEPT ![ex.rd] = PendingResult'] ELSE rf'
  <2>1. useRd_ex <=> mm'.rd # 0 /\ mm'.we /\ mm'.useRd
    BY <1>1, <1>2 DEF Enabled
  <2> QED
    BY <1>2, <2>1 DEF AbsRegs
<1>5. CASE useRd_ex /\ rs = ex.rd
  <2>1. ex.op # "LD" /\ Forward(TRUE, rs) = "EX" /\ ex.we
    BY <1>1, <1>5 DEF Forward
  <2>2. PendingResult' = result_ex_ex
    BY <1>2, <2>1 DEF PendingResult, result_mem_mem
  <2>3. Operand(Forward(TRUE, rs), result_ex_ex, v) = result_ex_ex
    BY <2>1 DEF Operand
  <2> QED
    BY <1>3, <1>4, <1>5, <2>2, <2>3
<1>6. CASE ~(useRd_ex /\ rs = ex.rd)
  <2>1. AbsRegs'[rs] = rf'[rs]
    BY <1>3, <1>4, <1>6
  <2>2. CASE mm.useRd /\ rs = mm.rd
    <3>1. Forward(TRUE, rs) = "MM" /\ mm.we
      BY <1>1, <1>6, <2>2 DEF Forward, Enabled
    <3>2. Operand(Forward(TRUE, rs), result_ex_ex, v) = result_mem_mem
      BY <3>1 DEF Operand
    <3> QED
      BY <1>2, <2>1, <2>2, <3>2, Bits
  <2>3. CASE ~(mm.useRd /\ rs = mm.rd)
    <3>1. /\ rf'[rs] = rf[rs]
          /\ rf[rs] = IF wb.useRd /\ rs = wb.rd THEN wb.value ELSE v
      BY <1>2, <1>6, <2>3, Bits DEF UpToDate
    <3>2. /\ Forward(TRUE, rs) = IF wb.useRd /\ rs = wb.rd THEN "WB" ELSE "NONE"
          /\ wb.useRd => wb.we
      BY <1>1, <1>6, <2>3 DEF Forward, Enabled
    <3>3. Operand(Forward(TRUE, rs), result_ex_ex, v)
            = IF wb.useRd /\ rs = wb.rd THEN wb.value ELSE v
      BY <3>2 DEF Operand
    <3> QED
      BY <2>1, <3>1, <3>3
  <2> QED
    BY <2>2, <2>3
<1> QED
  BY <1>5, <1>6

\* An operand that decode takes from the instruction itself is not forwarded.
LEMMA NotForwarded ==
  ASSUME NEW rs, NEW e, NEW d
  PROVE  Operand(Forward(FALSE, rs), e, d) = d
BY DEF Operand, Forward

\* The instruction that decode hands to exec gets the operands it has in the
\* sequential machine.
LEMMA OperandsExact ==
  ASSUME TypeOK, Enabled, DecodeExact, Posedge, Advance, dc.we
  PROVE  /\ Operand(forward1, result_ex_ex, lhs_dc) = LhsOf(dc.instr, dc.pc, AbsRegs')
         /\ Operand(forward2, result_ex_ex, rhs_dc) = RhsOf(dc.instr, AbsRegs')
         /\ Operand(forward3, result_ex_ex, datac_dc) = DatacOf(dc.instr, AbsRegs')
<1>1. /\ ~ic.stall /\ ~stallSignals
      /\ forward1 # "STALL" /\ forward2 # "STALL" /\ forward3 # "STALL"
  BY DEF Advance, Frozen, stallSignals
<1>2. /\ UpToDate(useRs1_dc, dc.instr.rs1, dc.v1)
      /\ UpToDate(useRs2_dc, dc.instr.rs2, dc.v2)
      /\ UpToDate(useRs3_dc, dc.instr.rs2, dc.v2)
  BY <1>1 DEF DecodeExact
<1>3. /\ useRs1_dc = (dc.instr.op \in {"JALR", "BR", "LD", "ST", "OPI", "OP"})
      /\ useRs2_dc = (dc.instr.op \in {"BR", "OP"})
      /\ useRs3_dc = (dc.instr.op = "ST")
  BY Bits DEF useRs1_dc, useRs2_dc, useRs3_dc
<1>4. Operand(forward1, result_ex_ex, lhs_dc) = LhsOf(dc.instr, dc.pc, AbsRegs')
  <2>1. CASE useRs1_dc
    <3>1. /\ lhs_dc = dc.v1
          /\ LhsOf(dc.instr, dc.pc, AbsRegs') = AbsRegs'[dc.instr.rs1]
      BY <1>3, <2>1 DEF lhs_dc, LhsOf
    <3>2. useRs1_dc = TRUE
      BY <1>3, <2>1
    <3> QED
      BY <1>1, <1>2, <3>1, <3>2, OperandExact, Bits DEF forward1
  <2>2. CASE ~useRs1_dc
    <3>1. useRs1_dc = FALSE
      BY <1>3, <2>2
    <3>2. lhs_dc = LhsOf(dc.instr, dc.pc, AbsRegs')
      BY <1>3, <2>2 DEF lhs_dc, LhsOf
    <3> QED
      BY <3>1, <3>2, NotForwarded DEF forward1
  <2> QED
    BY <2>1, <2>2
<1>5. Operand(forward2, result_ex_ex, rhs_dc) = RhsOf(dc.instr, AbsRegs')
  <2>1. CASE useRs2_dc
    <3>1. rhs_dc = dc.v2 /\ RhsOf(dc.instr, AbsRegs') = AbsRegs'[dc.instr.rs2]
      BY <1>3, <2>1 DEF rhs_dc, RhsOf
    <3>2. useRs2_dc = TRUE
      BY <1>3, <2>1
    <3> QED
      BY <1>1, <1>2, <3>1, <3>2, OperandExact, Bits DEF forward2
  <2>2. CASE ~useRs2_dc
    <3>1. useRs2_dc = FALSE
      BY <1>3, <2>2
    <3>2. rhs_dc = RhsOf(dc.instr, AbsRegs')
      BY <1>3, <2>2 DEF rhs_dc, RhsOf
    <3> QED
      BY <3>1, <3>2, NotForwarded DEF forward2
  <2> QED
    BY <2>1, <2>2
<1>6. Operand(forward3, result_ex_ex, datac_dc) = DatacOf(dc.instr, AbsRegs')
  <2>1. CASE useRs3_dc
    <3>1. datac_dc = dc.v2 /\ DatacOf(dc.instr, AbsRegs') = AbsRegs'[dc.instr.rs2]
      BY <1>3, <2>1 DEF datac_dc, DatacOf
    <3>2. useRs3_dc = TRUE
      BY <1>3, <2>1
    <3> QED
      BY <1>1, <1>2, <3>1, <3>2, OperandExact, Bits DEF forward3
  <2>2. CASE ~useRs3_dc
    <3>1. useRs3_dc = FALSE
      BY <1>3, <2>2
    <3>2. datac_dc = DatacOf(dc.instr, AbsRegs')
      BY <1>3, <2>2 DEF datac_dc, DatacOf
    <3> QED
      BY <3>1, <3>2, NotForwarded DEF forward3
  <2> QED
    BY <2>1, <2>2
<1> QED
  BY <1>4, <1>5, <1>6

\* The operands in exec are, and stay, those of the sequential machine.
LEMMA ExecExactStep ==
  ASSUME Typed, Ordered, Enabled, DecodeExact, ExecExact, Drained, Next,
         phase = "pos" => ~Loses
  PROVE  ExecExact'
<1> USE DEF Typed
<1>1. CASE Negedge
  <2>1. ex' = ex /\ imem' = imem /\ AbsRegs' = AbsRegs
    BY <1>1, NegedgeKeeps DEF Negedge
  <2> QED
    BY <2>1 DEF ExecExact, Fetched, LhsOf, RhsOf, DatacOf
<1>2. CASE Posedge /\ Frozen
  <2>1. ex' = ex /\ imem' = imem
    BY <1>2, FrozenEdge DEF Posedge
  <2>2. ~DivisionDropsLoad
    BY <1>2 DEF Posedge, Loses
  <2>3. AbsRegs' = AbsRegs
    BY <1>2, <2>2, FrozenKeeps
  <2> QED
    BY <2>1, <2>3 DEF ExecExact, Fetched, LhsOf, RhsOf, DatacOf
<1>3. CASE Posedge /\ ~Frozen /\ stallSignals
  <2>1. ~ex'.we
    BY <1>3, LoadUseEdge
  <2> QED
    BY <2>1 DEF ExecExact
<1>4. CASE Posedge /\ Advance
  <2>1. /\ ex'.we = (dc.we /\ ~isBranch_ex) /\ ex'.pc = dc.pc
        /\ ex'.lhs = Operand(forward1, result_ex_ex, lhs_dc)
        /\ ex'.rhs = Operand(forward2, result_ex_ex, rhs_dc)
        /\ ex'.datac = Operand(forward3, result_ex_ex, datac_dc)
        /\ imem' = imem
    BY <1>4 DEF Posedge, exec, Advance
  <2>2. dc.we => dc.instr = Fetched(dc.pc)
    BY DEF Ordered, DecodeMatches
  <2>3. ASSUME ex'.we
        PROVE  /\ Fetched(ex.pc)' = dc.instr
               /\ ex'.lhs = LhsOf(dc.instr, dc.pc, AbsRegs')
               /\ ex'.rhs = RhsOf(dc.instr, AbsRegs')
               /\ ex'.datac = DatacOf(dc.instr, AbsRegs')
    BY <1>4, <2>1, <2>2, <2>3, OperandsExact DEF Fetched
  <2> QED
    BY <2>1, <2>3 DEF ExecExact, LhsOf, RhsOf, DatacOf
<1> QED
  BY <1>1, <1>2, <1>3, <1>4 DEF Next, Advance

-----------------------------------------------------------------------------
(* The instruction in mult.                                                *)

\* mult keeps the instruction it has latched.
LEMMA MultKeeps ==
  ASSUME WordsOK, mult
  PROVE  /\ mu'.isM = MultLatched.isM /\ mu'.f3 = MultLatched.f3
         /\ mu'.lhs = MultLatched.lhs /\ mu'.rhs = MultLatched.rhs
         /\ ~mu'.isM => ~mu'.valRet /\ mu'.state = mu.state
<1> DEFINE l == MultLatched
<1>1. l \in MultRegs(Nat) /\ l.state = mu.state
  BY MultLatchedTyped
<1>2. mu' = IF ~l.isM THEN [l EXCEPT !.valRet = FALSE]
            ELSE IF l.state = 0 THEN MultStart(l) ELSE MultIterate(l)
  BY DEF mult
<1> HIDE DEF l
<1>3. CASE ~l.isM
  BY <1>1, <1>2, <1>3 DEF MultRegs, l
<1>4. CASE l.isM /\ l.state = 0
  <2> DEFINE s == [l EXCEPT !.fwd = ForwardFlags(l), !.dataA = l.lhs,
                            !.dataB = l.rhs,
                            !.resIsNeg = IsNeg(l.lhs) # IsNeg(l.rhs)]
             Kept(t) == t.isM = l.isM /\ t.f3 = l.f3 /\ t.lhs = l.lhs /\ t.rhs = l.rhs
  <2>1. Kept(s)
    BY <1>1 DEF MultRegs
  <2>2. Kept(MultStart(l))
    <3> DEFINE S1(A, B, v) == [s EXCEPT !.state = DivSteps, !.quotient = 0,
                                        !.remainder = 0, !.dataA = A, !.dataB = B,
                                        !.valRet = (l.f3 = M_DIV), !.result = v]
               S2(v) == [s EXCEPT !.valRet = TRUE, !.result = v]
    <3>1. \/ \E A, B, v : MultStart(l) = S1(A, B, v)
          \/ \E v : MultStart(l) = S2(v)
      BY ZenonT(40) DEF MultStart
    <3>2. \A A, B, v : Kept(S1(A, B, v)) /\ Kept(S2(v))
      BY <1>1 DEF MultRegs
    <3> HIDE DEF S1, S2, Kept
    <3> QED
      BY <3>1, <3>2
  <2> QED
    BY <1>2, <1>4, <2>2 DEF l
<1>5. CASE l.isM /\ l.state # 0
  BY <1>1, <1>2, <1>5 DEF MultRegs, MultIterate, l
<1> QED
  BY <1>1, <1>3, <1>4, <1>5

\* mult and exec take over the same instruction, with the same operands.
LEMMA MultFollowsExecStep ==
  ASSUME Typed, MultFollowsExec, Next, phase = "pos" => ~Loses
  PROVE  MultFollowsExec'
<1> USE DEF Typed
<1>1. CASE Negedge
  BY <1>1 DEF Negedge, MultFollowsExec
<1>2. CASE Posedge
  <2>1. /\ mu'.isM = MultLatched.isM /\ mu'.f3 = MultLatched.f3
        /\ mu'.lhs = MultLatched.lhs /\ mu'.rhs = MultLatched.rhs
        /\ ~mu'.isM => ~mu'.valRet /\ mu'.state = mu.state
    BY <1>2, TypesAreWords, MultKeeps DEF Posedge
  <2>2. CASE ~Advance
    <3>1. MultLatched = mu
      BY <2>2 DEF MultLatched
    <3>2. CASE Frozen
      BY <1>2, <2>1, <3>1, <3>2, FrozenEdge DEF MultFollowsExec
    <3>3. CASE ~Frozen
      <4>1. ~ex'.we
        BY <1>2, <2>2, <3>3, LoadUseEdge DEF Advance
      <4> QED
        BY <2>1, <3>1, <4>1 DEF MultFollowsExec
    <3> QED
      BY <3>2, <3>3
  <2>3. CASE Advance
    <3>1. /\ MultLatched.isM = IsM(dc.instr) /\ MultLatched.f3 = dc.instr.f3
          /\ MultLatched.lhs = Operand(forward1, result_ex, lhs_dc)
          /\ MultLatched.rhs = Operand(forward2, result_ex, rhs_dc)
      BY <2>3, Bits DEF MultLatched, TypeOK, MultRegs
    <3>2. /\ ex'.op = dc.instr.op /\ ex'.f3 = dc.instr.f3 /\ ex'.f7 = dc.instr.f7
          /\ ex'.lhs = Operand(forward1, result_ex_ex, lhs_dc)
          /\ ex'.rhs = Operand(forward2, result_ex_ex, rhs_dc)
      BY <1>2, <2>3 DEF Posedge, exec, Advance
    <3>3. mu.state = 0 \/ mu'.isM
      BY <2>3 DEF Advance, Frozen, localStall, MultFollowsExec
    <3>4. ~MulAfterMul
      BY <1>2 DEF Posedge, Loses
    <3>5. ASSUME mu'.isM
          PROVE  mu'.lhs = ex'.lhs /\ mu'.rhs = ex'.rhs
      <4>1. ~(mu.valRet /\ ex.we /\ (forward1 = "EX" \/ forward2 = "EX"))
        BY <2>1, <2>3, <3>1, <3>4, <3>5 DEF MulAfterMul
      <4>2. /\ Operand(forward1, result_ex, lhs_dc) = Operand(forward1, result_ex_ex, lhs_dc)
            /\ Operand(forward2, result_ex, rhs_dc) = Operand(forward2, result_ex_ex, rhs_dc)
        BY <4>1 DEF Operand, result_ex_ex
      <4> QED
        BY <2>1, <3>1, <3>2, <4>2
    <3> QED
      BY <2>1, <3>1, <3>2, <3>3, <3>5 DEF MultFollowsExec, IsM
  <2> QED
    BY <2>2, <2>3
<1> QED
  BY <1>1, <1>2 DEF Next

\* A number that is a word's, or its opposite's, is the word's magnitude, and
\* its own.
LEMMA SignedMagnitude ==
  ASSUME NEW a \in Word, NEW x \in Word, a = Signed(x) \/ a = -Signed(x)
  PROVE  Mag(x) = a /\ Mag(a) = a /\ (a = Signed(x) => a = x)
<1>1. a \in 0 .. (Modulus - 1) /\ x \in 0 .. (Modulus - 1) /\ Modulus \in Nat
  BY SizesAssumption DEF Word
<1>2. CASE ~IsNeg(x)
  <2>1. Signed(x) = x /\ Mag(x) = x /\ 2 * x < Modulus
    BY <1>1, <1>2 DEF Signed, Mag, IsNeg
  <2>2. a = x
    BY <1>1, <2>1
  <2> QED
    BY <2>1, <2>2
<1>3. CASE IsNeg(x)
  <2>1. Signed(x) = x - Modulus /\ Mag(x) = Neg(x) /\ 2 * x >= Modulus
    BY <1>1, <1>3 DEF Signed, Mag, IsNeg
  <2>2. a = Modulus - x /\ a # Signed(x)
    BY <1>1, <2>1
  <2>3. Neg(x) = a
    BY <1>1, <2>2 DEF Neg, Wrap
  <2>4. Mag(a) = a
    <3>1. CASE ~IsNeg(a)
      BY <3>1 DEF Mag
    <3>2. CASE IsNeg(a)
      <4>1. 2 * a >= Modulus
        BY <1>1, <3>2 DEF IsNeg
      <4>2. a = x
        BY <1>1, <2>1, <2>2, <4>1
      <4> QED
        BY <2>3, <3>2, <4>2 DEF Mag
    <3> QED
      BY <3>1, <3>2
  <2> QED
    BY <2>1, <2>2, <2>3, <2>4
<1> QED
  BY <1>2, <1>3

\* A quotient that is found again is that of the magnitudes of the operands,
\* and for an unsigned division of the operands themselves.
LEMMA ReusedQuotient ==
  ASSUME WordsOK, NEW l \in MultRegs(Nat), Reuses(l),
         \/ Quotients(mu.dataA, mu.dataB)
         \/ Quotients(Mag(mu.dataA), Mag(mu.dataB))
  PROVE  /\ Quotients(Mag(l.lhs), Mag(l.rhs))
         /\ l.f3 # M_REM => Quotients(l.lhs, l.rhs)
         /\ l.f3 \in {M_DIVU, M_REMU, M_REM}
<1> DEFINE a == mu.dataA
           b == mu.dataB
<1>1. a \in Word /\ b \in Word /\ l.lhs \in Word /\ l.rhs \in Word
  BY DEF WordsOK, MultRegs
<1>2. /\ l.f3 \in {M_DIVU, M_REMU, M_REM}
      /\ a = Signed(l.lhs) \/ a = -Signed(l.lhs)
      /\ b = Signed(l.rhs) \/ b = -Signed(l.rhs)
      /\ l.f3 # M_REM => a = Signed(l.lhs) /\ b = Signed(l.rhs)
  BY DEF Reuses, ForwardFlags
<1> HIDE DEF a, b
<1>3. /\ Mag(l.lhs) = a /\ Mag(a) = a /\ (a = Signed(l.lhs) => a = l.lhs)
      /\ Mag(l.rhs) = b /\ Mag(b) = b /\ (b = Signed(l.rhs) => b = l.rhs)
  BY <1>1, <1>2, SignedMagnitude
<1>4. Quotients(a, b)
  BY <1>3 DEF a, b
<1> QED
  BY <1>2, <1>3, <1>4

\* What mult keeps of a start, and what it shows at once.
LEMMA StartKeeps ==
  ASSUME NEW l \in MultRegs(Nat), l.state = 0
  PROVE  /\ StartsDivision(l) =>
              /\ MultStart(l).state = DivSteps
              /\ MultStart(l).dataA
                   = IF IsSignedDivision(l.f3) THEN Mag(l.lhs) ELSE l.lhs
              /\ MultStart(l).dataB
                   = IF IsSignedDivision(l.f3) THEN Mag(l.rhs) ELSE l.rhs
              /\ MultStart(l).resIsNeg = (IsNeg(l.lhs) # IsNeg(l.rhs))
         /\ ~StartsDivision(l) =>
              /\ MultStart(l).state = 0 /\ MultStart(l).valRet
              /\ MultStart(l).dataA = l.lhs /\ MultStart(l).dataB = l.rhs
              /\ MultStart(l).quotient = l.quotient
              /\ MultStart(l).remainder = l.remainder
              /\ MultStart(l).result =
                   IF ~IsDivision(l.f3) THEN MulAlu(l.f3, l.lhs, l.rhs)
                   ELSE IF DivByZero(l)
                   THEN IF l.f3 \in {M_DIV, M_DIVU} THEN Wrap(-1) ELSE l.lhs
                   ELSE IF DivOverflow(l) THEN IF l.f3 = M_DIV THEN MinInt ELSE 0
                   ELSE IF l.f3 = M_DIVU THEN mu.quotient
                   ELSE IF l.f3 = M_REM THEN SignedIf(IsNeg(l.lhs), mu.remainder)
                   ELSE mu.remainder
<1> DEFINE s == [l EXCEPT !.fwd = ForwardFlags(l), !.dataA = l.lhs,
                          !.dataB = l.rhs,
                          !.resIsNeg = IsNeg(l.lhs) # IsNeg(l.rhs)]
           A == IF IsSignedDivision(l.f3) THEN Mag(l.lhs) ELSE l.lhs
           B == IF IsSignedDivision(l.f3) THEN Mag(l.rhs) ELSE l.rhs
<1>1. /\ s.f3 = l.f3 /\ s.lhs = l.lhs /\ s.rhs = l.rhs /\ s.state = 0
      /\ s.dataA = l.lhs /\ s.dataB = l.rhs
      /\ s.quotient = l.quotient /\ s.remainder = l.remainder
      /\ s.resIsNeg = (IsNeg(l.lhs) # IsNeg(l.rhs))
  BY DEF MultRegs
<1>2. DOMAIN s = {"isM", "f3", "lhs", "rhs", "result", "valRet", "state", "quotient",
                  "remainder", "dataA", "dataB", "resIsNeg", "fwd"}
  BY DEF MultRegs
<1>3. CASE StartsDivision(l)
  <2> DEFINE v == IF l.f3 = M_DIV
                  THEN DivResult(s, mu.quotient, mu.remainder) ELSE s.result
             t == [s EXCEPT !.state = DivSteps, !.quotient = 0, !.remainder = 0,
                            !.dataA = A, !.dataB = B, !.valRet = (l.f3 = M_DIV),
                            !.result = v]
  <2>1. MultStart(l) = t
    BY <1>3 DEF MultStart
  <2> HIDE DEF s, A, B, v
  <2>2. t.state = DivSteps /\ t.dataA = A /\ t.dataB = B /\ t.resIsNeg = s.resIsNeg
    BY <1>2
  <2> HIDE DEF t
  <2> QED
    BY <1>1, <1>3, <2>1, <2>2 DEF A, B
<1>4. CASE ~StartsDivision(l)
  <2> DEFINE v == IF ~IsDivision(l.f3) THEN MulAlu(l.f3, l.lhs, l.rhs)
                  ELSE IF DivByZero(l)
                  THEN IF l.f3 \in {M_DIV, M_DIVU} THEN Wrap(-1) ELSE l.lhs
                  ELSE IF DivOverflow(l) THEN IF l.f3 = M_DIV THEN MinInt ELSE 0
                  ELSE DivResult(s, mu.quotient, mu.remainder)
             t == [s EXCEPT !.valRet = TRUE, !.result = v]
  <2>1. MultStart(l) = t
    BY <1>4 DEF MultStart
  <2> HIDE DEF s, v
  <2>2. /\ t.state = s.state /\ t.valRet /\ t.dataA = s.dataA /\ t.dataB = s.dataB
        /\ t.quotient = s.quotient /\ t.remainder = s.remainder /\ t.result = v
    BY <1>2
  <2>3. l.f3 # M_DIV \/ ~IsDivision(l.f3) \/ DivByZero(l) \/ DivOverflow(l)
    BY <1>4 DEF StartsDivision, Reuses, M_DIV, M_DIVU, M_REM, M_REMU
  <2>4. l.f3 # M_DIV
          => DivResult(s, mu.quotient, mu.remainder)
               = IF l.f3 = M_DIVU THEN mu.quotient
                 ELSE IF l.f3 = M_REM THEN SignedIf(IsNeg(l.lhs), mu.remainder)
                 ELSE mu.remainder
    BY <1>1 DEF DivResult
  <2> HIDE DEF t
  <2> QED
    BY <1>1, <1>4, <2>1, <2>2, <2>3, <2>4 DEF v
<1> QED
  BY <1>3, <1>4

\* What mult shows at once is the result, provided that a quotient found again
\* is the right one.
LEMMA AnswerExact ==
  ASSUME WordsOK, NEW l \in MultRegs(Nat), l.state = 0, ~StartsDivision(l),
         ReusesQuotient(l) => \/ Quotients(mu.dataA, mu.dataB)
                              \/ Quotients(Mag(mu.dataA), Mag(mu.dataB))
  PROVE  MultStart(l).result = MResult(l.f3, l.lhs, l.rhs)
<1>1. CASE ~IsDivision(l.f3)
  BY <1>1, StartKeeps DEF MResult
<1>2. CASE IsDivision(l.f3) /\ ~ReusesQuotient(l)
  <2>1. DivByZero(l) \/ DivOverflow(l)
    BY <1>2 DEF StartsDivision, ReusesQuotient
  <2> QED
    BY <1>2, <2>1, StartKeeps
    DEF MResult, Division, DivByZero, DivOverflow
<1>3. CASE ReusesQuotient(l)
  <2>1. /\ Quotients(Mag(l.lhs), Mag(l.rhs))
        /\ l.f3 # M_REM => Quotients(l.lhs, l.rhs)
        /\ l.f3 \in {M_DIVU, M_REMU, M_REM}
    BY <1>3, ReusedQuotient DEF ReusesQuotient
  <2>2. IsDivision(l.f3) /\ ~DivByZero(l) /\ ~DivOverflow(l) /\ l.f3 # M_DIV
    BY <1>3, <2>1 DEF ReusesQuotient, M_DIV, M_DIVU, M_REM, M_REMU
  <2>3. MultStart(l).result = IF l.f3 = M_DIVU THEN mu.quotient
                              ELSE IF l.f3 = M_REM THEN SignedIf(IsNeg(l.lhs), mu.remainder)
                              ELSE mu.remainder
    BY <2>2, StartKeeps
  <2>4. MResult(l.f3, l.lhs, l.rhs)
          = IF l.f3 = M_DIVU THEN l.lhs \div l.rhs
            ELSE IF l.f3 = M_REM THEN SignedIf(IsNeg(l.lhs), Mag(l.lhs) % Mag(l.rhs))
            ELSE l.lhs % l.rhs
    BY <2>2 DEF MResult, Division, DivByZero, DivOverflow
  <2> QED
    BY <2>1, <2>3, <2>4 DEF Quotients, QuotientsOf, M_DIVU, M_REM, M_REMU
<1> QED
  BY <1>1, <1>2, <1>3

\* The last cycle of a division shows its quotient or its remainder.
LEMMA IterateExact ==
  ASSUME NEW l \in MultRegs(Nat), IsDivision(l.f3), ~DivByZero(l), ~DivOverflow(l),
         l.dataA = IF IsSignedDivision(l.f3) THEN Mag(l.lhs) ELSE l.lhs,
         l.dataB = IF IsSignedDivision(l.f3) THEN Mag(l.rhs) ELSE l.rhs,
         l.resIsNeg = (IsNeg(l.lhs) # IsNeg(l.rhs))
  PROVE  DivResult(l, l.dataA \div l.dataB, l.dataA % l.dataB)
           = MResult(l.f3, l.lhs, l.rhs)
<1>1. /\ MResult(l.f3, l.lhs, l.rhs) = Division(l.f3, l.lhs, l.rhs)
      /\ l.rhs # 0
      /\ ~(IsSignedDivision(l.f3) /\ l.lhs = MinInt /\ l.rhs = OverflowDivisor)
  BY DEF MResult, DivByZero, DivOverflow
<1>2. l.f3 \in {M_DIV, M_DIVU, M_REM, M_REMU}
  BY DEF IsDivision
<1>3. CASE l.f3 = M_DIV
  BY <1>1, <1>3 DEF DivResult, Division, IsSignedDivision
<1>4. CASE l.f3 = M_DIVU
  BY <1>1, <1>4 DEF DivResult, Division, IsSignedDivision, M_DIV, M_DIVU, M_REM, M_REMU
<1>5. CASE l.f3 = M_REM
  BY <1>1, <1>5 DEF DivResult, Division, IsSignedDivision, M_DIV, M_DIVU, M_REM, M_REMU
<1>6. CASE l.f3 = M_REMU
  BY <1>1, <1>6 DEF DivResult, Division, IsSignedDivision, M_DIV, M_DIVU, M_REM, M_REMU
<1> QED
  BY <1>2, <1>3, <1>4, <1>5, <1>6

\* What mult shows and what it keeps stay right, unless it finds a quotient of
\* other operands.
LEMMA MultExactStep ==
  ASSUME Typed, MultFollowsExec, MultExact, HNext, foreign \in BOOLEAN,
         phase = "pos" => ~Loses
  PROVE  MultExact'
<1> USE DEF Typed
<1> DEFINE l == MultLatched
<1>1. CASE HNegedge
  BY <1>1 DEF HNegedge, Negedge, MultExact, MultExactIn, QuotientsOf, DivByZero, DivOverflow
<1>2. CASE HPosedge
  <2>1. /\ mu' = IF ~l.isM THEN [l EXCEPT !.valRet = FALSE]
                 ELSE IF l.state = 0 THEN MultStart(l) ELSE MultIterate(l)
        /\ foreign' = IF ~Answers(l) \/ ReusesQuotient(l) THEN foreign
                      ELSE ~StartsDivision(l)
        /\ ~StaleQuotient
    BY <1>2 DEF HPosedge, Posedge, mult, Loses
  <2>2. WordsOK /\ l \in MultRegs(Nat) /\ l.state = mu.state
    BY TypesAreWords, MultLatchedTyped
  <2>3. /\ l.dataA = mu.dataA /\ l.dataB = mu.dataB
        /\ l.quotient = mu.quotient /\ l.remainder = mu.remainder
    BY DEF MultLatched, TypeOK, MultRegs
  <2>4. /\ l.state # 0 => l = mu /\ mu.isM
        /\ ~l.isM => l.state = 0
    <3>1. CASE Advance
      BY <2>2, <3>1 DEF Advance, Frozen, localStall, MultFollowsExec
    <3>2. CASE ~Advance
      BY <3>2 DEF MultLatched, MultFollowsExec
    <3> QED
      BY <3>1, <3>2
  <2>5. Answers(l) <=> l.isM /\ l.state = 0
    BY DEF Answers
  <2>6. Answers(l) /\ ReusesQuotient(l) => ~foreign
    BY <2>1 DEF StaleQuotient
  <2> HIDE DEF l
  <2>7. ~foreign /\ mu.state = 0
          => Quotients(mu.dataA, mu.dataB) \/ Quotients(Mag(mu.dataA), Mag(mu.dataB))
    BY DEF MultExact, MultExactIn, Quotients
  <2>8. MultExactIn(mu', foreign')
    <3>1. CASE ~l.isM
      <4>1. mu' = [l EXCEPT !.valRet = FALSE] /\ foreign' = foreign /\ l.state = 0
        BY <2>1, <2>4, <2>5, <3>1
      <4>2. /\ mu'.isM = l.isM /\ mu'.state = 0
            /\ mu'.dataA = mu.dataA /\ mu'.dataB = mu.dataB
            /\ mu'.quotient = mu.quotient /\ mu'.remainder = mu.remainder
        BY <2>2, <2>3, <4>1 DEF MultRegs
      <4> QED
        BY <2>2, <2>7, <3>1, <4>1, <4>2 DEF MultExactIn, Quotients, QuotientsOf
    <3>2. CASE l.isM /\ l.state = 0 /\ StartsDivision(l)
      <4>1. /\ mu' = MultStart(l) /\ ~ReusesQuotient(l) /\ ~foreign'
            /\ IsDivision(l.f3) /\ ~DivByZero(l) /\ ~DivOverflow(l)
        BY <2>1, <2>5, <3>2 DEF StartsDivision, ReusesQuotient
      <4>2. mu'.f3 = l.f3 /\ mu'.lhs = l.lhs /\ mu'.rhs = l.rhs
        BY <1>2, <2>2, MultKeeps DEF HPosedge, Posedge, l
      <4>3. ~DivByZero(mu') /\ ~DivOverflow(mu')
        BY <4>1, <4>2 DEF DivByZero, DivOverflow
      <4>4. DivSteps # 0
        BY DivStepsAssumption
      <4> QED
        BY <2>2, <3>2, <4>1, <4>2, <4>3, <4>4, StartKeeps DEF MultExactIn
    <3>3. CASE l.isM /\ l.state = 0 /\ ~StartsDivision(l)
      <4>1. mu' = MultStart(l)
        BY <2>1, <3>3
      <4>2. mu'.f3 = l.f3 /\ mu'.lhs = l.lhs /\ mu'.rhs = l.rhs
        BY <1>2, <2>2, MultKeeps DEF HPosedge, Posedge, l
      <4>3. /\ mu'.state = 0 /\ mu'.valRet /\ mu'.dataA = l.lhs /\ mu'.dataB = l.rhs
            /\ mu'.quotient = mu.quotient /\ mu'.remainder = mu.remainder
        BY <2>2, <2>3, <3>3, <4>1, StartKeeps
      <4>4. ReusesQuotient(l) => \/ Quotients(mu.dataA, mu.dataB)
                                 \/ Quotients(Mag(mu.dataA), Mag(mu.dataB))
        BY <2>2, <2>5, <2>6, <2>7, <3>3
      <4>5. mu'.result = MResult(l.f3, l.lhs, l.rhs)
        BY <2>2, <3>3, <4>1, <4>4, AnswerExact
      <4>6. ~foreign' => ReusesQuotient(l)
        BY <2>1, <2>5, <3>3
      <4>7. ReusesQuotient(l) => Quotients(Mag(l.lhs), Mag(l.rhs))
        BY <2>2, <4>4, ReusedQuotient DEF ReusesQuotient
      <4> QED
        BY <4>2, <4>3, <4>5, <4>6, <4>7 DEF MultExactIn, Quotients, QuotientsOf
    <3>4. CASE l.isM /\ l.state # 0
      <4>1. mu' = MultIterate(l) /\ foreign' = foreign /\ l = mu
        BY <2>1, <2>4, <2>5, <3>4
      <4>2. /\ ~foreign /\ IsDivision(l.f3) /\ ~DivByZero(l) /\ ~DivOverflow(l)
            /\ l.dataA = IF IsSignedDivision(l.f3) THEN Mag(l.lhs) ELSE l.lhs
            /\ l.dataB = IF IsSignedDivision(l.f3) THEN Mag(l.rhs) ELSE l.rhs
            /\ l.resIsNeg = (IsNeg(l.lhs) # IsNeg(l.rhs))
            /\ l.dataB # 0
        BY <3>4, <4>1 DEF MultExact, MultExactIn, DivisorNotZero
      <4>3. CASE l.state > 1
        <5>1. mu' = [l EXCEPT !.state = @ - 1, !.valRet = FALSE]
          BY <4>1, <4>3 DEF MultIterate
        <5>2. /\ mu'.state = l.state - 1 /\ mu'.f3 = l.f3 /\ mu'.lhs = l.lhs
              /\ mu'.rhs = l.rhs /\ mu'.dataA = l.dataA /\ mu'.dataB = l.dataB
              /\ mu'.resIsNeg = l.resIsNeg /\ l.state \in Nat
          BY <2>2, <5>1 DEF MultRegs
        <5>3. ~DivByZero(mu') /\ ~DivOverflow(mu') /\ mu'.state # 0
          BY <4>2, <4>3, <5>2 DEF DivByZero, DivOverflow
        <5> QED
          BY <4>1, <4>2, <5>2, <5>3 DEF MultExactIn
      <4>4. CASE ~(l.state > 1)
        <5> DEFINE q == l.dataA \div l.dataB
                   r == l.dataA % l.dataB
                   v == DivResult(l, q, r)
        <5>1. mu' = [l EXCEPT !.state = 0, !.quotient = q, !.remainder = r,
                              !.valRet = TRUE, !.result = v]
          BY <4>1, <4>4 DEF MultIterate
        <5>2. v = MResult(l.f3, l.lhs, l.rhs)
          BY <2>2, <4>2, IterateExact
        <5> HIDE DEF q, r, v
        <5>3. /\ mu'.state = 0 /\ mu'.valRet /\ mu'.result = v
              /\ mu'.quotient = q /\ mu'.remainder = r
              /\ mu'.dataA = l.dataA /\ mu'.dataB = l.dataB
              /\ mu'.f3 = l.f3 /\ mu'.lhs = l.lhs /\ mu'.rhs = l.rhs
          BY <2>2, <5>1 DEF MultRegs
        <5> QED
          BY <4>2, <5>2, <5>3 DEF MultExactIn, QuotientsOf, q, r
      <4> QED
        BY <4>3, <4>4
    <3> QED
      BY <3>1, <3>2, <3>3, <3>4
  <2> QED
    BY <2>8 DEF MultExact
<1> QED
  BY <1>1, <1>2 DEF HNext

-----------------------------------------------------------------------------
(* The refinement.                                                         *)

\* Isa has the words, the decoding and the data path of the core.
LEMMA SameMachine ==
  /\ I!Reg = Reg
  /\ \A p : I!IsProgram(p) <=> IsProgram(p)
  /\ \A a, b : I!Add(a, b) = Add(a, b)
  /\ \A i : I!IsPrint(i) <=> IsPrint(i)
  /\ \A i, a, b : I!OpResult(i, a, b) = OpResult(i, a, b)
  /\ \A m, f3, a : I!ReadMem(m, f3, a) = ReadMem(m, f3, a)
  /\ \A m, f3, a, d : I!WriteMem(m, f3, a, d) = WriteMem(m, f3, a, d)
  /\ \A o, v : I!Printed(o, v) = Printed(o, v)
<1>1. I!Reg = Reg /\ I!Word = Word
  BY DEF I!Reg, Reg, I!Word, Word
<1>2. \A p : I!IsProgram(p) <=> IsProgram(p)
  BY <1>1 DEF I!IsProgram, IsProgram, I!Instr, Instr, I!OpCode, OpCode,
              I!Funct3, Funct3, I!Funct7, Funct7
<1>3. \A a, b : I!Add(a, b) = Add(a, b)
  BY DEF I!Add, Add, I!Wrap, Wrap
<1>4. \A i : I!IsPrint(i) <=> IsPrint(i)
  BY DEF I!IsPrint, IsPrint
<1>5. \A f3, a, b : I!Division(f3, a, b) = Division(f3, a, b)
  BY DEF I!Division, Division, I!IsSignedDivision, IsSignedDivision,
         I!SignedIf, SignedIf, I!Mag, Mag, I!Neg, Neg, I!IsNeg, IsNeg,
         I!Wrap, Wrap, I!MinInt, MinInt, I!OverflowDivisor, OverflowDivisor,
         I!M_DIV, M_DIV, I!M_DIVU, M_DIVU, I!M_REM, M_REM
<1>6. \A i, a, b : I!OpResult(i, a, b) = OpResult(i, a, b)
  BY <1>5 DEF I!OpResult, OpResult, I!IsM, IsM, I!IsDivision, IsDivision,
              I!M_DIV, M_DIV, I!M_DIVU, M_DIVU, I!M_REM, M_REM, I!M_REMU, M_REMU
<1>7. \A m, f3, a : I!ReadMem(m, f3, a) = ReadMem(m, f3, a)
  BY DEF I!ReadMem, ReadMem, I!MaskOf, MaskOf, I!Cell, Cell, I!Lane, Lane
<1>8. \A m, f3, a, d : I!WriteMem(m, f3, a, d) = WriteMem(m, f3, a, d)
  BY DEF I!WriteMem, WriteMem, I!MaskOf, MaskOf, I!Cell, Cell,
         I!Lane, Lane
<1>9. \A o, v : I!Printed(o, v) = Printed(o, v)
  BY DEF I!Printed, Printed
<1> QED
  BY <1>1, <1>2, <1>3, <1>4, <1>6, <1>7, <1>8, <1>9

\* The reset is the initial state of the sequential machine.
LEMMA InitImplements == Init => I!Init
<1> SUFFICES ASSUME Init PROVE I!Init
  OBVIOUS
<1>1. IsProgram(imem)
  BY ProgramsAssumption DEF Init, icache_reset
<1>2. AbsRegs = I!InitRegs
  BY SameMachine DEF Init, mems_reset, wrbk_reset, AbsRegs, InitRf, I!InitRegs
<1>3. AbsPc = PC_STARTADDR /\ AbsMem = DMEM_INIT
  BY DEF Init, fetch_reset, decode_reset, exec_reset, dcache_reset, AbsPc, AbsMem
<1>4. AbsOut = [count |-> 0, last |-> 0]
  BY DEF Init, mems_reset, wrbk_reset, AbsOut, IsPrint
<1> QED
  BY <1>1, <1>2, <1>3, <1>4, SameMachine DEF I!Init

\* The fields of the instruction in exec and the result it is about to have.
LEMMA InExec ==
  ASSUME Typed, Ordered, Exact, ~lost, phase = "pos", ~Frozen, ex.we
  PROVE  /\ I!ins = Fetched(ex.pc) /\ AbsPc = ex.pc /\ ~I!Halted
         /\ I!ins \in Instr
         /\ ex.op = I!ins.op /\ ex.f3 = I!ins.f3 /\ ex.f7 = I!ins.f7
         /\ ex.imm = I!ins.imm
         /\ ex.rd = IF I!ins.op = "ST" THEN 0 ELSE I!ins.rd
         /\ ex.lhs = LhsOf(I!ins, ex.pc, AbsRegs)
         /\ ex.rhs = RhsOf(I!ins, AbsRegs)
         /\ ex.datac = DatacOf(I!ins, AbsRegs)
         /\ I!ins.op = "JALR" /\ I!ins.f3 # 0 => I!ins.rd = 0
<1> USE DEF Typed
<1>1. AbsPc = ex.pc /\ I!ins = Fetched(ex.pc)
  BY DEF AbsPc, I!ins, Fetched
<1>2. ~I!Halted
  BY <1>1 DEF I!Halted, Exact, NeverPastReturn
<1>3. ex.pc \div InstrBytes \in Word
  BY QuotientInWord, ParametersInWord DEF TypeOK, LatchesOK
<1>4. /\ Fetched(ex.pc) \in Instr
      /\ Fetched(ex.pc).op = "JALR" /\ Fetched(ex.pc).f3 # 0 => Fetched(ex.pc).rd = 0
  BY <1>3 DEF TypeOK, LatchesOK, IsProgram, Fetched
<1>5. /\ ex.op = Fetched(ex.pc).op /\ ex.f3 = Fetched(ex.pc).f3
      /\ ex.f7 = Fetched(ex.pc).f7 /\ ex.imm = Fetched(ex.pc).imm
      /\ ex.rd = IF Fetched(ex.pc).op = "ST" THEN 0 ELSE Fetched(ex.pc).rd
  BY DEF Ordered, FetchedAtPc, Fetched
<1>6. /\ ex.lhs = LhsOf(Fetched(ex.pc), ex.pc, AbsRegs)
      /\ ex.rhs = RhsOf(Fetched(ex.pc), AbsRegs)
      /\ ex.datac = DatacOf(Fetched(ex.pc), AbsRegs)
  BY DEF Exact, ExecExact
<1> QED
  BY <1>1, <1>2, <1>4, <1>5, <1>6

\* The result that leaves exec: that of mult for an M instruction and of exec
\* for any other.
LEMMA ResultExact ==
  ASSUME Typed, Ordered, Exact, ~lost, phase = "pos", ~Frozen, ex.we
  PROVE  /\ ex.op = "OP" => result_ex_ex = OpResult(I!ins, ex.lhs, ex.rhs)
         /\ ex.op # "OP" => result_ex_ex = result_ex
<1> USE DEF Typed
<1>1. /\ mu.isM <=> ex.op = "OP" /\ ex.f7 = 1
      /\ mu.isM => mu.f3 = ex.f3 /\ mu.lhs = ex.lhs /\ mu.rhs = ex.rhs
      /\ ~mu.isM => ~mu.valRet
  BY DEF Exact, MultFollowsExec
<1>2. mu.isM => mu.state = 0
  BY DEF Frozen, localStall
<1>3. mu.isM => mu.valRet /\ mu.result = MResult(mu.f3, mu.lhs, mu.rhs)
  BY <1>2 DEF Exact, MultExact, MultExactIn
<1>4. ex.op = I!ins.op /\ ex.f3 = I!ins.f3 /\ ex.f7 = I!ins.f7
  BY InExec
<1>5. CASE mu.isM
  <2>1. result_ex_ex = MResult(ex.f3, ex.lhs, ex.rhs)
    BY <1>1, <1>3, <1>5 DEF result_ex_ex
  <2>2. OpResult(I!ins, ex.lhs, ex.rhs) = MResult(ex.f3, ex.lhs, ex.rhs)
    BY <1>1, <1>4, <1>5 DEF OpResult, MResult, IsM
  <2> QED
    BY <1>1, <1>5, <2>1, <2>2
<1>6. CASE ~mu.isM
  <2>1. result_ex_ex = result_ex
    BY <1>1, <1>6 DEF result_ex_ex
  <2>2. ex.op = "OP" => result_ex = OpAlu(ex.f3, ex.f7, ex.lhs, ex.rhs)
    BY <1>1, <1>6 DEF result_ex
  <2>3. ex.op = "OP" => OpResult(I!ins, ex.lhs, ex.rhs)
                          = OpAlu(ex.f3, ex.f7, ex.lhs, ex.rhs)
    BY <1>1, <1>4, <1>6 DEF OpResult, IsM
  <2> QED
    BY <2>1, <2>2, <2>3
<1> QED
  BY <1>5, <1>6

\* What an edge that is not frozen adds to registers, memory and output.
LEMMA Effect ==
  ASSUME TypeOK, Enabled, Posedge, ~Frozen
  PROVE  /\ AbsRegs' = IF useRd_ex
                       THEN [AbsRegs EXCEPT ![ex.rd] =
                               IF ex.op = "LD" THEN ReadMem(AbsMem, ex.f3, result_ex_ex)
                               ELSE result_ex_ex]
                       ELSE AbsRegs
         /\ AbsMem' = IF ex.we /\ ex.op = "ST"
                      THEN WriteMem(AbsMem, ex.f3, result_ex_ex, ex.datac) ELSE AbsMem
         /\ AbsOut' = IF IsPrint(ex) THEN Printed(AbsOut, AbsRegs[PrintReg]) ELSE AbsOut
<1>1. /\ phase' = "neg"
      /\ mm'.op = ex.op /\ mm'.f3 = ex.f3 /\ mm'.rd = ex.rd
      /\ mm'.useRd = useRd_ex /\ mm'.we = ex.we
      /\ mm'.result = result_ex_ex /\ mm'.datac = ex.datac
      /\ mm'.opType = IF ex.we /\ ex.op = "LD" THEN "LOAD"
                      ELSE IF ex.we /\ ex.op = "ST" THEN "STORE" ELSE "NONE"
  BY MovesOn
<1>2. rf' = AbsRegs /\ dmem' = AbsMem /\ out' = AbsOut
  BY Settled
<1>3. useRd_ex <=> mm'.rd # 0 /\ mm'.we /\ mm'.useRd
  BY <1>1, Bits DEF Enabled, useRd_ex
<1>4. useRd_ex => PendingResult' = IF ex.op = "LD"
                                   THEN ReadMem(AbsMem, ex.f3, result_ex_ex)
                                   ELSE result_ex_ex
  BY <1>1, <1>2, Bits DEF PendingResult, result_mem_mem, useRd_ex
<1>5. AbsRegs' = IF useRd_ex THEN [AbsRegs EXCEPT ![ex.rd] = PendingResult'] ELSE AbsRegs
  BY <1>1, <1>2, <1>3 DEF AbsRegs
<1>6. AbsMem' = IF ex.we /\ ex.op = "ST"
                THEN WriteMem(AbsMem, ex.f3, result_ex_ex, ex.datac) ELSE AbsMem
  BY <1>1, <1>2 DEF AbsMem
<1>7. AbsOut' = IF IsPrint(ex) THEN Printed(AbsOut, AbsRegs[PrintReg]) ELSE AbsOut
  BY <1>1, <1>2 DEF AbsOut, IsPrint
<1> QED
  BY <1>4, <1>5, <1>6, <1>7

\* The instruction in exec is executed as the sequential machine executes it.
LEMMA CommitImplements ==
  ASSUME Typed, Ordered, Exact, ~lost, Posedge, ~Frozen, ex.we
  PROVE  I!Next
<1> USE DEF Typed
<1> DEFINE i == I!ins
           a == AbsRegs[i.rs1]
           b == AbsRegs[i.rs2]
<1>1. phase = "pos" /\ imem' = imem /\ Commits
  BY DEF Posedge, Commits
<1>2. /\ AbsPc = ex.pc /\ ~I!Halted /\ i \in Instr
      /\ ex.op = i.op /\ ex.f3 = i.f3 /\ ex.f7 = i.f7 /\ ex.imm = i.imm
      /\ ex.rd = IF i.op = "ST" THEN 0 ELSE i.rd
      /\ ex.lhs = LhsOf(i, ex.pc, AbsRegs) /\ ex.rhs = RhsOf(i, AbsRegs)
      /\ ex.datac = DatacOf(i, AbsRegs)
      /\ i.op = "JALR" /\ i.f3 # 0 => i.rd = 0
  BY <1>1, InExec
<1>3. I!valueReg1 = a /\ I!valueReg2 = b /\ I!NextPc = Add(ex.pc, InstrBytes)
  BY <1>2, SameMachine DEF I!valueReg1, I!valueReg2, I!NextPc
<1>4. /\ ex.op = "OP" => result_ex_ex = OpResult(i, ex.lhs, ex.rhs)
      /\ ex.op # "OP" => result_ex_ex = result_ex
  BY <1>1, ResultExact
<1>5. AbsPc' = Successor
  BY <1>1, StepInOrder DEF Next
<1> HIDE DEF i
<1>6. AbsRegs \in [Reg -> Word] /\ AbsRegs[0] = 0
  <2>1. rf' = AbsRegs /\ Typed'
    BY Settled, NextTyped DEF Exact, Next
  <2>2. Enabled'
    BY EnabledStep DEF Exact, Next
  <2> QED
    BY <2>1, <2>2 DEF Enabled, TypeOK, LatchesOK
<1>7. /\ useRd_ex <=> /\ i.rd # 0
                      /\ i.op \in {"LUI", "AUIPC", "JAL", "JALR", "LD", "OPI", "OP"}
      /\ i.op # "ST" => ex.rd = i.rd
  BY <1>2, Bits DEF Exact, Enabled, useRd_ex
<1>8. ASSUME NEW v, i.op \in {"LUI", "AUIPC", "JAL", "JALR", "LD", "OPI", "OP"},
             v = IF i.op = "LD" THEN ReadMem(AbsMem, ex.f3, result_ex_ex) ELSE result_ex_ex
      PROVE  I!SetRd(v)
  <2>1. AbsRegs' = IF useRd_ex THEN [AbsRegs EXCEPT ![ex.rd] = v] ELSE AbsRegs
    BY <1>2, <1>8, Effect DEF Exact
  <2>2. ex.rd = i.rd /\ (useRd_ex <=> i.rd # 0) /\ i.rd \in Reg
    BY <1>2, <1>7, <1>8 DEF Instr
  <2>3. AbsRegs' = [AbsRegs EXCEPT ![i.rd] = IF i.rd = 0 THEN 0 ELSE v]
    BY <1>6, <2>1, <2>2
  <2> QED
    BY <2>3 DEF I!SetRd, i
<1>9. i.op \notin {"LUI", "AUIPC", "JAL", "JALR", "LD", "OPI", "OP"} => AbsRegs' = AbsRegs
  BY <1>7, Effect DEF Exact
<1>10. AbsMem' = IF i.op = "ST" THEN WriteMem(AbsMem, i.f3, result_ex_ex, ex.datac) ELSE AbsMem
  BY <1>2, Effect DEF Exact
<1>11. AbsOut' = IF i.op = "JALR" /\ i.f3 = 1
                 THEN Printed(AbsOut, AbsRegs[PrintReg]) ELSE AbsOut
  BY <1>2, Effect DEF Exact, IsPrint
<1>12. /\ isBranch_ex <=> \/ i.op = "JALR" /\ i.f3 = 0
                          \/ i.op = "BR" /\ Compare(i.f3, ex.lhs, ex.rhs)
       /\ Successor = IF isBranch_ex
                      THEN IF i.op = "BR" THEN Add(ex.pc, i.imm) ELSE Add(ex.rhs, ex.lhs)
                      ELSE IF i.op = "JAL" THEN Add(ex.pc, i.imm)
                      ELSE Add(ex.pc, InstrBytes)
  BY <1>2 DEF isBranch_ex, Successor, nextPC_ex
<1>13. AbsPc' = IF i.op = "JALR" /\ i.f3 = 0 THEN Add(i.imm, a)
                ELSE IF i.op = "BR" /\ Compare(i.f3, a, b) THEN Add(ex.pc, i.imm)
                ELSE IF i.op = "JAL" THEN Add(ex.pc, i.imm)
                ELSE Add(ex.pc, InstrBytes)
  BY <1>2, <1>5, <1>12 DEF LhsOf, RhsOf
<1>14. I!Execute
  <2>1. CASE i.op \in {"LUI", "AUIPC", "OPI", "OP"}
    <3>1. result_ex_ex = IF i.op = "LUI" THEN i.imm
                         ELSE IF i.op = "AUIPC" THEN Add(ex.pc, i.imm)
                         ELSE IF i.op = "OPI" THEN OpiAlu(i.f3, i.f7, a, i.imm)
                         ELSE OpResult(i, a, b)
      BY <1>2, <1>4, <2>1 DEF result_ex, LhsOf, RhsOf
    <3>2. I!SetRd(result_ex_ex)
      BY <1>8, <2>1
    <3>3. AbsPc' = Add(ex.pc, InstrBytes) /\ AbsMem' = AbsMem /\ AbsOut' = AbsOut
      BY <1>10, <1>11, <1>13, <2>1
    <3>4. I!Compute
      BY <1>2, <1>3, <2>1, <3>1, <3>2, <3>3, SameMachine DEF I!Compute, I!Fallthrough, i
    <3> QED
      BY <3>4 DEF I!Execute
  <2>2. CASE i.op = "LD"
    <3>1. result_ex_ex = Add(a, i.imm)
      BY <1>2, <1>4, <2>2 DEF result_ex, LhsOf, RhsOf
    <3>2. I!SetRd(ReadMem(AbsMem, i.f3, result_ex_ex))
      BY <1>2, <1>8, <2>2
    <3>3. AbsPc' = Add(ex.pc, InstrBytes) /\ AbsMem' = AbsMem /\ AbsOut' = AbsOut
      BY <1>10, <1>11, <1>13, <2>2
    <3>4. I!Load
      BY <1>2, <1>3, <2>2, <3>1, <3>2, <3>3, SameMachine DEF I!Load, I!Fallthrough, i
    <3> QED
      BY <3>4 DEF I!Execute
  <2>3. CASE i.op = "ST"
    <3>1. result_ex_ex = Add(a, i.imm) /\ ex.datac = b
      BY <1>2, <1>4, <2>3 DEF result_ex, LhsOf, RhsOf, DatacOf
    <3>2. /\ AbsPc' = Add(ex.pc, InstrBytes) /\ AbsOut' = AbsOut /\ AbsRegs' = AbsRegs
          /\ AbsMem' = WriteMem(AbsMem, i.f3, Add(a, i.imm), b)
      BY <1>9, <1>10, <1>11, <1>13, <2>3, <3>1
    <3>3. I!Store
      BY <1>2, <1>3, <2>3, <3>2, SameMachine DEF I!Store, I!Fallthrough, i
    <3> QED
      BY <3>3 DEF I!Execute
  <2>4. CASE i.op = "JAL" \/ (i.op = "JALR" /\ i.f3 = 0)
    <3>1. result_ex_ex = Add(ex.pc, InstrBytes)
      BY <1>2, <1>4, <2>4 DEF result_ex, LhsOf
    <3>2. I!SetRd(result_ex_ex)
      BY <1>8, <2>4
    <3>3. /\ AbsPc' = IF i.op = "JAL" THEN Add(ex.pc, i.imm) ELSE Add(i.imm, a)
          /\ AbsMem' = AbsMem /\ AbsOut' = AbsOut
      BY <1>10, <1>11, <1>13, <2>4
    <3>4. I!JumpAndLink
      BY <1>2, <1>3, <2>4, <3>1, <3>2, <3>3, SameMachine DEF I!JumpAndLink, i
    <3> QED
      BY <3>4 DEF I!Execute
  <2>5. CASE i.op = "BR"
    <3>1. /\ AbsPc' = IF Compare(i.f3, a, b) THEN Add(ex.pc, i.imm)
                      ELSE Add(ex.pc, InstrBytes)
          /\ AbsRegs' = AbsRegs /\ AbsMem' = AbsMem /\ AbsOut' = AbsOut
      BY <1>9, <1>10, <1>11, <1>13, <2>5
    <3>2. I!Branch
      BY <1>2, <1>3, <2>5, <3>1, SameMachine DEF I!Branch, i
    <3> QED
      BY <3>2 DEF I!Execute
  <2>6. CASE \/ i.op \in {"NONE", "MISC_MEM", "SYSTEM"}
             \/ i.op = "JALR" /\ i.f3 # 0
    <3>1. /\ AbsPc' = Add(ex.pc, InstrBytes) /\ AbsMem' = AbsMem
          /\ AbsOut' = IF i.op = "JALR" /\ i.f3 = 1
                       THEN Printed(AbsOut, AbsRegs[PrintReg]) ELSE AbsOut
      BY <1>10, <1>11, <1>13, <2>6
    <3>2. AbsRegs' = AbsRegs
      <4>1. ~useRd_ex
        BY <1>2, <1>7, <2>6
      <4> QED
        BY <4>1, Effect DEF Exact
    <3>3. i.f3 \in Nat
      BY <1>2 DEF Instr, Funct3
    <3>4. CASE i.op = "JALR" /\ i.f3 = 1
      <4>1. I!Printf
        BY <1>3, <3>1, <3>2, <3>4, SameMachine DEF I!Printf, I!Fallthrough, IsPrint, i
      <4> QED
        BY <4>1 DEF I!Execute
    <3>5. CASE ~(i.op = "JALR" /\ i.f3 = 1)
      <4>1. i.op \in {"NONE", "MISC_MEM", "SYSTEM"} \/ (i.op = "JALR" /\ i.f3 > 1)
        BY <2>6, <3>3, <3>5
      <4>2. I!Ignore
        BY <1>3, <3>1, <3>2, <3>5, <4>1 DEF I!Ignore, I!Fallthrough, i
      <4> QED
        BY <4>2 DEF I!Execute
    <3> QED
      BY <3>4, <3>5
  <2>7. i.op \in OpCode
    BY <1>2 DEF Instr
  <2>8. \/ i.op \in {"LUI", "AUIPC", "OPI", "OP"} \/ i.op = "LD" \/ i.op = "ST"
        \/ i.op = "JAL" \/ (i.op = "JALR" /\ i.f3 = 0) \/ i.op = "BR"
        \/ i.op \in {"NONE", "MISC_MEM", "SYSTEM"} \/ (i.op = "JALR" /\ i.f3 # 0)
    BY <2>7 DEF OpCode
  <2> QED
    BY <2>1, <2>2, <2>3, <2>4, <2>5, <2>6, <2>8
<1> QED
  BY <1>1, <1>2, <1>14 DEF I!Next

\* An edge is a step of the sequential machine or leaves its state alone.
LEMMA EdgeImplements ==
  ASSUME Typed, Ordered, Exact, ~lost, Next, phase = "pos" => ~Loses
  PROVE  I!Next \/ UNCHANGED absVars
<1> USE DEF Typed
<1>1. CASE Negedge
  <2>1. AbsPc' = AbsPc /\ imem' = imem
    BY <1>1, StepInOrder DEF Negedge, Commits
  <2> QED
    BY <1>1, <2>1, NegedgeKeeps DEF absVars
<1>2. CASE Posedge /\ Frozen
  <2>1. AbsPc' = AbsPc /\ imem' = imem /\ ~DivisionDropsLoad
    BY <1>2, StepInOrder DEF Posedge, Commits, Loses
  <2> QED
    BY <1>2, <2>1, FrozenKeeps DEF absVars, Exact
<1>3. CASE Posedge /\ ~Frozen /\ ~ex.we
  <2>1. AbsPc' = AbsPc /\ imem' = imem /\ ~SquashedPrint
    BY <1>3, StepInOrder DEF Posedge, Commits, Loses
  <2>2. ~useRd_ex /\ ~IsPrint(ex)
    BY <1>3, <2>1, Bits DEF useRd_ex, SquashedPrint
  <2>3. AbsRegs' = AbsRegs /\ AbsMem' = AbsMem /\ AbsOut' = AbsOut
    BY <1>3, <2>2, Effect DEF Exact
  <2> QED
    BY <2>1, <2>3 DEF absVars
<1>4. CASE Posedge /\ ~Frozen /\ ex.we
  BY <1>4, CommitImplements
<1> QED
  BY <1>1, <1>2, <1>3, <1>4 DEF Next

\* What holds at every edge.
HInv == /\ Typed /\ Ordered /\ Exact
        /\ lost \in BOOLEAN /\ foreign \in BOOLEAN

\* After the reset there is no instruction, and nothing has been divided.
LEMMA InitInv == HInit => HInv
<1> SUFFICES ASSUME HInit PROVE HInv
  OBVIOUS
<1>1. Typed /\ Ordered
  BY InitTyped, InitOrdered DEF HInit
<1>2. /\ ~ex.we /\ ~ex.useRd /\ ~mm.useRd /\ ~wb.useRd /\ ~dc.we
      /\ ~mu.isM /\ ~mu.valRet /\ mu.state = 0
      /\ ft.address = PC_STARTADDR /\ ~ic.stall /\ phase = "pos"
      /\ foreign /\ lost \in BOOLEAN
  BY DEF HInit, Init, exec_reset, mems_reset, wrbk_reset, decode_reset,
         mult_reset, fetch_reset, icache_reset
<1>3. rf[0] = 0 /\ PC_STARTADDR # RAADDRESS
  BY SizesAssumption DEF HInit, Init, wrbk_reset, InitRf, Reg
<1>4. Exact
  BY <1>2, <1>3
  DEF Exact, Enabled, NeverPastReturn, DecodeExact, UpToDate, useRs1_dc,
      useRs2_dc, useRs3_dc, ExecExact, MultFollowsExec, MultExact, MultExactIn,
      Drained
<1> QED
  BY <1>1, <1>2, <1>4, foreign = TRUE DEF HInv, HInit

\* HInv is inductive.
LEMMA NextInv == HInv /\ [HNext]_hvars => HInv'
<1> SUFFICES ASSUME HInv, [HNext]_hvars PROVE HInv'
  OBVIOUS
<1> USE DEF HInv
<1>1. CASE HNext
  <2>1. Next
    BY <1>1 DEF HNext, HPosedge, HNegedge, Next
  <2>2. Typed' /\ Ordered'
    BY <2>1, NextTyped, NextOrdered
  <2>3. Enabled' /\ NeverPastReturn'
    BY <2>1, EnabledStep, NeverPastReturnStep DEF Exact
  <2>4. lost' \in BOOLEAN /\ foreign' \in BOOLEAN
    BY <1>1 DEF HNext, HPosedge, HNegedge, StartsDivision, IsDivision,
                DivByZero, DivOverflow
  <2>5. ASSUME ~lost'
        PROVE  /\ DecodeExact' /\ ExecExact' /\ MultFollowsExec' /\ MultExact'
               /\ Drained'
    <3>1. ~lost /\ (phase = "pos" => ~Loses)
      BY <1>1, <2>5 DEF HNext, HPosedge, HNegedge, Negedge
    <3>2. /\ Enabled /\ NeverPastReturn /\ DecodeExact /\ ExecExact
          /\ MultFollowsExec /\ MultExact /\ Drained
      BY <3>1 DEF Exact
    <3> QED
      BY <1>1, <2>1, <3>1, <3>2, DecodeExactStep, ExecExactStep,
         MultFollowsExecStep, MultExactStep, DrainedStep
  <2> QED
    BY <2>2, <2>3, <2>4, <2>5 DEF Exact
<1>2. CASE UNCHANGED hvars
  <2>1. UNCHANGED vars /\ lost' = lost /\ foreign' = foreign
    BY <1>2 DEF hvars
  <2>2. Typed' /\ Ordered'
    BY <2>1, NextTyped, NextOrdered
  <2>3. Enabled' = Enabled /\ NeverPastReturn' = NeverPastReturn
    BY <2>1 DEF vars, Enabled, NeverPastReturn, useRd_ex
  <2>4. AbsRegs' = AbsRegs
    BY <2>1 DEF vars, AbsRegs, PendingResult, result_mem_mem
  <2>5. DecodeExact' = DecodeExact
    BY <2>1 DEF vars, DecodeExact, UpToDate, useRs1_dc, useRs2_dc, useRs3_dc, useRd_ex
  <2>6. ExecExact' = ExecExact
    BY <2>1, <2>4 DEF vars, ExecExact, Fetched, LhsOf, RhsOf, DatacOf
  <2>7. MultFollowsExec' = MultFollowsExec /\ MultExact' = MultExact
    BY <2>1
    DEF vars, MultFollowsExec, MultExact, MultExactIn, QuotientsOf, DivByZero, DivOverflow
  <2>8. Drained' = Drained
    BY <2>1 DEF vars, Drained
  <2>9. Exact'
    BY <2>1, <2>3, <2>5, <2>6, <2>7, <2>8 DEF Exact
  <2> QED
    BY <2>1, <2>2, <2>9
<1> QED
  BY <1>1, <1>2

\* Until the pipeline loses a value in one of the situations that Loses names
\* it is exact: whatever the program, the widths, the data path and the length
\* of a division, every edge is a step of the sequential machine or leaves its
\* state alone. There is no further hazard in the forwarding, the stalls, the
\* squashes, the reuse of quotients and the memories.
THEOREM ExactUntilFirstLoss == HSpec => ExactUntilLost
<1>1. HInit => HInv /\ I!Init
  BY InitInv, InitImplements DEF HInit
<1>2. HInv /\ [HNext]_hvars => [lost' \/ I!Next]_<<absVars, lost>>
  <2> SUFFICES ASSUME HInv, [HNext]_hvars, ~lost'
               PROVE  I!Next \/ UNCHANGED <<absVars, lost>>
    OBVIOUS
  <2>1. CASE HNext
    <3>1. Next
      BY <2>1 DEF HNext, HPosedge, HNegedge, Next
    <3>2. ~lost /\ (phase = "pos" => ~Loses) /\ lost' = lost
      BY <2>1 DEF HNext, HPosedge, HNegedge, Negedge, HInv
    <3> QED
      BY <3>1, <3>2, EdgeImplements DEF HInv
  <2>2. CASE UNCHANGED hvars
    BY <2>2
    DEF hvars, vars, absVars, AbsPc, AbsRegs, AbsMem, AbsOut, PendingResult,
        result_mem_mem
  <2> QED
    BY <2>1, <2>2
<1> QED
  BY <1>1, <1>2, NextInv, PTL DEF HSpec, ExactUntilLost

\* When the core has stopped at the return address, every instruction before
\* it has been executed, and everything it stored or printed has got out, for
\* every program that is exact up to there and comes to its end through exec.
THEOREM EndsComplete == HSpec => []HaltsComplete
<1>1. HInv => HaltsComplete
  BY DEF HInv, Exact, Drained, HaltsComplete, AbsPc, AbsMem, AbsOut
<1> QED
  BY <1>1, InitInv, NextInv, PTL DEF HSpec

-----------------------------------------------------------------------------
(* Tame programs.                                                          *)

\* Whatever the data, the word in decode is the next one in memory behind that
\* in exec, and fetch is at the next one behind that, but for what a JAL in
\* exec has left out.
Straight ==
  /\ dc.we => ft.address = After(dc.pc)
  /\ ex.we => (dc.we <=> ex.op # "JAL")
  /\ ex.we /\ dc.we => dc.pc = After(ex.pc)
  /\ ~ft.we => ic.instr = NoInstr /\ ft.address = PC_STARTADDR
  /\ wb.useRd => wb.rd # 0

\* What decode and mult hold, enabled or not, is of the program.
FromProgram ==
  /\ dc.instr = NoInstr \/ \E a \in Word : dc.instr = imem[a]
  /\ mu.isM => \E a \in Word : IsM(imem[a]) /\ imem[a].f3 = mu.f3

\* No print and no division is squashed, but for a division in exec of which the
\* word behind it is squashed as well.
Squashed ==
  /\ ~dc.we => ~IsPrint(dc.instr) /\ ~IsDivide(dc.instr)
  /\ ~ex.we => ~IsPrint(ex)

\* While mult divides, mems has no load, and decode has an instruction only
\* behind that which is divided.
Divides ==
  localStall => (dc.we => ex.we) /\ ~(mm.opType = "LOAD" /\ mm.useRd)

\* Operands that could be taken for those of a quotient are those of one.
NoneReused ==
  (\A a \in Word : IsM(imem[a]) => IsDivision(imem[a].f3)) /\ foreign
    => mu.dataB = 0 \/ (mu.dataA = MinInt /\ mu.dataB = OverflowDivisor)

Kept == Squashed /\ Divides /\ NoneReused
Unlost == Straight /\ FromProgram /\ (Tame(imem) /\ ~lost => Kept)

\* The conditions for the words at an address and behind it.
LEMMA TameAt ==
  ASSUME Tame(imem), NEW a \in Word
  PROVE  /\ LoadsApart(Fetched(a), Fetched(After(a)))
         /\ DivisionsApart(Fetched(a), Fetched(After(a)), Fetched(After(After(a))))
         /\ ProductsApart(Fetched(a), Fetched(After(a)))
         /\ PrintsApart(Fetched(a), Fetched(After(a)), Fetched(After(After(a))))
         /\ JumpsAway(Fetched(a), a)
BY DEF Tame, WordAt, Fetched

\* The words in exec and in decode are neighbours in memory.
LEMMA Neighbours ==
  ASSUME Typed, Ordered, Straight, Tame(imem), ex.we, dc.we
  PROVE  \E i : /\ i = Fetched(ex.pc)
                /\ i.op = ex.op /\ i.f3 = ex.f3 /\ i.f7 = ex.f7
                /\ ex.op # "ST" => i.rd = ex.rd
                /\ LoadsApart(i, dc.instr) /\ ProductsApart(i, dc.instr)
                /\ IsDivide(i) => ReadsOnly(dc.instr, i.rd)
                /\ i.op = "LD" /\ IsDivide(dc.instr) => i.rd \in Reads(dc.instr) \cup {0}
                /\ PrintsApart(i, dc.instr, Fetched(After(dc.pc)))
<1>1. ex.pc \in Word /\ dc.pc = After(ex.pc) /\ dc.instr = Fetched(After(ex.pc))
  BY DEF Typed, TypeOK, LatchesOK, Straight, Ordered, DecodeMatches
<1>2. PICK i : i = Fetched(ex.pc)
  OBVIOUS
<1>3. /\ i.op = ex.op /\ i.f3 = ex.f3 /\ i.f7 = ex.f7
      /\ ex.op # "ST" => i.rd = ex.rd
  BY <1>2 DEF Ordered, FetchedAtPc, Fetched
<1>4. /\ LoadsApart(i, dc.instr) /\ ProductsApart(i, dc.instr)
      /\ DivisionsApart(i, dc.instr, Fetched(After(After(ex.pc))))
      /\ PrintsApart(i, dc.instr, Fetched(After(After(ex.pc))))
  BY <1>1, <1>2, TameAt
<1> QED
  BY <1>1, <1>2, <1>3, <1>4 DEF DivisionsApart

\* The operands of the word in decode, and whether it has them.
OperandOf(use, rs) ==
  \/ use = useRs1_dc /\ rs = dc.instr.rs1
  \/ use = useRs2_dc /\ rs = dc.instr.rs2
  \/ use = useRs3_dc /\ rs = dc.instr.rs2

\* An operand that it has is a register it reads.
LEMMA OperandRead ==
  ASSUME NEW use, NEW rs, OperandOf(use, rs), use = TRUE
  PROVE  dc.we /\ rs \in Reads(dc.instr)
BY DEF OperandOf, useRs1_dc, useRs2_dc, useRs3_dc, Reads

\* What forwardUnit says of it needs a writer.
LEMMA OperandForwarded ==
  ASSUME TypeOK, NEW use, NEW rs, OperandOf(use, rs), Forward(use, rs) \in {"EX", "STALL"}
  PROVE  dc.we /\ rs \in Reads(dc.instr) /\ useRd_ex /\ rs = ex.rd
<1>1. useRd_ex \in BOOLEAN /\ dc.we \in BOOLEAN
  BY Bits DEF useRd_ex
<1>2. use \in BOOLEAN
  BY <1>1 DEF OperandOf, useRs1_dc, useRs2_dc, useRs3_dc
<1>3. use = TRUE /\ useRd_ex /\ rs = ex.rd
  BY <1>1, <1>2 DEF Forward
<1> QED
  BY <1>3, OperandRead

\* An operand that only wrbk has is a register that the word in decode reads.
LEMMA OperandIsRead ==
  ASSUME Typed, Straight, OperandInWb
  PROVE  /\ dc.we
         /\ \E r \in Reads(dc.instr) : r # 0 /\ ~(useRd_ex /\ r = ex.rd)
<1>1. PICK use, rs : /\ OperandOf(use, rs) /\ use /\ wb.useRd /\ rs = wb.rd
                     /\ ~(useRd_ex /\ rs = ex.rd)
  BY DEF OperandInWb, OperandOf
<1>2. dc.we \in BOOLEAN
  BY Bits DEF Typed
<1>3. use = TRUE
  BY <1>1, <1>2 DEF OperandOf, useRs1_dc, useRs2_dc, useRs3_dc
<1> QED
  BY <1>1, <1>3, OperandRead DEF Straight

\* A load-use stall is for a register that the word in decode reads.
LEMMA StallReads ==
  ASSUME TypeOK, stallSignals
  PROVE  useRd_ex /\ ex.rd \in Reads(dc.instr)
<1>1. PICK use, rs : OperandOf(use, rs) /\ Forward(use, rs) = "STALL"
  BY DEF stallSignals, forward1, forward2, forward3, OperandOf
<1> QED
  BY <1>1, OperandForwarded

-----------------------------------------------------------------------------
(* None of the situations.                                                 *)

\* What waits for a load has no operand in wrbk.
LEMMA NoLoadUseDropsWb ==
  ASSUME Typed, Ordered, Enabled, Straight, Tame(imem) PROVE ~LoadUseDropsWb
<1> SUFFICES ASSUME stallSignals, OperandInWb PROVE FALSE
  BY DEF LoadUseDropsWb
<1>1. dc.we /\ ex.we /\ ex.op = "LD" /\ useRd_ex /\ ex.rd \in Reads(dc.instr)
  BY StallMeansLoadUse, StallReads DEF Typed
<1>2. ex.rd # 0
  BY <1>1 DEF useRd_ex, Enabled
<1>3. PICK i : i.op = ex.op /\ i.rd = ex.rd /\ LoadsApart(i, dc.instr)
  BY <1>1, Neighbours
<1>4. ReadsOnly(dc.instr, ex.rd)
  BY <1>1, <1>2, <1>3 DEF LoadsApart
<1> QED
  BY <1>1, <1>4, OperandIsRead DEF ReadsOnly

\* What is behind a division has no operand in wrbk.
LEMMA NoDivisionDropsWb ==
  ASSUME Typed, Ordered, Enabled, Straight, Tame(imem), Divides, MultFollowsExec,
         MultExact
  PROVE  ~DivisionDropsWb
<1> SUFFICES ASSUME localStall, OperandInWb PROVE FALSE
  BY DEF DivisionDropsWb
<1>1. dc.we /\ ex.we
  BY OperandIsRead DEF Divides
<1>2. ex.op = "OP" /\ ex.f7 = 1 /\ IsDivision(ex.f3)
  BY <1>1 DEF localStall, MultFollowsExec, MultExact, MultExactIn
<1>3. PICK i : /\ i.op = ex.op /\ i.f3 = ex.f3 /\ i.f7 = ex.f7 /\ i.rd = ex.rd
               /\ IsDivide(i) => ReadsOnly(dc.instr, i.rd)
  BY <1>1, <1>2, Neighbours
<1>4. ReadsOnly(dc.instr, ex.rd)
  BY <1>2, <1>3 DEF IsDivide, IsM
<1>5. PICK r \in Reads(dc.instr) : r # 0 /\ ~(useRd_ex /\ r = ex.rd)
  BY OperandIsRead
<1>6. r = ex.rd /\ ex.rd # 0
  BY <1>4, <1>5 DEF ReadsOnly
<1>7. useRd_ex
  BY <1>1, <1>2, <1>6, Bits DEF useRd_ex, Enabled, Typed
<1> QED
  BY <1>5, <1>6, <1>7

\* mems has no load when a division starts.
LEMMA NoDivisionDropsLoad == Divides => ~DivisionDropsLoad
BY DEF Divides, DivisionDropsLoad

\* No M instruction takes the result of the one in exec.
LEMMA NoMulAfterMul ==
  ASSUME Typed, Ordered, Enabled, Straight, Tame(imem), MultFollowsExec
  PROVE  ~MulAfterMul
<1> SUFFICES ASSUME Advance, IsM(dc.instr), mu.valRet, ex.we,
                    "EX" \in {forward1, forward2}
             PROVE  FALSE
  BY DEF MulAfterMul
<1>1. ex.op = "OP" /\ ex.f7 = 1
  BY Bits DEF MultFollowsExec, Typed
<1>2. PICK use, rs : OperandOf(use, rs) /\ Forward(use, rs) = "EX"
  BY DEF forward1, forward2, OperandOf
<1>4. useRd_ex /\ rs = ex.rd
  BY <1>2, OperandForwarded DEF Typed
<1>5. dc.we /\ ex.rd \in Reads(dc.instr) /\ ex.rd # 0
  BY <1>2, <1>4, OperandForwarded DEF useRd_ex, Enabled, Typed
<1>6. PICK i : i.op = ex.op /\ i.f7 = ex.f7 /\ i.rd = ex.rd /\ ProductsApart(i, dc.instr)
  BY <1>1, <1>5, Neighbours
<1> QED
  BY <1>1, <1>5, <1>6 DEF ProductsApart, IsM

\* No print is squashed.
LEMMA NoSquashedPrint == Squashed => ~SquashedPrint
BY DEF Squashed, SquashedPrint

\* fetch comes to RAADDRESS in no other way than by a jump or branch of exec.
LEMMA NoEndOvertakes ==
  ASSUME Typed, Ordered, Straight, Tame(imem), StaysAway, phase = "pos"
  PROVE  ~EndOvertakes
<1> SUFFICES ASSUME Advance, ~isBranch_ex,
                    RAADDRESS = IF isBranch_dc THEN nextPC_dc ELSE ic.addOut
             PROVE  FALSE
  BY DEF EndOvertakes
<1>0. ex.pc \in Word /\ dc.pc \in Word
  BY DEF Typed, TypeOK, LatchesOK
<1>1. CASE isBranch_dc
  <2>1. dc.we /\ dc.instr.op = "JAL" /\ dc.instr = Fetched(dc.pc)
    BY <1>1 DEF isBranch_dc, Ordered, DecodeMatches
  <2>2. JumpsAway(dc.instr, dc.pc)
    BY <1>0, <2>1, TameAt
  <2> QED
    BY <1>1, <2>1, <2>2 DEF JumpsAway, nextPC_dc
<1>2. CASE ~isBranch_dc /\ ~ft.we
  BY <1>2, SizesAssumption DEF Ordered, Empty, Straight
<1>3. CASE ~isBranch_dc /\ ft.we
  <2>1. ~ic.stall
    BY DEF Advance, Frozen
  <2>2. RAADDRESS = After(ft.address)
    BY <1>3, <2>1 DEF Ordered, FetchMatches, After
  <2>3. CASE dc.we /\ ex.we
    BY <2>2, <2>3 DEF Straight, StaysAway, AbsPc
  <2>4. CASE dc.we /\ ~ex.we
    BY <2>2, <2>4 DEF Straight, StaysAway, AbsPc
  <2>5. CASE ~dc.we /\ ex.we
    <3>1. ex.op = "JAL"
      BY <2>5 DEF Straight
    <3>2. ft.address = Add(ex.pc, ex.imm)
      BY <2>5, <3>1 DEF Ordered, FetchFollowsExec, Successor
    <3>3. Fetched(ex.pc).op = "JAL" /\ Fetched(ex.pc).imm = ex.imm
      BY <2>5, <3>1 DEF Ordered, FetchedAtPc, Fetched
    <3>4. JumpsAway(Fetched(ex.pc), ex.pc)
      BY <1>0, TameAt
    <3> QED
      BY <2>2, <3>2, <3>3, <3>4 DEF JumpsAway
  <2>6. CASE ~dc.we /\ ~ex.we
    BY <2>2, <2>6 DEF StaysAway, AbsPc
  <2> QED
    BY <2>3, <2>4, <2>5, <2>6
<1> QED
  BY <1>1, <1>2, <1>3

\* What mult latches is an instruction of the program.
LEMMA LatchedIsProgram ==
  ASSUME Typed, FromProgram, MultLatched.isM
  PROVE  \E a \in Word : IsM(imem[a]) /\ imem[a].f3 = MultLatched.f3
<1>1. CASE ~Advance
  BY <1>1 DEF MultLatched, FromProgram
<1>2. CASE Advance
  <2>1. IsM(dc.instr) /\ MultLatched.f3 = dc.instr.f3
    BY <1>2 DEF MultLatched, Typed, TypeOK, MultRegs
  <2> QED
    BY <2>1 DEF FromProgram, NoInstr, IsM
<1> QED
  BY <1>1, <1>2

\* What mult keeps of a division by zero or an overflow is not taken for the
\* operands of another division.
LEMMA NothingMatches ==
  ASSUME Typed, NEW l \in MultRegs(Nat), ~DivByZero(l), ~DivOverflow(l), Reuses(l),
         IsDivision(l.f3),
         mu.dataB = 0 \/ (mu.dataA = MinInt /\ mu.dataB = OverflowDivisor)
  PROVE  FALSE
<1>1. /\ l.lhs \in Word /\ l.rhs \in Word /\ l.rhs # 0
      /\ Modulus \in Nat /\ Modulus >= 8
      /\ MinInt = Modulus \div 2 /\ OverflowDivisor = Modulus - 4
  BY SizesAssumption DEF MultRegs, DivByZero, MinInt, OverflowDivisor
<1>2. PICK a, b : a = mu.dataA /\ b = mu.dataB
  OBVIOUS
<1>3. PICK x, y : x = Signed(l.lhs) /\ y = Signed(l.rhs)
  OBVIOUS
<1>4. /\ x = IF 2 * l.lhs >= Modulus THEN l.lhs - Modulus ELSE l.lhs
      /\ y = IF 2 * l.rhs >= Modulus THEN l.rhs - Modulus ELSE l.rhs
  BY <1>3 DEF Signed, IsNeg
<1>5. (a = x \/ a = -x) /\ (b = y \/ b = -y)
  BY <1>2, <1>3 DEF Reuses, ForwardFlags
<1>6. y # 0
  BY <1>1, <1>4 DEF Word
<1>7. a = MinInt /\ b = OverflowDivisor
  BY <1>1, <1>2, <1>4, <1>5, <1>6 DEF Word
<1>8. b = -y /\ Modulus = 8
  BY <1>1, <1>4, <1>5, <1>7 DEF Word
<1>9. MinInt = 4 /\ OverflowDivisor = 4 /\ l.rhs = OverflowDivisor
  BY <1>1, <1>4, <1>7, <1>8 DEF Word
<1>10. l.lhs = MinInt
  BY <1>1, <1>4, <1>5, <1>7, <1>8, <1>9 DEF Word
<1>11. ~IsSignedDivision(l.f3)
  BY <1>9, <1>10 DEF DivOverflow
<1>12. b = y
  BY <1>2, <1>3, <1>11 DEF Reuses, ForwardFlags, IsSignedDivision, M_DIV, M_REM
<1> QED
  BY <1>1, <1>4, <1>7, <1>8, <1>12 DEF Word

\* No quotient is taken for that of other operands.
LEMMA NoStaleQuotient ==
  ASSUME Typed, FromProgram, NoneReused, Tame(imem) PROVE ~StaleQuotient
<1>1. PICK l : l = MultLatched
  OBVIOUS
<1> SUFFICES ASSUME foreign, Answers(l), ReusesQuotient(l) PROVE FALSE
  BY <1>1 DEF StaleQuotient
<1>2. /\ l \in MultRegs(Nat) /\ IsDivision(l.f3) /\ ~DivByZero(l) /\ ~DivOverflow(l)
      /\ Reuses(l)
  BY <1>1, MultLatchedTyped, TypesAreWords DEF ReusesQuotient, Typed
<1>3. PICK a \in Word : IsM(imem[a]) /\ imem[a].f3 = l.f3
  BY <1>1, LatchedIsProgram DEF Answers
<1>4. DOMAIN imem = Word
  BY DEF Typed, TypeOK, LatchesOK, IsProgram
<1>5. CASE \A c \in DOMAIN imem : IsM(imem[c]) => IsDivision(imem[c].f3)
  <2>1. mu.dataB = 0 \/ (mu.dataA = MinInt /\ mu.dataB = OverflowDivisor)
    BY <1>4, <1>5 DEF NoneReused
  <2> QED
    BY <1>2, <2>1, NothingMatches
<1>6. CASE \A c \in DOMAIN imem : IsDivide(imem[c]) => imem[c].f3 = M_DIV
  <2>1. l.f3 = M_DIV
    BY <1>2, <1>3, <1>4, <1>6 DEF IsDivide
  <2> QED
    BY <1>2, <2>1 DEF Reuses, M_DIV, M_DIVU, M_REM, M_REMU
<1> QED
  BY <1>5, <1>6 DEF Tame, QuotientsApart

\* A tame program loses nothing at an edge, if it has lost nothing before.
LEMMA NothingLost ==
  ASSUME HInv, Unlost, Tame(imem), ~lost, phase = "pos", StaysAway
  PROVE  ~Loses
<1>1. /\ Typed /\ Ordered /\ Enabled /\ MultFollowsExec /\ MultExact
      /\ Straight /\ FromProgram /\ Squashed /\ Divides /\ NoneReused
  BY DEF HInv, Exact, Unlost, Kept
<1> QED
  BY <1>1, NoLoadUseDropsWb, NoDivisionDropsWb, NoDivisionDropsLoad, NoEndOvertakes,
     NoMulAfterMul, NoSquashedPrint, NoStaleQuotient DEF Loses

-----------------------------------------------------------------------------
(* What every edge keeps.                                                  *)

\* Stages stay neighbours.
LEMMA StraightStep == ASSUME Typed, Ordered, Straight, Next PROVE Straight'
<1>1. CASE Negedge
  <2>1. /\ ft' = ft /\ dc' = dc /\ ex' = ex /\ wb' = wb /\ ft.we
    BY <1>1 DEF Negedge, Ordered, Empty
  <2> QED
    BY <2>1 DEF Straight
<1>2. CASE Posedge
  <2>1. wb'.useRd => wb'.rd # 0
    <3>1. PICK l : /\ wb' = IF l.rd # 0 /\ l.we /\ l.useRd
                            THEN [l EXCEPT !.value = result_mem_mem]
                            ELSE [l EXCEPT !.rd = 0, !.useRd = FALSE]
                   /\ l \in [rd : Reg, useRd : BOOLEAN, we : BOOLEAN, value : Word]
      <4>1. PICK l : l = IF Frozen THEN wb
                         ELSE [wb EXCEPT !.rd = mm.rd, !.useRd = mm.useRd, !.we = mm.we]
        OBVIOUS
      <4>2. l \in [rd : Reg, useRd : BOOLEAN, we : BOOLEAN, value : Word]
        BY <4>1 DEF Typed, TypeOK, LatchesOK
      <4> QED
        BY <1>2, <4>1, <4>2 DEF Posedge, wrbk
    <3> QED
      BY <3>1
  <2>2. CASE Frozen
    <3>1. /\ ex' = ex /\ dc' = dc /\ ft'.address = ft.address /\ ft'.we
      BY <1>2, <2>2, FrozenEdge
    <3> QED
      BY <2>1, <3>1 DEF Straight
  <2>3. CASE ~Frozen /\ stallSignals
    <3>1. ~ex'.we /\ dc' = dc /\ ft'.address = ft.address /\ ft'.we
      BY <1>2, <2>3, LoadUseEdge DEF Typed
    <3> QED
      BY <2>1, <3>1 DEF Straight
  <2>4. CASE Advance
    <3>1. /\ ex'.op = dc.instr.op /\ ex'.pc = dc.pc
          /\ ex'.we = (dc.we /\ ~isBranch_ex) /\ dc'.pc = ft.address
          /\ dc'.we = (ft.we /\ ~isBranch_ex /\ ~isBranch_dc)
          /\ ft'.address = IF isBranch_ex THEN nextPC_ex
                           ELSE IF isBranch_dc THEN nextPC_dc ELSE ic.addOut
          /\ ft'.we
      BY <1>2, <2>4, AdvanceEdge
    <3>2. ft.we => ic.addOut = After(ft.address)
      BY <1>2, <2>4 DEF Posedge, Advance, Frozen, Ordered, FetchMatches, After
    <3>3. dc.we => ft.we
      BY DEF Ordered, Empty
    <3> QED
      BY <2>1, <3>1, <3>2, <3>3 DEF Straight, isBranch_dc
  <2> QED
    BY <2>2, <2>3, <2>4 DEF Advance
<1> QED
  BY <1>1, <1>2 DEF Next

\* What decode takes next is of the program.
LEMMA FromProgramStep ==
  ASSUME Typed, Ordered, Straight, FromProgram, Next PROVE FromProgram'
<1>1. CASE Negedge
  BY <1>1 DEF Negedge, FromProgram
<1>2. CASE Posedge
  <2>1. imem' = imem /\ phase = "pos"
    BY <1>2 DEF Posedge
  <2>2. mu'.isM = MultLatched.isM /\ mu'.f3 = MultLatched.f3
    BY <1>2, TypesAreWords, MultKeeps DEF Posedge, Typed
  <2>3. mu'.isM => \E a \in Word : IsM(imem[a]) /\ imem[a].f3 = mu'.f3
    BY <2>2, LatchedIsProgram
  <2>4. dc'.instr = NoInstr \/ \E a \in Word : dc'.instr = imem[a]
    <3>1. CASE ~Advance
      <4>1. dc' = dc
        BY <1>2, <3>1 DEF Posedge, decode
      <4> QED
        BY <4>1 DEF FromProgram
    <3>2. CASE Advance
      <4>1. dc'.instr = ic.instr
        BY <1>2, <3>2, AdvanceEdge
      <4>2. CASE ~ft.we
        BY <4>1, <4>2 DEF Straight
      <4>3. CASE ft.we
        <5>1. ic.instr = imem[ft.address \div InstrBytes]
          BY <2>1, <3>2, <4>3 DEF Advance, Frozen, Ordered, FetchMatches, Fetched
        <5>2. ft.address \div InstrBytes \in Word
          BY ParametersInWord, QuotientInWord DEF Typed, TypeOK, LatchesOK
        <5> QED
          BY <4>1, <5>1, <5>2
      <4> QED
        BY <4>2, <4>3
    <3> QED
      BY <3>1, <3>2
  <2> QED
    BY <2>1, <2>3, <2>4 DEF FromProgram
<1> QED
  BY <1>1, <1>2 DEF Next

\* A word that is squashed follows a jump or a branch, or comes two words
\* behind a branch.
LEMMA SquashedStep ==
  ASSUME Typed, Ordered, Straight, Squashed, Tame(imem), Next PROVE Squashed'
<1>1. CASE Negedge
  BY <1>1 DEF Negedge, Squashed
<1>2. CASE Posedge /\ Frozen
  <2>1. ex' = ex /\ dc' = dc
    BY <1>2, FrozenEdge
  <2> QED
    BY <2>1 DEF Squashed, IsPrint
<1>3. CASE Posedge /\ ~Frozen /\ stallSignals
  <2>1. dc' = dc /\ ex.op = "LD"
    BY <1>3, LoadUseEdge DEF Typed
  <2>2. ex'.op = ex.op
    BY <1>3 DEF Posedge, exec, Typed, TypeOK, LatchesOK
  <2> QED
    BY <2>1, <2>2 DEF Squashed, IsPrint
<1>4. CASE Posedge /\ Advance
  <2>1. /\ ex'.op = dc.instr.op /\ ex'.f3 = dc.instr.f3
        /\ ex'.we = (dc.we /\ ~isBranch_ex) /\ dc'.instr = ic.instr
        /\ dc'.we = (ft.we /\ ~isBranch_ex /\ ~isBranch_dc)
    BY <1>4, AdvanceEdge
  <2>2. ft.we => ic.instr = Fetched(ft.address)
    BY <1>4 DEF Posedge, Advance, Frozen, Ordered, FetchMatches
  <2>3. dc.pc \in Word /\ ex.pc \in Word
    BY DEF Typed, TypeOK, LatchesOK
  <2>4. isBranch_ex => /\ ~IsPrint(dc.instr)
                       /\ ft.we => ~IsPrint(ic.instr) /\ ~IsDivide(ic.instr)
    <3> SUFFICES ASSUME isBranch_ex
                 PROVE  /\ ~IsPrint(dc.instr)
                        /\ ft.we => ~IsPrint(ic.instr) /\ ~IsDivide(ic.instr)
      OBVIOUS
    <3>1. ex.we /\ Redirects(ex) /\ ex.op # "JAL"
      BY DEF isBranch_ex, Redirects
    <3>2. dc.we /\ dc.pc = After(ex.pc) /\ ft.address = After(dc.pc)
      BY <3>1 DEF Straight
    <3>3. Redirects(Fetched(ex.pc)) /\ dc.instr = Fetched(dc.pc)
      BY <3>1, <3>2 DEF Ordered, FetchedAtPc, DecodeMatches, Fetched, Redirects
    <3>4. ~IsPrint(Fetched(dc.pc)) /\ ~IsPrint(Fetched(ft.address))
          /\ ~IsDivide(Fetched(ft.address))
      BY <2>3, <3>2, <3>3, TameAt DEF PrintsApart, DivisionsApart
    <3> QED
      BY <2>2, <3>3, <3>4
  <2>5. isBranch_dc /\ ft.we => ~IsPrint(ic.instr) /\ ~IsDivide(ic.instr)
    <3> SUFFICES ASSUME isBranch_dc, ft.we
                 PROVE  ~IsPrint(ic.instr) /\ ~IsDivide(ic.instr)
      OBVIOUS
    <3>1. /\ dc.we /\ dc.instr.op = "JAL" /\ ft.address = After(dc.pc)
          /\ dc.instr = Fetched(dc.pc)
      BY DEF isBranch_dc, Straight, Ordered, DecodeMatches
    <3> QED
      BY <2>2, <2>3, <3>1, TameAt DEF PrintsApart, DivisionsApart
  <2>6. ~ft.we => ~IsPrint(ic.instr) /\ ~IsDivide(ic.instr)
    BY DEF Straight, NoInstr, IsPrint, IsDivide, IsM
  <2>7. ~dc'.we => ~IsPrint(dc'.instr) /\ ~IsDivide(dc'.instr)
    BY <2>1, <2>4, <2>5, <2>6
  <2>8. ~ex'.we => ~IsPrint(dc.instr)
    BY <2>1, <2>4 DEF Squashed
  <2> QED
    BY <2>1, <2>7, <2>8 DEF Squashed, IsPrint, IsDivide, IsM
<1> QED
  BY <1>1, <1>2, <1>3, <1>4 DEF Next, Advance

\* A load in exec holds what reads it in decode.
LEMMA ReadsStall ==
  ASSUME TypeOK, ~localStall, useRd_ex, ex.op = "LD", dc.we, ex.rd \in Reads(dc.instr)
  PROVE  stallSignals
<1>1. dc.we = TRUE
  BY Bits
<1>2. PICK use, rs : OperandOf(use, rs) /\ use /\ rs = ex.rd
  BY <1>1 DEF Reads, OperandOf, useRs1_dc, useRs2_dc, useRs3_dc
<1>3. Forward(use, rs) = "STALL"
  BY <1>2 DEF Forward
<1> QED
  BY <1>2, <1>3 DEF OperandOf, stallSignals, forward1, forward2, forward3

\* A division starts with the word behind it in decode, and no load in mems.
LEMMA DividesStep ==
  ASSUME Typed, Ordered, Enabled, Straight, Squashed, Divides, MultFollowsExec, Drained,
         Tame(imem), Next
  PROVE  Divides'
<1>1. CASE Negedge
  BY <1>1 DEF Negedge, Divides, localStall
<1>2. CASE Posedge /\ Frozen
  <2>1. ex' = ex /\ dc' = dc /\ mm' = [mm EXCEPT !.opType = "NONE"]
    BY <1>2, FrozenEdge DEF Posedge, mems
  <2>2. mm'.opType = "NONE"
    BY <2>1 DEF Typed, TypeOK, LatchesOK
  <2>3. dc.we => ex.we
    BY <1>2 DEF Frozen, Divides, Drained
  <2> QED
    BY <2>1, <2>2, <2>3 DEF Divides
<1>3. CASE Posedge /\ ~Frozen /\ stallSignals
  <2>1. ex.we /\ ex.op = "LD"
    BY <1>3, LoadUseEdge DEF Typed
  <2>2. ~mu.isM /\ MultLatched = mu
    BY <1>3, <2>1 DEF MultFollowsExec, MultLatched, Advance
  <2>3. ~mu'.isM
    BY <1>3, <2>2, TypesAreWords, MultKeeps DEF Posedge, Typed
  <2> QED
    BY <2>3 DEF Divides, localStall
<1>4. CASE Posedge /\ Advance
  <2> SUFFICES ASSUME mu'.isM, mu'.state # 0
               PROVE  (dc'.we => ex'.we) /\ ~(mm'.opType = "LOAD" /\ mm'.useRd)
    BY DEF Divides, localStall
  <2>1. PICK l : l = MultLatched
    OBVIOUS
  <2>2. /\ l \in MultRegs(Nat) /\ l.state = mu.state /\ l.isM = mu'.isM
        /\ l.isM = IsM(dc.instr) /\ l.f3 = dc.instr.f3
    <3>1. l.isM = IsM(dc.instr) /\ l.f3 = dc.instr.f3
      BY <1>4, <2>1 DEF MultLatched, Typed, TypeOK, MultRegs
    <3> QED
      BY <1>4, <2>1, <3>1, MultLatchedTyped, MultKeeps, TypesAreWords DEF Posedge, Typed
  <2>3. mu.state = 0
    BY <1>4 DEF Advance, Frozen, localStall, MultFollowsExec
  <2>4. mu' = MultStart(l)
    BY <1>4, <2>1, <2>2, <2>3 DEF Posedge, mult
  <2>5. StartsDivision(l)
    BY <2>2, <2>3, <2>4, MultStartTyped, TypesAreWords DEF Typed
  <2>6. IsDivide(dc.instr)
    BY <2>2, <2>5 DEF StartsDivision, IsDivide
  <2>7. dc.we
    BY <2>6 DEF Squashed
  <2>8. dc'.we => ex'.we
    BY <1>4, <2>7, AdvanceEdge
  <2>9. ASSUME mm'.opType = "LOAD", mm'.useRd
        PROVE  FALSE
    <3>1. ex.we /\ ex.op = "LD" /\ useRd_ex
      BY <1>4, <2>9, MovesOn DEF Advance, Typed
    <3>2. PICK i : /\ i.op = ex.op /\ i.rd = ex.rd
                   /\ i.op = "LD" /\ IsDivide(dc.instr) => i.rd \in Reads(dc.instr) \cup {0}
      BY <2>7, <3>1, Neighbours
    <3>3. ex.rd \in Reads(dc.instr)
      BY <2>6, <3>1, <3>2 DEF useRd_ex, Enabled
    <3> QED
      BY <1>4, <2>7, <3>1, <3>3, ReadsStall DEF Advance, Frozen, Typed
  <2> QED
    BY <2>8, <2>9
<1> QED
  BY <1>1, <1>2, <1>3, <1>4 DEF Next, Advance

\* mult takes other operands for those of its quotient only if it answers a
\* division by zero or an overflow.
LEMMA NoneReusedStep ==
  ASSUME Typed, FromProgram, NoneReused, HNext, phase = "pos" => ~Loses
  PROVE  NoneReused'
<1>1. CASE HNegedge
  BY <1>1 DEF HNegedge, Negedge, NoneReused
<1>2. CASE HPosedge
  <2>1. PICK l : l = MultLatched
    OBVIOUS
  <2>2. /\ imem' = imem
        /\ mu' = IF ~l.isM THEN [l EXCEPT !.valRet = FALSE]
                 ELSE IF l.state = 0 THEN MultStart(l) ELSE MultIterate(l)
        /\ foreign' = IF ~Answers(l) \/ ReusesQuotient(l) THEN foreign
                      ELSE ~StartsDivision(l)
        /\ ~StaleQuotient
    BY <1>2, <2>1 DEF HPosedge, Posedge, mult, Loses
  <2>3. /\ l \in MultRegs(Nat) /\ l.dataA = mu.dataA /\ l.dataB = mu.dataB
    BY <2>1, MultLatchedTyped, TypesAreWords DEF Typed, MultLatched, TypeOK, MultRegs
  <2> SUFFICES ASSUME \A a \in Word : IsM(imem[a]) => IsDivision(imem[a].f3), foreign'
               PROVE  mu'.dataB = 0 \/ (mu'.dataA = MinInt /\ mu'.dataB = OverflowDivisor)
    BY <2>2 DEF NoneReused
  <2>4. CASE ~Answers(l)
    <3>1. mu'.dataA = l.dataA /\ mu'.dataB = l.dataB
      <4>1. CASE ~l.isM
        BY <2>2, <2>3, <4>1 DEF MultRegs
      <4>2. CASE l.isM
        <5>1. mu' = MultIterate(l)
          BY <2>2, <2>4, <4>2 DEF Answers
        <5> QED
          BY <2>3, <5>1 DEF MultIterate, MultRegs
      <4> QED
        BY <4>1, <4>2
    <3> QED
      BY <2>2, <2>3, <2>4, <3>1 DEF NoneReused
  <2>5. CASE Answers(l)
    <3>1. ~ReusesQuotient(l) /\ ~StartsDivision(l)
      BY <2>1, <2>2, <2>5 DEF StaleQuotient
    <3>2. IsDivision(l.f3)
      BY <2>1, <2>5, LatchedIsProgram DEF Answers
    <3>3. DivByZero(l) \/ DivOverflow(l)
      BY <3>1, <3>2 DEF ReusesQuotient, StartsDivision
    <3>4. mu' = MultStart(l)
      BY <2>2, <2>5 DEF Answers
    <3>5. mu'.dataA = l.lhs /\ mu'.dataB = l.rhs
      <4> DEFINE s == [l EXCEPT !.fwd = ForwardFlags(l), !.dataA = l.lhs,
                                !.dataB = l.rhs,
                                !.resIsNeg = IsNeg(l.lhs) # IsNeg(l.rhs)]
      <4>1. s.dataA = l.lhs /\ s.dataB = l.rhs /\ DOMAIN s = DOMAIN l
        BY <2>3 DEF MultRegs
      <4>2. \E v : MultStart(l) = [s EXCEPT !.valRet = TRUE, !.result = v]
        BY <3>1 DEF MultStart
      <4> HIDE DEF s
      <4> QED
        BY <3>4, <4>1, <4>2
    <3> QED
      BY <3>3, <3>5 DEF DivByZero, DivOverflow
  <2> QED
    BY <2>4, <2>5
<1> QED
  BY <1>1, <1>2 DEF HNext

-----------------------------------------------------------------------------
(* Tame programs lose nothing.                                             *)

\* After the reset there is nothing to lose.
LEMMA InitUnlost == HInit => Unlost
<1> SUFFICES ASSUME HInit PROVE Unlost
  OBVIOUS
<1>1. /\ ~dc.we /\ ~ex.we /\ ~wb.useRd /\ dc.instr = NoInstr /\ ic.instr = NoInstr
      /\ ft.address = PC_STARTADDR /\ ~mu.isM /\ mu.dataB = 0 /\ ex.op = "NONE"
  BY DEF HInit, Init, decode_reset, exec_reset, wrbk_reset, fetch_reset, mult_reset,
         icache_reset
<1> QED
  BY <1>1 DEF Unlost, Straight, FromProgram, Kept, Squashed, Divides, NoneReused, NoInstr,
     IsPrint, IsDivide, IsM, localStall

\* No edge changes that.
LEMMA NextUnlost == HInv /\ Unlost /\ [HNext]_hvars => Unlost'
<1> SUFFICES ASSUME HInv, Unlost, [HNext]_hvars PROVE Unlost'
  OBVIOUS
<1>0. Typed /\ Ordered /\ Enabled /\ Straight /\ FromProgram
  BY DEF HInv, Exact, Unlost
<1>1. CASE HNext
  <2>1. Next
    BY <1>1 DEF HNext, HPosedge, HNegedge, Next
  <2>2. Straight' /\ FromProgram'
    BY <1>0, <2>1, StraightStep, FromProgramStep
  <2>3. ASSUME Tame(imem'), ~lost'
        PROVE  Kept'
    <3>1. /\ ~lost /\ (phase = "pos" => ~Loses) /\ imem' = imem
      BY <1>1, <2>3 DEF HNext, HPosedge, HNegedge, Negedge, Posedge, HInv
    <3>2. /\ Tame(imem) /\ Squashed /\ Divides /\ NoneReused
          /\ MultFollowsExec /\ Drained
      BY <2>3, <3>1 DEF Unlost, Kept, HInv, Exact
    <3>3. Squashed' /\ Divides' /\ NoneReused'
      BY <1>0, <1>1, <2>1, <3>1, <3>2, SquashedStep, DividesStep, NoneReusedStep
    <3> QED
      BY <3>3 DEF Kept
  <2> QED
    BY <2>2, <2>3 DEF Unlost
<1>2. CASE UNCHANGED hvars
  BY <1>2 DEF hvars, vars, Unlost, Straight, FromProgram, Kept, Squashed, Divides,
     NoneReused, localStall
<1> QED
  BY <1>1, <1>2

\* In a tame program none of the situations ever occurs, whatever its data: the
\* conditions on neighbouring words are enough for all the ways in which stalls,
\* bubbles, squashes, redirections and divisions bring words together.
THEOREM TameProgramsLoseNothing == HSpec => []TameLosesNothing
<1>1. HInv /\ Unlost => TameLosesNothing
  BY NothingLost DEF TameLosesNothing
<1> QED
  BY <1>1, InitInv, NextInv, InitUnlost, NextUnlost, PTL DEF HSpec

\* Such a program stays exact.
LEMMA StaysExact ==
  HInv /\ Unlost /\ StaysAway /\ Tame(imem) /\ ~lost /\ [HNext]_hvars
    => /\ ~lost' /\ Tame(imem)'
       /\ I!Next \/ UNCHANGED absVars
<1> SUFFICES ASSUME HInv, Unlost, StaysAway, Tame(imem), ~lost, [HNext]_hvars
             PROVE  /\ ~lost' /\ Tame(imem)'
                    /\ I!Next \/ UNCHANGED absVars
  OBVIOUS
<1>1. phase = "pos" => ~Loses
  BY NothingLost
<1>2. CASE HNext
  <2>1. Next /\ imem' = imem
    BY <1>2 DEF HNext, HPosedge, HNegedge, Next, Posedge, Negedge
  <2>2. ~lost'
    BY <1>1, <1>2 DEF HNext, HPosedge, HNegedge, Posedge
  <2>3. I!Next \/ UNCHANGED absVars
    BY <1>1, <2>1, EdgeImplements DEF HInv
  <2> QED
    BY <2>1, <2>2, <2>3
<1>3. CASE UNCHANGED hvars
  BY <1>3
  DEF hvars, vars, absVars, AbsPc, AbsRegs, AbsMem, AbsOut, PendingResult,
      result_mem_mem
<1> QED
  BY <1>2, <1>3

\* The pipeline implements the sequential machine for tame programs, from
\* reset to the return, as long as they do not count up to RAADDRESS.
THEOREM TameProgramsAreExact ==
  (\A p \in Programs : Tame(p)) => (HSpec /\ []StaysAway => ImplementsIsa)
<1> SUFFICES ASSUME \A p \in Programs : Tame(p)
             PROVE  HSpec /\ []StaysAway => ImplementsIsa
  OBVIOUS
<1>1. HInit => HInv /\ Unlost /\ ~lost /\ Tame(imem) /\ I!Init
  <2>1. HInit => ~lost /\ Tame(imem)
    BY DEF HInit, Init, icache_reset
  <2> QED
    BY <2>1, InitInv, InitUnlost, InitImplements DEF HInit
<1>2. (HInv /\ Unlost /\ Tame(imem) /\ ~lost) /\ StaysAway /\ [HNext]_hvars
        => (HInv /\ Unlost /\ Tame(imem) /\ ~lost)' /\ [I!Next]_absVars
  BY NextInv, NextUnlost, StaysExact
<1> QED
  BY <1>1, <1>2, PTL DEF HSpec, ImplementsIsa

-----------------------------------------------------------------------------
(* Calls of memcpy, memmove and memset.                                     *)

\* The address of the n-th instruction of a program.
Pc(n) == PC_STARTADDR + InstrBytes * n

Words(c) == c.size \div 4

\* What is promised when k words have been done.
Done(c, k) == Promised([c EXCEPT !.size = 4 * k])

\* The arguments are in their registers, as far as that.
Arguments(c, n) ==
  /\ n > 0 => AbsRegs[10] = c.to
  /\ n > 1 => AbsRegs[11] = c.from
  /\ n > 2 => AbsRegs[12] = c.size
  /\ AbsMem = DMEM_INIT

\* Where a call is: its arguments are being loaded, memmove compares, the routine
\* begins, it is in its loop, or it has done what it promises.
InCall(c) == \E n \in 0 .. 3 : AbsPc = Pc(n) /\ Arguments(c, n)

InMove(c) ==
  /\ c.routine = "memmove" /\ Arguments(c, 3)
  /\ \E n \in 12 .. 16 : AbsPc = Pc(n) /\ (n = 15 => AbsRegs[28] = 0)

Entered(c) ==
  /\ Arguments(c, 3)
  /\ AbsPc = IF c.routine = "memset" THEN Pc(26) ELSE Pc(4)

\* In the n-th instruction of the loop with k words done.
CopyAt(c, n, k) ==
  /\ AbsPc = Pc(4 + n)
  /\ AbsMem = Done(c, IF n > 4 THEN k + 1 ELSE k)
  /\ AbsRegs[31] = c.to + 4 * (IF n > 5 THEN k + 1 ELSE k)
  /\ AbsRegs[11] = c.from + 4 * (IF n > 3 THEN k + 1 ELSE k)
  /\ AbsRegs[12] = c.size - 4 * (IF n > 2 THEN k + 1 ELSE k)
  /\ n \in 2 .. 4 => AbsRegs[30] = DMEM_INIT[Cell(c.from) + k]
InCopy(c) ==
  /\ c.routine # "memset"
  /\ \E n \in 1 .. 6, k \in 0 .. (Words(c) - 1) : CopyAt(c, n, k)

\* The same for the loop of memset.
SetAt(c, n, k) ==
  /\ AbsPc = Pc(26 + n)
  /\ AbsMem = Done(c, IF n > 2 THEN k + 1 ELSE k)
  /\ AbsRegs[31] = c.to + 4 * (IF n > 3 THEN k + 1 ELSE k)
  /\ AbsRegs[11] = c.from
  /\ AbsRegs[12] = c.size - 4 * (IF n > 1 THEN k + 1 ELSE k)
InSet(c) ==
  /\ c.routine = "memset"
  /\ \E n \in 1 .. 4, k \in 0 .. (Words(c) - 1) : SetAt(c, n, k)

Finished(c) ==
  AbsPc \in {Pc(11), Pc(31), RAADDRESS} /\ AbsMem = Promised(c)

Point(c) == InCall(c) \/ InMove(c) \/ Entered(c) \/ InCopy(c) \/ InSet(c)
            \/ Finished(c)

\* The registers that keep their values throughout.
Wired == AbsRegs \in [Reg -> Word] /\ AbsRegs[0] = 0 /\ AbsRegs[1] = RAADDRESS

\* The program is a call, and unless memmove goes the wrong way the sequential
\* machine is at one of the points of the call.
IsCall == Legal(Calling) /\ imem = ProgramOf(Calling)
CallInv == IsCall /\ (~Reverses(Calling) => Wired /\ Point(Calling))

\* The instructions of a program.
Text(c) == <<li(10, c.to), li(11, c.from), li(12, c.size),
             jal(0, 1 + Entry[c.routine])>> \o library

\* The words of the library that a call comes to.
LEMMA LibraryText ==
  /\ Len(library) = 28
  /\ library[1] = mv(31, 10) /\ library[2] = lw(30, 11, 0)
  /\ library[3] = addi(12, 12, -4) /\ library[4] = addi(11, 11, 4)
  /\ library[5] = sw(30, 31, 0) /\ library[6] = addi(31, 31, 4)
  /\ library[7] = bne(12, 0, -5) /\ library[8] = ret
  /\ library[9] = mv(5, 10) /\ library[10] = mv(6, 11)
  /\ library[11] = slt(28, 10, 11) /\ library[12] = bne(28, 0, 2)
  /\ library[13] = beq(0, 0, -12)
  /\ library[14] = add(10, 10, 12) /\ library[15] = add(11, 11, 12)
  /\ library[16] = lw(30, 11, 0) /\ library[17] = addi(12, 12, -4)
  /\ library[18] = addi(11, 11, -4) /\ library[19] = sw(30, 10, 0)
  /\ library[20] = addi(10, 10, -4) /\ library[21] = bne(12, 0, -7)
  /\ library[22] = ret
  /\ library[23] = mv(31, 10) /\ library[24] = addi(12, 12, -4)
  /\ library[25] = sw(11, 31, 0) /\ library[26] = addi(31, 31, 4)
  /\ library[27] = bne(12, 0, -3) /\ library[28] = ret
BY SMT DEF library, memcpy, memmove, memset

\* The words of a program.
LEMMA ProgramText ==
  ASSUME NEW c
  PROVE  /\ Len(Text(c)) = 32
         /\ Text(c)[1] = li(10, c.to) /\ Text(c)[2] = li(11, c.from)
         /\ Text(c)[3] = li(12, c.size) /\ Text(c)[4] = jal(0, 1 + Entry[c.routine])
         /\ \A n \in 1 .. 28 : Text(c)[n + 4] = library[n]
BY SMT DEF Text, library, memcpy, memmove, memset

\* Where the routines begin.
LEMMA Entries ==
  /\ DOMAIN Entry = {"memcpy", "memmove", "memset"}
  /\ Entry["memcpy"] = 0 /\ Entry["memmove"] = 8 /\ Entry["memset"] = 22
BY SMT DEF Entry, memcpy, memmove

\* The addresses of the text are words, one behind the other.
LEMMA TextAddress ==
  ASSUME LibraryInstance, NEW n \in 0 .. 34
  PROVE  /\ Pc(n) \in Word /\ Pc(n) # RAADDRESS
         /\ Pc(n) = InstrBytes * (First + n)
         /\ Pc(n) \div InstrBytes = First + n
         /\ First \in Nat /\ First + n \in Word
<1>1. /\ InstrBytes \in Nat \ {0} /\ PC_STARTADDR \in Nat /\ Modulus \in Nat
      /\ PC_STARTADDR % InstrBytes = 0
  BY SizesAssumption DEF LibraryInstance, Word
<1>2. First \in Int /\ PC_STARTADDR = InstrBytes * First
  BY <1>1, DivMod DEF First
<1>3. First >= 0
  BY <1>1, <1>2
<1>4. Pc(n) = InstrBytes * (First + n)
  BY <1>1, <1>2 DEF Pc
<1>5. Pc(n) \div InstrBytes = First + n
  <2>1. First + n \in Int /\ 0 \in 0 .. (InstrBytes - 1) /\ Pc(n) \in Int
        /\ Pc(n) = InstrBytes * (First + n) + 0
    BY <1>1, <1>2, <1>4 DEF Pc
  <2> QED
    BY <1>1, <2>1, DivUnique
<1>6. PC_STARTADDR + InstrBytes * 35 <= Modulus
  BY LibraryText DEF LibraryInstance
<1>7. Pc(n) >= 0 /\ Pc(n) < Modulus /\ Pc(n) # RAADDRESS
  <2>1. InstrBytes * n \in Nat /\ InstrBytes * n < InstrBytes * 35
    BY <1>1
  <2>2. Pc(n) \in PC_STARTADDR .. (PC_STARTADDR + InstrBytes * 35 - 1)
    BY <1>1, <2>1 DEF Pc
  <2> QED
    BY <1>1, <1>6, <2>1, <2>2, LibraryText DEF Pc, LibraryInstance
<1>8. First + n <= Pc(n)
  <2>1. First + n \in Nat
    BY <1>2, <1>3
  <2> QED
    BY <1>1, <1>4, <2>1
<1> QED
  BY <1>1, <1>2, <1>3, <1>4, <1>5, <1>6, <1>7, <1>8 DEF Word, Pc

\* A jump from an address in the text to another goes as far as it says.
LEMMA JumpDistance ==
  ASSUME LibraryInstance, NEW n \in 0 .. 34, NEW k \in Int, n + k \in 0 .. 34,
         NEW a \in Word, a \div InstrBytes = First + n
  PROVE  /\ Add(a, (InstrBytes * k) % Modulus) = a + InstrBytes * k
         /\ a + InstrBytes * k \in Word
         /\ (a + InstrBytes * k) \div InstrBytes = First + n + k
<1>1. /\ First \in Nat /\ PC_STARTADDR = InstrBytes * First
      /\ PC_STARTADDR + InstrBytes * 35 <= Modulus
      /\ InstrBytes \in Nat \ {0} /\ Modulus \in Nat \ {0} /\ a \in Nat
  <2>1. Pc(0) = InstrBytes * (First + 0) /\ First \in Nat
    BY TextAddress
  <2>2. InstrBytes \in Nat \ {0} /\ PC_STARTADDR \in Nat
    BY SizesAssumption DEF Word
  <2>3. Pc(0) = PC_STARTADDR
    BY <2>2 DEF Pc
  <2>4. PC_STARTADDR + InstrBytes * 35 <= Modulus
    BY LibraryText DEF LibraryInstance
  <2> QED
    BY <2>1, <2>2, <2>3, <2>4, SizesAssumption DEF Word
<1>2. PICK r \in 0 .. (InstrBytes - 1) : a = InstrBytes * (First + n) + r
  <2>1. a % InstrBytes \in 0 .. (InstrBytes - 1)
        /\ a = InstrBytes * (a \div InstrBytes) + (a % InstrBytes)
    BY <1>1, DivMod
  <2> QED
    BY <2>1, Zenon
<1>3. PICK x \in Int, t \in Nat : x = InstrBytes * k /\ t = First + n + k
  BY <1>1
<1>4. a + x = InstrBytes * t + r
  <2>1. InstrBytes * t = InstrBytes * (First + n) + InstrBytes * k
    BY <1>1, <1>3
  <2> QED
    BY <1>1, <1>2, <1>3, <2>1
<1>5. a + x \in 0 .. (Modulus - 1) /\ a + x \in Int
  <2>1. InstrBytes * t + InstrBytes <= InstrBytes * First + InstrBytes * 35
    <3>1. InstrBytes * (t + 1) <= InstrBytes * (First + 35)
      <4>1. t + 1 \in Nat /\ First + 35 \in Nat /\ t + 1 <= First + 35
        BY <1>1, <1>3
      <4> QED
        BY <1>1, <4>1
    <3>2. /\ InstrBytes * (t + 1) = InstrBytes * t + InstrBytes
          /\ InstrBytes * (First + 35) = InstrBytes * First + InstrBytes * 35
      BY <1>1
    <3> QED
      BY <3>1, <3>2
  <2>2. InstrBytes * t \in Nat
    BY <1>1
  <2> QED
    BY <1>1, <1>2, <1>4, <2>1, <2>2
<1>6. (a + x) \div InstrBytes = t
  BY <1>1, <1>4, <1>5, DivUnique
<1>7. PICK q \in Int, d \in Int : q = x % Modulus /\ x = Modulus * d + q
  <2>1. /\ x \div Modulus \in Int /\ x % Modulus \in 0 .. (Modulus - 1)
        /\ x = Modulus * (x \div Modulus) + (x % Modulus)
    BY <1>1, DivMod
  <2>2. x % Modulus \in Int
    BY <1>1
  <2> QED
    BY <2>1, <2>2, Zenon
<1>8. PICK y \in Int, m \in Int : y = a + x /\ m = 0 - d
  BY <1>5
<1>9. (y + Modulus * m) % Modulus = y % Modulus
  BY <1>1, ModShift
<1>10. a + q = y + Modulus * m
  <2>1. Modulus * m = 0 - Modulus * d
    BY <1>1, <1>8
  <2>2. PICK e \in Int : e = Modulus * d
    BY <1>1
  <2> QED
    <3>1. Modulus * m = 0 - e /\ x = e + q
      BY <1>7, <2>1, <2>2, Zenon
    <3>2. a \in Int /\ y = a + x
      BY <1>1, <1>8
    <3>3. a + q = y + (0 - e)
      BY <3>1, <3>2
    <3> QED
      BY <3>1, <3>3, Zenon
<1>11. y % Modulus = a + x
  BY <1>1, <1>5, <1>8
<1>12. Add(a, q) = a + x
  BY <1>9, <1>10, <1>11 DEF Add, Wrap
<1> QED
  BY <1>3, <1>5, <1>6, <1>7, <1>12 DEF Word

\* A jump from one instruction of the text to another.
LEMMA TextDistance ==
  ASSUME LibraryInstance, NEW n \in 0 .. 34, NEW k \in Int, n + k \in 0 .. 34
  PROVE  Add(Pc(n), (InstrBytes * k) % Modulus) = Pc(n + k)
<1>1. Pc(n) \in Word /\ Pc(n) \div InstrBytes = First + n
  BY TextAddress
<1>2. Add(Pc(n), (InstrBytes * k) % Modulus) = Pc(n) + InstrBytes * k
  BY <1>1, JumpDistance
<1>3. Pc(n) + InstrBytes * k = Pc(n + k)
  BY SizesAssumption DEF Pc, Word
<1> QED
  BY <1>2, <1>3

\* Behind an instruction is the next one.
LEMMA TextNext ==
  ASSUME LibraryInstance, NEW n \in 0 .. 33
  PROVE  Add(Pc(n), InstrBytes) = Pc(n + 1)
<1>1. (InstrBytes * 1) % Modulus = InstrBytes
  BY SizesAssumption
<1>2. n \in 0 .. 34 /\ 1 \in Int /\ n + 1 \in 0 .. 34
  OBVIOUS
<1> QED
  BY <1>1, <1>2, TextDistance

\* What stands there.
LEMMA TextFetched ==
  ASSUME LibraryInstance, IsCall, NEW n \in 0 .. 31
  PROVE  imem[Pc(n) \div InstrBytes] = Text(Calling)[n + 1]
<1>1. Pc(n) \div InstrBytes = First + n /\ First + n \in Word /\ First \in Nat
  BY TextAddress
<1>2. imem = Image(Text(Calling)) /\ Len(Text(Calling)) = 32
  BY ProgramText DEF IsCall, ProgramOf, Text
<1>3. (First + n) - First + 1 = n + 1 /\ n + 1 \in 1 .. 32
  BY <1>1
<1> QED
  BY <1>1, <1>2, <1>3 DEF Image

-----------------------------------------------------------------------------
(* One instruction.                                                        *)
\* Register rd gets v, the others keep their values.
Sets(rd, v) ==
  /\ AbsRegs'[rd] = v
  /\ \A r \in Reg \ {rd} : AbsRegs'[r] = AbsRegs[r]
  /\ Wired'

\* The registers and arguments a call uses.
LEMMA Registers ==
  ASSUME LibraryInstance
  PROVE  0 .. 31 \subseteq Reg
BY SizesAssumption DEF LibraryInstance, Reg

\* What SetRd of Isa does to a register of its own.
LEMMA SetRegister ==
  ASSUME LibraryInstance, Wired, NEW rd \in 2 .. 31, NEW v \in Word,
         AbsRegs' = [AbsRegs EXCEPT ![rd] = v]
  PROVE  Sets(rd, v)
<1>1. rd \in Reg /\ 0 \in Reg /\ 1 \in Reg
  BY Registers
<1>2. AbsRegs' \in [Reg -> Word]
  BY <1>1 DEF Wired
<1>3. AbsRegs'[0] = 0 /\ AbsRegs'[1] = RAADDRESS
  BY <1>1 DEF Wired
<1>4. Wired'
  BY <1>2, <1>3 DEF Wired
<1> QED
  BY <1>1, <1>4 DEF Wired, Sets

\* The n-th instruction of the program in imem is the next.
Executes(n, i) ==
  AbsPc = Pc(n) /\ n \in 0 .. 31 /\ Text(Calling)[n + 1] = i

\* It is the one Isa executes, and the next address is that of the next one.
LEMMA NextInstruction ==
  ASSUME LibraryInstance, IsCall, NEW n, NEW i, Executes(n, i)
  PROVE  I!ins = i /\ I!NextPc = Pc(n + 1)
<1>1. n \in 0 .. 31 /\ n \in 0 .. 33
  BY DEF Executes
<1>2. imem[AbsPc \div InstrBytes] = i
  BY <1>1, TextFetched DEF Executes
<1>3. Add(AbsPc, InstrBytes) = Pc(n + 1)
  BY <1>1, TextNext DEF Executes
<1> QED
  BY <1>2, <1>3, SameMachine DEF I!ins, I!NextPc

\* A word at no distance.
LEMMA AddZero == ASSUME NEW x \in Word PROVE Add(x, 0) = x
BY SizesAssumption DEF Add, Wrap, Word

\* The action of Isa that executes an instruction, by its operation code.
LEMMA ByOpCode ==
  ASSUME I!Next
  PROVE  /\ I!ins.op \in {"OPI", "OP"} => I!Compute
         /\ I!ins.op = "LD" => I!Load
         /\ I!ins.op = "ST" => I!Store
         /\ I!ins.op = "BR" => I!Branch
         /\ I!ins.op = "JAL" => I!JumpAndLink
         /\ I!ins.op = "JALR" /\ I!ins.f3 = 0 => I!JumpAndLink
BY SameMachine
DEF I!Next, I!Execute, I!Compute, I!Load, I!Store, I!JumpAndLink, I!Branch,
    I!Printf, I!Ignore, IsPrint

\* addi.
LEMMA StepAddi ==
  ASSUME LibraryInstance, IsCall, Wired, I!Next,
         NEW n, NEW rd \in 2 .. 31, NEW a \in 0 .. 31, NEW k \in Int,
         Executes(n, addi(rd, a, k))
  PROVE  /\ AbsPc' = Pc(n + 1) /\ AbsMem' = AbsMem
         /\ Sets(rd, Add(AbsRegs[a], k % Modulus))
<1>1. I!ins = addi(rd, a, k) /\ I!NextPc = Pc(n + 1)
  BY NextInstruction
<1>2. /\ I!ins.op = "OPI" /\ I!ins.f3 = 0 /\ I!ins.f7 = 0 /\ I!ins.rd = rd
      /\ I!ins.rs1 = a /\ I!ins.imm = k % Modulus
  BY <1>1 DEF addi, Ins
<1>3. I!Compute
  BY <1>2, ByOpCode
<1>4. /\ k % Modulus \in Word /\ AbsRegs[a] \in Word /\ rd # 0
  BY Registers, WrapInWord DEF Wired, Wrap
<1>5. OpiAlu(0, 0, AbsRegs[a], k % Modulus) = Add(AbsRegs[a], k % Modulus)
  BY <1>4 DEF LibraryInstance
<1>6. AbsRegs' = [AbsRegs EXCEPT ![rd] = Add(AbsRegs[a], k % Modulus)]
  BY <1>2, <1>3, <1>4, <1>5, SameMachine DEF I!Compute, I!SetRd, I!valueReg1
<1>7. Sets(rd, Add(AbsRegs[a], k % Modulus))
  BY <1>4, <1>6, AddInWord, SetRegister
<1> QED
  BY <1>1, <1>3, <1>7, SameMachine DEF I!Compute, I!Fallthrough

\* slt: 1 or 0.
LEMMA StepSlt ==
  ASSUME LibraryInstance, IsCall, Wired, I!Next,
         NEW n, NEW rd \in 2 .. 31, NEW a \in 0 .. 31, NEW b \in 0 .. 31,
         Executes(n, slt(rd, a, b))
  PROVE  /\ AbsPc' = Pc(n + 1) /\ AbsMem' = AbsMem
         /\ Signed(AbsRegs[a]) < Signed(AbsRegs[b]) => Sets(rd, 1)
         /\ ~(Signed(AbsRegs[a]) < Signed(AbsRegs[b])) => Sets(rd, 0)
<1>1. I!ins = slt(rd, a, b) /\ I!NextPc = Pc(n + 1)
  BY NextInstruction
<1>2. /\ I!ins.op = "OP" /\ I!ins.f3 = 2 /\ I!ins.f7 = 0 /\ I!ins.rd = rd
      /\ I!ins.rs1 = a /\ I!ins.rs2 = b
  BY <1>1 DEF slt, Ins
<1>3. I!Compute
  BY <1>2, ByOpCode
<1>4. /\ AbsRegs[b] \in Word /\ AbsRegs[a] \in Word /\ rd # 0
  BY Registers DEF Wired
<1>5. PICK v \in 0 .. 1 : v = IF Signed(AbsRegs[a]) < Signed(AbsRegs[b]) THEN 1 ELSE 0
  OBVIOUS
<1>6. OpResult(I!ins, AbsRegs[a], AbsRegs[b]) = v
  BY <1>2, <1>4, <1>5 DEF LibraryInstance, OpResult, IsM
<1>7. AbsRegs' = [AbsRegs EXCEPT ![rd] = v]
  BY <1>2, <1>3, <1>4, <1>6, SameMachine
  DEF I!Compute, I!SetRd, I!valueReg1, I!valueReg2
<1>8. Sets(rd, v)
  <2>1. v \in Word
    BY SizesAssumption DEF Word
  <2> QED
    BY <1>7, <2>1, SetRegister
<1> QED
  BY <1>1, <1>3, <1>5, <1>8, SameMachine DEF I!Compute, I!Fallthrough

\* lw of an aligned word.
LEMMA StepLw ==
  ASSUME LibraryInstance, IsCall, Wired, I!Next,
         NEW n, NEW rd \in 2 .. 31, NEW a \in 0 .. 31,
         Executes(n, lw(rd, a, 0)), AbsRegs[a] % 4 = 0, AbsMem \in [Word -> Word]
  PROVE  /\ AbsPc' = Pc(n + 1) /\ AbsMem' = AbsMem
         /\ Sets(rd, AbsMem[Cell(AbsRegs[a])])
<1>1. I!ins = lw(rd, a, 0) /\ I!NextPc = Pc(n + 1)
  BY NextInstruction
<1>2. /\ I!ins.op = "LD" /\ I!ins.f3 = 2 /\ I!ins.rd = rd /\ I!ins.rs1 = a
      /\ I!ins.imm = 0
  BY <1>1, SizesAssumption DEF lw, Ins
<1>3. I!Load
  BY <1>2, ByOpCode
<1>4. /\ AbsRegs[a] \in Word /\ rd # 0
  BY Registers DEF Wired
<1>5. Add(AbsRegs[a], 0) = AbsRegs[a]
  BY <1>4, AddZero
<1>6. Cell(AbsRegs[a]) \in Word /\ Lane(AbsRegs[a]) = 0
  BY <1>4, ParametersInWord, QuotientInWord DEF Cell, Lane, LibraryInstance
<1>7. AbsMem[Cell(AbsRegs[a])] \in Word
  BY <1>6
<1>8. ReadMem(AbsMem, 2, AbsRegs[a]) = AbsMem[Cell(AbsRegs[a])]
  BY <1>6, <1>7 DEF ReadMem, MaskOf, LibraryInstance
<1>9. AbsRegs' = [AbsRegs EXCEPT ![rd] = AbsMem[Cell(AbsRegs[a])]]
  BY <1>2, <1>3, <1>4, <1>5, <1>8, SameMachine DEF I!Load, I!SetRd, I!valueReg1
<1>10. Sets(rd, AbsMem[Cell(AbsRegs[a])])
  BY <1>7, <1>9, SetRegister
<1> QED
  BY <1>1, <1>3, <1>10, SameMachine DEF I!Load, I!Fallthrough

\* sw to an aligned word.
LEMMA StepSw ==
  ASSUME LibraryInstance, IsCall, Wired, I!Next,
         NEW n, NEW a \in 0 .. 31, NEW b \in 0 .. 31,
         Executes(n, sw(b, a, 0)), AbsRegs[a] % 4 = 0, AbsMem \in [Word -> Word]
  PROVE  /\ AbsPc' = Pc(n + 1) /\ AbsRegs' = AbsRegs /\ Wired'
         /\ AbsMem' = [AbsMem EXCEPT ![Cell(AbsRegs[a])] = AbsRegs[b]]
<1>1. I!ins = sw(b, a, 0) /\ I!NextPc = Pc(n + 1)
  BY NextInstruction
<1>2. /\ I!ins.op = "ST" /\ I!ins.f3 = 2 /\ I!ins.rs1 = a /\ I!ins.rs2 = b
      /\ I!ins.imm = 0
  BY <1>1, SizesAssumption DEF sw, Ins
<1>3. I!Store
  BY <1>2, ByOpCode
<1>4. AbsRegs[a] \in Word /\ AbsRegs[b] \in Word
  BY Registers DEF Wired
<1>5. Add(AbsRegs[a], 0) = AbsRegs[a]
  BY <1>4, AddZero
<1>6. Cell(AbsRegs[a]) \in Word /\ Lane(AbsRegs[a]) = 0
  BY <1>4, ParametersInWord, QuotientInWord DEF Cell, Lane, LibraryInstance
<1>7. AbsMem[Cell(AbsRegs[a])] \in Word
  BY <1>6
<1>8. WriteMem(AbsMem, 2, AbsRegs[a], AbsRegs[b])
        = [AbsMem EXCEPT ![Cell(AbsRegs[a])] = AbsRegs[b]]
  <2>1. Insert("WORD", 0, AbsMem[Cell(AbsRegs[a])], AbsRegs[b]) = AbsRegs[b]
    BY <1>4, <1>7 DEF LibraryInstance
  <2>2. MaskOf(2) = "WORD"
    BY DEF MaskOf
  <2> QED
    BY <1>6, <2>1, <2>2 DEF WriteMem
<1>9. AbsMem' = [AbsMem EXCEPT ![Cell(AbsRegs[a])] = AbsRegs[b]]
  BY <1>2, <1>3, <1>5, <1>8, SameMachine DEF I!Store, I!valueReg1, I!valueReg2
<1>10. AbsRegs' = AbsRegs /\ Wired'
  BY <1>3, SameMachine DEF I!Store, Wired
<1> QED
  BY <1>1, <1>3, <1>9, <1>10, SameMachine DEF I!Store, I!Fallthrough

\* beq, funct3 0, and bne, funct3 1, within the text.
LEMMA StepBranch ==
  ASSUME LibraryInstance, IsCall, Wired, I!Next,
         NEW n, NEW f3 \in {0, 1}, NEW a \in 0 .. 31, NEW b \in 0 .. 31,
         NEW k \in Int,
         n + k \in 0 .. 34,
         Executes(n, Ins("BR", f3, 0, 0, a, b, InstrBytes * k))
  PROVE  /\ (f3 = 0 <=> AbsRegs[a] = AbsRegs[b]) => AbsPc' = Pc(n + k)
         /\ ~(f3 = 0 <=> AbsRegs[a] = AbsRegs[b]) => AbsPc' = Pc(n + 1)
         /\ AbsRegs' = AbsRegs /\ AbsMem' = AbsMem /\ Wired'
<1>1. I!ins = Ins("BR", f3, 0, 0, a, b, InstrBytes * k) /\ I!NextPc = Pc(n + 1)
  BY NextInstruction
<1>2. /\ I!ins.op = "BR" /\ I!ins.f3 = f3 /\ I!ins.rs1 = a /\ I!ins.rs2 = b
      /\ I!ins.imm = (InstrBytes * k) % Modulus
  BY <1>1 DEF Ins
<1>3. I!Branch
  BY <1>2, ByOpCode
<1>4. AbsRegs[a] \in Word /\ AbsRegs[b] \in Word
  BY Registers DEF Wired
<1>5. Compare(f3, AbsRegs[a], AbsRegs[b]) <=> (f3 = 0 <=> AbsRegs[a] = AbsRegs[b])
  <2>1. CASE f3 = 0
    BY <2>1, <1>4 DEF LibraryInstance
  <2>2. CASE f3 = 1
    BY <2>2, <1>4 DEF LibraryInstance
  <2> QED
    BY <2>1, <2>2
<1>6. Add(AbsPc, I!ins.imm) = Pc(n + k)
  <2>1. AbsPc = Pc(n) /\ n \in 0 .. 34
    BY DEF Executes
  <2> QED
    BY <1>2, <2>1, TextDistance
<1>7. AbsRegs' = AbsRegs /\ AbsMem' = AbsMem /\ Wired'
  BY <1>3, SameMachine DEF I!Branch, Wired
<1>8. AbsPc' = IF Compare(f3, AbsRegs[a], AbsRegs[b]) THEN Pc(n + k) ELSE Pc(n + 1)
  BY <1>1, <1>2, <1>3, <1>6, SameMachine DEF I!Branch, I!valueReg1, I!valueReg2
<1> QED
  BY <1>5, <1>7, <1>8

\* bne.
LEMMA StepBne ==
  ASSUME LibraryInstance, IsCall, Wired, I!Next,
         NEW n, NEW a \in 0 .. 31, NEW b \in 0 .. 31, NEW k \in Int,
         n + k \in 0 .. 34, Executes(n, bne(a, b, k))
  PROVE  /\ AbsRegs[a] # AbsRegs[b] => AbsPc' = Pc(n + k)
         /\ AbsRegs[a] = AbsRegs[b] => AbsPc' = Pc(n + 1)
         /\ AbsRegs' = AbsRegs /\ AbsMem' = AbsMem /\ Wired'
<1>1. Executes(n, Ins("BR", 1, 0, 0, a, b, InstrBytes * k)) /\ 1 \in {0, 1} /\ 1 # 0
  BY DEF bne
<1> QED
  BY <1>1, StepBranch, Zenon

\* beq of a register and itself, which is always taken.
LEMMA StepBeq ==
  ASSUME LibraryInstance, IsCall, Wired, I!Next,
         NEW n, NEW a \in 0 .. 31, NEW k \in Int,
         n + k \in 0 .. 34, Executes(n, beq(a, a, k))
  PROVE  AbsPc' = Pc(n + k) /\ AbsRegs' = AbsRegs /\ AbsMem' = AbsMem /\ Wired'
<1>1. Executes(n, Ins("BR", 0, 0, 0, a, a, InstrBytes * k)) /\ 0 \in {0, 1}
  BY DEF beq
<1> QED
  BY <1>1, StepBranch, Zenon

\* A jump within the text that saves no address.
LEMMA StepJal ==
  ASSUME LibraryInstance, IsCall, Wired, I!Next,
         NEW n, NEW k \in Int, n + k \in 0 .. 34, Executes(n, jal(0, k))
  PROVE  /\ AbsPc' = Pc(n + k) /\ AbsMem' = AbsMem /\ Wired'
         /\ \A r \in Reg : AbsRegs'[r] = AbsRegs[r]
<1>1. I!ins = jal(0, k) /\ I!NextPc = Pc(n + 1)
  BY NextInstruction
<1>2. /\ I!ins.op = "JAL" /\ I!ins.rd = 0 /\ I!ins.imm = (InstrBytes * k) % Modulus
  BY <1>1 DEF jal, Ins
<1>3. I!JumpAndLink
  BY <1>2, ByOpCode
<1>4. Add(AbsPc, I!ins.imm) = Pc(n + k)
  <2>1. AbsPc = Pc(n) /\ n \in 0 .. 34
    BY DEF Executes
  <2> QED
    BY <1>2, <2>1, TextDistance
<1>5. AbsRegs' = [AbsRegs EXCEPT ![0] = 0]
  BY <1>2, <1>3, SameMachine DEF I!JumpAndLink, I!SetRd
<1>6. AbsRegs' = AbsRegs
  BY <1>5 DEF Wired
<1> QED
  BY <1>2, <1>3, <1>4, <1>6, SameMachine DEF I!JumpAndLink, Wired

\* ret of a program that has kept the return address in ra.
LEMMA StepRet ==
  ASSUME LibraryInstance, IsCall, Wired, I!Next, NEW n, Executes(n, ret)
  PROVE  AbsPc' = RAADDRESS /\ AbsMem' = AbsMem /\ Wired'
<1>1. I!ins = ret /\ I!NextPc = Pc(n + 1)
  BY NextInstruction
<1>2. /\ I!ins.op = "JALR" /\ I!ins.f3 = 0 /\ I!ins.rd = 0 /\ I!ins.rs1 = 1
      /\ I!ins.imm = 0
  BY <1>1, SizesAssumption DEF ret, jalr, Ins
<1>3. I!JumpAndLink
  BY <1>2, ByOpCode
<1>4. AbsPc' = Add(0, RAADDRESS)
  BY <1>2, <1>3, SameMachine DEF I!JumpAndLink, I!valueReg1, Wired
<1>5. Add(0, RAADDRESS) = RAADDRESS
  BY SizesAssumption DEF Add, Wrap, Word
<1>6. AbsRegs' = [AbsRegs EXCEPT ![0] = 0]
  BY <1>2, <1>3, SameMachine DEF I!JumpAndLink, I!SetRd
<1> QED
  BY <1>3, <1>4, <1>5, <1>6, SameMachine DEF I!JumpAndLink, Wired

-----------------------------------------------------------------------------
(* Areas and what has been done to them.                                   *)

\* The k-th word of an area is aligned and lies k cells behind the first.
LEMMA AreaWord ==
  ASSUME LibraryInstance, NEW a \in Word, NEW k \in Nat, a % 4 = 0,
         a + 4 * k < Modulus
  PROVE  /\ a + 4 * k \in Word /\ (a + 4 * k) % 4 = 0
         /\ Cell(a + 4 * k) = Cell(a) + k
         /\ Cell(a) \in Nat /\ Cell(a) + k \in Word
<1>1. DataBytes = 4 /\ a \in Nat /\ Modulus \in Nat
  BY SizesAssumption DEF LibraryInstance, Word
<1>2. /\ (a + 4 * k) % 4 = 0 /\ (a + 4 * k) \div 4 = (a \div 4) + k
      /\ a \div 4 \in Nat /\ (a \div 4) + k <= a + 4 * k
  BY <1>1
<1> QED
  BY <1>1, <1>2 DEF Cell, Word

\* The areas of a call.
LEMMA CallWords ==
  ASSUME LibraryInstance, NEW c, Legal(c)
  PROVE  /\ c \in Call /\ c.to \in Word /\ c.from \in Word /\ c.size \in Word
         /\ c.routine \in {"memcpy", "memmove", "memset"}
         /\ Words(c) \in Nat \ {0} /\ c.size = 4 * Words(c)
         /\ c.to % 4 = 0 /\ c.to + 4 * Words(c) < Modulus
         /\ c.routine # "memset" => c.from % 4 = 0 /\ c.from + 4 * Words(c) < Modulus
<1>1. /\ c \in Call /\ c.to \in Word /\ c.from \in Word /\ c.size \in Word
      /\ c.routine \in {"memcpy", "memmove", "memset"}
  BY Entries DEF Legal, Call
<1>2. c.size \in Nat \ {0} /\ c.size % 4 = 0
  BY <1>1, SizesAssumption DEF Legal, Word
<1>3. Words(c) \in Nat \ {0} /\ c.size = 4 * Words(c)
  BY <1>2 DEF Words
<1> QED
  BY <1>1, <1>3 DEF Legal, IsArea

\* The memory when k words have been done, word by word.
LEMMA DoneIs ==
  ASSUME LibraryInstance, NEW c, Legal(c), NEW k \in 0 .. Words(c)
  PROVE  Done(c, k) = [w \in Word |->
                         IF w \notin Cell(c.to) .. (Cell(c.to) + k - 1) THEN DMEM_INIT[w]
                         ELSE IF c.routine = "memset" THEN c.from
                         ELSE DMEM_INIT[w - Cell(c.to) + Cell(c.from)]]
<1> DEFINE d == [c EXCEPT !.size = 4 * k]
<1>1. d.size = 4 * k /\ d.to = c.to /\ d.from = c.from /\ d.routine = c.routine
  BY CallWords DEF Call
<1>2. DOMAIN DMEM_INIT = Word
  BY MemoryAssumption
<1>3. Cell(c.to + 4 * k) = Cell(c.to) + k /\ Cell(c.to) \in Nat
  <2>1. c.to + 4 * k < Modulus /\ k \in Nat /\ c.to \in Word /\ c.to % 4 = 0
    BY CallWords, SizesAssumption DEF Word
  <2> QED
    BY <2>1, AreaWord
<1> HIDE DEF d
<1>4. Promised(d) = [w \in Word |->
                       IF w \notin Cell(c.to) .. (Cell(c.to) + k - 1) THEN DMEM_INIT[w]
                       ELSE IF c.routine = "memset" THEN c.from
                       ELSE DMEM_INIT[w - Cell(c.to) + Cell(c.from)]]
  <2>1. Cells(d.to, d.size) = Cell(c.to) .. (Cell(c.to) + k - 1)
    <3>1. Cells(d.to, d.size) = Cell(c.to) .. (Cell(c.to + 4 * k) - 1)
      BY <1>1 DEF Cells
    <3> QED
      BY <1>3, <3>1
  <2>2. Promised(d) = [w \in Word |->
                         IF w \notin Cells(d.to, d.size) THEN DMEM_INIT[w]
                         ELSE IF c.routine = "memset" THEN c.from
                         ELSE DMEM_INIT[w - Cell(c.to) + Cell(c.from)]]
    BY <1>1, <1>2 DEF Promised
  <2> QED
    BY <2>1, <2>2
<1> QED
  BY <1>4 DEF Done, d

\* It begins with the memory as it was and ends with what is promised.
LEMMA DoneEnds ==
  ASSUME LibraryInstance, NEW c, Legal(c)
  PROVE  Done(c, 0) = DMEM_INIT /\ Done(c, Words(c)) = Promised(c)
<1>1. /\ Words(c) \in Nat \ {0} /\ c.size = 4 * Words(c) /\ c \in Call
      /\ Cell(c.to) \in Nat
  <2>1. c.to \in Word /\ c.to % 4 = 0 /\ c.to + 4 * 0 < Modulus /\ 0 \in Nat
    BY CallWords, SizesAssumption DEF Word
  <2> QED
    BY <2>1, CallWords, AreaWord
<1>2. Done(c, 0) = DMEM_INIT
  <2>1. 0 \in 0 .. Words(c)
    BY <1>1
  <2>2. Cell(c.to) .. (Cell(c.to) + 0 - 1) = {}
    BY <1>1
  <2>3. Done(c, 0) = [w \in Word |-> DMEM_INIT[w]]
    BY <2>1, <2>2, DoneIs
  <2> QED
    BY <2>3, MemoryAssumption
<1>3. [c EXCEPT !.size = 4 * Words(c)] = c
  BY <1>1 DEF Call
<1> QED
  BY <1>2, <1>3 DEF Done

\* The word that is promised k cells behind the first.
NewWord(c, k) ==
  IF c.routine = "memset" THEN c.from ELSE DMEM_INIT[Cell(c.from) + k]

\* One word more.
LEMMA DoneMore ==
  ASSUME LibraryInstance, NEW c, Legal(c), NEW k \in 0 .. (Words(c) - 1)
  PROVE  /\ Done(c, k) \in [Word -> Word]
         /\ Done(c, k + 1) = [Done(c, k) EXCEPT ![Cell(c.to + 4 * k)] = NewWord(c, k)]
         /\ c.routine # "memset" /\ Disjoint(c)
              => Done(c, k)[Cell(c.from + 4 * k)] = DMEM_INIT[Cell(c.from) + k]
<1>1. /\ Words(c) \in Nat \ {0} /\ c \in Call /\ c.to \in Word /\ c.from \in Word
      /\ c.routine # "memset" => c.from % 4 = 0 /\ c.from + 4 * Words(c) < Modulus
      /\ c.to % 4 = 0 /\ c.to + 4 * Words(c) < Modulus
      /\ Modulus \in Nat /\ \A x \in Word : x \in Nat
  BY CallWords, SizesAssumption DEF Word
<1>2. /\ k \in Nat /\ k \in 0 .. Words(c) /\ k + 1 \in 0 .. Words(c)
      /\ c.to + 4 * k < Modulus
      /\ c.routine # "memset" => c.from + 4 * k < Modulus
  BY <1>1
<1>3. /\ Cell(c.to) \in Nat /\ Cell(c.to) + k \in Word
      /\ Cell(c.to + 4 * k) = Cell(c.to) + k
  BY <1>1, <1>2, AreaWord
<1>4. ASSUME c.routine # "memset"
      PROVE  /\ Cell(c.from) \in Nat /\ Cell(c.from) + k \in Word
             /\ Cell(c.from + 4 * k) = Cell(c.from) + k
  BY <1>1, <1>2, <1>4, AreaWord
<1>5. PICK T \in Nat : T = Cell(c.to)
  BY <1>3
<1> DEFINE Old(w) == DMEM_INIT[w]
           New(w) == IF c.routine = "memset" THEN c.from
                     ELSE DMEM_INIT[w - T + Cell(c.from)]
<1>6. /\ Done(c, k) = [w \in Word |->
                        IF w \notin T .. (T + k - 1) THEN Old(w) ELSE New(w)]
      /\ Done(c, k + 1) = [w \in Word |->
                            IF w \notin T .. (T + (k + 1) - 1) THEN Old(w) ELSE New(w)]
  BY <1>2, <1>5, DoneIs
<1>7. New(T + k) = NewWord(c, k)
  <2>1. CASE c.routine = "memset"
    BY <2>1 DEF NewWord
  <2>2. CASE c.routine # "memset"
    <3>1. (T + k) - T + Cell(c.from) = Cell(c.from) + k
      BY <1>2, <1>4, <2>2
    <3> QED
      BY <2>2, <3>1 DEF NewWord
  <2> QED
    BY <2>1, <2>2
<1>8. \A w \in Word :
        /\ w \in T .. (T + (k + 1) - 1) <=> w \in T .. (T + k - 1) \/ w = T + k
        /\ T + k \notin T .. (T + k - 1)
  BY <1>1, <1>2
<1>9. Done(c, k + 1) = [Done(c, k) EXCEPT ![T + k] = New(T + k)]
  <2> HIDE DEF Old, New
  <2> QED
    BY <1>3, <1>5, <1>6, <1>8
<1>10. Done(c, k) \in [Word -> Word]
  <2>1. ASSUME NEW w \in Word
        PROVE  (IF w \notin T .. (T + k - 1) THEN Old(w) ELSE New(w)) \in Word
    <3>1. Old(w) \in Word
      BY MemoryAssumption
    <3>2. CASE w \notin T .. (T + k - 1)
      BY <3>1, <3>2
    <3>3. CASE w \in T .. (T + k - 1) /\ c.routine = "memset"
      BY <1>1, <3>3
    <3>4. CASE w \in T .. (T + k - 1) /\ c.routine # "memset"
      <4>1. w - T + Cell(c.from) \in Word
        <5>1. /\ w - T \in Nat /\ w - T < k /\ Cell(c.from) \in Nat
              /\ Cell(c.from) + k < Modulus
          BY <1>1, <1>2, <1>4, <3>4, SizesAssumption DEF Word
        <5> QED
          BY <5>1, <1>1, <1>2 DEF Word
      <4>2. New(w) \in Word
        BY <3>4, <4>1, MemoryAssumption
      <4> QED
        BY <3>4, <4>2
    <3> QED
      BY <3>2, <3>3, <3>4
  <2> HIDE DEF Old, New
  <2> QED
    BY <1>6, <2>1
<1>11. ASSUME c.routine # "memset", Disjoint(c)
       PROVE  Done(c, k)[Cell(c.from + 4 * k)] = DMEM_INIT[Cell(c.from) + k]
  <2>1. /\ Cell(c.from + c.size) = Cell(c.from) + Words(c)
        /\ Cell(c.to + c.size) = T + Words(c)
    BY <1>1, <1>5, <1>11, CallWords, AreaWord
  <2>2. PICK F \in Nat : F = Cell(c.from)
    BY <1>4, <1>11
  <2>3. F + k \in F .. (F + Words(c) - 1)
    BY <1>1, <1>2
  <2>4. F + k \notin T .. (T + Words(c) - 1)
    <3>1. F + k \in Cells(c.from, c.size)
      BY <1>1, <1>2, <2>1, <2>2 DEF Cells
    <3>2. F + k \notin Cells(c.to, c.size)
      BY <3>1, <1>11 DEF Disjoint
    <3> QED
      BY <2>1, <1>5, <1>1, <1>2, <3>2 DEF Cells
  <2>5. F + k \notin T .. (T + k - 1)
    BY <2>4, <1>1, <1>2
  <2>6. F + k \in Word /\ Cell(c.from + 4 * k) = F + k
    BY <1>4, <1>11, <2>2
  <2> QED
    BY <1>6, <2>2, <2>5, <2>6
<1> QED
  BY <1>3, <1>5, <1>7, <1>9, <1>10, <1>11

\* Sums and differences that stay in a word.
LEMMA AddFour ==
  ASSUME NEW x \in Word
  PROVE  /\ x + 4 < Modulus => Add(x, 4 % Modulus) = x + 4
         /\ x >= 4 => Add(x, (-4) % Modulus) = x - 4
<1>1. Modulus \in Nat /\ Modulus >= 8 /\ x \in 0 .. (Modulus - 1)
  BY SizesAssumption DEF Word
<1>2. 4 % Modulus = 4
  BY <1>1
<1>3. (-4) % Modulus = Modulus - 4
  <2>1. /\ -4 \in Int /\ Modulus \in Nat \ {0} /\ -1 \in Int
        /\ Modulus - 4 \in 0 .. (Modulus - 1) /\ -4 = Modulus * (-1) + (Modulus - 4)
    BY <1>1
  <2> QED
    BY <2>1, DivUnique
<1>4. ASSUME x + 4 < Modulus PROVE (x + 4) % Modulus = x + 4
  BY <1>1, <1>4
<1>5. ASSUME x >= 4 PROVE (x + (Modulus - 4)) % Modulus = x - 4
  <2>1. /\ x + (Modulus - 4) \in Int /\ Modulus \in Nat \ {0} /\ 1 \in Int
        /\ x - 4 \in 0 .. (Modulus - 1) /\ x + (Modulus - 4) = Modulus * 1 + (x - 4)
    BY <1>1, <1>5
  <2> QED
    BY <2>1, DivUnique
<1> QED
  BY <1>2, <1>3, <1>4, <1>5 DEF Add, Wrap

-----------------------------------------------------------------------------
(* From one point of a call to the next.                                   *)

\* A machine in the middle of a call.
Running(c) == LibraryInstance /\ IsCall /\ Wired /\ c = Calling /\ I!Next

\* mv.
LEMMA StepMv ==
  ASSUME NEW CONSTANT c, Running(c), NEW n, NEW rd \in 2 .. 31, NEW a \in 0 .. 31,
         Executes(n, mv(rd, a))
  PROVE  AbsPc' = Pc(n + 1) /\ AbsMem' = AbsMem /\ Sets(rd, AbsRegs[a])
<1>1. Executes(n, addi(rd, a, 0)) /\ 0 \in Int /\ 0 % Modulus = 0
  BY SizesAssumption DEF mv
<1>2. AbsRegs[a] \in Word /\ Add(AbsRegs[a], 0) = AbsRegs[a]
  BY Registers, AddZero DEF Running, Wired
<1>3. /\ AbsPc' = Pc(n + 1) /\ AbsMem' = AbsMem
      /\ Sets(rd, Add(AbsRegs[a], 0 % Modulus))
  BY <1>1, StepAddi, Zenon DEF Running
<1> QED
  BY <1>1, <1>2, <1>3

\* li.
LEMMA StepLi ==
  ASSUME NEW CONSTANT c, Running(c), NEW n, NEW rd \in 2 .. 31, NEW k \in Word,
         Executes(n, li(rd, k))
  PROVE  AbsPc' = Pc(n + 1) /\ AbsMem' = AbsMem /\ Sets(rd, k)
<1>1. Executes(n, addi(rd, 0, k)) /\ k \in Int /\ k % Modulus = k /\ Add(0, k) = k
  BY SizesAssumption DEF li, Word, Add, Wrap
<1>2. AbsRegs[0] = 0
  BY DEF Running, Wired
<1>3. /\ AbsPc' = Pc(n + 1) /\ AbsMem' = AbsMem
      /\ Sets(rd, Add(AbsRegs[0], k % Modulus))
  <2>1. 0 \in 0 .. 31
    OBVIOUS
  <2> QED
    BY <1>1, <2>1, StepAddi, Zenon DEF Running
<1> QED
  BY <1>1, <1>2, <1>3

\* The arguments are loaded, and the call goes to its routine.
LEMMA FromCall ==
  ASSUME NEW CONSTANT c, Running(c), InCall(c)
  PROVE  Wired' /\ (InCall(c) \/ InMove(c) \/ Entered(c))'
<1>1. PICK n \in 0 .. 3 : AbsPc = Pc(n) /\ Arguments(c, n)
  BY DEF InCall
<1>2. /\ c.to \in Word /\ c.from \in Word /\ c.size \in Word
      /\ c.routine \in {"memcpy", "memmove", "memset"}
      /\ {10, 11, 12} \subseteq Reg
  BY CallWords, Registers DEF Running, IsCall
<1>3. CASE n = 0
  <2>1. Executes(0, li(10, c.to))
    BY <1>1, <1>3, ProgramText DEF Executes, Running
  <2>2. AbsPc' = Pc(0 + 1) /\ AbsMem' = AbsMem /\ Sets(10, c.to)
    <3>1. 10 \in 2 .. 31
      OBVIOUS
    <3> QED
      BY <1>2, <2>1, <3>1, StepLi, Zenon
  <2> QED
    BY <1>1, <1>3, <2>2 DEF InCall, Arguments, Sets
<1>4. CASE n = 1
  <2>1. Executes(1, li(11, c.from))
    BY <1>1, <1>4, ProgramText DEF Executes, Running
  <2>2. AbsPc' = Pc(1 + 1) /\ AbsMem' = AbsMem /\ Sets(11, c.from)
    <3>1. 11 \in 2 .. 31
      OBVIOUS
    <3> QED
      BY <1>2, <2>1, <3>1, StepLi, Zenon
  <2> QED
    BY <1>1, <1>2, <1>4, <2>2 DEF InCall, Arguments, Sets
<1>5. CASE n = 2
  <2>1. Executes(2, li(12, c.size))
    BY <1>1, <1>5, ProgramText DEF Executes, Running
  <2>2. AbsPc' = Pc(2 + 1) /\ AbsMem' = AbsMem /\ Sets(12, c.size)
    <3>1. 12 \in 2 .. 31
      OBVIOUS
    <3> QED
      BY <1>2, <2>1, <3>1, StepLi, Zenon
  <2> QED
    BY <1>1, <1>2, <1>5, <2>2 DEF InCall, Arguments, Sets
<1>6. CASE n = 3
  <2>1. PICK e \in {0, 8, 22} : /\ e = Entry[c.routine]
                                /\ c.routine = "memset" <=> e = 22
                                /\ c.routine = "memmove" <=> e = 8
    BY <1>2, Entries
  <2>2. Executes(3, jal(0, 1 + e)) /\ 1 + e \in Int /\ 3 + (1 + e) \in 0 .. 34
    BY <1>1, <1>6, <2>1, ProgramText DEF Executes, Running
  <2>3. /\ AbsPc' = Pc(3 + (1 + e)) /\ AbsMem' = AbsMem /\ Wired'
        /\ \A r \in Reg : AbsRegs'[r] = AbsRegs[r]
    BY <2>2, StepJal DEF Running
  <2>4. Arguments(c, 3)'
    BY <1>1, <1>2, <1>6, <2>3 DEF Arguments
  <2>5. CASE c.routine = "memmove"
    <3>1. AbsPc' = Pc(12)
      BY <2>1, <2>3, <2>5
    <3> QED
      BY <2>3, <2>4, <2>5, <3>1 DEF InMove
  <2>6. CASE c.routine # "memmove"
    <3>1. AbsPc' = IF c.routine = "memset" THEN Pc(26) ELSE Pc(4)
      BY <2>1, <2>3, <2>6
    <3> QED
      BY <2>3, <2>4, <3>1 DEF Entered
  <2> QED
    BY <2>5, <2>6
<1> QED
  BY <1>1, <1>3, <1>4, <1>5, <1>6

\* memmove compares the areas and goes on to memcpy.
LEMMA FromMove ==
  ASSUME NEW CONSTANT c, Running(c), InMove(c), ~Reverses(c)
  PROVE  Wired' /\ (InMove(c) \/ Entered(c))'
<1>1. PICK n \in 12 .. 16 : AbsPc = Pc(n) /\ (n = 15 => AbsRegs[28] = 0)
  BY DEF InMove
<1>2. /\ c.to \in Word /\ c.from \in Word /\ c.routine = "memmove" /\ Arguments(c, 3)
      /\ {0, 5, 6, 10, 11, 12, 28} \subseteq Reg
  BY CallWords, Registers DEF Running, IsCall, InMove
<1>3. CASE n = 12
  <2>1. Executes(12, mv(5, 10))
    BY <1>1, <1>3, ProgramText, LibraryText, 12 = 8 + 4 DEF Executes
  <2>2. AbsPc' = Pc(12 + 1) /\ AbsMem' = AbsMem /\ Sets(5, AbsRegs[10])
    <3>1. 5 \in 2 .. 31 /\ 10 \in 0 .. 31
      OBVIOUS
    <3> QED
      BY <2>1, <3>1, StepMv, Zenon
  <2> QED
    BY <1>2, <2>2 DEF InMove, Arguments, Sets
<1>4. CASE n = 13
  <2>1. Executes(13, mv(6, 11))
    BY <1>1, <1>4, ProgramText, LibraryText DEF Executes
  <2>2. AbsPc' = Pc(13 + 1) /\ AbsMem' = AbsMem /\ Sets(6, AbsRegs[11])
    <3>1. 6 \in 2 .. 31 /\ 11 \in 0 .. 31
      OBVIOUS
    <3> QED
      BY <2>1, <3>1, StepMv, Zenon
  <2> QED
    BY <1>2, <2>2 DEF InMove, Arguments, Sets
<1>5. CASE n = 14
  <2>1. Executes(14, slt(28, 10, 11))
    BY <1>1, <1>5, ProgramText, LibraryText DEF Executes
  <2>2. /\ AbsPc' = Pc(14 + 1) /\ AbsMem' = AbsMem
        /\ ~(Signed(AbsRegs[10]) < Signed(AbsRegs[11])) => Sets(28, 0)
    <3>1. LibraryInstance /\ IsCall /\ Wired /\ I!Next
      BY DEF Running
    <3>2. 28 \in 2 .. 31 /\ 10 \in 0 .. 31 /\ 11 \in 0 .. 31
      OBVIOUS
    <3> QED
      BY <2>1, <3>1, <3>2, StepSlt, Zenon
  <2>3. ~(Signed(c.to) < Signed(c.from))
    <3>1. c.to < MinInt /\ c.from < MinInt /\ ~(c.to < c.from)
      BY <1>2 DEF Running, IsCall, Legal, Reverses
    <3>2. 2 * c.to < Modulus /\ 2 * c.from < Modulus
      BY <1>2, <3>1, SizesAssumption DEF MinInt, Word
    <3> QED
      BY <1>2, <3>1, <3>2, SizesAssumption DEF Signed, IsNeg, Word
  <2>4. Sets(28, 0)
    BY <1>2, <2>2, <2>3 DEF Arguments
  <2> QED
    BY <1>2, <2>2, <2>4 DEF InMove, Arguments, Sets
<1>6. CASE n = 15
  <2>1. Executes(15, bne(28, 0, 2)) /\ 2 \in Int /\ 15 + 2 \in 0 .. 34
    BY <1>1, <1>6, ProgramText, LibraryText DEF Executes
  <2>2. AbsRegs[28] = AbsRegs[0]
    BY <1>1, <1>6 DEF Running, Wired
  <2>3. AbsPc' = Pc(15 + 1) /\ AbsRegs' = AbsRegs /\ AbsMem' = AbsMem /\ Wired'
    <3>1. 28 \in 0 .. 31 /\ 0 \in 0 .. 31
      OBVIOUS
    <3> QED
      BY <2>1, <2>2, <3>1, StepBne, Zenon DEF Running
  <2> QED
    BY <1>2, <2>3 DEF InMove, Arguments
<1>7. CASE n = 16
  <2>1. Executes(16, beq(0, 0, -12)) /\ -12 \in Int /\ 16 + (-12) \in 0 .. 34
    BY <1>1, <1>7, ProgramText, LibraryText DEF Executes
  <2>2. AbsPc' = Pc(16 + (-12)) /\ AbsRegs' = AbsRegs /\ AbsMem' = AbsMem /\ Wired'
    <3>1. 0 \in 0 .. 31
      OBVIOUS
    <3> QED
      BY <2>1, <3>1, StepBeq, Zenon DEF Running
  <2>3. AbsPc' = Pc(4)
    BY <2>2
  <2> QED
    BY <1>2, <2>2, <2>3 DEF Entered, Arguments
<1> QED
  BY <1>1, <1>3, <1>4, <1>5, <1>6, <1>7

\* addi of one word's bytes, up and down.
LEMMA StepUp ==
  ASSUME NEW CONSTANT c, Running(c), NEW n, NEW a \in 2 .. 31, NEW v \in Word,
         Executes(n, addi(a, a, 4)), AbsRegs[a] = v, v + 4 < Modulus
  PROVE  AbsPc' = Pc(n + 1) /\ AbsMem' = AbsMem /\ Sets(a, v + 4)
<1>1. a \in 0 .. 31 /\ 4 \in Int
  OBVIOUS
<1>2. /\ AbsPc' = Pc(n + 1) /\ AbsMem' = AbsMem
      /\ Sets(a, Add(AbsRegs[a], 4 % Modulus))
  BY <1>1, StepAddi, Zenon DEF Running
<1>3. Add(v, 4 % Modulus) = v + 4
  BY AddFour
<1> QED
  BY <1>2, <1>3, Zenon

LEMMA StepDown ==
  ASSUME NEW CONSTANT c, Running(c), NEW n, NEW a \in 2 .. 31, NEW v \in Word,
         Executes(n, addi(a, a, -4)), AbsRegs[a] = v, v >= 4
  PROVE  AbsPc' = Pc(n + 1) /\ AbsMem' = AbsMem /\ Sets(a, v - 4)
<1>1. a \in 0 .. 31 /\ -4 \in Int
  OBVIOUS
<1>2. /\ AbsPc' = Pc(n + 1) /\ AbsMem' = AbsMem
      /\ Sets(a, Add(AbsRegs[a], (-4) % Modulus))
  BY <1>1, StepAddi, Zenon DEF Running
<1>3. Add(v, (-4) % Modulus) = v - 4
  BY AddFour
<1> QED
  BY <1>2, <1>3, Zenon

\* The loops begin with no word done.
LEMMA FromEntry ==
  ASSUME NEW CONSTANT c, Running(c), Entered(c)
  PROVE  Wired' /\ (InCopy(c) \/ InSet(c))'
<1>1. /\ Arguments(c, 3) /\ 0 \in 0 .. (Words(c) - 1) /\ Done(c, 0) = DMEM_INIT
      /\ c.to \in Int /\ c.from \in Int /\ c.size \in Int
      /\ {10, 11, 12, 31} \subseteq Reg
  BY CallWords, DoneEnds, Registers, SizesAssumption DEF Running, IsCall, Entered, Word
<1>2. CASE c.routine = "memset"
  <2>1. Executes(26, mv(31, 10))
    BY <1>2, ProgramText, LibraryText DEF Executes, Entered
  <2>2. AbsPc' = Pc(26 + 1) /\ AbsMem' = AbsMem /\ Sets(31, AbsRegs[10])
    <3>1. 31 \in 2 .. 31 /\ 10 \in 0 .. 31
      OBVIOUS
    <3> QED
      BY <2>1, <3>1, StepMv, Zenon
  <2>3. SetAt(c, 1, 0)'
    BY <1>1, <2>2 DEF SetAt, Arguments, Sets
  <2> QED
    BY <1>1, <1>2, <2>2, <2>3 DEF InSet, Sets
<1>3. CASE c.routine # "memset"
  <2>1. Executes(4, mv(31, 10))
    BY <1>3, ProgramText, LibraryText, 4 = 0 + 4 DEF Executes, Entered
  <2>2. AbsPc' = Pc(4 + 1) /\ AbsMem' = AbsMem /\ Sets(31, AbsRegs[10])
    <3>1. 31 \in 2 .. 31 /\ 10 \in 0 .. 31
      OBVIOUS
    <3> QED
      BY <2>1, <3>1, StepMv, Zenon
  <2>3. CopyAt(c, 1, 0)'
    BY <1>1, <2>2 DEF CopyAt, Arguments, Sets
  <2> QED
    BY <1>1, <1>3, <2>2, <2>3 DEF InCopy, Sets
<1> QED
  BY <1>2, <1>3

\* The numbers in the loops, with k words done.
LEMMA LoopWords ==
  ASSUME NEW CONSTANT c, LibraryInstance, Legal(c), NEW k \in 0 .. (Words(c) - 1)
  PROVE  /\ k \in Nat /\ Words(c) \in Nat \ {0} /\ c.size = 4 * Words(c)
         /\ c.to + 4 * k \in Word /\ (c.to + 4 * k) % 4 = 0
         /\ c.to + 4 * k + 4 < Modulus
         /\ c.size - 4 * k \in Word /\ c.size - 4 * k >= 4
         /\ c.routine # "memset" => /\ c.from + 4 * k \in Word
                                   /\ (c.from + 4 * k) % 4 = 0
                                   /\ c.from + 4 * k + 4 < Modulus
         /\ c.to \in Nat /\ c.from \in Nat /\ c.from \in Word /\ c.size \in Nat
         /\ Modulus \in Nat
<1>1. /\ Words(c) \in Nat \ {0} /\ c.to \in Word /\ c.from \in Word /\ c.size \in Word
      /\ c.routine # "memset" => c.from % 4 = 0 /\ c.from + 4 * Words(c) < Modulus
      /\ c.to % 4 = 0 /\ c.to + 4 * Words(c) < Modulus
      /\ c.size = 4 * Words(c)
      /\ Modulus \in Nat /\ \A x \in Word : x \in Nat
  BY CallWords, SizesAssumption DEF Word
<1>2. k \in Nat /\ c.to + 4 * k + 4 < Modulus /\ c.size - 4 * k >= 4
  BY <1>1
<1>3. c.to + 4 * k \in Word /\ (c.to + 4 * k) % 4 = 0
  BY <1>1, <1>2, AreaWord
<1>4. c.size - 4 * k \in Word
  BY <1>1, <1>2 DEF Word
<1>5. ASSUME c.routine # "memset"
      PROVE  /\ c.from + 4 * k \in Word /\ (c.from + 4 * k) % 4 = 0
             /\ c.from + 4 * k + 4 < Modulus
  <2>1. c.from + 4 * k + 4 < Modulus
    BY <1>1, <1>2, <1>5
  <2> QED
    BY <1>1, <1>2, <1>5, <2>1, AreaWord
<1> QED
  BY <1>1, <1>2, <1>3, <1>4, <1>5

\* One instruction of the loop of memcpy.
LEMMA FromCopy ==
  ASSUME NEW CONSTANT c, Running(c), InCopy(c), ~Reverses(c)
  PROVE  Wired' /\ (InCopy(c) \/ Finished(c))'
<1>1. PICK n \in 1 .. 6, k \in 0 .. (Words(c) - 1) : CopyAt(c, n, k)
  BY DEF InCopy
<1>2. /\ LibraryInstance /\ Legal(c) /\ Disjoint(c) /\ c.routine # "memset"
      /\ {0, 11, 12, 30, 31} \subseteq Reg /\ Wired
  BY Registers DEF Running, IsCall, InCopy, Legal
<1>3. /\ k \in Nat /\ Words(c) \in Nat \ {0} /\ c.size = 4 * Words(c)
      /\ c.to + 4 * k \in Word /\ (c.to + 4 * k) % 4 = 0 /\ c.to + 4 * k + 4 < Modulus
      /\ c.size - 4 * k \in Word /\ c.size - 4 * k >= 4
      /\ c.from + 4 * k \in Word /\ (c.from + 4 * k) % 4 = 0
      /\ c.from + 4 * k + 4 < Modulus
      /\ c.to \in Nat /\ c.from \in Nat /\ c.size \in Nat /\ Modulus \in Nat
  BY <1>2, LoopWords
<1>4. /\ Done(c, k) \in [Word -> Word]
      /\ Done(c, k + 1) = [Done(c, k) EXCEPT ![Cell(c.to + 4 * k)]
                                               = DMEM_INIT[Cell(c.from) + k]]
      /\ Done(c, k)[Cell(c.from + 4 * k)] = DMEM_INIT[Cell(c.from) + k]
  BY <1>2, DoneMore DEF NewWord
<1>5. CASE n = 1
  <2>1. /\ AbsPc = Pc(5) /\ AbsMem = Done(c, k) /\ AbsRegs[31] = c.to + 4 * k
        /\ AbsRegs[11] = c.from + 4 * k /\ AbsRegs[12] = c.size - 4 * k
    BY <1>1, <1>5 DEF CopyAt
  <2>2. Executes(5, lw(30, 11, 0))
    BY <2>1, ProgramText, LibraryText DEF Executes
  <2>3. /\ AbsPc' = Pc(5 + 1) /\ AbsMem' = AbsMem
        /\ Sets(30, DMEM_INIT[Cell(c.from) + k])
    <3>1. 30 \in 2 .. 31 /\ 11 \in 0 .. 31
      OBVIOUS
    <3>2. AbsRegs[11] % 4 = 0 /\ AbsMem \in [Word -> Word]
      BY <1>3, <1>4, <2>1
    <3>3. AbsPc' = Pc(5 + 1) /\ AbsMem' = AbsMem /\ Sets(30, AbsMem[Cell(AbsRegs[11])])
      BY <2>2, <3>1, <3>2, StepLw, Zenon DEF Running
    <3> QED
      BY <1>4, <2>1, <3>3, Zenon
  <2>4. CopyAt(c, 2, k)'
    BY <1>2, <2>1, <2>3 DEF CopyAt, Sets
  <2> QED
    BY <1>2, <2>3, <2>4 DEF InCopy, Sets
<1>6. CASE n = 2
  <2>1. /\ AbsPc = Pc(6) /\ AbsMem = Done(c, k) /\ AbsRegs[31] = c.to + 4 * k
        /\ AbsRegs[11] = c.from + 4 * k /\ AbsRegs[12] = c.size - 4 * k
        /\ AbsRegs[30] = DMEM_INIT[Cell(c.from) + k]
    BY <1>1, <1>6 DEF CopyAt
  <2>2. Executes(6, addi(12, 12, -4))
    BY <2>1, ProgramText, LibraryText DEF Executes
  <2>3. /\ AbsPc' = Pc(6 + 1) /\ AbsMem' = AbsMem /\ Sets(12, c.size - 4 * k - 4)
    BY <1>3, <2>1, <2>2, StepDown
  <2>4. c.size - 4 * k - 4 = c.size - 4 * (k + 1)
    BY <1>3
  <2>5. CopyAt(c, 3, k)'
    BY <1>2, <2>1, <2>3, <2>4 DEF CopyAt, Sets
  <2> QED
    BY <1>2, <2>3, <2>5 DEF InCopy, Sets
<1>7. CASE n = 3
  <2>1. /\ AbsPc = Pc(7) /\ AbsMem = Done(c, k) /\ AbsRegs[31] = c.to + 4 * k
        /\ AbsRegs[11] = c.from + 4 * k /\ AbsRegs[12] = c.size - 4 * (k + 1)
        /\ AbsRegs[30] = DMEM_INIT[Cell(c.from) + k]
    BY <1>1, <1>7 DEF CopyAt
  <2>2. Executes(7, addi(11, 11, 4))
    BY <2>1, ProgramText, LibraryText DEF Executes
  <2>3. /\ AbsPc' = Pc(7 + 1) /\ AbsMem' = AbsMem /\ Sets(11, c.from + 4 * k + 4)
    BY <1>3, <2>1, <2>2, StepUp
  <2>4. c.from + 4 * k + 4 = c.from + 4 * (k + 1)
    BY <1>3
  <2>5. CopyAt(c, 4, k)'
    BY <1>2, <2>1, <2>3, <2>4 DEF CopyAt, Sets
  <2> QED
    BY <1>2, <2>3, <2>5 DEF InCopy, Sets
<1>8. CASE n = 4
  <2>1. /\ AbsPc = Pc(8) /\ AbsMem = Done(c, k) /\ AbsRegs[31] = c.to + 4 * k
        /\ AbsRegs[11] = c.from + 4 * (k + 1) /\ AbsRegs[12] = c.size - 4 * (k + 1)
        /\ AbsRegs[30] = DMEM_INIT[Cell(c.from) + k]
    BY <1>1, <1>8 DEF CopyAt
  <2>2. Executes(8, sw(30, 31, 0))
    BY <2>1, ProgramText, LibraryText DEF Executes
  <2>3. /\ AbsPc' = Pc(8 + 1) /\ AbsRegs' = AbsRegs /\ Wired'
        /\ AbsMem' = Done(c, k + 1)
    <3>1. 31 \in 0 .. 31 /\ 30 \in 0 .. 31
      OBVIOUS
    <3>2. AbsRegs[31] % 4 = 0 /\ AbsMem \in [Word -> Word]
      BY <1>3, <1>4, <2>1
    <3>3. /\ AbsPc' = Pc(8 + 1) /\ AbsRegs' = AbsRegs /\ Wired'
          /\ AbsMem' = [AbsMem EXCEPT ![Cell(AbsRegs[31])] = AbsRegs[30]]
      BY <2>2, <3>1, <3>2, StepSw, Zenon DEF Running
    <3> QED
      BY <1>4, <2>1, <3>3, Zenon
  <2>4. CopyAt(c, 5, k)'
    BY <1>2, <2>1, <2>3 DEF CopyAt
  <2> QED
    BY <1>2, <2>3, <2>4 DEF InCopy
<1>9. CASE n = 5
  <2>1. /\ AbsPc = Pc(9) /\ AbsMem = Done(c, k + 1) /\ AbsRegs[31] = c.to + 4 * k
        /\ AbsRegs[11] = c.from + 4 * (k + 1) /\ AbsRegs[12] = c.size - 4 * (k + 1)
    BY <1>1, <1>9 DEF CopyAt
  <2>2. Executes(9, addi(31, 31, 4))
    BY <2>1, ProgramText, LibraryText DEF Executes
  <2>3. /\ AbsPc' = Pc(9 + 1) /\ AbsMem' = AbsMem /\ Sets(31, c.to + 4 * k + 4)
    BY <1>3, <2>1, <2>2, StepUp
  <2>4. c.to + 4 * k + 4 = c.to + 4 * (k + 1)
    BY <1>3
  <2>5. CopyAt(c, 6, k)'
    BY <1>2, <2>1, <2>3, <2>4 DEF CopyAt, Sets
  <2> QED
    BY <1>2, <2>3, <2>5 DEF InCopy, Sets
<1>10. CASE n = 6
  <2>1. /\ AbsPc = Pc(10) /\ AbsMem = Done(c, k + 1)
        /\ AbsRegs[31] = c.to + 4 * (k + 1)
        /\ AbsRegs[11] = c.from + 4 * (k + 1) /\ AbsRegs[12] = c.size - 4 * (k + 1)
    BY <1>1, <1>10 DEF CopyAt
  <2>2. Executes(10, bne(12, 0, -5))
    BY <2>1, ProgramText, LibraryText DEF Executes
  <2>3. /\ AbsRegs[12] # AbsRegs[0] => AbsPc' = Pc(10 + (-5))
        /\ AbsRegs[12] = AbsRegs[0] => AbsPc' = Pc(10 + 1)
        /\ AbsRegs' = AbsRegs /\ AbsMem' = AbsMem /\ Wired'
    <3>1. 12 \in 0 .. 31 /\ 0 \in 0 .. 31 /\ -5 \in Int /\ 10 + (-5) \in 0 .. 34
      OBVIOUS
    <3> QED
      BY <2>2, <3>1, StepBne, Zenon DEF Running
  <2>4. AbsRegs[0] = 0
    BY <1>2 DEF Wired
  <2>5. CASE k + 1 = Words(c)
    <3>1. AbsRegs[12] = 0
      BY <1>3, <2>1, <2>5
    <3>2. AbsPc' = Pc(11) /\ AbsMem' = Promised(c)
      BY <1>2, <2>1, <2>3, <2>4, <2>5, <3>1, DoneEnds
    <3> QED
      BY <2>3, <3>2 DEF Finished
  <2>6. CASE k + 1 # Words(c)
    <3>1. k + 1 \in 0 .. (Words(c) - 1) /\ AbsRegs[12] # 0
      BY <1>3, <2>1, <2>6
    <3>2. AbsPc' = Pc(5)
      BY <2>3, <2>4, <3>1
    <3>3. CopyAt(c, 1, k + 1)'
      BY <2>1, <2>3, <3>2 DEF CopyAt
    <3> QED
      BY <1>2, <2>3, <3>1, <3>3 DEF InCopy
  <2> QED
    BY <2>5, <2>6
<1> QED
  BY <1>1, <1>5, <1>6, <1>7, <1>8, <1>9, <1>10

\* One instruction of the loop of memset.
LEMMA FromSet ==
  ASSUME NEW CONSTANT c, Running(c), InSet(c)
  PROVE  Wired' /\ (InSet(c) \/ Finished(c))'
<1>1. PICK n \in 1 .. 4, k \in 0 .. (Words(c) - 1) : SetAt(c, n, k)
  BY DEF InSet
<1>2. /\ LibraryInstance /\ Legal(c) /\ c.routine = "memset"
      /\ {0, 11, 12, 31} \subseteq Reg /\ Wired
  BY Registers DEF Running, IsCall, InSet
<1>3. /\ k \in Nat /\ Words(c) \in Nat \ {0} /\ c.size = 4 * Words(c)
      /\ c.to + 4 * k \in Word /\ (c.to + 4 * k) % 4 = 0 /\ c.to + 4 * k + 4 < Modulus
      /\ c.size - 4 * k \in Word /\ c.size - 4 * k >= 4
      /\ c.to \in Nat /\ c.from \in Nat /\ c.size \in Nat /\ Modulus \in Nat
  BY <1>2, LoopWords
<1>4. /\ Done(c, k) \in [Word -> Word]
      /\ Done(c, k + 1) = [Done(c, k) EXCEPT ![Cell(c.to + 4 * k)] = c.from]
  BY <1>2, DoneMore DEF NewWord
<1>5. CASE n = 1
  <2>1. /\ AbsPc = Pc(27) /\ AbsMem = Done(c, k) /\ AbsRegs[31] = c.to + 4 * k
        /\ AbsRegs[11] = c.from /\ AbsRegs[12] = c.size - 4 * k
    BY <1>1, <1>5 DEF SetAt
  <2>2. Executes(27, addi(12, 12, -4))
    BY <2>1, ProgramText, LibraryText DEF Executes
  <2>3. /\ AbsPc' = Pc(27 + 1) /\ AbsMem' = AbsMem /\ Sets(12, c.size - 4 * k - 4)
    BY <1>3, <2>1, <2>2, StepDown
  <2>4. c.size - 4 * k - 4 = c.size - 4 * (k + 1)
    BY <1>3
  <2>5. SetAt(c, 2, k)'
    BY <1>2, <2>1, <2>3, <2>4 DEF SetAt, Sets
  <2> QED
    BY <1>2, <2>3, <2>5 DEF InSet, Sets
<1>6. CASE n = 2
  <2>1. /\ AbsPc = Pc(28) /\ AbsMem = Done(c, k) /\ AbsRegs[31] = c.to + 4 * k
        /\ AbsRegs[11] = c.from /\ AbsRegs[12] = c.size - 4 * (k + 1)
    BY <1>1, <1>6 DEF SetAt
  <2>2. Executes(28, sw(11, 31, 0))
    BY <2>1, ProgramText, LibraryText DEF Executes
  <2>3. /\ AbsPc' = Pc(28 + 1) /\ AbsRegs' = AbsRegs /\ Wired'
        /\ AbsMem' = Done(c, k + 1)
    <3>1. 31 \in 0 .. 31 /\ 11 \in 0 .. 31
      OBVIOUS
    <3>2. AbsRegs[31] % 4 = 0 /\ AbsMem \in [Word -> Word]
      BY <1>3, <1>4, <2>1
    <3>3. /\ AbsPc' = Pc(28 + 1) /\ AbsRegs' = AbsRegs /\ Wired'
          /\ AbsMem' = [AbsMem EXCEPT ![Cell(AbsRegs[31])] = AbsRegs[11]]
      BY <2>2, <3>1, <3>2, StepSw, Zenon DEF Running
    <3> QED
      BY <1>4, <2>1, <3>3, Zenon
  <2>4. SetAt(c, 3, k)'
    BY <1>2, <2>1, <2>3 DEF SetAt
  <2> QED
    BY <1>2, <2>3, <2>4 DEF InSet
<1>7. CASE n = 3
  <2>1. /\ AbsPc = Pc(29) /\ AbsMem = Done(c, k + 1) /\ AbsRegs[31] = c.to + 4 * k
        /\ AbsRegs[11] = c.from /\ AbsRegs[12] = c.size - 4 * (k + 1)
    BY <1>1, <1>7 DEF SetAt
  <2>2. Executes(29, addi(31, 31, 4))
    BY <2>1, ProgramText, LibraryText DEF Executes
  <2>3. /\ AbsPc' = Pc(29 + 1) /\ AbsMem' = AbsMem /\ Sets(31, c.to + 4 * k + 4)
    BY <1>3, <2>1, <2>2, StepUp
  <2>4. c.to + 4 * k + 4 = c.to + 4 * (k + 1)
    BY <1>3
  <2>5. SetAt(c, 4, k)'
    BY <1>2, <2>1, <2>3, <2>4 DEF SetAt, Sets
  <2> QED
    BY <1>2, <2>3, <2>5 DEF InSet, Sets
<1>8. CASE n = 4
  <2>1. /\ AbsPc = Pc(30) /\ AbsMem = Done(c, k + 1)
        /\ AbsRegs[31] = c.to + 4 * (k + 1)
        /\ AbsRegs[11] = c.from /\ AbsRegs[12] = c.size - 4 * (k + 1)
    BY <1>1, <1>8 DEF SetAt
  <2>2. Executes(30, bne(12, 0, -3))
    BY <2>1, ProgramText, LibraryText DEF Executes
  <2>3. /\ AbsRegs[12] # AbsRegs[0] => AbsPc' = Pc(30 + (-3))
        /\ AbsRegs[12] = AbsRegs[0] => AbsPc' = Pc(30 + 1)
        /\ AbsRegs' = AbsRegs /\ AbsMem' = AbsMem /\ Wired'
    <3>1. 12 \in 0 .. 31 /\ 0 \in 0 .. 31 /\ -3 \in Int /\ 30 + (-3) \in 0 .. 34
      OBVIOUS
    <3> QED
      BY <2>2, <3>1, StepBne, Zenon DEF Running
  <2>4. AbsRegs[0] = 0
    BY <1>2 DEF Wired
  <2>5. CASE k + 1 = Words(c)
    <3>1. AbsRegs[12] = 0
      BY <1>3, <2>1, <2>5
    <3>2. AbsPc' = Pc(31) /\ AbsMem' = Promised(c)
      BY <1>2, <2>1, <2>3, <2>4, <2>5, <3>1, DoneEnds
    <3> QED
      BY <2>3, <3>2 DEF Finished
  <2>6. CASE k + 1 # Words(c)
    <3>1. k + 1 \in 0 .. (Words(c) - 1) /\ AbsRegs[12] # 0
      BY <1>3, <2>1, <2>6
    <3>2. AbsPc' = Pc(27)
      BY <2>3, <2>4, <3>1
    <3>3. SetAt(c, 1, k + 1)'
      BY <2>1, <2>3, <3>2 DEF SetAt
    <3> QED
      BY <1>2, <2>3, <3>1, <3>3 DEF InSet
  <2> QED
    BY <2>5, <2>6
<1> QED
  BY <1>1, <1>5, <1>6, <1>7, <1>8

\* The routine is left, and at RAADDRESS the machine stops.
LEMMA FromFinish ==
  ASSUME NEW CONSTANT c, Running(c), Finished(c)
  PROVE  Wired' /\ Finished(c)'
<1>1. AbsPc # RAADDRESS
  BY SameMachine DEF Running, I!Next, I!Halted
<1>2. PICK n \in {11, 31} : AbsPc = Pc(n)
  BY <1>1 DEF Finished
<1>3. Executes(n, ret)
  <2>1. CASE n = 11
    BY <1>2, <2>1, ProgramText, LibraryText DEF Executes
  <2>2. CASE n = 31
    BY <1>2, <2>2, ProgramText, LibraryText DEF Executes
  <2> QED
    BY <1>2, <2>1, <2>2
<1>4. AbsPc' = RAADDRESS /\ AbsMem' = AbsMem /\ Wired'
  BY <1>3, StepRet, Zenon DEF Running
<1> QED
  BY <1>4 DEF Finished

\* One instruction of a call.
LEMMA CallStep ==
  ASSUME LibraryInstance, CallInv, ~Reverses(Calling), I!Next
  PROVE  CallInv'
<1>1. PICK c : c = Calling
  OBVIOUS
<1>2. Running(c) /\ Point(c) /\ ~Reverses(c)
  BY <1>1 DEF Running, CallInv
<1>3. Wired' /\ Point(c)'
  <2>1. CASE InCall(c)
    BY <1>2, <2>1, FromCall DEF Point
  <2>2. CASE InMove(c)
    BY <1>2, <2>2, FromMove DEF Point
  <2>3. CASE Entered(c)
    BY <1>2, <2>3, FromEntry DEF Point
  <2>4. CASE InCopy(c)
    BY <1>2, <2>4, FromCopy DEF Point
  <2>5. CASE InSet(c)
    BY <1>2, <2>5, FromSet DEF Point
  <2>6. CASE Finished(c)
    BY <1>2, <2>6, FromFinish DEF Point
  <2> QED
    BY <1>2, <2>1, <2>2, <2>3, <2>4, <2>5, <2>6 DEF Point
<1>4. imem' = imem
  BY DEF I!Next
<1>5. Calling' = c
  BY <1>1, <1>4 DEF Calling
<1>6. IsCall'
  BY <1>1, <1>4, <1>5 DEF CallInv, IsCall
<1>7. Point(Calling)'
  BY <1>3, <1>5
<1> QED
  BY <1>3, <1>6, <1>7 DEF CallInv

\* What leaves the state of the sequential machine alone.
LEMMA CallStutter ==
  ASSUME CallInv, UNCHANGED absVars
  PROVE  CallInv'
<1>1. Calling' = Calling
  BY DEF absVars, Calling
<1> QED
  BY <1>1
  DEF absVars, CallInv, IsCall, Wired, Point, InCall, InMove, Entered, InCopy,
      InSet, Finished, CopyAt, SetAt, Arguments

\* A program begins with its first argument.
LEMMA CallInit == LibraryInstance /\ HInit => CallInv
<1> SUFFICES ASSUME LibraryInstance, HInit PROVE CallInv
  OBVIOUS
<1>1. I!Init
  BY InitImplements DEF HInit
<1>2. IsCall
  BY DEF HInit, Init, icache_reset, LibraryInstance, IsCall, Calling
<1>3. AbsRegs = I!InitRegs /\ AbsMem = DMEM_INIT /\ AbsPc = Pc(0)
  BY <1>1, SizesAssumption DEF I!Init, Pc, Word
<1>4. Wired
  <2>1. {0, 1} \subseteq Reg
    BY Registers
  <2> QED
    BY <1>3, <2>1, SizesAssumption, SameMachine DEF I!InitRegs, Wired, Word
<1>5. InCall(Calling)
  BY <1>3 DEF InCall, Arguments
<1> QED
  BY <1>2, <1>4, <1>5 DEF CallInv, Point

\* Where a call is.
LEMMA CallPlaces ==
  ASSUME CallInv, ~Reverses(Calling)
  PROVE  /\ AbsPc = RAADDRESS \/ \E n \in 0 .. 31 : AbsPc = Pc(n)
         /\ AbsPc = RAADDRESS /\ LibraryInstance => AbsMem = Promised(Calling)
<1>1. PICK c : c = Calling
  OBVIOUS
<1>2. Point(c) /\ Wired
  BY <1>1 DEF CallInv
<1>3. Finished(c) \/ \E n \in 0 .. 31 : AbsPc = Pc(n)
  <2>1. CASE InCall(c)
    BY <2>1 DEF InCall
  <2>2. CASE InMove(c)
    BY <2>2 DEF InMove
  <2>3. CASE Entered(c)
    BY <2>3 DEF Entered
  <2>4. CASE InCopy(c)
    BY <2>4 DEF InCopy, CopyAt
  <2>5. CASE InSet(c)
    BY <2>5 DEF InSet, SetAt
  <2> QED
    BY <1>2, <2>1, <2>2, <2>3, <2>4, <2>5 DEF Point
<1>4. AbsPc = RAADDRESS \/ \E n \in 0 .. 31 : AbsPc = Pc(n)
  BY <1>3 DEF Finished
<1>5. ASSUME AbsPc = RAADDRESS, LibraryInstance PROVE AbsMem = Promised(c)
  <2>1. \A n \in 0 .. 31 : Pc(n) # RAADDRESS
    BY <1>5, TextAddress
  <2> QED
    BY <1>3, <1>5, <2>1 DEF Finished
<1> QED
  BY <1>1, <1>4, <1>5

\* The text of a call is not in front of RAADDRESS.
LEMMA CallStaysAway ==
  ASSUME LibraryInstance, CallInv, ~Reverses(Calling)
  PROVE  StaysAway
<1>1. CASE AbsPc = RAADDRESS
  <2>1. /\ InstrBytes \in Nat \ {0} /\ Modulus \in Nat
        /\ RAADDRESS \in 0 .. (Modulus - 1)
        /\ 3 * InstrBytes < Modulus
    <3>1. InstrBytes \in Nat \ {0} /\ PC_STARTADDR \in Nat
          /\ RAADDRESS \in 0 .. (Modulus - 1) /\ Modulus \in Nat
      BY SizesAssumption DEF Word
    <3>2. PC_STARTADDR + InstrBytes * 35 <= Modulus
      BY LibraryText DEF LibraryInstance
    <3> QED
      BY <3>1, <3>2
  <2>2. /\ After(RAADDRESS) \in {RAADDRESS + InstrBytes,
                                  RAADDRESS + InstrBytes - Modulus}
        /\ After(RAADDRESS) \in 0 .. (Modulus - 1)
    BY <2>1 DEF After, Add, Wrap
  <2>3. /\ After(After(RAADDRESS)) \in {RAADDRESS + 2 * InstrBytes,
                                         RAADDRESS + 2 * InstrBytes - Modulus}
        /\ After(After(RAADDRESS)) \in 0 .. (Modulus - 1)
    BY <2>1, <2>2 DEF After, Add, Wrap
  <2>4. After(After(After(RAADDRESS))) \in {RAADDRESS + 3 * InstrBytes,
                                            RAADDRESS + 3 * InstrBytes - Modulus}
    BY <2>1, <2>3 DEF After, Add, Wrap
  <2> QED
    BY <1>1, <2>1, <2>2, <2>3, <2>4 DEF StaysAway
<1>2. CASE AbsPc # RAADDRESS
  <2>1. PICK n \in 0 .. 31 : AbsPc = Pc(n)
    BY <1>2, CallPlaces
  <2>2. /\ n \in 0 .. 33 /\ n + 1 \in 0 .. 33 /\ n + 2 \in 0 .. 33 /\ n + 3 \in 0 .. 34
        /\ n + 1 + 1 = n + 2 /\ n + 2 + 1 = n + 3
        /\ n + 1 \in 0 .. 34 /\ n + 2 \in 0 .. 34
    OBVIOUS
  <2>3. After(Pc(n)) = Pc(n + 1)
    BY <2>2, TextNext DEF After
  <2>4. After(Pc(n + 1)) = Pc(n + 2)
    BY <2>2, TextNext DEF After
  <2>5. After(Pc(n + 2)) = Pc(n + 3)
    BY <2>2, TextNext DEF After
  <2>6. Pc(n + 1) # RAADDRESS /\ Pc(n + 2) # RAADDRESS /\ Pc(n + 3) # RAADDRESS
    BY <2>2, TextAddress
  <2> QED
    BY <2>1, <2>3, <2>4, <2>5, <2>6 DEF StaysAway
<1> QED
  BY <1>1, <1>2

-----------------------------------------------------------------------------
(* The program of a call is tame.                                          *)

\* What a word of such a program may be: neither of the M extension nor a print,
\* a load in two places, with the count behind it, and a jump in one.
Harmless(s, n) ==
  /\ ~IsM(s[n]) /\ ~IsPrint(s[n])
  /\ s[n].op = "LD" => /\ n \in 1 .. 31 /\ s[n].rd = 30
                       /\ s[n + 1] = addi(12, 12, -4)
  /\ s[n].op = "JAL" => n = 4

\* No word of a program is one of the M extension or a print.
LEMMA TextHarmless ==
  ASSUME NEW c, NEW n \in 1 .. 32
  PROVE  Harmless(Text(c), n)
<1>1. PICK s : s = Text(c)
  OBVIOUS
<1>2. /\ s[1].op = "OPI" /\ s[2].op = "OPI" /\ s[3].op = "OPI" /\ s[4].op = "JAL"
      /\ \A m \in 1 .. 28 : s[m + 4] = library[m]
  <2>1. /\ s[1] = li(10, c.to) /\ s[2] = li(11, c.from) /\ s[3] = li(12, c.size)
        /\ s[4] = jal(0, 1 + Entry[c.routine])
        /\ \A m \in 1 .. 28 : s[m + 4] = library[m]
    BY <1>1, ProgramText
  <2> QED
    BY <2>1 DEF li, addi, jal, Ins
<1>3. CASE n \in 1 .. 4
  BY <1>1, <1>2, <1>3 DEF Harmless, IsM, IsPrint
<1>4. CASE n \in 5 .. 32
  <2>1. PICK m \in 1 .. 28 : n = m + 4
    BY <1>4
  <2>2. s[n] = library[m]
    BY <1>2, <2>1
  <2>3. CASE m \in {2, 16}
    <3>1. s[n] = lw(30, 11, 0) /\ n \in 1 .. 31
      BY <2>1, <2>2, <2>3, LibraryText
    <3>2. s[n + 1] = addi(12, 12, -4)
      <4>1. m + 1 \in 1 .. 28 /\ n + 1 = (m + 1) + 4
        BY <2>1, <2>3
      <4>2. s[n + 1] = library[m + 1]
        BY <1>2, <4>1
      <4> QED
        BY <2>3, <4>2, LibraryText
    <3> QED
      BY <1>1, <3>1, <3>2 DEF Harmless, IsM, IsPrint, lw, Ins
  <2>4. CASE m \notin {2, 16}
    <3>1. /\ s[n].op \in {"OPI", "OP", "ST", "BR", "JALR"}
          /\ s[n].op = "OP" => s[n].f7 = 0
          /\ s[n].op = "JALR" => s[n].f3 = 0
      <4>1. CASE m \in {1, 3, 4, 6, 9, 10, 17, 18, 20, 23, 24, 26}
        BY <2>2, <4>1, LibraryText DEF addi, mv, Ins
      <4>2. CASE m \in {5, 7, 8, 11, 12, 13, 14, 15}
        BY <2>2, <4>2, LibraryText
        DEF add, slt, sw, beq, bne, ret, jalr, Ins
      <4>3. CASE m \in {19, 21, 22, 25, 27, 28}
        BY <2>2, <4>3, LibraryText
        DEF sw, bne, ret, jalr, Ins
      <4> QED
        BY <2>4, <4>1, <4>2, <4>3
    <3> QED
      BY <1>1, <3>1 DEF Harmless, IsM, IsPrint
  <2> QED
    BY <2>3, <2>4
<1> QED
  BY <1>3, <1>4

\* The words of a program, by their place in the text.
LEMMA WordOfText ==
  ASSUME LibraryInstance, NEW c, NEW w \in Word
  PROVE  /\ \A n \in 1 .. 32 : w = First + n - 1 => ProgramOf(c)[w] = Text(c)[n]
         /\ (\A n \in 1 .. 32 : w # First + n - 1) => ProgramOf(c)[w] = ret
<1>1. First \in Nat /\ w \in Nat
  BY TextAddress, 0 \in 0 .. 34, SizesAssumption DEF Word
<1>2. ProgramOf(c) = Image(Text(c)) /\ Len(Text(c)) = 32
  BY ProgramText DEF ProgramOf, Text
<1>3. PICK m \in Int : m = w - First + 1
  BY <1>1
<1>4. ProgramOf(c)[w] = IF m \in 1 .. 32 THEN Text(c)[m] ELSE ret
  BY <1>2, <1>3 DEF Image
<1> QED
  BY <1>1, <1>3, <1>4

\* A program that makes one call is tame: it loses nothing in the pipeline.
LEMMA CallsTame ==
  ASSUME LibraryInstance, NEW c, Legal(c)
  PROVE  Tame(ProgramOf(c))
<1>1. PICK p : p = ProgramOf(c)
  OBVIOUS
<1>2. /\ First \in Nat /\ InstrBytes \in Nat \ {0}
      /\ PC_STARTADDR = InstrBytes * First
      /\ \A x \in Word : x \in Nat
  <2>1. Pc(0) = InstrBytes * (First + 0) /\ First \in Nat
    BY TextAddress
  <2>2. /\ InstrBytes \in Nat \ {0} /\ PC_STARTADDR \in Nat
        /\ \A x \in Word : x \in Nat
    BY SizesAssumption DEF Word
  <2> QED
    BY <2>1, <2>2 DEF Pc
<1>3. \A w \in Word : ~IsM(p[w]) /\ ~IsPrint(p[w])
  <2> TAKE w \in Word
  <2>1. CASE \E n \in 1 .. 32 : w = First + n - 1
    BY <1>1, <2>1, WordOfText, TextHarmless DEF Harmless
  <2>2. CASE ~ \E n \in 1 .. 32 : w = First + n - 1
    <3>1. p[w] = ret
      BY <1>1, <2>2, WordOfText
    <3> QED
      BY <3>1 DEF IsM, IsPrint, ret, jalr, Ins
  <2> QED
    BY <2>1, <2>2
<1>4. ASSUME NEW a \in Word
      PROVE  /\ a \div InstrBytes \in Word
             /\ After(a) \in Word /\ After(After(a)) \in Word
             /\ After(a) \div InstrBytes \in Word
             /\ After(After(a)) \div InstrBytes \in Word
  <2>1. /\ After(a) \in Word /\ After(After(a)) \in Word
    BY AddInWord, ParametersInWord DEF After
  <2> QED
    BY <2>1, ParametersInWord, QuotientInWord
<1>5. ASSUME NEW a \in Word
      PROVE  LoadsApart(WordAt(p, a), WordAt(p, After(a)))
  <2> SUFFICES ASSUME WordAt(p, a).op = "LD"
               PROVE  WordAt(p, a).rd \notin Reads(WordAt(p, After(a)))
    BY DEF LoadsApart
  <2>1. PICK w \in Word : w = a \div InstrBytes
    BY <1>4
  <2>2. PICK n \in 1 .. 32 : w = First + n - 1
    <3>1. p[w].op # "JALR"
      BY <2>1 DEF WordAt
    <3> QED
      BY <1>1, <3>1, WordOfText DEF ret, jalr, Ins
  <2>3. p[w] = Text(c)[n]
    BY <1>1, <2>2, WordOfText
  <2>4. n \in 1 .. 31 /\ WordAt(p, a).rd = 30 /\ Text(c)[n + 1] = addi(12, 12, -4)
    BY <2>1, <2>3, TextHarmless DEF Harmless, WordAt
  <2>5. After(a) \div InstrBytes = First + n
    <3>1. /\ n - 1 \in 0 .. 34 /\ 1 \in Int /\ (n - 1) + 1 \in 0 .. 34
          /\ a \div InstrBytes = First + (n - 1) /\ First + (n - 1) + 1 = First + n
      BY <1>2, <2>1, <2>2
    <3>2. (InstrBytes * 1) % Modulus = InstrBytes /\ InstrBytes * 1 = InstrBytes
      BY SizesAssumption
    <3>3. /\ Add(a, InstrBytes) = a + InstrBytes
          /\ (a + InstrBytes) \div InstrBytes = First + (n - 1) + 1
      BY <3>1, <3>2, JumpDistance
    <3> QED
      BY <3>1, <3>3 DEF After
  <2>6. WordAt(p, After(a)) = addi(12, 12, -4)
    <3>1. n + 1 \in 1 .. 32 /\ First + n = First + (n + 1) - 1 /\ First + n \in Word
      BY <1>2, <1>4, <2>4, <2>5
    <3> QED
      BY <1>1, <2>4, <2>5, <3>1, WordOfText DEF WordAt
  <2>7. Reads(WordAt(p, After(a))) = {12}
    BY <2>6 DEF Reads, addi, Ins
  <2> QED
    BY <2>4, <2>7
<1>6. ASSUME NEW a \in Word
      PROVE  JumpsAway(WordAt(p, a), a)
  <2> SUFFICES ASSUME WordAt(p, a).op = "JAL"
               PROVE  RAADDRESS \notin {Add(a, WordAt(p, a).imm),
                                        After(Add(a, WordAt(p, a).imm))}
    BY DEF JumpsAway
  <2>1. PICK w \in Word : w = a \div InstrBytes
    BY <1>4
  <2>2. PICK n \in 1 .. 32 : w = First + n - 1
    <3>1. p[w].op # "JALR"
      BY <2>1 DEF WordAt
    <3> QED
      BY <1>1, <3>1, WordOfText DEF ret, jalr, Ins
  <2>3. p[w] = Text(c)[n]
    BY <1>1, <2>2, WordOfText
  <2>4. n = 4 /\ a \div InstrBytes = First + 3
    BY <1>2, <2>1, <2>2, <2>3, TextHarmless DEF Harmless, WordAt
  <2>5. PICK e \in {0, 8, 22} : e = Entry[c.routine]
    BY CallWords, Entries
  <2>6. WordAt(p, a).imm = (InstrBytes * (1 + e)) % Modulus
    <3>1. WordAt(p, a) = jal(0, 1 + e)
      BY <2>1, <2>3, <2>4, <2>5, ProgramText DEF WordAt
    <3> QED
      BY <3>1 DEF jal, Ins
  <2>7. PICK b \in Word : /\ b = Add(a, WordAt(p, a).imm)
                          /\ b \div InstrBytes = First + 3 + (1 + e)
    <3>1. 3 \in 0 .. 34 /\ 1 + e \in Int /\ 3 + (1 + e) \in 0 .. 34
      OBVIOUS
    <3> QED
      BY <2>4, <2>6, <3>1, JumpDistance
  <2>8. After(b) \in Word /\ After(b) \div InstrBytes = First + 3 + (1 + e) + 1
    <3>1. /\ 4 + e \in 0 .. 34 /\ 1 \in Int /\ (4 + e) + 1 \in 0 .. 34
          /\ b \div InstrBytes = First + (4 + e)
          /\ First + (4 + e) + 1 = First + 3 + (1 + e) + 1
      BY <1>2, <2>7
    <3>2. (InstrBytes * 1) % Modulus = InstrBytes /\ InstrBytes * 1 = InstrBytes
      BY SizesAssumption
    <3>3. /\ Add(b, InstrBytes) = b + InstrBytes
          /\ (b + InstrBytes) \div InstrBytes = First + (4 + e) + 1
      BY <3>1, <3>2, JumpDistance
    <3> QED
      BY <1>4, <2>7, <3>1, <3>3 DEF After
  <2>9. ASSUME NEW x \in Word, NEW m \in 0 .. 34, x \div InstrBytes = First + m
        PROVE  x # RAADDRESS
    <3>1. PICK r \in 0 .. (InstrBytes - 1) : x = InstrBytes * (First + m) + r
      <4>1. x % InstrBytes \in 0 .. (InstrBytes - 1)
            /\ x = InstrBytes * (x \div InstrBytes) + (x % InstrBytes)
        <5>1. x \in Int
          BY <1>2
        <5> QED
          BY <1>2, <5>1, DivMod
      <4> QED
        BY <2>9, <4>1, Zenon
    <3>2. InstrBytes * (First + m) = PC_STARTADDR + InstrBytes * m
      BY <1>2
    <3>3. InstrBytes * m + InstrBytes <= InstrBytes * 35 /\ InstrBytes * m \in Nat
      BY <1>2
    <3>4. x \in PC_STARTADDR .. (PC_STARTADDR + InstrBytes * 35 - 1)
      <4>1. InstrBytes * First \in Nat
        BY <1>2
      <4> QED
        BY <1>2, <3>1, <3>2, <3>3, <4>1
    <3> QED
      BY <3>4, LibraryText DEF LibraryInstance
  <2>10. b # RAADDRESS
    <3>1. 4 + e \in 0 .. 34 /\ b \div InstrBytes = First + (4 + e)
      BY <1>2, <2>7
    <3> QED
      BY <2>9, <3>1
  <2>11. After(b) # RAADDRESS
    <3>1. 5 + e \in 0 .. 34 /\ After(b) \div InstrBytes = First + (5 + e)
      BY <1>2, <2>8
    <3> QED
      BY <2>8, <2>9, <3>1
  <2> QED
    BY <2>7, <2>10, <2>11
<1>7. ASSUME NEW a \in Word
      PROVE  /\ DivisionsApart(WordAt(p, a), WordAt(p, After(a)),
                               WordAt(p, After(After(a))))
             /\ ProductsApart(WordAt(p, a), WordAt(p, After(a)))
             /\ PrintsApart(WordAt(p, a), WordAt(p, After(a)),
                            WordAt(p, After(After(a))))
  BY <1>3, <1>4 DEF DivisionsApart, ProductsApart, PrintsApart, IsDivide, WordAt
<1>8. QuotientsApart(p)
  <2>1. DOMAIN p = Word
    BY <1>1 DEF ProgramOf, Image
  <2> QED
    BY <1>3, <2>1 DEF QuotientsApart
<1> QED
  BY <1>1, <1>5, <1>6, <1>7, <1>8 DEF Tame

\* The invariant: the call is at one of its points and has lost nothing, unless
\* memmove goes the wrong way.
CopyInv ==
  /\ HInv /\ Unlost /\ CallInv
  /\ ~Reverses(Calling) => ~lost /\ Tame(imem)

\* It holds at the reset.
LEMMA CopyInit == LibraryInstance /\ HInit => CopyInv
<1> SUFFICES ASSUME LibraryInstance, HInit PROVE CopyInv
  OBVIOUS
<1>1. HInv /\ Unlost /\ CallInv /\ ~lost
  BY InitInv, InitUnlost, CallInit DEF HInit
<1>2. Tame(imem)
  BY <1>1, CallsTame DEF CallInv, IsCall
<1> QED
  BY <1>1, <1>2 DEF CopyInv

\* It is inductive: what the sequential machine does with a call is what the
\* pipeline does, as a call loses nothing.
LEMMA CopyNext ==
  LibraryInstance /\ CopyInv /\ [HNext]_hvars => CopyInv'
<1> SUFFICES ASSUME LibraryInstance, CopyInv, [HNext]_hvars PROVE CopyInv'
  OBVIOUS
<1>1. HInv' /\ Unlost'
  BY NextInv, NextUnlost DEF CopyInv
<1>2. imem' = imem
  BY DEF HNext, HPosedge, HNegedge, Posedge, Negedge, hvars, vars
<1>3. Calling' = Calling
  BY <1>2 DEF Calling
<1>4. CASE Reverses(Calling)
  BY <1>1, <1>2, <1>3, <1>4 DEF CopyInv, CallInv, IsCall
<1>5. CASE ~Reverses(Calling)
  <2>1. StaysAway
    BY <1>5, CallStaysAway DEF CopyInv
  <2>2. /\ ~lost' /\ Tame(imem)'
        /\ I!Next \/ UNCHANGED absVars
    BY <1>5, <2>1, StaysExact DEF CopyInv
  <2>3. CallInv'
    BY <1>5, <2>2, CallStep, CallStutter DEF CopyInv
  <2> QED
    BY <1>1, <2>2, <2>3 DEF CopyInv
<1> QED
  BY <1>4, <1>5

\* memcpy, memset and memmove where it goes on to memcpy do on the pipeline what
\* their callers rely on, for every size, all areas, every content of the memory,
\* every word size and every length of a division: when the program has come to
\* its end, each word the call covers has its value and no other has changed.
THEOREM CallsCopy == LibraryInstance => (HSpec => []CopiesExactly)
<1> SUFFICES ASSUME LibraryInstance PROVE HSpec => []CopiesExactly
  OBVIOUS
<1>1. HInit => CopyInv
  BY CopyInit
<1>2. CopyInv /\ [HNext]_hvars => CopyInv'
  BY CopyNext
<1>3. CopyInv => CopiesExactly
  <2> SUFFICES ASSUME CopyInv, ic.stall, ~Reverses(Calling)
               PROVE  dmem = Promised(Calling)
    BY DEF CopiesExactly
  <2>1. AbsPc = RAADDRESS /\ AbsMem = dmem
    BY DEF CopyInv, HInv, Exact, Drained, AbsPc, AbsMem
  <2> QED
    BY <2>1, CallPlaces DEF CopyInv
<1> QED
  BY <1>1, <1>2, <1>3, PTL DEF HSpec

-----------------------------------------------------------------------------
(* One round.                                                              *)

\* A round changes the count, the quotient and the remainder only.
OnlyRounds(d, e) ==
  e = [d EXCEPT !.state = e.state, !.quotient = e.quotient, !.remainder = e.remainder]

\* A round keeps what the division has found so far, and no bit of the
\* remainder or of the quotient leaves its register.
LEMMA RoundDivides ==
  ASSUME NEW d \in MultRegs(Nat), d.state \in 1 .. DivBits, Invariant(d)
  PROVE  /\ OneBit(d) \in MultRegs(Nat) /\ Invariant(OneBit(d))
         /\ OneBit(d).state = d.state - 1 /\ OnlyRounds(d, OneBit(d))
<1> DEFINE n == d.state - 1
           w == Weight[n]
           a == d.dataA
           b == d.dataB
           q == d.quotient
           r == d.remainder
           t == 2 * r + ((a \div w) % 2)
<1>1. /\ a \in Word /\ b \in Word /\ q \in Word /\ r \in Word /\ d.state \in Nat
  BY DEF MultRegs
<1>2. n \in 0 .. (DivBits - 1) /\ n + 1 = d.state /\ n \in Nat
  BY WeightAssumption
<1>3. /\ w \in Nat \ {0} /\ Weight[d.state] = 2 * w
  <2> HIDE DEF n
  <2>1. /\ n \in 0 .. DivBits /\ Weight[n + 1] = 2 * Weight[n]
    BY <1>2, WeightAssumption
  <2> QED
    BY <1>2, <2>1, WeightAssumption
<1>4. /\ q % (2 * w) = 0 /\ a \div (2 * w) = (q \div (2 * w)) * b + r /\ r < b
  BY <1>3 DEF Invariant
<1>5. /\ a \in Nat /\ b \in Nat \ {0} /\ q \in Nat /\ r \in Nat
      /\ a < Modulus /\ b < Modulus
  BY <1>1, <1>4, SizesAssumption DEF Word
<1>6. /\ t \in Nat /\ 2 * r <= a /\ t <= a /\ (q \div w) % 2 = 0
      /\ t < b => /\ q % w = 0 /\ a \div w = (q \div w) * b + t
      /\ t >= b => /\ t - b \in Nat /\ t - b < b
                  /\ q + w \in Nat /\ q + w <= a /\ (q + w) % w = 0
                  /\ a \div w = ((q + w) \div w) * b + (t - b)
  <2>1. RoundFinds(a, b, q, r, w)
    <3> HIDE DEF a, b, q, r, w
    <3> QED
      BY <1>3, <1>4, <1>5, Round
  <2> QED
    BY <2>1 DEF RoundFinds
<1>7. ShiftIn(r, BitOf(a, n)) = t /\ SetBit(q, n) = q + w
  <2>1. Wrap(2 * r) = 2 * r
    <3> DEFINE x == 2 * r
    <3>1. x \in 0 .. (Modulus - 1)
      BY <1>5, <1>6, SizesAssumption
    <3> HIDE DEF x
    <3>2. Wrap(x) = x
      BY <3>1, SizesAssumption DEF Wrap
    <3> QED
      BY <3>2 DEF x
  <2> QED
    BY <1>6, <2>1 DEF ShiftIn, SetBit, BitOf
<1>8. OneBit(d) = IF t >= b
                  THEN [d EXCEPT !.state = n, !.remainder = t - b, !.quotient = q + w]
                  ELSE [d EXCEPT !.state = n, !.remainder = t]
  BY <1>7 DEF OneBit
<1>9. CASE t >= b
  <2> DEFINE u == t - b
             p == q + w
             e == OneBit(d)
  <2>1. u \in Word /\ p \in Word
    BY <1>5, <1>6, <1>9, SizesAssumption DEF Word
  <2>2. e = [d EXCEPT !.state = n, !.remainder = u, !.quotient = p]
    BY <1>8, <1>9
  <2>3. u < b /\ p % w = 0 /\ a \div w = (p \div w) * b + u
    BY <1>6, <1>9
  <2> HIDE DEF u, p, w, e, n
  <2>4. /\ e \in MultRegs(Nat) /\ e.state = n /\ e.quotient = p /\ e.remainder = u
        /\ e.dataA = a /\ e.dataB = b /\ OnlyRounds(d, e)
    BY <1>2, <2>1, <2>2 DEF MultRegs, OnlyRounds
  <2>5. Invariant(e)
    BY <2>3, <2>4 DEF Invariant, w
  <2> QED
    BY <2>4, <2>5 DEF e, n
<1>10. CASE t < b
  <2> DEFINE e == OneBit(d)
  <2>1. t \in Word
    BY <1>5, <1>6, <1>10, SizesAssumption DEF Word
  <2>2. e = [d EXCEPT !.state = n, !.remainder = t]
    BY <1>5, <1>6, <1>8, <1>10
  <2>3. q % w = 0 /\ a \div w = (q \div w) * b + t
    BY <1>6, <1>10
  <2> HIDE DEF t, w, e, n
  <2>4. /\ e \in MultRegs(Nat) /\ e.state = n /\ e.quotient = q /\ e.remainder = t
        /\ e.dataA = a /\ e.dataB = b /\ OnlyRounds(d, e)
    BY <1>2, <2>1, <2>2 DEF MultRegs, OnlyRounds
  <2>5. Invariant(e)
    BY <1>10, <2>3, <2>4 DEF Invariant, w
  <2> QED
    BY <2>4, <2>5 DEF e, n
<1> QED
  BY <1>5, <1>6, <1>9, <1>10

\* A cycle is four rounds.
LEMMA CycleDivides ==
  ASSUME NEW d \in MultRegs(Nat), d.state \in 4 .. DivBits, Invariant(d)
  PROVE  /\ FourBits(d) \in MultRegs(Nat) /\ Invariant(FourBits(d))
         /\ FourBits(d).state = d.state - 4 /\ OnlyRounds(d, FourBits(d))
<1> DEFINE d1 == OneBit(d)
           d2 == OneBit(d1)
           d3 == OneBit(d2)
           d4 == OneBit(d3)
<1>1. DivBits \in Nat /\ d.state \in Nat
  BY WeightAssumption
<1>2. /\ d1 \in MultRegs(Nat) /\ Invariant(d1)
      /\ d1.state = d.state - 1 /\ OnlyRounds(d, d1)
  <2>1. d.state \in 1 .. DivBits
    BY <1>1
  <2> QED
    BY <2>1, RoundDivides
<1>3. /\ d2 \in MultRegs(Nat) /\ Invariant(d2)
      /\ d2.state = d.state - 2 /\ OnlyRounds(d1, d2)
  <2> HIDE DEF d1
  <2>1. d1.state \in 1 .. DivBits
    BY <1>1, <1>2
  <2> QED
    BY <1>1, <1>2, <2>1, RoundDivides
<1>4. /\ d3 \in MultRegs(Nat) /\ Invariant(d3)
      /\ d3.state = d.state - 3 /\ OnlyRounds(d2, d3)
  <2> HIDE DEF d2
  <2>1. d2.state \in 1 .. DivBits
    BY <1>1, <1>3
  <2> QED
    BY <1>1, <1>3, <2>1, RoundDivides
<1>5. /\ d4 \in MultRegs(Nat) /\ Invariant(d4)
      /\ d4.state = d.state - 4 /\ OnlyRounds(d3, d4)
  <2> HIDE DEF d3
  <2>1. d3.state \in 1 .. DivBits
    BY <1>1, <1>4
  <2> QED
    BY <1>1, <1>4, <2>1, RoundDivides
<1>6. FourBits(d) = d4
  BY DEF FourBits
<1> HIDE DEF d1, d2, d3, d4
<1>7. OnlyRounds(d, d4)
  <2>1. ASSUME NEW x \in MultRegs(Nat), NEW y \in MultRegs(Nat), NEW z \in MultRegs(Nat),
               OnlyRounds(x, y), OnlyRounds(y, z)
        PROVE  OnlyRounds(x, z)
    BY <2>1 DEF OnlyRounds, MultRegs
  <2> QED
    BY <1>2, <1>3, <1>4, <1>5, <2>1
<1> QED
  BY <1>5, <1>6, <1>7

-----------------------------------------------------------------------------
(* A division in the pipeline.                                             *)

\* The inductive invariant: types, and DivisionUnderWay with the range of the
\* count.
Rounds ==
  /\ mu.state \in 0 .. DivBits /\ mu.state % 4 = 0
  /\ mu.state # 0 => Invariant(mu)

BTyped == WordsOK /\ Rounds

\* The registers of a division are not those that mult latches.
LEMMA LatchedDivides ==
  ASSUME WordsOK
  PROVE  /\ MultLatched.state = mu.state /\ MultLatched.quotient = mu.quotient
         /\ MultLatched.remainder = mu.remainder
         /\ MultLatched.dataA = mu.dataA /\ MultLatched.dataB = mu.dataB
         /\ MultLatched.resIsNeg = mu.resIsNeg /\ MultLatched.fwd = mu.fwd
         /\ MultLatched.result = mu.result
BY DEF MultLatched, WordsOK, MultRegs

\* The code divides 4 bits a cycle, and so the count of cycles is the count
\* of bits in another unit.
LEMMA Counts ==
  /\ DivBits \in Nat \ {0} /\ DivBits % 4 = 0 /\ DivBits \div 4 = DivSteps
  /\ DivBits >= 4
BY CyclesAssumption, DivStepsAssumption

\* A division starts with nothing found and all the bits of dataA to come.
LEMMA StartDivides ==
  ASSUME WordsOK, NEW l \in MultRegs(Nat), l.state = 0, StartsDivision(l)
  PROVE  LET d == [MultStart(l) EXCEPT !.state = DivBits]
         IN  d \in MultRegs(Nat) /\ d.state = DivBits /\ Invariant(d)
<1> DEFINE m == MultStart(l)
           d == [m EXCEPT !.state = DivBits]
<1>1. m \in MultRegs(Nat) /\ m.dataB # 0
  BY MultStartTyped
<1>2. m.quotient = 0 /\ m.remainder = 0
  <2>1. {"quotient", "remainder"} \subseteq DOMAIN l
    BY DEF MultRegs
  <2> QED
    BY <2>1 DEF MultStart
<1>3. /\ d \in MultRegs(Nat) /\ d.state = DivBits /\ d.quotient = 0
      /\ d.remainder = 0 /\ d.dataB # 0 /\ d.dataA \in Word /\ d.dataB \in Word
  <2> HIDE DEF m
  <2> QED
    BY <1>1, <1>2, Counts DEF MultRegs
<1> HIDE DEF d
<1>4. Invariant(d)
  <2> DEFINE a == d.dataA
             b == d.dataB
  <2>1. /\ Modulus \in Nat \ {0} /\ a \in 0 .. (Modulus - 1) /\ b \in Nat \ {0}
        /\ Weight[DivBits] = Modulus
    BY <1>3, SizesAssumption, WeightAssumption DEF Word
  <2> HIDE DEF a, b
  <2>2. 0 % Modulus = 0 /\ 0 \div Modulus = 0 /\ a \div Modulus = 0
    BY <2>1
  <2>3. a \div Modulus = (0 \div Modulus) * b + 0
    BY <2>1, <2>2
  <2> QED
    BY <1>3, <2>1, <2>2, <2>3 DEF Invariant, a, b
<1> QED
  BY <1>3, <1>4 DEF d

\* A cycle of a division, which may be its last.
LEMMA CycleTyped ==
  ASSUME NEW l \in MultRegs(Nat), l.state \in 4 .. DivBits, l.state % 4 = 0,
         Invariant(l)
  PROVE  LET m == MultCycle(l)
         IN  /\ m \in MultRegs(Nat) /\ m.state = l.state - 4
             /\ m.state \in 0 .. DivBits /\ m.state % 4 = 0 /\ Invariant(m)
<1> DEFINE d == FourBits(l)
           v == DivResult(d, d.quotient, d.remainder)
           m == MultCycle(l)
<1>1. d \in MultRegs(Nat) /\ d.state = l.state - 4 /\ Invariant(d)
  BY CycleDivides
<1>2. l.state - 4 \in 0 .. DivBits /\ (l.state - 4) % 4 = 0
  <2>1. l.state \in Nat
    BY DEF MultRegs
  <2> QED
    BY <2>1, Counts
<1>3. v \in Word
  <2> HIDE DEF d
  <2>1. d.quotient \in Word /\ d.remainder \in Word
    BY <1>1 DEF MultRegs
  <2> QED
    BY <1>1, <2>1, DivResultInWord
<1>4. m = IF d.state # 0 THEN [d EXCEPT !.valRet = FALSE]
          ELSE [d EXCEPT !.valRet = TRUE, !.result = v]
  BY DEF MultCycle
<1> HIDE DEF d, v, m
<1>5. /\ m \in MultRegs(Nat) /\ m.state = d.state /\ m.quotient = d.quotient
      /\ m.remainder = d.remainder /\ m.dataA = d.dataA /\ m.dataB = d.dataB
  BY <1>1, <1>3, <1>4 DEF MultRegs
<1>6. Invariant(m)
  BY <1>1, <1>5 DEF Invariant
<1> QED
  BY <1>1, <1>2, <1>5, <1>6 DEF m

\* mult as a whole.
LEMMA MultBitsTyped ==
  ASSUME BTyped, mult_bits
  PROVE  mu' \in MultRegs(Nat) /\ Rounds'
<1> DEFINE l == MultLatched
           m == MultStart(l)
<1>1. /\ WordsOK /\ l \in MultRegs(Nat) /\ l.state = mu.state
      /\ l.state \in 0 .. DivBits /\ l.state % 4 = 0
  BY MultLatchedTyped DEF BTyped, Rounds
<1>2. l.state # 0 => Invariant(l)
  BY <1>1, LatchedDivides DEF BTyped, Rounds, Invariant
<1>3. mu' = IF ~l.isM THEN [l EXCEPT !.valRet = FALSE]
            ELSE IF l.state = 0
            THEN [m EXCEPT !.state = IF StartsDivision(l) THEN DivBits ELSE 0]
            ELSE MultCycle(l)
  BY DEF mult_bits
<1>4. Rounds' <=> /\ mu'.state \in 0 .. DivBits /\ mu'.state % 4 = 0
                  /\ mu'.state # 0 => Invariant(mu')
  BY DEF Rounds, Invariant
<1> HIDE DEF l
<1>5. CASE ~l.isM
  <2>1. mu' \in MultRegs(Nat) /\ mu'.state = l.state /\ mu'.quotient = l.quotient
        /\ mu'.remainder = l.remainder /\ mu'.dataA = l.dataA /\ mu'.dataB = l.dataB
    BY <1>1, <1>3, <1>5 DEF MultRegs
  <2> QED
    BY <1>1, <1>2, <1>4, <2>1 DEF Invariant
<1>6. CASE l.isM /\ l.state = 0 /\ StartsDivision(l)
  <2>1. mu' = [m EXCEPT !.state = DivBits]
    BY <1>3, <1>6
  <2>2. mu' \in MultRegs(Nat) /\ mu'.state = DivBits /\ Invariant(mu')
    BY <1>1, <1>6, <2>1, StartDivides
  <2> QED
    BY <1>4, <2>2, Counts
<1>7. CASE l.isM /\ l.state = 0 /\ ~StartsDivision(l)
  <2>1. m \in MultRegs(Nat) /\ mu' = [m EXCEPT !.state = 0]
    BY <1>1, <1>3, <1>7, MultStartTyped
  <2> HIDE DEF m
  <2>2. mu' \in MultRegs(Nat) /\ mu'.state = 0
    BY <2>1 DEF MultRegs
  <2> QED
    BY <1>4, <2>2, Counts
<1>8. CASE l.isM /\ l.state # 0
  <2>1. l.state \in 4 .. DivBits
    BY <1>1, <1>8, Counts
  <2> QED
    BY <1>1, <1>2, <1>3, <1>4, <1>8, <2>1, CycleTyped
<1> QED
  BY <1>5, <1>6, <1>7, <1>8

\* BTyped is inductive.
LEMMA BInitTyped == Init => BTyped
<1> SUFFICES ASSUME Init PROVE BTyped
  OBVIOUS
<1>1. WordsOK
  BY InitTyped, TypesAreWords DEF Typed
<1>2. mu.state = 0
  BY DEF Init, mult_reset
<1> QED
  BY <1>1, <1>2, Counts DEF BTyped, Rounds

\* One step for each edge of the clock.
LEMMA BNextTyped == BTyped /\ [BNext]_vars => BTyped'
<1> SUFFICES ASSUME BTyped, [BNext]_vars PROVE BTyped'
  OBVIOUS
<1>0. WordsOK
  BY DEF BTyped
<1>1. CASE Posedge_bits
  <2>1. /\ phase' = "neg" /\ imem' = imem /\ ic' = ic
        /\ dmem' = dmem /\ dmem_dataOut' = dmem_dataOut
        /\ fetch /\ decode /\ exec /\ mult_bits /\ mems /\ wrbk
    BY <1>1 DEF Posedge_bits
  <2>2. IsProgram(imem)'
    BY <1>0, <2>1 DEF WordsOK, LatchesOK, IsProgram
  <2>3. mu' \in MultRegs(Nat) /\ Rounds'
    BY <2>1, MultBitsTyped
  <2>4. LatchesOK'
    BY <1>0, <2>1, <2>2, FetchTyped, DecodeTyped, ExecTyped, MemsTyped, WrbkTyped
    DEF WordsOK, LatchesOK
  <2> QED
    BY <2>3, <2>4 DEF BTyped, WordsOK, MultRegs
<1>2. CASE Negedge
  <2>1. /\ phase' = "pos" /\ icache /\ dcache
        /\ UNCHANGED <<imem, ft, dc, ex, mu, mm, wb, rf, out>>
    BY <1>2 DEF Negedge
  <2>2. IsProgram(imem)'
    BY <1>0, <2>1 DEF WordsOK, LatchesOK, IsProgram
  <2>3. LatchesOK'
    BY <1>0, <2>1, <2>2, IcacheTyped, DcacheTyped DEF WordsOK, LatchesOK
  <2> QED
    BY <2>1, <2>3 DEF BTyped, WordsOK, MultRegs, Rounds, Invariant
<1>3. CASE UNCHANGED vars
  BY <1>3 DEF vars, BTyped, WordsOK, LatchesOK, MultRegs, IsProgram, Rounds, Invariant
<1> QED
  BY <1>1, <1>2, <1>3 DEF BNext

\* Between two cycles of a division the quotient and remainder registers hold
\* those of the bits of dataA shifted in so far: in every execution of the
\* pipeline that divides bit by bit, for every width.
THEOREM DividesBitByBit == BSpec => []DivisionUnderWay
<1>1. BTyped => DivisionUnderWay
  BY DEF BTyped, Rounds, DivisionUnderWay
<1> QED
  BY <1>1, BInitTyped, BNextTyped, PTL DEF BSpec

-----------------------------------------------------------------------------
(* The refinement: a pipeline that divides in the last cycle.              *)

\* AbstractMult of any state of mult.
Abs(m) == [m EXCEPT !.state     = @ \div 4,
                    !.quotient  = IF m.state = 0 THEN @ ELSE 0,
                    !.remainder = IF m.state = 0 THEN @ ELSE 0]

\* What Pipeline sees of mult: all but the count of bits and the parts found.
LEMMA Seen ==
  ASSUME NEW m \in MultRegs(Nat), m.state % 4 = 0
  PROVE  /\ Abs(m) \in MultRegs(Nat) /\ Abs(m).state = m.state \div 4
         /\ Abs(m).state = 0 <=> m.state = 0
         /\ m.state = 0 => Abs(m) = m
         /\ Abs(m).isM = m.isM /\ Abs(m).valRet = m.valRet
         /\ Abs(m).result = m.result /\ Abs(m).f3 = m.f3
         /\ Abs(m).fwd = m.fwd /\ Abs(m).dataA = m.dataA
         /\ Abs(m).dataB = m.dataB
<1>1. /\ m.state \in Nat /\ m.state \div 4 \in Nat
      /\ (m.state \div 4 = 0) <=> (m.state = 0)
  <2>1. m.state \in Nat
    BY DEF MultRegs
  <2> QED
    BY <2>1
<1> DEFINE c == m.state \div 4
           q == IF m.state = 0 THEN m.quotient ELSE 0
           r == IF m.state = 0 THEN m.remainder ELSE 0
<1>2. q \in Word /\ r \in Word
  BY ParametersInWord DEF MultRegs
<1>3. Abs(m) = [m EXCEPT !.state = c, !.quotient = q, !.remainder = r]
  BY DEF Abs, MultRegs
<1>4. m.state = 0 => c = m.state /\ q = m.quotient /\ r = m.remainder
  BY <1>1
<1>5. m.state = 0 => Abs(m) = m
  <2> HIDE DEF c, q, r
  <2> QED
    BY <1>3, <1>4 DEF MultRegs
<1>6. /\ Abs(m) \in MultRegs(Nat) /\ Abs(m).state = c /\ Abs(m).isM = m.isM
      /\ Abs(m).valRet = m.valRet /\ Abs(m).result = m.result
      /\ Abs(m).f3 = m.f3 /\ Abs(m).fwd = m.fwd
      /\ Abs(m).dataA = m.dataA /\ Abs(m).dataB = m.dataB
  <2>1. c \in Nat
    BY <1>1
  <2> HIDE DEF c, q, r
  <2> QED
    BY <1>2, <1>3, <2>1 DEF MultRegs
<1> QED
  BY <1>1, <1>5, <1>6

\* The instance has its own copy of the arithmetic and of the decoding, which
\* is the same.
LEMMA SameArithmetic ==
  ASSUME NEW a, NEW b
  PROVE  /\ Cycles!Wrap(a) = Wrap(a)
         /\ Cycles!Add(a, b) = Add(a, b)
         /\ Cycles!Neg(a) = Neg(a)
         /\ Cycles!IsNeg(a) = IsNeg(a)
         /\ Cycles!Signed(a) = Signed(a)
         /\ Cycles!Mag(a) = Mag(a)
         /\ Cycles!SignedIf(a, b) = SignedIf(a, b)
         /\ Cycles!MinInt = MinInt
         /\ Cycles!OverflowDivisor = OverflowDivisor
<1>1. ASSUME NEW x PROVE Cycles!Wrap(x) = Wrap(x)
  BY DEF Cycles!Wrap, Wrap
<1>2. Cycles!Add(a, b) = Add(a, b)
  BY <1>1 DEF Cycles!Add, Add
<1>3. ASSUME NEW x PROVE Cycles!Neg(x) = Neg(x)
  BY <1>1 DEF Cycles!Neg, Neg
<1>4. Cycles!IsNeg(a) = IsNeg(a)
  BY DEF Cycles!IsNeg, IsNeg
<1>5. Cycles!Signed(a) = Signed(a)
  BY <1>4 DEF Cycles!Signed, Signed
<1>6. Cycles!Mag(a) = Mag(a)
  BY <1>3, <1>4 DEF Cycles!Mag, Mag
<1>7. Cycles!SignedIf(a, b) = SignedIf(a, b)
  BY <1>3 DEF Cycles!SignedIf, SignedIf
<1>8. Cycles!MinInt = MinInt /\ Cycles!OverflowDivisor = OverflowDivisor
  BY DEF Cycles!MinInt, MinInt, Cycles!OverflowDivisor, OverflowDivisor
<1> QED
  BY <1>1, <1>2, <1>3, <1>4, <1>5, <1>6, <1>7, <1>8

\* Decoding takes no part of mult either.
LEMMA SameDecoding ==
  /\ Cycles!M_DIV = M_DIV /\ Cycles!M_DIVU = M_DIVU
  /\ Cycles!M_REM = M_REM /\ Cycles!M_REMU = M_REMU
  /\ \A i : Cycles!IsM(i) = IsM(i)
  /\ \A i : Cycles!IsPrint(i) = IsPrint(i)
  /\ \A f3 : Cycles!IsDivision(f3) = IsDivision(f3)
  /\ \A f3 : Cycles!IsSignedDivision(f3) = IsSignedDivision(f3)
<1>1. /\ Cycles!M_DIV = M_DIV /\ Cycles!M_DIVU = M_DIVU
      /\ Cycles!M_REM = M_REM /\ Cycles!M_REMU = M_REMU
  BY DEF Cycles!M_DIV, M_DIV, Cycles!M_DIVU, M_DIVU, Cycles!M_REM, M_REM,
         Cycles!M_REMU, M_REMU
<1> QED
  BY <1>1 DEF Cycles!IsM, IsM, Cycles!IsPrint, IsPrint,
              Cycles!IsDivision, IsDivision, Cycles!IsSignedDivision, IsSignedDivision

\* Nor does the way the memories and the output are written depend on mult.
LEMMA SameMemories ==
  ASSUME NEW m, NEW f3, NEW a, NEW d
  PROVE  /\ Cycles!ReadMem(m, f3, a) = ReadMem(m, f3, a)
         /\ Cycles!WriteMem(m, f3, a, d) = WriteMem(m, f3, a, d)
         /\ Cycles!Printed(m, a) = Printed(m, a)
<1>1. Cycles!MaskOf(f3) = MaskOf(f3) /\ Cycles!Lane(a) = Lane(a) /\ Cycles!Cell(a) = Cell(a)
  BY DEF Cycles!MaskOf, MaskOf, Cycles!Lane, Lane, Cycles!Cell, Cell
<1> QED
  BY <1>1 DEF Cycles!ReadMem, ReadMem, Cycles!WriteMem, WriteMem, Cycles!Printed, Printed

\* The signals that the two pipelines compute from mult are the same.
LEMMA SameSignals ==
  ASSUME BTyped
  PROVE  /\ Cycles!localStall <=> localStall
         /\ Cycles!Frozen <=> Frozen
         /\ Cycles!result_ex = result_ex
         /\ Cycles!result_ex_ex = result_ex_ex
         /\ Cycles!result_mem_mem = result_mem_mem
         /\ Cycles!forward1 = forward1 /\ Cycles!forward2 = forward2
         /\ Cycles!forward3 = forward3
         /\ Cycles!stallSignals <=> stallSignals
         /\ Cycles!Advance <=> Advance
<1>1. /\ AbstractMult.isM = mu.isM /\ AbstractMult.valRet = mu.valRet
      /\ AbstractMult.result = mu.result
      /\ AbstractMult.state = 0 <=> mu.state = 0
  <2>1. AbstractMult = Abs(mu)
    BY DEF AbstractMult, Abs
  <2> QED
    BY <2>1, Seen DEF BTyped, WordsOK, Rounds
<1>2. Cycles!localStall <=> localStall
  BY <1>1 DEF Cycles!localStall, localStall
<1>3. Cycles!Frozen <=> Frozen
  BY <1>2 DEF Cycles!Frozen, Frozen
<1>4. Cycles!result_ex = result_ex
  BY SameArithmetic DEF Cycles!result_ex, result_ex
<1>5. Cycles!result_ex_ex = result_ex_ex
  BY <1>1, <1>4 DEF Cycles!result_ex_ex, result_ex_ex
<1>6. Cycles!result_mem_mem = result_mem_mem
  BY DEF Cycles!result_mem_mem, result_mem_mem
<1>7. Cycles!useRd_ex <=> useRd_ex
  BY DEF Cycles!useRd_ex, useRd_ex
<1>8. ASSUME NEW use, NEW rs PROVE Cycles!Forward(use, rs) = Forward(use, rs)
  BY <1>2, <1>7 DEF Cycles!Forward, Forward
<1>9. /\ Cycles!useRs1_dc = useRs1_dc /\ Cycles!useRs2_dc = useRs2_dc
      /\ Cycles!useRs3_dc = useRs3_dc
  BY DEF Cycles!useRs1_dc, useRs1_dc, Cycles!useRs2_dc, useRs2_dc,
         Cycles!useRs3_dc, useRs3_dc
<1>10. /\ Cycles!forward1 = forward1 /\ Cycles!forward2 = forward2
       /\ Cycles!forward3 = forward3
  BY <1>8, <1>9 DEF Cycles!forward1, forward1, Cycles!forward2, forward2,
                    Cycles!forward3, forward3
<1>11. Cycles!stallSignals <=> stallSignals
  BY <1>10 DEF Cycles!stallSignals, stallSignals
<1>12. Cycles!Advance <=> Advance
  BY <1>3, <1>11 DEF Cycles!Advance, Advance
<1> QED
  BY <1>2, <1>3, <1>4, <1>5, <1>6, <1>10, <1>11, <1>12

\* And those that they compute without it, which decode and exec latch.
LEMMA SameWithoutMult ==
  /\ Cycles!isBranch_dc = isBranch_dc /\ Cycles!nextPC_dc = nextPC_dc
  /\ Cycles!isBranch_ex = isBranch_ex /\ Cycles!nextPC_ex = nextPC_ex
  /\ Cycles!rd_dc = rd_dc /\ Cycles!useRd_dc = useRd_dc
  /\ Cycles!lhs_dc = lhs_dc /\ Cycles!rhs_dc = rhs_dc
  /\ Cycles!datac_dc = datac_dc /\ Cycles!useRd_ex = useRd_ex
<1>1. Cycles!isBranch_dc = isBranch_dc /\ Cycles!nextPC_dc = nextPC_dc
  BY SameArithmetic DEF Cycles!isBranch_dc, isBranch_dc, Cycles!nextPC_dc, nextPC_dc
<1>2. Cycles!isBranch_ex = isBranch_ex
  BY DEF Cycles!isBranch_ex, isBranch_ex
<1>3. Cycles!nextPC_ex = nextPC_ex
  BY SameArithmetic DEF Cycles!nextPC_ex, nextPC_ex
<1>4. Cycles!rd_dc = rd_dc
  BY DEF Cycles!rd_dc, rd_dc
<1>5. Cycles!useRd_dc = useRd_dc
  BY <1>4 DEF Cycles!useRd_dc, useRd_dc
<1>6. Cycles!lhs_dc = lhs_dc
  BY SameArithmetic DEF Cycles!lhs_dc, lhs_dc
<1>7. Cycles!rhs_dc = rhs_dc
  BY DEF Cycles!rhs_dc, rhs_dc
<1>8. Cycles!datac_dc = datac_dc /\ Cycles!useRd_ex = useRd_ex
  BY DEF Cycles!datac_dc, datac_dc, Cycles!useRd_ex, useRd_ex
<1> QED
  BY <1>1, <1>2, <1>3, <1>4, <1>5, <1>6, <1>7, <1>8

\* The operands that exec and mult take are the same.
LEMMA SameOperands ==
  ASSUME BTyped, NEW fwd, NEW e, NEW d
  PROVE  Cycles!Operand(fwd, e, d) = Operand(fwd, e, d)
BY SameSignals DEF Cycles!Operand, Operand

\* The threads around mult do the same.
LEMMA SameThreads ==
  ASSUME BTyped
  PROVE  /\ fetch => Cycles!fetch
         /\ decode => Cycles!decode
         /\ exec => Cycles!exec
         /\ mems => Cycles!mems
         /\ wrbk => Cycles!wrbk
<1>1. fetch => Cycles!fetch
  BY SameSignals, SameWithoutMult DEF Cycles!fetch, fetch
<1>2. decode => Cycles!decode
  BY SameSignals, SameWithoutMult DEF Cycles!decode, decode
<1>3. exec => Cycles!exec
  BY SameSignals, SameWithoutMult, SameOperands DEF Cycles!exec, exec
<1>4. mems => Cycles!mems
  BY SameSignals, SameWithoutMult DEF Cycles!mems, mems
<1>5. wrbk => Cycles!wrbk
  BY SameSignals, SameDecoding, SameMemories DEF Cycles!wrbk, wrbk
<1> QED
  BY <1>1, <1>2, <1>3, <1>4, <1>5

\* So does what mult latches.
LEMMA SameLatched ==
  ASSUME BTyped
  PROVE  /\ Cycles!MultLatched = Abs(MultLatched)
         /\ MultLatched \in MultRegs(Nat) /\ MultLatched.state = mu.state
<1> DEFINE x == Operand(forward1, result_ex, lhs_dc)
           y == Operand(forward2, result_ex, rhs_dc)
           l == MultLatched
<1>1. WordsOK /\ mu \in MultRegs(Nat)
  BY DEF BTyped, WordsOK
<1>2. l \in MultRegs(Nat) /\ l.state = mu.state
  BY <1>1, MultLatchedTyped
<1>3. /\ Cycles!Operand(Cycles!forward1, Cycles!result_ex, Cycles!lhs_dc) = x
      /\ Cycles!Operand(Cycles!forward2, Cycles!result_ex, Cycles!rhs_dc) = y
  BY SameSignals, SameWithoutMult, SameOperands
<1>4. AbstractMult = Abs(mu)
  BY DEF AbstractMult, Abs
<1>5. CASE ~Advance
  BY <1>2, <1>4, <1>5, SameSignals DEF Cycles!MultLatched, MultLatched
<1>6. CASE Advance
  <2> DEFINE i == IsM(dc.instr)
             f == dc.instr.f3
  <2>1. /\ Cycles!MultLatched
             = [Abs(mu) EXCEPT !.isM = i, !.f3 = f, !.lhs = x, !.rhs = y]
        /\ l = [mu EXCEPT !.isM = i, !.f3 = f, !.lhs = x, !.rhs = y]
    BY <1>3, <1>4, <1>6, SameSignals, SameDecoding DEF Cycles!MultLatched, MultLatched
  <2> HIDE DEF i, f, x, y, l
  <2>2. Abs([mu EXCEPT !.isM = i, !.f3 = f, !.lhs = x, !.rhs = y])
          = [Abs(mu) EXCEPT !.isM = i, !.f3 = f, !.lhs = x, !.rhs = y]
    BY <1>1 DEF Abs, MultRegs
  <2> QED
    BY <1>2, <2>1, <2>2 DEF l
<1> QED
  BY <1>5, <1>6

\* The result shown is the same function of what is found.
LEMMA SameResult ==
  ASSUME NEW l, NEW q, NEW r
  PROVE  Cycles!DivResult(l, q, r) = DivResult(l, q, r)
BY SameArithmetic, SameDecoding DEF Cycles!DivResult, DivResult

\* A division starts, or a result is shown at once, from the same registers.
LEMMA SameStart ==
  ASSUME BTyped, mu.state = 0, NEW l
  PROVE  Cycles!MultStart(l) = MultStart(l)
<1>1. AbstractMult = mu
  <2>1. AbstractMult = Abs(mu)
    BY DEF AbstractMult, Abs
  <2> QED
    BY <2>1, Seen DEF BTyped, WordsOK, Rounds
<1>2. Cycles!ForwardFlags(l) = ForwardFlags(l)
  BY <1>1, SameArithmetic DEF Cycles!ForwardFlags, ForwardFlags
<1>3. Cycles!Reuses(l) = Reuses(l)
  BY <1>2, SameDecoding DEF Cycles!Reuses, Reuses
<1>4. Cycles!DivByZero(l) = DivByZero(l) /\ Cycles!DivOverflow(l) = DivOverflow(l)
  BY SameArithmetic, SameDecoding
  DEF Cycles!DivByZero, DivByZero, Cycles!DivOverflow, DivOverflow
<1>5. Cycles!StartsDivision(l) = StartsDivision(l)
  BY <1>3, <1>4, SameDecoding DEF Cycles!StartsDivision, StartsDivision
<1> QED
  BY <1>1, <1>2, <1>4, <1>5, SameArithmetic, SameDecoding, SameResult, ZenonT(40)
  DEF Cycles!MultStart, MultStart

\* A cycle of a division is a cycle of the count, and the last cycle has found
\* the quotient and the remainder.
LEMMA SameCycle ==
  ASSUME NEW l \in MultRegs(Nat), l.state \in 4 .. DivBits, l.state % 4 = 0,
         Invariant(l)
  PROVE  Abs(MultCycle(l)) = MultIterate(Abs(l))
<1> DEFINE d == FourBits(l)
           k == Abs(l)
           q == l.dataA \div l.dataB
           r == l.dataA % l.dataB
<1>1. /\ d \in MultRegs(Nat) /\ d.state = l.state - 4 /\ OnlyRounds(l, d)
      /\ Invariant(d)
  BY CycleDivides
<1>2. /\ d.dataA = l.dataA /\ d.dataB = l.dataB /\ d.f3 = l.f3 /\ d.lhs = l.lhs
      /\ d.resIsNeg = l.resIsNeg
      /\ l = [l EXCEPT !.state = l.state]
  <2> HIDE DEF d
  <2> QED
    BY <1>1 DEF OnlyRounds, MultRegs
<1>3. /\ l.state \in Nat /\ (l.state - 4) \div 4 = (l.state \div 4) - 1
      /\ l.state \div 4 \in Nat \ {0}
      /\ l.state - 4 # 0 <=> l.state \div 4 > 1
  <2>1. l.state \in Nat
    BY DEF MultRegs
  <2> QED
    BY <2>1, Counts
<1>4. k = [l EXCEPT !.state = l.state \div 4, !.quotient = 0, !.remainder = 0]
  <2>1. l.state # 0
    BY <1>3
  <2> QED
    BY <2>1 DEF Abs
<1>5. CASE d.state # 0
  <2> DEFINE m == [d EXCEPT !.valRet = FALSE]
  <2>1. MultCycle(l) = m
    BY <1>5 DEF MultCycle
  <2>2. m.state = l.state - 4 /\ m.state # 0
    BY <1>1, <1>5 DEF MultRegs
  <2>3. Abs(m) = [m EXCEPT !.state = (l.state \div 4) - 1, !.quotient = 0, !.remainder = 0]
    BY <1>1, <1>3, <2>2 DEF Abs, MultRegs
  <2>4. MultIterate(k) = [k EXCEPT !.state = (l.state \div 4) - 1, !.valRet = FALSE]
    <3>1. k.state = l.state \div 4
      BY <1>4 DEF MultRegs
    <3> QED
      BY <1>1, <1>3, <1>5, <3>1 DEF MultIterate
  <2> DEFINE c == (l.state \div 4) - 1
  <2>5. Abs(m) = [l EXCEPT !.state = c, !.quotient = 0, !.remainder = 0, !.valRet = FALSE]
    <3> HIDE DEF d, c
    <3> QED
      BY <1>1, <2>3 DEF OnlyRounds, MultRegs, c
  <2>6. MultIterate(k) = [l EXCEPT !.state = c, !.quotient = 0, !.remainder = 0,
                                   !.valRet = FALSE]
    <3> HIDE DEF c, k
    <3> QED
      BY <1>4, <2>4 DEF MultRegs, c
  <2> QED
    BY <2>1, <2>5, <2>6
<1>6. CASE d.state = 0
  <2> DEFINE v == DivResult(d, d.quotient, d.remainder)
             m == [d EXCEPT !.valRet = TRUE, !.result = v]
             n == [l EXCEPT !.state = 0, !.quotient = q, !.remainder = r,
                            !.valRet = TRUE, !.result = v]
  <2>1. MultCycle(l) = m
    BY <1>6 DEF MultCycle
  <2>2. m.state = 0
    BY <1>1, <1>6 DEF MultRegs
  <2>3. Abs(m) = m
    <3>1. m \in MultRegs(Nat) /\ m.state % 4 = 0
      BY <2>1, CycleTyped
    <3> HIDE DEF m
    <3> QED
      BY <2>2, <3>1, Seen
  <2>4. d.quotient = q /\ d.remainder = r
    <3> HIDE DEF d
    <3>1. /\ d.dataA = d.quotient * d.dataB + d.remainder
          /\ d.remainder \in 0 .. (d.dataB - 1) /\ d.dataB \in Nat \ {0}
          /\ d.quotient \in Int /\ d.dataA \in Int
      <4>1. Weight[0] = 1
        BY WeightAssumption
      <4>2. /\ d.dataA \in Nat /\ d.quotient \in Nat /\ d.dataB \in Nat
            /\ d.remainder \in Nat
        BY <1>1, SizesAssumption DEF MultRegs, Word
      <4>3. /\ d.dataA \div 1 = (d.quotient \div 1) * d.dataB + d.remainder
            /\ d.remainder < d.dataB
        BY <1>1, <1>6, <4>1 DEF Invariant
      <4>4. d.dataA \div 1 = d.dataA /\ d.quotient \div 1 = d.quotient
        BY <4>2
      <4> QED
        BY <4>2, <4>3, <4>4
    <3> DEFINE a == d.dataA
               b == d.dataB
               x == d.quotient
               y == d.remainder
    <3>2. a = b * x + y
      BY <3>1
    <3>3. a \div b = x /\ a % b = y
      <4>1. a \in Int /\ b \in Nat \ {0} /\ x \in Int /\ y \in 0 .. (b - 1)
        BY <3>1
      <4> HIDE DEF a, b, x, y
      <4> QED
        BY <3>2, <4>1, DivUnique
    <3> QED
      BY <1>2, <3>3
  <2>5. m = n
    <3> HIDE DEF d, v, q, r
    <3> QED
      BY <1>1, <1>6, <2>4 DEF OnlyRounds, MultRegs
  <2>6. MultIterate(k) = [k EXCEPT !.state = 0, !.quotient = q, !.remainder = r,
                                   !.valRet = TRUE, !.result = DivResult(k, q, r)]
    <3>1. k.state = l.state \div 4 /\ k.dataA = l.dataA /\ k.dataB = l.dataB
      BY <1>4 DEF MultRegs
    <3>2. ~(k.state > 1)
      BY <1>1, <1>3, <1>6, <3>1
    <3> QED
      BY <3>1, <3>2 DEF MultIterate
  <2>7. DivResult(k, q, r) = v
    <3>1. k.f3 = d.f3 /\ k.lhs = d.lhs /\ k.resIsNeg = d.resIsNeg
      BY <1>2, <1>4 DEF MultRegs
    <3> QED
      BY <2>4, <3>1 DEF DivResult
  <2>8. MultIterate(k) = n
    <3> HIDE DEF k, v, q, r, d
    <3> QED
      BY <1>4, <2>6, <2>7 DEF MultRegs
  <2> QED
    BY <2>1, <2>3, <2>5, <2>8
<1> QED
  BY <1>5, <1>6

\* mult does what the mult of Pipeline does.
LEMMA SameMult ==
  ASSUME BTyped, mult_bits
  PROVE  Cycles!mult
<1> DEFINE l == MultLatched
           k == Abs(l)
           m == MultStart(l)
<1>1. /\ WordsOK /\ l \in MultRegs(Nat) /\ l.state = mu.state
      /\ l.state \in 0 .. DivBits /\ l.state % 4 = 0
      /\ Cycles!MultLatched = k
  BY SameLatched DEF BTyped, Rounds
<1>2. l.state # 0 => Invariant(l)
  BY <1>1, LatchedDivides DEF BTyped, Rounds, Invariant
<1>3. mu' = IF ~l.isM THEN [l EXCEPT !.valRet = FALSE]
            ELSE IF l.state = 0
            THEN [m EXCEPT !.state = IF StartsDivision(l) THEN DivBits ELSE 0]
            ELSE MultCycle(l)
  BY DEF mult_bits
<1>4. Cycles!mult <=>
        (Abs(mu') = IF ~k.isM THEN [k EXCEPT !.valRet = FALSE]
                    ELSE IF k.state = 0 THEN Cycles!MultStart(k)
                    ELSE Cycles!MultIterate(k))
  <2> HIDE DEF k
  <2> QED
    BY <1>1 DEF Cycles!mult, AbstractMult, Abs
<1> HIDE DEF l
<1>5. /\ k.isM = l.isM /\ (k.state = 0 <=> l.state = 0)
      /\ l.state = 0 => k = l
  BY <1>1, Seen
<1>6. CASE ~l.isM
  <2>1. Abs([l EXCEPT !.valRet = FALSE]) = [k EXCEPT !.valRet = FALSE]
    BY <1>1 DEF Abs, MultRegs
  <2> HIDE DEF k, m
  <2>2. mu' = [l EXCEPT !.valRet = FALSE]
    BY <1>3, <1>6
  <2>3. Cycles!mult <=> Abs(mu') = [k EXCEPT !.valRet = FALSE]
    BY <1>4, <1>5, <1>6
  <2> QED
    BY <2>1, <2>2, <2>3, Zenon
<1>7. CASE l.isM /\ l.state = 0
  <2> DEFINE c == IF StartsDivision(l) THEN DivBits ELSE 0
             n == [m EXCEPT !.state = c]
  <2>1. /\ m \in MultRegs(Nat)
        /\ m.state = IF StartsDivision(l) THEN DivSteps ELSE 0
        /\ StartsDivision(l) => m.quotient = 0 /\ m.remainder = 0
    <3>1. {"quotient", "remainder"} \subseteq DOMAIN l
      BY <1>1 DEF MultRegs
    <3>2. StartsDivision(l) => m.quotient = 0 /\ m.remainder = 0
      BY <3>1 DEF MultStart
    <3> QED
      BY <1>1, <1>7, <3>2, MultStartTyped
  <2>2. c \in Nat /\ c \div 4 = m.state /\ (c # 0 <=> StartsDivision(l))
    BY <2>1, Counts
  <2> HIDE DEF m, c
  <2>3. Abs(n) = m
    BY <2>1, <2>2 DEF Abs, MultRegs
  <2>4. Cycles!MultStart(k) = m
    BY <1>1, <1>5, <1>7, SameStart DEF m
  <2>5. mu' = n
    BY <1>3, <1>7 DEF c
  <2> HIDE DEF n, k
  <2> QED
    BY <1>4, <1>5, <1>7, <2>3, <2>4, <2>5
<1>8. CASE l.isM /\ l.state # 0
  <2>1. l.state \in 4 .. DivBits
    BY <1>1, <1>8, Counts
  <2>2. Abs(MultCycle(l)) = MultIterate(k)
    BY <1>1, <1>2, <1>8, <2>1, SameCycle
  <2>3. Cycles!MultIterate(k) = MultIterate(k)
    BY SameResult DEF Cycles!MultIterate, MultIterate
  <2> HIDE DEF k, m
  <2>4. mu' = MultCycle(l)
    BY <1>3, <1>8
  <2>5. Cycles!mult <=> Abs(mu') = Cycles!MultIterate(k)
    BY <1>4, <1>5, <1>8
  <2> QED
    BY <2>2, <2>3, <2>4, <2>5, Zenon
<1> QED
  BY <1>6, <1>7, <1>8

\* The reset is the same.
LEMMA SameInit == Init => Cycles!Init
<1> SUFFICES ASSUME Init PROVE Cycles!Init
  OBVIOUS
<1>1. mu.state = 0 /\ mu \in MultRegs(Nat) /\ AbstractMult = mu
  <2>1. BTyped /\ mu.state = 0
    BY BInitTyped DEF Init, mult_reset
  <2>2. AbstractMult = Abs(mu)
    BY DEF AbstractMult, Abs
  <2> QED
    BY <2>1, <2>2, Seen DEF BTyped, WordsOK, Rounds
<1>2. Cycles!NoInstr = NoInstr /\ Cycles!InitRf = InitRf
  BY DEF Cycles!NoInstr, NoInstr, Cycles!InitRf, InitRf, Cycles!Reg, Reg
<1>3. /\ Cycles!fetch_reset /\ Cycles!decode_reset /\ Cycles!exec_reset
      /\ Cycles!mems_reset /\ Cycles!wrbk_reset /\ Cycles!icache_reset
      /\ Cycles!dcache_reset
  BY <1>2 DEF Init, fetch_reset, decode_reset, exec_reset, mems_reset, wrbk_reset,
              icache_reset, dcache_reset, Cycles!fetch_reset, Cycles!decode_reset,
              Cycles!exec_reset, Cycles!mems_reset, Cycles!wrbk_reset,
              Cycles!icache_reset, Cycles!dcache_reset
<1>4. Cycles!mult_reset
  BY <1>1 DEF Init, mult_reset, Cycles!mult_reset
<1> QED
  BY <1>3, <1>4 DEF Init, Cycles!Init

\* An edge is the same edge.
LEMMA SameEdges == BTyped /\ [BNext]_vars => [Cycles!Next]_(Cycles!vars)
<1> SUFFICES ASSUME BTyped, [BNext]_vars PROVE [Cycles!Next]_(Cycles!vars)
  OBVIOUS
<1>1. CASE Posedge_bits
  <2>1. /\ Cycles!fetch /\ Cycles!decode /\ Cycles!exec /\ Cycles!mult
        /\ Cycles!mems /\ Cycles!wrbk
    BY <1>1, SameThreads, SameMult DEF Posedge_bits
  <2> QED
    BY <1>1, <2>1 DEF Posedge_bits, Cycles!Posedge, Cycles!Next
<1>2. CASE Negedge
  <2>1. Cycles!icache
    BY <1>2, SameArithmetic DEF Negedge, icache, Cycles!icache, EndOfProgram,
                                Cycles!EndOfProgram
  <2>2. Cycles!dcache
    BY <1>2, SameMemories DEF Negedge, dcache, Cycles!dcache
  <2>3. AbstractMult' = AbstractMult
    BY <1>2 DEF Negedge, AbstractMult
  <2> QED
    BY <1>2, <2>1, <2>2, <2>3 DEF Negedge, Cycles!Negedge, Cycles!Next
<1>3. CASE UNCHANGED vars
  BY <1>3 DEF vars, Cycles!vars, AbstractMult
<1> QED
  BY <1>1, <1>2, <1>3 DEF BNext

\* The pipeline that divides four bits a cycle implements the one that divides
\* in the last cycle: whatever is proved of Pipeline, for every DivSteps, holds
\* of the loop of mult.
THEOREM DividerRefines == BSpec => DividesInCycles
<1>1. BSpec => []BTyped
  BY BInitTyped, BNextTyped, PTL DEF BSpec
<1>2. Init => Cycles!Init
  BY SameInit
<1>3. BTyped /\ [BNext]_vars => [Cycles!Next]_(Cycles!vars)
  BY SameEdges
<1> QED
  BY <1>1, <1>2, <1>3, PTL DEF BSpec, DividesInCycles, Cycles!Spec
=============================================================================
