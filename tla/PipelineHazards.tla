--------------------------- MODULE PipelineHazards ---------------------------
(***************************************************************************)
(* The pipeline does not implement Isa for every program. This module      *)
(* names the situations in which it loses a value or an instruction, one   *)
(* by one, and keeps in a history variable whether one of them has         *)
(* occurred. Up to the first the pipeline is exact (ExactUntilLost): there *)
(* is no other.                                                            *)
(***************************************************************************)
EXTENDS PipelineRefinement

VARIABLES
  lost,    \* one of the situations below has occurred
  foreign  \* dataA and dataB of mult are not those of quotient and remainder

hvars == <<vars, lost, foreign>>

\* An operand of the instruction in decode is the value in wrbk.
OperandInWb ==
  \E u \in {<<useRs1_dc, dc.instr.rs1>>, <<useRs2_dc, dc.instr.rs2>>,
            <<useRs3_dc, dc.instr.rs2>>} :
    /\ u[1] /\ wb.useRd /\ u[2] = wb.rd
    /\ ~(useRd_ex /\ u[2] = ex.rd)
    /\ ~(mm.useRd /\ u[2] = mm.rd)

\* A load-use stall holds decode while the value leaves wrbk; decode does not
\* read registerFile again.
LoadUseDropsWb == ~Frozen /\ stallSignals /\ OperandInWb

\* While the divider runs, wrbk overwrites the value it forwards with the
\* result in mems.
DivisionDropsWb == localStall /\ OperandInWb

\* The divider starts while a load is in mems: dmem_flag is withdrawn, and the
\* load's address is taken for its data.
DivisionDropsLoad ==
  localStall /\ mm.opType = "LOAD" /\ mm.useRd

\* fetch comes to RAADDRESS other than by a jump or branch of exec: icache ends
\* the program with the instructions before it in decode and exec.
EndOvertakes ==
  /\ Advance /\ ~isBranch_ex
  /\ RAADDRESS = IF isBranch_dc THEN nextPC_dc ELSE ic.addOut

\* mult takes result_ex, which an M instruction does not set, for the result
\* of the M instruction in exec.
MulAfterMul ==
  /\ Advance /\ IsM(dc.instr) /\ mu.valRet /\ ex.we
  /\ "EX" \in {forward1, forward2}

\* mems does not ask whether a print is enabled.
SquashedPrint == ~Frozen /\ IsPrint(ex) /\ ~ex.we

\* mult keeps the quotient of an earlier division while every M instruction
\* overwrites the operands it is looked up by.
Answers(l) == l.isM /\ l.state = 0
ReusesQuotient(l) ==
  IsDivision(l.f3) /\ ~DivByZero(l) /\ ~DivOverflow(l) /\ Reuses(l)
StaleQuotient ==
  foreign /\ LET l == MultLatched IN Answers(l) /\ ReusesQuotient(l)

Loses == \/ LoadUseDropsWb \/ DivisionDropsWb \/ DivisionDropsLoad
         \/ EndOvertakes \/ MulAfterMul \/ SquashedPrint \/ StaleQuotient

-----------------------------------------------------------------------------
HInit == Init /\ lost = FALSE /\ foreign = TRUE

HPosedge ==
  /\ Posedge
  /\ lost' = (lost \/ Loses)
  /\ foreign' = LET l == MultLatched
                IN  IF ~Answers(l) \/ ReusesQuotient(l) THEN foreign
                    ELSE ~StartsDivision(l)

HNegedge == Negedge /\ UNCHANGED <<lost, foreign>>

HNext == HPosedge \/ HNegedge

HSpec == HInit /\ [][HNext]_hvars

HFairSpec == HSpec /\ WF_hvars(HNext)

\* Until one of the named situations occurs, the pipeline is exact: every
\* step is a step of the sequential machine or leaves its state alone.
ExactUntilLost == I!Init /\ [][lost' \/ I!Next]_<<absVars, lost>>

\* When stallIm freezes the core (the simulation exits there) the program has
\* come to its end, and everything it stored and printed has got out.
HaltsComplete ==
  ic.stall /\ ~lost => /\ AbsPc = RAADDRESS
                       /\ AbsMem = dmem
                       /\ AbsOut = out

-----------------------------------------------------------------------------
(* Programs that lose nothing: conditions on neighbouring words of a       *)
(* program, one for each situation, under which it cannot occur whatever   *)
(* the data are. i, j and k are the words at three successive addresses.   *)

After(a) == Add(a, InstrBytes)
WordAt(p, a) == p[a \div InstrBytes]

Reads(i) ==
  (IF i.op \in {"JALR", "BR", "LD", "ST", "OPI", "OP"} THEN {i.rs1} ELSE {})
  \cup (IF i.op \in {"BR", "OP", "ST"} THEN {i.rs2} ELSE {})
ReadsOnly(i, r) == Reads(i) \subseteq {r, 0}
IsDivide(i) == IsM(i) /\ IsDivision(i.f3)
Redirects(i) == i.op = "BR" \/ (i.op = "JALR" /\ i.f3 = 0)

\* LoadUseDropsWb: what waits for a load reads nothing else.
LoadsApart(i, j) ==
  i.op = "LD" /\ i.rd # 0 /\ i.rd \in Reads(j) => ReadsOnly(j, i.rd)

\* DivisionDropsWb, DivisionDropsLoad: what is behind a division reads nothing
\* but its result, and a load is not in front of one, unless the division waits
\* for it. A squashed division, k or j, divides as well.
DivisionsApart(i, j, k) ==
  /\ IsDivide(i) => ReadsOnly(j, i.rd)
  /\ i.op = "LD" /\ IsDivide(j) => i.rd \in Reads(j) \cup {0}
  /\ Redirects(i) => ~IsDivide(k)
  /\ i.op = "JAL" => ~IsDivide(j)

\* MulAfterMul: no M instruction reads the result of the one before it.
ProductsApart(i, j) == IsM(i) /\ IsM(j) /\ i.rd # 0 => i.rd \notin Reads(j)

\* SquashedPrint: no print where a jump or branch squashes.
PrintsApart(i, j, k) ==
  /\ Redirects(i) => ~IsPrint(j) /\ ~IsPrint(k)
  /\ i.op = "JAL" => ~IsPrint(j)

\* EndOvertakes: no JAL to RAADDRESS or in front of it.
JumpsAway(i, a) ==
  i.op = "JAL" => RAADDRESS \notin {Add(a, i.imm), After(Add(a, i.imm))}

\* StaleQuotient: no products, or no division that takes a quotient again.
QuotientsApart(p) ==
  \/ \A a \in DOMAIN p : IsM(p[a]) => IsDivision(p[a].f3)
  \/ \A a \in DOMAIN p : IsDivide(p[a]) => p[a].f3 = M_DIV

Tame(p) ==
  /\ \A a \in Word :
       LET i == WordAt(p, a)
           j == WordAt(p, After(a))
           k == WordAt(p, After(After(a)))
       IN  /\ LoadsApart(i, j) /\ DivisionsApart(i, j, k) /\ ProductsApart(i, j)
           /\ PrintsApart(i, j, k) /\ JumpsAway(i, a)
  /\ QuotientsApart(p)

\* Nor does a program count up to RAADDRESS, as it is not in a program's memory.
StaysAway ==
  RAADDRESS \notin {After(AbsPc), After(After(AbsPc)), After(After(After(AbsPc)))}

\* In a tame program none of the seven situations ever occurs: what the
\* conditions rule out between neighbouring words cannot come about by stalls,
\* bubbles, squashes, redirections and divisions between others.
TameLosesNothing ==
  phase = "pos" /\ ~lost /\ Loses /\ StaysAway => ~Tame(imem)
=============================================================================
