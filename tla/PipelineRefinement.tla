------------------------- MODULE PipelineRefinement -------------------------
(***************************************************************************)
(* What the pipeline promises: it executes the program as Isa does.        *)
(*                                                                         *)
(* An instruction counts as executed at the rising edge that moves it from *)
(* exec to mems. From then on its effect is certain: the register it is    *)
(* going to write, the word it is going to store and the line it is going  *)
(* to print are in mm, and the abstract state takes them from there until  *)
(* they have reached registerFile, the data memory and the output.         *)
(***************************************************************************)
EXTENDS Pipeline

\* The next instruction to execute: the oldest enabled one before mems.
AbsPc == IF ex.we THEN ex.pc ELSE IF dc.we THEN dc.pc ELSE ft.address

\* What wrbk will read as the result of the instruction in mems. Until the
\* falling edge a load has not been served.
PendingResult == IF phase = "neg" /\ mm.opType = "LOAD"
                 THEN ReadMem(dmem, mm.f3, mm.result)
                 ELSE result_mem_mem

AbsRegs == IF mm.rd # 0 /\ mm.we /\ mm.useRd
           THEN [rf EXCEPT ![mm.rd] = PendingResult] ELSE rf

AbsMem == IF phase = "neg" /\ mm.opType = "STORE"
          THEN WriteMem(dmem, mm.f3, mm.result, mm.datac) ELSE dmem

AbsOut == IF IsPrint(mm) THEN Printed(out, rf[PrintReg]) ELSE out

I == INSTANCE Isa WITH pc <- AbsPc, regs <- AbsRegs, mem <- AbsMem, out <- AbsOut

absVars == <<imem, AbsPc, AbsRegs, AbsMem, AbsOut>>

-----------------------------------------------------------------------------
(* The instruction in exec is executed at the next edge.                   *)
Commits == phase = "pos" /\ ~Frozen /\ ex.we

\* Where control goes after the instruction in exec, by its own fields.
Successor == IF isBranch_ex THEN nextPC_ex
             ELSE IF ex.op = "JAL" THEN Add(ex.pc, ex.imm)
             ELSE Add(ex.pc, InstrBytes)

\* Every behaviour of the pipeline is one of the sequential machine: the
\* five stages, the forwarding, the stalls and the divider cannot be seen
\* in the registers, the memory, the output and the order of execution
\* (readme.md: "5 stage pipeline risc-v core").
ImplementsIsa == I!Init /\ [][I!Next]_absVars

\* Control flow, whatever the data: an executed instruction is followed by
\* its successor and by no other, none is skipped or executed twice across
\* stalls, squashes and redirections from decode and from exec.
InOrder == [][IF Commits THEN AbsPc' = Successor ELSE AbsPc' = AbsPc]_vars

\* instruction_ft travels a half cycle behind imem_address, and both are held
\* and released by different stalls; what reaches exec enabled is still the
\* word stored at its own pc.
FetchedAtPc ==
  ex.we => LET i == imem[ex.pc \div InstrBytes]
           IN  /\ ex.op = i.op /\ ex.f3 = i.f3 /\ ex.f7 = i.f7 /\ ex.imm = i.imm
               /\ ex.rd = IF i.op = "ST" THEN 0 ELSE i.rd

\* The pipeline never hangs: stalls, squashes and divisions end, and an
\* instruction is executed again and again until the program ends.
Progress == []<>(Commits \/ ic.stall)

-----------------------------------------------------------------------------
(* Why instructions are executed in order: the inductive invariant.        *)

Fetched(a) == imem[a \div InstrBytes]

\* Before the first edge nothing is in the pipeline.
Empty ==
  ~ft.we => /\ phase = "pos" /\ ~dc.we /\ ~ex.we /\ ~Frozen
            /\ ic.addOut = ft.address

\* The word and the next address that icache shows are those of imem_address,
\* except while a new address waits for the falling edge.
FetchMatches ==
  \/ ~ft.we \/ ic.stall
  \/ phase = "neg" /\ ft.opType = "LOAD"
  \/ ic.instr = Fetched(ft.address) /\ ic.addOut = Add(ft.address, InstrBytes)

\* An enabled instruction is the word at its pc, in decode and in exec.
DecodeMatches == dc.we => dc.instr = Fetched(dc.pc)

\* Neighbouring stages hold successive instructions, wherever no branch is
\* about to replace the younger one.
FetchFollowsDecode ==
  dc.we /\ ~isBranch_dc => ft.address = Add(dc.pc, InstrBytes)
DecodeFollowsExec ==
  ex.we /\ ~isBranch_ex /\ dc.we => dc.pc = Successor
FetchFollowsExec ==
  ex.we /\ ~isBranch_ex /\ ~dc.we => ft.address = Successor

\* The five latches before mems always hold a stretch of the program's own
\* control flow, whichever of them are held, squashed or redirected: the
\* inductive form of FetchedAtPc, and what InOrder follows from.
Ordered == /\ Empty /\ FetchMatches /\ DecodeMatches /\ FetchedAtPc
           /\ FetchFollowsDecode /\ DecodeFollowsExec /\ FetchFollowsExec
=============================================================================
