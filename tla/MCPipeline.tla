----------------------------- MODULE MCPipeline -----------------------------
(***************************************************************************)
(* Instances of the pipeline on the small machine.                         *)
(***************************************************************************)
EXTENDS PipelineHazards, SmallMachine

-----------------------------------------------------------------------------
(* One short program for each way of losing a value.                       *)

\* x3 is in wrbk when the load of x2 holds its reader in decode.
LoadUsePrograms ==
  {Image(<<addi(3, 0, 5), fence, lw(2, 2, 0), add(4, 2, 3)>>)}

\* x3 is in wrbk, and x4 in mems, when the division starts.
DivisionWbPrograms ==
  {Image(<<addi(3, 0, 5), addi(4, 0, 9), div(2, 1, 2), add(4, 2, 3)>>)}

\* The load of x3 is in mems when the division starts.
DivisionLoadPrograms == {Image(<<lw(3, 2, 0), div(4, 1, 2)>>)}

\* The second product takes the first.
MulMulPrograms == {Image(<<mul(3, 1, 2), mul(4, 3, 2)>>)}

\* The print is jumped over.
SkippedPrintPrograms == {Image(<<jalr(4, 1, 4), printf, fence>>)}

\* The quotient is that of x1 and x2, the operands that of x2 and x1.
StaleQuotientPrograms ==
  {Image(<<divu(3, 1, 2), mul(4, 2, 1), remu(3, 2, 1)>>)}

\* The load of x3 is in exec when decode jumps to RAADDRESS.
EndOvertakesPrograms == {Image(EarlyEnd)}
=============================================================================
