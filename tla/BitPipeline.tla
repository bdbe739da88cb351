----------------------------- MODULE BitPipeline -----------------------------
(***************************************************************************)
(* The pipeline with the divider of mult as it is: 32 bits, four a cycle,  *)
(* with the partial quotient and remainder in registers. Pipeline shows    *)
(* both only when they are complete and counts cycles; this module shows   *)
(* that it may.                                                            *)
(***************************************************************************)
EXTENDS Pipeline, Restoring

ASSUME CyclesAssumption == DivBits = 4 * DivSteps

\* Four bits a cycle, and the result after the last.
MultCycle(l) ==
  LET d == FourBits(l)
  IN  IF d.state # 0 THEN [d EXCEPT !.valRet = FALSE]
      ELSE [d EXCEPT !.valRet = TRUE,
                     !.result = DivResult(d, d.quotient, d.remainder)]

mult_bits ==
  mu' = LET l == MultLatched
        IN  IF ~l.isM THEN [l EXCEPT !.valRet = FALSE]
            ELSE IF l.state = 0
            THEN [MultStart(l) EXCEPT
                   !.state = IF StartsDivision(l) THEN DivBits ELSE 0]
            ELSE MultCycle(l)

Posedge_bits ==
  /\ phase = "pos" /\ phase' = "neg"
  /\ fetch /\ decode /\ exec /\ mult_bits /\ mems /\ wrbk
  /\ UNCHANGED <<imem, ic, dmem, dmem_dataOut>>

BNext == Posedge_bits \/ Negedge
BSpec == Init /\ [][BNext]_vars

-----------------------------------------------------------------------------
\* What Pipeline holds of the divider.
AbstractMult ==
  [mu EXCEPT !.state     = @ \div 4,
             !.quotient  = IF mu.state = 0 THEN @ ELSE 0,
             !.remainder = IF mu.state = 0 THEN @ ELSE 0]

Cycles == INSTANCE Pipeline WITH mu <- AbstractMult

\* The pipeline that divides bit by bit is the pipeline that divides in the
\* last cycle: every edge of one is an edge of the other, so whatever holds of
\* Pipeline holds with the loop of mult in it.
DividesInCycles == Cycles!Spec

\* Between two cycles of a division the quotient and the remainder are those
\* of the bits of dataA that have been shifted in, and no bit of either has
\* been lost off the end of its register; the bits left are a multiple of 4.
DivisionUnderWay ==
  mu.state # 0 => /\ mu.state % 4 = 0
                  /\ Invariant(mu)
=============================================================================
