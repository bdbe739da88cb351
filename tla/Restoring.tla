------------------------------ MODULE Restoring ------------------------------
(***************************************************************************)
(* The restoring division of mult and of the scalar core, bit by bit.      *)
(*                                                                         *)
(* A division is a record with the fields state (the bits still to come),  *)
(* dataA, dataB, quotient and remainder.                                   *)
(***************************************************************************)
EXTENDS RiscvISA

CONSTANTS
  DivBits,   \* 32 in the code
  Weight     \* Weight[n] is 2^n

ASSUME WeightAssumption ==
  /\ DivBits \in Nat \ {0}
  /\ Weight \in [0 .. DivBits -> Nat \ {0}]
  /\ Weight[0] = 1
  /\ \A n \in 0 .. (DivBits - 1) : Weight[n + 1] = 2 * Weight[n]
  /\ Modulus = Weight[DivBits]

BitOf(w, n) == (w \div Weight[n]) % 2
SetBit(w, n) == IF BitOf(w, n) = 1 THEN w ELSE w + Weight[n]

\* remainder << 1, in 32 bits, with the next bit of dataA.
ShiftIn_KeepsRemainder(r, bit) == r + bit
ShiftIn(r, bit) == Wrap(2 * r) + bit

\* state--, and one round of the loop.
OneBit_Strictly(d) ==
  LET n == d.state - 1
      r == ShiftIn(d.remainder, BitOf(d.dataA, n))
  IN  IF r > d.dataB
      THEN [d EXCEPT !.state = n, !.remainder = r - d.dataB,
                     !.quotient = SetBit(d.quotient, n)]
      ELSE [d EXCEPT !.state = n, !.remainder = r]

OneBit(d) ==
  LET n == d.state - 1
      r == ShiftIn(d.remainder, BitOf(d.dataA, n))
  IN  IF r >= d.dataB
      THEN [d EXCEPT !.state = n, !.remainder = r - d.dataB,
                     !.quotient = SetBit(d.quotient, n)]
      ELSE [d EXCEPT !.state = n, !.remainder = r]

\* for (i = 0; i < 4; i++), the rounds of one cycle of mult.
FourBits(d) == OneBit(OneBit(OneBit(OneBit(d))))

\* What holds of d between two rounds: the quotient so far, and the remainder
\* left, are those of the bits of dataA that have been shifted in.
Invariant(d) ==
  LET w == Weight[d.state]
  IN  /\ d.quotient % w = 0
      /\ d.dataA \div w = (d.quotient \div w) * d.dataB + d.remainder
      /\ d.remainder < d.dataB

-----------------------------------------------------------------------------
(* The scalar core: for (state = 31; state >= 0; state--) in one step.     *)

Divided(a, b) ==
  LET round[n \in 0 .. DivBits] ==
        IF n = 0 THEN [state |-> DivBits, dataA |-> a, dataB |-> b,
                       quotient |-> 0, remainder |-> 0]
        ELSE OneBit(round[n - 1])
  IN  round[DivBits]

core_DIV(f3, a, b) ==
  IF b = 0 THEN IF f3 \in {M_DIV, M_DIVU} THEN Wrap(-1) ELSE a
  ELSE IF IsSignedDivision(f3) /\ a = MinInt /\ b = OverflowDivisor
       THEN IF f3 = M_DIV THEN MinInt ELSE 0
  ELSE LET d == IF IsSignedDivision(f3) THEN Divided(Mag(a), Mag(b))
                ELSE Divided(a, b)
       IN  IF f3 = M_DIV THEN SignedIf(IsNeg(a) # IsNeg(b), d.quotient)
           ELSE IF f3 = M_DIVU THEN d.quotient
           ELSE IF f3 = M_REM THEN SignedIf(IsNeg(a), d.remainder)
           ELSE d.remainder
=============================================================================
