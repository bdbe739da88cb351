----------------------------- MODULE Arithmetic -----------------------------
(***************************************************************************)
(* The combinational results of both cores, for whatever is on their       *)
(* inputs, against what the RISC-V instructions mean and against each      *)
(* other. An input changes one at a time, as signals do, and the results   *)
(* follow: exe_wecomb is an SC_METHOD sensitive to all of them.            *)
(***************************************************************************)
EXTENDS DataPath

CONSTANT Operands   \* the words tried

ASSUME OperandsAssumption == Operands \subseteq Word

VARIABLES
  format,    \* "OPI", "OP", "M" or "BR"
  f3, f7,
  lhs, rhs   \* lhs_ex_comb and rhs_ex_comb; valueReg1 and valueReg2

inputs == <<format, f3, f7, lhs, rhs>>

\* funct7 of the instructions that have one: bit 5 is set in SUB, SRA and
\* SRAI, bit 0 in the M extension.
Legal(o, c, d) ==
  /\ o = "OPI" => d \in (IF c = 5 THEN {0, 32} ELSE {0})
  /\ o = "OP"  => d \in (IF c \in {0, 5} THEN {0, 32} ELSE {0})
  /\ o = "M"   => d = 1
  /\ o = "BR"  => c \notin {2, 3} /\ d = 0

AInit == /\ format = "OPI" /\ f3 = 0 /\ f7 = 0
         /\ lhs = 0 /\ rhs = 0

DriveInstruction ==
  /\ \E o \in {"OPI", "OP", "M", "BR"}, c \in Funct3, d \in Funct7 :
       Legal(o, c, d) /\ format' = o /\ f3' = c /\ f7' = d
  /\ UNCHANGED <<lhs, rhs>>
DriveLhs == lhs' \in Operands /\ UNCHANGED <<format, f3, f7, rhs>>
DriveRhs == rhs' \in Operands /\ UNCHANGED <<format, f3, f7, lhs>>

ANext == DriveInstruction \/ DriveLhs \/ DriveRhs
ASpec == AInit /\ [][ANext]_inputs

-----------------------------------------------------------------------------
(* What the cores answer.                                                  *)

PipelineResult(o, c, d, a, b) ==
  IF o = "OPI" THEN exe_OPI(c, d, a, b)
  ELSE IF o = "OP" THEN exe_OP(c, d, a, b)
  ELSE IF o = "BR" THEN Flag(exe_BR(c, a, b))
  ELSE IF IsDivision(c) THEN Division(c, a, b)
  ELSE mult_MUL(c, a, b)

ScalarResult(o, c, d, a, b) ==
  IF o = "OPI" THEN core_OPI(c, d, a, b)
  ELSE IF o = "OP" THEN core_OP(c, d, a, b)
  ELSE IF o = "BR" THEN Flag(core_BR(c, a, b))
  ELSE IF IsDivision(c) THEN core_DIV(c, a, b)
  ELSE core_MUL(c, a, b)

result_pipeline == PipelineResult(format, f3, f7, lhs, rhs)
result_scalar == ScalarResult(format, f3, f7, lhs, rhs)

-----------------------------------------------------------------------------
(* What the instructions mean, in terms of the bits of a word.             *)

Position == 0 .. (Width - 1)
Bits(w) == {n \in Position : BitOf(w, n) = 1}
ShiftedBits(s) ==
  IF f3 = 1 THEN {n \in Position : n - s \in Bits(lhs)}
  ELSE {n \in Position : IF n + s \in Position THEN n + s \in Bits(lhs)
                         ELSE f7 = 32 /\ Width - 1 \in Bits(lhs)}
LogicalBits ==
  IF f3 = 4 THEN (Bits(lhs) \cup Bits(rhs)) \ (Bits(lhs) \cap Bits(rhs))
  ELSE IF f3 = 6 THEN Bits(lhs) \cup Bits(rhs)
  ELSE Bits(lhs) \cap Bits(rhs)

IsShift == format \in {"OPI", "OP"} /\ f3 \in {1, 5}
IsLogical == format \in {"OPI", "OP"} /\ f3 \in {4, 6, 7}
UpperProduct == format = "M" /\ f3 \in {1, 2, 3}

\* SLL, SRL, SRA, XOR, OR and AND and their immediate forms move and combine
\* the bits of a word: a shift by the low bits of its count only, SRA with
\* copies of the sign, whatever the casts between signed and unsigned in
\* exe_wecomb do.
BitwiseIsRiscv ==
  /\ IsShift =>
       \E s \in Position : /\ Bits(s) = Bits(rhs) \cap 0 .. (ShiftBits - 1)
                           /\ Bits(result_pipeline) = ShiftedBits(s)
  /\ IsLogical => Bits(result_pipeline) = LogicalBits

\* The upper word of a product and MUL's lower one together are the product of
\* the operands as MULH, MULHSU and MULHU read them: mult keeps all 64 bits.
ProductIsRiscv ==
  UpperProduct =>
    LET a == IF f3 = 3 THEN lhs ELSE Signed(lhs)
        b == IF f3 = 1 THEN Signed(rhs) ELSE rhs
        upper == IF f3 = 3 THEN result_pipeline ELSE Signed(result_pipeline)
    IN  a * b = upper * Modulus + PipelineResult("M", 0, 1, lhs, rhs)

\* DIV and REM, DIVU and REMU are a quotient and a remainder of one division:
\* their operands are divided exactly, the remainder is smaller than the
\* divisor and has the sign of the dividend. One pair of operands is not divided
\* so: DIV answers the least word by -4 as if it overflowed. The least word by
\* -1, which does overflow, comes out of the loop right.
IsExact ==
  LET Value(w) == IF f3 = M_DIV THEN Signed(w) ELSE w
      Size(w) == IF f3 = M_DIV THEN Mag(w) ELSE w
      q == Value(result_pipeline)
      r == Value(PipelineResult("M", f3 + 2, 1, lhs, rhs))
  IN  /\ Wrap(Value(rhs) * q + r) = lhs
      /\ Size(Wrap(r)) < Size(rhs)
      /\ r # 0 => (r < 0) = (Value(lhs) < 0)
TakenForOverflow == f3 = M_DIV /\ lhs = MinInt /\ rhs = OverflowDivisor
EuclideanButOne ==
  format = "M" /\ f3 \in {M_DIV, M_DIVU} /\ rhs # 0 => IsExact = ~TakenForOverflow

\* Both cores give the same result for every instruction, although one divides
\* four bits a cycle with a sign to put back and the other in a loop of its
\* own, and one computes on signed and the other on unsigned registers. Only
\* the upper words of products of negative operands differ: there the scalar
\* core answers as to MULHU.
ReadsNegative == /\ format = "M"
                 /\ f3 \in {1, 2}
                 /\ IsNeg(lhs) \/ (f3 = 1 /\ IsNeg(rhs))
CoresAgreeButProducts ==
  result_scalar = IF ReadsNegative THEN PipelineResult("M", 3, 1, lhs, rhs)
                  ELSE result_pipeline
=============================================================================
