------------------------------ MODULE DataPath ------------------------------
(***************************************************************************)
(* The data path of both cores: what exe_wecomb and mult compute in        *)
(* pipeline/scriscv_core.cpp, what the switch of core() computes in        *)
(* scalar/scriscv_scalar.cpp, and the lane of a data word that each dcache *)
(* reads and writes. RiscvISA takes these operators as parameters.         *)
(*                                                                         *)
(* A word is a number in 0 .. Modulus - 1. The pipeline holds operands as  *)
(* sc_int and casts the unsigned ones, the scalar core holds sc_uint and   *)
(* casts the signed ones; C++ computes in 64 bits and a register keeps the *)
(* low ones. The width is a parameter, a power of 2 as 32 is: a shift      *)
(* count has ShiftBits bits, a half word half the bits of a word, a byte a *)
(* quarter.                                                                *)
(***************************************************************************)
EXTENDS Restoring

CONSTANT ShiftBits   \* 5 in the code: (sc_uint<5>)rhs, shamt

Width == DivBits

ASSUME WidthAssumption == ShiftBits \in 2 .. Width /\ Weight[ShiftBits] = Width

Flag(p) == IF p THEN 1 ELSE 0
IsAlternate_ByMulBit(f7) == f7 = 1
IsAlternate(f7) == f7 = 32    \* funct7.range(5,5): SUB, SRA, SRAI
Shamt(b) == b % Width

\* ^, | and & of words: the bits at which the pair of their bits is in a table.
Gate(table, a, b) ==
  LET low[n \in 0 .. Width] ==
        IF n = 0 THEN 0
        ELSE low[n - 1] + IF <<BitOf(a, n - 1), BitOf(b, n - 1)>> \in table
                          THEN Weight[n - 1] ELSE 0
  IN  low[Width]
Xor(a, b) == Gate({<<0, 1>>, <<1, 0>>}, a, b)
Or(a, b) == Gate({<<0, 1>>, <<1, 0>>, <<1, 1>>}, a, b)
And(a, b) == Gate({<<1, 1>>}, a, b)

-----------------------------------------------------------------------------
(* exe_wecomb. The immediate of SRLI and SRAI is shamt, its low bits.      *)

exe_OPI(f3, f7, a, b) ==
  LET lhs == Signed(a)  rhs == Signed(b)
  IN  IF f3 = 0 THEN Wrap(lhs + rhs)
      ELSE IF f3 = 1 THEN Wrap(lhs * Weight[Shamt(b)])
      ELSE IF f3 = 2 THEN Flag(lhs < rhs)
      ELSE IF f3 = 3 THEN Flag(a < b)
      ELSE IF f3 = 4 THEN Xor(a, b)
      ELSE IF f3 = 5
      THEN Wrap((IF IsAlternate(f7) THEN lhs ELSE a) \div Weight[Shamt(b)])
      ELSE IF f3 = 6 THEN Or(a, b)
      ELSE And(a, b)

\* funct3 means the same to OP, which also subtracts.
exe_OP(f3, f7, a, b) ==
  IF f3 = 0 /\ IsAlternate(f7) THEN Wrap(Signed(a) - Signed(b))
  ELSE exe_OPI(f3, f7, a, b)

exe_BR(f3, a, b) ==
  LET lhs == Signed(a)  rhs == Signed(b)
  IN  /\ f3 \notin {2, 3}
      /\ f3 = 0 => lhs = rhs
      /\ f3 = 1 => lhs # rhs
      /\ f3 = 4 => lhs < rhs
      /\ f3 = 5 => lhs >= rhs
      /\ f3 = 6 => a < b
      /\ f3 = 7 => a >= b

\* mult: a product of 64 bits, of which MUL keeps the lower word and MULH,
\* MULHSU and MULHU the upper one.
Upper_OfOneWord(p) == Wrap(p) \div Modulus
Upper(p) == Wrap(p \div Modulus)
mult_MUL(f3, a, b) ==
  LET lhs == Signed(a)  rhs == Signed(b)
  IN  IF f3 = 1 THEN Upper(lhs * rhs)
      ELSE IF f3 = 2 THEN Upper(lhs * b)
      ELSE IF f3 = 3 THEN Upper(a * b)
      ELSE Wrap(lhs * rhs)

-----------------------------------------------------------------------------
(* core() of the scalar core. valueReg1 and valueReg2 are unsigned.        *)

core_OPI(f3, f7, valueReg1, imm) ==
  LET lhs == Signed(valueReg1)  rhs == Signed(imm)
  IN  IF f3 = 0 THEN Wrap(lhs + rhs)
      ELSE IF f3 = 1 THEN Wrap(lhs * Weight[Shamt(imm)])
      ELSE IF f3 = 2 THEN Flag(lhs < rhs)
      ELSE IF f3 = 3 THEN Flag(valueReg1 < imm)
      ELSE IF f3 = 4 THEN Xor(valueReg1, imm)
      ELSE IF f3 = 5
      THEN Wrap((IF IsAlternate(f7) THEN lhs ELSE valueReg1) \div Weight[Shamt(imm)])
      ELSE IF f3 = 6 THEN Or(valueReg1, imm)
      ELSE And(valueReg1, imm)

core_OP(f3, f7, valueReg1, valueReg2) ==
  IF f3 = 0
  THEN Wrap(IF IsAlternate(f7) THEN valueReg1 - valueReg2
                               ELSE valueReg1 + valueReg2)
  ELSE core_OPI(f3, f7, valueReg1, valueReg2)

\* A branch that is not taken leaves insbranch FALSE.
core_BR(f3, valueReg1, valueReg2) ==
  \/ f3 = 0 /\ valueReg1 = valueReg2
  \/ f3 = 1 /\ valueReg1 # valueReg2
  \/ f3 = 4 /\ Signed(valueReg1) < Signed(valueReg2)
  \/ f3 = 5 /\ Signed(valueReg1) >= Signed(valueReg2)
  \/ f3 = 6 /\ valueReg1 < valueReg2
  \/ f3 = 7 /\ valueReg1 >= valueReg2

\* The registers multiplied are the unsigned ones, whatever the instruction.
core_MUL(f3, valueReg1, valueReg2) ==
  LET p == valueReg1 * valueReg2
  IN  IF f3 = 0 THEN Wrap(p) ELSE Upper(p)

-----------------------------------------------------------------------------
(* The lanes of a data word. A half word is selected by addr[1], a byte by *)
(* addr.range(1,0); the low bits of an address that is not a multiple of   *)
(* the access are not looked at.                                           *)

ByteBits == Width \div 4
HalfBits == Width \div 2
ByteLane(a) == ByteBits * (a % 4)
HalfLane(a) == HalfBits * ((a \div 2) % 2)

\* data.range(low + width - 1, low), and the assignment to it.
LaneOf(w, low, width) == (w \div Weight[low]) % Weight[width]
SetLane(w, low, width, d) ==
  w + ((d % Weight[width]) - LaneOf(w, low, width)) * Weight[low]
SignExtend_Zero(v, width) == v
SignExtend(v, width) ==
  IF v >= Weight[width - 1] THEN v + Modulus - Weight[width] ELSE v

dcache_LOAD(mask, a, w) ==
  IF mask = "BYTE" THEN SignExtend(LaneOf(w, ByteLane(a), ByteBits), ByteBits)
  ELSE IF mask = "HALF" THEN SignExtend(LaneOf(w, HalfLane(a), HalfBits), HalfBits)
  ELSE IF mask = "BYTE_U" THEN LaneOf(w, ByteLane(a), ByteBits)
  ELSE IF mask = "HALF_U" THEN LaneOf(w, HalfLane(a), HalfBits)
  ELSE w

dcache_STORE(mask, a, w, dataIn) ==
  IF mask \in {"BYTE", "BYTE_U"} THEN SetLane(w, ByteLane(a), ByteBits, dataIn)
  ELSE IF mask \in {"HALF", "HALF_U"} THEN SetLane(w, HalfLane(a), HalfBits, dataIn)
  ELSE dataIn

\* The scalar core's dcache selects by funct3; what it does not list is a word.
scalar_LOAD_IgnoresUnsigned(f3, a, w) == dcache_LOAD(MaskOf(f3 % 4), a, w)
scalar_LOAD(f3, a, w) ==
  IF f3 = 0 THEN SignExtend(LaneOf(w, ByteLane(a), ByteBits), ByteBits)
  ELSE IF f3 = 1 THEN SignExtend(LaneOf(w, HalfLane(a), HalfBits), HalfBits)
  ELSE IF f3 = 4 THEN LaneOf(w, ByteLane(a), ByteBits)
  ELSE IF f3 = 5 THEN LaneOf(w, HalfLane(a), HalfBits)
  ELSE w

scalar_STORE(f3, a, w, dataIn) ==
  IF f3 \in {0, 4} THEN SetLane(w, ByteLane(a), ByteBits, dataIn)
  ELSE IF f3 \in {1, 5} THEN SetLane(w, HalfLane(a), HalfBits, dataIn)
  ELSE dataIn
=============================================================================
