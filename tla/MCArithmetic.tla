---------------------------- MODULE MCArithmetic ----------------------------
(***************************************************************************)
(* Words of 8 bits: the small numbers, those around the sign and around    *)
(* half a word, and the last ones before 0. The parameters of RiscvISA     *)
(* that a program would need are not used.                                 *)
(***************************************************************************)
EXTENDS Arithmetic

PowersOfTwo == [n \in 0 .. DivBits |-> 2^n]
Boundary ==
  0 .. 9 \cup {15, 16, 17, 85} \cup 126 .. 130 \cup {170, 240} \cup 247 .. 255

NoAlu(c, d, a, b) == a
NoCompare(c, a, b) == FALSE
NoMul(c, a, b) == a
NoExtract(k, l, w) == w
NoInsert(k, l, w, d) == w
NoPrograms == {}
NoMemory == [w \in Word |-> 0]
=============================================================================
