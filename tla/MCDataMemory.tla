---------------------------- MODULE MCDataMemory ----------------------------
(***************************************************************************)
(* Two words of four 2-bit bytes. The bytes of 27 are 3, 2, 1, 0 from the  *)
(* low end, those of 228 are 0, 1, 2, 3: every byte and half word differs  *)
(* from its neighbours, and both signs occur.                              *)
(***************************************************************************)
EXTENDS DataMemory

PowersOfTwo == [n \in 0 .. DivBits |-> 2^n]
TwoWords == [a \in Word |-> IF a = 0 THEN 228 ELSE 27]

NoAlu(c, d, a, b) == a
NoCompare(c, a, b) == FALSE
NoMul(c, a, b) == a
NoExtract(k, l, w) == w
NoInsert(k, l, w, d) == w
NoPrograms == {}
=============================================================================
