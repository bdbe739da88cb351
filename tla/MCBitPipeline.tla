---------------------------- MODULE MCBitPipeline ----------------------------
(***************************************************************************)
(* The bitwise divider in words of 8 bits: two cycles of four bits. The    *)
(* stack starts at a negative word, so divisions meet operands of both     *)
(* signs and sizes. Around the divisions there are only sums, differences  *)
(* and products, and no memory accesses, so the rest of the data path is   *)
(* cut down to these.                                                      *)
(***************************************************************************)
EXTENDS BitPipeline, SmallMachine

AddSub(f3, f7, a, b) == Wrap(IF IsAlternate(f7) THEN a - b ELSE a + b)
LowProduct(f3, a, b) == Wrap(a * b)
WordOnly(k, l, w) == w
WriteWord(k, l, w, d) == d

Divisions == {div(3, 2, 1), rem(3, 1, 2), divu(1, 2, 3), remu(2, 2, 1)}
Others == {sub(2, 0, 2), addi(3, 1, 6), mul(3, 2, 3)}
DivPrograms ==
  {Image(<<a, b, c, d>>) : a \in Divisions \cup Others, b \in Others,
                           c \in Divisions \cup Others, d \in Divisions}
=============================================================================
