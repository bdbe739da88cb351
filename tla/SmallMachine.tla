---------------------------- MODULE SmallMachine ----------------------------
(***************************************************************************)
(* The machine both cores are checked on: words of 4 bits, a data word of  *)
(* 4 one-bit lanes, and programs that are every sequence of a few          *)
(* instructions taken from a menu, followed by a return to RAADDRESS.      *)
(***************************************************************************)
EXTENDS DataPath, Instructions

Ra == 7          \* not in or right after a program, as 2^30 is not
Start == 8
Stack == 6

PowersOfTwo == [n \in 0 .. DivBits |-> 2^n]

InitialMemory == [a \in 0 .. (Modulus - 1) |-> (5 * a + 6) % Modulus]

-----------------------------------------------------------------------------
(* Programs.                                                               *)

ProgramsOf(menu, n) == {Image(s) : s \in [1 .. n -> menu]}

\* What moves data and control, over registers that keep meeting, and with
\* it every kind of instruction.
MainMenu ==
  {addi(3, 3, 1), sub(2, 3, 2), auipc(2, 3), lb(3, 2, 1), lw(2, 3, 0),
   sw(3, 2, 1), beq(3, 0, 2), jal(1, 2), jalr(3, 1, 4), printf,
   mul(3, 2, 1), div(3, 1, 2)}
FullMenu ==
  MainMenu \cup
  {lui(3, 5), fence, blt(3, 2, 2), mulh(2, 3, 2), rem(2, 2, 3),
   remu(3, 2, 1), divu(2, 1, 3)}

\* Any kind second, where it has readers and writers on both sides.
FullSequences ==
  {<<a, b, c, d>> : a \in MainMenu, b \in FullMenu,
                    c \in MainMenu, d \in MainMenu}
ShortPrograms == ProgramsOf(FullMenu, 3)

\* The M extension, over the same operands in both orders and both signs.
MultMenu ==
  {mul(3, 2, 1), div(3, 1, 2), rem(3, 2, 1), remu(3, 2, 1), divu(3, 2, 1),
   sub(2, 0, 2)}
MultSequences == [1 .. 5 -> MultMenu]

\* A jump from decode to Ra, right behind a load.
EarlyEnd == <<lw(3, 2, 0), jal(1, Ra - Start - 1)>>

\* A load in the word that a jump leaves out, and a reader where it leads.
JumpedLoad == <<addi(2, 0, 5), jal(0, 3), lb(3, 2, 1), fence, sub(2, 3, 2)>>

AllPrograms ==
  {Image(s) : s \in FullSequences \cup MultSequences \cup {EarlyEnd, JumpedLoad}}
=============================================================================
