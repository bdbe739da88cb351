---------------------------- MODULE RiscvLemmas ----------------------------
(***************************************************************************)
(* The arithmetic of both cores stays within the words.                    *)
(***************************************************************************)
EXTENDS RiscvISA, TLAPS

\* A result is cut to the width of a register.
LEMMA WrapInWord == ASSUME NEW n \in Int PROVE Wrap(n) \in Word
BY SizesAssumption DEF Wrap, Word

\* Addresses and sums of words are words: no carry leaves the adder.
LEMMA AddInWord ==
  ASSUME NEW a \in Word, NEW b \in Word PROVE Add(a, b) \in Word
BY WrapInWord, a + b \in Int, SizesAssumption DEF Add, Word

\* The constants the cores use as words are words.
LEMMA ParametersInWord ==
  /\ 0 \in Word
  /\ InstrBytes \in Word /\ InstrBytes # 0
  /\ DataBytes \in Word /\ DataBytes # 0
  /\ MinInt \in Word
  /\ Wrap(-1) \in Word
BY SizesAssumption, WrapInWord DEF Word, MinInt

\* A value and its magnitude are zero together.
LEMMA Magnitude ==
  ASSUME NEW a \in Word
  PROVE  /\ Neg(a) \in Word
         /\ Mag(a) \in Word
         /\ a # 0 => Mag(a) # 0
<1>1. Neg(a) \in Word
  BY SizesAssumption, WrapInWord DEF Neg, Word
<1>2. Mag(a) \in Word
  BY <1>1 DEF Mag
<1>3. ASSUME a # 0 PROVE Mag(a) # 0
  <2>1. Modulus - a \in 1 .. (Modulus - 1)
    BY <1>3, SizesAssumption DEF Word
  <2>2. Neg(a) = Modulus - a
    BY <2>1, SizesAssumption DEF Neg, Wrap
  <2> QED
    BY <1>3, <2>1, <2>2 DEF Mag
<1> QED
  BY <1>1, <1>2, <1>3

\* The sign of a quotient or remainder is put back within the word.
LEMMA SignedIfInWord ==
  ASSUME NEW b \in BOOLEAN, NEW a \in Word PROVE SignedIf(b, a) \in Word
BY Magnitude DEF SignedIf

\* A quotient and a remainder of words are words.
LEMMA QuotientInWord ==
  ASSUME NEW a \in Word, NEW b \in Word, b # 0
  PROVE  a \div b \in Word /\ a % b \in Word
BY SizesAssumption DEF Word

\* Accesses of any width read a word and leave the memory a function on words.
LEMMA AccessInWord ==
  ASSUME NEW m \in [Word -> Word], NEW f3 \in Funct3,
         NEW a \in Word, NEW d \in Word
  PROVE  /\ a \div InstrBytes \in Word
         /\ ReadMem(m, f3, a) \in Word
         /\ WriteMem(m, f3, a, d) \in [Word -> Word]
<1>1. a \div InstrBytes \in Word
  BY ParametersInWord, QuotientInWord
<1>2. Cell(a) \in Word
  BY ParametersInWord, QuotientInWord DEF Cell
<1>3. MaskOf(f3) \in MemMask
  BY DEF MaskOf, MemMask, Funct3
<1>4. m[Cell(a)] \in Word
  BY <1>2
<1>5. Lane(a) \in 0 .. (DataBytes - 1)
  BY SizesAssumption DEF Lane, Word
<1>6. Extract(MaskOf(f3), Lane(a), m[Cell(a)]) \in Word
  BY <1>3, <1>4, <1>5, MemoryAssumption
<1>7. Insert(MaskOf(f3), Lane(a), m[Cell(a)], d) \in Word
  BY <1>3, <1>4, <1>5, MemoryAssumption
<1>8. ReadMem(m, f3, a) \in Word
  BY <1>6 DEF ReadMem
<1>9. WriteMem(m, f3, a, d) \in [Word -> Word]
  BY <1>7 DEF WriteMem
<1> QED
  BY <1>1, <1>8, <1>9

\* A division has a word for a result, whatever its operands.
LEMMA DivisionInWord ==
  ASSUME NEW f3 \in Funct3, NEW a \in Word, NEW b \in Word
  PROVE  Division(f3, a, b) \in Word
<1>1. CASE b = 0
  BY <1>1, ParametersInWord DEF Division
<1>2. CASE b # 0
  <2>1. /\ Mag(a) \in Word /\ Mag(b) \in Word /\ Mag(b) # 0
        /\ IsNeg(a) \in BOOLEAN /\ (IsNeg(a) # IsNeg(b)) \in BOOLEAN
    BY <1>2, Magnitude DEF IsNeg
  <2>2. /\ a \div b \in Word /\ a % b \in Word
        /\ Mag(a) \div Mag(b) \in Word /\ Mag(a) % Mag(b) \in Word
    BY <1>2, <2>1, QuotientInWord
  <2>3. /\ SignedIf(IsNeg(a) # IsNeg(b), Mag(a) \div Mag(b)) \in Word
        /\ SignedIf(IsNeg(a), Mag(a) % Mag(b)) \in Word
    BY <2>1, <2>2, SignedIfInWord
  <2> QED
    BY <1>2, <2>2, <2>3, ParametersInWord DEF Division
<1> QED
  BY <1>1, <1>2

\* So has every OP instruction, of the M extension or not.
LEMMA OpResultInWord ==
  ASSUME NEW i \in Instr, NEW a \in Word, NEW b \in Word
  PROVE  OpResult(i, a, b) \in Word
<1>1. i.f3 \in Funct3 /\ i.f7 \in Funct7
  BY DEF Instr
<1> QED
  BY <1>1, DivisionInWord, AluAssumption DEF OpResult
=============================================================================
