----------------------------- MODULE Addresses -----------------------------
(***************************************************************************)
(* Words that an instruction cannot hold whole: ass2bin_wrap.py splits the *)
(* value of li, the distance of a call and the address of a datum (%hi,    *)
(* %lo) in two, and the cores put them together, the lower part with its   *)
(* sign extended. The widths are parameters.                               *)
(*                                                                         *)
(* Numbers are written in base 2 in the code: a word is a number here, its *)
(* string the digits of it.                                                *)
(***************************************************************************)
EXTENDS Integers

CONSTANTS
  Modulus,    \* 2^32 in the code
  Uppers,     \* 2^20: the immediates of lui and auipc
  HalfLow,    \* 2^11: half the values of a 12-bit immediate
  DataSplit   \* 2^16: where %hi and %lo split an address

Low == 2 * HalfLow
Word == 0 .. (Modulus - 1)

ASSUME WidthsAssumption ==
  /\ Uppers \in Nat \ {0} /\ HalfLow \in Nat \ {0}
  /\ Modulus = Uppers * Low
  /\ DataSplit \in 1 .. Modulus /\ DataSplit % (2 * Low) = 0

-----------------------------------------------------------------------------
(* The assembler. A pair <<upper, lower>> is a lui or auipc and an addi or *)
(* jalr; an immediate of the second is cut to its low bits by I_type.      *)

Upper(x) == x \div Low
Lower(x) == x % Low
HasSign(x) == Lower(x) >= HalfLow

\* Adding 1 to the upper digits by flipping them from the right.
Carried(x) == (Upper(x) + 1) % Uppers

\* expand_ins of li: below 2^11 and from -2^11 on one addi is enough.
FitsOne(x) == x < HalfLow \/ x >= Modulus - HalfLow
LoadImmediate_IgnoresSign(x) ==
  IF FitsOne(x) THEN <<0, Lower(x)>> ELSE <<Upper(x), Lower(x)>>
LoadImmediate(x) ==
  IF FitsOne(x) THEN <<0, Lower(x)>>
  ELSE <<IF HasSign(x) THEN Carried(x) ELSE Upper(x), Lower(x)>>

\* subsidmem of %h20 and %l12, for the distance d of a call.
CallParts(d) == <<IF HasSign(d) THEN Carried(d) ELSE Upper(d), Lower(d)>>

\* subsidmem of %hi and %lo. The assembler stops at a lo of 2^15 or more, which
\* I_type has two bytes with a sign for.
DataRefused(x) == 2 * (x % DataSplit) >= DataSplit
DataParts_CutAtLow(x) == <<IF HasSign(x) THEN Carried(x) ELSE Upper(x), Lower(x)>>
DataParts(x) ==
  LET hi == x \div DataSplit
      lo == x % DataSplit
  IN  <<IF 2 * lo >= DataSplit THEN (hi + 1) % (Modulus \div DataSplit) ELSE hi,
        Lower(lo)>>

-----------------------------------------------------------------------------
(* The cores: imm31_12, and imm12_I_signed.                                *)

SignExtended(k) == IF k >= HalfLow THEN k - Low ELSE k
LuiAddi(parts) == (parts[1] * Low + SignExtended(parts[2])) % Modulus
AuipcJalr(from, parts) == (from + parts[1] * Low + SignExtended(parts[2])) % Modulus
=============================================================================
