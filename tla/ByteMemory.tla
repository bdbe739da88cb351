----------------------------- MODULE ByteMemory -----------------------------
(***************************************************************************)
(* The data memory a RISC-V program sees: an array of bytes. A half word   *)
(* or a word is the bytes from its address on, the least significant one   *)
(* first ("basic riscv: little endien", ass2bin_wrap.py:446), and a load   *)
(* fills a register with zeros or with copies of the sign. An address that *)
(* is no multiple of the access is brought down to one; the compilers of   *)
(* the benchmarks do not emit any.                                         *)
(***************************************************************************)
EXTENDS Integers

CONSTANTS
  Base,       \* 256 in the code: the values of a byte
  Addresses,  \* how many bytes there are
  Content,    \* dmem.txt, byte by byte
  Data        \* the words stored

VARIABLES
  request,   \* the last one: kind, funct3 and address
  bytes,
  answer   \* what the last load has read

Address == 0 .. (Addresses - 1)

Size(f3) == IF f3 \in {0, 4} THEN 1 ELSE IF f3 \in {1, 5} THEN 2 ELSE 4
IsSignedLoad(f3) == f3 \in {0, 1}
First(f3, a) == a - (a % Size(f3))
Place == <<1, Base, Base * Base, Base * Base * Base>>
Values(n) == IF n = 4 THEN Place[4] * Base ELSE Place[n + 1]

\* The number that n bytes from a on stand for.
Read(a, n) ==
  LET At(k) == bytes[a + k - 1] * Place[k]
  IN  IF n = 1 THEN At(1) ELSE IF n = 2 THEN At(1) + At(2)
      ELSE At(1) + At(2) + At(3) + At(4)

Init == /\ request = <<"none", 0, 0>>
        /\ bytes = Content
        /\ answer = 0

Load(f3, a) ==
  /\ request' = <<"load", f3, a>>
  /\ LET v == Read(First(f3, a), Size(f3))
     IN  answer' = IF IsSignedLoad(f3) /\ 2 * v >= Values(Size(f3))
                   THEN v + Values(4) - Values(Size(f3)) ELSE v
  /\ UNCHANGED bytes

Store(f3, a, d) ==
  /\ request' = <<"store", f3, a>>
  /\ LET m == bytes
     IN  bytes' = [b \in Address |->
                     LET k == b - First(f3, a) + 1
                     IN  IF k \in 1 .. Size(f3) THEN (d \div Place[k]) % Base
                         ELSE m[b]]
  /\ UNCHANGED answer

Next ==
  \/ \E f3 \in {0, 1, 2, 4, 5}, a \in Address : Load(f3, a)
  \/ \E f3 \in {0, 1, 2}, a \in Address, d \in Data : Store(f3, a, d)

Spec == Init /\ [][Next]_<<request, bytes, answer>>
=============================================================================
