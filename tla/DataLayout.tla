----------------------------- MODULE DataLayout -----------------------------
(***************************************************************************)
(* How __pre_mapfilt packs .word, .half and .byte into the words of        *)
(* dmem.txt. A word is the sequence of its bytes, the lowest first; the    *)
(* k-th byte of the datum in line n is written <<n, k>>.                   *)
(***************************************************************************)
EXTENDS Integers, Sequences

Zero == <<0, 0>>
Datum(n, k) == <<n, k>>
dmem_type == [word |-> 4, half |-> 2, byte |-> 1]

AddWord(dmem, n) == Append(dmem, [k \in 1 .. 4 |-> Datum(n, k)])

\* The second half goes to the upper half of the last word.
AddHalf_Swapped(dmem, half_num, n) ==
  IF half_num = 0 THEN Append(dmem, <<Zero, Zero, Datum(n, 1), Datum(n, 2)>>)
  ELSE [dmem EXCEPT ![Len(dmem)] = <<Datum(n, 1), Datum(n, 2), @[3], @[4]>>]
AddHalf(dmem, half_num, n) ==
  IF half_num = 0 THEN Append(dmem, <<Datum(n, 1), Datum(n, 2), Zero, Zero>>)
  ELSE [dmem EXCEPT ![Len(dmem)] = <<@[1], @[2], Datum(n, 1), Datum(n, 2)>>]

\* The bytes above the one that is put in are cleared, until the last.
AddByte(dmem, byte_num, n) ==
  IF byte_num = 0 THEN Append(dmem, <<Datum(n, 1), Zero, Zero, Zero>>)
  ELSE [dmem EXCEPT ![Len(dmem)] =
          [k \in 1 .. 4 |-> IF k <= byte_num THEN @[k]
                            ELSE IF k = byte_num + 1 THEN Datum(n, 1)
                            ELSE Zero]]
=============================================================================
