----------------------------- MODULE MCEncoding -----------------------------
(***************************************************************************)
(* Every mnemonic with register numbers that differ in every bit, and with *)
(* immediates that have one bit set, one bit clear, or are at an end of a  *)
(* format's range.                                                         *)
(***************************************************************************)
EXTENDS Encoding

Powers == [n \in 0 .. 30 |-> 2^n]

Instructions == Known \cup handled_pseudo

Triples == {<<10, 21, 31>>, <<21, 31, 0>>, <<31, 0, 10>>, <<0, 10, 21>>,
            <<1, 2, 4>>, <<8, 16, 1>>}
OneBitEach == {2^n : n \in 0 .. 19} \cup {-(2^n) : n \in 0 .. 20}
                \cup {-1 - 2^n : n \in 0 .. 19}
Ends == {0, 2047, 4094, 4095, 2^20 - 2, 2^20 - 1, 31, 1365, -1366}
Tried == OneBitEach \cup Ends
=============================================================================
