------------------------------ MODULE MCDriver ------------------------------
(***************************************************************************)
(* Two versions of one program. Another program would differ from them in  *)
(* that its assembly is not there at first, as theirs is not either.       *)
(***************************************************************************)
EXTENDS Driver

TwoPrograms == {"fft", "fft edited"}
Folder == [p \in TwoPrograms |-> "fft"]
=============================================================================
