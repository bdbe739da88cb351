------------------------------ MODULE MCScalar ------------------------------
(***************************************************************************)
(* Instances of the scalar core on the small machine.                      *)
(***************************************************************************)
EXTENDS ScalarRefinement, SmallMachine
=============================================================================
