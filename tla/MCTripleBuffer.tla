--------------------------- MODULE MCTripleBuffer ---------------------------
(* TripleBuffer has no parameter but one flag: TLC checks all of it.       *)
EXTENDS TripleBuffer
=============================================================================
