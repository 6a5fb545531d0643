--------------------------- MODULE MCMultiBuffer ---------------------------
(* Instances of MultiBuffer for TLC.                                       *)
EXTENDS MultiBuffer, TLC

CONSTANTS upd, ren, ren2, main, b1, b2, b3, b4
=============================================================================
