--------------------------- MODULE MCMpMcRingBuf ---------------------------
(* Instances of MpMcRingBuf for TLC: names for threads and items.          *)
EXTENDS MpMcRingBuf

CONSTANTS p1, p2, c1, c2, a, b
=============================================================================
