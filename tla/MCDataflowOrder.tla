--------------------------- MODULE MCDataflowOrder ---------------------------
(* Instances of DataflowOrder for TLC.                                     *)
EXTENDS DataflowOrder, TLC

CONSTANTS m1, m2, m3, m4, r1, r2, r3, r4

\* The graphs without cycles, up to the names of the modules.
Acyclic == SUBSET {<<m1, m2>>, <<m1, m3>>, <<m1, m4>>, <<m2, m3>>, <<m2, m4>>, <<m3, m4>>}

\* And some in which a module feeds itself.
Looping == {{<<m1, m1>>}, {<<m1, m1>>, <<m2, m3>>, <<m3, m4>>}}

WithLoops == Acyclic \cup Looping
=============================================================================
