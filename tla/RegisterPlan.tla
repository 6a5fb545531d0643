---------------------------- MODULE RegisterPlan ----------------------------
(***************************************************************************)
(* What whoever computes a dataflow graph needs of its dgqueue, without    *)
(* depths, stacks and lists of children: the modules are put in a line one *)
(* by one, each after everything it reads, and an output may get a         *)
(* register that others had before it, but only one that nobody in the     *)
(* rest of the line will read.                                             *)
(***************************************************************************)
EXTENDS Naturals

CONSTANTS Modules, Registers, None

VARIABLES
    connections, probe,   \* the graph and the module that is looked at
    position,             \* of the modules in the line, a number
    register              \* per module, its output's, or None

Planned == DOMAIN position
Reads(m) == {p \in Modules : <<p, m>> \in connections} \ {m}
ReadBy(m) == {d \in Modules : <<m, d>> \in connections} \ {m}

Init ==
    /\ connections \subseteq Modules \X Modules
    /\ probe \in Modules \cup {None}
    /\ position = <<>>
    /\ register = [m \in Modules |-> None]

\* The content of p's register is still wanted: by a module that is not in the
\* line, or by who looks at the probed module when all are computed.
Wanted(p) == ~(ReadBy(p) \subseteq Planned) \/ (p = probe /\ ReadBy(p) # {})

Plan(m) ==
    /\ m \notin Planned
    /\ Reads(m) \subseteq Planned
    /\ DOMAIN position' = Planned \cup {m}
    /\ \A p \in Planned : position'[p] = position[p] /\ position[p] < position'[m]
    /\ \/ UNCHANGED register
       \/ \E r \in Registers :
            /\ \A p \in Planned : register[p] = r => ~Wanted(p)
            /\ register' = [register EXCEPT ![m] = r]
    /\ UNCHANGED <<connections, probe>>

Next == \E m \in Modules : Plan(m)

Spec == Init /\ [][Next]_<<connections, probe, position, register>>
=============================================================================
