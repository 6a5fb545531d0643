------------------------------- MODULE MCOpq -------------------------------
(* Instances of Opq for TLC: threads, lambdas and groups, and the limits,  *)
(* groups and permissions that the configurations choose from.             *)
EXTENDS Opq, TLC

CONSTANTS c1, c2, w1, w2, pump, o1, o2, o3, g1, g2, opq

OneGroup == <<g1>>
TwoGroups == <<g1, g2>>

AllInDefault == [o \in Ops |-> DefaultGroup]
\* The default group comes second: Process looks at the other one first.
Split == [o \in Ops |-> IF o = o1 THEN g1 ELSE g2]

Unlimited == [g \in Groups |-> 0]
Limited == [g \in Groups |-> 1]

NoDrain == [c \in Clients |-> {}]
DrainAll == [c \in Clients |-> Synchros]
DrainOpq == [c \in Clients |-> {TheOpq}]
OtherDrains == [c \in Clients |-> IF c = c2 THEN {TheOpq} ELSE {}]
=============================================================================
