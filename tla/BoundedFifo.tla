---------------------------- MODULE BoundedFifo ----------------------------
(***************************************************************************)
(* What the ring buffer of ork.core promises its users, without cells,     *)
(* sequence numbers or compare-and-swap: a bounded FIFO in which insertion *)
(* and removal each take two steps.  An item has its place in the order    *)
(* when it is inserted but may not be taken before its producer is done    *)
(* writing it; an item leaves the order when it is removed but the room it *)
(* used is given back only when its consumer is done copying it.           *)
(***************************************************************************)
EXTENDS Naturals, Sequences, FiniteSets

CONSTANTS
    Consumers,   \* threads that remove
    Items,       \* the values carried
    None,        \* no value
    Capacity     \* room for that many items

VARIABLES
    queue,       \* the items inserted and not removed, oldest first
    removing,    \* consumers that have taken an item and still copy it
    taken        \* the item each consumer removed last

vars == <<queue, removing, taken>>

Entry == [item : Items, written : BOOLEAN]

TypeOK ==
    /\ queue \in Seq(Entry)
    /\ removing \in SUBSET Consumers
    /\ taken \in [Consumers -> Items \cup {None}]

Init ==
    /\ queue = <<>>
    /\ removing = {}
    /\ taken = [c \in Consumers |-> None]

Insert(v) ==
    /\ Len(queue) + Cardinality(removing) < Capacity
    /\ queue' = Append(queue, [item |-> v, written |-> FALSE])
    /\ UNCHANGED <<removing, taken>>

FinishInsert(i) ==
    /\ ~queue[i].written
    /\ queue' = [queue EXCEPT ![i].written = TRUE]
    /\ UNCHANGED <<removing, taken>>

Remove(c) ==
    /\ c \notin removing
    /\ queue # <<>>
    /\ Head(queue).written
    /\ taken' = [taken EXCEPT ![c] = Head(queue).item]
    /\ queue' = Tail(queue)
    /\ removing' = removing \cup {c}

FinishRemove(c) ==
    /\ c \in removing
    /\ removing' = removing \ {c}
    /\ UNCHANGED <<queue, taken>>

Next ==
    \/ \E v \in Items : Insert(v)
    \/ \E i \in DOMAIN queue : FinishInsert(i)
    \/ \E c \in Consumers : Remove(c) \/ FinishRemove(c)

Spec == Init /\ [][Next]_vars
=============================================================================
