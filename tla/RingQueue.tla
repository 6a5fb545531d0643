----------------------------- MODULE RingQueue -----------------------------
(***************************************************************************)
(* An MpMcRingBuf as the components above it see it, one operator per step *)
(* of BoundedFifo, which MpMcRingBuf is shown to implement.  A queue is a  *)
(* sequence of entries in the order of the swaps of mEnqueuePos; an entry  *)
(* names the thread that still writes it, or NoThread.  A try_pop finds    *)
(* nothing when the entry at the head is still being written, even if      *)
(* later entries are complete.                                             *)
(***************************************************************************)
EXTENDS Naturals, Sequences

CONSTANT NoThread

\* Thread t wins the swap of mEnqueuePos for item x.
Claimed(q, t, x) == Append(q, [item |-> x, writer |-> t])

\* Thread t stores the sequence number of the cell it claimed.
Published(q, t) ==
    [i \in DOMAIN q |->
        IF q[i].writer = t THEN [item |-> q[i].item, writer |-> NoThread] ELSE q[i]]

\* Whether try_pop succeeds, what it returns and what it leaves.
Ready(q) == q # <<>> /\ Head(q).writer = NoThread
First(q) == Head(q).item
Rest(q) == Tail(q)

\* The items in a queue, whether written or not.
ItemsOf(q) == {q[i].item : i \in DOMAIN q}
InOrder(q) == [i \in DOMAIN q |-> q[i].item]
=============================================================================
