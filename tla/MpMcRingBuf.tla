---------------------------- MODULE MpMcRingBuf ----------------------------
(***************************************************************************)
(* ork::MpMcRingBuf (ork/kernel/ringbuffer.hpp), the bounded lock-free     *)
(* queue under every queue of the engine: the operation queues, the        *)
(* drawable buffers, the synchronisation tokens and the profiler.          *)
(*                                                                         *)
(* Every access to a shared variable is a step of its own: a try_push      *)
(* loads mEnqueuePos, loads the sequence number of the cell, swaps         *)
(* mEnqueuePos, writes the cell and publishes it; a try_pop does the same  *)
(* from the other end.  The acquire and release orders on mSequence make   *)
(* the plain accesses to mData ordered, and the relaxed loads of the two   *)
(* positions may be stale only as a load made earlier would be, so the     *)
(* interleavings of these steps are the executions of the code.            *)
(***************************************************************************)
EXTENDS Integers, Sequences

CONSTANTS
    Producers,   \* threads that call try_push or push
    Consumers,   \* threads that call try_pop or pop
    Blocking,    \* those that call the retrying forms, push and pop
    Items,       \* the values carried
    None,        \* no value
    Capacity,    \* max_items, the template parameter
    MaxPos       \* bound: no push starts once mEnqueuePos has reached it

ASSUME ThreadsAssumption == Producers \cap Consumers = {}
\* static_assert in the constructor; a power of two, so that "pos & mask" is
\* the remainder.  The proofs need only that there are two cells.
ASSUME CapacityAssumption == Capacity \in Nat /\ Capacity >= 2
ASSUME BoundAssumption == MaxPos \in Nat
ASSUME NoneAssumption == None \notin Items

Threads == Producers \cup Consumers
Cells == 0 .. Capacity - 1

VARIABLES
    mSequence,    \* per cell: the position it is ready for
    mData,        \* per cell: the value
    mEnqueuePos,
    mDequeuePos,
    pc,           \* per thread: the access it makes next
    pos,          \* per thread: the local pos of try_push and try_pop
    data          \* per thread: the argument of push, the result of pop

vars == <<mSequence, mData, mEnqueuePos, mDequeuePos, pc, pos, data>>

ring == <<mSequence, mData>>
positions == <<mEnqueuePos, mDequeuePos>>

Cell(p) == p % Capacity

Init ==
    /\ mSequence = [i \in Cells |-> i]
    /\ mData = [i \in Cells |-> None]
    /\ mEnqueuePos = 0
    /\ mDequeuePos = 0
    /\ pc = [t \in Threads |-> "idle"]
    /\ pos = [t \in Threads |-> 0]
    /\ data = [t \in Threads |-> None]

Goto(t, l) == pc' = [pc EXCEPT ![t] = l]

----------------------------------------------------------------------------
(* try_push and push                                                       *)

StartPush(p, v) ==
    /\ pc[p] = "idle"
    /\ mEnqueuePos < MaxPos
    /\ pos' = [pos EXCEPT ![p] = mEnqueuePos]
    /\ data' = [data EXCEPT ![p] = v]
    /\ Goto(p, "load")
    /\ UNCHANGED <<ring, positions>>

\* push sleeps and calls try_push again with the same item.
RetryPush(p) ==
    /\ pc[p] = "asleep"
    /\ pos' = [pos EXCEPT ![p] = mEnqueuePos]
    /\ Goto(p, "load")
    /\ UNCHANGED <<ring, positions, data>>

\* A call that finds no room or no item returns false to the retrying form,
\* which sleeps, or to its caller.
AfterFailure(t) == IF t \in Blocking THEN "asleep" ELSE "idle"

\* Mutant: a stale position is taken for a full ring.
MutPushLoadSequence(p) ==
    /\ pc[p] = "load"
    /\ \/ mSequence[Cell(pos[p])] = pos[p] /\ Goto(p, "swap")
       \/ mSequence[Cell(pos[p])] # pos[p] /\ Goto(p, AfterFailure(p))
    /\ UNCHANGED <<ring, positions, pos, data>>

PushLoadSequence(p) ==
    /\ pc[p] = "load"
    /\ LET seq == mSequence[Cell(pos[p])] IN
        \/ seq = pos[p] /\ Goto(p, "swap")
        \/ seq < pos[p] /\ Goto(p, AfterFailure(p))
        \/ seq > pos[p] /\ Goto(p, "reload")
    /\ UNCHANGED <<ring, positions, pos, data>>

PushReload(p) ==
    /\ pc[p] = "reload"
    /\ pos' = [pos EXCEPT ![p] = mEnqueuePos]
    /\ Goto(p, "load")
    /\ UNCHANGED <<ring, positions, data>>

\* Mutant: a load and a store instead of a compare-and-swap.
MutPushSwap(p) ==
    /\ pc[p] = "swap"
    /\ mEnqueuePos' = pos[p] + 1
    /\ Goto(p, "access")
    /\ UNCHANGED <<ring, mDequeuePos, pos, data>>

PushSwap(p) ==
    /\ pc[p] = "swap"
    /\ mEnqueuePos = pos[p]
    /\ mEnqueuePos' = pos[p] + 1
    /\ Goto(p, "access")
    /\ UNCHANGED <<ring, mDequeuePos, pos, data>>

\* compare_exchange_weak stores the value it found in pos, also when it fails
\* spuriously and that is the value it expected.
PushSwapFails(p) ==
    /\ pc[p] = "swap"
    /\ pos' = [pos EXCEPT ![p] = mEnqueuePos]
    /\ Goto(p, "load")
    /\ UNCHANGED <<ring, positions, data>>

PushWrite(p) ==
    /\ pc[p] = "access"
    /\ mData' = [mData EXCEPT ![Cell(pos[p])] = data[p]]
    /\ Goto(p, "publish")
    /\ UNCHANGED <<mSequence, positions, pos, data>>

\* Mutant: the cell is not published.
MutPushPublish(p) ==
    /\ pc[p] = "publish"
    /\ Goto(p, "idle")
    /\ UNCHANGED <<ring, positions, pos, data>>

PushPublish(p) ==
    /\ pc[p] = "publish"
    /\ mSequence' = [mSequence EXCEPT ![Cell(pos[p])] = pos[p] + 1]
    /\ Goto(p, "idle")
    /\ UNCHANGED <<mData, positions, pos, data>>

----------------------------------------------------------------------------
(* try_pop and pop                                                         *)

StartPop(c) ==
    /\ pc[c] \in {"idle", "asleep"}
    /\ pos' = [pos EXCEPT ![c] = mDequeuePos]
    /\ Goto(c, "load")
    /\ UNCHANGED <<ring, positions, data>>

PopLoadSequence(c) ==
    /\ pc[c] = "load"
    /\ LET seq == mSequence[Cell(pos[c])] IN
        \/ seq = pos[c] + 1 /\ Goto(c, "swap")
        \/ seq < pos[c] + 1 /\ Goto(c, AfterFailure(c))
        \/ seq > pos[c] + 1 /\ Goto(c, "reload")
    /\ UNCHANGED <<ring, positions, pos, data>>

PopReload(c) ==
    /\ pc[c] = "reload"
    /\ pos' = [pos EXCEPT ![c] = mDequeuePos]
    /\ Goto(c, "load")
    /\ UNCHANGED <<ring, positions, data>>

\* Mutant: the cell is claimed and its data never copied.
MutPopSwap(c) ==
    /\ pc[c] = "swap"
    /\ mDequeuePos = pos[c]
    /\ mDequeuePos' = pos[c] + 1
    /\ Goto(c, "publish")
    /\ UNCHANGED <<ring, mEnqueuePos, pos, data>>

PopSwap(c) ==
    /\ pc[c] = "swap"
    /\ mDequeuePos = pos[c]
    /\ mDequeuePos' = pos[c] + 1
    /\ Goto(c, "access")
    /\ UNCHANGED <<ring, mEnqueuePos, pos, data>>

PopSwapFails(c) ==
    /\ pc[c] = "swap"
    /\ pos' = [pos EXCEPT ![c] = mDequeuePos]
    /\ Goto(c, "load")
    /\ UNCHANGED <<ring, positions, data>>

PopRead(c) ==
    /\ pc[c] = "access"
    /\ data' = [data EXCEPT ![c] = mData[Cell(pos[c])]]
    /\ Goto(c, "publish")
    /\ UNCHANGED <<ring, positions, pos>>

\* Mutant: the lap is subtracted.
MutPopRelease(c) ==
    /\ pc[c] = "publish"
    /\ mSequence' = [mSequence EXCEPT ![Cell(pos[c])] = 1 + pos[c] - Capacity]
    /\ Goto(c, "idle")
    /\ UNCHANGED <<mData, positions, pos, data>>

\* The cell is handed to the producer that will come to it one lap later.
PopRelease(c) ==
    /\ pc[c] = "publish"
    /\ mSequence' = [mSequence EXCEPT ![Cell(pos[c])] = 1 + pos[c] + (Capacity - 1)]
    /\ Goto(c, "idle")
    /\ UNCHANGED <<mData, positions, pos, data>>

----------------------------------------------------------------------------
PushStep(p) ==
    \/ PushLoadSequence(p) \/ PushReload(p) \/ PushSwap(p) \/ PushSwapFails(p)
    \/ PushWrite(p) \/ PushPublish(p)

PopStep(c) ==
    \/ PopLoadSequence(c) \/ PopReload(c) \/ PopSwap(c) \/ PopSwapFails(c)
    \/ PopRead(c) \/ PopRelease(c)

Push(p) == PushStep(p) \/ RetryPush(p) \/ \E v \in Items : StartPush(p, v)
Pop(c) == PopStep(c) \/ StartPop(c)

Next ==
    \/ \E p \in Producers : Push(p)
    \/ \E c \in Consumers : Pop(c)

Spec == Init /\ [][Next]_vars

\* A call that has begun goes on, push and pop wake from their sleep, and
\* consumers keep calling, as a worker thread does.  Strong fairness on the
\* swap: the processor does not fail a compare_exchange_weak spuriously for
\* ever.  No producer is obliged to call.
Fairness ==
    /\ \A p \in Producers :
        WF_vars(PushStep(p) \/ RetryPush(p)) /\ SF_vars(PushSwap(p))
    /\ \A c \in Consumers : WF_vars(Pop(c)) /\ SF_vars(PopSwap(c))

FairSpec == Spec /\ Fairness

----------------------------------------------------------------------------
(* Properties                                                              *)

Labels == {"idle", "asleep", "load", "reload", "swap", "access", "publish"}

\* The type invariant: positions are naturals, a value read is an item or the
\* initial content of a cell.
TypeOK ==
    /\ mSequence \in [Cells -> Nat]
    /\ mData \in [Cells -> Items \cup {None}]
    /\ mEnqueuePos \in Nat
    /\ mDequeuePos \in Nat
    /\ pc \in [Threads -> Labels]
    /\ pos \in [Threads -> Nat]
    /\ data \in [Threads -> Items \cup {None}]

\* A thread that has won the swap owns the position it swapped until it
\* stores the sequence number of the cell.
Owns(t) == pc[t] \in {"access", "publish"}
Writers == {p \in Producers : Owns(p)}
Readers == {c \in Consumers : Owns(c)}

\* No two threads have won the same cell: the plain accesses to mData between
\* the swap and the store of mSequence, the write of try_push and the copy of
\* try_pop, never meet in one cell, whatever the laps the threads are on.
CellExclusive ==
    \A s, t \in Threads : s # t /\ Owns(s) /\ Owns(t) => Cell(pos[s]) # Cell(pos[t])

\* The consumer's position never passes the producers' and the producers never
\* lap the consumers, though each side swaps only its own counter.
PositionsBounded ==
    /\ mDequeuePos <= mEnqueuePos
    /\ mEnqueuePos <= mDequeuePos + Capacity

(* The inductive invariant behind the two.  A position is claimed between the *)
(* two swaps that pass it and vacant before the first; the cell it maps to   *)
(* carries one of two sequence numbers, and the owner of a position, if it   *)
(* has one, is the only thread that may change them.                         *)
ClaimedCells ==
    \A p \in mDequeuePos .. mEnqueuePos - 1 : mSequence[Cell(p)] \in {p, p + 1}

VacantCells ==
    \A p \in mEnqueuePos .. mDequeuePos + Capacity - 1 :
        mSequence[Cell(p)] \in {p, p - Capacity + 1}

WritersOwn ==
    \A p \in Producers :
        /\ pos[p] <= mEnqueuePos
        /\ Owns(p) => /\ mDequeuePos <= pos[p]
                      /\ pos[p] < mEnqueuePos
                      /\ mSequence[Cell(pos[p])] = pos[p]
        /\ pc[p] = "swap" /\ pos[p] = mEnqueuePos => mSequence[Cell(pos[p])] = pos[p]

ReadersOwn ==
    \A c \in Consumers :
        /\ pos[c] <= mDequeuePos
        /\ Owns(c) => /\ mEnqueuePos <= pos[c] + Capacity
                      /\ pos[c] < mDequeuePos
                      /\ mSequence[Cell(pos[c])] = pos[c] + 1
        /\ pc[c] = "swap" /\ pos[c] = mDequeuePos => mSequence[Cell(pos[c])] = pos[c] + 1

PositionsExclusive ==
    \A s, t \in Threads : s # t /\ Owns(s) /\ Owns(t) => pos[s] # pos[t]

Sequenced ==
    /\ PositionsBounded
    /\ ClaimedCells
    /\ VacantCells
    /\ WritersOwn
    /\ ReadersOwn
    /\ PositionsExclusive

\* The types, and the sequence number of each cell tied to the two positions and
\* to the thread that owns the cell.
Inv == TypeOK /\ Sequenced

\* A false from try_push has a reason: every cell is filled, or a consumer has
\* taken an item and not yet given its cell back.  A false from try_pop: there
\* is no item, or a producer has claimed a position and not yet published it.
\* (The second case is real: see StrandedByClaim in the README.)
FailureHasReason ==
    [][/\ \A p \in Producers :
            PushLoadSequence(p) /\ pc'[p] \in {"idle", "asleep"} =>
                mEnqueuePos - mDequeuePos = Capacity \/ Readers # {}
       /\ \A c \in Consumers :
            PopLoadSequence(c) /\ pc'[c] \in {"idle", "asleep"} =>
                mEnqueuePos = mDequeuePos \/ Writers # {}]_vars

\* The value with which position p was filled: in the cell once published, with
\* the producer that claimed p until then.
ValueAt(p) ==
    IF mSequence[Cell(p)] = p + 1
    THEN mData[Cell(p)]
    ELSE data[CHOOSE w \in Writers : pos[w] = p]

EntryAt(p) == [item |-> ValueAt(p), written |-> mSequence[Cell(p)] = p + 1]

\* What is claimed and not taken, oldest first, and what each consumer has.
Queue == [i \in 1 .. mEnqueuePos - mDequeuePos |-> EntryAt(mDequeuePos + i - 1)]
Taken == [c \in Consumers |-> IF pc[c] = "access" THEN mData[Cell(pos[c])] ELSE data[c]]

Fifo == INSTANCE BoundedFifo WITH queue <- Queue, removing <- Readers, taken <- Taken

\* The ring implements the bounded FIFO: each item is removed once, by one
\* consumer, in the order the swaps of mEnqueuePos gave, and with its value.
ImplementsFifo == Fifo!Spec

\* Every position a producer claims is taken by some consumer, as long as
\* consumers keep calling.
EveryItemTaken == \A i \in 0 .. MaxPos : mEnqueuePos > i ~> mDequeuePos > i

\* Every call of push returns, the retrying ones too, as long as consumers
\* keep calling and the producers' calls are finitely many.
PushReturns == \A p \in Producers : pc[p] # "idle" ~> pc[p] = "idle"
=============================================================================
