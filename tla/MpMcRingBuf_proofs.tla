------------------------- MODULE MpMcRingBuf_proofs -------------------------
(***************************************************************************)
(* Proofs about MpMcRingBuf, for every set of threads and every capacity   *)
(* of at least two cells.                                                  *)
(***************************************************************************)
EXTENDS MpMcRingBuf, FiniteSetTheorems, SequenceTheorems, TLAPS

(* The arithmetic of "pos & mask".                                         *)

LEMMA CellType == \A p \in Nat : Cell(p) \in Cells
  BY CapacityAssumption DEF Cell, Cells

LEMMA Division ==
  ASSUME NEW p \in Nat
  PROVE  \E d \in Int : p = Capacity * d + Cell(p)
  <1>1. p \div Capacity \in Int /\ p = Capacity * (p \div Capacity) + (p % Capacity)
    BY CapacityAssumption
  <1> QED
    BY <1>1 DEF Cell

LEMMA Multiple ==
  ASSUME NEW x \in Int, x # 0
  PROVE  Capacity * x >= Capacity \/ Capacity * x <= -Capacity
  BY CapacityAssumption

\* Two positions less than a lap apart map to two cells.
LEMMA CellApart ==
  ASSUME NEW p \in Nat, NEW q \in Nat, p < q, q < p + Capacity
  PROVE  Cell(p) # Cell(q)
  <1> SUFFICES ASSUME Cell(p) = Cell(q) PROVE FALSE
    OBVIOUS
  <1>1. PICK d \in Int : p = Capacity * d + Cell(p)
    BY Division
  <1>2. PICK e \in Int : q = Capacity * e + Cell(q)
    BY Division
  <1>3. Cell(p) \in Int
    BY CellType DEF Cells
  <1>4. q - p = Capacity * (e - d)
    BY <1>1, <1>2, <1>3, CapacityAssumption
  <1>5. e - d # 0
    BY <1>4, CapacityAssumption
  <1> QED
    BY <1>4, <1>5, Multiple, CapacityAssumption

\* A position and the one a lap later map to one cell.
LEMMA CellLap ==
  ASSUME NEW p \in Nat
  PROVE  Cell(p + Capacity) = Cell(p)
  <1> DEFINE q == p + Capacity
  <1>1. PICK d \in Int : p = Capacity * d + Cell(p)
    BY Division
  <1>2. PICK e \in Int : q = Capacity * e + Cell(q)
    BY Division, CapacityAssumption
  <1>3. Cell(p) \in Cells /\ Cell(q) \in Cells
    BY CellType, CapacityAssumption
  <1>4. Capacity * (e - d - 1) = Cell(p) - Cell(q)
    BY <1>1, <1>2, <1>3, CapacityAssumption DEF Cells
  <1>5. Cell(p) - Cell(q) < Capacity /\ Cell(p) - Cell(q) > -Capacity
    BY <1>3, CapacityAssumption DEF Cells
  <1>6. e - d - 1 = 0
    BY <1>4, <1>5, Multiple, CapacityAssumption
  <1> QED
    BY <1>6, <1>4, <1>3, CapacityAssumption DEF Cells

----------------------------------------------------------------------------
(* The type invariant: no step leaves the types, though the sequence       *)
(* numbers and the positions grow for ever.                                *)
THEOREM TypeCorrect == Spec => []TypeOK
  <1>1. Init => TypeOK
    BY CapacityAssumption DEF Init, TypeOK, Cells, Labels, Threads
  <1>2. TypeOK /\ [Next]_vars => TypeOK'
    <2> SUFFICES ASSUME TypeOK, [Next]_vars PROVE TypeOK'
      OBVIOUS
    <2> USE DEF TypeOK, Labels, Goto, AfterFailure, ring, positions
    <2>1. ASSUME NEW p \in Producers, Push(p) PROVE TypeOK'
      <3> p \in Threads
        BY DEF Threads
      <3>1. CASE \E v \in Items : StartPush(p, v)
        BY <3>1 DEF StartPush
      <3>2. CASE RetryPush(p)
        BY <3>2 DEF RetryPush
      <3>3. CASE PushLoadSequence(p)
        BY <3>3 DEF PushLoadSequence
      <3>4. CASE PushReload(p) \/ PushSwap(p) \/ PushSwapFails(p)
        BY <3>4 DEF PushReload, PushSwap, PushSwapFails
      <3>5. CASE PushWrite(p)
        BY <3>5, CellType DEF PushWrite
      <3>6. CASE PushPublish(p)
        BY <3>6, CellType DEF PushPublish
      <3> QED
        BY <2>1, <3>1, <3>2, <3>3, <3>4, <3>5, <3>6 DEF Push, PushStep
    <2>2. ASSUME NEW c \in Consumers, Pop(c) PROVE TypeOK'
      <3> c \in Threads
        BY DEF Threads
      <3>1. CASE StartPop(c)
        BY <3>1 DEF StartPop
      <3>2. CASE PopLoadSequence(c)
        BY <3>2 DEF PopLoadSequence
      <3>3. CASE PopReload(c) \/ PopSwap(c) \/ PopSwapFails(c)
        BY <3>3 DEF PopReload, PopSwap, PopSwapFails
      <3>4. CASE PopRead(c)
        BY <3>4, CellType DEF PopRead
      <3>5. CASE PopRelease(c)
        BY <3>5, CellType, CapacityAssumption DEF PopRelease
      <3> QED
        BY <2>2, <3>1, <3>2, <3>3, <3>4, <3>5 DEF Pop, PopStep
    <2>3. CASE UNCHANGED vars
      BY <2>3 DEF vars
    <2> QED
      BY <2>1, <2>2, <2>3 DEF Next
  <1> QED
    BY <1>1, <1>2, PTL DEF Spec

----------------------------------------------------------------------------
(* Mutual exclusion on the cells.                                          *)

LEMMA InitInv == Init => Sequenced
  <1> SUFFICES ASSUME Init PROVE Sequenced
    OBVIOUS
  <1>1. \A i \in 0 .. Capacity - 1 : Cell(i) = i
    BY CapacityAssumption DEF Cell
  <1> QED
    BY <1>1, CapacityAssumption
    DEF Init, Sequenced, Cells, PositionsBounded, ClaimedCells, VacantCells,
        WritersOwn, ReadersOwn, PositionsExclusive, Owns, Threads

\* Positions that are claimed, or freed within the last lap, have cells of
\* their own.
LEMMA WindowApart ==
  ASSUME NEW p \in Nat, NEW q \in Nat, p # q, p < q + Capacity, q < p + Capacity
  PROVE  Cell(p) # Cell(q)
  BY CellApart, CapacityAssumption

\* What the invariant gives in the form of the property: no two threads own
\* one cell.
LEMMA InvExclusive == TypeOK /\ Sequenced => CellExclusive
  <1> SUFFICES ASSUME TypeOK, Sequenced,
                      NEW s \in Threads, NEW t \in Threads, s # t, Owns(s), Owns(t)
               PROVE  Cell(pos[s]) # Cell(pos[t])
    BY DEF CellExclusive
  <1> USE DEF Sequenced, TypeOK
  <1>1. pos[s] \in Nat /\ pos[t] \in Nat /\ pos[s] # pos[t]
    BY DEF PositionsExclusive
  <1>2. \A u \in {s, t} : mEnqueuePos <= pos[u] + Capacity /\ pos[u] < mEnqueuePos
    BY CapacityAssumption DEF Threads, WritersOwn, ReadersOwn, PositionsBounded
  <1>3. pos[s] < pos[t] + Capacity /\ pos[t] < pos[s] + Capacity
    BY <1>1, <1>2, CapacityAssumption
  <1> QED
    BY <1>1, <1>3, WindowApart

\* Loads, failed swaps and accesses to the data change neither the sequence
\* numbers nor the two positions, nor who owns what.
LEMMA LocalStep ==
  ASSUME TypeOK, TypeOK', Sequenced, NEW t \in Threads,
         UNCHANGED <<mSequence, mEnqueuePos, mDequeuePos>>,
         \A u \in Threads \ {t} : pc'[u] = pc[u] /\ pos'[u] = pos[u],
         Owns(t)' => Owns(t) /\ pos'[t] = pos[t],
         t \in Producers => pos'[t] <= mEnqueuePos,
         t \in Consumers => pos'[t] <= mDequeuePos,
         pc'[t] = "swap" /\ t \in Producers => mSequence[Cell(pos'[t])] = pos'[t],
         pc'[t] = "swap" /\ t \in Consumers => mSequence[Cell(pos'[t])] = pos'[t] + 1
  PROVE  Sequenced'
  <1> USE DEF Sequenced
  <1>1. PositionsBounded' /\ ClaimedCells' /\ VacantCells'
    BY DEF PositionsBounded, ClaimedCells, VacantCells
  <1>2. WritersOwn'
    BY DEF WritersOwn, Owns, Threads
  <1>3. ReadersOwn'
    BY DEF ReadersOwn, Owns, Threads
  <1>4. PositionsExclusive'
    BY DEF PositionsExclusive, Owns
  <1> QED
    BY <1>1, <1>2, <1>3, <1>4

LEMMA PushSwapInv ==
  ASSUME TypeOK, TypeOK', Sequenced, NEW p \in Producers, PushSwap(p)
  PROVE  Sequenced'
  <1> p \in Threads
    BY DEF Threads
  <1> DEFINE e == mEnqueuePos
  <1> USE DEF Sequenced, TypeOK, PushSwap, Goto, ring, Threads
  <1>1. mSequence[Cell(e)] = e /\ pos[p] = e
    BY DEF WritersOwn
  <1>2. e < mDequeuePos + Capacity
    <2> SUFFICES ASSUME e = mDequeuePos + Capacity PROVE FALSE
      BY CapacityAssumption DEF PositionsBounded
    <2>1. Cell(e) = Cell(mDequeuePos)
      BY CellLap
    <2>2. mSequence[Cell(mDequeuePos)] \in {mDequeuePos, mDequeuePos + 1}
      BY CapacityAssumption DEF ClaimedCells
    <2> QED
      BY <1>1, <2>1, <2>2, CapacityAssumption
  <1>3. PositionsBounded'
    BY <1>2, CapacityAssumption DEF PositionsBounded
  <1>4. ClaimedCells'
    BY <1>1 DEF ClaimedCells, PositionsBounded
  <1>5. VacantCells'
    BY CapacityAssumption DEF VacantCells
  <1>6. WritersOwn'
    BY <1>1, <1>3 DEF WritersOwn, Owns, PositionsBounded
  <1>7. ReadersOwn'
    <2> SUFFICES ASSUME NEW c \in Consumers, Owns(c), e = pos[c] + Capacity PROVE FALSE
      BY ThreadsAssumption, CapacityAssumption DEF ReadersOwn, Owns
    <2>1. Cell(e) = Cell(pos[c])
      BY CellLap
    <2> QED
      BY <1>1, <2>1, CapacityAssumption DEF ReadersOwn
  <1>8. PositionsExclusive'
    BY <1>1 DEF PositionsExclusive, Owns, WritersOwn, ReadersOwn, PositionsBounded
  <1> QED
    BY <1>3, <1>4, <1>5, <1>6, <1>7, <1>8

LEMMA PopSwapInv ==
  ASSUME TypeOK, TypeOK', Sequenced, NEW c \in Consumers, PopSwap(c)
  PROVE  Sequenced'
  <1> c \in Threads
    BY DEF Threads
  <1> DEFINE d == mDequeuePos
  <1> USE DEF Sequenced, TypeOK, PopSwap, Goto, ring, Threads
  <1>1. mSequence[Cell(d)] = d + 1 /\ pos[c] = d
    BY DEF ReadersOwn
  <1>2. d < mEnqueuePos
    <2> SUFFICES ASSUME d = mEnqueuePos PROVE FALSE
      BY DEF PositionsBounded
    <2> QED
      BY <1>1, CapacityAssumption DEF VacantCells
  <1>3. PositionsBounded'
    BY <1>2, CapacityAssumption DEF PositionsBounded
  <1>4. ClaimedCells'
    BY DEF ClaimedCells
  <1>5. VacantCells'
    <2>1. Cell(d + Capacity) = Cell(d)
      BY CellLap
    <2> QED
      BY <1>1, <2>1, CapacityAssumption DEF VacantCells
  <1>6. WritersOwn'
    <2> SUFFICES ASSUME NEW p \in Producers, Owns(p), pos[p] = d PROVE FALSE
      BY ThreadsAssumption DEF WritersOwn, Owns
    <2> QED
      BY <1>1 DEF WritersOwn
  <1>7. ReadersOwn'
    BY <1>1, <1>3 DEF ReadersOwn, Owns, PositionsBounded
  <1>8. PositionsExclusive'
    BY <1>1 DEF PositionsExclusive, Owns, WritersOwn, ReadersOwn
  <1> QED
    BY <1>3, <1>4, <1>5, <1>6, <1>7, <1>8

LEMMA PushPublishInv ==
  ASSUME TypeOK, TypeOK', Sequenced, NEW p \in Producers, PushPublish(p)
  PROVE  Sequenced'
  <1> p \in Threads
    BY DEF Threads
  <1> DEFINE q == pos[p]
  <1> USE DEF Sequenced, TypeOK, PushPublish, Goto, positions, Threads
  <1>1. mDequeuePos <= q /\ q < mEnqueuePos /\ mSequence[Cell(q)] = q /\ q \in Nat
    BY DEF WritersOwn, Owns
  <1>2. Cell(q) \in Cells
    BY CellType
  <1>3. \A r \in Nat : r # q /\ r < q + Capacity /\ q < r + Capacity
                        => mSequence'[Cell(r)] = mSequence[Cell(r)]
    BY <1>1, <1>2, WindowApart
  <1>4. mSequence'[Cell(q)] = q + 1
    BY <1>2
  <1>5. PositionsBounded'
    BY DEF PositionsBounded
  <1>6. ClaimedCells'
    BY <1>1, <1>3, <1>4, CapacityAssumption DEF ClaimedCells, PositionsBounded
  <1>7. VacantCells'
    BY <1>1, <1>3, CapacityAssumption DEF VacantCells, PositionsBounded
  <1>8. WritersOwn'
    <2> SUFFICES ASSUME NEW w \in Producers, w # p,
                        Owns(w) \/ (pc[w] = "swap" /\ pos[w] = mEnqueuePos)
                 PROVE  mSequence'[Cell(pos[w])] = pos[w]
      BY DEF WritersOwn, Owns
    <2>1. mSequence[Cell(pos[w])] = pos[w] /\ pos[w] # q
      BY <1>1 DEF WritersOwn, PositionsExclusive, Owns
    <2>2. Cell(pos[w]) # Cell(q)
      BY <1>1, <2>1
    <2> QED
      BY <2>1, <2>2
  <1>9. ReadersOwn'
    <2> SUFFICES ASSUME NEW c \in Consumers,
                        Owns(c) \/ (pc[c] = "swap" /\ pos[c] = mDequeuePos)
                 PROVE  mSequence'[Cell(pos[c])] = pos[c] + 1
      BY ThreadsAssumption DEF ReadersOwn, Owns
    <2>1. mSequence[Cell(pos[c])] = pos[c] + 1 /\ pos[c] <= q
      BY <1>1 DEF ReadersOwn
    <2>2. mEnqueuePos <= pos[c] + Capacity
      BY DEF ReadersOwn, PositionsBounded
    <2>3. pos[c] # q
      BY <1>1, <2>1
    <2> QED
      BY <1>1, <1>3, <2>1, <2>2, <2>3, CapacityAssumption
  <1>10. PositionsExclusive'
    BY DEF PositionsExclusive, Owns
  <1> QED
    BY <1>5, <1>6, <1>7, <1>8, <1>9, <1>10

LEMMA PopReleaseInv ==
  ASSUME TypeOK, TypeOK', Sequenced, NEW c \in Consumers, PopRelease(c)
  PROVE  Sequenced'
  <1> c \in Threads
    BY DEF Threads
  <1> DEFINE q == pos[c]
  <1> USE DEF Sequenced, TypeOK, PopRelease, Goto, positions, Threads
  <1>1. /\ q < mDequeuePos /\ mEnqueuePos <= q + Capacity
        /\ mSequence[Cell(q)] = q + 1 /\ q \in Nat
    BY DEF ReadersOwn, Owns
  <1>2. Cell(q) \in Cells /\ Cell(q + Capacity) = Cell(q)
    BY CellType, CellLap
  <1>3. mSequence'[Cell(q)] = q + Capacity
    BY <1>2, CapacityAssumption
  <1>4. \A r \in Nat : Cell(r) # Cell(q) => mSequence'[Cell(r)] = mSequence[Cell(r)]
    BY <1>2, CellType
  <1>5. PositionsBounded'
    BY DEF PositionsBounded
  <1>6. ClaimedCells'
    <2> SUFFICES ASSUME NEW r \in mDequeuePos .. mEnqueuePos - 1
                 PROVE  Cell(r) # Cell(q)
      BY <1>4 DEF ClaimedCells
    <2> QED
      BY <1>1, WindowApart, CapacityAssumption
  <1>7. VacantCells'
    <2> SUFFICES ASSUME NEW r \in mEnqueuePos .. mDequeuePos + Capacity - 1
                 PROVE  mSequence'[Cell(r)] \in {r, r - Capacity + 1}
      BY DEF VacantCells
    <2>1. CASE r = q + Capacity
      BY <2>1, <1>2, <1>3
    <2>2. CASE r # q + Capacity
      <3>1. Cell(r) # Cell(q + Capacity)
        BY <2>2, <1>1, WindowApart, CapacityAssumption DEF PositionsBounded
      <3> QED
        BY <3>1, <1>2, <1>4 DEF VacantCells
    <2> QED
      BY <2>1, <2>2
  <1>8. WritersOwn'
    <2> SUFFICES ASSUME NEW p \in Producers,
                        Owns(p) \/ (pc[p] = "swap" /\ pos[p] = mEnqueuePos)
                 PROVE  mSequence'[Cell(pos[p])] = pos[p]
      BY ThreadsAssumption DEF WritersOwn, Owns
    <2>1. mSequence[Cell(pos[p])] = pos[p] /\ q < pos[p]
      BY <1>1 DEF WritersOwn, PositionsBounded
    <2>2. CASE Cell(pos[p]) = Cell(q)
      \* then q + 1 is pos[p], less than a lap away
      <3>1. pos[p] = q + 1
        BY <2>1, <2>2, <1>1
      <3> QED
        BY <3>1, <2>2, <1>1, WindowApart, CapacityAssumption
    <2> QED
      BY <2>1, <2>2, <1>4
  <1>9. ReadersOwn'
    <2> SUFFICES ASSUME NEW r \in Consumers, r # c,
                        Owns(r) \/ (pc[r] = "swap" /\ pos[r] = mDequeuePos)
                 PROVE  mSequence'[Cell(pos[r])] = pos[r] + 1
      BY DEF ReadersOwn, Owns
    <2>1. mSequence[Cell(pos[r])] = pos[r] + 1 /\ pos[r] # q
      BY <1>1 DEF ReadersOwn, PositionsExclusive, Owns
    <2>2. Cell(pos[r]) # Cell(q)
      BY <1>1, <2>1
    <2> QED
      BY <2>1, <2>2, <1>4
  <1>10. PositionsExclusive'
    BY DEF PositionsExclusive, Owns
  <1> QED
    BY <1>5, <1>6, <1>7, <1>8, <1>9, <1>10

LEMMA PushInv ==
  ASSUME TypeOK, TypeOK', Sequenced, NEW p \in Producers, Push(p)
  PROVE  Sequenced'
  <1> p \in Threads /\ p \notin Consumers
    BY ThreadsAssumption DEF Threads
  <1>1. CASE PushSwap(p)
    BY <1>1, PushSwapInv
  <1>2. CASE PushPublish(p)
    BY <1>2, PushPublishInv
  <1>3. CASE PushLoadSequence(p)
    <2>1. pos[p] <= mEnqueuePos
      BY DEF Sequenced, WritersOwn
    <2> QED
      BY <1>3, <2>1, LocalStep DEF PushLoadSequence, Goto, AfterFailure, Owns, TypeOK,
                                   ring, positions
  <1>4. CASE PushWrite(p)
    <2>1. pos[p] <= mEnqueuePos
      BY DEF Sequenced, WritersOwn
    <2> QED
      BY <1>4, <2>1, LocalStep DEF PushWrite, Goto, Owns, TypeOK, positions
  <1>5. CASE RetryPush(p) \/ PushReload(p) \/ PushSwapFails(p)
    BY <1>5, LocalStep DEF RetryPush, PushReload, PushSwapFails, Goto, Owns, TypeOK,
                           ring, positions
  <1>6. CASE \E v \in Items : StartPush(p, v)
    BY <1>6, LocalStep DEF StartPush, Goto, Owns, TypeOK, ring, positions
  <1> QED
    BY <1>1, <1>2, <1>3, <1>4, <1>5, <1>6 DEF Push, PushStep

LEMMA PopInv ==
  ASSUME TypeOK, TypeOK', Sequenced, NEW c \in Consumers, Pop(c)
  PROVE  Sequenced'
  <1> c \in Threads /\ c \notin Producers
    BY ThreadsAssumption DEF Threads
  <1>1. CASE PopSwap(c)
    BY <1>1, PopSwapInv
  <1>2. CASE PopRelease(c)
    BY <1>2, PopReleaseInv
  <1>3. CASE PopLoadSequence(c)
    <2>1. pos[c] <= mDequeuePos
      BY DEF Sequenced, ReadersOwn
    <2> QED
      BY <1>3, <2>1, LocalStep DEF PopLoadSequence, Goto, AfterFailure, Owns, TypeOK,
                                   ring, positions
  <1>4. CASE PopRead(c)
    <2>1. pos[c] <= mDequeuePos
      BY DEF Sequenced, ReadersOwn
    <2> QED
      BY <1>4, <2>1, LocalStep DEF PopRead, Goto, Owns, TypeOK, ring, positions
  <1>5. CASE StartPop(c) \/ PopReload(c) \/ PopSwapFails(c)
    BY <1>5, LocalStep DEF StartPop, PopReload, PopSwapFails, Goto, Owns, TypeOK,
                           ring, positions
  <1> QED
    BY <1>1, <1>2, <1>3, <1>4, <1>5 DEF Pop, PopStep

\* The sequence numbers of the cells, the two positions and the threads that own
\* a cell belong together (ringbuffer.hpp, try_push and try_pop).
THEOREM SequencedAlways == Spec => []Sequenced
  <1>1. TypeOK /\ TypeOK' /\ Sequenced /\ [Next]_vars => Sequenced'
    <2> SUFFICES ASSUME TypeOK, TypeOK', Sequenced, [Next]_vars PROVE Sequenced'
      OBVIOUS
    <2>1. CASE UNCHANGED vars
      BY <2>1 DEF vars, Sequenced, PositionsBounded, ClaimedCells, VacantCells,
                  WritersOwn, ReadersOwn, PositionsExclusive, Owns
    <2> QED
      BY <2>1, PushInv, PopInv DEF Next
  <1> QED
    BY <1>1, InitInv, TypeCorrect, PTL DEF Spec

\* The inductive invariant, with the types it is about.
THEOREM Invariant == Spec => []Inv
  BY SequencedAlways, TypeCorrect, PTL DEF Inv

\* For every capacity of at least two and any number of threads, two threads
\* are never between swap and store on one cell: the unsynchronised accesses
\* to mData in try_push and try_pop do not race.
THEOREM Exclusion == Spec => []CellExclusive
  BY SequencedAlways, TypeCorrect, InvExclusive, PTL

\* For every capacity, neither side overtakes the other by more than it may.
THEOREM Bounded == Spec => []PositionsBounded
  <1>1. Sequenced => PositionsBounded
    BY DEF Sequenced
  <1> QED
    BY <1>1, SequencedAlways, PTL

----------------------------------------------------------------------------
(* Who owns what: a claimed cell that is not written yet has its producer, *)
(* a cell that is not given back has its consumer, and a producer carries  *)
(* an item.                                                                *)

ClaimedOwned ==
    \A q \in mDequeuePos .. mEnqueuePos - 1 :
        mSequence[Cell(q)] = q => \E w \in Producers : Owns(w) /\ pos[w] = q

VacantOwned ==
    \A q \in mEnqueuePos .. mDequeuePos + Capacity - 1 :
        mSequence[Cell(q)] = q - Capacity + 1 =>
            \E c \in Consumers : Owns(c) /\ pos[c] = q - Capacity

Carried ==
    \A p \in Producers :
        /\ pc[p] # "idle" => data[p] \in Items
        /\ pc[p] = "publish" => mData[Cell(pos[p])] = data[p]

Owned == ClaimedOwned /\ VacantOwned /\ Carried

LEMMA OwnersSame ==
  ASSUME ClaimedOwned, VacantOwned, UNCHANGED <<mSequence, mEnqueuePos, mDequeuePos>>,
         \A t \in Threads : /\ Owns(t)' <=> Owns(t)
                            /\ Owns(t) => pos'[t] = pos[t]
  PROVE  ClaimedOwned' /\ VacantOwned'
  BY DEF ClaimedOwned, VacantOwned, Threads

LEMMA PushOwned ==
  ASSUME TypeOK, TypeOK', Sequenced, Owned, NEW p \in Producers, Push(p)
  PROVE  Owned'
  <1> USE DEF TypeOK, Goto, ring, positions
  <1>1. p \in Threads /\ p \notin Consumers /\ Consumers \subseteq Threads /\ Producers \subseteq Threads
    BY ThreadsAssumption DEF Threads
  <1>2. \A t \in Threads \ {p} : pc'[t] = pc[t] /\ pos'[t] = pos[t] /\ data'[t] = data[t]
    BY <1>1 DEF Push, PushStep, StartPush, RetryPush, PushLoadSequence, PushReload, PushSwap,
       PushSwapFails, PushWrite, PushPublish
  <1>3. Carried'
    <2>1. ASSUME NEW w \in Producers, w # p  PROVE pc'[w] # "idle" => data'[w] \in Items
      BY <1>1, <1>2, <2>1 DEF Owned, Carried
    <2>2. pc'[p] # "idle" => data'[p] \in Items
      BY <1>1 DEF Push, PushStep, StartPush, RetryPush, PushLoadSequence, PushReload, PushSwap,
         PushSwapFails, PushWrite, PushPublish, Owned, Carried
    <2>3. ASSUME NEW w \in Producers, w # p, pc'[w] = "publish"
          PROVE  mData'[Cell(pos'[w])] = data'[w]
      <3>1. mData[Cell(pos[w])] = data[w] /\ Owns(w) /\ pos'[w] = pos[w] /\ data'[w] = data[w]
        BY <1>1, <1>2, <2>3 DEF Owned, Carried, Owns
      <3>2. CASE PushWrite(p)
        <4>1. Cell(pos[w]) # Cell(pos[p])
          BY <1>1, <2>3, <3>1, <3>2, InvExclusive DEF CellExclusive, Owns, PushWrite
        <4> QED
          BY <1>1, <3>1, <3>2, <4>1, CellType DEF PushWrite
      <3>3. CASE ~PushWrite(p)
        BY <3>1, <3>3 DEF Push, PushStep, StartPush, RetryPush, PushLoadSequence, PushReload,
           PushSwap, PushSwapFails, PushPublish
      <3> QED
        BY <3>2, <3>3
    <2>4. pc'[p] = "publish" => mData'[Cell(pos'[p])] = data'[p]
      BY <1>1, CellType DEF Push, PushStep, StartPush, RetryPush, PushLoadSequence, PushReload,
         PushSwap, PushSwapFails, PushWrite, PushPublish, AfterFailure
    <2> QED
      BY <2>1, <2>2, <2>3, <2>4 DEF Carried
  <1>4. CASE PushSwap(p)
    <2>1. mEnqueuePos' = mEnqueuePos + 1 /\ pos[p] = mEnqueuePos /\ pos' = pos
          /\ Owns(p)' /\ UNCHANGED <<mSequence, mDequeuePos>>
      BY <1>1, <1>4 DEF PushSwap, Owns
    <2>2. \A t \in Threads \ {p} : Owns(t)' <=> Owns(t)
      BY <1>2 DEF Owns
    <2>3. ~Owns(p)
      BY <1>4 DEF PushSwap, Owns
    <2>4. ClaimedOwned'
      BY <1>1, <2>1, <2>2, <2>3 DEF Owned, ClaimedOwned
    <2>5. VacantOwned'
      BY <1>1, <2>1, <2>2 DEF Owned, VacantOwned
    <2> QED
      BY <1>3, <2>4, <2>5 DEF Owned
  <1>5. CASE PushPublish(p)
    <2> DEFINE q == pos[p]
    <2>1. /\ mDequeuePos <= q /\ q < mEnqueuePos /\ q \in Nat /\ pos' = pos
          /\ mEnqueuePos <= mDequeuePos + Capacity
          /\ UNCHANGED <<mEnqueuePos, mDequeuePos>> /\ Cell(q) \in Cells
      BY <1>1, <1>5, CellType DEF PushPublish, Sequenced, WritersOwn, PositionsBounded, Owns
    <2>2. \A t \in Threads \ {p} : Owns(t)' <=> Owns(t)
      BY <1>2 DEF Owns
    <2>3. \A r \in Nat : r # q /\ r < q + Capacity /\ q < r + Capacity
                          => mSequence'[Cell(r)] = mSequence[Cell(r)]
      BY <1>5, <2>1, WindowApart, CellType DEF PushPublish
    <2>4. mSequence'[Cell(q)] = q + 1
      BY <1>5, <2>1 DEF PushPublish
    <2>5. ClaimedOwned'
      <3> SUFFICES ASSUME NEW r \in mDequeuePos .. mEnqueuePos - 1, mSequence'[Cell(r)] = r
                   PROVE  \E w \in Producers : Owns(w)' /\ pos[w] = r
        BY <2>1 DEF ClaimedOwned
      <3>1. r # q
        BY <2>1, <2>4
      <3>2. mSequence[Cell(r)] = r
        BY <2>1, <2>3, <3>1, CapacityAssumption
      <3>3. PICK w \in Producers : Owns(w) /\ pos[w] = r
        BY <3>2 DEF Owned, ClaimedOwned
      <3> QED
        BY <1>1, <2>2, <3>1, <3>3
    <2>6. VacantOwned'
      <3> SUFFICES ASSUME NEW r \in mEnqueuePos .. mDequeuePos + Capacity - 1,
                          mSequence'[Cell(r)] = r - Capacity + 1
                   PROVE  \E c \in Consumers : Owns(c)' /\ pos[c] = r - Capacity
        BY <2>1 DEF VacantOwned
      <3>1. mSequence[Cell(r)] = r - Capacity + 1
        BY <2>1, <2>3, CapacityAssumption
      <3> QED
        BY <1>1, <2>2, <3>1 DEF Owned, VacantOwned
    <2> QED
      BY <1>3, <2>5, <2>6 DEF Owned
  <1>6. CASE ~PushSwap(p) /\ ~PushPublish(p)
    <2>1. UNCHANGED <<mSequence, mEnqueuePos, mDequeuePos>>
      BY <1>6 DEF Push, PushStep, StartPush, RetryPush, PushLoadSequence, PushReload,
         PushSwapFails, PushWrite
    <2>2. (Owns(p)' <=> Owns(p)) /\ (Owns(p) => pos'[p] = pos[p])
      BY <1>1, <1>6 DEF Push, PushStep, StartPush, RetryPush, PushLoadSequence, PushReload,
         PushSwapFails, PushWrite, AfterFailure, Owns
    <2>3. \A t \in Threads : /\ Owns(t)' <=> Owns(t)
                             /\ Owns(t) => pos'[t] = pos[t]
      BY <1>2, <2>2 DEF Owns
    <2> QED
      BY <1>3, <2>1, <2>3, OwnersSame DEF Owned
  <1> QED
    BY <1>4, <1>5, <1>6

LEMMA PopOwned ==
  ASSUME TypeOK, TypeOK', Sequenced, Owned, NEW c \in Consumers, Pop(c)
  PROVE  Owned'
  <1> USE DEF TypeOK, Goto, ring, positions
  <1>1. c \in Threads /\ c \notin Producers /\ Consumers \subseteq Threads /\ Producers \subseteq Threads
    BY ThreadsAssumption DEF Threads
  <1>2. \A t \in Threads \ {c} : pc'[t] = pc[t] /\ pos'[t] = pos[t] /\ data'[t] = data[t]
    BY <1>1 DEF Pop, PopStep, StartPop, PopLoadSequence, PopReload, PopSwap, PopSwapFails,
       PopRead, PopRelease
  <1>3. Carried'
    <2>1. mData' = mData
      BY DEF Pop, PopStep, StartPop, PopLoadSequence, PopReload, PopSwap, PopSwapFails,
         PopRead, PopRelease
    <2> QED
      BY <1>1, <1>2, <2>1 DEF Owned, Carried
  <1>4. CASE PopSwap(c)
    <2>1. /\ mDequeuePos' = mDequeuePos + 1 /\ pos[c] = mDequeuePos /\ pos' = pos
          /\ Owns(c)' /\ UNCHANGED <<mSequence, mEnqueuePos>>
      BY <1>1, <1>4 DEF PopSwap, Owns
    <2>2. \A t \in Threads \ {c} : Owns(t)' <=> Owns(t)
      BY <1>2 DEF Owns
    <2>3. ~Owns(c)
      BY <1>4 DEF PopSwap, Owns
    <2>4. ClaimedOwned'
      BY <1>1, <2>1, <2>2 DEF Owned, ClaimedOwned
    <2>5. VacantOwned'
      BY <1>1, <2>1, <2>2, <2>3, CapacityAssumption DEF Owned, VacantOwned
    <2> QED
      BY <1>3, <2>4, <2>5 DEF Owned
  <1>5. CASE PopRelease(c)
    <2> DEFINE q == pos[c]
    <2>1. /\ q < mDequeuePos /\ mEnqueuePos <= q + Capacity /\ q \in Nat /\ pos' = pos
          /\ mDequeuePos <= mEnqueuePos
          /\ UNCHANGED <<mEnqueuePos, mDequeuePos>> /\ Cell(q) \in Cells
      BY <1>1, <1>5, CellType DEF PopRelease, Sequenced, ReadersOwn, PositionsBounded, Owns
    <2>2. \A t \in Threads \ {c} : Owns(t)' <=> Owns(t)
      BY <1>2 DEF Owns
    <2>3. Cell(q + Capacity) = Cell(q) /\ mSequence'[Cell(q)] = q + Capacity
      BY <1>5, <2>1, CellLap, CapacityAssumption DEF PopRelease
    <2>4. \A r \in Nat : Cell(r) # Cell(q) => mSequence'[Cell(r)] = mSequence[Cell(r)]
      BY <1>5, <2>1, CellType DEF PopRelease
    <2>5. ClaimedOwned'
      <3> SUFFICES ASSUME NEW r \in mDequeuePos .. mEnqueuePos - 1, mSequence'[Cell(r)] = r
                   PROVE  \E w \in Producers : Owns(w)' /\ pos[w] = r
        BY <2>1 DEF ClaimedOwned
      <3>1. Cell(r) # Cell(q)
        BY <2>1, WindowApart, CapacityAssumption
      <3>2. mSequence[Cell(r)] = r
        BY <2>4, <3>1
      <3> QED
        BY <1>1, <2>2, <3>2 DEF Owned, ClaimedOwned
    <2>6. VacantOwned'
      <3> SUFFICES ASSUME NEW r \in mEnqueuePos .. mDequeuePos + Capacity - 1,
                          mSequence'[Cell(r)] = r - Capacity + 1
                   PROVE  \E d \in Consumers : Owns(d)' /\ pos[d] = r - Capacity
        BY <2>1 DEF VacantOwned
      <3>1. r # q + Capacity
        BY <2>1, <2>3, CapacityAssumption
      <3>2. Cell(r) # Cell(q + Capacity)
        <4>1. /\ r \in Nat /\ q + Capacity \in Nat
              /\ r < q + Capacity + Capacity /\ q + Capacity < r + Capacity
          BY <2>1, CapacityAssumption
        <4> HIDE DEF q
        <4> QED
          BY <3>1, <4>1, WindowApart
      <3>3. mSequence[Cell(r)] = r - Capacity + 1
        BY <2>3, <2>4, <3>2
      <3>4. PICK d \in Consumers : Owns(d) /\ pos[d] = r - Capacity
        BY <3>3 DEF Owned, VacantOwned
      <3>5. d # c
        BY <2>1, <3>1, <3>4, CapacityAssumption
      <3> QED
        BY <1>1, <2>2, <3>4, <3>5
    <2> QED
      BY <1>3, <2>5, <2>6 DEF Owned
  <1>6. CASE ~PopSwap(c) /\ ~PopRelease(c)
    <2>1. UNCHANGED <<mSequence, mEnqueuePos, mDequeuePos>>
      BY <1>6 DEF Pop, PopStep, StartPop, PopLoadSequence, PopReload, PopSwapFails, PopRead
    <2>2. (Owns(c)' <=> Owns(c)) /\ (Owns(c) => pos'[c] = pos[c])
      BY <1>1, <1>6 DEF Pop, PopStep, StartPop, PopLoadSequence, PopReload, PopSwapFails,
         PopRead, AfterFailure, Owns
    <2>3. \A t \in Threads : /\ Owns(t)' <=> Owns(t)
                             /\ Owns(t) => pos'[t] = pos[t]
      BY <1>2, <2>2 DEF Owns
    <2> QED
      BY <1>3, <2>1, <2>3, OwnersSame DEF Owned
  <1> QED
    BY <1>4, <1>5, <1>6

\* The invariant of the ring with the owners in it.
THEOREM Ownership == Spec => [](TypeOK /\ Sequenced /\ Owned)
  <1>1. Init => Owned
    <2> SUFFICES ASSUME Init  PROVE Owned
      OBVIOUS
    <2>1. \A i \in 0 .. Capacity - 1 : Cell(i) = i /\ i \in Cells
      BY CapacityAssumption DEF Cell, Cells
    <2>2. VacantOwned
      BY <2>1, CapacityAssumption DEF Init, VacantOwned
    <2>3. ClaimedOwned /\ Carried
      BY DEF Init, ClaimedOwned, Carried, Threads
    <2> QED
      BY <2>2, <2>3 DEF Owned
  <1>2. TypeOK /\ TypeOK' /\ Sequenced /\ Owned /\ [Next]_vars => Owned'
    <2> SUFFICES ASSUME TypeOK, TypeOK', Sequenced, Owned, [Next]_vars  PROVE Owned'
      OBVIOUS
    <2>1. CASE UNCHANGED vars
      BY <2>1 DEF vars, Owned, ClaimedOwned, VacantOwned, Carried, Owns
    <2> QED
      BY <2>1, PushOwned, PopOwned DEF Next
  <1> QED
    BY <1>1, <1>2, TypeCorrect, SequencedAlways, PTL DEF Spec

----------------------------------------------------------------------------
(* A call that fails.                                                      *)

LEMMA CellLaps ==
  ASSUME NEW p \in Nat, NEW k \in Int, p + Capacity * k \in Nat
  PROVE  Cell(p + Capacity * k) = Cell(p)
  <1> DEFINE q == p + Capacity * k
  <1>1. PICK d \in Int : p = Capacity * d + Cell(p)
    BY Division
  <1>2. q \in Nat
    OBVIOUS
  <1>3. PICK e \in Int : q = Capacity * e + Cell(q)
    BY <1>2, Division
  <1>4. Cell(p) \in Cells /\ Cell(q) \in Cells
    BY <1>2, CellType
  <1>5. Capacity * (e - d - k) = Cell(p) - Cell(q)
    BY <1>1, <1>3, <1>4, CapacityAssumption DEF Cells
  <1>6. Cell(p) - Cell(q) < Capacity /\ Cell(p) - Cell(q) > -Capacity
    BY <1>4, CapacityAssumption DEF Cells
  <1>7. e - d - k = 0
    BY <1>5, <1>6, Multiple, CapacityAssumption
  <1> QED
    BY <1>5, <1>7, <1>4, CapacityAssumption DEF Cells

\* The cell of a position that has been taken is ready for a later one.
LEMMA Passed ==
  ASSUME TypeOK, Sequenced, NEW q \in Nat, q < mDequeuePos
  PROVE  mSequence[Cell(q)] > q
  <1> DEFINE n == mDequeuePos - q + Capacity - 1
  <1>1. mDequeuePos \in Nat /\ mEnqueuePos \in Nat /\ Capacity \in Nat /\ Capacity >= 2
    BY CapacityAssumption DEF TypeOK
  <1>2. n \in Nat /\ n >= Capacity
    BY <1>1
  <1>3. PICK k \in Int : n = Capacity * k + Cell(n)
    BY <1>2, Division
  <1>4. Capacity * k \in Int /\ Cell(n) \in 0 .. Capacity - 1 /\ Capacity * k = n - Cell(n)
    BY <1>1, <1>2, <1>3, CellType DEF Cells
  <1> DEFINE r == q + Capacity * k
  <1>5. /\ r \in Nat /\ mDequeuePos <= r /\ r < mDequeuePos + Capacity /\ q + Capacity <= r
    <2>1. Capacity * k > 0
      BY <1>1, <1>2, <1>4
    <2>2. k # 0
      BY <1>1, <2>1
    <2>3. Capacity * k >= Capacity
      BY <1>1, <2>1, <2>2, Multiple
    <2> QED
      BY <1>1, <1>4, <2>3
  <1>6. Cell(r) = Cell(q)
    BY <1>5, CellLaps
  <1> HIDE DEF r
  <1>7. CASE r < mEnqueuePos
    BY <1>1, <1>5, <1>6, <1>7 DEF Sequenced, ClaimedCells
  <1>8. CASE r >= mEnqueuePos
    BY <1>1, <1>5, <1>6, <1>8 DEF Sequenced, VacantCells
  <1> QED
    BY <1>1, <1>5, <1>7, <1>8

\* A try_push that returns false has met a full ring or a consumer that has not
\* given its cell back, a try_pop an empty ring or a producer that has not
\* written its cell, whatever laps the positions they loaded are on.
THEOREM FailureReasons == Spec => FailureHasReason
  <1>1. ASSUME TypeOK, Sequenced, Owned, NEW p \in Producers,
               PushLoadSequence(p), pc'[p] \in {"idle", "asleep"}
        PROVE  mEnqueuePos - mDequeuePos = Capacity \/ Readers # {}
    <2>1. /\ p \in Threads /\ pc[p] = "load" /\ pos[p] \in Nat /\ Cell(pos[p]) \in Cells
          /\ pos[p] <= mEnqueuePos
      BY <1>1, CellType DEF Threads, TypeOK, PushLoadSequence, Sequenced, WritersOwn
    <2>2. mSequence[Cell(pos[p])] < pos[p]
      BY <1>1, <2>1 DEF PushLoadSequence, Goto, TypeOK
    <2>3. mSequence[Cell(pos[p])] \in Nat
      BY <1>1, <2>1 DEF TypeOK
    <2>4. pos[p] >= mDequeuePos
      BY <1>1, <2>1, <2>2, <2>3, Passed DEF TypeOK
    <2>5. pos[p] = mEnqueuePos
      BY <1>1, <2>1, <2>2, <2>3, <2>4 DEF Sequenced, ClaimedCells, TypeOK
    <2>6. CASE mEnqueuePos < mDequeuePos + Capacity
      <3>1. mSequence[Cell(pos[p])] = pos[p] - Capacity + 1
        BY <1>1, <2>2, <2>3, <2>5, <2>6, CapacityAssumption DEF Sequenced, VacantCells, TypeOK
      <3>2. \E c \in Consumers : Owns(c)
        BY <1>1, <2>5, <2>6, <3>1, CapacityAssumption DEF Owned, VacantOwned, TypeOK
      <3> QED
        BY <3>2 DEF Readers
    <2> QED
      BY <1>1, <2>6, CapacityAssumption DEF Sequenced, PositionsBounded, TypeOK
  <1>2. ASSUME TypeOK, Sequenced, Owned, NEW c \in Consumers,
               PopLoadSequence(c), pc'[c] \in {"idle", "asleep"}
        PROVE  mEnqueuePos = mDequeuePos \/ Writers # {}
    <2>1. /\ c \in Threads /\ pc[c] = "load" /\ pos[c] \in Nat /\ Cell(pos[c]) \in Cells
          /\ pos[c] <= mDequeuePos /\ mDequeuePos <= mEnqueuePos
      BY <1>1, <1>2, CellType DEF Threads, TypeOK, PopLoadSequence, Sequenced, ReadersOwn, PositionsBounded
    <2>2. mSequence[Cell(pos[c])] < pos[c] + 1 /\ mSequence[Cell(pos[c])] \in Nat
      BY <1>2, <2>1 DEF PopLoadSequence, Goto, TypeOK
    <2>3. pos[c] = mDequeuePos
      BY <1>2, <2>1, <2>2, Passed DEF TypeOK
    <2>4. CASE mDequeuePos < mEnqueuePos
      <3>1. mSequence[Cell(pos[c])] = pos[c]
        BY <1>2, <2>2, <2>3, <2>4 DEF Sequenced, ClaimedCells, TypeOK
      <3>2. \E w \in Producers : Owns(w)
        BY <1>2, <2>3, <2>4, <3>1 DEF Owned, ClaimedOwned, TypeOK
      <3> QED
        BY <3>2 DEF Writers
    <2> QED
      BY <1>2, <2>1, <2>4 DEF TypeOK
  <1> DEFINE Reasons ==
        /\ \A p \in Producers :
             PushLoadSequence(p) /\ pc'[p] \in {"idle", "asleep"} =>
                mEnqueuePos - mDequeuePos = Capacity \/ Readers # {}
        /\ \A c \in Consumers :
             PopLoadSequence(c) /\ pc'[c] \in {"idle", "asleep"} =>
                mEnqueuePos = mDequeuePos \/ Writers # {}
  <1>3. TypeOK /\ Sequenced /\ Owned /\ [Next]_vars => [Reasons]_vars
    BY <1>1, <1>2
  <1> QED
    BY <1>3, Ownership, PTL DEF Spec, FailureHasReason

----------------------------------------------------------------------------
(* The ring implements the bounded FIFO.  Its queue is a slice of what the *)
(* positions hold.                                                         *)

Contents(S) == [Nat -> S]
Agree(F, G, d, e) == \A q \in d .. e - 1 : F[q] = G[q]
Slice(F, d, e) == [i \in 1 .. e - d |-> F[d + i - 1]]

LEMMA SliceType ==
  ASSUME NEW R, NEW H \in Contents(R), NEW b \in Nat, NEW c \in Nat, b <= c
  PROVE  /\ Slice(H, b, c) \in Seq(R) /\ Len(Slice(H, b, c)) = c - b
         /\ \A i \in 1 .. c - b : Slice(H, b, c)[i] = H[b + i - 1]
  <1> DEFINE s == Slice(H, b, c)
  <1>1. \A i \in 1 .. c - b : b + i - 1 \in b .. c - 1 /\ s[i] = H[b + i - 1]
    BY DEF Slice
  <1>2. s \in [1 .. c - b -> R]
    <2>1. \A i \in 1 .. c - b : H[b + i - 1] \in R
      BY <1>1 DEF Contents
    <2> QED
      BY <2>1 DEF Slice
  <1>3. c - b \in Nat
    OBVIOUS
  <1> HIDE DEF s
  <1>4. s \in Seq(R) /\ Len(s) = c - b
    BY <1>2, <1>3
  <1> QED
    BY <1>1, <1>4 DEF s

LEMMA SliceLonger ==
  ASSUME NEW R, NEW H \in Contents(R), NEW b \in Nat, NEW c \in Nat, b <= c
  PROVE  /\ Slice(H, b, c + 1) \in Seq(R) /\ Len(Slice(H, b, c + 1)) = c + 1 - b
         /\ \A i \in 1 .. c + 1 - b : Slice(H, b, c + 1)[i] = H[b + i - 1]
  <1>1. \A n \in Nat : b <= n => /\ Slice(H, b, n) \in Seq(R) /\ Len(Slice(H, b, n)) = n - b
                                 /\ \A i \in 1 .. n - b : Slice(H, b, n)[i] = H[b + i - 1]
    BY SliceType
  <1>2. c + 1 \in Nat /\ b <= c + 1
    OBVIOUS
  <1> QED
    BY <1>1, <1>2

LEMMA SliceSame ==
  ASSUME NEW F, NEW G, NEW d \in Nat, NEW e \in Nat, Agree(F, G, d, e)
  PROVE  Slice(F, d, e) = Slice(G, d, e)
  <1>1. \A i \in 1 .. e - d : d + i - 1 \in d .. e - 1
    OBVIOUS
  <1> QED
    BY <1>1 DEF Slice, Agree

LEMMA SliceAppend ==
  ASSUME NEW S, NEW F \in Contents(S), NEW G \in Contents(S), NEW d \in Nat, NEW e \in Nat,
         d <= e, Agree(F, G, d, e)
  PROVE  Slice(G, d, e + 1) = Append(Slice(F, d, e), G[e])
  <1>1. G[e] \in S
    BY DEF Contents
  <1> DEFINE s == Slice(F, d, e)
             t == Slice(G, d, e + 1)
  <1>8. s \in Seq(S) /\ Len(s) = e - d /\ \A i \in 1 .. e - d : s[i] = F[d + i - 1]
    BY SliceType
  <1>9. t \in Seq(S) /\ Len(t) = e + 1 - d /\ \A i \in 1 .. e + 1 - d : t[i] = G[d + i - 1]
    BY SliceLonger
  <1> HIDE DEF s, t
  <1> DEFINE a == Append(s, G[e])
  <1>4. /\ a \in Seq(S) /\ Len(a) = Len(s) + 1 /\ a[Len(s) + 1] = G[e]
        /\ \A i \in 1 .. Len(s) : a[i] = s[i]
    BY <1>1, <1>8, AppendProperties
  <1> HIDE DEF a
  <1>5. ASSUME NEW i \in 1 .. e + 1 - d  PROVE t[i] = a[i]
    <2>1. CASE i = e + 1 - d
      BY <1>8, <1>9, <1>4, <2>1
    <2>2. CASE i # e + 1 - d
      <3>1. i \in 1 .. e - d /\ d + i - 1 \in d .. e - 1
        BY <2>2
      <3> QED
        BY <1>8, <1>9, <1>4, <3>1 DEF Agree
    <2> QED
      BY <2>1, <2>2
  <1>6. Len(t) = Len(a)
    BY <1>8, <1>9, <1>4
  <1>7. t = a
    BY <1>9, <1>4, <1>5, <1>6, SeqEqual
  <1> QED
    BY <1>7 DEF t, a, s

LEMMA SliceTail ==
  ASSUME NEW S, NEW F \in Contents(S), NEW G \in Contents(S), NEW d \in Nat, NEW e \in Nat, d < e,
         Agree(F, G, d + 1, e)
  PROVE  /\ Slice(F, d, e) # <<>> /\ Head(Slice(F, d, e)) = F[d]
         /\ Slice(G, d + 1, e) = Tail(Slice(F, d, e))
  <1> DEFINE s == Slice(F, d, e)
             t == Slice(G, d + 1, e)
  <1>1. d + 1 \in Nat /\ d + 1 <= e /\ d <= e
    OBVIOUS
  <1>2. s \in Seq(S) /\ Len(s) = e - d /\ \A i \in 1 .. e - d : s[i] = F[d + i - 1]
    BY <1>1, SliceType
  <1>3. t \in Seq(S) /\ Len(t) = e - (d + 1) /\ \A i \in 1 .. e - (d + 1) : t[i] = G[d + 1 + i - 1]
    BY <1>1, SliceType
  <1> HIDE DEF s, t
  <1>4. s # <<>> /\ Head(s) = F[d]
    <2>1. Len(s) # 0 /\ s[1] = F[d]
      BY <1>2
    <2> QED
      BY <1>2, <2>1, EmptySeq
  <1>5. /\ Tail(s) \in Seq(S) /\ Len(Tail(s)) = Len(s) - 1
        /\ \A i \in 1 .. Len(Tail(s)) : Tail(s)[i] = s[i + 1]
    BY <1>2, <1>4, HeadTailProperties
  <1>6. ASSUME NEW i \in 1 .. Len(t)  PROVE t[i] = Tail(s)[i]
    <2>1. i \in 1 .. Len(Tail(s)) /\ i + 1 \in 1 .. e - d /\ d + i \in d + 1 .. e - 1
      BY <1>2, <1>3, <1>5
    <2>2. t[i] = G[d + i] /\ Tail(s)[i] = F[d + i]
      BY <1>2, <1>3, <1>5, <2>1
    <2> QED
      BY <2>1, <2>2 DEF Agree
  <1>7. Len(t) = Len(Tail(s))
    BY <1>2, <1>3, <1>5
  <1>8. t = Tail(s)
    BY <1>3, <1>5, <1>6, <1>7, SeqEqual
  <1> QED
    BY <1>4, <1>8 DEF s, t

\* An entry that its producer has written, alone and in its slice; two sequences
\* of entries that differ in one.
Written(x) == [x EXCEPT !.written = TRUE]
WrittenAt(s, i) == [s EXCEPT ![i].written = TRUE]
AgreeBut(F, G, d, e, p) == \A q \in d .. e - 1 : q # p => F[q] = G[q]

LEMMA SliceWritten ==
  ASSUME NEW F, NEW G, NEW d \in Nat, NEW e \in Nat, NEW p \in d .. e - 1,
         AgreeBut(F, G, d, e, p), G[p] = Written(F[p])
  PROVE  /\ p - d + 1 \in DOMAIN Slice(F, d, e)
         /\ Slice(F, d, e)[p - d + 1] = F[p]
         /\ Slice(G, d, e) = WrittenAt(Slice(F, d, e), p - d + 1)
  <1> DEFINE s == Slice(F, d, e)
             j == p - d + 1
             w == [s EXCEPT ![j].written = TRUE]
  <1>1. DOMAIN s = 1 .. e - d /\ j \in 1 .. e - d /\ d + j - 1 = p
    BY DEF Slice
  <1>2. \A i \in 1 .. e - d : s[i] = F[d + i - 1]
    BY DEF Slice
  <1>3. s[j] = F[p]
    BY <1>1, <1>2
  <1>4. ASSUME NEW i \in 1 .. e - d  PROVE G[d + i - 1] = IF i = j THEN [s[j] EXCEPT !.written = TRUE]
                                                                  ELSE s[i]
    <2>1. CASE i = j
      BY <1>1, <1>3, <2>1 DEF Written
    <2>2. CASE i # j
      <3>1. d + i - 1 \in d .. e - 1 /\ d + i - 1 # p
        BY <2>2
      <3> QED
        BY <1>2, <2>2, <3>1 DEF AgreeBut
    <2> QED
      BY <2>1, <2>2
  <1>5. w = [i \in 1 .. e - d |-> IF i = j THEN [s[j] EXCEPT !.written = TRUE] ELSE s[i]]
    BY <1>1
  <1>6. Slice(G, d, e) = [i \in 1 .. e - d |-> G[d + i - 1]]
    BY DEF Slice
  <1> HIDE DEF s, j
  <1>7. Slice(G, d, e) = w
    BY <1>4, <1>5, <1>6
  <1> QED
    BY <1>1, <1>3, <1>7 DEF s, j, WrittenAt

\* What every position holds, as the FIFO sees it.
Entries == [q \in Nat |-> EntryAt(q)]

LEMMA QueueSlice ==
  ASSUME TypeOK  PROVE Queue = Slice(Entries, mDequeuePos, mEnqueuePos)
  <1>1. \A i \in 1 .. mEnqueuePos - mDequeuePos : mDequeuePos + i - 1 \in Nat
    BY DEF TypeOK
  <1> QED
    BY <1>1 DEF Queue, Slice, Entries

LEMMA QueueSliceAfter ==
  ASSUME TypeOK'  PROVE Queue' = Slice(Entries', mDequeuePos', mEnqueuePos')
  <1>1. \A i \in 1 .. mEnqueuePos' - mDequeuePos' : mDequeuePos' + i - 1 \in Nat
    <2>1. mEnqueuePos' \in Nat /\ mDequeuePos' \in Nat
      BY DEF TypeOK
    <2>2. \A d, e \in Nat : \A i \in 1 .. e - d : d + i - 1 \in Nat
      OBVIOUS
    <2> QED
      BY <2>1, <2>2, Zenon
  <1> QED
    BY <1>1 DEF Queue, Slice, Entries

\* A set that both functions map into, for the lemmas on slices.
Known == {Entries[q] : q \in Nat} \cup {Entries'[q] : q \in Nat}

LEMMA EntriesKnown == Entries \in Contents(Known) /\ Entries' \in Contents(Known)
  BY DEF Entries, Known, Contents

LEMMA Chosen ==
  ASSUME NEW W, NEW f, NEW w \in W, \A u \in W : f[u] = f[w] => u = w
  PROVE  (CHOOSE u \in W : f[u] = f[w]) = w
  OBVIOUS

LEMMA ValueOf ==
  ASSUME TypeOK, Sequenced, NEW w \in Producers, Owns(w), mSequence[Cell(pos[w])] = pos[w]
  PROVE  ValueAt(pos[w]) = data[w]
  <1>1. w \in Writers /\ \A u \in Writers : pos[u] = pos[w] => u = w
    BY DEF Writers, Sequenced, PositionsExclusive, Threads
  <1>2. (CHOOSE u \in Writers : pos[u] = pos[w]) = w
    BY <1>1, Chosen
  <1>3. mSequence[Cell(pos[w])] # pos[w] + 1
    BY DEF TypeOK, Threads
  <1> QED
    BY <1>2, <1>3 DEF ValueAt

LEMMA ValueOfAfter ==
  ASSUME TypeOK', Sequenced', NEW w \in Producers, Owns(w)', NEW q, pos'[w] = q,
         mSequence'[Cell(q)] = q
  PROVE  ValueAt(q)' = data'[w]
  <1>1. w \in Writers' /\ \A u \in Writers' : pos'[u] = pos'[w] => u = w
    BY DEF Writers, Sequenced, PositionsExclusive, Threads
  <1>2. (CHOOSE u \in Writers' : pos'[u] = pos'[w]) = w
    BY <1>1, Chosen
  <1>3. mSequence'[Cell(q)] # q + 1
    BY DEF TypeOK, Threads
  <1> QED
    BY <1>2, <1>3 DEF ValueAt

\* A step that leaves a position's cell and its producer alone leaves what the
\* position holds.
LEMMA EntryKept ==
  ASSUME TypeOK, TypeOK', Sequenced, Sequenced', Owned, NEW q \in mDequeuePos .. mEnqueuePos - 1,
         mSequence'[Cell(q)] = mSequence[Cell(q)],
         mSequence[Cell(q)] = q + 1 => mData'[Cell(q)] = mData[Cell(q)],
         \A w \in Producers : Owns(w) /\ pos[w] = q =>
            Owns(w)' /\ pos'[w] = q /\ data'[w] = data[w]
  PROVE  Entries[q] = Entries'[q]
  <1>1. q \in Nat
    BY DEF TypeOK
  <1>2. CASE mSequence[Cell(q)] = q + 1
    <2>1. ValueAt(q) = mData[Cell(q)] /\ ValueAt(q)' = mData'[Cell(q)]
      BY <1>2 DEF ValueAt
    <2>2. EntryAt(q) = EntryAt(q)'
      BY <1>2, <2>1 DEF EntryAt
    <2> QED
      BY <1>1, <2>2 DEF Entries
  <1>3. CASE mSequence[Cell(q)] # q + 1
    <2>1. mSequence[Cell(q)] = q
      BY <1>3 DEF Sequenced, ClaimedCells
    <2>2. PICK w \in Producers : Owns(w) /\ pos[w] = q
      BY <2>1 DEF Owned, ClaimedOwned
    <2>3. ValueAt(q) = data[w]
      BY <2>1, <2>2, ValueOf
    <2>4. ValueAt(q)' = data'[w]
      BY <2>1, <2>2, ValueOfAfter
    <2>5. ValueAt(q)' = ValueAt(q)
      BY <2>2, <2>3, <2>4
    <2>6. EntryAt(q) = EntryAt(q)'
      BY <2>5 DEF EntryAt
    <2> QED
      BY <1>1, <2>6 DEF Entries
  <1> QED
    BY <1>2, <1>3

\* The room a push takes: the consumers that have not given their cells back
\* are fewer than the positions a lap behind.
LEMMA RoomForOne ==
  ASSUME TypeOK, TypeOK', Sequenced, Sequenced', NEW p \in Producers, PushSwap(p)
  PROVE  mEnqueuePos - mDequeuePos + Cardinality(Readers) < Capacity
  <1> DEFINE a == mEnqueuePos + 1 - Capacity
             b == mDequeuePos - 1
             f == [c \in Readers |-> pos[c]]
  <1>1. /\ mEnqueuePos \in Nat /\ mDequeuePos \in Nat /\ a \in Int /\ b \in Int
        /\ mEnqueuePos' = mEnqueuePos + 1 /\ mDequeuePos' = mDequeuePos
        /\ mEnqueuePos + 1 <= mDequeuePos + Capacity /\ Capacity \in Nat
    BY CapacityAssumption DEF TypeOK, PushSwap, Sequenced, PositionsBounded, Threads
  <1>2. p \notin Readers /\ pos' = pos /\ \A c \in Readers : Owns(c)'
    BY ThreadsAssumption DEF PushSwap, Goto, Readers, Owns, TypeOK, Threads
  <1>3. \A c \in Readers : pos[c] \in a .. b
    <2> SUFFICES ASSUME NEW c \in Readers  PROVE pos[c] \in a .. b
      OBVIOUS
    <2>1. pos[c] < mDequeuePos /\ pos[c] \in Nat
      BY DEF Readers, Sequenced, ReadersOwn, TypeOK, Threads
    <2>2. mEnqueuePos + 1 <= pos[c] + Capacity
      BY <1>1, <1>2 DEF Readers, Sequenced, ReadersOwn
    <2> QED
      BY <1>1, <2>1, <2>2
  <1>4. f \in Injection(Readers, a .. b)
    <2>1. f \in [Readers -> a .. b]
      BY <1>3
    <2>2. \A c, d \in Readers : f[c] = f[d] => c = d
      BY DEF Readers, Sequenced, PositionsExclusive, Threads
    <2> HIDE DEF f, a, b
    <2> QED
      BY <2>1, <2>2 DEF Injection, IsInjective
  <1>5. /\ IsFiniteSet(a .. b)
        /\ Cardinality(a .. b) = IF a > b THEN 0 ELSE b - a + 1
    BY <1>1, FS_Interval
  <1>6. Cardinality(Readers) <= Cardinality(a .. b) /\ IsFiniteSet(Readers)
    BY <1>4, <1>5, FS_Injection
  <1>7. Cardinality(Readers) \in Nat
    BY <1>6, FS_CardinalityType
  <1> QED
    BY <1>1, <1>5, <1>6, <1>7

\* How each kind of step looks to the FIFO.
LEMMA PushSwapMaps ==
  ASSUME TypeOK, TypeOK', Sequenced, Sequenced', Owned, Owned', NEW p \in Producers, PushSwap(p)
  PROVE  Fifo!Insert(data[p]) /\ data[p] \in Items
  <1> DEFINE e == mEnqueuePos
             d == mDequeuePos
  <1>1. /\ p \in Threads /\ p \notin Consumers /\ Consumers \subseteq Threads /\ Producers \subseteq Threads
        /\ e \in Nat /\ d \in Nat /\ d <= e
    BY ThreadsAssumption DEF Threads, TypeOK, Sequenced, PositionsBounded
  <1>2. /\ pc[p] = "swap" /\ pos[p] = e /\ mEnqueuePos' = e + 1 /\ mDequeuePos' = d
        /\ pos' = pos /\ data' = data /\ mSequence' = mSequence /\ mData' = mData
        /\ pc'[p] = "access" /\ \A t \in Threads \ {p} : pc'[t] = pc[t]
    BY <1>1 DEF PushSwap, Goto, TypeOK, ring
  <1>3. data[p] \in Items
    BY <1>2 DEF Owned, Carried
  <1>4. Readers' = Readers
    BY <1>1, <1>2 DEF Readers, Owns
  <1>5. Taken' = Taken
    BY <1>1, <1>2 DEF Taken
  <1>6. Agree(Entries, Entries', d, e)
    <2> SUFFICES ASSUME NEW q \in d .. e - 1  PROVE Entries[q] = Entries'[q]
      BY DEF Agree
    <2>1. \A w \in Producers : Owns(w) /\ pos[w] = q =>
            Owns(w)' /\ pos'[w] = q /\ data'[w] = data[w]
      BY <1>1, <1>2 DEF Owns
    <2> QED
      BY <1>2, <2>1, EntryKept
  <1>7. mSequence'[Cell(e)] = e
    BY <1>2 DEF Sequenced, WritersOwn
  <1>8. Entries'[e] = [item |-> data[p], written |-> FALSE]
    <2>1. PICK r \in Nat : r = e
      BY <1>1
    <2>2. Owns(p)' /\ pos'[p] = r /\ mSequence'[Cell(r)] = r
      BY <1>2, <1>7, <2>1 DEF Owns
    <2>3. ValueAt(r)' = data'[p]
      BY <2>2, ValueOfAfter
    <2>4. (mSequence'[Cell(r)] = r + 1) <=> FALSE
      BY <2>2
    <2>5. EntryAt(r)' = [item |-> data[p], written |-> FALSE]
      BY <1>2, <2>3, <2>4 DEF EntryAt
    <2>6. Entries'[r] = [item |-> data[p], written |-> FALSE]
      BY <2>5 DEF Entries
    <2> QED
      BY <2>1, <2>6
  <1>9. Queue = Slice(Entries, d, e) /\ Queue' = Slice(Entries', d, e + 1)
    BY <1>2, QueueSlice, QueueSliceAfter
  <1>10. Queue' = Append(Queue, [item |-> data[p], written |-> FALSE])
    <2>1. Slice(Entries', d, e + 1) = Append(Slice(Entries, d, e), Entries'[e])
      BY <1>1, <1>6, EntriesKnown, SliceAppend
    <2> QED
      BY <1>8, <1>9, <2>1
  <1>11. Len(Queue) = e - d
    BY <1>1, <1>9, EntriesKnown, SliceType
  <1>12. Len(Queue) + Cardinality(Readers) < Capacity
    BY <1>11, RoomForOne
  <1>13. Fifo!Cardinality(Readers) = Cardinality(Readers)
    BY DEF Cardinality, Fifo!Cardinality
  <1>14. Fifo!Insert(data[p])
    BY <1>4, <1>5, <1>10, <1>12, <1>13 DEF Fifo!Insert
  <1> QED
    BY <1>3, <1>14

LEMMA PushPublishMaps ==
  ASSUME TypeOK, TypeOK', Sequenced, Sequenced', Owned, Owned', NEW p \in Producers, PushPublish(p)
  PROVE  \E i \in DOMAIN Queue : Fifo!FinishInsert(i)
  <1> DEFINE e == mEnqueuePos
             d == mDequeuePos
             q == pos[p]
  <1>1. /\ p \in Threads /\ p \notin Consumers /\ Consumers \subseteq Threads /\ Producers \subseteq Threads
        /\ e \in Nat /\ d \in Nat /\ d <= e /\ e <= d + Capacity /\ Capacity \in Nat
    BY ThreadsAssumption, CapacityAssumption DEF Threads, TypeOK, Sequenced, PositionsBounded
  <1>2. /\ pc[p] = "publish" /\ mEnqueuePos' = e /\ mDequeuePos' = d
        /\ pos' = pos /\ data' = data /\ mData' = mData
        /\ pc'[p] = "idle" /\ \A t \in Threads \ {p} : pc'[t] = pc[t]
        /\ mSequence' = [mSequence EXCEPT ![Cell(q)] = q + 1]
    BY <1>1 DEF PushPublish, Goto, TypeOK, positions
  <1>3. /\ q \in d .. e - 1 /\ q \in Nat /\ mSequence[Cell(q)] = q /\ Cell(q) \in Cells
    BY <1>1, <1>2, CellType DEF Sequenced, WritersOwn, Owns, TypeOK
  <1>4. Readers' = Readers /\ Taken' = Taken
    BY <1>1, <1>2 DEF Readers, Owns, Taken
  <1>5. AgreeBut(Entries, Entries', d, e, q)
    <2> SUFFICES ASSUME NEW r \in d .. e - 1, r # q  PROVE Entries[r] = Entries'[r]
      BY DEF AgreeBut
    <2>1. Cell(r) # Cell(q) /\ Cell(r) \in Cells
      <3>1. r \in Nat /\ r < q + Capacity /\ q < r + Capacity
        BY <1>1, <1>3
      <3> HIDE DEF q
      <3> QED
        BY <1>3, <3>1, WindowApart, CellType
    <2>2. mSequence'[Cell(r)] = mSequence[Cell(r)]
      BY <1>2, <1>3, <2>1 DEF TypeOK
    <2>3. \A w \in Producers : Owns(w) /\ pos[w] = r =>
            Owns(w)' /\ pos'[w] = r /\ data'[w] = data[w]
      BY <1>1, <1>2 DEF Owns
    <2> QED
      BY <1>2, <2>2, <2>3, EntryKept
  <1>6. Entries[q] = [item |-> data[p], written |-> FALSE]
    <2>1. ValueAt(q) = data[p]
      BY <1>2, <1>3, ValueOf DEF Owns
    <2>2. (mSequence[Cell(q)] = q + 1) = FALSE
      BY <1>3
    <2>3. EntryAt(q) = [item |-> data[p], written |-> FALSE]
      BY <2>1, <2>2 DEF EntryAt
    <2> QED
      BY <1>3, <2>3 DEF Entries
  <1>7. Entries'[q] = [item |-> data[p], written |-> TRUE]
    <2>1. PICK r \in Nat : r = q
      BY <1>3
    <2>2. mSequence'[Cell(r)] = r + 1
      BY <1>2, <1>3, <2>1 DEF TypeOK
    <2>3. ValueAt(r)' = mData[Cell(r)]
      BY <1>2, <2>2 DEF ValueAt
    <2>4. mData[Cell(r)] = data[p]
      BY <1>2, <2>1 DEF Owned, Carried
    <2>5. EntryAt(r)' = [item |-> data[p], written |-> TRUE]
      BY <2>2, <2>3, <2>4 DEF EntryAt
    <2>6. Entries'[r] = [item |-> data[p], written |-> TRUE]
      BY <2>5 DEF Entries
    <2> QED
      BY <2>1, <2>6
  <1>8. Queue = Slice(Entries, d, e) /\ Queue' = Slice(Entries', d, e)
    BY <1>2, QueueSlice, QueueSliceAfter
  <1>9. Entries'[q] = Written(Entries[q])
    <2>1. \A v, a, b : [[item |-> v, written |-> a] EXCEPT !.written = b] = [item |-> v, written |-> b]
      OBVIOUS
    <2>2. \A v : Written([item |-> v, written |-> FALSE]) = [item |-> v, written |-> TRUE]
      BY <2>1, Zenon DEF Written
    <2> HIDE DEF q
    <2> QED
      BY <1>6, <1>7, <2>2, Zenon
  <1>10. /\ q - d + 1 \in DOMAIN Queue /\ Queue[q - d + 1] = Entries[q]
         /\ Queue' = [Queue EXCEPT ![q - d + 1].written = TRUE]
    <2> HIDE DEF q, d, e
    <2>1. /\ q - d + 1 \in DOMAIN Slice(Entries, d, e)
          /\ Slice(Entries, d, e)[q - d + 1] = Entries[q]
          /\ Slice(Entries', d, e) = WrittenAt(Slice(Entries, d, e), q - d + 1)
      BY <1>1, <1>3, <1>5, <1>9, SliceWritten
    <2> QED
      BY <1>8, <2>1, Zenon DEF WrittenAt
  <1>11. ~Queue[q - d + 1].written
    BY <1>6, <1>10
  <1>12. Fifo!FinishInsert(q - d + 1)
    BY <1>4, <1>10, <1>11 DEF Fifo!FinishInsert
  <1> QED
    BY <1>10, <1>12

LEMMA PopSwapMaps ==
  ASSUME TypeOK, TypeOK', Sequenced, Sequenced', Owned, Owned', NEW c \in Consumers, PopSwap(c)
  PROVE  Fifo!Remove(c)
  <1> DEFINE e == mEnqueuePos
             d == mDequeuePos
  <1>1. /\ c \in Threads /\ c \notin Producers /\ Consumers \subseteq Threads /\ Producers \subseteq Threads
        /\ e \in Nat /\ d \in Nat
    BY ThreadsAssumption DEF Threads, TypeOK
  <1>2. /\ pc[c] = "swap" /\ pos[c] = d /\ mEnqueuePos' = e /\ mDequeuePos' = d + 1
        /\ pos' = pos /\ data' = data /\ mSequence' = mSequence /\ mData' = mData
        /\ pc'[c] = "access" /\ \A t \in Threads \ {c} : pc'[t] = pc[t]
    BY <1>1 DEF PopSwap, Goto, TypeOK, ring
  <1>3. d < e /\ mSequence[Cell(d)] = d + 1
    <2>1. d + 1 <= e
      BY <1>1, <1>2 DEF Sequenced, PositionsBounded
    <2> QED
      BY <1>1, <1>2, <2>1 DEF Sequenced, ReadersOwn
  <1>4. c \notin Readers /\ Readers' = Readers \cup {c}
    BY <1>1, <1>2 DEF Readers, Owns
  <1>5. Taken' = [Taken EXCEPT ![c] = mData[Cell(d)]]
    BY <1>1, <1>2 DEF Taken
  <1>6. Agree(Entries, Entries', d + 1, e)
    <2> SUFFICES ASSUME NEW q \in d + 1 .. e - 1  PROVE Entries[q] = Entries'[q]
      BY DEF Agree
    <2>1. \A w \in Producers : Owns(w) /\ pos[w] = q =>
            Owns(w)' /\ pos'[w] = q /\ data'[w] = data[w]
      BY <1>1, <1>2 DEF Owns
    <2>2. q \in d .. e - 1
      BY <1>1
    <2> QED
      BY <1>2, <2>1, <2>2, EntryKept
  <1>7. Entries[d] = [item |-> mData[Cell(d)], written |-> TRUE]
    BY <1>1, <1>3 DEF Entries, EntryAt, ValueAt
  <1>8. Queue = Slice(Entries, d, e) /\ Queue' = Slice(Entries', d + 1, e)
    BY <1>2, QueueSlice, QueueSliceAfter
  <1>9. Queue # <<>> /\ Head(Queue) = Entries[d] /\ Queue' = Tail(Queue)
    BY <1>1, <1>3, <1>6, <1>8, EntriesKnown, SliceTail
  <1>10. Head(Queue).written /\ Head(Queue).item = mData[Cell(d)]
    BY <1>7, <1>9
  <1> QED
    BY <1>4, <1>5, <1>9, <1>10 DEF Fifo!Remove

\* Steps that leave the positions and who owns what.
LEMMA QuietMaps ==
  ASSUME TypeOK, TypeOK', Sequenced, Sequenced', Owned,
         UNCHANGED <<mEnqueuePos, mDequeuePos>>,
         \A q \in mDequeuePos .. mEnqueuePos - 1 :
            /\ mSequence'[Cell(q)] = mSequence[Cell(q)]
            /\ mSequence[Cell(q)] = q + 1 => mData'[Cell(q)] = mData[Cell(q)],
         \A w \in Producers : Owns(w) => Owns(w)' /\ pos'[w] = pos[w] /\ data'[w] = data[w]
  PROVE  Queue' = Queue
  <1>1. Agree(Entries, Entries', mDequeuePos, mEnqueuePos)
    <2> SUFFICES ASSUME NEW q \in mDequeuePos .. mEnqueuePos - 1  PROVE Entries[q] = Entries'[q]
      BY DEF Agree
    <2> QED
      BY EntryKept
  <1>2. mDequeuePos \in Nat /\ mEnqueuePos \in Nat
    BY DEF TypeOK
  <1>3. Slice(Entries, mDequeuePos, mEnqueuePos) = Slice(Entries', mDequeuePos, mEnqueuePos)
    BY <1>1, <1>2, SliceSame
  <1> QED
    BY <1>3, QueueSlice, QueueSliceAfter

LEMMA PopReleaseMaps ==
  ASSUME TypeOK, TypeOK', Sequenced, Sequenced', Owned, Owned', NEW c \in Consumers, PopRelease(c)
  PROVE  Fifo!FinishRemove(c)
  <1> DEFINE q == pos[c]
  <1>1. /\ c \in Threads /\ c \notin Producers /\ Consumers \subseteq Threads /\ Producers \subseteq Threads
        /\ mEnqueuePos \in Nat /\ mDequeuePos \in Nat /\ Capacity \in Nat
    BY ThreadsAssumption, CapacityAssumption DEF Threads, TypeOK
  <1>2. /\ pc[c] = "publish" /\ UNCHANGED <<mEnqueuePos, mDequeuePos>>
        /\ pos' = pos /\ data' = data /\ mData' = mData
        /\ pc'[c] = "idle" /\ \A t \in Threads \ {c} : pc'[t] = pc[t]
        /\ mSequence' = [mSequence EXCEPT ![Cell(q)] = 1 + q + (Capacity - 1)]
    BY <1>1 DEF PopRelease, Goto, TypeOK, positions
  <1>3. /\ q \in Nat /\ q < mDequeuePos /\ mEnqueuePos <= q + Capacity /\ Cell(q) \in Cells
    BY <1>1, <1>2, CellType DEF Sequenced, ReadersOwn, Owns, TypeOK
  <1>4. c \in Readers /\ Readers' = Readers \ {c}
    BY <1>1, <1>2 DEF Readers, Owns
  <1>5. Taken' = Taken
    BY <1>1, <1>2 DEF Taken
  <1>6. \A r \in mDequeuePos .. mEnqueuePos - 1 : mSequence'[Cell(r)] = mSequence[Cell(r)]
    <2> SUFFICES ASSUME NEW r \in mDequeuePos .. mEnqueuePos - 1
                 PROVE  mSequence'[Cell(r)] = mSequence[Cell(r)]
      OBVIOUS
    <2>1. r \in Nat /\ r # q /\ r < q + Capacity /\ q < r + Capacity
      BY <1>1, <1>3
    <2>2. Cell(r) # Cell(q) /\ Cell(r) \in Cells
      <3> HIDE DEF q
      <3> QED
        BY <1>3, <2>1, WindowApart, CellType
    <2> QED
      BY <1>2, <1>3, <2>2 DEF TypeOK
  <1>7. \A w \in Producers : Owns(w) => Owns(w)' /\ pos'[w] = pos[w] /\ data'[w] = data[w]
    BY <1>1, <1>2 DEF Owns
  <1>8. Queue' = Queue
    BY <1>2, <1>6, <1>7, QuietMaps
  <1> QED
    BY <1>4, <1>5, <1>8 DEF Fifo!FinishRemove

\* The other steps of a producer: at most its own cell's value changes, and it
\* has claimed and not published the cell.
LEMMA PushStutters ==
  ASSUME TypeOK, TypeOK', Sequenced, Sequenced', Owned, NEW p \in Producers,
         Push(p), ~PushSwap(p), ~PushPublish(p)
  PROVE  UNCHANGED <<Queue, Readers, Taken>>
  <1> USE DEF TypeOK, Goto, ring, positions
  <1>1. p \in Threads /\ p \notin Consumers /\ Consumers \subseteq Threads /\ Producers \subseteq Threads
    BY ThreadsAssumption DEF Threads
  <1>2. /\ UNCHANGED <<mSequence, mEnqueuePos, mDequeuePos>>
        /\ \A t \in Threads \ {p} : pc'[t] = pc[t] /\ pos'[t] = pos[t] /\ data'[t] = data[t]
        /\ Owns(p)' <=> Owns(p)
        /\ Owns(p) => pos'[p] = pos[p] /\ data'[p] = data[p]
    BY <1>1 DEF Push, PushStep, StartPush, RetryPush, PushLoadSequence, PushReload,
       PushSwapFails, PushWrite, AfterFailure, Owns
  <1>3. \A i \in Cells : mData'[i] # mData[i] => Owns(p) /\ i = Cell(pos[p])
    BY <1>1 DEF Push, PushStep, StartPush, RetryPush, PushLoadSequence, PushReload,
       PushSwapFails, PushWrite, Owns
  <1>4. \A w \in Producers : Owns(w) => Owns(w)' /\ pos'[w] = pos[w] /\ data'[w] = data[w]
    BY <1>1, <1>2 DEF Owns
  <1>5. \A q \in mDequeuePos .. mEnqueuePos - 1 :
           /\ mSequence'[Cell(q)] = mSequence[Cell(q)]
           /\ mSequence[Cell(q)] = q + 1 => mData'[Cell(q)] = mData[Cell(q)]
    <2> SUFFICES ASSUME NEW q \in mDequeuePos .. mEnqueuePos - 1, mSequence[Cell(q)] = q + 1
                 PROVE  mData'[Cell(q)] = mData[Cell(q)]
      BY <1>2
    <2>1. q \in Nat /\ Cell(q) \in Cells
      BY CellType
    <2>2. CASE Owns(p)
      <3>1. /\ mSequence[Cell(pos[p])] = pos[p] /\ pos[p] \in Nat
            /\ mDequeuePos <= pos[p] /\ pos[p] < mEnqueuePos /\ mEnqueuePos <= mDequeuePos + Capacity
        BY <1>1, <2>2 DEF Sequenced, WritersOwn, PositionsBounded
      <3>2. Cell(q) # Cell(pos[p])
        BY <2>1, <3>1, WindowApart, CapacityAssumption
      <3> QED
        BY <1>3, <2>1, <3>2
    <2>3. CASE ~Owns(p)
      BY <1>3, <2>1, <2>3
    <2> QED
      BY <2>2, <2>3
  <1>6. Queue' = Queue
    BY <1>2, <1>4, <1>5, QuietMaps
  <1>7. Readers' = Readers
    BY <1>1, <1>2 DEF Readers, Owns
  <1>8. Taken' = Taken
    <2> SUFFICES ASSUME NEW c \in Consumers, pc[c] = "access"
                 PROVE  mData'[Cell(pos[c])] = mData[Cell(pos[c])]
      BY <1>1, <1>2 DEF Taken
    <2>1. Owns(c) /\ c \in Threads /\ c # p /\ Cell(pos[c]) \in Cells
      BY <1>1, CellType DEF Owns
    <2>2. Owns(p) => Cell(pos[c]) # Cell(pos[p])
      BY <1>1, <2>1, InvExclusive DEF CellExclusive
    <2> QED
      BY <1>3, <2>1, <2>2
  <1> QED
    BY <1>6, <1>7, <1>8

\* The other steps of a consumer: the copy moves the value it has taken from the
\* cell to its own.
LEMMA PopStutters ==
  ASSUME TypeOK, TypeOK', Sequenced, Sequenced', Owned, NEW c \in Consumers,
         Pop(c), ~PopSwap(c), ~PopRelease(c)
  PROVE  UNCHANGED <<Queue, Readers, Taken>>
  <1> USE DEF TypeOK, Goto, ring, positions
  <1>1. c \in Threads /\ c \notin Producers /\ Consumers \subseteq Threads /\ Producers \subseteq Threads
    BY ThreadsAssumption DEF Threads
  <1>2. /\ UNCHANGED <<mSequence, mData, mEnqueuePos, mDequeuePos>>
        /\ \A t \in Threads \ {c} : pc'[t] = pc[t] /\ pos'[t] = pos[t] /\ data'[t] = data[t]
        /\ Owns(c)' <=> Owns(c)
    BY <1>1 DEF Pop, PopStep, StartPop, PopLoadSequence, PopReload, PopSwapFails, PopRead,
       AfterFailure, Owns
  <1>3. \A w \in Producers : Owns(w) => Owns(w)' /\ pos'[w] = pos[w] /\ data'[w] = data[w]
    BY <1>1, <1>2 DEF Owns
  <1>4. Queue' = Queue
    BY <1>2, <1>3, QuietMaps
  <1>5. Readers' = Readers
    BY <1>1, <1>2 DEF Readers, Owns
  <1>6. (IF pc'[c] = "access" THEN mData'[Cell(pos'[c])] ELSE data'[c]) =
        (IF pc[c] = "access" THEN mData[Cell(pos[c])] ELSE data[c])
    BY <1>1, <1>2 DEF Pop, PopStep, StartPop, PopLoadSequence, PopReload, PopSwapFails, PopRead,
       AfterFailure
  <1>7. Taken' = Taken
    BY <1>1, <1>2, <1>6 DEF Taken
  <1> QED
    BY <1>4, <1>5, <1>7

\* The ring implements the bounded FIFO, for any number of threads and items and
\* any capacity: the swap of mEnqueuePos inserts, the store that publishes the
\* cell finishes the insertion, the swap of mDequeuePos removes and the store
\* that frees the cell gives the room back; no other step is seen.
THEOREM Implements == Spec => ImplementsFifo
  <1>1. Init => Fifo!Init
    <2> SUFFICES ASSUME Init  PROVE Fifo!Init
      OBVIOUS
    <2>1. Queue = <<>>
      <3>1. 1 .. mEnqueuePos - mDequeuePos = {}
        BY DEF Init
      <3> QED
        BY <3>1 DEF Queue
    <2>2. Readers = {} /\ Taken = [c \in Consumers |-> None]
      BY DEF Init, Readers, Owns, Taken, Threads
    <2> QED
      BY <2>1, <2>2 DEF Fifo!Init
  <1> DEFINE Facts == TypeOK /\ Sequenced /\ Owned
  <1>2. Facts /\ Facts' /\ [Next]_vars => [Fifo!Next]_(Fifo!vars)
    <2> SUFFICES ASSUME TypeOK, TypeOK', Sequenced, Sequenced', Owned, Owned', [Next]_vars
                 PROVE  Fifo!Next \/ UNCHANGED <<Queue, Readers, Taken>>
      BY DEF Fifo!vars
    <2>1. CASE UNCHANGED vars
      BY <2>1 DEF vars, Queue, EntryAt, ValueAt, Writers, Readers, Owns, Taken
    <2>2. ASSUME NEW p \in Producers, Push(p)
          PROVE  Fifo!Next \/ UNCHANGED <<Queue, Readers, Taken>>
      <3>1. CASE PushSwap(p)
        BY <3>1, PushSwapMaps DEF Fifo!Next
      <3>2. CASE PushPublish(p)
        BY <3>2, PushPublishMaps DEF Fifo!Next
      <3>3. CASE ~PushSwap(p) /\ ~PushPublish(p)
        BY <2>2, <3>3, PushStutters
      <3> QED
        BY <3>1, <3>2, <3>3
    <2>3. ASSUME NEW c \in Consumers, Pop(c)
          PROVE  Fifo!Next \/ UNCHANGED <<Queue, Readers, Taken>>
      <3>1. CASE PopSwap(c)
        BY <3>1, PopSwapMaps DEF Fifo!Next
      <3>2. CASE PopRelease(c)
        BY <3>2, PopReleaseMaps DEF Fifo!Next
      <3>3. CASE ~PopSwap(c) /\ ~PopRelease(c)
        BY <2>3, <3>3, PopStutters
      <3> QED
        BY <3>1, <3>2, <3>3
    <2> QED
      BY <2>1, <2>2, <2>3 DEF Next
  <1> HIDE DEF Facts
  <1>3. Spec => []Facts
    BY Ownership, PTL DEF Facts
  <1> QED
    BY <1>1, <1>2, <1>3, PTL DEF Spec, ImplementsFifo, Fifo!Spec
=============================================================================
