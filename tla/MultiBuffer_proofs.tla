------------------------- MODULE MultiBuffer_proofs -------------------------
(***************************************************************************)
(* Proofs about MultiBuffer, for every number of buffers and of threads    *)
(* that write, read and clear, whichever roles a thread has together.      *)
(***************************************************************************)
EXTENDS MultiBuffer, RingQueue_proofs

----------------------------------------------------------------------------
(* The inductive invariant, for threads that do what they like.            *)

Holds(t, b) == Holding(t) /\ hand[t] = b

Queue == [read |-> mReadItems, write |-> mWriteItems, disabled |-> mDisabledItems]

Somewhere(b) ==
    (\E k \in DOMAIN Queue : b \in ItemsOf(Queue[k])) \/ \E t \in Threads : Holds(t, b)

Alone(b) ==
    /\ \A k, l \in DOMAIN Queue : b \in ItemsOf(Queue[k]) /\ b \in ItemsOf(Queue[l]) => k = l
    /\ \A t \in Threads : Holds(t, b) =>
        /\ \A k \in DOMAIN Queue : b \notin ItemsOf(Queue[k])
        /\ \A u \in Threads : Holds(u, b) => u = t

Placed ==
    /\ \A k \in DOMAIN Queue : NoTwice(Queue[k])
    /\ \A b \in Buffers : Somewhere(b) /\ Alone(b)

\* The loops of disable and enable are bounded by N.
Counting(t) ==
    /\ Holding(t) \/ pc[t] \in {"toRead", "toWrite", "toDisabled", "toRefill"} => hand[t] \in Buffers
    /\ pc[t] \in Sweeping => icount[t] < N \/ Buffers = {}
    /\ pc[t] \in Refilling => icount[t] < N
    /\ pc[t] = "cleared" => Buffers # {}

Inv == TypeOK /\ Placed /\ \A t \in Threads : Counting(t)

(* And for clears, overlapping or not: who took each withheld buffer out.   *)

Of(by, t) == {b \in Buffers : by[b] = t}

\* The withheld buffers are those somebody took out, and an entry still being
\* written is written by the one who did.
Accounts(by, q) ==
    /\ by \in [Buffers -> Threads \cup {NoThread}]
    /\ \A b \in Buffers : b \in ItemsOf(q) <=> by[b] # NoThread
    /\ \A t \in Threads, b \in Buffers : Unwritten(q, t, b) => by[b] = t

\* The entries t took out are written, and are all those at the head.
InFront(by, q, t) ==
    \A i, j \in DOMAIN q :
        by[q[i].item] = t /\ j <= i => by[q[j].item] = t /\ q[j].writer = NoThread

\* t takes buffer b out, or with NoThread nobody has it out any more.
Taken(by, b, t) == [by EXCEPT ![b] = t]

\* What the local counter of t says of the number k of buffers it has out.
Withholds(t, k) ==
    /\ pc[t] \in {"sweepRead", "sweepWrite", "swept"} => k = icount[t]
    /\ pc[t] = "toDisabled" => k = icount[t] + 1
    /\ pc[t] = "cleared" => k = N
    /\ pc[t] = "refill" => k = N - icount[t]
    /\ pc[t] \in {"refilled", "toRefill"} => k = N - icount[t] - 1
    /\ ~Clearing(t) => k = 0

WithheldBy(by) ==
    /\ Accounts(by, mDisabledItems)
    /\ \A t \in Threads :
        /\ Withholds(t, Cardinality(Of(by, t)))
        /\ pc[t] \in {"cleared"} \cup Refilling => InFront(by, mDisabledItems, t)

Cleared ==
    /\ \A t \in Threads : Clearing(t) => t \in Clearers
    /\ \A t \in Threads, b \in Buffers : Unwritten(mDisabledItems, t, b) => pc[t] = "toDisabled"
    /\ \A t \in Threads : pc[t] = "toWrite" => Unwritten(mWriteItems, t, hand[t])
    /\ \E by : WithheldBy(by)

Fresh ==
    /\ ItemsOf(mReadItems) \cap old = {}
    /\ \A t \in Threads : pc[t] \in {"writing", "reading", "toWrite"} => hand[t] \notin old

ClearInv == Inv /\ Cleared /\ Fresh

----------------------------------------------------------------------------
(* Facts the steps share.                                                  *)

LEMMA Sizes ==
  /\ N \in Nat /\ (Buffers # {} => N > 0)
  /\ NoThread \notin Threads
  BY BuffersAssumption, ThreadsAssumption, FS_CardinalityType, FS_EmptySet DEF N, Threads

LEMMA QueueTypes ==
  ASSUME TypeOK
  PROVE  \A k \in DOMAIN Queue : Queue[k] \in Queues(Buffers, Threads)
  BY DEF TypeOK, Queue, Queues, Entry

LEMMA QueueKinds ==
  /\ DOMAIN Queue = {"read", "write", "disabled"} /\ DOMAIN Queue' = DOMAIN Queue
  /\ Queue["read"] = mReadItems /\ Queue["write"] = mWriteItems
  /\ Queue["disabled"] = mDisabledItems
  /\ Queue'["read"] = mReadItems' /\ Queue'["write"] = mWriteItems'
  /\ Queue'["disabled"] = mDisabledItems'
  BY DEF Queue

\* All but the thread that takes a step keep what they hold.
Others(t) == \A u \in Threads \ {t}, b \in Buffers : Holds(u, b)' <=> Holds(u, b)

\* A thread takes the first buffer of a queue.
LEMMA Take ==
  ASSUME Inv, NEW t \in Threads, ~Holding(t), Holding(t)', Others(t),
         NEW k \in DOMAIN Queue, Ready(Queue[k]),
         Queue'[k] = Rest(Queue[k]), hand'[t] = First(Queue[k]),
         \A l \in DOMAIN Queue \ {k} : Queue'[l] = Queue[l]
  PROVE  Placed'
  <1> DEFINE f == First(Queue[k])
  <1>0. /\ ItemsOf(Queue[k]) = ItemsOf(Queue'[k]) \cup {f} /\ f \notin ItemsOf(Queue'[k])
        /\ NoTwice(Queue'[k]) /\ f \in Buffers
    BY QueueTypes, RestQueue DEF Inv, Placed
  <1>1. \A b \in Buffers : ~Holds(t, b) /\ (Holds(t, b)' <=> b = f)
    BY DEF Holds
  <1> HIDE DEF f
  <1>2. \A l \in DOMAIN Queue, b \in Buffers :
            b \in ItemsOf(Queue'[l]) <=> b \in ItemsOf(Queue[l]) /\ ~(l = k /\ b = f)
    BY <1>0
  <1>3. ASSUME NEW b \in Buffers PROVE Somewhere(b)'
    <2>1. CASE b = f
      BY <2>1, <1>1 DEF Somewhere
    <2>2. CASE b # f
      BY <2>2, <1>1, <1>2, QueueKinds DEF Inv, Placed, Somewhere, Others
    <2> QED
      BY <2>1, <2>2
  <1>4. ASSUME NEW b \in Buffers PROVE Alone(b)'
    <2>1. Alone(b)
      BY DEF Inv, Placed
    <2>2. CASE b = f
      <3>1. \A u \in Threads : ~Holds(u, b)
        BY <2>1, <2>2, <1>0 DEF Alone
      <3>2. \A l \in DOMAIN Queue : b \notin ItemsOf(Queue'[l])
        BY <2>1, <2>2, <1>0, <1>2 DEF Alone
      <3> QED
        BY <3>1, <3>2, QueueKinds DEF Alone, Others
    <2>3. CASE b # f
      BY <2>1, <2>3, <1>1, <1>2, QueueKinds DEF Alone, Others
    <2> QED
      BY <2>2, <2>3
  <1> QED
    BY <1>0, <1>3, <1>4, QueueKinds DEF Inv, Placed

\* A thread gives its buffer to a queue.
LEMMA Give ==
  ASSUME Inv, NEW t \in Threads, Holding(t), ~Holding(t)', Others(t),
         NEW k \in DOMAIN Queue, Queue'[k] = Claimed(Queue[k], t, hand[t]),
         \A l \in DOMAIN Queue \ {k} : Queue'[l] = Queue[l]
  PROVE  Placed'
  <1> DEFINE f == hand[t]
  <1>0. /\ ItemsOf(Queue'[k]) = ItemsOf(Queue[k]) \cup {f} /\ f \in Buffers
        /\ f \notin ItemsOf(Queue[k]) => NoTwice(Queue'[k])
    BY QueueTypes, ClaimedQueue DEF Inv, Placed, Counting
  <1>1. \A b \in Buffers : ~Holds(t, b)' /\ (Holds(t, b) <=> b = f)
    BY DEF Holds
  <1> HIDE DEF f
  <1>2. \A l \in DOMAIN Queue, b \in Buffers :
            b \in ItemsOf(Queue'[l]) <=> b \in ItemsOf(Queue[l]) \/ (l = k /\ b = f)
    BY <1>0
  <1>3. ASSUME NEW b \in Buffers PROVE Somewhere(b)'
    BY <1>0, <1>1, <1>2, QueueKinds DEF Inv, Placed, Somewhere, Others
  <1>4. ASSUME NEW b \in Buffers PROVE Alone(b)'
    <2>1. Alone(b)
      BY DEF Inv, Placed
    <2>2. CASE b = f
      BY <2>1, <2>2, <1>1, <1>2, QueueKinds DEF Alone, Others
    <2>3. CASE b # f
      BY <2>1, <2>3, <1>1, <1>2, QueueKinds DEF Alone, Others
    <2> QED
      BY <2>2, <2>3
  <1>5. f \notin ItemsOf(Queue[k])
    BY <1>0, <1>1 DEF Inv, Placed, Alone
  <1> QED
    BY <1>0, <1>3, <1>4, <1>5, QueueKinds DEF Inv, Placed

\* No buffer moves: the queues change at most by the end of a write.
LEMMA Stay ==
  ASSUME Inv, NEW t \in Threads, ~Holding(t), ~Holding(t)', Others(t),
         \A k \in DOMAIN Queue : Queue'[k] \in {Queue[k], Published(Queue[k], t)}
  PROVE  Placed'
  <1>1. \A u \in Threads, b \in Buffers : Holds(u, b)' <=> Holds(u, b)
    BY DEF Holds, Others
  <1>2. \A k \in DOMAIN Queue : ItemsOf(Queue'[k]) = ItemsOf(Queue[k]) /\ NoTwice(Queue'[k])
    BY QueueTypes, PublishedQueue DEF Inv, Placed
  <1> QED
    BY <1>1, <1>2, QueueKinds DEF Inv, Placed, Somewhere, Alone

----------------------------------------------------------------------------
(* Inv holds at the start and every step of every thread keeps it.         *)

LEMMA NextQueue ==
  ASSUME TypeOK
  PROVE  \A q \in {mReadItems, mWriteItems, mDisabledItems} :
           /\ Ready(q) => Rest(q) \in Seq(Entry) /\ First(q) \in Buffers
           /\ \A t \in Threads : Published(q, t) \in Seq(Entry)
           /\ \A t \in Threads, b \in Buffers : Claimed(q, t, b) \in Seq(Entry)
  <1> SUFFICES ASSUME NEW q \in {mReadItems, mWriteItems, mDisabledItems}
               PROVE  /\ Ready(q) => Rest(q) \in Seq(Entry) /\ First(q) \in Buffers
                      /\ \A t \in Threads : Published(q, t) \in Seq(Entry)
                      /\ \A t \in Threads, b \in Buffers : Claimed(q, t, b) \in Seq(Entry)
    OBVIOUS
  <1>1. q \in Queues(Buffers, Threads) /\ Queues(Buffers, Threads) = Seq(Entry)
    BY DEF TypeOK, Queues, Entry
  <1>2. Ready(q) => Rest(q) \in Queues(Buffers, Threads) /\ First(q) \in Buffers
    BY <1>1, RestQueue
  <1>3. \A t \in Threads : Published(q, t) \in Queues(Buffers, Threads)
    BY <1>1, PublishedQueue
  <1>4. \A t \in Threads, b \in Buffers : Claimed(q, t, b) \in Queues(Buffers, Threads)
    BY <1>1, ClaimedQueue
  <1> QED
    BY <1>1, <1>2, <1>3, <1>4

LEMMA InitInv == Init => Inv
  <1> SUFFICES ASSUME Init PROVE Inv
    OBVIOUS
  <1>1. PICK order \in [1 .. N -> Buffers] :
          /\ \A i, j \in 1 .. N : i # j => order[i] # order[j]
          /\ mWriteItems = [i \in 1 .. N |-> [item |-> order[i], writer |-> NoThread]]
    BY DEF Init
  <1>2. \A i \in 1 .. N : [item |-> order[i], writer |-> NoThread] \in Entry
    BY <1>1 DEF Entry
  <1>3. mWriteItems \in Seq(Entry) /\ Len(mWriteItems) = N /\ DOMAIN mWriteItems = 1 .. N
    <2>1. mWriteItems \in [1 .. N -> Entry] /\ N \in Nat
      BY <1>1, <1>2, Sizes
    <2> QED
      BY <2>1
  <1>4. NoTwice(mWriteItems)
    BY <1>1, <1>3 DEF NoTwice
  <1>5. ItemsOf(mWriteItems) = Buffers
    BY <1>3, <1>4, FullQueue, BuffersAssumption DEF Queues, Entry, N
  <1>6. mReadItems = <<>> /\ mDisabledItems = <<>> /\ ItemsOf(<<>>) = {} /\ NoTwice(<<>>)
    BY EmptyQueue DEF Init
  <1>7. TypeOK
    <2>1. <<>> \in Seq(Entry)
      OBVIOUS
    <2>2. mReadItems \in Seq(Entry) /\ mWriteItems \in Seq(Entry) /\ mDisabledItems \in Seq(Entry)
      BY <1>3, <1>6, <2>1
    <2>3. 0 \in 0 .. N
      BY Sizes
    <2> QED
      BY <2>2, <2>3 DEF Init, TypeOK, Labels
  <1>8. \A t \in Threads : pc[t] = "idle" /\ ~Holding(t) /\ Counting(t)
    BY DEF Init, Holding, Counting, Sweeping, Refilling
  <1>9. \A b \in Buffers : Somewhere(b) /\ Alone(b)
    BY <1>5, <1>6, <1>8, QueueKinds DEF Somewhere, Alone, Holds
  <1> QED
    BY <1>4, <1>6, <1>7, <1>8, <1>9, QueueKinds DEF Inv, Placed

LEMMA PopWriteInv == ASSUME Inv, NEW t \in Threads, PopWrite(t) PROVE Inv'
  <1> USE DEF PopWrite, Goto, TakeFrom, queues
  <1>1. Others(t) /\ \A u \in Threads \ {t} : Counting(u)'
    BY DEF Others, Holds, Holding, Inv, TypeOK, Counting
  <1>2. TypeOK'
    <2>1. mWriteItems' \in Seq(Entry)
      BY NextQueue DEF Inv, TypeOK
    <2>2. pc' \in [Threads -> Labels]
      BY DEF Inv, TypeOK, Labels
    <2>3. hand' \in [Threads -> Buffers \cup {None}]
      BY NextQueue DEF Inv, TypeOK
    <2>4. icount' \in [Threads -> 0 .. N] /\ old' \subseteq Buffers
      BY DEF Inv, TypeOK
    <2> QED
      BY <2>1, <2>2, <2>3, <2>4 DEF Inv, TypeOK
  <1>3. Placed'
    <2>1. /\ "write" \in DOMAIN Queue /\ Queue'["write"] = Rest(Queue["write"])
          /\ \A l \in DOMAIN Queue \ {"write"} : Queue'[l] = Queue[l]
      BY QueueKinds
    <2>2. hand'[t] = First(Queue["write"]) /\ ~Holding(t) /\ Holding(t)'
      BY QueueKinds DEF Inv, TypeOK, Holding
    <2> QED
      BY <2>1, <2>2, <1>1, Take, QueueKinds
  <1>4. Counting(t)'
    BY <1>2, Sizes, NextQueue DEF Inv, TypeOK, Counting, Holding, Sweeping, Refilling
  <1> QED
    BY <1>1, <1>2, <1>3, <1>4 DEF Inv

LEMMA BeginReadInv == ASSUME Inv, NEW t \in Threads, BeginRead(t) PROVE Inv'
  <1> USE DEF BeginRead, Goto, TakeFrom, queues
  <1>1. Others(t) /\ \A u \in Threads \ {t} : Counting(u)'
    BY DEF Others, Holds, Holding, Inv, TypeOK, Counting
  <1>2. TypeOK'
    <2>1. mReadItems' \in Seq(Entry)
      BY NextQueue DEF Inv, TypeOK
    <2>2. pc' \in [Threads -> Labels]
      BY DEF Inv, TypeOK, Labels
    <2>3. hand' \in [Threads -> Buffers \cup {None}]
      BY NextQueue DEF Inv, TypeOK
    <2>4. icount' \in [Threads -> 0 .. N] /\ old' \subseteq Buffers
      BY DEF Inv, TypeOK
    <2> QED
      BY <2>1, <2>2, <2>3, <2>4 DEF Inv, TypeOK
  <1>3. Placed'
    <2>1. /\ "read" \in DOMAIN Queue /\ Queue'["read"] = Rest(Queue["read"])
          /\ \A l \in DOMAIN Queue \ {"read"} : Queue'[l] = Queue[l]
      BY QueueKinds
    <2>2. hand'[t] = First(Queue["read"]) /\ ~Holding(t) /\ Holding(t)'
      BY QueueKinds DEF Inv, TypeOK, Holding
    <2> QED
      BY <2>1, <2>2, <1>1, Take, QueueKinds
  <1>4. Counting(t)'
    BY <1>2, Sizes, NextQueue DEF Inv, TypeOK, Counting, Holding, Sweeping, Refilling
  <1> QED
    BY <1>1, <1>2, <1>3, <1>4 DEF Inv

LEMMA SweepReadInv == ASSUME Inv, NEW t \in Threads, SweepRead(t) PROVE Inv'
  <1> USE DEF SweepRead, Goto, TakeFrom, queues
  <1>1. Others(t) /\ \A u \in Threads \ {t} : Counting(u)'
    BY DEF Others, Holds, Holding, Inv, TypeOK, Counting
  <1>2. TypeOK'
    <2>1. mReadItems' \in Seq(Entry)
      BY NextQueue DEF Inv, TypeOK
    <2>2. pc' \in [Threads -> Labels]
      BY DEF Inv, TypeOK, Labels
    <2>3. hand' \in [Threads -> Buffers \cup {None}]
      BY NextQueue DEF Inv, TypeOK
    <2>4. icount' \in [Threads -> 0 .. N] /\ old' \subseteq Buffers
      BY DEF Inv, TypeOK
    <2> QED
      BY <2>1, <2>2, <2>3, <2>4 DEF Inv, TypeOK
  <1>3. Placed'
    <2>1. CASE Ready(mReadItems) /\ pc'[t] = "swept"
      <3>1. /\ "read" \in DOMAIN Queue /\ Queue'["read"] = Rest(Queue["read"])
            /\ \A l \in DOMAIN Queue \ {"read"} : Queue'[l] = Queue[l]
        BY <2>1, QueueKinds DEF Inv, TypeOK
      <3>2. hand'[t] = First(Queue["read"]) /\ ~Holding(t) /\ Holding(t)'
        BY <2>1, QueueKinds DEF Inv, TypeOK, Holding
      <3> QED
        BY <2>1, <3>1, <3>2, <1>1, Take, QueueKinds
    <2>2. CASE ~Ready(mReadItems)
      BY <2>2, <1>1, Stay, QueueKinds DEF Inv, TypeOK, Holding
    <2> QED
      BY <2>1, <2>2 DEF Inv, TypeOK
  <1>4. Counting(t)'
    BY <1>2, Sizes, NextQueue DEF Inv, TypeOK, Counting, Holding, Sweeping, Refilling
  <1> QED
    BY <1>1, <1>2, <1>3, <1>4 DEF Inv

LEMMA SweepWriteInv == ASSUME Inv, NEW t \in Threads, SweepWrite(t) PROVE Inv'
  <1> USE DEF SweepWrite, Goto, TakeFrom, queues
  <1>1. Others(t) /\ \A u \in Threads \ {t} : Counting(u)'
    BY DEF Others, Holds, Holding, Inv, TypeOK, Counting
  <1>2. TypeOK'
    <2>1. mWriteItems' \in Seq(Entry)
      BY NextQueue DEF Inv, TypeOK
    <2>2. pc' \in [Threads -> Labels]
      BY DEF Inv, TypeOK, Labels
    <2>3. hand' \in [Threads -> Buffers \cup {None}]
      BY NextQueue DEF Inv, TypeOK
    <2>4. icount' \in [Threads -> 0 .. N] /\ old' \subseteq Buffers
      BY DEF Inv, TypeOK
    <2> QED
      BY <2>1, <2>2, <2>3, <2>4 DEF Inv, TypeOK
  <1>3. Placed'
    <2>1. CASE Ready(mWriteItems) /\ pc'[t] = "swept"
      <3>1. /\ "write" \in DOMAIN Queue /\ Queue'["write"] = Rest(Queue["write"])
            /\ \A l \in DOMAIN Queue \ {"write"} : Queue'[l] = Queue[l]
        BY <2>1, QueueKinds DEF Inv, TypeOK
      <3>2. hand'[t] = First(Queue["write"]) /\ ~Holding(t) /\ Holding(t)'
        BY <2>1, QueueKinds DEF Inv, TypeOK, Holding
      <3> QED
        BY <2>1, <3>1, <3>2, <1>1, Take, QueueKinds
    <2>2. CASE ~Ready(mWriteItems)
      BY <2>2, <1>1, Stay, QueueKinds DEF Inv, TypeOK, Holding
    <2> QED
      BY <2>1, <2>2 DEF Inv, TypeOK
  <1>4. Counting(t)'
    BY <1>2, Sizes, NextQueue DEF Inv, TypeOK, Counting, Holding, Sweeping, Refilling
  <1> QED
    BY <1>1, <1>2, <1>3, <1>4 DEF Inv

LEMMA RefillDisabledInv == ASSUME Inv, NEW t \in Threads, RefillDisabled(t) PROVE Inv'
  <1> USE DEF RefillDisabled, Goto, TakeFrom, queues
  <1>1. Others(t) /\ \A u \in Threads \ {t} : Counting(u)'
    BY DEF Others, Holds, Holding, Inv, TypeOK, Counting
  <1>2. TypeOK'
    <2>1. mDisabledItems' \in Seq(Entry)
      BY NextQueue DEF Inv, TypeOK
    <2>2. pc' \in [Threads -> Labels]
      BY DEF Inv, TypeOK, Labels
    <2>3. hand' \in [Threads -> Buffers \cup {None}]
      BY NextQueue DEF Inv, TypeOK
    <2>4. icount' \in [Threads -> 0 .. N] /\ old' \subseteq Buffers
      BY DEF Inv, TypeOK
    <2> QED
      BY <2>1, <2>2, <2>3, <2>4 DEF Inv, TypeOK
  <1>3. Placed'
    <2>1. /\ "disabled" \in DOMAIN Queue /\ Queue'["disabled"] = Rest(Queue["disabled"])
          /\ \A l \in DOMAIN Queue \ {"disabled"} : Queue'[l] = Queue[l]
      BY QueueKinds
    <2>2. hand'[t] = First(Queue["disabled"]) /\ ~Holding(t) /\ Holding(t)'
      BY QueueKinds DEF Inv, TypeOK, Holding
    <2> QED
      BY <2>1, <2>2, <1>1, Take, QueueKinds
  <1>4. Counting(t)'
    BY <1>2, Sizes, NextQueue DEF Inv, TypeOK, Counting, Holding, Sweeping, Refilling
  <1> QED
    BY <1>1, <1>2, <1>3, <1>4 DEF Inv

LEMMA EndWriteInv == ASSUME Inv, NEW t \in Threads, EndWrite(t) PROVE Inv'
  <1> USE DEF EndWrite, Goto, TakeFrom, queues
  <1>1. Others(t) /\ \A u \in Threads \ {t} : Counting(u)'
    BY DEF Others, Holds, Holding, Inv, TypeOK, Counting
  <1>2. TypeOK'
    <2>1. mReadItems' \in Seq(Entry)
      BY NextQueue DEF Inv, TypeOK, Counting, Holding
    <2>2. pc' \in [Threads -> Labels]
      BY DEF Inv, TypeOK, Labels
    <2>3. hand' \in [Threads -> Buffers \cup {None}]
      BY DEF Inv, TypeOK
    <2>4. icount' \in [Threads -> 0 .. N] /\ old' \subseteq Buffers
      BY DEF Inv, TypeOK
    <2> QED
      BY <2>1, <2>2, <2>3, <2>4 DEF Inv, TypeOK
  <1>3. Placed'
    BY <1>1, Give, QueueKinds DEF Inv, TypeOK, Holding
  <1>4. Counting(t)'
    BY <1>2, Sizes DEF Inv, TypeOK, Counting, Holding, Sweeping, Refilling
  <1> QED
    BY <1>1, <1>2, <1>3, <1>4 DEF Inv

LEMMA EndReadInv == ASSUME Inv, NEW t \in Threads, EndRead(t) PROVE Inv'
  <1> USE DEF EndRead, Goto, TakeFrom, queues
  <1>1. Others(t) /\ \A u \in Threads \ {t} : Counting(u)'
    BY DEF Others, Holds, Holding, Inv, TypeOK, Counting
  <1>2. TypeOK'
    <2>1. mWriteItems' \in Seq(Entry)
      BY NextQueue DEF Inv, TypeOK, Counting, Holding
    <2>2. pc' \in [Threads -> Labels]
      BY DEF Inv, TypeOK, Labels
    <2>3. hand' \in [Threads -> Buffers \cup {None}]
      BY DEF Inv, TypeOK
    <2>4. icount' \in [Threads -> 0 .. N] /\ old' \subseteq Buffers
      BY DEF Inv, TypeOK
    <2> QED
      BY <2>1, <2>2, <2>3, <2>4 DEF Inv, TypeOK
  <1>3. Placed'
    BY <1>1, Give, QueueKinds DEF Inv, TypeOK, Holding
  <1>4. Counting(t)'
    BY <1>2, Sizes DEF Inv, TypeOK, Counting, Holding, Sweeping, Refilling
  <1> QED
    BY <1>1, <1>2, <1>3, <1>4 DEF Inv

LEMMA SweptInv == ASSUME Inv, NEW t \in Threads, Swept(t) PROVE Inv'
  <1> USE DEF Swept, Goto, TakeFrom, queues
  <1>1. Others(t) /\ \A u \in Threads \ {t} : Counting(u)'
    BY DEF Others, Holds, Holding, Inv, TypeOK, Counting
  <1>2. TypeOK'
    <2>1. mDisabledItems' \in Seq(Entry)
      BY NextQueue DEF Inv, TypeOK, Counting, Holding
    <2>2. pc' \in [Threads -> Labels]
      BY DEF Inv, TypeOK, Labels
    <2>3. hand' \in [Threads -> Buffers \cup {None}]
      BY DEF Inv, TypeOK
    <2>4. icount' \in [Threads -> 0 .. N] /\ old' \subseteq Buffers
      BY DEF Inv, TypeOK
    <2> QED
      BY <2>1, <2>2, <2>3, <2>4 DEF Inv, TypeOK
  <1>3. Placed'
    BY <1>1, Give, QueueKinds DEF Inv, TypeOK, Holding
  <1>4. Counting(t)'
    BY <1>2, Sizes DEF Inv, TypeOK, Counting, Holding, Sweeping, Refilling
  <1> QED
    BY <1>1, <1>2, <1>3, <1>4 DEF Inv

LEMMA RefilledInv == ASSUME Inv, NEW t \in Threads, Refilled(t) PROVE Inv'
  <1> USE DEF Refilled, Goto, TakeFrom, queues
  <1>1. Others(t) /\ \A u \in Threads \ {t} : Counting(u)'
    BY DEF Others, Holds, Holding, Inv, TypeOK, Counting
  <1>2. TypeOK'
    <2>1. mWriteItems' \in Seq(Entry)
      BY NextQueue DEF Inv, TypeOK, Counting, Holding
    <2>2. pc' \in [Threads -> Labels]
      BY DEF Inv, TypeOK, Labels
    <2>3. hand' \in [Threads -> Buffers \cup {None}]
      BY DEF Inv, TypeOK
    <2>4. icount' \in [Threads -> 0 .. N] /\ old' \subseteq Buffers
      BY DEF Inv, TypeOK
    <2> QED
      BY <2>1, <2>2, <2>3, <2>4 DEF Inv, TypeOK
  <1>3. Placed'
    BY <1>1, Give, QueueKinds DEF Inv, TypeOK, Holding
  <1>4. Counting(t)'
    BY <1>2, Sizes DEF Inv, TypeOK, Counting, Holding, Sweeping, Refilling
  <1> QED
    BY <1>1, <1>2, <1>3, <1>4 DEF Inv

LEMMA EndWritePublishInv == ASSUME Inv, NEW t \in Threads, EndWritePublish(t) PROVE Inv'
  <1> USE DEF EndWritePublish, Goto, TakeFrom, queues
  <1>1. Others(t) /\ \A u \in Threads \ {t} : Counting(u)'
    BY DEF Others, Holds, Holding, Inv, TypeOK, Counting
  <1>2. TypeOK'
    <2>1. mReadItems' \in Seq(Entry)
      BY NextQueue DEF Inv, TypeOK
    <2>2. pc' \in [Threads -> Labels]
      BY DEF Inv, TypeOK, Labels
    <2>3. hand' \in [Threads -> Buffers \cup {None}]
      BY DEF Inv, TypeOK
    <2>4. icount' \in [Threads -> 0 .. N] /\ old' \subseteq Buffers
      BY DEF Inv, TypeOK
    <2> QED
      BY <2>1, <2>2, <2>3, <2>4 DEF Inv, TypeOK
  <1>3. Placed'
    BY <1>1, Stay, QueueKinds DEF Inv, TypeOK, Holding
  <1>4. Counting(t)'
    BY <1>2, Sizes DEF Inv, TypeOK, Counting, Holding, Sweeping, Refilling
  <1> QED
    BY <1>1, <1>2, <1>3, <1>4 DEF Inv

LEMMA EndReadPublishInv == ASSUME Inv, NEW t \in Threads, EndReadPublish(t) PROVE Inv'
  <1> USE DEF EndReadPublish, Goto, TakeFrom, queues
  <1>1. Others(t) /\ \A u \in Threads \ {t} : Counting(u)'
    BY DEF Others, Holds, Holding, Inv, TypeOK, Counting
  <1>2. TypeOK'
    <2>1. mWriteItems' \in Seq(Entry)
      BY NextQueue DEF Inv, TypeOK
    <2>2. pc' \in [Threads -> Labels]
      BY DEF Inv, TypeOK, Labels
    <2>3. hand' \in [Threads -> Buffers \cup {None}]
      BY DEF Inv, TypeOK
    <2>4. icount' \in [Threads -> 0 .. N] /\ old' \subseteq Buffers
      BY DEF Inv, TypeOK
    <2> QED
      BY <2>1, <2>2, <2>3, <2>4 DEF Inv, TypeOK
  <1>3. Placed'
    BY <1>1, Stay, QueueKinds DEF Inv, TypeOK, Holding
  <1>4. Counting(t)'
    BY <1>2, Sizes DEF Inv, TypeOK, Counting, Holding, Sweeping, Refilling
  <1> QED
    BY <1>1, <1>2, <1>3, <1>4 DEF Inv

LEMMA SweptPublishInv == ASSUME Inv, NEW t \in Threads, SweptPublish(t) PROVE Inv'
  <1> USE DEF SweptPublish, Goto, TakeFrom, queues
  <1>1. Others(t) /\ \A u \in Threads \ {t} : Counting(u)'
    BY DEF Others, Holds, Holding, Inv, TypeOK, Counting
  <1>2. TypeOK'
    <2>1. mDisabledItems' \in Seq(Entry)
      BY NextQueue DEF Inv, TypeOK
    <2>2. pc' \in [Threads -> Labels]
      BY DEF Inv, TypeOK, Labels
    <2>3. hand' \in [Threads -> Buffers \cup {None}]
      BY DEF Inv, TypeOK
    <2>4. icount' \in [Threads -> 0 .. N] /\ old' \subseteq Buffers
      <3>1. icount[t] \in 0 .. N /\ icount[t] < N
        BY Sizes DEF Inv, TypeOK, Counting, Sweeping, Refilling
      <3>2. icount[t] + 1 \in 0 .. N
        BY <3>1, Sizes
      <3> QED
        BY <3>2 DEF Inv, TypeOK
    <2> QED
      BY <2>1, <2>2, <2>3, <2>4 DEF Inv, TypeOK
  <1>3. Placed'
    BY <1>1, Stay, QueueKinds DEF Inv, TypeOK, Holding
  <1>4. Counting(t)'
    BY <1>2, Sizes DEF Inv, TypeOK, Counting, Holding, Sweeping, Refilling
  <1> QED
    BY <1>1, <1>2, <1>3, <1>4 DEF Inv

LEMMA RefilledPublishInv == ASSUME Inv, NEW t \in Threads, RefilledPublish(t) PROVE Inv'
  <1> USE DEF RefilledPublish, Goto, TakeFrom, queues
  <1>1. Others(t) /\ \A u \in Threads \ {t} : Counting(u)'
    BY DEF Others, Holds, Holding, Inv, TypeOK, Counting
  <1>2. TypeOK'
    <2>1. mWriteItems' \in Seq(Entry)
      BY NextQueue DEF Inv, TypeOK
    <2>2. pc' \in [Threads -> Labels]
      BY DEF Inv, TypeOK, Labels
    <2>3. hand' \in [Threads -> Buffers \cup {None}]
      BY DEF Inv, TypeOK
    <2>4. icount' \in [Threads -> 0 .. N] /\ old' \subseteq Buffers
      <3>1. icount[t] \in 0 .. N /\ icount[t] < N
        BY Sizes DEF Inv, TypeOK, Counting, Sweeping, Refilling
      <3>2. icount[t] + 1 \in 0 .. N
        BY <3>1, Sizes
      <3> QED
        BY <3>2 DEF Inv, TypeOK
    <2> QED
      BY <2>1, <2>2, <2>3, <2>4 DEF Inv, TypeOK
  <1>3. Placed'
    BY <1>1, Stay, QueueKinds DEF Inv, TypeOK, Holding
  <1>4. Counting(t)'
    BY <1>2, Sizes DEF Inv, TypeOK, Counting, Holding, Sweeping, Refilling
  <1> QED
    BY <1>1, <1>2, <1>3, <1>4 DEF Inv

LEMMA BeginWriteInv == ASSUME Inv, NEW t \in Threads, BeginWrite(t) PROVE Inv'
  <1> USE DEF BeginWrite, Goto, TakeFrom, queues
  <1>1. Others(t) /\ \A u \in Threads \ {t} : Counting(u)'
    BY DEF Others, Holds, Holding, Inv, TypeOK, Counting
  <1>2. TypeOK'
    BY Sizes DEF Inv, TypeOK, Labels
  <1>3. Placed'
    BY <1>1, Stay, QueueKinds DEF Inv, TypeOK, Holding
  <1>4. Counting(t)'
    BY <1>2, Sizes DEF Inv, TypeOK, Counting, Holding, Sweeping, Refilling
  <1> QED
    BY <1>1, <1>2, <1>3, <1>4 DEF Inv

LEMMA BeginDisableInv == ASSUME Inv, NEW t \in Threads, BeginDisable(t) PROVE Inv'
  <1> USE DEF BeginDisable, Goto, TakeFrom, queues
  <1>1. Others(t) /\ \A u \in Threads \ {t} : Counting(u)'
    BY DEF Others, Holds, Holding, Inv, TypeOK, Counting
  <1>2. TypeOK'
    BY Sizes DEF Inv, TypeOK, Labels
  <1>3. Placed'
    BY <1>1, Stay, QueueKinds DEF Inv, TypeOK, Holding
  <1>4. Counting(t)'
    BY <1>2, Sizes DEF Inv, TypeOK, Counting, Holding, Sweeping, Refilling
  <1> QED
    BY <1>1, <1>2, <1>3, <1>4 DEF Inv

LEMMA BeginEnableInv == ASSUME Inv, NEW t \in Threads, BeginEnable(t) PROVE Inv'
  <1> USE DEF BeginEnable, Goto, TakeFrom, queues
  <1>1. Others(t) /\ \A u \in Threads \ {t} : Counting(u)'
    BY DEF Others, Holds, Holding, Inv, TypeOK, Counting
  <1>2. TypeOK'
    BY Sizes DEF Inv, TypeOK, Labels
  <1>3. Placed'
    BY <1>1, Stay, QueueKinds DEF Inv, TypeOK, Holding
  <1>4. Counting(t)'
    BY <1>2, Sizes DEF Inv, TypeOK, Counting, Holding, Sweeping, Refilling
  <1> QED
    BY <1>1, <1>2, <1>3, <1>4 DEF Inv

LEMMA StepInv == Inv /\ [Next]_vars => Inv'
  <1> SUFFICES ASSUME Inv, [Next]_vars PROVE Inv'
    OBVIOUS
  <1>1. ASSUME NEW t \in Writers, BeginWrite(t) \/ Write(t) PROVE Inv'
    BY <1>1, BeginWriteInv, PopWriteInv, EndWriteInv, EndWritePublishInv DEF Write, Threads
  <1>2. ASSUME NEW t \in Readers, BeginRead(t) \/ Read(t) PROVE Inv'
    BY <1>2, BeginReadInv, EndReadInv, EndReadPublishInv DEF Read, Threads
  <1>3. ASSUME NEW t \in Clearers, BeginDisable(t) \/ Disable(t) PROVE Inv'
    BY <1>3, BeginDisableInv, SweepReadInv, SweepWriteInv, SweptInv, SweptPublishInv
    DEF Disable, Threads
  <1>4. ASSUME NEW t \in Clearers, Enable(t) PROVE Inv'
    BY <1>4, BeginEnableInv, RefillDisabledInv, RefilledInv, RefilledPublishInv
    DEF Enable, Threads
  <1>5. CASE UNCHANGED vars
    BY <1>5 DEF vars, queues, Inv, TypeOK, Placed, Counting, Queue, Somewhere, Alone, Holds, Holding
  <1> QED
    BY <1>1, <1>2, <1>3, <1>4, <1>5 DEF Next

Tagged(tag, S) == {<<tag, x>> : x \in S}

LEMMA TaggedFew == \A tag, x : Tagged(tag, {}) = {} /\ Tagged(tag, {x}) = {<<tag, x>>}
  BY DEF Tagged

\* What Places counts.
LEMMA InvOnePlace == Inv => OnePlace
  <1> SUFFICES ASSUME Inv, NEW b \in Buffers PROVE Cardinality(Places(b)) = 1
    BY DEF OnePlace, Inv
  <1>1. Somewhere(b) /\ Alone(b) /\ \A k \in DOMAIN Queue : NoTwice(Queue[k])
    BY DEF Inv, Placed
  <1>2. \A k \in DOMAIN Queue :
          {i \in DOMAIN Queue[k] : Queue[k][i].item = b} = {} <=> b \notin ItemsOf(Queue[k])
    BY DEF ItemsOf
  <1> DEFINE At(q) == {i \in DOMAIN q : q[i].item = b}
             Hold == {u \in Threads : Holding(u) /\ hand[u] = b}
  <1>0. Places(b) = Tagged("hand", Hold) \cup Tagged("read", At(mReadItems))
                     \cup Tagged("write", At(mWriteItems))
                     \cup Tagged("disabled", At(mDisabledItems))
    BY DEF Places, Tagged
  <1>3. ASSUME NEW t \in Threads, Holds(t, b) PROVE Places(b) = {<<"hand", t>>}
    <2>1. Hold = {t}
      BY <1>1, <1>3 DEF Alone, Holds
    <2>2. At(mReadItems) = {} /\ At(mWriteItems) = {} /\ At(mDisabledItems) = {}
      BY <1>1, <1>2, <1>3, QueueKinds DEF Alone
    <2> QED
      BY <2>1, <2>2, <1>0, TaggedFew
  <1>4. ASSUME NEW k \in DOMAIN Queue, b \in ItemsOf(Queue[k])
        PROVE  \E i : Places(b) = {<<k, i>>}
    <2>1. PICK i \in DOMAIN Queue[k] : Queue[k][i].item = b
      BY <1>4 DEF ItemsOf
    <2>2. At(Queue[k]) = {i}
      BY <1>1, <2>1 DEF NoTwice
    <2>3. \A l \in DOMAIN Queue : l # k => At(Queue[l]) = {}
      BY <1>1, <1>2, <1>4 DEF Alone
    <2>4. Hold = {}
      BY <1>1, <1>4 DEF Alone, Holds
    <2>5. CASE k = "read"
      <3>1. At(mReadItems) = {i} /\ At(mWriteItems) = {} /\ At(mDisabledItems) = {}
        BY <2>2, <2>3, <2>5, QueueKinds
      <3> HIDE DEF At, Hold
      <3>2. Places(b) = {<<k, i>>}
        BY <2>4, <2>5, <3>1, <1>0, TaggedFew
      <3> QED
        BY <3>2
    <2>6. CASE k = "write"
      <3>1. At(mWriteItems) = {i} /\ At(mReadItems) = {} /\ At(mDisabledItems) = {}
        BY <2>2, <2>3, <2>6, QueueKinds
      <3> HIDE DEF At, Hold
      <3>2. Places(b) = {<<k, i>>}
        BY <2>4, <2>6, <3>1, <1>0, TaggedFew
      <3> QED
        BY <3>2
    <2>7. CASE k = "disabled"
      <3>1. At(mDisabledItems) = {i} /\ At(mReadItems) = {} /\ At(mWriteItems) = {}
        BY <2>2, <2>3, <2>7, QueueKinds
      <3> HIDE DEF At, Hold
      <3>2. Places(b) = {<<k, i>>}
        BY <2>4, <2>7, <3>1, <1>0, TaggedFew
      <3> QED
        BY <3>2
    <2> QED
      BY <2>5, <2>6, <2>7, QueueKinds
  <1>5. \E x : Places(b) = {x}
    BY <1>1, <1>3, <1>4 DEF Somewhere
  <1> QED
    BY <1>5, FS_Singleton

\* No buffer is lost or in two places, for any number of buffers and however
\* many threads write, read, disable and enable at the same time.
THEOREM BuffersKept == Spec => []OnePlace
  <1>1. Inv => OnePlace
    BY InvOnePlace
  <1> QED
    BY <1>1, InitInv, StepInv, PTL DEF Spec

----------------------------------------------------------------------------
(* Clears.                                                                 *)

\* What the steps of a queue do to its length, items and unwritten entries.
LEMMA QueueChanges ==
  ASSUME TypeOK, NEW q \in {mReadItems, mWriteItems, mDisabledItems}
  PROVE  /\ Len(q) \in Nat
         /\ Ready(q) =>
              /\ Len(Rest(q)) = Len(q) - 1 /\ Len(q) > 0
              /\ ItemsOf(Rest(q)) \subseteq ItemsOf(q) /\ First(q) \in ItemsOf(q)
              /\ \A u \in Threads, b \in Buffers :
                    Unwritten(Rest(q), u, b) <=> Unwritten(q, u, b)
         /\ \A t \in Threads :
              /\ Len(Published(q, t)) = Len(q) /\ ItemsOf(Published(q, t)) = ItemsOf(q)
              /\ \A u \in Threads, b \in Buffers :
                    Unwritten(Published(q, t), u, b) <=> Unwritten(q, u, b) /\ u # t
         /\ \A t \in Threads, x \in Buffers :
              /\ Len(Claimed(q, t, x)) = Len(q) + 1
              /\ ItemsOf(Claimed(q, t, x)) = ItemsOf(q) \cup {x}
              /\ \A u \in Threads, b \in Buffers :
                    Unwritten(Claimed(q, t, x), u, b) <=> Unwritten(q, u, b) \/ (u = t /\ b = x)
  <1>1. q \in Queues(Buffers, Threads) /\ NoThread \notin Threads
    BY Sizes DEF TypeOK, Queues, Entry
  <1>2. Len(q) \in Nat
    BY <1>1 DEF Queues
  <1> HIDE DEF Queues
  <1>3. Ready(q) =>
              /\ Len(Rest(q)) = Len(q) - 1 /\ Len(q) > 0
              /\ ItemsOf(Rest(q)) \subseteq ItemsOf(q) /\ First(q) \in ItemsOf(q)
              /\ \A u \in Threads, b \in Buffers :
                    Unwritten(Rest(q), u, b) <=> Unwritten(q, u, b)
    BY <1>1, RestQueue
  <1>4. ASSUME NEW t \in Threads
        PROVE /\ Len(Published(q, t)) = Len(q) /\ ItemsOf(Published(q, t)) = ItemsOf(q)
              /\ \A u \in Threads, b \in Buffers :
                    Unwritten(Published(q, t), u, b) <=> Unwritten(q, u, b) /\ u # t
    BY <1>1, PublishedQueue
  <1>5. ASSUME NEW t \in Threads, NEW x \in Buffers
        PROVE /\ Len(Claimed(q, t, x)) = Len(q) + 1
              /\ ItemsOf(Claimed(q, t, x)) = ItemsOf(q) \cup {x}
              /\ \A u \in Threads, b \in Buffers :
                    Unwritten(Claimed(q, t, x), u, b) <=> Unwritten(q, u, b) \/ (u = t /\ b = x)
    BY <1>1, ClaimedQueue
  <1> QED
    BY <1>2, <1>3, <1>4, <1>5

\* How many buffers a thread has out.
LEMMA OfSize ==
  ASSUME NEW by, NEW t \in Threads
  PROVE  /\ IsFiniteSet(Of(by, t)) /\ Cardinality(Of(by, t)) \in Nat
         /\ Cardinality(Of(by, t)) = 0 <=> Of(by, t) = {}
         /\ Cardinality(Of(by, t)) = N => Of(by, t) = Buffers
  <1>1. Of(by, t) \in SUBSET Buffers
    BY DEF Of
  <1>2. IsFiniteSet(Of(by, t)) /\ (Cardinality(Of(by, t)) = N => Of(by, t) = Buffers)
    BY <1>1, FS_Subset, BuffersAssumption DEF N
  <1> QED
    BY <1>2, FS_CardinalityType, FS_EmptySet

LEMMA AccountsEmpty ==
  \E by : /\ Accounts(by, <<>>)
          /\ \A t \in Threads : Cardinality(Of(by, t)) = 0
  <1> DEFINE none == [b \in Buffers |-> NoThread]
  <1>1. ItemsOf(<<>>) = {} /\ \A t, x : ~Unwritten(<<>>, t, x)
    BY EmptyQueue
  <1>2. Accounts(none, <<>>)
    BY <1>1 DEF Accounts
  <1>3. \A t \in Threads : Of(none, t) = {}
    BY Sizes DEF Of
  <1> QED
    BY <1>2, <1>3, OfSize

\* A thread withholds one more.
LEMMA AccountsClaimed ==
  ASSUME NEW q \in Queues(Buffers, Threads), NEW t \in Threads, NEW x \in Buffers,
         x \notin ItemsOf(q), NEW by, Accounts(by, q)
  PROVE  /\ Accounts(Taken(by, x, t), Claimed(q, t, x))
         /\ Cardinality(Of(Taken(by, x, t), t)) = Cardinality(Of(by, t)) + 1
         /\ \A u \in Threads \ {t} :
              /\ Of(Taken(by, x, t), u) = Of(by, u)
              /\ InFront(by, q, u) => InFront(Taken(by, x, t), Claimed(q, t, x), u)
  <1> DEFINE by2 == Taken(by, x, t)
             e == [item |-> x, writer |-> t]
             c == Claimed(q, t, x)
             Entries == [item : Buffers, writer : Threads \cup {NoThread}]
  <1>0. by \in [Buffers -> Threads \cup {NoThread}] /\ by[x] = NoThread /\ NoThread \notin Threads
    BY Sizes DEF Accounts
  <1>1. /\ by2 \in [Buffers -> Threads \cup {NoThread}] /\ by2[x] = t
        /\ \A b \in Buffers \ {x} : by2[b] = by[b]
    BY <1>0 DEF Taken
  <1> HIDE DEF by2
  <1>2. Accounts(by2, c)
    <2>1. ItemsOf(c) = ItemsOf(q) \cup {x}
      BY ClaimedQueue
    <2>2. \A u, y : Unwritten(c, u, y) <=> Unwritten(q, u, y) \/ (u = t /\ y = x)
      BY ClaimedQueue
    <2>3. \A u : ~Unwritten(q, u, x)
      BY DEF Unwritten, ItemsOf
    <2> HIDE DEF c
    <2>4. \A b \in Buffers : b \in ItemsOf(c) <=> by2[b] # NoThread
      BY <1>0, <1>1, <2>1 DEF Accounts
    <2>5. \A u \in Threads, b \in Buffers : Unwritten(c, u, b) => by2[b] = u
      BY <1>1, <2>2, <2>3 DEF Accounts
    <2> QED
      BY <1>1, <2>4, <2>5 DEF Accounts
  <1>3. Cardinality(Of(by2, t)) = Cardinality(Of(by, t)) + 1
    <2>1. Of(by2, t) = Of(by, t) \cup {x} /\ x \notin Of(by, t)
      BY <1>0, <1>1 DEF Of
    <2> QED
      BY <2>1, OfSize, FS_AddElement
  <1>4. ASSUME NEW u \in Threads \ {t} PROVE Of(by2, u) = Of(by, u)
    BY <1>0, <1>1 DEF Of
  <1>5. ASSUME NEW u \in Threads \ {t}, InFront(by, q, u) PROVE InFront(by2, c, u)
    <2>1. q \in Seq(Entries) /\ e \in Entries
      BY DEF Queues
    <2>2. /\ c \in Seq(Entries) /\ c[Len(q) + 1] = e
          /\ DOMAIN q = 1 .. Len(q) /\ DOMAIN c = 1 .. (Len(q) + 1) /\ Len(q) \in Nat
          /\ \A i \in 1 .. Len(q) : c[i] = q[i]
      BY <2>1 DEF Claimed
    <2>3. \A i \in 1 .. Len(q) : by2[q[i].item] = by[q[i].item]
      <3> SUFFICES ASSUME NEW i \in 1 .. Len(q) PROVE by2[q[i].item] = by[q[i].item]
        OBVIOUS
      <3>1. q[i] \in Entries
        BY <2>1, <2>2, ElementOfSeq
      <3>2. q[i].item \in Buffers
        BY <3>1
      <3>3. q[i].item # x
        BY <2>2 DEF ItemsOf
      <3> QED
        BY <1>1, <3>2, <3>3
    <2>4. e.item = x
      OBVIOUS
    <2> HIDE DEF c, e, Entries
    <2> SUFFICES ASSUME NEW i \in DOMAIN c, NEW j \in DOMAIN c, by2[c[i].item] = u, j <= i
                 PROVE  by2[c[j].item] = u /\ c[j].writer = NoThread
      BY DEF InFront
    <2>5. i # Len(q) + 1
      BY <1>1, <2>2, <2>4
    <2>6. i \in 1 .. Len(q) /\ j \in 1 .. Len(q)
      BY <2>2, <2>5
    <2>7. by[q[i].item] = u
      BY <2>2, <2>3, <2>6
    <2>8. by[q[j].item] = u /\ q[j].writer = NoThread
      BY <1>5, <2>2, <2>6, <2>7 DEF InFront
    <2> QED
      BY <2>2, <2>3, <2>6, <2>8
  <1> QED
    BY <1>2, <1>3, <1>4, <1>5 DEF by2

\* A thread takes back one of its own.
LEMMA AccountsRest ==
  ASSUME NEW q \in Queues(Buffers, Threads), NoTwice(q), Ready(q),
         NEW t \in Threads, NEW by, Accounts(by, q), by[First(q)] = t
  PROVE  /\ Accounts(Taken(by, First(q), NoThread), Rest(q))
         /\ Cardinality(Of(Taken(by, First(q), NoThread), t)) = Cardinality(Of(by, t)) - 1
         /\ \A u \in Threads \ {t} : Of(Taken(by, First(q), NoThread), u) = Of(by, u)
         /\ \A u \in Threads :
                InFront(by, q, u) => InFront(Taken(by, First(q), NoThread), Rest(q), u)
  <1> DEFINE f == First(q)
             by2 == Taken(by, f, NoThread)
             r == Rest(q)
             Entries == [item : Buffers, writer : Threads \cup {NoThread}]
  <1>0. by \in [Buffers -> Threads \cup {NoThread}] /\ NoThread \notin Threads /\ f \in Buffers
    BY Sizes, RestQueue DEF Accounts
  <1>1. /\ by2 \in [Buffers -> Threads \cup {NoThread}] /\ by2[f] = NoThread
        /\ \A b \in Buffers \ {f} : by2[b] = by[b]
    BY <1>0 DEF Taken
  <1>2. /\ ItemsOf(q) = ItemsOf(r) \cup {f} /\ f \notin ItemsOf(r)
        /\ \A u, x : u # NoThread => (Unwritten(r, u, x) <=> Unwritten(q, u, x))
    BY RestQueue
  <1>3. /\ r \in Seq(Entries) /\ DOMAIN q = 1 .. Len(q) /\ DOMAIN r = 1 .. (Len(q) - 1)
        /\ Len(q) \in Nat /\ \A i \in 1 .. (Len(q) - 1) : r[i] = q[i + 1]
    <2>1. q \in Seq(Entries) /\ q # <<>>
      BY DEF Queues, Ready
    <2> QED
      BY <2>1 DEF Rest
  <1>4. \A i \in DOMAIN r : r[i].item \in Buffers /\ r[i].item # f
    <2>1. \A i \in DOMAIN r : r[i].item \in ItemsOf(r)
      BY DEF ItemsOf
    <2>2. ItemsOf(r) \subseteq Buffers
      BY ItemsType, RestQueue
    <2> QED
      BY <1>2, <2>1, <2>2
  <1> HIDE DEF f, r, Entries, by2
  <1>5. Accounts(by2, r)
    <2>1. \A b \in Buffers : b \in ItemsOf(r) <=> by2[b] # NoThread
      BY <1>1, <1>2 DEF Accounts
    <2>2. \A u \in Threads, b \in Buffers : Unwritten(r, u, b) => b \in ItemsOf(r)
      BY DEF Unwritten, ItemsOf
    <2>3. \A u \in Threads, b \in Buffers : Unwritten(r, u, b) => by2[b] = u
      BY <1>0, <1>1, <1>2, <2>2 DEF Accounts
    <2> QED
      BY <1>1, <2>1, <2>3 DEF Accounts
  <1>6. Cardinality(Of(by2, t)) = Cardinality(Of(by, t)) - 1
    <2>1. Of(by2, t) = Of(by, t) \ {f} /\ f \in Of(by, t)
      BY <1>0, <1>1 DEF Of, f
    <2> QED
      BY <2>1, OfSize, FS_RemoveElement
  <1>7. ASSUME NEW u \in Threads \ {t} PROVE Of(by2, u) = Of(by, u)
    BY <1>0, <1>1 DEF Of, f
  <1>8. ASSUME NEW u \in Threads, InFront(by, q, u) PROVE InFront(by2, r, u)
    <2> SUFFICES ASSUME NEW i \in DOMAIN r, NEW j \in DOMAIN r, by2[r[i].item] = u, j <= i
                 PROVE  by2[r[j].item] = u /\ r[j].writer = NoThread
      BY DEF InFront
    <2>1. /\ i + 1 \in DOMAIN q /\ j + 1 \in DOMAIN q /\ j + 1 <= i + 1
          /\ r[i] = q[i + 1] /\ r[j] = q[j + 1]
      BY <1>3
    <2>2. by[q[i + 1].item] = u
      BY <1>1, <1>4, <2>1
    <2>3. by[q[j + 1].item] = u /\ q[j + 1].writer = NoThread
      BY <1>8, <2>1, <2>2 DEF InFront
    <2> QED
      BY <1>1, <1>4, <2>1, <2>3
  <1> QED
    BY <1>5, <1>6, <1>7, <1>8 DEF f, r, by2

\* A thread ends a write.
LEMMA AccountsPublished ==
  ASSUME NEW q \in Queues(Buffers, Threads), NEW t \in Threads, NEW by, Accounts(by, q)
  PROVE  /\ Accounts(by, Published(q, t))
         /\ \A u \in Threads : InFront(by, q, u) => InFront(by, Published(q, t), u)
         /\ Of(by, t) = Buffers => \A u \in Threads : InFront(by, Published(q, t), u)
  <1> DEFINE p == Published(q, t)
             Entries == [item : Buffers, writer : Threads \cup {NoThread}]
  <1>0. NoThread \notin Threads
    BY Sizes
  <1>1. /\ DOMAIN p = DOMAIN q
        /\ \A i \in DOMAIN q :
              /\ p[i].item = q[i].item
              /\ p[i].writer = IF q[i].writer = t THEN NoThread ELSE q[i].writer
    BY DEF Published
  <1>2. ItemsOf(p) = ItemsOf(q) /\ \A u, y : u # NoThread =>
                (Unwritten(p, u, y) <=> Unwritten(q, u, y) /\ u # t)
    BY PublishedQueue
  <1>3. \A i \in DOMAIN q : q[i].item \in Buffers /\ q[i].writer \in Threads \cup {NoThread}
    <2> SUFFICES ASSUME NEW i \in DOMAIN q
                 PROVE  q[i].item \in Buffers /\ q[i].writer \in Threads \cup {NoThread}
      OBVIOUS
    <2>1. q \in Seq(Entries) /\ i \in 1 .. Len(q)
      BY DEF Queues
    <2>2. q[i] \in Entries
      BY <2>1, ElementOfSeq
    <2> QED
      BY <2>2
  <1> HIDE DEF p
  <1>4. Accounts(by, p)
    BY <1>0, <1>2 DEF Accounts
  <1>5. ASSUME NEW u \in Threads, InFront(by, q, u) PROVE InFront(by, p, u)
    BY <1>1, <1>5 DEF InFront
  <1>6. ASSUME Of(by, t) = Buffers, NEW u \in Threads PROVE InFront(by, p, u)
    <2> SUFFICES ASSUME NEW j \in DOMAIN q PROVE by[q[j].item] = t /\ p[j].writer = NoThread
      BY <1>1, <1>3, <1>6 DEF InFront, Of
    <2>1. by[q[j].item] = t
      BY <1>3, <1>6 DEF Of
    <2>2. ASSUME q[j].writer # NoThread PROVE q[j].writer = t
      <3>1. Unwritten(q, q[j].writer, q[j].item)
        BY DEF Unwritten
      <3> QED
        BY <1>3, <2>1, <2>2, <3>1 DEF Accounts
    <2> QED
      BY <1>0, <1>1, <2>1, <2>2
  <1> QED
    BY <1>4, <1>5, <1>6 DEF p

LEMMA InitClear == Init => Cleared /\ Fresh
  <1> SUFFICES ASSUME Init PROVE Cleared /\ Fresh
    OBVIOUS
  <1>1. mDisabledItems = <<>> /\ mReadItems = <<>> /\ ItemsOf(<<>>) = {}
        /\ \A t, b : ~Unwritten(<<>>, t, b)
    BY EmptyQueue DEF Init
  <1>2. \A t \in Threads : pc[t] = "idle" /\ ~Clearing(t)
    BY DEF Init, Clearing, Sweeping, Refilling
  <1>3. PICK by : Accounts(by, <<>>) /\ \A t \in Threads : Cardinality(Of(by, t)) = 0
    BY AccountsEmpty
  <1>4. WithheldBy(by)
    BY <1>1, <1>2, <1>3 DEF WithheldBy, Withholds, Refilling
  <1> QED
    BY <1>1, <1>2, <1>4 DEF Cleared, Fresh

\* Who withholds what, after a step that moves no withheld buffer.
LEMMA SameWithheld ==
  ASSUME TypeOK, NEW by, WithheldBy(by), NEW t \in Threads,
         \A u \in Threads \ {t} : pc'[u] = pc[u] /\ icount'[u] = icount[u],
         mDisabledItems' = mDisabledItems,
         Withholds(t, Cardinality(Of(by, t)))',
         pc'[t] \in {"cleared"} \cup Refilling => pc[t] \in {"cleared"} \cup Refilling
  PROVE  WithheldBy(by)'
  <1>1. Accounts(by, mDisabledItems')
    BY DEF WithheldBy
  <1>2. ASSUME NEW u \in Threads PROVE Withholds(u, Cardinality(Of(by, u)))'
    <2>1. CASE u = t
      BY <2>1
    <2>2. CASE u # t
      BY <2>2 DEF WithheldBy, Withholds, Clearing
    <2> QED
      BY <2>1, <2>2
  <1>3. ASSUME NEW u \in Threads, pc'[u] \in {"cleared"} \cup Refilling
        PROVE  InFront(by, mDisabledItems', u)
    BY <1>3 DEF WithheldBy
  <1> QED
    BY <1>1, <1>2, <1>3 DEF WithheldBy

\* A step that has nothing to do with a clear.
LEMMA Circulate ==
  ASSUME ClearInv, NEW t \in Threads,
         PopWrite(t) \/ EndWrite(t) \/ EndWritePublish(t) \/ BeginWrite(t)
            \/ BeginRead(t) \/ EndRead(t) \/ EndReadPublish(t)
  PROVE  Cleared' /\ Fresh'
  <1> USE DEF PopWrite, EndWrite, EndWritePublish, BeginWrite, BeginRead, EndRead, EndReadPublish,
              Goto, TakeFrom, queues, ClearInv, Inv
  <1>1. /\ mDisabledItems' = mDisabledItems /\ icount' = icount
        /\ \A u \in Threads \ {t} : pc'[u] = pc[u] /\ hand'[u] = hand[u]
        /\ pc[t] \in Labels \ {"toDisabled"} /\ pc'[t] # "toDisabled"
        /\ ~Clearing(t) /\ ~Clearing(t)'
    BY DEF TypeOK, Clearing, Sweeping, Refilling, Labels
  <1>2. \A u \in Threads : Clearing(u)' <=> Clearing(u)
    BY <1>1 DEF Clearing
  <1>6. \E by : WithheldBy(by)'
    <2>1. PICK by : WithheldBy(by)
      BY DEF Cleared
    <2>2. Cardinality(Of(by, t)) = 0
      BY <1>1, <2>1 DEF WithheldBy, Withholds
    <2>3. Withholds(t, Cardinality(Of(by, t)))' /\ pc'[t] \notin {"cleared"} \cup Refilling
      BY <1>1, <2>2 DEF Withholds, Clearing, Sweeping, Refilling
    <2> QED
      BY <1>1, <2>1, <2>3, SameWithheld
  <1>3. \A u \in Threads : pc'[u] = "toWrite" => Unwritten(mWriteItems, u, hand[u])' 
    <2> SUFFICES ASSUME NEW u \in Threads, pc'[u] = "toWrite"
                 PROVE  Unwritten(mWriteItems', u, hand'[u])
      OBVIOUS
    <2>1. CASE u = t
      <3>1. EndRead(t) /\ hand' = hand /\ hand[t] \in Buffers
        BY <2>1 DEF TypeOK, Counting, Holding
      <3> QED
        BY <2>1, <3>1, QueueChanges
    <2>2. CASE u # t
      <3>1. pc[u] = "toWrite" /\ hand'[u] = hand[u] /\ hand[u] \in Buffers
            /\ Unwritten(mWriteItems, u, hand[u])
        BY <2>2, <1>1 DEF Cleared, Counting
      <3>2. CASE mWriteItems' = mWriteItems
        BY <3>1, <3>2
      <3>3. CASE PopWrite(t)
        BY <3>1, <3>3, QueueChanges
      <3>4. CASE EndRead(t)
        <4>1. hand[t] \in Buffers
          BY <3>4 DEF Counting, Holding
        <4> QED
          BY <3>1, <3>4, <4>1, QueueChanges
      <3>5. CASE EndReadPublish(t)
        BY <2>2, <3>1, <3>5, QueueChanges
      <3> QED
        BY <3>2, <3>3, <3>4, <3>5
    <2> QED
      BY <2>1, <2>2
  <1>4. Cleared'
    BY <1>1, <1>2, <1>3, <1>6 DEF Cleared
  <1>5. Fresh'
    <2>1. old' \subseteq old /\ \A u \in Threads \ {t} : pc'[u] = pc[u] /\ hand'[u] = hand[u]
      BY <1>1
    <2>2. ItemsOf(mReadItems') \cap old' = {}
      <3>1. CASE EndWrite(t)
        <4>1. hand[t] \in Buffers /\ hand[t] \notin old
          BY <3>1 DEF Counting, Holding, Fresh
        <4> QED
          BY <3>1, <4>1, QueueChanges DEF Fresh
      <3>2. CASE BeginRead(t)
        BY <3>2, QueueChanges DEF Fresh
      <3>3. CASE EndWritePublish(t)
        BY <3>3, QueueChanges DEF Fresh
      <3>4. CASE mReadItems' = mReadItems
        BY <2>1, <3>4 DEF Fresh
      <3> QED
        BY <3>1, <3>2, <3>3, <3>4
    <2>3. pc'[t] \in {"writing", "reading", "toWrite"} => hand'[t] \notin old'
      BY QueueChanges DEF Fresh, TypeOK
    <2> QED
      BY <2>1, <2>2, <2>3 DEF Fresh
  <1> QED
    BY <1>4, <1>5

LEMMA DisableClear ==
  ASSUME ClearInv, Inv', NEW t \in Clearers,
         BeginDisable(t) \/ SweepRead(t) \/ SweepWrite(t) \/ Swept(t)
  PROVE  Cleared' /\ Fresh'
  <1> USE DEF BeginDisable, SweepRead, SweepWrite, Swept, Goto, TakeFrom, queues, ClearInv, Inv
  <1> t \in Threads
    BY DEF Threads
  <1>1. /\ \A u \in Threads \ {t} : pc'[u] = pc[u] /\ hand'[u] = hand[u]
        /\ pc'[t] \in Sweeping /\ pc'[t] # "cleared" /\ pc'[t] \notin Refilling
        /\ Clearing(t)' /\ old' = old
    BY DEF TypeOK, Clearing, Sweeping, Refilling
  <1>2. PICK by : WithheldBy(by)
    BY DEF Cleared
  <1> DEFINE k == Cardinality(Of(by, t))
  <1>3. \E new : WithheldBy(new)'
    <2>0. /\ \A u \in Threads \ {t} : pc'[u] = pc[u] /\ icount'[u] = icount[u]
          /\ pc'[t] \notin {"cleared"} \cup Refilling
      BY <1>1 DEF TypeOK
    <2>1. CASE BeginDisable(t)
      <3>1. k = 0
        BY <1>2, <2>1 DEF WithheldBy, Withholds, Clearing, Sweeping, Refilling
      <3>2. Withholds(t, k)'
        BY <1>1, <2>1, <3>1 DEF Withholds, TypeOK
      <3> QED
        BY <1>2, <2>0, <2>1, <3>2, SameWithheld
    <2>2. CASE SweepRead(t) \/ SweepWrite(t)
      <3>1. k = icount[t]
        BY <1>2, <2>2 DEF WithheldBy, Withholds
      <3>2. Withholds(t, k)'
        BY <1>1, <2>2, <3>1 DEF Withholds, TypeOK
      <3> QED
        BY <1>2, <2>0, <2>2, <3>2, SameWithheld
    <2>3. CASE Swept(t)
      <3>1. k = icount[t] /\ Accounts(by, mDisabledItems)
        BY <1>2, <2>3 DEF WithheldBy, Withholds
      <3>2. hand[t] \in Buffers /\ hand[t] \notin ItemsOf(mDisabledItems)
        BY <2>3, QueueKinds DEF Counting, Holding, Placed, Alone, Holds
      <3>3. mDisabledItems \in Queues(Buffers, Threads)
        BY DEF TypeOK, Queues, Entry
      <3>4. PICK new : new = Taken(by, hand[t], t)
        OBVIOUS
      <3>5. /\ Accounts(new, mDisabledItems')
            /\ Cardinality(Of(new, t)) = k + 1
            /\ \A u \in Threads \ {t} :
                 /\ Of(new, u) = Of(by, u)
                 /\ InFront(by, mDisabledItems, u) => InFront(new, mDisabledItems', u)
        <4> DEFINE q == Claimed(mDisabledItems, t, hand[t])
        <4>1. /\ Accounts(new, q)
              /\ Cardinality(Of(new, t)) = Cardinality(Of(by, t)) + 1
              /\ \A u \in Threads \ {t} :
                   /\ Of(new, u) = Of(by, u)
                   /\ InFront(by, mDisabledItems, u) => InFront(new, q, u)
          <5> HIDE DEF BeginDisable, SweepRead, SweepWrite, Swept, ClearInv, Inv, Goto, TakeFrom
          <5> QED
            BY <3>1, <3>2, <3>3, <3>4, AccountsClaimed
        <4>2. mDisabledItems' = q
          BY <2>3
        <4> QED
          BY <4>1, <4>2
      <3>6. Withholds(t, Cardinality(Of(new, t)))'
        BY <1>1, <2>3, <3>1, <3>5 DEF Withholds, TypeOK
      <3>7. \A u \in Threads \ {t} : Withholds(u, Cardinality(Of(new, u)))'
        BY <1>2, <2>0, <3>5 DEF WithheldBy, Withholds, Clearing
      <3>8. \A u \in Threads : pc'[u] \in {"cleared"} \cup Refilling
                                 => InFront(new, mDisabledItems', u)
        BY <1>2, <2>0, <3>5 DEF WithheldBy
      <3>9. WithheldBy(new)'
        BY <3>5, <3>6, <3>7, <3>8 DEF WithheldBy
      <3> QED
        BY <3>9
    <2> QED
      BY <2>1, <2>2, <2>3
  <1>4. \A u \in Threads, b \in Buffers : Unwritten(mDisabledItems', u, b) => pc'[u] = "toDisabled"
    <2>1. CASE Swept(t)
      <3>1. hand[t] \in Buffers
        BY <2>1 DEF Counting, Holding
      <3> QED
        BY <2>1, <3>1, <1>1, QueueChanges DEF Cleared, TypeOK
    <2>2. CASE mDisabledItems' = mDisabledItems /\ pc[t] # "toDisabled"
      BY <2>2, <1>1 DEF Cleared
    <2> QED
      BY <2>1, <2>2
  <1>5. \A u \in Threads : pc'[u] = "toWrite" => Unwritten(mWriteItems', u, hand'[u])
    <2> SUFFICES ASSUME NEW u \in Threads, pc'[u] = "toWrite"
                 PROVE  Unwritten(mWriteItems', u, hand'[u])
      OBVIOUS
    <2>1. u # t /\ pc[u] = "toWrite" /\ hand'[u] = hand[u] /\ hand[u] \in Buffers
          /\ Unwritten(mWriteItems, u, hand[u])
      BY <1>1 DEF Cleared, Counting, Sweeping
    <2>2. CASE mWriteItems' = mWriteItems
      BY <2>1, <2>2
    <2>3. CASE Ready(mWriteItems) /\ mWriteItems' = Rest(mWriteItems)
      BY <2>1, <2>3, QueueChanges
    <2> QED
      BY <2>2, <2>3
  <1>6. Cleared'
    BY <1>1, <1>3, <1>4, <1>5 DEF Cleared, Clearing
  <1>7. Fresh'
    <2>1. ItemsOf(mReadItems') \subseteq ItemsOf(mReadItems)
      BY QueueChanges
    <2> QED
      BY <1>1, <2>1 DEF Fresh, Sweeping
  <1> QED
    BY <1>6, <1>7

\* When the last buffer is out, none is anywhere else.
LEMMA SweptClear ==
  ASSUME ClearInv, Inv', NEW t \in Clearers, SweptPublish(t)
  PROVE  Cleared' /\ Fresh'
  <1> USE DEF SweptPublish, Goto, queues, ClearInv
  <1> t \in Threads
    BY DEF Threads
  <1>1. /\ \A u \in Threads \ {t} : pc'[u] = pc[u] /\ hand'[u] = hand[u]
        /\ pc[t] = "toDisabled"
        /\ \/ pc'[t] = "sweepRead" /\ icount[t] + 1 < N /\ old' = old
           \/ pc'[t] = "cleared" /\ ~(icount[t] + 1 < N)
    BY DEF Inv, TypeOK
  <1>2. PICK by : WithheldBy(by)
    BY DEF Cleared
  <1> DEFINE k == Cardinality(Of(by, t))
  <1>3. /\ k = icount[t] + 1 /\ icount'[t] = icount[t] + 1
        /\ icount[t] \in 0 .. N /\ icount[t] < N /\ N \in Nat
        /\ pc'[t] = "cleared" => k = N
    <2>1. k = icount[t] + 1
      BY <1>1, <1>2 DEF WithheldBy, Withholds
    <2>2. icount[t] \in 0 .. N /\ icount[t] < N /\ N \in Nat
      BY <1>1, Sizes DEF Inv, TypeOK, Counting, Sweeping
    <2>3. icount'[t] = icount[t] + 1
      BY DEF Inv, TypeOK
    <2> QED
      BY <1>1, <2>1, <2>2, <2>3
  <1>4. WithheldBy(by)'
    <2>1. /\ Accounts(by, mDisabledItems')
          /\ \A u \in Threads : InFront(by, mDisabledItems, u) => InFront(by, mDisabledItems', u)
          /\ Of(by, t) = Buffers => InFront(by, mDisabledItems', t)
      <3>1. mDisabledItems \in Queues(Buffers, Threads)
        BY DEF Inv, TypeOK, Queues, Entry
      <3> QED
        BY <1>2, <3>1, AccountsPublished DEF WithheldBy
    <2>2. Withholds(t, k)'
      <3>1. Clearing(t)'
        BY <1>1 DEF Clearing, Sweeping
      <3> QED
        BY <1>1, <1>3, <3>1 DEF Withholds
    <2>3. \A u \in Threads \ {t} : Withholds(u, Cardinality(Of(by, u)))'
      <3>1. \A u \in Threads \ {t} : icount'[u] = icount[u]
        BY DEF Inv, TypeOK
      <3> QED
        BY <1>1, <1>2, <3>1 DEF WithheldBy, Withholds, Clearing
    <2>4. ASSUME NEW u \in Threads, pc'[u] \in {"cleared"} \cup Refilling
          PROVE  InFront(by, mDisabledItems', u)
      <3>1. CASE u = t
        <4>1. Of(by, t) = Buffers
          BY <1>1, <1>3, <2>4, <3>1, OfSize DEF Refilling
        <4> QED
          BY <2>1, <3>1, <4>1
      <3>2. CASE u # t
        BY <1>1, <1>2, <2>1, <2>4, <3>2 DEF WithheldBy
      <3> QED
        BY <3>1, <3>2
    <2> QED
      BY <2>1, <2>2, <2>3, <2>4 DEF WithheldBy
  <1>5. \A u \in Threads, b \in Buffers : Unwritten(mDisabledItems', u, b) => pc'[u] = "toDisabled"
    BY <1>1, QueueChanges DEF Cleared, Inv
  <1>6. \A u \in Threads : pc'[u] = "toWrite" => Unwritten(mWriteItems', u, hand'[u])
    BY <1>1 DEF Cleared
  <1>7. Cleared'
    <2>1. \A u \in Threads : Clearing(u)' => u \in Clearers
      BY <1>1 DEF Cleared, Clearing
    <2> QED
      BY <1>4, <1>5, <1>6, <2>1 DEF Cleared
  <1>8. Fresh'
    <2>1. CASE pc'[t] = "sweepRead"
      BY <2>1, <1>1 DEF Fresh
    <2>2. CASE pc'[t] = "cleared"
      <3>1. Of(by, t) = Buffers
        BY <1>3, <2>2, OfSize
      <3>2. Accounts(by, mDisabledItems') /\ NoThread \notin Threads
        BY <1>4, Sizes DEF WithheldBy
      <3>3. \A b \in Buffers : b \in ItemsOf(mDisabledItems')
        BY <3>1, <3>2 DEF Accounts, Of
      <3>4. /\ \A b \in Buffers : b \notin ItemsOf(mReadItems') /\ b \notin ItemsOf(mWriteItems')
            /\ \A u \in Threads, b \in Buffers : ~Holds(u, b)'
        BY <3>3, QueueKinds DEF Inv, Placed, Alone
      <3>5. ItemsOf(mReadItems') = {}
        <4>1. ItemsOf(mReadItems') \subseteq Buffers
          BY ItemsType DEF Inv, TypeOK, Queues, Entry
        <4> QED
          BY <3>4, <4>1
      <3>6. ASSUME NEW u \in Threads, pc'[u] \in {"writing", "reading"} PROVE FALSE
        BY <3>4, <3>6 DEF Inv, Counting, Holding, Holds
      <3>7. ASSUME NEW u \in Threads, pc'[u] = "toWrite" PROVE FALSE
        <4>1. Unwritten(mWriteItems', u, hand'[u]) /\ hand'[u] \in Buffers
          BY <1>6, <3>7 DEF Inv, Counting
        <4>2. hand'[u] \in ItemsOf(mWriteItems')
          BY <4>1 DEF Unwritten, ItemsOf
        <4> QED
          BY <3>4, <4>1, <4>2
      <3> QED
        BY <3>5, <3>6, <3>7 DEF Fresh
    <2> QED
      BY <1>1, <2>1, <2>2
  <1> QED
    BY <1>7, <1>8

\* A thread that has not put all of its buffers back finds one of them at the
\* head of mDisabledItems.
LEMMA RefillReady ==
  ASSUME ClearInv, NEW t \in Threads, pc[t] = "refill", NEW by, WithheldBy(by)
  PROVE  Ready(mDisabledItems) /\ by[First(mDisabledItems)] = t
  <1>1. Cardinality(Of(by, t)) = N - icount[t] /\ icount[t] < N /\ icount[t] \in 0 .. N /\ N \in Nat
    BY Sizes DEF ClearInv, Inv, TypeOK, Counting, Refilling, WithheldBy, Withholds
  <1>2. Of(by, t) # {}
    BY <1>1, OfSize
  <1>3. PICK b \in Buffers : by[b] = t
    BY <1>2 DEF Of
  <1>4. b \in ItemsOf(mDisabledItems)
    BY <1>3, Sizes DEF WithheldBy, Accounts
  <1>5. PICK i \in DOMAIN mDisabledItems : mDisabledItems[i].item = b
    BY <1>4 DEF ItemsOf
  <1>6. mDisabledItems \in Seq(Entry)
    BY DEF ClearInv, Inv, TypeOK
  <1>7. 1 \in DOMAIN mDisabledItems /\ 1 <= i /\ mDisabledItems # <<>>
        /\ Head(mDisabledItems) = mDisabledItems[1]
    BY <1>5, <1>6
  <1>8. InFront(by, mDisabledItems, t)
    BY DEF WithheldBy, Refilling
  <1>9. by[mDisabledItems[1].item] = t /\ mDisabledItems[1].writer = NoThread
    BY <1>3, <1>5, <1>7, <1>8 DEF InFront
  <1> QED
    BY <1>7, <1>9 DEF Ready, First

LEMMA EnableClear ==
  ASSUME ClearInv, Inv', NEW t \in Clearers,
         BeginEnable(t) \/ RefillDisabled(t) \/ Refilled(t) \/ RefilledPublish(t)
  PROVE  Cleared' /\ Fresh'
  <1> USE DEF BeginEnable, RefillDisabled, Refilled, RefilledPublish, Goto, TakeFrom, queues, ClearInv
  <1> t \in Threads
    BY DEF Threads
  <1>1. /\ \A u \in Threads \ {t} : pc'[u] = pc[u] /\ hand'[u] = hand[u]
        /\ pc'[t] \in Refilling \cup {"idle"} /\ pc[t] \in Refilling \cup {"cleared"}
        /\ pc[t] # "toDisabled" /\ pc[t] # "toWrite" /\ pc'[t] # "toWrite"
        /\ pc'[t] \notin {"writing", "reading", "cleared"} \cup Sweeping
        /\ Clearing(t) /\ old' = old /\ mReadItems' = mReadItems
    BY DEF Inv, TypeOK, Clearing, Sweeping, Refilling
  <1>2. PICK by : WithheldBy(by)
    BY DEF Cleared
  <1> DEFINE k == Cardinality(Of(by, t))
  <1>3. Withholds(t, k) /\ icount[t] \in 0 .. N /\ N \in Nat /\ k \in Nat
        /\ \A u \in Threads \ {t} : icount'[u] = icount[u]
    BY <1>2, Sizes, OfSize DEF WithheldBy, Inv, TypeOK
  <1>4. \E new : WithheldBy(new)'
    <2>1. CASE BeginEnable(t)
      <3>1. Withholds(t, k)'
        BY <1>1, <1>3, <2>1 DEF Withholds, Clearing, Refilling, Inv, TypeOK
      <3> QED
        BY <1>1, <1>2, <1>3, <2>1, <3>1, SameWithheld DEF Inv
    <2>2. CASE RefillDisabled(t)
      <3>1. by[First(mDisabledItems)] = t
        BY <1>2, <2>2, RefillReady
      <3>2. mDisabledItems \in Queues(Buffers, Threads) /\ NoTwice(mDisabledItems)
            /\ Accounts(by, mDisabledItems)
        BY <1>2, QueueKinds DEF Inv, TypeOK, Placed, Queues, Entry, WithheldBy
      <3>3. PICK new : new = Taken(by, First(mDisabledItems), NoThread)
        OBVIOUS
      <3>4. /\ Accounts(new, mDisabledItems')
            /\ Cardinality(Of(new, t)) = k - 1
            /\ \A u \in Threads \ {t} : Of(new, u) = Of(by, u)
            /\ \A u \in Threads : InFront(by, mDisabledItems, u) => InFront(new, mDisabledItems', u)
        <4> DEFINE q == Rest(mDisabledItems)
        <4>1. Ready(mDisabledItems) /\ mDisabledItems' = q
          BY <2>2
        <4>2. /\ Accounts(new, q)
              /\ Cardinality(Of(new, t)) = Cardinality(Of(by, t)) - 1
              /\ \A u \in Threads \ {t} : Of(new, u) = Of(by, u)
              /\ \A u \in Threads : InFront(by, mDisabledItems, u) => InFront(new, q, u)
          <5> HIDE DEF BeginEnable, RefillDisabled, Refilled, RefilledPublish, ClearInv, Goto, TakeFrom
          <5> QED
            BY <3>1, <3>2, <3>3, <4>1, AccountsRest
        <4> QED
          BY <4>1, <4>2
      <3>5. Withholds(t, Cardinality(Of(new, t)))'
        <4>1. pc[t] = "refill" /\ pc'[t] = "refilled" /\ icount' = icount
          BY <2>2 DEF Inv, TypeOK
        <4>2. Cardinality(Of(new, t)) = N - icount'[t] - 1
          BY <1>3, <3>4, <4>1 DEF Withholds
        <4> QED
          BY <4>1, <4>2 DEF Withholds, Clearing, Refilling
      <3>6. \A u \in Threads \ {t} : Withholds(u, Cardinality(Of(new, u)))'
        BY <1>1, <1>2, <1>3, <3>4 DEF WithheldBy, Withholds, Clearing
      <3>7. \A u \in Threads : pc'[u] \in {"cleared"} \cup Refilling
                                 => InFront(new, mDisabledItems', u)
        BY <1>1, <1>2, <3>4 DEF WithheldBy
      <3>8. WithheldBy(new)'
        BY <3>4, <3>5, <3>6, <3>7 DEF WithheldBy
      <3> QED
        BY <3>8
    <2>3. CASE Refilled(t)
      <3>1. Withholds(t, k)'
        BY <1>1, <1>3, <2>3 DEF Withholds, Clearing, Refilling, Inv, TypeOK
      <3> QED
        BY <1>1, <1>2, <1>3, <2>3, <3>1, SameWithheld DEF Inv
    <2>4. CASE RefilledPublish(t)
      <3>1. k = N - icount[t] - 1 /\ icount'[t] = icount[t] + 1
            /\ pc'[t] = IF icount[t] + 1 < N THEN "refill" ELSE "idle"
        BY <1>3, <2>4 DEF Withholds, Inv, TypeOK
      <3>2. Withholds(t, k)'
        <4>1. CASE icount[t] + 1 < N
          BY <1>3, <3>1, <4>1 DEF Withholds, Clearing, Refilling
        <4>2. CASE ~(icount[t] + 1 < N)
          <5>1. k = 0
            BY <1>3, <3>1, <4>2
          <5> QED
            BY <3>1, <4>2, <5>1 DEF Withholds
        <4> QED
          BY <4>1, <4>2
      <3> QED
        BY <1>1, <1>2, <1>3, <2>4, <3>2, SameWithheld DEF Inv
    <2> QED
      BY <2>1, <2>2, <2>3, <2>4
  <1>5. \A u \in Threads, b \in Buffers : Unwritten(mDisabledItems', u, b) => pc'[u] = "toDisabled"
    BY <1>1, QueueChanges DEF Cleared, Inv
  <1>6. \A u \in Threads : pc'[u] = "toWrite" => Unwritten(mWriteItems', u, hand'[u])
    <2> SUFFICES ASSUME NEW u \in Threads, pc'[u] = "toWrite"
                 PROVE  Unwritten(mWriteItems', u, hand'[u])
      OBVIOUS
    <2>1. u # t /\ pc[u] = "toWrite" /\ hand'[u] = hand[u] /\ hand[u] \in Buffers
          /\ Unwritten(mWriteItems, u, hand[u])
      BY <1>1 DEF Cleared, Inv, Counting
    <2>2. CASE mWriteItems' = mWriteItems
      BY <2>1, <2>2
    <2>3. CASE Refilled(t)
      <3>1. hand[t] \in Buffers
        BY <2>3 DEF Inv, Counting, Holding
      <3> QED
        BY <2>1, <2>3, <3>1, QueueChanges DEF Inv
    <2>4. CASE RefilledPublish(t)
      BY <2>1, <2>4, QueueChanges DEF Inv
    <2> QED
      BY <2>2, <2>3, <2>4
  <1>7. Cleared'
    <2>1. \A u \in Threads : Clearing(u)' => u \in Clearers
      BY <1>1 DEF Cleared, Clearing
    <2> QED
      BY <1>4, <1>5, <1>6, <2>1 DEF Cleared
  <1>8. Fresh'
    BY <1>1, <1>7 DEF Fresh
  <1> QED
    BY <1>7, <1>8

LEMMA ClearStep == ClearInv /\ [Next]_vars => ClearInv'
  <1> SUFFICES ASSUME ClearInv, [Next]_vars PROVE ClearInv'
    OBVIOUS
  <1>1. Inv'
    BY StepInv DEF ClearInv
  <1>2. ASSUME NEW t \in Writers, BeginWrite(t) \/ Write(t) PROVE ClearInv'
    BY <1>1, <1>2, Circulate DEF Write, Threads, ClearInv
  <1>3. ASSUME NEW t \in Readers, BeginRead(t) \/ Read(t) PROVE ClearInv'
    BY <1>1, <1>3, Circulate DEF Read, Threads, ClearInv
  <1>4. ASSUME NEW t \in Clearers, BeginDisable(t) \/ Disable(t) PROVE ClearInv'
    BY <1>1, <1>4, DisableClear, SweptClear DEF Disable, ClearInv
  <1>5. ASSUME NEW t \in Clearers, Enable(t) PROVE ClearInv'
    BY <1>1, <1>5, EnableClear DEF Enable, ClearInv
  <1>6. CASE UNCHANGED vars
    BY <1>1, <1>6
    DEF vars, queues, ClearInv, Cleared, Fresh, Clearing, WithheldBy, Withholds
  <1> QED
    BY <1>2, <1>3, <1>4, <1>5, <1>6 DEF Next

LEMMA ClearInvariance == Spec => []ClearInv
  <1>1. Init => ClearInv
    BY InitInv, InitClear DEF ClearInv
  <1> QED
    BY <1>1, ClearStep, PTL DEF Spec

\* A thread that has as many buffers out as there are has them all.
LEMMA AllWithheld ==
  ASSUME NEW q \in Queues(Buffers, Threads), NEW by, Accounts(by, q),
         NEW t \in Threads, Cardinality(Of(by, t)) = N
  PROVE  ItemsOf(q) = Buffers
  <1>1. Of(by, t) = Buffers
    BY OfSize
  <1>2. Buffers \subseteq ItemsOf(q)
    BY <1>1, Sizes DEF Accounts, Of
  <1> QED
    BY <1>2, ItemsType

\* The thread that clears has every buffer out of circulation between Begin-
\* and EndClearAndSync, so that drawables may be deleted, and enable never has
\* to take a buffer from mWriteItems (multi_buffer.h), however many threads
\* clear at the same time.
THEOREM Flushed == Spec => []FlushedWhenCleared
  <1>1. ASSUME ClearInv PROVE FlushedWhenCleared
    <2> SUFFICES ASSUME NEW t \in Clearers
                 PROVE  /\ pc[t] = "cleared" =>
                            \A b \in Buffers :
                                \E i \in DOMAIN mDisabledItems : mDisabledItems[i].item = b
                        /\ pc[t] = "refill" => Ready(mDisabledItems)
      BY DEF FlushedWhenCleared
    <2>1. PICK by : WithheldBy(by)
      BY <1>1 DEF ClearInv, Cleared
    <2>2. ASSUME pc[t] = "cleared" PROVE ItemsOf(mDisabledItems) = Buffers
      <3>1. mDisabledItems \in Queues(Buffers, Threads)
        BY <1>1 DEF ClearInv, Inv, TypeOK, Queues, Entry
      <3>2. Accounts(by, mDisabledItems) /\ Cardinality(Of(by, t)) = N /\ t \in Threads
        BY <2>1, <2>2 DEF WithheldBy, Withholds, Threads
      <3> QED
        BY <3>1, <3>2, AllWithheld
    <2>3. pc[t] = "refill" => Ready(mDisabledItems)
      BY <1>1, <2>1, RefillReady DEF Threads
    <2> QED
      BY <2>2, <2>3 DEF ItemsOf
  <1> QED
    BY <1>1, ClearInvariance, PTL

\* No reader is given a buffer that was filled before the last clear completed,
\* whoever clears.
THEOREM ReadsFresh == Spec => []NoStaleRead
  <1>1. ClearInv => NoStaleRead
    BY DEF ClearInv, Fresh, NoStaleRead, Threads
  <1> QED
    BY <1>1, ClearInvariance, PTL

----------------------------------------------------------------------------
(* The exchange of buffers.                                                *)

Held == [t \in Threads |-> IF Holding(t) THEN hand[t] ELSE None]
Doings == [t \in Threads |-> Doing(t)]
Exchanged == <<ItemsOf(mWriteItems), ItemsOf(mDisabledItems), InOrder(mReadItems), Held, Doings>>

\* What the steps of a queue do to its buffers and their order.
LEMMA QueueMaps ==
  ASSUME Inv, NEW q \in {mReadItems, mWriteItems, mDisabledItems}
  PROVE  /\ Ready(q) =>
              /\ First(q) \in Buffers /\ First(q) \in ItemsOf(q)
              /\ ItemsOf(Rest(q)) = ItemsOf(q) \ {First(q)}
              /\ InOrder(q) # <<>> /\ Head(InOrder(q)) = First(q)
              /\ InOrder(Rest(q)) = Tail(InOrder(q))
         /\ \A t \in Threads :
              /\ ItemsOf(Published(q, t)) = ItemsOf(q) /\ InOrder(Published(q, t)) = InOrder(q)
         /\ \A t \in Threads, x \in Buffers :
              /\ ItemsOf(Claimed(q, t, x)) = ItemsOf(q) \cup {x}
              /\ InOrder(Claimed(q, t, x)) = Append(InOrder(q), x)
  <1>1. q \in Queues(Buffers, Threads) /\ NoTwice(q)
    BY QueueKinds DEF Inv, TypeOK, Placed, Queues, Entry
  <1>2. Ready(q) =>
              /\ First(q) \in Buffers /\ First(q) \in ItemsOf(q)
              /\ ItemsOf(Rest(q)) = ItemsOf(q) \ {First(q)}
    <2> SUFFICES ASSUME Ready(q)
                 PROVE  /\ First(q) \in Buffers /\ First(q) \in ItemsOf(q)
                        /\ ItemsOf(Rest(q)) = ItemsOf(q) \ {First(q)}
      OBVIOUS
    <2>1. /\ First(q) \in Buffers /\ First(q) \in ItemsOf(q)
          /\ ItemsOf(q) = ItemsOf(Rest(q)) \cup {First(q)} /\ First(q) \notin ItemsOf(Rest(q))
      BY <1>1, RestQueue
    <2> QED
      BY <2>1
  <1>3. Ready(q) =>
              /\ InOrder(q) # <<>> /\ Head(InOrder(q)) = First(q)
              /\ InOrder(Rest(q)) = Tail(InOrder(q))
    BY <1>1, RestInOrder
  <1>4. ASSUME NEW t \in Threads
        PROVE ItemsOf(Published(q, t)) = ItemsOf(q) /\ InOrder(Published(q, t)) = InOrder(q)
    BY <1>1, PublishedQueue, PublishedInOrder
  <1>5. ASSUME NEW t \in Threads, NEW x \in Buffers
        PROVE /\ ItemsOf(Claimed(q, t, x)) = ItemsOf(q) \cup {x}
              /\ InOrder(Claimed(q, t, x)) = Append(InOrder(q), x)
    BY <1>1, ClaimedQueue, ClaimedInOrder
  <1> QED
    BY <1>2, <1>3, <1>4, <1>5

\* All but the thread that takes a step keep what they hold and do.
LEMMA OneMoves ==
  ASSUME NEW t \in Threads, \A u \in Threads \ {t} : pc'[u] = pc[u] /\ hand'[u] = hand[u]
  PROVE  /\ Held' = [Held EXCEPT ![t] = IF Holding(t)' THEN hand'[t] ELSE None]
         /\ Doings' = [Doings EXCEPT ![t] = Doing(t)']
         /\ Held[t] = (IF Holding(t) THEN hand[t] ELSE None)
         /\ Doings[t] = Doing(t)
  <1>1. \A u \in Threads \ {t} : Held'[u] = Held[u]
    BY DEF Held, Holding
  <1>2. \A u \in Threads \ {t} : Doings'[u] = Doings[u]
    BY DEF Doings, Doing
  <1>3. Held'[t] = (IF Holding(t)' THEN hand'[t] ELSE None) /\ Doings'[t] = Doing(t)'
    BY DEF Held, Doings
  <1>4. /\ Held = [u \in Threads |-> Held[u]] /\ Held' = [u \in Threads |-> Held'[u]]
        /\ Doings = [u \in Threads |-> Doings[u]] /\ Doings' = [u \in Threads |-> Doings'[u]]
    BY DEF Held, Doings
  <1>5. Held[t] = (IF Holding(t) THEN hand[t] ELSE None) /\ Doings[t] = Doing(t)
    BY DEF Held, Doings
  <1> QED
    BY <1>1, <1>2, <1>3, <1>4, <1>5

\* A step of one thread that the exchange does not see.
LEMMA Unseen ==
  ASSUME NEW t \in Threads, \A u \in Threads \ {t} : pc'[u] = pc[u] /\ hand'[u] = hand[u],
         ~Holding(t), ~Holding(t)', Doing(t)' = Doing(t),
         ItemsOf(mWriteItems') = ItemsOf(mWriteItems),
         ItemsOf(mDisabledItems') = ItemsOf(mDisabledItems),
         InOrder(mReadItems') = InOrder(mReadItems)
  PROVE  UNCHANGED Exchanged
  <1>1. Held' = Held /\ Doings' = Doings
    <2>1. Held' = [Held EXCEPT ![t] = Held[t]] /\ Doings' = [Doings EXCEPT ![t] = Doings[t]]
      BY OneMoves
    <2>2. Held = [u \in Threads |-> Held[u]] /\ Doings = [u \in Threads |-> Doings[u]]
      BY DEF Held, Doings
    <2> QED
      BY <2>1, <2>2
  <1> QED
    BY <1>1 DEF Exchanged

\* The steps of writers and readers: a buffer is taken at the pop and given at
\* the claim of its place; the store that publishes the place is not seen.
LEMMA WriteMaps ==
  ASSUME Inv, NEW t \in Threads, BeginWrite(t) \/ PopWrite(t) \/ EndWrite(t) \/ EndWritePublish(t)
  PROVE  Promise!Next \/ UNCHANGED Exchanged
  <1> USE DEF BeginWrite, PopWrite, EndWrite, EndWritePublish, Goto, TakeFrom, queues
  <1>1. \A u \in Threads \ {t} : pc'[u] = pc[u] /\ hand'[u] = hand[u]
    BY DEF Inv, TypeOK
  <1>2. CASE BeginWrite(t) \/ EndWritePublish(t)
    <2>1. /\ ~Holding(t) /\ ~Holding(t)' /\ Doing(t)' = Doing(t)
          /\ mWriteItems' = mWriteItems /\ mDisabledItems' = mDisabledItems
          /\ mReadItems' \in {mReadItems, Published(mReadItems, t)}
      BY <1>2 DEF Inv, TypeOK, Holding, Doing, Sweeping, Refilling
    <2> QED
      BY <1>1, <2>1, Unseen, QueueMaps
  <1>3. CASE PopWrite(t)
    <2>1. /\ Held[t] = None /\ Held' = [Held EXCEPT ![t] = First(mWriteItems)]
          /\ Doings[t] = "nothing" /\ Doings' = [Doings EXCEPT ![t] = "write"]
      BY <1>1, <1>3, OneMoves DEF Inv, TypeOK, Holding, Doing, Sweeping, Refilling
    <2>2. /\ First(mWriteItems) \in ItemsOf(mWriteItems)
          /\ ItemsOf(mWriteItems') = ItemsOf(mWriteItems) \ {First(mWriteItems)}
      BY <1>3, QueueMaps
    <2>3. Promise!TakeFree(t)
      BY <2>1, <2>2 DEF Promise!TakeFree, Promise!Take, Held
    <2>4. Promise!Turn(t, "nothing", "write")
      BY <2>1 DEF Promise!Turn, Doings
    <2>5. Promise!Write(t)
      BY <1>3, <2>3, <2>4 DEF Promise!Write
    <2> QED
      BY <2>5 DEF Promise!Next, Promise!Exchange
  <1>4. CASE EndWrite(t)
    <2>1. hand[t] \in Buffers /\ hand[t] # None
      BY <1>4, BuffersAssumption DEF Inv, Counting, Holding
    <2>2. /\ Held[t] = hand[t] /\ Held' = [Held EXCEPT ![t] = None]
          /\ Doings[t] = "write" /\ Doings' = [Doings EXCEPT ![t] = "nothing"]
      BY <1>1, <1>4, OneMoves DEF Inv, TypeOK, Holding, Doing, Sweeping, Refilling
    <2>3. InOrder(mReadItems') = Append(InOrder(mReadItems), Held[t])
      BY <1>4, <2>1, <2>2, QueueMaps
    <2>4. Promise!Part(t)
      BY <2>1, <2>2 DEF Promise!Part, Held
    <2>5. Promise!Turn(t, "write", "nothing")
      BY <2>2 DEF Promise!Turn, Doings
    <2>6. Promise!Written(t)
      BY <1>4, <2>3, <2>4, <2>5 DEF Promise!Written, Held
    <2> QED
      BY <2>6 DEF Promise!Next, Promise!Exchange
  <1> QED
    BY <1>2, <1>3, <1>4

LEMMA ReadMaps ==
  ASSUME Inv, NEW t \in Threads, BeginRead(t) \/ EndRead(t) \/ EndReadPublish(t)
  PROVE  Promise!Next \/ UNCHANGED Exchanged
  <1> USE DEF BeginRead, EndRead, EndReadPublish, Goto, TakeFrom, queues
  <1>1. \A u \in Threads \ {t} : pc'[u] = pc[u] /\ hand'[u] = hand[u]
    BY DEF Inv, TypeOK
  <1>2. CASE EndReadPublish(t)
    <2>1. /\ ~Holding(t) /\ ~Holding(t)' /\ Doing(t)' = Doing(t)
          /\ mReadItems' = mReadItems /\ mDisabledItems' = mDisabledItems
          /\ mWriteItems' = Published(mWriteItems, t)
      BY <1>2 DEF Inv, TypeOK, Holding, Doing, Sweeping, Refilling
    <2> QED
      BY <1>1, <2>1, Unseen, QueueMaps
  <1>3. CASE BeginRead(t)
    <2>1. /\ Held[t] = None /\ Held' = [Held EXCEPT ![t] = First(mReadItems)]
          /\ Doings[t] = "nothing" /\ Doings' = [Doings EXCEPT ![t] = "read"]
      BY <1>1, <1>3, OneMoves DEF Inv, TypeOK, Holding, Doing, Sweeping, Refilling
    <2>2. /\ InOrder(mReadItems) # <<>> /\ Head(InOrder(mReadItems)) = First(mReadItems)
          /\ InOrder(mReadItems') = Tail(InOrder(mReadItems))
      BY <1>3, QueueMaps
    <2>3. Promise!TakeFilled(t)
      BY <2>1, <2>2 DEF Promise!TakeFilled, Promise!Take, Held
    <2>4. Promise!Turn(t, "nothing", "read")
      BY <2>1 DEF Promise!Turn, Doings
    <2>5. Promise!Read(t)
      BY <1>3, <2>3, <2>4 DEF Promise!Read
    <2> QED
      BY <2>5 DEF Promise!Next, Promise!Exchange
  <1>4. CASE EndRead(t)
    <2>1. hand[t] \in Buffers /\ hand[t] # None
      BY <1>4, BuffersAssumption DEF Inv, Counting, Holding
    <2>2. /\ Held[t] = hand[t] /\ Held' = [Held EXCEPT ![t] = None]
          /\ Doings[t] = "read" /\ Doings' = [Doings EXCEPT ![t] = "nothing"]
      BY <1>1, <1>4, OneMoves DEF Inv, TypeOK, Holding, Doing, Sweeping, Refilling
    <2>3. ItemsOf(mWriteItems') = ItemsOf(mWriteItems) \cup {Held[t]}
      BY <1>4, <2>1, <2>2, QueueMaps
    <2>4. Promise!Part(t)
      BY <2>1, <2>2 DEF Promise!Part, Held
    <2>5. Promise!Turn(t, "read", "nothing")
      BY <2>2 DEF Promise!Turn, Doings
    <2>6. Promise!Drawn(t)
      BY <1>4, <2>3, <2>4, <2>5 DEF Promise!Drawn, Held
    <2> QED
      BY <2>6 DEF Promise!Next, Promise!Exchange
  <1> QED
    BY <1>2, <1>3, <1>4

\* The steps of disable: its loop ends when all buffers are withheld.
LEMMA DisableMaps ==
  ASSUME ClearInv, ClearInv', NEW t \in Threads, BeginDisable(t) \/ Disable(t)
  PROVE  Promise!Next \/ UNCHANGED Exchanged
  <1> USE DEF BeginDisable, Disable, SweepRead, SweepWrite, Swept, SweptPublish, Goto, TakeFrom,
              queues, ClearInv
  <1>1. \A u \in Threads \ {t} : pc'[u] = pc[u] /\ hand'[u] = hand[u]
    BY DEF Inv, TypeOK
  <1>2. CASE BeginDisable(t)
    <2>1. /\ Held' = Held
          /\ Doings[t] = "nothing" /\ Doings' = [Doings EXCEPT ![t] = "stop"]
      <3>1. Held' = [Held EXCEPT ![t] = Held[t]]
        BY <1>1, <1>2, OneMoves DEF Inv, TypeOK, Holding
      <3>2. Held' = Held
        BY <3>1 DEF Held
      <3> QED
        BY <1>1, <1>2, <3>2, OneMoves DEF Inv, TypeOK, Doing, Sweeping, Refilling
    <2>2. Promise!Stop(t)
      BY <1>2, <2>1 DEF Promise!Stop, Promise!Turn, Doings, Held
    <2> QED
      BY <2>2 DEF Promise!Next, Promise!Clear
  <1>3. CASE (SweepRead(t) \/ SweepWrite(t)) /\ pc'[t] # "swept"
    <2>1. /\ ~Holding(t) /\ ~Holding(t)' /\ Doing(t)' = Doing(t)
          /\ mReadItems' = mReadItems /\ mWriteItems' = mWriteItems
          /\ mDisabledItems' = mDisabledItems
      BY <1>3 DEF Inv, TypeOK, Holding, Doing, Sweeping, Refilling
    <2> QED
      BY <1>1, <2>1, Unseen
  <1>4. CASE (SweepRead(t) \/ SweepWrite(t)) /\ pc'[t] = "swept"
    <2>1. PICK q \in {mReadItems, mWriteItems} :
            /\ Ready(q) /\ hand' = [hand EXCEPT ![t] = First(q)]
            /\ pc[t] \in {"sweepRead", "sweepWrite"} /\ mDisabledItems' = mDisabledItems
            /\ \/ q = mReadItems /\ mReadItems' = Rest(mReadItems) /\ mWriteItems' = mWriteItems
               \/ q = mWriteItems /\ mWriteItems' = Rest(mWriteItems) /\ mReadItems' = mReadItems
      BY <1>4 DEF Inv, TypeOK
    <2>2. /\ Held[t] = None /\ Held' = [Held EXCEPT ![t] = First(q)]
          /\ Doings[t] = "stop" /\ Doings' = [Doings EXCEPT ![t] = "stop"]
      BY <1>1, <1>4, <2>1, OneMoves DEF Inv, TypeOK, Holding, Doing, Sweeping, Refilling
    <2>3. Doings' = Doings
      BY <2>2 DEF Doings
    <2>4. CASE q = mReadItems /\ mReadItems' = Rest(mReadItems) /\ mWriteItems' = mWriteItems
      <3>1. /\ InOrder(mReadItems) # <<>> /\ Head(InOrder(mReadItems)) = First(mReadItems)
            /\ InOrder(mReadItems') = Tail(InOrder(mReadItems))
        BY <2>1, <2>4, QueueMaps
      <3>2. Promise!TakeFilled(t)
        BY <2>2, <2>4, <3>1 DEF Promise!TakeFilled, Promise!Take, Held
      <3>3. Promise!Collect(t)
        BY <2>1, <2>2, <2>3, <2>4, <3>2 DEF Promise!Collect, Held, Doings
      <3> QED
        BY <3>3 DEF Promise!Next, Promise!Clear
    <2>5. CASE q = mWriteItems /\ mWriteItems' = Rest(mWriteItems) /\ mReadItems' = mReadItems
      <3>1. /\ First(mWriteItems) \in ItemsOf(mWriteItems)
            /\ ItemsOf(mWriteItems') = ItemsOf(mWriteItems) \ {First(mWriteItems)}
        BY <2>1, <2>5, QueueMaps
      <3>2. Promise!TakeFree(t)
        BY <2>2, <2>5, <3>1 DEF Promise!TakeFree, Promise!Take, Held
      <3>3. Promise!Collect(t)
        BY <2>1, <2>2, <2>3, <2>5, <3>2 DEF Promise!Collect, Held, Doings
      <3> QED
        BY <3>3 DEF Promise!Next, Promise!Clear
    <2> QED
      BY <2>1, <2>4, <2>5
  <1>5. CASE Swept(t)
    <2>1. hand[t] \in Buffers /\ hand[t] # None
      BY <1>5, BuffersAssumption DEF Inv, Counting, Holding
    <2>2. /\ Held[t] = hand[t] /\ Held' = [Held EXCEPT ![t] = None]
          /\ Doings[t] = "stop" /\ Doings' = [Doings EXCEPT ![t] = "stop"]
      BY <1>1, <1>5, OneMoves DEF Inv, TypeOK, Holding, Doing, Sweeping, Refilling
    <2>3. ItemsOf(mDisabledItems') = ItemsOf(mDisabledItems) \cup {Held[t]}
      BY <1>5, <2>1, <2>2, QueueMaps
    <2>4. Promise!Part(t) /\ Doings' = Doings
      BY <2>1, <2>2 DEF Promise!Part, Held, Doings
    <2>5. Promise!Withhold(t)
      BY <1>5, <2>2, <2>3, <2>4 DEF Promise!Withhold, Held, Doings
    <2> QED
      BY <2>5 DEF Promise!Next, Promise!Clear
  <1>6. CASE SweptPublish(t)
    <2>1. /\ ~Holding(t) /\ ~Holding(t)' /\ pc[t] = "toDisabled"
          /\ pc'[t] \in {"sweepRead", "cleared"}
          /\ mReadItems' = mReadItems /\ mWriteItems' = mWriteItems
          /\ ItemsOf(mDisabledItems') = ItemsOf(mDisabledItems)
      BY <1>6, QueueMaps DEF Inv, TypeOK, Holding
    <2>2. CASE pc'[t] = "sweepRead"
      <3>1. Doing(t)' = Doing(t)
        BY <2>1, <2>2 DEF Doing, Sweeping, Refilling
      <3> QED
        BY <1>1, <2>1, <3>1, Unseen
    <2>3. CASE pc'[t] = "cleared"
      <3>1. ItemsOf(mDisabledItems') = Buffers
        <4>1. PICK by : WithheldBy(by)'
          BY DEF Cleared
        <4>2. mDisabledItems' \in Queues(Buffers, Threads)
          BY DEF Inv, TypeOK, Queues, Entry
        <4>3. Accounts(by, mDisabledItems') /\ Cardinality(Of(by, t)) = N
          BY <2>3, <4>1 DEF WithheldBy, Withholds
        <4> QED
          BY <4>2, <4>3, AllWithheld
      <3>2. /\ Held' = Held
            /\ Doings[t] = "stop" /\ Doings' = [Doings EXCEPT ![t] = "stopped"]
        <4>1. Held' = [Held EXCEPT ![t] = Held[t]]
          BY <1>1, <2>1, OneMoves
        <4>2. Held' = Held
          BY <4>1 DEF Held
        <4> QED
          BY <1>1, <2>1, <2>3, <4>2, OneMoves DEF Doing, Sweeping, Refilling
      <3>3. Promise!Stopped(t)
        BY <2>1, <3>1, <3>2 DEF Promise!Stopped, Promise!Turn, Doings, Held
      <3> QED
        BY <3>3 DEF Promise!Next, Promise!Clear
    <2> QED
      BY <2>1, <2>2, <2>3
  <1> QED
    BY <1>2, <1>3, <1>4, <1>5, <1>6

\* The steps of enable: its loop ends when none is withheld.
LEMMA EnableMaps ==
  ASSUME ClearInv, ClearInv', OneClears, NEW t \in Threads, Enable(t)
  PROVE  Promise!Next \/ UNCHANGED Exchanged
  <1> USE DEF Enable, BeginEnable, RefillDisabled, Refilled, RefilledPublish, Goto,
              TakeFrom, queues, ClearInv
  <1>1. \A u \in Threads \ {t} : pc'[u] = pc[u] /\ hand'[u] = hand[u]
    BY DEF Inv, TypeOK
  <1>2. CASE BeginEnable(t)
    <2>1. /\ Held' = Held
          /\ Doings[t] = "stopped" /\ Doings' = [Doings EXCEPT ![t] = "restart"]
      <3>1. Held' = [Held EXCEPT ![t] = Held[t]]
        BY <1>1, <1>2, OneMoves DEF Inv, TypeOK, Holding
      <3>2. Held' = Held
        BY <3>1 DEF Held
      <3> QED
        BY <1>1, <1>2, <3>2, OneMoves DEF Inv, TypeOK, Doing, Sweeping, Refilling
    <2>2. Promise!Restart(t)
      BY <1>2, <2>1 DEF Promise!Restart, Promise!Turn, Doings, Held
    <2> QED
      BY <2>2 DEF Promise!Next, Promise!Clear
  <1>3. CASE RefillDisabled(t)
    <2>0. Ready(mDisabledItems) /\ hand' = [hand EXCEPT ![t] = First(mDisabledItems)]
          /\ pc'[t] = "refilled" /\ mDisabledItems' = Rest(mDisabledItems)
      BY <1>3 DEF Inv, TypeOK
    <2>1. /\ Held[t] = None /\ Held' = [Held EXCEPT ![t] = First(mDisabledItems)]
          /\ Doings[t] = "restart" /\ Doings' = [Doings EXCEPT ![t] = "restart"]
      BY <1>1, <1>3, <2>0, OneMoves DEF Inv, TypeOK, Holding, Doing, Sweeping, Refilling
    <2>2. /\ First(mDisabledItems) \in ItemsOf(mDisabledItems)
          /\ ItemsOf(mDisabledItems') = ItemsOf(mDisabledItems) \ {First(mDisabledItems)}
      BY <2>0, QueueMaps
    <2>3. Doings' = Doings
      BY <2>1 DEF Doings
    <2>4. \E b \in ItemsOf(mDisabledItems) :
            /\ Held' = [Held EXCEPT ![t] = b]
            /\ ItemsOf(mDisabledItems') = ItemsOf(mDisabledItems) \ {b}
      BY <2>1, <2>2
    <2>5. mReadItems' = mReadItems /\ mWriteItems' = mWriteItems
      BY <1>3
    <2>6. Promise!Return(t)
      BY <2>1, <2>3, <2>4, <2>5 DEF Promise!Return, Promise!Take, Held, Doings
    <2> QED
      BY <2>6 DEF Promise!Next, Promise!Clear
  <1>4. CASE Refilled(t)
    <2>1. hand[t] \in Buffers /\ hand[t] # None
      BY <1>4, BuffersAssumption DEF Inv, Counting, Holding
    <2>2. /\ Held[t] = hand[t] /\ Held' = [Held EXCEPT ![t] = None]
          /\ Doings[t] = "restart" /\ Doings' = [Doings EXCEPT ![t] = "restart"]
      BY <1>1, <1>4, OneMoves DEF Inv, TypeOK, Holding, Doing, Sweeping, Refilling
    <2>3. ItemsOf(mWriteItems') = ItemsOf(mWriteItems) \cup {Held[t]}
      BY <1>4, <2>1, <2>2, QueueMaps
    <2>4. Promise!Part(t) /\ Doings' = Doings
      BY <2>1, <2>2 DEF Promise!Part, Held, Doings
    <2>5. Promise!Release(t)
      BY <1>4, <2>2, <2>3, <2>4 DEF Promise!Release, Held, Doings
    <2> QED
      BY <2>5 DEF Promise!Next, Promise!Clear
  <1>5. CASE RefilledPublish(t)
    <2>1. /\ ~Holding(t) /\ ~Holding(t)' /\ pc[t] = "toRefill"
          /\ pc'[t] = (IF icount[t] + 1 < N THEN "refill" ELSE "idle")
          /\ mReadItems' = mReadItems /\ mDisabledItems' = mDisabledItems
          /\ ItemsOf(mWriteItems') = ItemsOf(mWriteItems)
      BY <1>5, QueueMaps DEF Inv, TypeOK, Holding
    <2>2. CASE pc'[t] = "refill"
      <3>1. Doing(t)' = Doing(t)
        BY <2>1, <2>2 DEF Doing, Sweeping, Refilling
      <3> QED
        BY <1>1, <2>1, <3>1, Unseen
    <2>3. CASE pc'[t] = "idle"
      <3>1. ItemsOf(mDisabledItems) = {}
        <4>1. PICK by : WithheldBy(by)
          BY DEF Cleared
        <4>2. Cardinality(Of(by, t)) = 0
          <5>1. Cardinality(Of(by, t)) = N - icount[t] - 1
            BY <2>1, <4>1 DEF WithheldBy, Withholds
          <5>2. icount[t] < N /\ icount[t] \in 0 .. N /\ ~(icount[t] + 1 < N) /\ N \in Nat
            BY <2>1, <2>3, Sizes DEF Inv, TypeOK, Counting, Refilling
          <5> QED
            BY <5>1, <5>2
        <4>3. ASSUME NEW u \in Threads \ {t} PROVE Cardinality(Of(by, u)) = 0
          <5>1. Clearing(t) /\ (Clearing(u) => u \in Clearers) /\ t \in Clearers
            BY <2>1 DEF Cleared, Clearing, Refilling
          <5>2. ~Clearing(u)
            BY <5>1 DEF OneClears
          <5> QED
            BY <4>1, <5>2 DEF WithheldBy, Withholds
        <4>4. \A u \in Threads : Of(by, u) = {}
          BY <4>2, <4>3, OfSize
        <4>5. \A b \in Buffers : b \notin ItemsOf(mDisabledItems)
          BY <4>1, <4>4 DEF WithheldBy, Accounts, Of
        <4>6. ItemsOf(mDisabledItems) \subseteq Buffers
          BY ItemsType DEF Inv, TypeOK, Queues, Entry
        <4> QED
          BY <4>5, <4>6
      <3>2. /\ Held' = Held /\ Held[t] = None
            /\ Doings[t] = "restart" /\ Doings' = [Doings EXCEPT ![t] = "nothing"]
        <4>1. Held' = [Held EXCEPT ![t] = Held[t]] /\ Held[t] = None
          BY <1>1, <2>1, OneMoves
        <4>2. Held' = Held
          BY <4>1 DEF Held
        <4> QED
          BY <1>1, <2>1, <2>3, <4>1, <4>2, OneMoves DEF Doing, Sweeping, Refilling
      <3>3. Promise!Restarted(t)
        BY <2>1, <3>1, <3>2 DEF Promise!Restarted, Promise!Turn, Doings, Held
      <3> QED
        BY <3>3 DEF Promise!Next, Promise!Clear
    <2> QED
      BY <2>1, <2>2, <2>3
  <1> QED
    BY <1>2, <1>3, <1>4, <1>5

\* concurrent_multi_buffer keeps the promise of the exchange: buffers have one
\* place each and are read in the order in which they were filled, disable ends
\* when all are withheld and enable when none is (multi_buffer.h).
THEOREM KeepsExchange == Spec /\ []OneClears => ImplementsExchange
  <1>1. Init => Promise!Init
    <2> SUFFICES ASSUME Init PROVE Promise!Init
      OBVIOUS
    <2>1. /\ InOrder(mReadItems) = <<>> /\ ItemsOf(mDisabledItems) = {}
      BY EmptyQueue DEF Init, InOrder
    <2>2. ItemsOf(mWriteItems) = Buffers
      <3>1. mWriteItems \in Queues(Buffers, Threads) /\ NoTwice(mWriteItems)
        BY InitInv, QueueKinds DEF Inv, TypeOK, Placed, Queues, Entry
      <3>2. Len(mWriteItems) = N
        BY Sizes DEF Init
      <3> QED
        BY <3>1, <3>2, FullQueue, BuffersAssumption DEF N
    <2>3. \A t \in Threads : ~Holding(t) /\ Doing(t) = "nothing"
      BY DEF Init, Holding, Doing, Sweeping, Refilling
    <2> QED
      BY <2>1, <2>2, <2>3 DEF Promise!Init
  <1>2. ClearInv /\ ClearInv' /\ OneClears /\ [Next]_vars => [Promise!Next]_Exchanged
    <2> SUFFICES ASSUME ClearInv, ClearInv', OneClears, [Next]_vars
                 PROVE  Promise!Next \/ UNCHANGED Exchanged
      OBVIOUS
    <2>1. CASE UNCHANGED vars
      BY <2>1 DEF vars, queues, Exchanged, Held, Holding, Doings, Doing
    <2>2. CASE Next
      BY <2>2, WriteMaps, ReadMaps, DisableMaps, EnableMaps
      DEF Next, Write, Read, Threads, ClearInv
    <2> QED
      BY <2>1, <2>2
  <1>3. ClearInv /\ ClearInv' /\ OneClears /\ [Next]_vars
          => [Promise!Next]_<<ItemsOf(mWriteItems), ItemsOf(mDisabledItems), InOrder(mReadItems),
                [t \in Threads |-> IF Holding(t) THEN hand[t] ELSE None],
                [t \in Threads |-> Doing(t)]>>
    BY <1>2 DEF Exchanged, Held, Doings
  <1> QED
    BY <1>1, <1>3, ClearInvariance, PTL DEF Spec, ImplementsExchange, Promise!Spec

\* With one thread that clears, as in the editor, clears do not overlap.
COROLLARY OneClearer ==
  ASSUME \A t, u \in Clearers : t = u
  PROVE  Spec => ImplementsExchange
  <1>1. OneClears
    BY DEF OneClears
  <1> QED
    BY <1>1, KeepsExchange, PTL
=============================================================================
