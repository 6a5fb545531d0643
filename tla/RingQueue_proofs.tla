-------------------------- MODULE RingQueue_proofs --------------------------
(***************************************************************************)
(* What the steps of RingQueue do to the items of a queue, to the entries  *)
(* still being written and to the length.  The components that use queues  *)
(* cite these lemmas and do not look at positions.                         *)
(***************************************************************************)
EXTENDS RingQueue, FiniteSetTheorems, SequenceTheorems, TLAPS

Queues(Items, Threads) == Seq([item : Items, writer : Threads \cup {NoThread}])

\* No item is in two entries.
NoTwice(q) == \A i, j \in DOMAIN q : q[i].item = q[j].item => i = j

\* Thread t has claimed a place for x and not written it.
Unwritten(q, t, x) == \E i \in DOMAIN q : q[i].item = x /\ q[i].writer = t

LEMMA ItemsType ==
  ASSUME NEW Items, NEW Threads, NEW q \in Queues(Items, Threads)
  PROVE  ItemsOf(q) \subseteq Items
  <1> DEFINE Entries == [item : Items, writer : Threads \cup {NoThread}]
  <1>1. q \in Seq(Entries)
    BY DEF Queues
  <1>2. ASSUME NEW i \in DOMAIN q PROVE q[i] \in Entries
    <2>1. i \in 1..Len(q)
      BY <1>1
    <2> HIDE DEF Entries
    <2> QED
      BY <1>1, <2>1, ElementOfSeq
  <1>3. \A e \in Entries : e.item \in Items
    OBVIOUS
  <1> HIDE DEF Entries
  <1> QED
    BY <1>2, <1>3 DEF ItemsOf

LEMMA EmptyQueue ==
  ASSUME NEW Items, NEW Threads
  PROVE  /\ <<>> \in Queues(Items, Threads) /\ Len(<<>>) = 0
         /\ ItemsOf(<<>>) = {} /\ NoTwice(<<>>)
         /\ \A t, x : ~Unwritten(<<>>, t, x)
  BY DEF Queues, ItemsOf, NoTwice, Unwritten

LEMMA ClaimedQueue ==
  ASSUME NEW Items, NEW Threads, NEW q \in Queues(Items, Threads),
         NEW t \in Threads, NEW x \in Items
  PROVE  /\ Claimed(q, t, x) \in Queues(Items, Threads)
         /\ Len(Claimed(q, t, x)) = Len(q) + 1
         /\ ItemsOf(Claimed(q, t, x)) = ItemsOf(q) \cup {x}
         /\ NoTwice(q) /\ x \notin ItemsOf(q) => NoTwice(Claimed(q, t, x))
         /\ \A u, y : Unwritten(Claimed(q, t, x), u, y)
                        <=> Unwritten(q, u, y) \/ (u = t /\ y = x)
  <1> DEFINE e == [item |-> x, writer |-> t]
             c == Claimed(q, t, x)
             Entries == [item : Items, writer : Threads \cup {NoThread}]
  <1>1. q \in Seq(Entries) /\ e \in Entries
    BY DEF Queues
  <1>2. /\ c \in Seq(Entries) /\ Len(c) = Len(q) + 1 /\ c[Len(q) + 1] = e
        /\ \A i \in 1..Len(q) : c[i] = q[i]
    BY <1>1 DEF Claimed
  <1>3. DOMAIN q = 1..Len(q) /\ DOMAIN c = 1..(Len(q) + 1) /\ Len(q) \in Nat
    BY <1>1, <1>2
  <1>4. e.item = x /\ e.writer = t
    OBVIOUS
  <1> HIDE DEF c, e
  <1>5. ItemsOf(c) = ItemsOf(q) \cup {x}
    BY <1>2, <1>3, <1>4 DEF ItemsOf
  <1>6. NoTwice(q) /\ x \notin ItemsOf(q) => NoTwice(c)
    BY <1>2, <1>3, <1>4 DEF NoTwice, ItemsOf
  <1>7. \A u, y : Unwritten(c, u, y) <=> Unwritten(q, u, y) \/ (u = t /\ y = x)
    BY <1>2, <1>3, <1>4 DEF Unwritten
  <1> QED
    BY <1>2, <1>5, <1>6, <1>7 DEF c, Queues

LEMMA PublishedQueue ==
  ASSUME NEW Items, NEW Threads, NEW q \in Queues(Items, Threads), NEW t \in Threads
  PROVE  /\ Published(q, t) \in Queues(Items, Threads)
         /\ Len(Published(q, t)) = Len(q)
         /\ ItemsOf(Published(q, t)) = ItemsOf(q)
         /\ NoTwice(q) => NoTwice(Published(q, t))
         /\ \A u, y : u # NoThread =>
                (Unwritten(Published(q, t), u, y) <=> Unwritten(q, u, y) /\ u # t)
  <1> DEFINE p == Published(q, t)
             Entries == [item : Items, writer : Threads \cup {NoThread}]
  <1>1. q \in Seq(Entries) /\ DOMAIN q = 1..Len(q) /\ Len(q) \in Nat
    BY DEF Queues
  <1>2. DOMAIN p = DOMAIN q
    BY DEF Published
  <1>3. ASSUME NEW i \in DOMAIN q
        PROVE  /\ q[i] \in Entries /\ p[i] \in Entries /\ p[i].item = q[i].item
               /\ q[i].writer = t => p[i].writer = NoThread
               /\ q[i].writer # t => p[i].writer = q[i].writer
    <2>1. q[i] \in Entries
      BY <1>1, ElementOfSeq
    <2>2. p[i] = IF q[i].writer = t THEN [item |-> q[i].item, writer |-> NoThread] ELSE q[i]
      BY DEF Published
    <2> QED
      BY <2>1, <2>2
  <1>4. p \in Seq(Entries) /\ Len(p) = Len(q)
    <2>1. p = [i \in 1..Len(q) |-> p[i]]
      BY <1>1 DEF Published
    <2>2. p \in [1..Len(q) -> Entries]
      BY <2>1, <1>1, <1>3
    <2> QED
      BY <2>2, <1>1
  <1> HIDE DEF p
  <1>5. ItemsOf(p) = ItemsOf(q) /\ (NoTwice(q) => NoTwice(p))
    BY <1>2, <1>3 DEF ItemsOf, NoTwice
  <1>6. \A u, y : u # NoThread => (Unwritten(p, u, y) <=> Unwritten(q, u, y) /\ u # t)
    BY <1>2, <1>3 DEF Unwritten
  <1> QED
    BY <1>4, <1>5, <1>6 DEF p, Queues

LEMMA RestQueue ==
  ASSUME NEW Items, NEW Threads, NEW q \in Queues(Items, Threads), Ready(q)
  PROVE  /\ Rest(q) \in Queues(Items, Threads)
         /\ Len(Rest(q)) = Len(q) - 1 /\ Len(q) > 0
         /\ First(q) \in Items /\ First(q) \in ItemsOf(q)
         /\ ItemsOf(q) = ItemsOf(Rest(q)) \cup {First(q)}
         /\ NoTwice(q) => NoTwice(Rest(q)) /\ First(q) \notin ItemsOf(Rest(q))
         /\ \A t, x : t # NoThread => (Unwritten(Rest(q), t, x) <=> Unwritten(q, t, x))
  <1> DEFINE r == Rest(q)
             Entries == [item : Items, writer : Threads \cup {NoThread}]
  <1>1. q \in Seq(Entries) /\ q # <<>>
    BY DEF Queues, Ready
  <1>2. /\ r \in Seq(Entries) /\ Len(q) \in Nat /\ Len(q) > 0 /\ Len(r) = Len(q) - 1
        /\ \A i \in 1..Len(r) : r[i] = q[i + 1]
        /\ DOMAIN q = 1..Len(q) /\ DOMAIN r = 1..Len(r)
    BY <1>1 DEF Rest
  <1>3. First(q) = q[1].item /\ q[1].writer = NoThread /\ q[1] \in Entries
    <2>1. Head(q) \in Entries
      BY <1>1, HeadTailProperties
    <2>2. Head(q) = q[1]
      BY <1>1
    <2> QED
      BY <2>1, <2>2 DEF First, Ready
  <1> HIDE DEF r
  <1>4. \A i \in 2..Len(q) : i - 1 \in DOMAIN r /\ r[i - 1] = q[i]
    BY <1>2
  <1>5. \A i \in DOMAIN r : i + 1 \in DOMAIN q /\ i + 1 # 1 /\ r[i] = q[i + 1]
    BY <1>2
  <1>6. ItemsOf(q) = ItemsOf(r) \cup {First(q)}
    <2>1. ASSUME NEW x \in ItemsOf(q) PROVE x \in ItemsOf(r) \cup {First(q)}
      <3>1. PICK i \in DOMAIN q : x = q[i].item
        BY DEF ItemsOf
      <3>2. CASE i = 1
        BY <3>1, <3>2, <1>3
      <3>3. CASE i # 1
        BY <3>1, <3>3, <1>2, <1>4 DEF ItemsOf
      <3> QED
        BY <3>2, <3>3
    <2>2. ItemsOf(r) \subseteq ItemsOf(q)
      BY <1>5 DEF ItemsOf
    <2>3. First(q) \in ItemsOf(q)
      BY <1>2, <1>3 DEF ItemsOf
    <2> QED
      BY <2>1, <2>2, <2>3
  <1>7. ASSUME NoTwice(q) PROVE NoTwice(r) /\ First(q) \notin ItemsOf(r)
    <2>1. NoTwice(r)
      BY <1>2, <1>5, <1>7 DEF NoTwice
    <2>2. First(q) \notin ItemsOf(r)
      BY <1>2, <1>3, <1>5, <1>7 DEF NoTwice, ItemsOf
    <2> QED
      BY <2>1, <2>2
  <1>8. ASSUME NEW t, NEW x, t # NoThread PROVE Unwritten(r, t, x) <=> Unwritten(q, t, x)
    <2>1. Unwritten(r, t, x) => Unwritten(q, t, x)
      BY <1>5 DEF Unwritten
    <2>2. ASSUME Unwritten(q, t, x) PROVE Unwritten(r, t, x)
      <3>1. PICK i \in DOMAIN q : q[i].item = x /\ q[i].writer = t
        BY <2>2 DEF Unwritten
      <3>2. i # 1
        BY <3>1, <1>3, <1>8
      <3> QED
        <4>1. i - 1 \in DOMAIN r /\ r[i - 1] = q[i]
          BY <3>1, <3>2, <1>2, <1>4
        <4> QED
          BY <3>1, <4>1 DEF Unwritten
    <2> QED
      BY <2>1, <2>2
  <1> QED
    BY <1>2, <1>3, <1>6, <1>7, <1>8 DEF r, Queues

\* A queue of different items as long as there are items holds them all.
LEMMA FullQueue ==
  ASSUME NEW Items, NEW Threads, NEW q \in Queues(Items, Threads),
         IsFiniteSet(Items), NoTwice(q), Len(q) = Cardinality(Items)
  PROVE  ItemsOf(q) = Items
  <1> DEFINE n == Cardinality(Items)
             f == [i \in 1..n |-> q[i].item]
  <1>1. n \in Nat /\ DOMAIN q = 1..n
    BY FS_CardinalityType DEF Queues
  <1>2. \A i \in 1..n : q[i].item \in Items
    <2> SUFFICES ASSUME NEW i \in 1..n PROVE q[i].item \in Items
      OBVIOUS
    <2>1. q \in Seq([item : Items, writer : Threads \cup {NoThread}]) /\ i \in 1..Len(q)
      BY <1>1 DEF Queues
    <2>2. q[i] \in [item : Items, writer : Threads \cup {NoThread}]
      BY <2>1, ElementOfSeq
    <2> QED
      BY <2>2
  <1>3. f \in Injection(1..n, Items)
    BY <1>1, <1>2 DEF NoTwice, Injection, IsInjective
  <1>4. IsFiniteSet(1..n) /\ Cardinality(1..n) = n
    BY <1>1, FS_Interval
  <1>5. f \in Surjection(1..n, Items)
    BY <1>3, <1>4, FS_Injection
  <1>6. \A x \in Items : \E i \in 1..n : f[i] = x
    BY <1>5 DEF Surjection
  <1> QED
    BY <1>1, <1>2, <1>6 DEF ItemsOf

\* Item x is ahead of item y.
Before(q, x, y) == \E i, j \in DOMAIN q : i < j /\ q[i].item = x /\ q[j].item = y

LEMMA ClaimedOrder ==
  ASSUME NEW Items, NEW Threads, NEW q \in Queues(Items, Threads),
         NEW t \in Threads, NEW x \in Items
  PROVE  /\ \A y, z : Before(q, y, z) => Before(Claimed(q, t, x), y, z)
         /\ \A y \in ItemsOf(q) : Before(Claimed(q, t, x), y, x)
  <1> DEFINE e == [item |-> x, writer |-> t]
             c == Claimed(q, t, x)
             Entries == [item : Items, writer : Threads \cup {NoThread}]
  <1>1. q \in Seq(Entries) /\ e \in Entries
    BY DEF Queues
  <1>2. /\ c \in Seq(Entries) /\ Len(c) = Len(q) + 1 /\ c[Len(q) + 1] = e
        /\ \A i \in 1..Len(q) : c[i] = q[i]
    BY <1>1 DEF Claimed
  <1>3. DOMAIN q = 1..Len(q) /\ DOMAIN c = 1..(Len(q) + 1) /\ Len(q) \in Nat
    BY <1>1, <1>2
  <1>4. e.item = x
    OBVIOUS
  <1> HIDE DEF c, e
  <1>5. \A y, z : Before(q, y, z) => Before(c, y, z)
    BY <1>2, <1>3 DEF Before
  <1>6. \A y \in ItemsOf(q) : Before(c, y, x)
    BY <1>2, <1>3, <1>4 DEF Before, ItemsOf
  <1> QED
    BY <1>5, <1>6 DEF c

LEMMA PublishedOrder ==
  ASSUME NEW q, NEW t, NEW y, NEW z, Before(q, y, z)
  PROVE  Before(Published(q, t), y, z)
  <1>1. DOMAIN Published(q, t) = DOMAIN q
    BY DEF Published
  <1>2. ASSUME NEW i \in DOMAIN q  PROVE Published(q, t)[i].item = q[i].item
    BY DEF Published
  <1> QED
    BY <1>1, <1>2 DEF Before

LEMMA RestOrder ==
  ASSUME NEW Items, NEW Threads, NEW q \in Queues(Items, Threads), Ready(q), NoTwice(q),
         NEW y, NEW z, Before(q, y, z)
  PROVE  /\ z # First(q) /\ z \in ItemsOf(Rest(q))
         /\ y # First(q) => Before(Rest(q), y, z)
  <1> DEFINE r == Rest(q)
             Entries == [item : Items, writer : Threads \cup {NoThread}]
  <1>1. q \in Seq(Entries) /\ q # <<>>
    BY DEF Queues, Ready
  <1>2. /\ Len(q) \in Nat /\ Len(q) > 0
        /\ DOMAIN q = 1..Len(q) /\ DOMAIN r = 1..(Len(q) - 1)
        /\ \A i \in 1..(Len(q) - 1) : r[i] = q[i + 1]
    BY <1>1 DEF Rest
  <1>3. First(q) = q[1].item
    BY <1>1 DEF First
  <1> HIDE DEF r
  <1>4. PICK i, j \in DOMAIN q : i < j /\ q[i].item = y /\ q[j].item = z
    BY DEF Before
  <1>5. j # 1 /\ j - 1 \in DOMAIN r /\ r[j - 1] = q[j] /\ 1 \in DOMAIN q
    BY <1>2, <1>4
  <1>6. z # First(q) /\ z \in ItemsOf(r)
    BY <1>3, <1>4, <1>5 DEF NoTwice, ItemsOf
  <1>7. ASSUME y # First(q)  PROVE Before(r, y, z)
    <2>1. i # 1
      BY <1>3, <1>4, <1>7
    <2>2. i - 1 \in DOMAIN r /\ r[i - 1] = q[i] /\ i - 1 < j - 1
      BY <1>2, <1>4, <2>1
    <2> QED
      BY <1>4, <1>5, <2>2 DEF Before
  <1> QED
    BY <1>6, <1>7 DEF r

----------------------------------------------------------------------------
(* A queue as the sequence of its items.                                   *)

LEMMA ClaimedInOrder ==
  ASSUME NEW Items, NEW Threads, NEW q \in Queues(Items, Threads),
         NEW t \in Threads, NEW x \in Items
  PROVE  /\ InOrder(q) \in Seq(Items)
         /\ InOrder(Claimed(q, t, x)) = Append(InOrder(q), x)
  <1> DEFINE e == [item |-> x, writer |-> t]
             c == Claimed(q, t, x)
             Entries == [item : Items, writer : Threads \cup {NoThread}]
             n == Len(q)
  <1>1. q \in Seq(Entries) /\ e \in Entries
    BY DEF Queues
  <1>2. /\ c \in Seq(Entries) /\ Len(c) = n + 1 /\ c[n + 1] = e
        /\ \A i \in 1..n : c[i] = q[i]
    BY <1>1 DEF Claimed
  <1>3. DOMAIN q = 1..n /\ DOMAIN c = 1..(n + 1) /\ n \in Nat
    BY <1>1, <1>2
  <1>4. \A i \in 1..n : q[i] \in Entries
    BY <1>1, <1>3, ElementOfSeq
  <1>5. \A i \in 1..n : q[i].item \in Items
    BY <1>4
  <1> HIDE DEF Entries, n, c
  <1>6. InOrder(q) = [i \in 1..n |-> q[i].item] /\ InOrder(c) = [i \in 1..(n + 1) |-> c[i].item]
    BY <1>3 DEF InOrder
  <1>7. InOrder(q) \in Seq(Items) /\ Len(InOrder(q)) = n
    BY <1>3, <1>5, <1>6
  <1>8. InOrder(c) = Append(InOrder(q), x)
    <2> DEFINE a == Append(InOrder(q), x)
    <2>1. a \in Seq(Items) /\ Len(a) = n + 1 /\ a[n + 1] = x
          /\ \A i \in 1..n : a[i] = InOrder(q)[i]
      BY <1>7
    <2> HIDE DEF a
    <2>2. DOMAIN a = 1..(n + 1) /\ a = [i \in 1..(n + 1) |-> a[i]]
      BY <1>3, <2>1
    <2>3. \A i \in 1..(n + 1) : a[i] = c[i].item
      <3>1. \A i \in 1..n : a[i] = c[i].item
        BY <1>2, <1>3, <1>6, <2>1
      <3>2. a[n + 1] = c[n + 1].item
        BY <1>2, <2>1
      <3> QED
        BY <1>3, <3>1, <3>2
    <2>4. a = [i \in 1..(n + 1) |-> c[i].item]
      BY <2>2, <2>3
    <2> QED
      BY <1>6, <2>4 DEF a
  <1> QED
    BY <1>7, <1>8 DEF c

LEMMA PublishedInOrder ==
  ASSUME NEW q, NEW t
  PROVE  InOrder(Published(q, t)) = InOrder(q)
  <1>1. /\ DOMAIN Published(q, t) = DOMAIN q
        /\ \A i \in DOMAIN q : Published(q, t)[i].item = q[i].item
    BY DEF Published
  <1> QED
    BY <1>1 DEF InOrder

LEMMA RestInOrder ==
  ASSUME NEW Items, NEW Threads, NEW q \in Queues(Items, Threads), Ready(q)
  PROVE  /\ InOrder(q) # <<>>
         /\ Head(InOrder(q)) = First(q)
         /\ InOrder(Rest(q)) = Tail(InOrder(q))
  <1> DEFINE Entries == [item : Items, writer : Threads \cup {NoThread}]
             n == Len(q)
             r == Rest(q)
             o == InOrder(q)
  <1>1. q \in Seq(Entries) /\ q # <<>>
    BY DEF Queues, Ready
  <1>2. /\ DOMAIN q = 1..n /\ n \in Nat /\ n # 0
        /\ r \in Seq(Entries) /\ DOMAIN r = 1..(n - 1)
        /\ \A i \in 1..(n - 1) : r[i] = q[i + 1]
        /\ Head(q) = q[1]
    BY <1>1 DEF Rest
  <1>3. \A i \in 1..n : q[i] \in Entries
    BY <1>1, <1>2, ElementOfSeq
  <1>4. \A i \in 1..n : q[i].item \in Items
    BY <1>3
  <1> HIDE DEF Entries, n
  <1>5. o = [i \in 1..n |-> q[i].item]
    BY <1>2 DEF InOrder
  <1>6. o \in Seq(Items) /\ Len(o) = n
    BY <1>2, <1>4, <1>5
  <1>7. o # <<>> /\ Head(o) = q[1].item
    <2>1. o[1] = q[1].item
      BY <1>2, <1>5
    <2> HIDE DEF o
    <2> QED
      BY <1>2, <1>6, <2>1
  <1> HIDE DEF o
  <1>8. Tail(o) = [i \in 1..(n - 1) |-> o[i + 1]]
    <2> DEFINE u == Tail(o)
    <2>1. u \in Seq(Items) /\ Len(u) = n - 1 /\ \A i \in 1..(n - 1) : u[i] = o[i + 1]
      BY <1>2, <1>6, <1>7
    <2> HIDE DEF u
    <2>2. u = [i \in 1..(n - 1) |-> u[i]]
      BY <1>2, <2>1
    <2>3. u = [i \in 1..(n - 1) |-> o[i + 1]]
      BY <2>1, <2>2
    <2> QED
      BY <2>3 DEF u
  <1>9. InOrder(r) = [i \in 1..(n - 1) |-> r[i].item]
    BY <1>2 DEF InOrder
  <1> HIDE DEF r
  <1>10. \A i \in 1..(n - 1) : r[i].item = o[i + 1]
    BY <1>2, <1>5
  <1>11. InOrder(r) = Tail(o)
    BY <1>8, <1>9, <1>10
  <1> QED
    BY <1>2, <1>7, <1>11 DEF First, r, o
=============================================================================
