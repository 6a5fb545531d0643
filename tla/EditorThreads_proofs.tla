------------------------ MODULE EditorThreads_proofs ------------------------
(***************************************************************************)
(* Proofs about EditorThreads, for every number of buffers and of events.  *)
(***************************************************************************)
EXTENDS EditorThreads, FiniteSetTheorems, FunctionTheorems, SequenceTheorems, TLAPS

----------------------------------------------------------------------------
(* What a queue holds, and in which order.                                 *)

Has(q, x) == \E i \in DOMAIN q : q[i] = x
Once(q, x) == \A i, j \in DOMAIN q : q[i] = x /\ q[j] = x => i = j

\* Every x in the queue has a y somewhere behind it.
Followed(q, x, y) == \A i \in DOMAIN q : q[i] = x => \E j \in DOMAIN q : j > i /\ q[j] = y

Count(q, x) == Cardinality({i \in DOMAIN q : q[i] = x})

----------------------------------------------------------------------------
(* The inductive invariant.                                                *)

\* What is left of a request, which somebody waits for or nobody.
Rests == {<<>>, <<"answer">>, <<"enable">>, <<"enable", "answer">>}
Whole(r) == {<<"disable", r, "enable">>, <<"disable", r, "enable", "answer">>}
Middle(r) == {<<r, "enable">>, <<r, "enable", "answer">>}

Todo ==
    /\ todo \in Rests \/ \E r \in Bracketed : todo \in Whole(r) \cup Middle(r)
    /\ loop = "idle" <=> todo = <<>>

\* Every load that has not come back holds a lock and an old scene.
Loading == Len(olds) = Count(mainQ, "load") + Count(updQ, "postLoad")

\* The run loop waits behind one barrier.
Barriers ==
    /\ Once(updQ, "syncLoop")
    /\ Has(updQ, "syncLoop") => loop = "waiting"

\* The run loop itself queues the loads, and the barrier behind disable_op is
\* behind all of them: after it no load begins before the request is served.
NoLoads ==
    /\ Has(updQ, "preLoad") => loop = "idle" \/ Head(todo) = "disable"
    /\ loop = "waiting" => Followed(updQ, "preLoad", "syncLoop")

\* An operation on the scene's objects is queued when there is a scene.
Objects ==
    /\ Followed(updQ, "objects", "syncLoop")
    /\ Has(updQ, "objects") =>
            loop = "waiting" /\ Head(todo) = "objects" /\ (mpScene \/ forgotten)

Inv == TypeOK /\ Todo /\ Loading /\ Barriers /\ NoLoads /\ Objects

----------------------------------------------------------------------------
(* What an operation queued at the end and one taken from the front do.    *)

LEMMA Positions ==
    ASSUME NEW S, NEW q \in Seq(S)
    PROVE  DOMAIN q = 1..Len(q) /\ Len(q) \in Nat /\ \A i \in DOMAIN q : q[i] \in S
  BY ElementOfSeq

LEMMA Appended ==
    ASSUME NEW S, NEW q \in Seq(S), NEW z \in S
    PROVE  /\ Append(q, z) \in Seq(S)
           /\ \A x : Has(Append(q, z), x) <=> Has(q, x) \/ x = z
           /\ \A x : Once(q, x) /\ (x # z \/ ~Has(q, x)) => Once(Append(q, z), x)
           /\ \A x, y : x # z /\ Followed(q, x, y) => Followed(Append(q, z), x, y)
           /\ \A x : x # z => Followed(Append(q, z), x, z)
<1> DEFINE a == Append(q, z)
<1>1. /\ a \in Seq(S) /\ Len(a) = Len(q) + 1
      /\ \A i \in 1..Len(q) : a[i] = q[i]
      /\ a[Len(q) + 1] = z
  BY AppendProperties
<1> HIDE DEF a
<1>2. DOMAIN q = 1..Len(q) /\ Len(q) \in Nat /\ DOMAIN a = 1..(Len(q) + 1)
  BY <1>1
<1>3. \A x : Has(a, x) <=> Has(q, x) \/ x = z
  BY <1>1, <1>2 DEF Has
<1>4. \A x : Once(q, x) /\ (x # z \/ ~Has(q, x)) => Once(a, x)
  BY <1>1, <1>2 DEF Has, Once
<1>5. ASSUME NEW x, NEW y, x # z, Followed(q, x, y), NEW i \in DOMAIN a, a[i] = x
      PROVE  \E j \in DOMAIN a : j > i /\ a[j] = y
  <2>1. i \in DOMAIN q /\ q[i] = x
    BY <1>1, <1>2, <1>5
  <2>2. PICK j \in DOMAIN q : j > i /\ q[j] = y
    BY <1>5, <2>1 DEF Followed
  <2> QED
    BY <1>1, <1>2, <2>2
<1>6. ASSUME NEW x, x # z, NEW i \in DOMAIN a, a[i] = x
      PROVE  \E j \in DOMAIN a : j > i /\ a[j] = z
  <2>1. Len(q) + 1 \in DOMAIN a /\ Len(q) + 1 > i
    BY <1>1, <1>2, <1>6
  <2> QED
    BY <1>1, <2>1
<1> QED
  BY <1>1, <1>3, <1>4, <1>5, <1>6 DEF a, Followed

LEMMA Taken ==
    ASSUME NEW S, NEW q \in Seq(S), q # <<>>
    PROVE  /\ Tail(q) \in Seq(S)
           /\ Head(q) \in S /\ Has(q, Head(q))
           /\ \A x : Has(Tail(q), x) => Has(q, x)
           /\ \A x : Once(q, x) => Once(Tail(q), x)
           /\ \A x : Once(q, x) /\ Head(q) = x => ~Has(Tail(q), x)
           /\ \A x, y : Followed(q, x, y) => Followed(Tail(q), x, y)
           /\ \A x, y : Once(q, y) /\ Head(q) = y /\ Followed(q, x, y) => ~Has(q, x)
<1> DEFINE t == Tail(q)
<1>1. /\ t \in Seq(S) /\ Len(t) = Len(q) - 1 /\ Len(q) \in Nat \ {0}
      /\ \A i \in 1..Len(t) : t[i] = q[i + 1]
      /\ Head(q) \in S
  BY HeadTailProperties
<1>2. Head(q) = q[1]
  OBVIOUS
<1> HIDE DEF t
<1>3. DOMAIN q = 1..Len(q) /\ DOMAIN t = 1..(Len(q) - 1) /\ 1 \in DOMAIN q
  BY <1>1
<1>4. \A i \in DOMAIN t : i + 1 \in DOMAIN q /\ t[i] = q[i + 1]
  BY <1>1, <1>3
<1>5. \A i \in DOMAIN q \ {1} : i - 1 \in DOMAIN t /\ t[i - 1] = q[i]
  BY <1>1, <1>3
<1>6. \A x : Has(t, x) => Has(q, x)
  BY <1>4 DEF Has
<1>7. \A x : Once(q, x) => Once(t, x)
  <2> SUFFICES ASSUME NEW x, Once(q, x),
                      NEW i \in DOMAIN t, NEW j \in DOMAIN t, t[i] = x, t[j] = x
               PROVE  i = j
    BY DEF Once
  <2>1. i + 1 = j + 1
    BY <1>4 DEF Once
  <2> QED
    BY <1>1, <1>3, <2>1
<1>8. \A x : Once(q, x) /\ Head(q) = x => ~Has(t, x)
  <2> SUFFICES ASSUME NEW x, Once(q, x), q[1] = x, NEW i \in DOMAIN t, t[i] = x
               PROVE  FALSE
    BY <1>2 DEF Has
  <2>1. i + 1 = 1
    BY <1>3, <1>4 DEF Once
  <2> QED
    BY <1>1, <1>3, <2>1
<1>9. \A x, y : Followed(q, x, y) => Followed(t, x, y)
  <2> SUFFICES ASSUME NEW x, NEW y, Followed(q, x, y), NEW i \in DOMAIN t, t[i] = x
               PROVE  \E j \in DOMAIN t : j > i /\ t[j] = y
    BY DEF Followed
  <2>1. PICK j \in DOMAIN q : j > i + 1 /\ q[j] = y
    BY <1>4 DEF Followed
  <2>2. j - 1 \in DOMAIN t /\ t[j - 1] = y /\ j - 1 > i
    BY <1>1, <1>3, <1>5, <2>1
  <2> QED
    BY <2>2
<1>10. \A x, y : Once(q, y) /\ Head(q) = y /\ Followed(q, x, y) => ~Has(q, x)
  <2> SUFFICES ASSUME NEW x, NEW y, Once(q, y), q[1] = y, Followed(q, x, y),
                      NEW i \in DOMAIN q, q[i] = x
               PROVE  FALSE
    BY <1>2 DEF Has
  <2>1. PICK j \in DOMAIN q : j > i /\ q[j] = y
    BY DEF Followed
  <2>2. j = 1
    BY <1>3, <2>1 DEF Once
  <2> QED
    BY <1>1, <1>3, <2>1, <2>2
<1>11. Has(q, Head(q))
  BY <1>2, <1>3 DEF Has
<1> QED
  BY <1>1, <1>6, <1>7, <1>8, <1>9, <1>10, <1>11 DEF t

LEMMA CountType ==
    ASSUME NEW S, NEW q \in Seq(S), NEW x
    PROVE  /\ Count(q, x) \in Nat /\ (Count(q, x) = 0 <=> ~Has(q, x))
           /\ IsFiniteSet({i \in DOMAIN q : q[i] = x})
<1> DEFINE I == {i \in DOMAIN q : q[i] = x}
<1>1. DOMAIN q = 1..Len(q) /\ Len(q) \in Nat
  BY Positions
<1>2. IsFiniteSet(1..Len(q)) /\ I \subseteq 1..Len(q)
  BY <1>1, FS_Interval
<1>3. IsFiniteSet(I) /\ Cardinality(I) \in Nat
  BY <1>2, FS_Subset, FS_CardinalityType
<1>4. Cardinality(I) = 0 <=> I = {}
  BY <1>3, FS_EmptySet
<1> QED
  BY <1>3, <1>4 DEF Count, Has

LEMMA CountAppended ==
    ASSUME NEW S, NEW q \in Seq(S), NEW z \in S, NEW x
    PROVE  Count(Append(q, z), x) = Count(q, x) + (IF x = z THEN 1 ELSE 0)
<1> DEFINE a == Append(q, z)
           I(s) == {i \in DOMAIN s : s[i] = x}
<1>1. /\ Len(a) = Len(q) + 1 /\ DOMAIN a = 1..(Len(q) + 1) /\ DOMAIN q = 1..Len(q)
      /\ Len(q) \in Nat
      /\ \A i \in 1..Len(q) : a[i] = q[i]
      /\ a[Len(q) + 1] = z
  BY AppendProperties, Positions
<1>2. IsFiniteSet(I(q)) /\ Cardinality(I(q)) \in Nat
  BY CountType DEF Count
<1> HIDE DEF a
<1>3. CASE x = z
  <2>1. I(a) = I(q) \cup {Len(q) + 1} /\ Len(q) + 1 \notin I(q)
    BY <1>1, <1>3
  <2>2. Cardinality(I(a)) = Cardinality(I(q)) + 1
    BY <1>2, <2>1, FS_AddElement
  <2> QED
    BY <1>3, <2>2 DEF Count, a
<1>4. CASE x # z
  <2>1. I(a) = I(q)
    BY <1>1, <1>4
  <2> QED
    <3>1. Count(a, x) = Cardinality(I(a)) /\ Count(q, x) = Cardinality(I(q))
      BY DEF Count
    <3> HIDE DEF I
    <3> QED
      BY <1>2, <1>4, <2>1, <3>1 DEF a
<1> QED
  BY <1>3, <1>4

LEMMA CountTaken ==
    ASSUME NEW S, NEW q \in Seq(S), q # <<>>, NEW x
    PROVE  Count(Tail(q), x) = Count(q, x) - (IF x = Head(q) THEN 1 ELSE 0)
<1> DEFINE t == Tail(q)
           I(s) == {i \in DOMAIN s : s[i] = x}
           f == [i \in I(t) |-> i + 1]
<1>1. /\ t \in Seq(S) /\ Len(t) = Len(q) - 1 /\ Len(q) \in Nat \ {0}
      /\ \A i \in 1..Len(t) : t[i] = q[i + 1]
  BY HeadTailProperties
<1>2. Head(q) = q[1]
  OBVIOUS
<1>3. IsFiniteSet(I(q)) /\ IsFiniteSet(I(t)) /\ Cardinality(I(q)) \in Nat /\ Cardinality(I(t)) \in Nat
  BY <1>1, CountType DEF Count
<1> HIDE DEF t
<1>4. DOMAIN q = 1..Len(q) /\ DOMAIN t = 1..(Len(q) - 1)
  BY <1>1
<1>5. /\ \A i \in I(t) : i + 1 \in I(q) \ {1}
      /\ \A i \in I(q) \ {1} : i - 1 \in I(t) /\ (i - 1) + 1 = i
      /\ \A i, j \in I(t) : i + 1 = j + 1 => i = j
  BY <1>1, <1>4
<1>6. f \in [I(t) -> I(q) \ {1}]
  BY <1>5
<1>7. \A i, j \in I(t) : f[i] = f[j] => i = j
  BY <1>5
<1>8. \A k \in I(q) \ {1} : \E i \in I(t) : f[i] = k
  BY <1>5
<1>9. f \in Surjection(I(t), I(q) \ {1}) /\ f \in Injection(I(t), I(q) \ {1})
  BY <1>6, <1>7, <1>8, Fun_IsInj, Fun_IsSurj
<1> HIDE DEF I, f
<1>10. Cardinality(I(t)) = Cardinality(I(q) \ {1})
  BY <1>3, <1>9, FS_Surjection
<1>11. Cardinality(I(q) \ {1}) = IF 1 \in I(q) THEN Cardinality(I(q)) - 1 ELSE Cardinality(I(q))
  BY <1>3, FS_RemoveElement
<1>12. 1 \in I(q) <=> x = Head(q)
  BY <1>1, <1>2, <1>4 DEF I
<1>13. Count(q, x) = Cardinality(I(q)) /\ Count(t, x) = Cardinality(I(t))
  BY DEF Count, I
<1> QED
  BY <1>3, <1>10, <1>11, <1>12, <1>13 DEF t

\* What is left of a request before and after its first operation.
LEMMA Shapes ==
    /\ \A r : \A q \in Whole(r) :
          Head(q) = "disable" /\ Tail(q) \in Middle(r) /\ Tail(q) # <<>>
    /\ \A r : \A q \in Middle(r) :
          q # <<>> /\ Head(q) = r /\ Tail(q) \in Rests /\ Tail(q) # <<>>
    /\ \A q \in Rests \ {<<>>} : Tail(q) \in Rests /\ Head(q) \in {"enable", "answer"}
<1>1. ASSUME NEW r
      PROVE  /\ Head(<<"disable", r, "enable">>) = "disable"
             /\ Tail(<<"disable", r, "enable">>) = <<r, "enable">>
             /\ Head(<<"disable", r, "enable", "answer">>) = "disable"
             /\ Tail(<<"disable", r, "enable", "answer">>) = <<r, "enable", "answer">>
  OBVIOUS
<1>2. ASSUME NEW r
      PROVE  /\ Head(<<r, "enable">>) = r /\ Tail(<<r, "enable">>) = <<"enable">>
             /\ Head(<<r, "enable", "answer">>) = r
             /\ Tail(<<r, "enable", "answer">>) = <<"enable", "answer">>
             /\ <<r, "enable">> # <<>> /\ <<r, "enable", "answer">> # <<>>
  OBVIOUS
<1>3. /\ Head(<<"enable">>) = "enable" /\ Tail(<<"enable">>) = <<>>
      /\ Head(<<"answer">>) = "answer" /\ Tail(<<"answer">>) = <<>>
      /\ Head(<<"enable", "answer">>) = "enable" /\ Tail(<<"enable", "answer">>) = <<"answer">>
      /\ <<"enable">> # <<>> /\ <<"enable", "answer">> # <<>>
  OBVIOUS
<1>4. ASSUME NEW r, NEW q \in Whole(r)
      PROVE  Head(q) = "disable" /\ Tail(q) \in Middle(r) /\ Tail(q) # <<>>
  <2>1. CASE q = <<"disable", r, "enable">>
    BY <1>1, <1>2, <2>1, Zenon DEF Middle
  <2>2. CASE q = <<"disable", r, "enable", "answer">>
    BY <1>1, <1>2, <2>2, Zenon DEF Middle
  <2> QED
    BY <1>4, <2>1, <2>2, Zenon DEF Whole
<1>5. ASSUME NEW r, NEW q \in Middle(r)
      PROVE  q # <<>> /\ Head(q) = r /\ Tail(q) \in Rests /\ Tail(q) # <<>>
  <2>1. CASE q = <<r, "enable">>
    BY <1>2, <1>3, <2>1, Zenon DEF Rests
  <2>2. CASE q = <<r, "enable", "answer">>
    BY <1>2, <1>3, <2>2, Zenon DEF Rests
  <2> QED
    BY <1>5, <2>1, <2>2, Zenon DEF Middle
<1>6. ASSUME NEW q \in Rests \ {<<>>}
      PROVE  Tail(q) \in Rests /\ Head(q) \in {"enable", "answer"}
  <2>1. CASE q = <<"answer">>
    BY <1>3, <2>1, Zenon DEF Rests
  <2>2. CASE q = <<"enable">>
    BY <1>3, <2>2, Zenon DEF Rests
  <2>3. CASE q = <<"enable", "answer">>
    BY <1>3, <2>3, Zenon DEF Rests
  <2> QED
    BY <1>6, <2>1, <2>2, <2>3, Zenon DEF Rests
<1> QED
  BY <1>4, <1>5, <1>6, Zenon

\* r is q after operations of T, and no others, have come and gone.
Moved(q, r, T) ==
    \/ r = q
    \/ q # <<>> /\ Head(q) \in T /\ r = Tail(q)
    \/ \E z \in T : r = Append(q, z)
    \/ q # <<>> /\ Head(q) \in T /\ \E z \in T : r = Append(Tail(q), z)
    \/ \E y, z \in T : r = Append(Append(q, y), z)

LEMMA MovedFacts ==
    ASSUME NEW S, NEW T \in SUBSET S, NEW q \in Seq(S), NEW r, Moved(q, r, T)
    PROVE  /\ r \in Seq(S)
           /\ \A x : x \notin T =>
                /\ Count(r, x) = Count(q, x)
                /\ Has(r, x) => Has(q, x)
                /\ Once(q, x) => Once(r, x)
           /\ \A x, y : x \notin T /\ Followed(q, x, y) => Followed(r, x, y)
<1>0. \A x : Count(q, x) \in Nat
  BY CountType
<1>1. CASE r = q
  BY <1>1
<1>2. CASE q # <<>> /\ Head(q) \in T /\ r = Tail(q)
  <2>1. \A x : x \notin T => Count(r, x) = Count(q, x)
    BY <1>0, <1>2, CountTaken
  <2> QED
    BY <1>2, <2>1, Taken
<1>3. ASSUME NEW z \in T, r = Append(q, z)
      PROVE  /\ r \in Seq(S)
             /\ \A x : x \notin T =>
                  /\ Count(r, x) = Count(q, x)
                  /\ Has(r, x) => Has(q, x)
                  /\ Once(q, x) => Once(r, x)
             /\ \A x, y : x \notin T /\ Followed(q, x, y) => Followed(r, x, y)
  <2>1. z \in S
    OBVIOUS
  <2>2. \A x : x \notin T => Count(r, x) = Count(q, x)
    BY <1>0, <1>3, <2>1, CountAppended
  <2> QED
    BY <1>3, <2>1, <2>2, Appended
<1>4. ASSUME q # <<>>, Head(q) \in T, NEW z \in T, r = Append(Tail(q), z)
      PROVE  /\ r \in Seq(S)
             /\ \A x : x \notin T =>
                  /\ Count(r, x) = Count(q, x)
                  /\ Has(r, x) => Has(q, x)
                  /\ Once(q, x) => Once(r, x)
             /\ \A x, y : x \notin T /\ Followed(q, x, y) => Followed(r, x, y)
  <2> DEFINE t == Tail(q)
  <2>1. /\ z \in S /\ t \in Seq(S)
        /\ \A x : (Has(t, x) => Has(q, x)) /\ (Once(q, x) => Once(t, x))
        /\ \A x, y : Followed(q, x, y) => Followed(t, x, y)
    BY <1>4, Taken
  <2>2. \A x : x \notin T => Count(t, x) = Count(q, x)
    BY <1>0, <1>4, CountTaken
  <2>3. r = Append(t, z)
    BY <1>4
  <2> HIDE DEF t
  <2>4. /\ r \in Seq(S)
        /\ \A x : x \notin T => (Has(r, x) => Has(t, x)) /\ (Once(t, x) => Once(r, x))
        /\ \A x, y : x \notin T /\ Followed(t, x, y) => Followed(r, x, y)
    BY <2>1, <2>3, Appended
  <2>5. \A x : x \notin T => Count(r, x) = Count(t, x)
    <3>1. \A x : Count(t, x) \in Nat
      BY <2>1, CountType
    <3> QED
      BY <2>1, <2>3, <3>1, CountAppended
  <2> QED
    BY <2>1, <2>2, <2>4, <2>5
<1>5. ASSUME NEW y \in T, NEW z \in T, r = Append(Append(q, y), z)
      PROVE  /\ r \in Seq(S)
             /\ \A x : x \notin T =>
                  /\ Count(r, x) = Count(q, x)
                  /\ Has(r, x) => Has(q, x)
                  /\ Once(q, x) => Once(r, x)
             /\ \A x, w : x \notin T /\ Followed(q, x, w) => Followed(r, x, w)
  <2> DEFINE a == Append(q, y)
  <2>1. y \in S /\ z \in S
    OBVIOUS
  <2>2. /\ a \in Seq(S)
        /\ \A x : x \notin T => (Has(a, x) => Has(q, x)) /\ (Once(q, x) => Once(a, x))
        /\ \A x, w : x \notin T /\ Followed(q, x, w) => Followed(a, x, w)
    BY <2>1, Appended
  <2>3. \A x : x \notin T => Count(a, x) = Count(q, x)
    BY <1>0, <2>1, CountAppended
  <2> HIDE DEF a
  <2>4. r = Append(a, z)
    BY <1>5 DEF a
  <2>5. /\ r \in Seq(S)
        /\ \A x : x \notin T => (Has(r, x) => Has(a, x)) /\ (Once(a, x) => Once(r, x))
        /\ \A x, w : x \notin T /\ Followed(a, x, w) => Followed(r, x, w)
    BY <2>1, <2>2, <2>4, Appended
  <2>6. \A x : x \notin T => Count(r, x) = Count(a, x)
    <3>1. \A x : Count(a, x) \in Nat
      BY <2>2, CountType
    <3> QED
      BY <2>1, <2>2, <2>4, <3>1, CountAppended
  <2> QED
    BY <2>2, <2>3, <2>5, <2>6
<1> QED
  BY <1>1, <1>2, <1>3, <1>4, <1>5 DEF Moved

\* Two operations pushed one behind the other.
LEMMA PushedTwo ==
    ASSUME NEW S, NEW q \in Seq(S), NEW y \in S, NEW z \in S
    PROVE  q \o <<y, z>> = Append(Append(q, y), z)
  OBVIOUS

----------------------------------------------------------------------------
(* The steps that leave the request being served and the loads alone.      *)

Plain == UpdateOps \ {"syncLoop", "preLoad", "objects", "postLoad"}
MainPlain == MainOps \ {"load"}

Aside ==
    /\ Moved(updQ, updQ', Plain) /\ Moved(mainQ, mainQ', MainPlain)
    /\ UNCHANGED <<loop, todo, olds>>
    /\ (mpScene => mpScene') /\ (forgotten => forgotten')

LEMMA AsideKeeps ==
    ASSUME Inv, Aside
    PROVE  /\ updQ' \in Seq(UpdateOps) /\ mainQ' \in Seq(MainOps)
           /\ Todo' /\ Loading' /\ Barriers' /\ NoLoads' /\ Objects'
<1>1. updQ \in Seq(UpdateOps) /\ mainQ \in Seq(MainOps)
  BY DEF Inv, TypeOK
<1>2. /\ updQ' \in Seq(UpdateOps)
      /\ \A x \in {"syncLoop", "preLoad", "objects", "postLoad"} :
            /\ Count(updQ', x) = Count(updQ, x)
            /\ Has(updQ', x) => Has(updQ, x)
            /\ Once(updQ, x) => Once(updQ', x)
            /\ \A y : Followed(updQ, x, y) => Followed(updQ', x, y)
  <2>1. Moved(updQ, updQ', Plain) /\ Plain \in SUBSET UpdateOps
    BY DEF Aside, Plain
  <2>2. \A x \in {"syncLoop", "preLoad", "objects", "postLoad"} : x \notin Plain
    BY DEF Plain
  <2>3. /\ updQ' \in Seq(UpdateOps)
        /\ \A x : x \notin Plain =>
              /\ Count(updQ', x) = Count(updQ, x)
              /\ Has(updQ', x) => Has(updQ, x)
              /\ Once(updQ, x) => Once(updQ', x)
        /\ \A x, y : x \notin Plain /\ Followed(updQ, x, y) => Followed(updQ', x, y)
    BY <1>1, <2>1, MovedFacts, Zenon
  <2> QED
    BY <2>2, <2>3
<1>3. mainQ' \in Seq(MainOps) /\ Count(mainQ', "load") = Count(mainQ, "load")
  <2>1. Moved(mainQ, mainQ', MainPlain) /\ MainPlain \in SUBSET MainOps /\ "load" \notin MainPlain
    BY DEF Aside, MainPlain
  <2>2. /\ mainQ' \in Seq(MainOps)
        /\ \A x : x \notin MainPlain =>
              /\ Count(mainQ', x) = Count(mainQ, x)
              /\ Has(mainQ', x) => Has(mainQ, x)
              /\ Once(mainQ, x) => Once(mainQ', x)
    BY <1>1, <2>1, MovedFacts, Zenon
  <2> QED
    BY <2>1, <2>2
<1>4. Todo'
  BY DEF Inv, Aside, Todo
<1>5. Loading'
  BY <1>2, <1>3 DEF Inv, Aside, Loading
<1>6. Barriers'
  BY <1>2 DEF Inv, Aside, Barriers
<1>7. NoLoads'
  BY <1>2 DEF Inv, Aside, NoLoads
<1>8. Objects'
  BY <1>2 DEF Inv, Aside, Objects
<1> QED
  BY <1>2, <1>3, <1>4, <1>5, <1>6, <1>7, <1>8

\* What the threads do besides loads, the scene's objects and the requests.
LEMMA AsideSteps ==
    ASSUME TypeOK
    PROVE  /\ User \/ DoDraw \/ MainThread \/ PumpView \/ PumpPick \/ PumpSync => Aside
           /\ Disable \/ Enable \/ SetState \/ Topo \/ Edit \/ NewEntities => Aside
           /\ Pick \/ OuterOp => Aside
           /\ StartTurn \/ EndTurn \/ WriteBuffer => Aside
           /\ Serve("newScene") \/ Serve("runStop") \/ Serve("getScene") => Aside
           /\ Barrier /\ Head(updQ) # "syncLoop" => Aside
<1>0. /\ updQ \in Seq(UpdateOps) /\ mainQ \in Seq(MainOps)
      /\ {"newScene", "runStop", "getScene", "disable", "enable", "stop", "start", "topo",
          "edit", "newEntities", "pick", "onPick", "syncMain", "syncPick"} \subseteq Plain
      /\ {"viewOff", "viewOn", "pick", "syncUpdate"} \subseteq MainPlain
      /\ Plain \subseteq UpdateOps /\ MainPlain \subseteq MainOps
  BY DEF TypeOK, Plain, UpdateOps, Bracketed, MainPlain, MainOps
<1>1. CASE /\ UNCHANGED <<updQ, mainQ, loop, todo, olds, mpScene, forgotten>>
  BY <1>1 DEF Aside, Moved
<1>2. (User /\ ~PushSync /\ ~TopoChanged) \/ DoDraw \/ FileChecked \/ Resize \/ DrawDone \/ PickDraw
        => UNCHANGED <<updQ, mainQ, loop, todo, olds, mpScene, forgotten>>
  BY DEF User, DoDraw, Resize, DrawDone, PickDraw, Request, Ask, OpenSceneFile,
     SceneFileChosen, FileChecked, ReadOnlyAnswered, Restart, StartResize, OuterPickOp, queues,
     threads, frames, scene
<1>3. StartTurn \/ EndTurn \/ WriteBuffer
        => UNCHANGED <<updQ, mainQ, loop, todo, olds, mpScene, forgotten>>
  BY DEF StartTurn, EndTurn, WriteBuffer, queues, frames, scene
<1>4. PushSync => Aside
  <2> SUFFICES ASSUME PushSync  PROVE Aside
    OBVIOUS
  <2>1. PICK o \in {"edit", "newEntities"} : updQ' = updQ \o <<o, "syncMain">>
    BY DEF PushSync
  <2>2. updQ' = Append(Append(updQ, o), "syncMain")
    BY <1>0, <2>1, PushedTwo
  <2> QED
    BY <1>0, <2>2 DEF PushSync, Aside, Moved, scene
<1>13. TopoChanged => Aside
  BY <1>0 DEF TopoChanged, Aside, Moved, threads, scene
<1>5. PumpView \/ PumpPick \/ PumpSync => Aside
  BY <1>0 DEF PumpView, PumpPick, PumpSync, Pump, Aside, Moved, threads, scene
<1>6. Picked => Aside
  BY <1>0 DEF Picked, Aside, Moved, scene
<1>7. Disable \/ Enable => Aside
  BY <1>0 DEF Disable, Enable, Execute, Aside, Moved, threads, scene
<1>8. SetState \/ Topo \/ Edit \/ NewEntities => Aside
  BY <1>0 DEF SetState, Topo, Edit, NewEntities, Execute, Aside, Moved, threads, scene
<1>9. Pick => Aside
  <2> SUFFICES ASSUME Pick  PROVE Aside
    OBVIOUS
  <2>1. "pick" \in MainOps /\ "syncUpdate" \in MainOps
    BY DEF MainOps
  <2>2. CASE Execute("pick") /\ updQ' = Tail(updQ) /\ mainQ' = Append(mainQ, "syncUpdate")
    BY <1>0, <2>2 DEF Pick, Execute, Aside, Moved, scene
  <2>3. CASE updQ' = updQ /\ mainQ' = mainQ \o <<"pick", "syncUpdate">>
    <3>1. mainQ' = Append(Append(mainQ, "pick"), "syncUpdate")
      BY <1>0, <2>1, <2>3, PushedTwo
    <3> QED
      BY <1>0, <2>3, <3>1 DEF Pick, Aside, Moved, scene
  <2> QED
    BY <2>2, <2>3 DEF Pick
<1>10. OuterOp => Aside
  <2> SUFFICES ASSUME OuterOp  PROVE Aside
    OBVIOUS
  <2>1. UNCHANGED <<mainQ, loop, todo, olds, mpScene, forgotten>>
    BY DEF OuterOp, scene
  <2>2. CASE updQ' = updQ
    BY <2>1, <2>2 DEF Aside, Moved
  <2>3. CASE updQ' = Append(updQ, "syncPick")
    BY <1>0, <2>1, <2>3 DEF Aside, Moved
  <2>4. CASE updQ' = updQ \o <<"pick", "syncPick">>
    <3>1. updQ' = Append(Append(updQ, "pick"), "syncPick")
      BY <1>0, <2>4, PushedTwo
    <3> QED
      BY <1>0, <2>1, <3>1 DEF Aside, Moved
  <2> QED
    BY <2>2, <2>3, <2>4 DEF OuterOp
<1>11. Serve("newScene") \/ Serve("runStop") \/ Serve("getScene") => Aside
  <2> SUFFICES ASSUME NEW r \in {"newScene", "runStop", "getScene"}, Serve(r)  PROVE Aside
    OBVIOUS
  <2>1. /\ updQ # <<>> /\ Head(updQ) = r
        /\ updQ' = Tail(updQ) \/ updQ' = Append(Tail(updQ), "topo")
        /\ mainQ' = mainQ \/ mainQ' = mainQ \o <<"viewOff", "viewOn">>
        /\ UNCHANGED <<loop, todo, olds, forgotten>>
    BY DEF Serve, SignalTopo, Execute, threads
  <2>2. mpScene => mpScene'
    BY DEF Serve
  <2>3. r \in Plain /\ "topo" \in Plain
    BY <1>0
  <2>4. Moved(updQ, updQ', Plain)
    BY <2>1, <2>3 DEF Moved
  <2>5. Moved(mainQ, mainQ', MainPlain)
    <3>1. mainQ \o <<"viewOff", "viewOn">> = Append(Append(mainQ, "viewOff"), "viewOn")
      BY <1>0, PushedTwo
    <3> QED
      BY <1>0, <2>1, <3>1 DEF Moved
  <2> QED
    BY <2>1, <2>2, <2>4, <2>5 DEF Aside
<1>12. Barrier /\ Head(updQ) # "syncLoop" => Aside
  BY <1>0 DEF Barrier, Execute, Aside, Moved, scene
<1> QED
  BY <1>1, <1>2, <1>3, <1>4, <1>5, <1>6, <1>7, <1>8, <1>9, <1>10, <1>11, <1>12,
     <1>13 DEF User, MainThread

----------------------------------------------------------------------------
(* Loads, the scene's objects and the requests.                            *)

Served ==
    /\ updQ \in Seq(UpdateOps) /\ mainQ \in Seq(MainOps)
    /\ Todo /\ Loading /\ Barriers /\ NoLoads /\ Objects

\* While the request being served stays where it is, what matters is that no
\* barrier, load or operation on objects is added, and that a scene is kept for
\* the operation on objects that is queued.
LEMMA RequestStays ==
    ASSUME Inv, UNCHANGED <<loop, todo>>,
           \A x \in {"syncLoop", "preLoad", "objects"} :
              /\ Has(updQ', x) => Has(updQ, x)
              /\ Once(updQ, x) => Once(updQ', x)
              /\ Followed(updQ, x, "syncLoop") => Followed(updQ', x, "syncLoop"),
           Has(updQ, "objects") /\ (mpScene \/ forgotten) => mpScene' \/ forgotten'
    PROVE  Todo' /\ Barriers' /\ NoLoads' /\ Objects'
<1>1. Todo'
  BY DEF Inv, Todo
<1>2. Barriers'
  BY DEF Inv, Barriers
<1>3. NoLoads'
  BY DEF Inv, NoLoads
<1>4. Objects'
  BY DEF Inv, Objects
<1> QED
  BY <1>1, <1>2, <1>3, <1>4

LEMMA PumpLoadServes ==
    ASSUME Inv, PumpLoad  PROVE Served'
<1>1. /\ mainQ # <<>> /\ Head(mainQ) = "load" /\ mainQ' = Tail(mainQ)
      /\ updQ' = Append(updQ, "postLoad")
      /\ UNCHANGED <<loop, todo, olds, mpScene, forgotten>>
  BY DEF PumpLoad, Pump, threads, scene
<1>2. updQ \in Seq(UpdateOps) /\ mainQ \in Seq(MainOps) /\ "postLoad" \in UpdateOps
  BY DEF Inv, TypeOK, UpdateOps
<1>3. mainQ' \in Seq(MainOps) /\ Count(mainQ', "load") = Count(mainQ, "load") - 1
  BY <1>1, <1>2, Taken, CountTaken
<1>4. Count(updQ', "postLoad") = Count(updQ, "postLoad") + 1
  BY <1>1, <1>2, CountAppended
<1>5. /\ updQ' \in Seq(UpdateOps)
      /\ \A x \in {"syncLoop", "preLoad", "objects"} :
            /\ Has(updQ', x) => Has(updQ, x)
            /\ Once(updQ, x) => Once(updQ', x)
            /\ Followed(updQ, x, "syncLoop") => Followed(updQ', x, "syncLoop")
  BY <1>1, <1>2, Appended
<1>6. Count(mainQ, "load") \in Nat /\ Count(updQ, "postLoad") \in Nat
  BY <1>2, CountType
<1>7. Loading'
  BY <1>1, <1>3, <1>4, <1>6 DEF Inv, Loading
<1>8. Todo' /\ Barriers' /\ NoLoads' /\ Objects'
  BY <1>1, <1>5, RequestStays
<1> QED
  BY <1>3, <1>5, <1>7, <1>8 DEF Served

LEMMA PreLoadServes ==
    ASSUME Inv, PreLoad  PROVE Served' /\ olds' \in Seq(BOOLEAN) /\ mpScene' \in BOOLEAN
<1>1. /\ updQ # <<>> /\ Head(updQ) = "preLoad" /\ updQ' = Tail(updQ)
      /\ mainQ' = mainQ \o <<"viewOff", "load">>
      /\ olds' = Append(olds, mpScene) /\ mpScene' = FALSE
      /\ UNCHANGED <<loop, todo, forgotten>>
  BY DEF PreLoad, Execute, threads
<1>2. /\ updQ \in Seq(UpdateOps) /\ mainQ \in Seq(MainOps) /\ olds \in Seq(BOOLEAN)
      /\ mpScene \in BOOLEAN /\ "viewOff" \in MainOps /\ "load" \in MainOps
  BY DEF Inv, TypeOK, MainOps
<1>3. /\ updQ' \in Seq(UpdateOps) /\ Has(updQ, "preLoad")
      /\ \A x \in {"syncLoop", "preLoad", "objects"} :
            /\ Has(updQ', x) => Has(updQ, x)
            /\ Once(updQ, x) => Once(updQ', x)
            /\ Followed(updQ, x, "syncLoop") => Followed(updQ', x, "syncLoop")
  BY <1>1, <1>2, Taken
<1> DEFINE m == Append(mainQ, "viewOff")
<1>4. m \in Seq(MainOps) /\ Count(m, "load") = Count(mainQ, "load")
  <2>1. Count(mainQ, "load") \in Nat
    BY <1>2, CountType
  <2> QED
    BY <1>2, <2>1, Appended, CountAppended
<1>5. mainQ' = Append(m, "load")
  BY <1>1, <1>2, PushedTwo
<1> HIDE DEF m
<1>6. mainQ' \in Seq(MainOps) /\ Count(mainQ', "load") = Count(mainQ, "load") + 1
  BY <1>2, <1>4, <1>5, Appended, CountAppended
<1>7. Count(updQ', "postLoad") = Count(updQ, "postLoad")
  <2> DEFINE t == Tail(updQ)
  <2>1. Count(updQ, "postLoad") \in Nat
    BY <1>2, CountType
  <2>2. Count(t, "postLoad") = Count(updQ, "postLoad")
    <3>1. updQ # <<>> /\ Head(updQ) # "postLoad"
      BY <1>1
    <3> QED
      BY <1>2, <2>1, <3>1, CountTaken
  <2>3. updQ' = t
    BY <1>1
  <2> QED
    BY <2>2, <2>3
<1>8. olds' \in Seq(BOOLEAN) /\ Len(olds') = Len(olds) + 1
  BY <1>1, <1>2, AppendProperties
<1>9. Loading'
  <2>1. Count(mainQ, "load") \in Nat /\ Count(updQ, "postLoad") \in Nat
    BY <1>2, CountType
  <2> QED
    BY <1>6, <1>7, <1>8, <2>1 DEF Inv, Loading
\* The run loop is not serving an operation on objects.
<1>10. ~Has(updQ, "objects")
  BY <1>3 DEF Inv, NoLoads, Objects
<1>11. Todo' /\ Barriers' /\ NoLoads' /\ Objects'
  BY <1>1, <1>3, <1>10, RequestStays
<1> QED
  BY <1>1, <1>3, <1>6, <1>8, <1>9, <1>11 DEF Served

LEMMA PostLoadServes ==
    ASSUME Inv, PostLoad
    PROVE  Served' /\ olds' \in Seq(BOOLEAN) /\ mpScene' \in BOOLEAN /\ forgotten' \in BOOLEAN
<1>1. /\ updQ # <<>> /\ Head(updQ) = "postLoad"
      /\ updQ' = Tail(updQ) \/ updQ' = Append(Tail(updQ), "topo")
      /\ mainQ' = Append(mainQ, "viewOn")
      /\ olds' = Tail(olds)
      /\ \/ mpScene' \in {mpScene, TRUE} /\ forgotten' = forgotten
         \/ mpScene' = Head(olds) /\ forgotten' = (forgotten \/ (mpScene /\ ~Head(olds)))
      /\ UNCHANGED <<loop, todo>>
  BY DEF PostLoad, Loaded, LoadedOther, LoadFailed, SignalTopo, Execute, threads
<1>2. /\ updQ \in Seq(UpdateOps) /\ mainQ \in Seq(MainOps) /\ olds \in Seq(BOOLEAN)
      /\ mpScene \in BOOLEAN /\ forgotten \in BOOLEAN
      /\ "viewOn" \in MainOps /\ "topo" \in UpdateOps
  BY DEF Inv, TypeOK, MainOps, UpdateOps
<1>3. /\ Count(mainQ, "load") \in Nat /\ Count(updQ, "postLoad") \in Nat
      /\ Count(updQ, "postLoad") # 0
  <2>1. Has(updQ, "postLoad")
    BY <1>1, <1>2, Taken
  <2> QED
    BY <1>2, <2>1, CountType
<1>4. olds # <<>>
  BY <1>2, <1>3 DEF Inv, Loading
<1>5. /\ olds' \in Seq(BOOLEAN) /\ Len(olds') = Len(olds) - 1 /\ Head(olds) \in BOOLEAN
      /\ Len(olds) \in Nat
  <2>1. /\ Tail(olds) \in Seq(BOOLEAN) /\ Len(Tail(olds)) = Len(olds) - 1
        /\ Head(olds) \in BOOLEAN
    BY <1>2, <1>4, HeadTailProperties, Zenon
  <2>2. Len(olds) \in Nat
    BY <1>2, LenProperties, Zenon
  <2>3. olds' = Tail(olds)
    BY <1>1, Zenon
  <2> QED
    BY <2>1, <2>2, <2>3, Zenon
<1> DEFINE t == Tail(updQ)
<1>6. /\ t \in Seq(UpdateOps) /\ Count(t, "postLoad") = Count(updQ, "postLoad") - 1
      /\ \A x \in {"syncLoop", "preLoad", "objects"} :
            /\ Has(t, x) => Has(updQ, x)
            /\ Once(updQ, x) => Once(t, x)
            /\ Followed(updQ, x, "syncLoop") => Followed(t, x, "syncLoop")
  BY <1>1, <1>2, Taken, CountTaken
<1>7. updQ' = t \/ updQ' = Append(t, "topo")
  BY <1>1
<1> HIDE DEF t
<1>8. /\ updQ' \in Seq(UpdateOps)
      /\ \A x \in {"syncLoop", "preLoad", "objects"} :
            /\ Has(updQ', x) => Has(t, x)
            /\ Once(t, x) => Once(updQ', x)
            /\ Followed(t, x, "syncLoop") => Followed(updQ', x, "syncLoop")
  <2>1. CASE updQ' = t
    BY <1>6, <2>1
  <2>2. CASE updQ' = Append(t, "topo")
    BY <1>2, <1>6, <2>2, Appended
  <2> QED
    BY <1>7, <2>1, <2>2
<1>9. Count(updQ', "postLoad") = Count(updQ, "postLoad") - 1
  <2>1. CASE updQ' = t
    BY <1>6, <2>1
  <2>2. CASE updQ' = Append(t, "topo")
    BY <1>2, <1>3, <1>6, <2>2, CountAppended
  <2> QED
    BY <1>7, <2>1, <2>2
<1>10. mainQ' \in Seq(MainOps) /\ Count(mainQ', "load") = Count(mainQ, "load")
  <2> DEFINE m == Append(mainQ, "viewOn")
  <2>1. m \in Seq(MainOps)
    BY <1>2, Appended
  <2>2. Count(m, "load") = Count(mainQ, "load")
    BY <1>2, <1>3, CountAppended
  <2>3. mainQ' = m
    BY <1>1
  <2> HIDE DEF m
  <2> QED
    BY <2>1, <2>2, <2>3
<1>11. Loading'
  BY <1>3, <1>5, <1>9, <1>10 DEF Inv, Loading
<1>12. mpScene \/ forgotten => mpScene' \/ forgotten'
  BY <1>1
<1>13. Todo' /\ Barriers' /\ NoLoads' /\ Objects'
  BY <1>1, <1>6, <1>8, <1>12, RequestStays
<1>14. mpScene' \in BOOLEAN /\ forgotten' \in BOOLEAN
  BY <1>1, <1>2, <1>5
<1> QED
  BY <1>5, <1>8, <1>10, <1>11, <1>13, <1>14 DEF Served

LEMMA ServeObjectsServes ==
    ASSUME Inv, Serve("objects")  PROVE Served'
<1>1. /\ updQ # <<>> /\ Head(updQ) = "objects"
      /\ updQ' = Tail(updQ) \/ updQ' = Append(Tail(updQ), "topo")
      /\ UNCHANGED <<mainQ, loop, todo, olds, forgotten>>
      /\ (mpScene => mpScene')
  BY DEF Serve, SignalTopo, Execute, threads
<1>2. updQ \in Seq(UpdateOps) /\ mainQ \in Seq(MainOps) /\ "topo" \in UpdateOps
  BY DEF Inv, TypeOK, UpdateOps
<1> DEFINE t == Tail(updQ)
<1>3. /\ t \in Seq(UpdateOps)
      /\ \A x \in {"syncLoop", "preLoad", "objects"} :
            /\ Has(t, x) => Has(updQ, x)
            /\ Once(updQ, x) => Once(t, x)
            /\ Followed(updQ, x, "syncLoop") => Followed(t, x, "syncLoop")
  BY <1>1, <1>2, Taken
<1>4. Count(t, "postLoad") = Count(updQ, "postLoad") /\ Count(updQ, "postLoad") \in Nat
  <2>1. Count(updQ, "postLoad") \in Nat
    BY <1>2, CountType
  <2> QED
    BY <1>1, <1>2, <2>1, CountTaken
<1>5. updQ' = t \/ updQ' = Append(t, "topo")
  BY <1>1
<1> HIDE DEF t
<1>6. /\ updQ' \in Seq(UpdateOps)
      /\ \A x \in {"syncLoop", "preLoad", "objects"} :
            /\ Has(updQ', x) => Has(t, x)
            /\ Once(t, x) => Once(updQ', x)
            /\ Followed(t, x, "syncLoop") => Followed(updQ', x, "syncLoop")
  <2>1. CASE updQ' = t
    BY <1>3, <2>1
  <2>2. CASE updQ' = Append(t, "topo")
    BY <1>2, <1>3, <2>2, Appended
  <2> QED
    BY <1>5, <2>1, <2>2
<1>7. Count(updQ', "postLoad") = Count(updQ, "postLoad")
  <2>1. CASE updQ' = t
    BY <1>4, <2>1
  <2>2. CASE updQ' = Append(t, "topo")
    BY <1>2, <1>3, <1>4, <2>2, CountAppended
  <2> QED
    BY <1>5, <2>1, <2>2
<1>8. Loading'
  BY <1>1, <1>7 DEF Inv, Loading
<1>9. Todo' /\ Barriers' /\ NoLoads' /\ Objects'
  BY <1>1, <1>3, <1>6, RequestStays
<1> QED
  BY <1>1, <1>2, <1>6, <1>8, <1>9 DEF Served

\* The barrier behind the operation of a request: no load is left in the queue,
\* and no operation on objects.
LEMMA BarrierServes ==
    ASSUME Inv, Barrier, Head(updQ) = "syncLoop"  PROVE Served'
<1>1. /\ updQ # <<>> /\ updQ' = Tail(updQ) /\ todo' = Tail(todo)
      /\ loop' = (IF todo' = <<>> THEN "idle" ELSE "pushing")
      /\ UNCHANGED <<mainQ, olds, mpScene, forgotten>>
  BY DEF Barrier, Execute, scene
<1>2. updQ \in Seq(UpdateOps) /\ mainQ \in Seq(MainOps)
  BY DEF Inv, TypeOK
<1>3. /\ updQ' \in Seq(UpdateOps) /\ Has(updQ, "syncLoop")
      /\ \A x : Has(updQ', x) => Has(updQ, x)
      /\ Once(updQ, "syncLoop") => Once(updQ', "syncLoop") /\ ~Has(updQ', "syncLoop")
      /\ \A x : Once(updQ, "syncLoop") /\ Followed(updQ, x, "syncLoop") => ~Has(updQ, x)
  BY <1>1, <1>2, Taken
<1>4. /\ loop = "waiting" /\ ~Has(updQ, "objects") /\ ~Has(updQ, "preLoad")
      /\ Once(updQ', "syncLoop") /\ ~Has(updQ', "syncLoop")
  BY <1>3 DEF Inv, Barriers, NoLoads, Objects
<1>5. Todo'
  <2>1. todo # <<>>
    BY <1>4 DEF Inv, Todo
  <2>2. CASE \E r \in Bracketed : todo \in Whole(r)
    <3>1. PICK r \in Bracketed : todo \in Whole(r)
      BY <2>2
    <3>2. todo' \in Middle(r) /\ todo' # <<>>
      BY <1>1, <3>1, Shapes
    <3> QED
      BY <1>1, <3>2 DEF Todo
  <2>3. CASE \E r \in Bracketed : todo \in Middle(r)
    <3>1. todo' \in Rests /\ todo' # <<>>
      BY <1>1, <2>3, Shapes
    <3> QED
      BY <1>1, <3>1 DEF Todo
  <2>4. CASE todo \in Rests
    <3>1. todo' \in Rests
      BY <1>1, <2>1, <2>4, Shapes
    <3> QED
      BY <1>1, <3>1 DEF Todo
  <2> QED
    BY <2>1, <2>2, <2>3, <2>4 DEF Inv, Todo
<1>6. Count(updQ', "postLoad") = Count(updQ, "postLoad")
  <2>1. Count(updQ, "postLoad") \in Nat
    BY <1>2, CountType
  <2> QED
    BY <1>1, <1>2, <2>1, CountTaken
<1>7. Loading'
  BY <1>1, <1>6 DEF Inv, Loading
<1>8. Barriers' /\ NoLoads' /\ Objects'
  <2>1. ~Has(updQ', "preLoad") /\ ~Has(updQ', "objects")
    BY <1>3, <1>4
  <2>2. Followed(updQ', "objects", "syncLoop") /\ Followed(updQ', "preLoad", "syncLoop")
    BY <2>1 DEF Has, Followed
  <2> QED
    BY <1>4, <2>1, <2>2 DEF Barriers, NoLoads, Objects
<1> QED
  BY <1>1, <1>2, <1>3, <1>5, <1>7, <1>8 DEF Served

LEMMA TakeRequestServes ==
    ASSUME Inv, TakeRequest  PROVE Served' /\ mSerialQ' \in Seq(Requests)
<1>1. /\ mSerialQ \in Seq(Requests) /\ updQ \in Seq(UpdateOps) /\ mainQ \in Seq(MainOps)
      /\ mSerialQ # <<>> /\ mSerialQ' = Tail(mSerialQ) /\ loop = "idle"
      /\ UNCHANGED <<mainQ, olds, mpScene, forgotten>>
  BY DEF Inv, TypeOK, TakeRequest, scene
<1>2. Head(mSerialQ) \in Requests /\ mSerialQ' \in Seq(Requests)
  BY <1>1, HeadTailProperties
<1>3. ~Has(updQ, "syncLoop") /\ ~Has(updQ, "objects") /\ todo = <<>>
  BY <1>1 DEF Inv, Barriers, Objects, Todo
<1>4. CASE Head(mSerialQ).op = "load"
  <2>1. updQ' = Append(updQ, "preLoad") /\ UNCHANGED <<loop, todo>>
    BY <1>4 DEF TakeRequest
  <2>2. "preLoad" \in UpdateOps
    BY DEF UpdateOps
  <2>3. /\ updQ' \in Seq(UpdateOps)
        /\ ~Has(updQ', "syncLoop") /\ ~Has(updQ', "objects")
        /\ Once(updQ', "syncLoop") /\ Followed(updQ', "objects", "syncLoop")
    <3>1. /\ updQ' \in Seq(UpdateOps)
          /\ \A x : Has(updQ', x) <=> Has(updQ, x) \/ x = "preLoad"
      BY <1>1, <2>1, <2>2, Appended
    <3>2. ~Has(updQ', "syncLoop") /\ ~Has(updQ', "objects")
      BY <1>3, <3>1
    <3> QED
      BY <3>1, <3>2 DEF Has, Once, Followed
  <2>4. Count(updQ', "postLoad") = Count(updQ, "postLoad")
    <3>1. Count(updQ, "postLoad") \in Nat
      BY <1>1, CountType
    <3> QED
      BY <1>1, <2>1, <2>2, <3>1, CountAppended
  <2>5. Loading'
    BY <1>1, <2>4 DEF Inv, Loading
  <2>6. Todo' /\ Barriers' /\ NoLoads' /\ Objects'
    BY <1>1, <2>1, <2>3 DEF Inv, Todo, Barriers, NoLoads, Objects
  <2> QED
    BY <1>1, <1>2, <2>3, <2>5, <2>6 DEF Served
<1>5. CASE Head(mSerialQ).op # "load"
  <2>1. todo' \in Whole(Head(mSerialQ).op) /\ loop' = "pushing" /\ updQ' = updQ
    BY <1>5 DEF TakeRequest, Whole
  <2>2. Head(mSerialQ).op \in Bracketed
    BY <1>2, <1>5 DEF Requests
  <2>3. Head(todo') = "disable" /\ todo' # <<>>
    <3>1. todo' # <<>>
      BY <2>1 DEF Whole
    <3> QED
      BY <2>1, <3>1, Shapes
  <2>4. Todo'
    BY <2>1, <2>2, <2>3 DEF Todo
  <2>5. Loading'
    BY <1>1, <2>1 DEF Inv, Loading
  <2>6. Barriers' /\ NoLoads' /\ Objects'
    BY <1>3, <2>1, <2>3 DEF Inv, Barriers, NoLoads, Objects
  <2> QED
    BY <1>1, <1>2, <2>1, <2>4, <2>5, <2>6 DEF Served
<1> QED
  BY <1>4, <1>5

LEMMA PushOpServes ==
    ASSUME Inv, PushOp  PROVE Served'
<1>1. /\ updQ \in Seq(UpdateOps) /\ mainQ \in Seq(MainOps) /\ loop = "pushing"
      /\ Head(todo) # "answer"
      /\ UNCHANGED <<mainQ, olds, mpScene, forgotten>>
  BY DEF Inv, TypeOK, PushOp, scene
<1>2. ~Has(updQ, "syncLoop") /\ ~Has(updQ, "objects") /\ todo # <<>>
  BY <1>1 DEF Inv, Barriers, Objects, Todo
<1>3. Head(todo) \in Bracketed \cup {"disable", "enable"}
  <2>1. todo \in Rests \/ \E r \in Bracketed : todo \in Whole(r) \cup Middle(r)
    BY DEF Inv, Todo
  <2> QED
    BY <1>1, <1>2, <2>1, Shapes
<1>4. CASE Head(todo) = "objects" /\ ~mpScene
  <2>1. todo' = Tail(todo) /\ UNCHANGED <<updQ, loop>>
    BY <1>4 DEF PushOp
  <2>2. PICK r \in Bracketed : todo \in Middle(r)
    <3>1. todo \notin Rests /\ \A r : todo \notin Whole(r)
      BY <1>2, <1>4, Shapes
    <3> QED
      BY <3>1 DEF Inv, Todo
  <2>3. todo' \in Rests /\ todo' # <<>>
    BY <2>1, <2>2, Shapes
  <2>4. Todo'
    BY <1>1, <2>1, <2>3 DEF Todo
  <2>5. ~Has(updQ, "preLoad")
    BY <1>1, <1>4 DEF Inv, NoLoads
  <2>6. Loading' /\ Barriers' /\ NoLoads' /\ Objects'
    BY <1>1, <1>2, <2>1, <2>5 DEF Inv, Loading, Barriers, NoLoads, Objects
  <2> QED
    BY <1>1, <2>1, <2>4, <2>6 DEF Served
<1>5. CASE ~(Head(todo) = "objects" /\ ~mpScene)
  <2> DEFINE h == Head(todo)
             a == Append(updQ, h)
  <2>1. updQ' = updQ \o <<h, "syncLoop">> /\ loop' = "waiting" /\ todo' = todo
    BY <1>5 DEF PushOp
  <2>2. /\ h \in UpdateOps /\ h \notin {"syncLoop", "preLoad", "postLoad"}
        /\ "syncLoop" \in UpdateOps
    BY <1>3 DEF UpdateOps, Bracketed
  <2>3. updQ' = Append(a, "syncLoop")
    BY <1>1, <2>1, <2>2, PushedTwo
  <2>4. h = "objects" => mpScene
    BY <1>5
  <2> HIDE DEF h
  <2>5. a \in Seq(UpdateOps) /\ \A x : Has(a, x) <=> Has(updQ, x) \/ x = h
    BY <1>1, <2>2, Appended
  <2>6. Count(a, "postLoad") = Count(updQ, "postLoad")
    <3>1. Count(updQ, "postLoad") \in Nat
      BY <1>1, CountType
    <3> QED
      BY <1>1, <2>2, <3>1, CountAppended
  <2> HIDE DEF a
  <2>7. ~Has(a, "syncLoop")
    BY <1>2, <2>2, <2>5
  <2>8. Once(a, "syncLoop")
    BY <2>7 DEF Has, Once
  <2>9. /\ updQ' \in Seq(UpdateOps)
        /\ \A x : Has(updQ', x) <=> Has(a, x) \/ x = "syncLoop"
        /\ \A x : x # "syncLoop" => Followed(updQ', x, "syncLoop")
    BY <2>2, <2>3, <2>5, Appended
  <2>10. Once(updQ', "syncLoop")
    BY <2>2, <2>3, <2>5, <2>7, <2>8, Appended
  <2>11. Count(updQ', "postLoad") = Count(updQ, "postLoad")
    <3>1. Count(updQ, "postLoad") \in Nat
      BY <1>1, CountType
    <3> QED
      BY <2>2, <2>3, <2>5, <2>6, <3>1, CountAppended
  <2>12. Loading'
    BY <1>1, <2>11 DEF Inv, Loading
  <2>13. Todo'
    BY <1>2, <2>1 DEF Inv, Todo
  <2>14. Barriers'
    BY <2>1, <2>10 DEF Barriers
  <2>15. NoLoads'
    <3>1. Has(updQ', "preLoad") => Has(updQ, "preLoad")
      BY <2>2, <2>5, <2>9
    <3>2. Has(updQ', "preLoad") => Head(todo') = "disable"
      BY <1>1, <2>1, <3>1 DEF Inv, NoLoads
    <3> QED
      BY <2>9, <3>2 DEF NoLoads
  <2>16. Objects'
    <3>1. Has(updQ', "objects") => h = "objects"
      BY <1>2, <2>5, <2>9
    <3> QED
      BY <1>1, <2>1, <2>4, <2>9, <3>1 DEF Objects, h
  <2> QED
    BY <1>1, <2>9, <2>12, <2>13, <2>14, <2>15, <2>16 DEF Served
<1> QED
  BY <1>4, <1>5

LEMMA AnswerServes ==
    ASSUME Inv, Answer  PROVE Served'
<1>1. /\ loop = "pushing" /\ loop' = "idle" /\ todo' = <<>>
      /\ UNCHANGED <<updQ, mainQ, olds, mpScene, forgotten>>
  BY DEF Answer, queues, scene
<1>2. ~Has(updQ, "syncLoop") /\ ~Has(updQ, "objects")
  BY <1>1 DEF Inv, Barriers, Objects
<1>3. Todo'
  BY <1>1 DEF Todo, Rests
<1> QED
  BY <1>1, <1>2, <1>3 DEF Served, Inv, TypeOK, Loading, Barriers, NoLoads, Objects

----------------------------------------------------------------------------
(* Every step keeps the invariant.                                         *)

\* The rest of the state keeps its type.
LEMMA RestTyped ==
    ASSUME Inv, Next, Todo'
    PROVE  /\ upd' \in {"loop", "starting", "stopping", "writing", "syncing", "synced", "waiting",
                       "asking"}
           /\ main' \in {"idle", "drawing", "waiting", "asking", "checking", "resizing",
                        "picking", "picked"}
           /\ loop' \in {"idle", "pushing", "waiting"}
           /\ pick' \in {"idle", "queued", "stopped", "syncing", "synced", "waiting"}
           /\ todo' \in Seq(Bracketed \cup {"disable", "enable", "answer"})
           /\ meStatus' \in {"START", "RUNNING", "STOP", "STOPPED"}
           /\ written' \in 0 .. Buffers /\ Writable' >= 0
           /\ display' \in BOOLEAN /\ dialog' \in {"none", "file", "readOnly"}
           /\ lostStart' \in BOOLEAN
           /\ mpEditSceneInst' \in BOOLEAN /\ events' \in 0 .. MaxEvents
<1> USE DEF User, MainPump, MainThread, UpdateThread, RunLoop, threads, frames, scene, user
<1>1. upd' \in {"loop", "starting", "stopping", "writing", "syncing", "synced", "waiting",
                "asking"}
  BY DEF Inv, TypeOK, Next, Request, Ask, OpenSceneFile, SceneFileChosen, FileChecked,
     ReadOnlyAnswered, Restart, PushSync, TopoChanged, StartResize, Resize, OuterPickOp,
     DoDraw, DrawDone, PumpView, PumpLoad, PumpPick, PickDraw, Picked, PumpSync, Disable,
     Enable, SetState, Serve, Topo, Edit, NewEntities, PreLoad, PostLoad, Loaded, LoadedOther,
     LoadFailed, Pick, Barrier, StartTurn, EndTurn, WriteBuffer, TakeRequest, PushOp, Answer,
     OuterOp
<1>2. main' \in {"idle", "drawing", "waiting", "asking", "checking", "resizing", "picking",
                 "picked"}
  BY DEF Inv, TypeOK, Next, Request, Ask, OpenSceneFile, SceneFileChosen, FileChecked,
     ReadOnlyAnswered, Restart, PushSync, TopoChanged, StartResize, Resize, OuterPickOp,
     DoDraw, DrawDone, PumpView, PumpLoad, PumpPick, PickDraw, Picked, PumpSync, Disable,
     Enable, SetState, Serve, Topo, Edit, NewEntities, PreLoad, PostLoad, Loaded, LoadedOther,
     LoadFailed, Pick, Barrier, StartTurn, EndTurn, WriteBuffer, TakeRequest, PushOp, Answer,
     OuterOp
<1>3. loop' \in {"idle", "pushing", "waiting"}
  BY DEF Inv, TypeOK, Next, Request, Ask, OpenSceneFile, SceneFileChosen, FileChecked,
     ReadOnlyAnswered, Restart, PushSync, TopoChanged, StartResize, Resize, OuterPickOp,
     DoDraw, DrawDone, PumpView, PumpLoad, PumpPick, PickDraw, Picked, PumpSync, Disable,
     Enable, SetState, Serve, Topo, Edit, NewEntities, PreLoad, PostLoad, Loaded, LoadedOther,
     LoadFailed, Pick, Barrier, StartTurn, EndTurn, WriteBuffer, TakeRequest, PushOp, Answer,
     OuterOp
<1>4. pick' \in {"idle", "queued", "stopped", "syncing", "synced", "waiting"}
  BY DEF Inv, TypeOK, Next, Request, Ask, OpenSceneFile, SceneFileChosen, FileChecked,
     ReadOnlyAnswered, Restart, PushSync, TopoChanged, StartResize, Resize, OuterPickOp,
     DoDraw, DrawDone, PumpView, PumpLoad, PumpPick, PickDraw, Picked, PumpSync, Disable,
     Enable, SetState, Serve, Topo, Edit, NewEntities, PreLoad, PostLoad, Loaded, LoadedOther,
     LoadFailed, Pick, Barrier, StartTurn, EndTurn, WriteBuffer, TakeRequest, PushOp, Answer,
     OuterOp
<1>5. todo' \in Seq(Bracketed \cup {"disable", "enable", "answer"})
  <2> DEFINE S == Bracketed \cup {"disable", "enable", "answer"}
  <2>1. {"disable", "enable", "answer"} \subseteq S /\ Bracketed \subseteq S
    OBVIOUS
  <2> HIDE DEF S
  <2>2. Rests \subseteq Seq(S)
    BY <2>1 DEF Rests
  <2>3. ASSUME NEW r \in Bracketed  PROVE Whole(r) \cup Middle(r) \subseteq Seq(S)
    BY <2>1 DEF Whole, Middle
  <2>4. todo' \in Seq(S)
    BY <2>2, <2>3 DEF Todo
  <2> QED
    BY <2>4 DEF S
<1>6. meStatus' \in {"START", "RUNNING", "STOP", "STOPPED"}
  BY DEF Inv, TypeOK, Next, Request, Ask, OpenSceneFile, SceneFileChosen, FileChecked,
     ReadOnlyAnswered, Restart, PushSync, TopoChanged, StartResize, Resize, OuterPickOp,
     DoDraw, DrawDone, PumpView, PumpLoad, PumpPick, PickDraw, Picked, PumpSync, Disable,
     Enable, SetState, Serve, Topo, Edit, NewEntities, PreLoad, PostLoad, Loaded, LoadedOther,
     LoadFailed, Pick, Barrier, StartTurn, EndTurn, WriteBuffer, TakeRequest, PushOp, Answer,
     OuterOp
<1>7. /\ display' \in BOOLEAN /\ dialog' \in {"none", "file", "readOnly"}
      /\ lostStart' \in BOOLEAN
  <2>1. /\ display' \in {display, Head(mainQ) = "viewOn"}
        /\ dialog' \in {dialog, "none", "file", "readOnly"}
        /\ lostStart' \in {lostStart, FALSE, upd = "stopping"}
    BY DEF Next, Request, Ask, OpenSceneFile, SceneFileChosen, FileChecked, ReadOnlyAnswered,
       Restart, PushSync, TopoChanged, StartResize, Resize, OuterPickOp, DoDraw, DrawDone,
       PumpView, PumpLoad, PumpPick, PickDraw, Picked, PumpSync, Disable, Enable, SetState,
       Serve, Topo, Edit, NewEntities, PreLoad, PostLoad, Loaded, LoadedOther, LoadFailed,
       Pick, Barrier, StartTurn, EndTurn, WriteBuffer, TakeRequest, PushOp, Answer, OuterOp
  <2> QED
    BY <2>1 DEF Inv, TypeOK
<1>10. mpEditSceneInst' \in BOOLEAN
  <2>1. \/ mpEditSceneInst' \in {mpEditSceneInst, mpScene, TRUE}
        \/ \E r \in Bracketed : mpEditSceneInst' = (mpScene \/ r = "newScene")
    BY DEF Next, Request, Ask, OpenSceneFile, SceneFileChosen, FileChecked, ReadOnlyAnswered,
       Restart, PushSync, TopoChanged, StartResize, Resize, OuterPickOp, DoDraw, DrawDone,
       PumpView, PumpLoad, PumpPick, PickDraw, Picked, PumpSync, Disable, Enable, SetState,
       Serve, Topo, Edit, NewEntities, PreLoad, PostLoad, Loaded, LoadedOther, LoadFailed,
       Pick, Barrier, StartTurn, EndTurn, WriteBuffer, TakeRequest, PushOp, Answer, OuterOp
  <2> QED
    BY <2>1 DEF Inv, TypeOK
<1>8. events' \in 0 .. MaxEvents
  <2>1. events' = events \/ (events' = events + 1 /\ events < MaxEvents)
    BY DEF Next, Event, Request, Ask, OpenSceneFile, SceneFileChosen, FileChecked,
       ReadOnlyAnswered, Restart, PushSync, TopoChanged, StartResize, Resize, OuterPickOp,
       DoDraw, DrawDone, PumpView, PumpLoad, PumpPick, PickDraw, Picked, PumpSync, Disable,
       Enable, SetState, Serve, Topo, Edit, NewEntities, PreLoad, PostLoad, Loaded,
       LoadedOther, LoadFailed, Pick, Barrier, StartTurn, EndTurn, WriteBuffer, TakeRequest,
       PushOp, Answer, OuterOp
  <2> QED
    BY <2>1, MaxEventsAssumption DEF Inv, TypeOK
<1>9. written' \in 0 .. Buffers /\ Writable' >= 0
  <2>0. written \in 0 .. Buffers /\ Writable >= 0 /\ Buffers \in Nat \ {0}
    BY BuffersAssumption DEF Inv, TypeOK
  \* A buffer is written only if one is free, and one is read that was written.
  <2>1. \/ written' = written /\ (Drawing' => Drawing)
        \/ written' = 0 /\ ~Drawing /\ main' = main
        \/ written' = written + 1 /\ Writable > 0 /\ main' = main
        \/ written' = written - 1 /\ written > 0 /\ ~Drawing
    BY DEF Drawing, ClearAndSyncReaders, Execute, Event, Next, Request, Ask, OpenSceneFile,
       SceneFileChosen, FileChecked, ReadOnlyAnswered, Restart, PushSync, TopoChanged,
       StartResize, Resize, OuterPickOp, DoDraw, DrawDone, PumpView, PumpLoad, PumpPick,
       PickDraw, Picked, PumpSync, Disable, Enable, SetState, Serve, Topo, Edit, NewEntities,
       PreLoad, PostLoad, Loaded, LoadedOther, LoadFailed, Pick, Barrier, StartTurn, EndTurn,
       WriteBuffer, TakeRequest, PushOp, Answer, OuterOp
  <2> QED
    BY <2>0, <2>1 DEF Writable, Drawing
<1> QED
  BY <1>1, <1>2, <1>3, <1>4, <1>5, <1>6, <1>7, <1>8, <1>9, <1>10

\* The requests, the scene and the locks.
LEMMA RequestsTyped ==
    ASSUME Inv, Next, ~TakeRequest, ~PreLoad, ~PostLoad
    PROVE  /\ mSerialQ' \in Seq(Requests) /\ olds' \in Seq(BOOLEAN)
           /\ mpScene' \in BOOLEAN /\ forgotten' \in BOOLEAN
<1> USE DEF User, MainPump, MainThread, UpdateThread, RunLoop, queues, scene
<1>1. \/ mSerialQ' = mSerialQ
      \/ \E r \in Requests : mSerialQ' = Append(mSerialQ, r)
  <2>1. /\ \A o \in Bracketed \cup {"load"} : Queued(o) \in Requests /\ Asked(o) \in Requests
        /\ {"newScene", "objects", "runStop", "getScene"} \subseteq Bracketed
    BY DEF Requests, Queued, Asked, Bracketed
  <2> QED
    BY <2>1 DEF Next, Request, Ask, OpenSceneFile, SceneFileChosen, FileChecked,
     ReadOnlyAnswered, Restart, PushSync, TopoChanged, StartResize, Resize,
       OuterPickOp, DoDraw, DrawDone, PumpView, PumpLoad, PumpPick, PickDraw, Picked, PumpSync,
       Disable, Enable, SetState, Serve, Topo, Edit, NewEntities, Pick, Barrier, StartTurn, EndTurn,
       WriteBuffer, PushOp, Answer, OuterOp
<1>2. mSerialQ' \in Seq(Requests)
  <2>1. mSerialQ \in Seq(Requests)
    BY DEF Inv, TypeOK
  <2> QED
    BY <1>1, <2>1, AppendProperties
<1>3. UNCHANGED <<olds, forgotten>> /\ mpScene' \in {mpScene, TRUE, FALSE}
  BY DEF Next, Request, Ask, OpenSceneFile, SceneFileChosen, FileChecked,
     ReadOnlyAnswered, Restart, PushSync, TopoChanged, StartResize, Resize,
     OuterPickOp, DoDraw, DrawDone, PumpView, PumpLoad, PumpPick, PickDraw, Picked, PumpSync,
     Disable, Enable, SetState, Serve, Topo, Edit, NewEntities, Pick, Barrier, StartTurn, EndTurn,
     WriteBuffer, PushOp, Answer, OuterOp
<1> QED
  BY <1>2, <1>3 DEF Inv, TypeOK

LEMMA NextServes ==
    ASSUME Inv, Next  PROVE Served'
<1>1. CASE Aside
  BY <1>1, AsideKeeps DEF Served
<1>2. CASE PumpLoad
  BY <1>2, PumpLoadServes
<1>3. CASE PreLoad
  BY <1>3, PreLoadServes
<1>4. CASE PostLoad
  BY <1>4, PostLoadServes
<1>5. CASE Serve("objects")
  BY <1>5, ServeObjectsServes
<1>6. CASE Barrier /\ Head(updQ) = "syncLoop"
  BY <1>6, BarrierServes
<1>7. CASE TakeRequest
  BY <1>7, TakeRequestServes
<1>8. CASE PushOp
  BY <1>8, PushOpServes
<1>9. CASE Answer
  BY <1>9, AnswerServes
<1> QED
  <2>1. TypeOK
    BY DEF Inv
  <2> QED
    BY <1>1, <1>2, <1>3, <1>4, <1>5, <1>6, <1>7, <1>8, <1>9, <2>1, AsideSteps
       DEF Next, MainPump, UpdateThread, RunLoop, Bracketed

LEMMA Initially == Init => Inv
<1> SUFFICES ASSUME Init  PROVE Inv
  OBVIOUS
<1>1. ~Has(updQ, "syncLoop") /\ ~Has(updQ, "preLoad") /\ ~Has(updQ, "objects")
  BY DEF Init, Has
<1>2. Barriers /\ NoLoads /\ Objects
  BY <1>1 DEF Init, Barriers, NoLoads, Objects, Has, Once, Followed
<1>3. Loading
  <2>1. mainQ \in Seq(MainOps) /\ updQ \in Seq(UpdateOps)
    BY DEF Init
  <2>2. ~Has(mainQ, "load") /\ ~Has(updQ, "postLoad")
    BY DEF Init, Has
  <2>3. Count(mainQ, "load") = 0 /\ Count(updQ, "postLoad") = 0
    BY <2>1, <2>2, CountType
  <2>4. Len(olds) = 0
    BY DEF Init
  <2> QED
    BY <2>3, <2>4 DEF Loading
<1>4. Todo
  BY DEF Init, Todo, Rests
<1>5. TypeOK
  <2>1. mSerialQ \in Seq(Requests)
    BY DEF Init, Queued, Requests
  <2>2. Writable >= 0 /\ written \in 0 .. Buffers /\ events \in 0 .. MaxEvents
    BY BuffersAssumption, MaxEventsAssumption DEF Init, Writable, Drawing
  <2>3. mpScene \in BOOLEAN /\ mpEditSceneInst \in BOOLEAN /\ display \in BOOLEAN
    BY DEF Init
  <2>4. \A b \in {mpScene, mpEditSceneInst, display, lostStart, forgotten} : b \in BOOLEAN
    BY <2>3 DEF Init
  <2>5. <<>> \in Seq(BOOLEAN) /\ olds = <<>>
    BY DEF Init
  <2> QED
    BY <2>1, <2>2, <2>4, <2>5 DEF Init, TypeOK
<1> QED
  BY <1>2, <1>3, <1>4, <1>5 DEF Inv

\* The requests, the loads and the barriers behind them stay in the order in
\* which the run loop and the update thread rely on one another
\* (ork.tool/src/ent/editor.cpp, runloop and QueueSync).
THEOREM Invariance == Spec => []Inv
<1>1. Inv /\ [Next]_vars => Inv'
  <2> SUFFICES ASSUME Inv, [Next]_vars  PROVE Inv'
    OBVIOUS
  <2>1. CASE Next
    <3>1. Served'
      BY <2>1, NextServes
    <3>2. /\ mSerialQ' \in Seq(Requests) /\ olds' \in Seq(BOOLEAN)
          /\ mpScene' \in BOOLEAN /\ forgotten' \in BOOLEAN
      <4>1. CASE TakeRequest
        <5>1. mSerialQ' \in Seq(Requests)
          BY <4>1, TakeRequestServes
        <5>2. UNCHANGED <<olds, mpScene, forgotten>>
          BY <4>1 DEF TakeRequest, scene
        <5> QED
          BY <5>1, <5>2 DEF Inv, TypeOK
      <4>2. CASE PreLoad
        <5>1. olds' \in Seq(BOOLEAN) /\ mpScene' \in BOOLEAN
          BY <4>2, PreLoadServes
        <5>2. UNCHANGED <<mSerialQ, forgotten>>
          BY <4>2 DEF PreLoad
        <5> QED
          BY <5>1, <5>2 DEF Inv, TypeOK
      <4>3. CASE PostLoad
        <5>1. olds' \in Seq(BOOLEAN) /\ mpScene' \in BOOLEAN /\ forgotten' \in BOOLEAN
          BY <4>3, PostLoadServes
        <5>2. UNCHANGED mSerialQ
          BY <4>3 DEF PostLoad
        <5> QED
          BY <5>1, <5>2 DEF Inv, TypeOK
      <4> QED
        BY <2>1, <4>1, <4>2, <4>3, RequestsTyped
    <3>3. Todo'
      BY <3>1 DEF Served
    <3>4. TypeOK'
      BY <2>1, <3>1, <3>2, <3>3, RestTyped DEF TypeOK, Served
    <3> QED
      BY <3>1, <3>4 DEF Inv, Served
  <2>2. CASE UNCHANGED vars
    <3>1. UNCHANGED <<mSerialQ, updQ, mainQ, upd, main, loop, pick, todo, meStatus, written,
                      mpScene, mpEditSceneInst, olds, display, dialog, events, lostStart,
                      forgotten>>
      BY <2>2 DEF vars, queues, threads, frames, scene, user
    <3>2. TypeOK'
      BY <3>1 DEF Inv, TypeOK, Writable, Drawing
    <3> QED
      BY <3>1, <3>2 DEF Inv, Todo, Loading, Barriers, NoLoads, Objects
  <2> QED
    BY <2>1, <2>2
<1> QED
  BY <1>1, Initially, PTL DEF Spec

\* Operations that use mpScene find one although the run loop has tested for it
\* on another thread: behind disable_op and its barrier no load is left to take
\* it away (ork.tool/src/ent/editor.cpp, runloop, pre_load_op and post_load_op).
THEOREM SceneFound == Spec => []SceneThere
<1>1. Inv => SceneThere
  <2> SUFFICES ASSUME Inv, Execute("objects")  PROVE mpScene \/ forgotten
    BY DEF Inv, SceneThere
  <2>1. updQ \in Seq(UpdateOps) /\ updQ # <<>> /\ Head(updQ) = "objects"
    BY DEF Inv, TypeOK, Execute
  <2>2. Has(updQ, "objects")
    BY <2>1, Taken
  <2> QED
    BY <2>2 DEF Inv, Objects
<1> QED
  BY <1>1, Invariance, PTL
=============================================================================
