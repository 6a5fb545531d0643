----------------------------- MODULE Opq_proofs -----------------------------
(***************************************************************************)
(* Proofs about Opq, for every number of clients, workers, pumps, groups   *)
(* and lambdas, and whatever the limits are.                               *)
(***************************************************************************)
EXTENDS Opq, RingQueue_proofs

----------------------------------------------------------------------------
(* The inductive invariant: where each thread is.                          *)

Pushing == {"throttle", "claim", "publish", "addGroup", "addOpq", "notify"}
Unclaimed == {"throttle", "claim"}
Queued == {"publish", "addGroup", "addOpq", "notify", "await"}
Holding == {"count", "run"}

Calls ==
    \A c \in Clients :
        /\ pc[c] \in ClientLabels
        /\ op[c] \in Ops \cup {c, None}
        /\ pc[c] \in Pushing => op[c] # None /\ at[c] \in Groups
        /\ pc[c] = "await" => op[c] = c

Running ==
    /\ \A r \in Runners : pc[r] \in RunnerLabels /\ (pc[r] \in Holding => op[r] \in Items)
    /\ mThreadsRunning = Cardinality({w \in Workers : pc[w] \notin {"starting", "gone"}})

(* What the counters count.                                                *)

GroupUncounted(g) == {c \in Clients : pc[c] \in {"publish", "addGroup"} /\ at[c] = g}
AllUncounted == {c \in Clients : pc[c] \in {"publish", "addGroup", "addOpq"}}
GroupPopped(g) ==
    {r \in Runners : pc[r] \in {"count", "run", "remOpq", "remGroup"} /\ Group(r) = g}
AllPopped == {r \in Runners : pc[r] \in {"count", "run", "remOpq"}}
InFlight(g) ==
    {r \in Runners : pc[r] \in {"run", "remOpq", "remGroup", "uncount"} /\ Group(r) = g}

Counted ==
    /\ \A g \in Groups :
        /\ mOpCounter[g] = Len(mOps[g]) - Cardinality(GroupUncounted(g))
                                        + Cardinality(GroupPopped(g))
        /\ mOpsInFlightCounter[g] = Cardinality(InFlight(g))
    /\ mOpCounter[TheOpq] =
        Cardinality(Places) - Cardinality(AllUncounted) + Cardinality(AllPopped)

(* Where each item is: a lambda, or the barrier of a client's sync.        *)

Holds(r, x) == pc[r] \in Holding /\ op[r] = x

Somewhere(x) == (\E g \in Groups : x \in ItemsOf(mOps[g])) \/ \E r \in Runners : Holds(r, x)

Alone(x) ==
    /\ \A g, h \in Groups : x \in ItemsOf(mOps[g]) /\ x \in ItemsOf(mOps[h]) => g = h
    /\ \A r \in Runners : Holds(r, x) =>
        /\ \A g \in Groups : x \notin ItemsOf(mOps[g])
        /\ \A s \in Runners : Holds(s, x) => s = r

Pending(x) == \E c \in Clients : op[c] = x /\ pc[c] \in Unclaimed
Pushed(x) == x \in returned \/ \E c \in Clients : op[c] = x /\ pc[c] \in Queued
Over(x) == x \in done \cup signalled

Placed ==
    /\ \A g \in Groups : NoTwice(mOps[g])
    /\ \A x \in Items : Alone(x)

\* An item is pushed by one client, is somewhere as long as it has been pushed
\* and not executed, and is not executed before it has been pushed.
Passing ==
    /\ \A c, d \in Clients : op[c] = op[d] /\ op[c] # None => c = d
    /\ \A x \in Items :
        /\ Somewhere(x) => Pushed(x) /\ ~Over(x)
        /\ Pending(x) => ~Pushed(x) /\ ~Over(x)
        /\ x \in done => Pushed(x)

Inv == TypeOK /\ Calls /\ Running /\ Counted /\ Placed /\ Passing /\ DestroyWaits

\* Nothing is lost: a lambda that has been pushed is in the queue of its group
\* or held by a thread that looks at that group, until it has run.
Kept ==
    \A o \in Ops :
        /\ \A c \in Clients : op[c] = o /\ pc[c] \in Pushing => at[c] = GroupOf[o]
        /\ Pushed(o) =>
            \/ o \in done
            \/ o \in ItemsOf(mOps[GroupOf[o]])
            \/ \E r \in Runners : Holds(r, o) /\ Group(r) = GroupOf[o]

Drains ==
    \A c \in Clients : pc[c] = "drain" =>
        \A o \in promised[c] : o \in returned /\ (at[c] = TheOpq \/ GroupOf[o] = at[c])

DrainInv == Inv /\ Kept /\ Drains

----------------------------------------------------------------------------
(* Facts the steps share.                                                  *)

LEMMA Kinds ==
    /\ Clients \cap Runners = {} /\ Workers \cap Pumps = {} /\ NoThread \notin Clients
    /\ Runners = Workers \cup Pumps /\ Threads = Clients \cup Runners
    /\ Ops \cap Clients = {} /\ None \notin Items /\ Items = Ops \cup Clients
    /\ DefaultGroup \in Groups /\ TheOpq \notin Groups /\ Synchros = Groups \cup {TheOpq}
    /\ \A o \in Ops : GroupOf[o] \in Groups
    /\ \A c \in Clients : MayDrain[c] \subseteq Synchros
  BY ThreadsAssumption, OpsAssumption, GroupsAssumption DEF Threads, Runners, Items, Synchros

LEMMA Finite ==
    /\ IsFiniteSet(Clients) /\ IsFiniteSet(Runners) /\ IsFiniteSet(Workers) /\ IsFiniteSet(Groups)
    /\ DOMAIN GroupOrder = 1 .. Len(GroupOrder) /\ Len(GroupOrder) \in Nat \ {0}
    /\ \A i \in DOMAIN GroupOrder : GroupOrder[i] \in Groups
<1>1. IsFiniteSet(Clients) /\ IsFiniteSet(Runners)
  BY ThreadsAssumption
<1>2. IsFiniteSet(Workers)
  BY <1>1, Kinds, FS_Subset
<1>3. /\ DOMAIN GroupOrder = 1 .. Len(GroupOrder) /\ Len(GroupOrder) \in Nat
      /\ \A i \in DOMAIN GroupOrder : GroupOrder[i] \in Groups
  BY GroupsAssumption, ElementOfSeq
<1>4. Len(GroupOrder) # 0
  <2>1. PICK i \in DOMAIN GroupOrder : GroupOrder[i] = DefaultGroup
    BY GroupsAssumption DEF Groups
  <2> QED
    BY <1>3, <2>1
<1>5. IsFiniteSet(Groups)
  <2> DEFINE f == [i \in 1 .. Len(GroupOrder) |-> GroupOrder[i]]
  <2>1. IsFiniteSet(1 .. Len(GroupOrder))
    BY <1>3, FS_Interval
  <2>2. f \in Surjection(1 .. Len(GroupOrder), Groups)
    BY <1>3 DEF Surjection, Groups
  <2> QED
    BY <2>1, <2>2, FS_Surjection
<1> QED
  BY <1>1, <1>2, <1>3, <1>4, <1>5

LEMMA Typed ==
    ASSUME TypeOK
    PROVE  /\ \A g \in Groups : mOps[g] \in Queues(Items, Clients)
           /\ mOps \in [Groups -> Queues(Items, Clients)]
           /\ \A r \in Runners : Group(r) \in Groups
  BY Finite DEF TypeOK, Queues, Group

\* An item is taken from a queue, given to one, or neither: the latter are the
\* steps that leave the items where they are.
Same ==
    /\ \A c \in Clients :
        /\ op'[c] = op[c]
        /\ pc'[c] \in Unclaimed <=> pc[c] \in Unclaimed
        /\ pc'[c] \in Queued <=> pc[c] \in Queued
        /\ pc'[c] \in Pushing => pc[c] \in Pushing /\ at'[c] = at[c]
    /\ \A r \in Runners :
        /\ pc'[r] \in Holding <=> pc[r] \in Holding
        /\ pc[r] \in Holding => op'[r] = op[r] /\ at'[r] = at[r]
    /\ \A g \in Groups :
        /\ ItemsOf(mOps'[g]) = ItemsOf(mOps[g])
        /\ NoTwice(mOps[g]) => NoTwice(mOps'[g])
    /\ UNCHANGED <<signalled, done, returned>>

LEMMA SameKeeps ==
    ASSUME Same, Placed, Passing
    PROVE  Placed' /\ Passing' /\ (Kept => Kept')
<1>1. \A r \in Runners : \A x : Holds(r, x)' <=> Holds(r, x)
  BY DEF Same, Holds
<1>2. \A x : Pending(x)' <=> Pending(x)
  BY DEF Same, Pending
<1>3. \A x : Pushed(x)' <=> Pushed(x)
  BY DEF Same, Pushed
<1>4. \A x : Over(x)' <=> Over(x)
  BY DEF Same, Over
<1>5. \A g \in Groups : \A x : x \in ItemsOf(mOps'[g]) <=> x \in ItemsOf(mOps[g])
  BY DEF Same
<1>6. \A x : Somewhere(x)' <=> Somewhere(x)
  BY <1>1, <1>5 DEF Somewhere
<1>7. \A x \in Items : Alone(x) => Alone(x)'
  BY <1>1, <1>5 DEF Alone
<1>8. Placed'
  BY <1>7 DEF Same, Placed
<1>9. Passing'
  BY <1>2, <1>3, <1>4, <1>6 DEF Same, Passing
<1>10. ASSUME Kept  PROVE Kept'
  <2> SUFFICES ASSUME NEW o \in Ops
               PROVE  /\ \A c \in Clients : op'[c] = o /\ pc'[c] \in Pushing => at'[c] = GroupOf[o]
                      /\ Pushed(o)' =>
                            \/ o \in done'
                            \/ o \in ItemsOf(mOps'[GroupOf[o]])
                            \/ \E r \in Runners : Holds(r, o)' /\ Group(r)' = GroupOf[o]
    BY DEF Kept
  <2>1. \A r \in Runners : Holds(r, o) => Group(r)' = Group(r)
    BY DEF Same, Holds, Group
  <2>2. o \in ItemsOf(mOps'[GroupOf[o]]) <=> o \in ItemsOf(mOps[GroupOf[o]])
    BY <1>5, Kinds
  <2>3. \A c \in Clients : op'[c] = o /\ pc'[c] \in Pushing => at'[c] = GroupOf[o]
    BY <1>10 DEF Kept, Same
  <2> QED
    BY <1>1, <1>3, <1>10, <2>1, <2>2, <2>3 DEF Kept, Same
<1> QED
  BY <1>8, <1>9, <1>10

LEMMA QuietClients ==
    ASSUME TypeOK, NEW c \in Clients,
           \/ Throttle(c) \/ PushPublish(c) \/ PushAddToGroup(c) \/ PushAddToOpq(c)
           \/ Drain(c) \/ Joining(c) \/ (\E s \in MayDrain[c] : StartDrain(c, s)) \/ Destroy(c)
           \/ \E s \in Synchros : SpuriousWakeup(c, s)
    PROVE  Same
<1>1. c \in Threads /\ c \notin Runners /\ pc \in [Threads -> ClientLabels \cup RunnerLabels]
  BY Kinds DEF TypeOK
<1>2. CASE PushPublish(c)
  <2>1. mOps' = [mOps EXCEPT ![at[c]] = Published(@, c)]
    BY <1>2 DEF PushPublish
  <2>2. ASSUME NEW g \in Groups
        PROVE  /\ ItemsOf(mOps'[g]) = ItemsOf(mOps[g])
               /\ NoTwice(mOps[g]) => NoTwice(mOps'[g])
    <3>1. mOps'[g] = IF g = at[c] THEN Published(mOps[g], c) ELSE mOps[g]
      BY <2>1, Typed
    <3>2. mOps[g] \in Queues(Items, Clients)
      BY Typed
    <3> QED
      BY <3>1, <3>2, PublishedQueue
  <2> QED
    BY <1>1, <1>2, <2>2 DEF PushPublish, Goto, Same, Unclaimed, Queued, Pushing, history, TypeOK
<1>3. CASE ~PushPublish(c)
  <2>1. mOps' = mOps /\ UNCHANGED <<op, signalled, done, returned>>
    BY <1>3 DEF Throttle, PushAddToGroup, PushAddToOpq, Drain, Joining, StartDrain, Destroy,
       SpuriousWakeup, history
  <2>2. /\ \A d \in Clients : d # c => pc'[d] = pc[d] /\ at'[d] = at[d]
        /\ \A r \in Runners : pc'[r] = pc[r] /\ at'[r] = at[r]
    BY <1>1, <1>3, Kinds DEF Throttle, PushAddToGroup, PushAddToOpq, Drain, Joining, StartDrain,
       Destroy, SpuriousWakeup, WaitOnCondition, Goto, TypeOK
  <2>3. /\ pc'[c] \in Unclaimed <=> pc[c] \in Unclaimed
        /\ pc'[c] \in Queued <=> pc[c] \in Queued
        /\ pc'[c] \in Pushing => pc[c] \in Pushing /\ at'[c] = at[c]
    BY <1>1, <1>3 DEF Throttle, PushAddToGroup, PushAddToOpq, Drain, Joining, StartDrain,
       Destroy, Free, SpuriousWakeup, WaitOnCondition, Goto, TypeOK, Unclaimed, Queued, Pushing
  <2> QED
    BY <2>1, <2>2, <2>3 DEF Same
<1> QED
  BY <1>2, <1>3

LEMMA QuietRunners ==
    ASSUME TypeOK, NEW r \in Runners,
           \/ (r \in Workers /\ Work(r)) \/ Inspect(r) \/ NumOps(r)
           \/ (TryPop(r) /\ ~Ready(mOps[Group(r)]))
           \/ CountInFlight(r) \/ RemoveFromOpq(r) \/ RemoveFromGroup(r) \/ UncountInFlight(r)
    PROVE  Same
<1>1. r \in Threads /\ r \notin Clients /\ pc \in [Threads -> ClientLabels \cup RunnerLabels]
      /\ op \in [Threads -> Items \cup {None}] /\ at \in [Threads -> Synchros \cup DOMAIN GroupOrder]
  BY Kinds DEF TypeOK
<1>2. mOps' = mOps /\ UNCHANGED <<signalled, done, returned>>
  BY DEF Work, WorkerStart, WorkerTest, WorkerWait, WorkerWoken, WorkerLeave, Inspect, NumOps,
     TryPop, CountInFlight, RemoveFromOpq, RemoveFromGroup, UncountInFlight, history
<1>3. \A t \in Threads : t # r => pc'[t] = pc[t] /\ op'[t] = op[t] /\ at'[t] = at[t]
  BY <1>1 DEF Work, WorkerStart, WorkerTest, WorkerWait, WorkerWoken, WorkerLeave, Inspect, NumOps,
     TryPop, CountInFlight, RemoveFromOpq, RemoveFromGroup, UncountInFlight, Advance, Returned,
     Goto
<1>4. /\ pc'[r] \in Holding <=> pc[r] \in Holding
      /\ pc[r] \in Holding => op'[r] = op[r] /\ at'[r] = at[r]
  BY <1>1 DEF Work, WorkerStart, WorkerTest, WorkerWait, WorkerWoken, WorkerLeave, Inspect, NumOps,
     TryPop, CountInFlight, RemoveFromOpq, RemoveFromGroup, UncountInFlight, Advance, Returned,
     Goto, Holding
<1> QED
  BY <1>1, <1>2, <1>3, <1>4, Kinds DEF Same

----------------------------------------------------------------------------
(* The steps that move an item.                                            *)

\* No queue and no thread that executes changes.
Elsewhere ==
    /\ \A r \in Runners : UNCHANGED <<pc[r], op[r], at[r]>>
    /\ UNCHANGED <<mOps, done>>

LEMMA ElsewhereKeeps ==
    ASSUME Elsewhere, Placed
    PROVE  /\ Placed' /\ \A x : Somewhere(x)' <=> Somewhere(x)
           /\ \A r \in Runners, x \in Items : Holds(r, x) => Holds(r, x)' /\ Group(r)' = Group(r)
<1>1. \A r \in Runners : \A x : Holds(r, x)' <=> Holds(r, x)
  BY DEF Elsewhere, Holds
<1>2. mOps' = mOps /\ \A r \in Runners : Group(r)' = Group(r)
  BY DEF Elsewhere, Group
<1> QED
  BY <1>1, <1>2 DEF Placed, Alone, Somewhere

\* A client begins to push x, which it has not pushed, or not since x was over.
LEMMA BeginPush ==
    ASSUME Inv, NEW c \in Clients, NEW x \in Items,
           pc[c] = "idle", ~Pushed(x), x \notin done,
           \A d \in Clients \ {c} : op[d] # x,
           op' = [op EXCEPT ![c] = x], pc' = [pc EXCEPT ![c] = "throttle"],
           signalled' = signalled \ {x}, UNCHANGED <<mOps, done, returned>>,
           \A t \in Threads \ {c} : at'[t] = at[t]
    PROVE  Placed' /\ Passing' /\ (Kept /\ (x \in Ops => at'[c] = GroupOf[x]) => Kept')
<1>1. /\ pc \in [Threads -> ClientLabels \cup RunnerLabels] /\ op \in [Threads -> Items \cup {None}]
      /\ c \in Threads /\ c \notin Runners /\ Clients \subseteq Threads /\ Runners \subseteq Threads
  BY Kinds DEF Inv, TypeOK
<1>2. /\ op'[c] = x /\ pc'[c] = "throttle"
      /\ \A t \in Threads \ {c} : op'[t] = op[t] /\ pc'[t] = pc[t]
  BY <1>1
<1>3. Elsewhere
  BY <1>1, <1>2 DEF Elsewhere
<1>4. Placed' /\ \A y : Somewhere(y)' <=> Somewhere(y)
  BY <1>3, ElsewhereKeeps DEF Inv
<1>5. \A y \in Items : Pushed(y)' <=> Pushed(y)
  BY <1>1, <1>2 DEF Pushed, Queued
<1>6. \A y \in Items : Pending(y)' <=> Pending(y) \/ y = x
  BY <1>1, <1>2 DEF Pending, Unclaimed
<1>7. \A y \in Items : Over(y)' <=> Over(y) /\ y # x
  BY DEF Over
<1>8. ~Somewhere(x)
  BY DEF Inv, Passing
<1>9. Passing'
  <2>1. \A d, e \in Clients : op'[d] = op'[e] /\ op'[d] # None => d = e
    BY <1>1, <1>2 DEF Inv, Passing
  <2>2. \A y \in Items : Somewhere(y)' => Pushed(y)' /\ ~Over(y)'
    BY <1>4, <1>5, <1>7, <1>8 DEF Inv, Passing
  <2>3. \A y \in Items : Pending(y)' => ~Pushed(y)' /\ ~Over(y)'
    BY <1>5, <1>6, <1>7 DEF Inv, Passing
  <2>4. \A y \in Items : y \in done' => Pushed(y)'
    BY <1>5 DEF Inv, Passing
  <2> QED
    BY <2>1, <2>2, <2>3, <2>4 DEF Passing
<1>10. ASSUME Kept, x \in Ops => at'[c] = GroupOf[x]  PROVE Kept'
  <2>1. \A r \in Runners, y \in Items : Holds(r, y) => Holds(r, y)' /\ Group(r)' = Group(r)
    BY <1>3, ElsewhereKeeps DEF Inv
  <2>2. \A d \in Clients, o \in Ops : op'[d] = o /\ pc'[d] \in Pushing => at'[d] = GroupOf[o]
    BY <1>1, <1>2, <1>10 DEF Kept
  <2>3. Ops \subseteq Items
    BY Kinds
  <2> QED
    BY <1>5, <1>10, <2>1, <2>2, <2>3 DEF Kept
<1> QED
  BY <1>4, <1>9, <1>10

LEMMA StartPushMoves ==
    ASSUME Inv, NEW c \in Clients, NEW o \in Ops, StartPush(c, o)
    PROVE  Placed' /\ Passing' /\ (Kept => Kept')
<1>1. o \in Items /\ ~Pushed(o)
  BY Kinds DEF StartPush, Pushed
<1>2. o \notin done /\ o \notin Clients
  BY <1>1, Kinds DEF Inv, Passing
<1>3. signalled' = signalled \ {o}
  BY <1>2 DEF StartPush, Inv, TypeOK
<1>4. /\ \A t \in Threads \ {c} : at'[t] = at[t]
      /\ at'[c] = GroupOf[o]
  BY Kinds DEF StartPush, Inv, TypeOK
<1> QED
  BY <1>1, <1>2, <1>3, <1>4, BeginPush DEF StartPush, Free, Goto, history

LEMMA StartSyncMoves ==
    ASSUME Inv, NEW c \in Clients, StartSync(c)
    PROVE  Placed' /\ Passing' /\ (Kept => Kept')
<1>1. c \in Items /\ c \notin Ops
  BY Kinds
<1>2. c \notin done /\ c \notin returned
  BY <1>1 DEF Inv, TypeOK
<1>3. \A d \in Clients \ {c} : op[d] # c
  BY Kinds DEF Inv, Calls
<1>4. pc[c] = "idle" /\ ~Pushed(c)
  BY <1>2, <1>3 DEF StartSync, Free, Pushed, Queued
<1>5. \A t \in Threads \ {c} : at'[t] = at[t]
  BY DEF StartSync, Inv, TypeOK
<1> QED
  BY <1>1, <1>2, <1>3, <1>4, <1>5, BeginPush DEF StartSync, Goto

LEMMA PushClaimMoves ==
    ASSUME Inv, NEW c \in Clients, PushClaim(c)
    PROVE  Placed' /\ Passing' /\ (Kept => Kept')
<1> DEFINE x == op[c]
           g == at[c]
<1>1. /\ pc \in [Threads -> ClientLabels \cup RunnerLabels] /\ op \in [Threads -> Items \cup {None}]
      /\ c \in Threads /\ c \notin Runners /\ Clients \subseteq Threads /\ Runners \subseteq Threads
  BY Kinds DEF Inv, TypeOK
<1>2. /\ pc[c] = "claim" /\ pc'[c] = "publish" /\ \A t \in Threads \ {c} : pc'[t] = pc[t]
      /\ mOps' = [mOps EXCEPT ![g] = Claimed(@, c, x)]
      /\ UNCHANGED <<op, at, signalled, done, returned>>
  BY <1>1 DEF PushClaim, Goto, history
<1>3. x \in Items /\ g \in Groups
  BY <1>1, <1>2 DEF Inv, Calls, Pushing
<1>4. Pending(x) /\ ~Pushed(x) /\ ~Over(x) /\ ~Somewhere(x)
  BY <1>2, <1>3 DEF Inv, Passing, Pending, Unclaimed
<1>5. /\ \A h \in Groups : ItemsOf(mOps'[h]) = ItemsOf(mOps[h]) \cup (IF h = g THEN {x} ELSE {})
      /\ \A h \in Groups : NoTwice(mOps'[h])
  <2> SUFFICES ASSUME NEW h \in Groups
               PROVE  /\ ItemsOf(mOps'[h]) = ItemsOf(mOps[h]) \cup (IF h = g THEN {x} ELSE {})
                      /\ NoTwice(mOps'[h])
    OBVIOUS
  <2>1. mOps'[h] = IF h = g THEN Claimed(mOps[h], c, x) ELSE mOps[h]
    BY <1>2, Typed DEF Inv
  <2>2. mOps[h] \in Queues(Items, Clients) /\ NoTwice(mOps[h]) /\ x \notin ItemsOf(mOps[h])
    BY <1>4, Typed DEF Inv, Placed, Somewhere
  <2> HIDE DEF x, g
  <2> QED
    BY <1>3, <2>1, <2>2, ClaimedQueue
<1>6. \A r \in Runners : \A y : (Holds(r, y)' <=> Holds(r, y)) /\ Group(r)' = Group(r)
  BY <1>1, <1>2 DEF Holds, Group
<1>7. \A y \in Items : Pushed(y)' <=> Pushed(y) \/ y = x
  BY <1>1, <1>2 DEF Pushed, Queued
<1>8. \A y \in Items : Pending(y)' <=> Pending(y) /\ y # x
  <2>1. \A d \in Clients : op[d] = x => d = c
    BY <1>3, Kinds DEF Inv, Passing
  <2> QED
    BY <1>1, <1>2, <2>1 DEF Pending, Unclaimed
<1>9. \A y \in Items : Somewhere(y)' <=> Somewhere(y) \/ y = x
  BY <1>3, <1>5, <1>6 DEF Somewhere
<1> HIDE DEF x, g
<1>10. \A y \in Items : Alone(y)'
  <2> SUFFICES ASSUME NEW y \in Items  PROVE Alone(y)'
    OBVIOUS
  <2>1. Alone(y)
    BY DEF Inv, Placed
  <2>2. CASE y = x
    BY <1>4, <1>5, <1>6, <2>2 DEF Alone, Somewhere
  <2>3. CASE y # x
    BY <1>5, <1>6, <2>1, <2>3 DEF Alone
  <2> QED
    BY <2>2, <2>3
<1>11. Placed'
  BY <1>5, <1>10 DEF Placed
<1>12. Passing'
  BY <1>2, <1>4, <1>7, <1>8, <1>9 DEF Inv, Passing, Over
<1>13. ASSUME Kept  PROVE Kept'
  <2> SUFFICES ASSUME NEW o \in Ops
               PROVE  /\ \A d \in Clients : op'[d] = o /\ pc'[d] \in Pushing => at'[d] = GroupOf[o]
                      /\ Pushed(o)' =>
                            \/ o \in done'
                            \/ o \in ItemsOf(mOps'[GroupOf[o]])
                            \/ \E r \in Runners : Holds(r, o)' /\ Group(r)' = GroupOf[o]
    BY DEF Kept
  <2>1. \A d \in Clients : op[d] = o /\ pc[d] \in Pushing => at[d] = GroupOf[o]
    BY <1>13 DEF Kept
  <2>2. pc[c] \in Pushing
    BY <1>2 DEF Pushing
  <2>3. \A d \in Clients : op'[d] = o /\ pc'[d] \in Pushing => at'[d] = GroupOf[o]
    BY <1>1, <1>2, <2>1, <2>2
  <2>4. o \in Items /\ GroupOf[o] \in Groups
    BY Kinds
  <2>5. CASE o = x
    <3>1. g = GroupOf[o]
      BY <2>1, <2>2, <2>5 DEF x, g
    <3> QED
      BY <1>5, <2>3, <2>4, <2>5, <3>1
  <2>6. CASE o # x
    BY <1>2, <1>5, <1>6, <1>7, <1>13, <2>3, <2>4, <2>6 DEF Kept
  <2> QED
    BY <2>5, <2>6
<1> QED
  BY <1>11, <1>12, <1>13

LEMMA PushNotifyMoves ==
    ASSUME Inv, NEW c \in Clients, PushNotify(c)
    PROVE  Placed' /\ Passing' /\ (Kept => Kept')
<1>1. /\ pc \in [Threads -> ClientLabels \cup RunnerLabels] /\ op \in [Threads -> Items \cup {None}]
      /\ c \in Threads /\ c \notin Runners /\ Clients \subseteq Threads /\ Runners \subseteq Threads
  BY Kinds DEF Inv, TypeOK
<1>2. /\ pc[c] = "notify" /\ pc'[c] = (IF op[c] = c THEN "await" ELSE "idle")
      /\ \A t \in Threads \ {c} : pc'[t] = pc[t]
      /\ returned' = returned \cup ({op[c]} \cap Ops)
      /\ UNCHANGED <<mOps, op, at, signalled, done>>
  BY <1>1 DEF PushNotify, Goto
<1>3. op[c] \in Ops \cup {c} /\ c \notin Ops
  BY <1>2, Kinds DEF Inv, Calls, Pushing
<1>4. Elsewhere
  BY <1>1, <1>2 DEF Elsewhere
<1>5. Placed' /\ \A y : Somewhere(y)' <=> Somewhere(y)
  BY <1>4, ElsewhereKeeps DEF Inv
<1>6. \A y \in Items : Pushed(y)' <=> Pushed(y)
  <2> SUFFICES ASSUME NEW y \in Items  PROVE Pushed(y)' <=> Pushed(y)
    OBVIOUS
  <2>1. Pushed(y) => Pushed(y)'
    BY <1>1, <1>2, <1>3 DEF Pushed, Queued
  <2>2. Pushed(y)' => Pushed(y)
    BY <1>1, <1>2, <1>3 DEF Pushed, Queued
  <2> QED
    BY <2>1, <2>2
<1>7. \A y \in Items : Pending(y)' <=> Pending(y)
  BY <1>1, <1>2 DEF Pending, Unclaimed
<1>8. Passing'
  BY <1>2, <1>5, <1>6, <1>7 DEF Inv, Passing, Over
<1>9. ASSUME Kept  PROVE Kept'
  <2>1. \A r \in Runners, y \in Items : Holds(r, y) => Holds(r, y)' /\ Group(r)' = Group(r)
    BY <1>4, ElsewhereKeeps DEF Inv
  <2>2. \A d \in Clients : pc'[d] \in Pushing => pc[d] \in Pushing
    BY <1>1, <1>2 DEF Pushing
  <2>3. Ops \subseteq Items
    BY Kinds
  <2> QED
    BY <1>2, <1>6, <1>9, <2>1, <2>2, <2>3 DEF Kept
<1> QED
  BY <1>5, <1>8, <1>9

\* The barrier of a sync is over when the sync is.
LEMMA AwaitMoves ==
    ASSUME Inv, NEW c \in Clients, Await(c)
    PROVE  Placed' /\ Passing' /\ (Kept => Kept')
<1>1. /\ pc \in [Threads -> ClientLabels \cup RunnerLabels] /\ op \in [Threads -> Items \cup {None}]
      /\ c \in Threads /\ c \notin Runners /\ Clients \subseteq Threads /\ Runners \subseteq Threads
  BY Kinds DEF Inv, TypeOK
<1>2. /\ pc[c] = "await" /\ pc'[c] = "idle" /\ c \in signalled
      /\ \A t \in Threads \ {c} : pc'[t] = pc[t]
      /\ UNCHANGED <<mOps, op, at, signalled, done, returned>>
  BY <1>1 DEF Await, Goto, history
<1>3. op[c] = c /\ c \in Items /\ c \notin Ops
  BY <1>2, Kinds DEF Inv, Calls
<1>4. Elsewhere
  BY <1>1, <1>2 DEF Elsewhere
<1>5. Placed' /\ \A y : Somewhere(y)' <=> Somewhere(y)
  BY <1>4, ElsewhereKeeps DEF Inv
<1>6. \A y \in Items : y # c => (Pushed(y)' <=> Pushed(y))
  BY <1>1, <1>2, <1>3 DEF Pushed, Queued
<1>7. \A y \in Items : (Pending(y)' <=> Pending(y)) /\ (Pushed(y)' => Pushed(y))
  BY <1>1, <1>2 DEF Pending, Pushed, Unclaimed, Queued
<1>8. ~Somewhere(c) /\ c \notin done
  BY <1>2, <1>3 DEF Inv, Passing, Over, TypeOK
<1>9. Passing'
  BY <1>2, <1>5, <1>6, <1>7, <1>8 DEF Inv, Passing, Over
<1>10. ASSUME Kept  PROVE Kept'
  <2>1. \A r \in Runners, y \in Items : Holds(r, y) => Holds(r, y)' /\ Group(r)' = Group(r)
    BY <1>4, ElsewhereKeeps DEF Inv
  <2>2. \A d \in Clients : pc'[d] \in Pushing => pc[d] \in Pushing
    BY <1>1, <1>2 DEF Pushing
  <2>3. Ops \subseteq Items
    BY Kinds
  <2> QED
    BY <1>2, <1>3, <1>6, <1>10, <2>1, <2>2, <2>3 DEF Kept
<1> QED
  BY <1>5, <1>9, <1>10

LEMMA TryPopMoves ==
    ASSUME Inv, NEW r \in Runners, TryPop(r), Ready(mOps[Group(r)])
    PROVE  Placed' /\ Passing' /\ (Kept => Kept')
<1> DEFINE g == Group(r)
           x == First(mOps[g])
<1>1. /\ pc \in [Threads -> ClientLabels \cup RunnerLabels] /\ op \in [Threads -> Items \cup {None}]
      /\ r \in Threads /\ r \notin Clients /\ Clients \subseteq Threads /\ Runners \subseteq Threads
  BY Kinds DEF Inv, TypeOK
<1>2. /\ pc[r] = "pop" /\ pc'[r] = "count" /\ op'[r] = x
      /\ \A t \in Threads \ {r} : pc'[t] = pc[t] /\ op'[t] = op[t]
      /\ mOps' = [mOps EXCEPT ![g] = Rest(mOps[g])]
      /\ UNCHANGED <<at, signalled, done, returned>>
  BY <1>1 DEF TryPop, Goto, history
<1>3. g \in Groups /\ g' = g
  BY <1>2, Typed DEF Inv, Group
<1>4. /\ x \in Items /\ x \in ItemsOf(mOps[g]) /\ x \notin ItemsOf(mOps'[g])
      /\ \A h \in Groups : \A y : y # x => (y \in ItemsOf(mOps'[h]) <=> y \in ItemsOf(mOps[h]))
      /\ \A h \in Groups : NoTwice(mOps'[h]) /\ ItemsOf(mOps'[h]) \subseteq ItemsOf(mOps[h])
  <2>1. /\ mOps[g] \in Queues(Items, Clients) /\ NoTwice(mOps[g]) /\ Ready(mOps[g])
        /\ \A h \in Groups : mOps'[h] = IF h = g THEN Rest(mOps[g]) ELSE mOps[h]
    BY <1>2, <1>3, Typed DEF Inv, Placed
  <2>2. /\ x \in Items /\ x \in ItemsOf(mOps[g])
        /\ ItemsOf(mOps[g]) = ItemsOf(Rest(mOps[g])) \cup {x}
        /\ NoTwice(Rest(mOps[g])) /\ x \notin ItemsOf(Rest(mOps[g]))
    <3> HIDE DEF g
    <3> QED
      BY <2>1, RestQueue
  <2> HIDE DEF x, g
  <2> QED
    BY <1>3, <2>1, <2>2 DEF Inv, Placed
<1>5. \A h \in Groups : x \notin ItemsOf(mOps'[h])
  BY <1>3, <1>4 DEF Inv, Placed, Alone
<1>6. \A s \in Runners : ~Holds(s, x)
  BY <1>3, <1>4 DEF Inv, Placed, Alone
<1>7. Somewhere(x) /\ Pushed(x) /\ ~Over(x)
  BY <1>3, <1>4 DEF Somewhere, Inv, Passing
<1>8. \A s \in Runners : \A y : Holds(s, y)' <=> Holds(s, y) \/ (s = r /\ y = x)
  BY <1>1, <1>2 DEF Holds, Holding
<1>9. \A y : (Pending(y)' <=> Pending(y)) /\ (Pushed(y)' <=> Pushed(y)) /\ (Over(y)' <=> Over(y))
  BY <1>1, <1>2 DEF Pending, Pushed, Over
<1>10. \A s \in Runners : Group(s)' = Group(s)
  BY <1>2 DEF Group
<1> HIDE DEF x, g
<1>11. \A y \in Items : Alone(y)'
  <2> SUFFICES ASSUME NEW y \in Items  PROVE Alone(y)'
    OBVIOUS
  <2>1. Alone(y)
    BY DEF Inv, Placed
  <2>2. CASE y = x
    BY <1>5, <1>6, <1>8, <2>2 DEF Alone
  <2>3. CASE y # x
    BY <1>4, <1>8, <2>1, <2>3 DEF Alone
  <2> QED
    BY <2>2, <2>3
<1>12. Placed'
  BY <1>4, <1>11 DEF Placed
<1>13. Passing'
  <2>1. \A y \in Items : Somewhere(y)' => Somewhere(y)
    BY <1>4, <1>7, <1>8 DEF Somewhere
  <2>2. \A c, d \in Clients : op'[c] = op'[d] /\ op'[c] # None => c = d
    BY <1>1, <1>2 DEF Inv, Passing
  <2> QED
    BY <1>2, <1>9, <2>1, <2>2 DEF Inv, Passing
<1>14. ASSUME Kept  PROVE Kept'
  <2> SUFFICES ASSUME NEW o \in Ops
               PROVE  /\ \A d \in Clients : op'[d] = o /\ pc'[d] \in Pushing => at'[d] = GroupOf[o]
                      /\ Pushed(o)' =>
                            \/ o \in done'
                            \/ o \in ItemsOf(mOps'[GroupOf[o]])
                            \/ \E s \in Runners : Holds(s, o)' /\ Group(s)' = GroupOf[o]
    BY DEF Kept
  <2>1. \A d \in Clients : op'[d] = o /\ pc'[d] \in Pushing => at'[d] = GroupOf[o]
    BY <1>1, <1>2, <1>14 DEF Kept
  <2>2. o \in Items /\ GroupOf[o] \in Groups
    BY Kinds
  <2>3. CASE o = x
    <3>1. g = GroupOf[o]
      BY <1>3, <1>4, <1>6, <1>7, <1>14, <2>2, <2>3 DEF Kept, Inv, Placed, Alone, Over
    <3> QED
      BY <1>8, <1>10, <2>1, <2>3, <3>1 DEF g
  <2>4. CASE o # x
    BY <1>2, <1>4, <1>8, <1>9, <1>10, <1>14, <2>1, <2>2, <2>4 DEF Kept
  <2> QED
    BY <2>3, <2>4
<1> QED
  BY <1>12, <1>13, <1>14

LEMMA RunMoves ==
    ASSUME Inv, NEW r \in Runners, Run(r)
    PROVE  Placed' /\ Passing' /\ (Kept => Kept')
<1> DEFINE x == op[r]
<1>1. /\ pc \in [Threads -> ClientLabels \cup RunnerLabels] /\ op \in [Threads -> Items \cup {None}]
      /\ r \in Threads /\ r \notin Clients /\ Clients \subseteq Threads /\ Runners \subseteq Threads
  BY Kinds DEF Inv, TypeOK
<1>2. /\ pc[r] = "run" /\ pc'[r] = "remOpq" /\ \A t \in Threads \ {r} : pc'[t] = pc[t]
      /\ done' = done \cup ({x} \cap Ops) /\ signalled' = signalled \cup ({x} \cap Clients)
      /\ UNCHANGED <<mOps, op, at, returned>>
  BY <1>1 DEF Run, Goto
<1>3. x \in Items /\ Holds(r, x)
  BY <1>2 DEF Inv, Running, Holds, Holding
<1>4. Somewhere(x) /\ Pushed(x) /\ Alone(x)
  BY <1>3 DEF Somewhere, Inv, Passing, Placed
<1>5. ~Pending(x)
  BY <1>3, <1>4 DEF Inv, Passing
<1>6. \A s \in Runners : \A y : Holds(s, y)' <=> Holds(s, y) /\ s # r
  BY <1>1, <1>2 DEF Holds, Holding
<1>7. \A y : (Pending(y)' <=> Pending(y)) /\ (Pushed(y)' <=> Pushed(y))
  BY <1>1, <1>2 DEF Pending, Pushed
<1>8. \A y \in Items : Over(y)' <=> Over(y) \/ y = x
  BY <1>2, Kinds DEF Over
<1>9. \A s \in Runners : Group(s)' = Group(s)
  BY <1>2 DEF Group
<1>10. \A y : y = x => ~Somewhere(y)'
  BY <1>2, <1>3, <1>4, <1>6 DEF Alone, Somewhere
<1>11. \A y : Holds(r, y) => y = x
  BY DEF Holds
<1> HIDE DEF x
<1>12. Placed'
  BY <1>2, <1>6 DEF Inv, Placed, Alone
<1>13. Passing'
  <2>1. \A y \in Items : Somewhere(y)' => Somewhere(y) /\ y # x
    BY <1>2, <1>6, <1>10 DEF Somewhere
  <2>2. \A y \in Items : y \in done' => Pushed(y)'
    BY <1>2, <1>4, <1>7 DEF Inv, Passing
  <2>3. \A c, d \in Clients : op'[c] = op'[d] /\ op'[c] # None => c = d
    BY <1>2 DEF Inv, Passing
  <2> QED
    BY <1>5, <1>7, <1>8, <2>1, <2>2, <2>3 DEF Inv, Passing
<1>14. ASSUME Kept  PROVE Kept'
  <2> SUFFICES ASSUME NEW o \in Ops
               PROVE  /\ \A d \in Clients : op'[d] = o /\ pc'[d] \in Pushing => at'[d] = GroupOf[o]
                      /\ Pushed(o)' =>
                            \/ o \in done'
                            \/ o \in ItemsOf(mOps'[GroupOf[o]])
                            \/ \E s \in Runners : Holds(s, o)' /\ Group(s)' = GroupOf[o]
    BY DEF Kept
  <2>1. \A d \in Clients : op'[d] = o /\ pc'[d] \in Pushing => at'[d] = GroupOf[o]
    BY <1>1, <1>2, <1>14 DEF Kept
  <2>2. CASE o = x
    BY <1>2, <2>1, <2>2
  <2>3. CASE o # x
    BY <1>2, <1>6, <1>7, <1>9, <1>11, <1>14, <2>1, <2>3 DEF Kept
  <2> QED
    BY <2>2, <2>3
<1> QED
  BY <1>12, <1>13, <1>14

----------------------------------------------------------------------------
(* What the counters count, before and after a step.                       *)

LEMMA FiniteCounts ==
    /\ \A g : /\ IsFiniteSet(GroupUncounted(g)) /\ Cardinality(GroupUncounted(g)) \in Nat
              /\ IsFiniteSet(GroupPopped(g)) /\ Cardinality(GroupPopped(g)) \in Nat
              /\ IsFiniteSet(InFlight(g)) /\ Cardinality(InFlight(g)) \in Nat
    /\ IsFiniteSet(AllUncounted) /\ Cardinality(AllUncounted) \in Nat
    /\ IsFiniteSet(AllPopped) /\ Cardinality(AllPopped) \in Nat
<1>1. /\ \A g : /\ GroupUncounted(g) \subseteq Clients /\ GroupPopped(g) \subseteq Runners
                /\ InFlight(g) \subseteq Runners
      /\ AllUncounted \subseteq Clients /\ AllPopped \subseteq Runners
  BY DEF GroupUncounted, GroupPopped, InFlight, AllUncounted, AllPopped
<1>2. \A S \in SUBSET Clients : IsFiniteSet(S) /\ Cardinality(S) \in Nat
  BY Finite, FS_Subset, FS_CardinalityType
<1>3. \A S \in SUBSET Runners : IsFiniteSet(S) /\ Cardinality(S) \in Nat
  BY Finite, FS_Subset, FS_CardinalityType
<1> QED
  BY <1>1, <1>2, <1>3

PlacesIn(m) == UNION {{g} \X DOMAIN m[g] : g \in Groups}

LEMMA PlacesType ==
    ASSUME NEW m \in [Groups -> Queues(Items, Clients)]
    PROVE  /\ IsFiniteSet(PlacesIn(m)) /\ Cardinality(PlacesIn(m)) \in Nat
           /\ \A g \in Groups : DOMAIN m[g] = 1 .. Len(m[g]) /\ Len(m[g]) \in Nat
           /\ \A g, i : <<g, i>> \in PlacesIn(m) <=> g \in Groups /\ i \in 1 .. Len(m[g])
           /\ \A p \in PlacesIn(m) : p = <<p[1], p[2]>>
<1>1. \A g \in Groups : DOMAIN m[g] = 1 .. Len(m[g]) /\ Len(m[g]) \in Nat
  BY DEF Queues
<1> DEFINE f == [g \in Groups |-> {g} \X DOMAIN m[g]]
           F == {{g} \X DOMAIN m[g] : g \in Groups}
<1>2. IsFiniteSet(F)
  <2>1. f \in Surjection(Groups, F)
    BY DEF Surjection
  <2> QED
    BY <2>1, Finite, FS_Surjection
<1>3. \A T \in F : IsFiniteSet(T)
  <2> SUFFICES ASSUME NEW g \in Groups  PROVE IsFiniteSet({g} \X DOMAIN m[g])
    OBVIOUS
  <2>1. IsFiniteSet({g}) /\ IsFiniteSet(DOMAIN m[g])
    <3>1. IsFiniteSet({g})
      BY FS_Singleton
    <3>2. IsFiniteSet(1 .. Len(m[g]))
      BY <1>1, FS_Interval
    <3> QED
      BY <1>1, <3>1, <3>2
  <2> QED
    BY <2>1, FS_Product
<1>4. IsFiniteSet(PlacesIn(m)) /\ Cardinality(PlacesIn(m)) \in Nat
  BY <1>2, <1>3, FS_UNION, FS_CardinalityType DEF PlacesIn
<1>5. \A p : p \in PlacesIn(m) <=> \E g \in Groups : p \in {g} \X DOMAIN m[g]
  BY DEF PlacesIn
<1>6. \A g, i : <<g, i>> \in PlacesIn(m) <=> g \in Groups /\ i \in 1 .. Len(m[g])
  BY <1>1, <1>5
<1>7. \A p \in PlacesIn(m) : p = <<p[1], p[2]>>
  BY <1>5
<1> QED
  BY <1>1, <1>4, <1>6, <1>7

LEMMA PlacesSame ==
    ASSUME NEW m \in [Groups -> Queues(Items, Clients)],
           NEW n \in [Groups -> Queues(Items, Clients)],
           \A h \in Groups : Len(n[h]) = Len(m[h])
    PROVE  PlacesIn(n) = PlacesIn(m)
<1>1. \A g, i : <<g, i>> \in PlacesIn(m) <=> <<g, i>> \in PlacesIn(n)
  BY PlacesType
<1>2. \A p \in PlacesIn(m) \cup PlacesIn(n) : p = <<p[1], p[2]>>
  BY PlacesType
<1> QED
  BY <1>1, <1>2

LEMMA PlacesAdded ==
    ASSUME NEW m \in [Groups -> Queues(Items, Clients)],
           NEW n \in [Groups -> Queues(Items, Clients)],
           NEW g \in Groups, Len(n[g]) = Len(m[g]) + 1,
           \A h \in Groups \ {g} : Len(n[h]) = Len(m[h])
    PROVE  Cardinality(PlacesIn(n)) = Cardinality(PlacesIn(m)) + 1
<1> DEFINE p == <<g, Len(m[g]) + 1>>
<1>1. Len(m[g]) \in Nat
  BY PlacesType
<1>2. \A h, i : <<h, i>> \in PlacesIn(n) <=> <<h, i>> \in PlacesIn(m) \/ (h = g /\ i = Len(m[g]) + 1)
  <2>1. \A h, i : <<h, i>> \in PlacesIn(n) <=> h \in Groups /\ i \in 1 .. Len(n[h])
    BY PlacesType
  <2>2. \A h, i : <<h, i>> \in PlacesIn(m) <=> h \in Groups /\ i \in 1 .. Len(m[h])
    BY PlacesType
  <2>3. \A i : i \in 1 .. (Len(m[g]) + 1) <=> i \in 1 .. Len(m[g]) \/ i = Len(m[g]) + 1
    BY <1>1
  <2>4. \A h \in Groups : \A i : i \in 1 .. Len(n[h])
                            <=> i \in 1 .. Len(m[h]) \/ (h = g /\ i = Len(m[g]) + 1)
    BY <2>3
  <2> QED
    BY <2>1, <2>2, <2>4
<1>3. \A q \in PlacesIn(m) \cup PlacesIn(n) : q = <<q[1], q[2]>>
  BY PlacesType
<1>4. p \notin PlacesIn(m)
  BY <1>1, PlacesType
<1>5. \A q : q \in PlacesIn(n) <=> q \in PlacesIn(m) \/ q = p
  <2>1. ASSUME NEW q \in PlacesIn(n)  PROVE q \in PlacesIn(m) \/ q = p
    BY <1>2, <1>3
  <2>2. p \in PlacesIn(n)
    BY <1>2
  <2>3. ASSUME NEW q \in PlacesIn(m)  PROVE q \in PlacesIn(n)
    BY <1>2, <1>3
  <2> QED
    BY <2>1, <2>2, <2>3
<1> HIDE DEF p
<1>6. PlacesIn(n) = PlacesIn(m) \cup {p}
  BY <1>5
<1>7. IsFiniteSet(PlacesIn(m))
  BY PlacesType
<1> QED
  BY <1>4, <1>6, <1>7, FS_AddElement

\* A step that no counter takes notice of.
Uncountable ==
    /\ mOps' \in [Groups -> Queues(Items, Clients)]
    /\ \A g \in Groups : Len(mOps'[g]) = Len(mOps[g])
    /\ UNCHANGED <<mOpCounter, mOpsInFlightCounter>>
    /\ \A g \in Groups : /\ GroupUncounted(g)' = GroupUncounted(g)
                         /\ GroupPopped(g)' = GroupPopped(g)
                         /\ InFlight(g)' = InFlight(g)
    /\ AllUncounted' = AllUncounted /\ AllPopped' = AllPopped

LEMMA UncountableKeeps ==
    ASSUME TypeOK, Counted, Uncountable  PROVE Counted'
<1>1. Places = PlacesIn(mOps) /\ Places' = PlacesIn(mOps')
  BY DEF Places, PlacesIn
<1>2. Places' = Places
  BY <1>1, Typed, PlacesSame DEF Uncountable
<1> QED
  BY <1>2 DEF Uncountable, Counted

LEMMA UncountableClients ==
    ASSUME TypeOK, Calls, NEW c \in Clients, InCall(c) \/ Call(c) \/ \E s \in Synchros : SpuriousWakeup(c, s),
           ~PushClaim(c), ~PushAddToGroup(c), ~PushAddToOpq(c)
    PROVE  Uncountable
<1>1. /\ c \in Threads /\ c \notin Runners /\ Clients \subseteq Threads /\ Runners \subseteq Threads
      /\ pc \in [Threads -> ClientLabels \cup RunnerLabels]
      /\ at \in [Threads -> Synchros \cup DOMAIN GroupOrder]
  BY Kinds DEF TypeOK
<1>2. /\ \A t \in Threads \ {c} : pc'[t] = pc[t] /\ at'[t] = at[t]
      /\ UNCHANGED <<mOpCounter, mOpsInFlightCounter>>
  BY <1>1 DEF InCall, Call, StartPush, StartSync, StartDrain, Destroy, Throttle, PushPublish,
     PushNotify, Await, Drain, Joining, SpuriousWakeup, WaitOnCondition, Goto, counters
<1>3. /\ mOps' \in [Groups -> Queues(Items, Clients)]
      /\ \A g \in Groups : Len(mOps'[g]) = Len(mOps[g])
  <2>1. CASE PushPublish(c)
    <3>1. mOps' = [mOps EXCEPT ![at[c]] = Published(@, c)]
      BY <2>1 DEF PushPublish
    <3>2. \A g \in Groups : Published(mOps[g], c) \in Queues(Items, Clients)
                         /\ Len(Published(mOps[g], c)) = Len(mOps[g])
      BY Typed, PublishedQueue
    <3> QED
      BY <3>1, <3>2, Typed
  <2>2. CASE ~PushPublish(c)
    <3>1. mOps' = mOps
      BY <2>2 DEF InCall, Call, StartPush, StartSync, StartDrain, Destroy, Throttle,
         PushNotify, Await, Drain, Joining, SpuriousWakeup
    <3> QED
      BY <3>1, Typed
  <2> QED
    BY <2>1, <2>2
<1>4. /\ pc'[c] \in {"publish", "addGroup"} <=> pc[c] \in {"publish", "addGroup"}
      /\ pc'[c] \in {"publish", "addGroup", "addOpq"} <=> pc[c] \in {"publish", "addGroup", "addOpq"}
      /\ pc[c] \in {"publish", "addGroup"} => at'[c] = at[c]
  BY <1>1 DEF InCall, Call, StartPush, StartSync, StartDrain, Destroy, Free, Throttle, PushPublish,
     PushNotify, Await, Drain, Joining, SpuriousWakeup, WaitOnCondition, Goto
<1>5. \A r \in Runners : Group(r)' = Group(r) /\ pc'[r] = pc[r]
  BY <1>1, <1>2 DEF Group
<1>6. \A g \in Groups : GroupUncounted(g)' = GroupUncounted(g)
  BY <1>1, <1>2, <1>4 DEF GroupUncounted
<1>7. AllUncounted' = AllUncounted
  BY <1>1, <1>2, <1>4 DEF AllUncounted
<1>8. /\ \A g \in Groups : GroupPopped(g)' = GroupPopped(g) /\ InFlight(g)' = InFlight(g)
      /\ AllPopped' = AllPopped
  BY <1>5 DEF GroupPopped, InFlight, AllPopped
<1> QED
  BY <1>2, <1>3, <1>6, <1>7, <1>8 DEF Uncountable

LEMMA UncountableRunners ==
    ASSUME TypeOK, NEW r \in Runners,
           \/ (r \in Workers /\ Work(r)) \/ Inspect(r) \/ NumOps(r)
           \/ (TryPop(r) /\ ~Ready(mOps[Group(r)])) \/ Run(r)
    PROVE  Uncountable
<1>1. /\ r \in Threads /\ r \notin Clients /\ Clients \subseteq Threads /\ Runners \subseteq Threads
      /\ pc \in [Threads -> ClientLabels \cup RunnerLabels]
      /\ at \in [Threads -> Synchros \cup DOMAIN GroupOrder]
  BY Kinds DEF TypeOK
<1>2. /\ \A t \in Threads \ {r} : pc'[t] = pc[t] /\ at'[t] = at[t]
      /\ UNCHANGED <<mOps, mOpCounter, mOpsInFlightCounter>>
  BY <1>1 DEF Work, WorkerStart, WorkerTest, WorkerWait, WorkerWoken, WorkerLeave, Inspect, NumOps,
     TryPop, Run, Advance, Returned, Goto, counters
<1>3. /\ pc'[r] \in {"count", "run", "remOpq"} <=> pc[r] \in {"count", "run", "remOpq"}
      /\ pc'[r] \in {"count", "run", "remOpq", "remGroup"}
            <=> pc[r] \in {"count", "run", "remOpq", "remGroup"}
      /\ pc'[r] \in {"run", "remOpq", "remGroup", "uncount"}
            <=> pc[r] \in {"run", "remOpq", "remGroup", "uncount"}
      /\ pc[r] \in {"count", "run", "remOpq", "remGroup", "uncount"} => at'[r] = at[r]
  BY <1>1 DEF Work, WorkerStart, WorkerTest, WorkerWait, WorkerWoken, WorkerLeave, Inspect, NumOps,
     TryPop, Run, Advance, Returned, Goto
<1>4. \A s \in Runners \ {r} : Group(s)' = Group(s) /\ pc'[s] = pc[s]
  BY <1>1, <1>2 DEF Group
<1>5. pc[r] \in {"count", "run", "remOpq", "remGroup", "uncount"} => Group(r)' = Group(r)
  BY <1>3 DEF Group
<1>6. \A g \in Groups : GroupUncounted(g)' = GroupUncounted(g)
  BY <1>1, <1>2 DEF GroupUncounted
<1>7. AllUncounted' = AllUncounted
  BY <1>1, <1>2 DEF AllUncounted
<1>8. \A g \in Groups : GroupPopped(g)' = GroupPopped(g)
  BY <1>3, <1>4, <1>5 DEF GroupPopped
<1>9. \A g \in Groups : InFlight(g)' = InFlight(g)
  BY <1>3, <1>4, <1>5 DEF InFlight
<1>10. AllPopped' = AllPopped
  BY <1>3, <1>4 DEF AllPopped
<1> QED
  BY <1>2, <1>6, <1>7, <1>8, <1>9, <1>10, Typed DEF Uncountable

\* The steps of a push that count: in the queue, then in the group, then in
\* the Opq.
LEMMA PushCounted ==
    ASSUME Inv, NEW c \in Clients, PushClaim(c) \/ PushAddToGroup(c) \/ PushAddToOpq(c)
    PROVE  Counted' /\ mOps' \in [Groups -> Queues(Items, Clients)]
<1>1. /\ c \in Threads /\ c \notin Runners /\ Clients \subseteq Threads /\ Runners \subseteq Threads
      /\ pc \in [Threads -> ClientLabels \cup RunnerLabels]
      /\ mOpCounter \in [Synchros -> Int]
  BY Kinds DEF Inv, TypeOK
<1>2. /\ \A t \in Threads \ {c} : pc'[t] = pc[t]
      /\ at' = at /\ mOpsInFlightCounter' = mOpsInFlightCounter
  BY <1>1 DEF PushClaim, PushAddToGroup, PushAddToOpq, Goto, counters
<1>3. /\ \A r \in Runners : Group(r)' = Group(r) /\ pc'[r] = pc[r]
      /\ pc[c] \in Pushing
  BY <1>1, <1>2 DEF Group, PushClaim, PushAddToGroup, PushAddToOpq, Pushing
<1>4. at[c] \in Groups /\ op[c] \in Items
  BY <1>3, Kinds DEF Inv, Calls
<1>g. PICK g \in Groups : g = at[c]
  BY <1>4
<1>5. /\ \A h \in Groups : GroupPopped(h)' = GroupPopped(h) /\ InFlight(h)' = InFlight(h)
      /\ AllPopped' = AllPopped
  BY <1>3 DEF GroupPopped, InFlight, AllPopped
<1>6. \A h \in Groups \ {g} : GroupUncounted(h)' = GroupUncounted(h)
  BY <1>1, <1>2, <1>g DEF GroupUncounted
<1>7. Places = PlacesIn(mOps) /\ Places' = PlacesIn(mOps')
  BY DEF Places, PlacesIn
<1>8. /\ mOps \in [Groups -> Queues(Items, Clients)] /\ TypeOK /\ Counted
      /\ \A h \in Groups : Len(mOps[h]) \in Nat
      /\ Cardinality(PlacesIn(mOps)) \in Nat
  BY Typed, PlacesType DEF Inv
<1>9. CASE PushClaim(c)
  <2>1. /\ pc[c] = "claim" /\ pc'[c] = "publish"
        /\ mOps' = [mOps EXCEPT ![g] = Claimed(@, c, op[c])]
        /\ mOpCounter' = mOpCounter
    BY <1>1, <1>9, <1>g DEF PushClaim, Goto, counters
  <2>2. mOps[g] \in Queues(Items, Clients)
    BY <1>4, <1>8
  <2>3. Claimed(mOps[g], c, op[c]) \in Queues(Items, Clients)
            /\ Len(Claimed(mOps[g], c, op[c])) = Len(mOps[g]) + 1
    BY <1>4, <2>2, ClaimedQueue
  <2>4. /\ mOps' \in [Groups -> Queues(Items, Clients)] /\ Len(mOps'[g]) = Len(mOps[g]) + 1
        /\ \A h \in Groups \ {g} : mOps'[h] = mOps[h]
    BY <1>4, <1>8, <2>1, <2>3
  <2>5. Cardinality(Places') = Cardinality(Places) + 1
    BY <1>4, <1>7, <1>8, <2>4, PlacesAdded
  <2>6. GroupUncounted(g)' = GroupUncounted(g) \cup {c} /\ c \notin GroupUncounted(g)
    BY <1>1, <1>2, <1>g, <2>1 DEF GroupUncounted
  <2>7. AllUncounted' = AllUncounted \cup {c} /\ c \notin AllUncounted
    BY <1>1, <1>2, <2>1 DEF AllUncounted
  <2>8. Cardinality(GroupUncounted(g)') = Cardinality(GroupUncounted(g)) + 1
    BY <2>6, FiniteCounts, FS_AddElement
  <2>9. Cardinality(AllUncounted') = Cardinality(AllUncounted) + 1
    BY <2>7, FiniteCounts, FS_AddElement
  <2>10. ASSUME NEW h \in Groups
         PROVE  /\ mOpCounter'[h] = Len(mOps'[h]) - Cardinality(GroupUncounted(h)')
                                                  + Cardinality(GroupPopped(h)')
                /\ mOpsInFlightCounter'[h] = Cardinality(InFlight(h)')
    <3>1. CASE h = g
      BY <1>2, <1>5, <1>8, <2>1, <2>4, <2>8, <3>1, FiniteCounts DEF Counted
    <3>2. CASE h # g
      BY <1>2, <1>5, <1>6, <1>8, <2>1, <2>4, <3>2 DEF Counted
    <3> QED
      BY <3>1, <3>2
  <2>11. mOpCounter'[TheOpq] =
            Cardinality(Places') - Cardinality(AllUncounted') + Cardinality(AllPopped')
    BY <1>5, <1>7, <1>8, <2>1, <2>5, <2>9, FiniteCounts DEF Counted
  <2> QED
    BY <2>4, <2>10, <2>11 DEF Counted
<1>10. CASE PushAddToGroup(c)
  <2>1. /\ pc[c] = "addGroup" /\ pc'[c] = "addOpq" /\ mOps' = mOps
        /\ mOpCounter' = [mOpCounter EXCEPT ![g] = @ + 1]
    BY <1>1, <1>10, <1>g DEF PushAddToGroup, AddItem, Goto
  <2>2. /\ mOpCounter'[g] = mOpCounter[g] + 1
        /\ \A h \in Synchros \ {g} : mOpCounter'[h] = mOpCounter[h]
    BY <1>1, <1>4, <2>1, Kinds
  <2>3. GroupUncounted(g)' = GroupUncounted(g) \ {c} /\ c \in GroupUncounted(g)
    BY <1>1, <1>2, <1>g, <2>1 DEF GroupUncounted
  <2>4. Cardinality(GroupUncounted(g)') = Cardinality(GroupUncounted(g)) - 1
    BY <2>3, FiniteCounts, FS_RemoveElement
  <2>5. AllUncounted' = AllUncounted
    BY <1>1, <1>2, <2>1 DEF AllUncounted
  <2>6. ASSUME NEW h \in Groups
        PROVE  /\ mOpCounter'[h] = Len(mOps'[h]) - Cardinality(GroupUncounted(h)')
                                                 + Cardinality(GroupPopped(h)')
               /\ mOpsInFlightCounter'[h] = Cardinality(InFlight(h)')
    <3>1. CASE h = g
      <4>1. /\ mOpCounter[g] = Len(mOps[g]) - Cardinality(GroupUncounted(g))
                                              + Cardinality(GroupPopped(g))
            /\ mOpsInFlightCounter[g] = Cardinality(InFlight(g))
        BY <1>8 DEF Counted
      <4>2. /\ Cardinality(GroupUncounted(g)) \in Nat /\ Cardinality(GroupPopped(g)) \in Nat
            /\ Len(mOps[g]) \in Nat
        BY <1>8, FiniteCounts
      <4>3. mOpCounter'[g] = Len(mOps'[g]) - Cardinality(GroupUncounted(g)')
                                           + Cardinality(GroupPopped(g)')
        BY <1>5, <2>1, <2>2, <2>4, <4>1, <4>2
      <4> QED
        BY <1>2, <1>5, <3>1, <4>1, <4>3
    <3>2. CASE h # g
      BY <1>2, <1>5, <1>6, <1>8, <2>1, <2>2, <3>2, Kinds DEF Counted
    <3> QED
      BY <3>1, <3>2
  <2>7. mOpCounter'[TheOpq] =
            Cardinality(Places') - Cardinality(AllUncounted') + Cardinality(AllPopped')
    BY <1>4, <1>5, <1>7, <1>8, <2>1, <2>2, <2>5, Kinds DEF Counted
  <2> QED
    BY <1>8, <2>1, <2>6, <2>7 DEF Counted
<1>11. CASE PushAddToOpq(c)
  <2>1. /\ pc[c] = "addOpq" /\ pc'[c] = "notify" /\ mOps' = mOps
        /\ mOpCounter' = [mOpCounter EXCEPT ![TheOpq] = @ + 1]
    BY <1>1, <1>11 DEF PushAddToOpq, AddItem, Goto
  <2>2. /\ mOpCounter'[TheOpq] = mOpCounter[TheOpq] + 1
        /\ \A h \in Groups : mOpCounter'[h] = mOpCounter[h]
    BY <1>1, <2>1, Kinds
  <2>3. AllUncounted' = AllUncounted \ {c} /\ c \in AllUncounted
    BY <1>1, <1>2, <2>1 DEF AllUncounted
  <2>4. Cardinality(AllUncounted') = Cardinality(AllUncounted) - 1
    BY <2>3, FiniteCounts, FS_RemoveElement
  <2>5. \A h \in Groups : GroupUncounted(h)' = GroupUncounted(h)
    BY <1>1, <1>2, <2>1 DEF GroupUncounted
  <2>6. ASSUME NEW h \in Groups
        PROVE  /\ mOpCounter'[h] = Len(mOps'[h]) - Cardinality(GroupUncounted(h)')
                                                 + Cardinality(GroupPopped(h)')
               /\ mOpsInFlightCounter'[h] = Cardinality(InFlight(h)')
    BY <1>2, <1>5, <1>8, <2>1, <2>2, <2>5 DEF Counted
  <2>7. mOpCounter'[TheOpq] =
            Cardinality(Places') - Cardinality(AllUncounted') + Cardinality(AllPopped')
    BY <1>5, <1>7, <1>8, <2>1, <2>2, <2>4, FiniteCounts DEF Counted
  <2> QED
    BY <1>8, <2>1, <2>6, <2>7 DEF Counted
<1> QED
  BY <1>9, <1>10, <1>11

\* The steps of Process that count: out of the queue, in flight, then out of
\* the Opq, of the group and of those in flight.
LEMMA ProcessCounted ==
    ASSUME Inv, NEW r \in Runners,
           \/ (TryPop(r) /\ Ready(mOps[Group(r)])) \/ CountInFlight(r)
           \/ RemoveFromOpq(r) \/ RemoveFromGroup(r) \/ UncountInFlight(r)
    PROVE  Counted' /\ mOps' \in [Groups -> Queues(Items, Clients)]
<1>1. /\ r \in Threads /\ r \notin Clients /\ Clients \subseteq Threads /\ Runners \subseteq Threads
      /\ pc \in [Threads -> ClientLabels \cup RunnerLabels]
      /\ at \in [Threads -> Synchros \cup DOMAIN GroupOrder]
      /\ mOpCounter \in [Synchros -> Int] /\ mOpsInFlightCounter \in [Groups -> Nat]
  BY Kinds DEF Inv, TypeOK
<1>2. \A t \in Threads \ {r} : pc'[t] = pc[t] /\ at'[t] = at[t]
  BY <1>1 DEF TryPop, CountInFlight, RemoveFromOpq, RemoveFromGroup, UncountInFlight,
     Returned, Goto
<1>3. Group(r) \in Groups
  BY Typed DEF Inv
<1>g. PICK g \in Groups : g = Group(r)
  BY <1>3
<1>4. \A s \in Runners \ {r} : Group(s)' = Group(s) /\ pc'[s] = pc[s]
  BY <1>1, <1>2 DEF Group
<1>5. /\ \A h \in Groups : GroupUncounted(h)' = GroupUncounted(h)
      /\ AllUncounted' = AllUncounted
  BY <1>1, <1>2 DEF GroupUncounted, AllUncounted
<1>6. pc[r] # "uncount" => Group(r)' = Group(r)
  BY <1>1 DEF TryPop, CountInFlight, RemoveFromOpq, RemoveFromGroup, UncountInFlight, Group
<1>7. Places = PlacesIn(mOps) /\ Places' = PlacesIn(mOps')
  BY DEF Places, PlacesIn
<1>8. /\ mOps \in [Groups -> Queues(Items, Clients)] /\ TypeOK /\ Counted
      /\ \A h \in Groups : Len(mOps[h]) \in Nat
      /\ Cardinality(PlacesIn(mOps)) \in Nat
  BY Typed, PlacesType DEF Inv
<1>9. /\ mOpCounter[g] = Len(mOps[g]) - Cardinality(GroupUncounted(g))
                                      + Cardinality(GroupPopped(g))
      /\ mOpsInFlightCounter[g] = Cardinality(InFlight(g))
      /\ Cardinality(GroupUncounted(g)) \in Nat /\ Cardinality(GroupPopped(g)) \in Nat
      /\ Cardinality(InFlight(g)) \in Nat
      /\ mOpCounter[TheOpq] =
            Cardinality(Places) - Cardinality(AllUncounted) + Cardinality(AllPopped)
      /\ Cardinality(AllUncounted) \in Nat /\ Cardinality(AllPopped) \in Nat
  BY <1>8, FiniteCounts DEF Counted
\* What is left to show once the sets and counters are known.
<1>10. SUFFICES
          /\ mOps' \in [Groups -> Queues(Items, Clients)]
          /\ \A h \in Groups \ {g} :
                /\ mOpCounter'[h] = mOpCounter[h] /\ Len(mOps'[h]) = Len(mOps[h])
                /\ mOpsInFlightCounter'[h] = mOpsInFlightCounter[h]
                /\ GroupPopped(h)' = GroupPopped(h) /\ InFlight(h)' = InFlight(h)
          /\ mOpCounter'[g] = Len(mOps'[g]) - Cardinality(GroupUncounted(g)')
                                            + Cardinality(GroupPopped(g)')
          /\ mOpsInFlightCounter'[g] = Cardinality(InFlight(g)')
          /\ mOpCounter'[TheOpq] =
                Cardinality(Places') - Cardinality(AllUncounted') + Cardinality(AllPopped')
  BY <1>5, <1>8 DEF Counted
<1>11. CASE TryPop(r) /\ Ready(mOps[Group(r)])
  <2>1. /\ pc[r] = "pop" /\ pc'[r] = "count" /\ Group(r)' = g
        /\ mOps' = [mOps EXCEPT ![g] = Rest(mOps[g])]
        /\ UNCHANGED <<mOpCounter, mOpsInFlightCounter>>
    BY <1>1, <1>6, <1>11, <1>g DEF TryPop, Goto, counters
  <2>2. /\ Rest(mOps[g]) \in Queues(Items, Clients) /\ Len(mOps[g]) > 0
        /\ Len(Rest(mOps[g])) = Len(mOps[g]) - 1
    <3>1. mOps[g] \in Queues(Items, Clients) /\ Ready(mOps[g])
      BY <1>8, <1>11, <1>g
    <3> QED
      BY <3>1, RestQueue
  <2>3. /\ mOps' \in [Groups -> Queues(Items, Clients)] /\ Len(mOps'[g]) = Len(mOps[g]) - 1
        /\ \A h \in Groups \ {g} : mOps'[h] = mOps[h]
    BY <1>8, <2>1, <2>2
  <2>4. Len(mOps[g]) = Len(mOps'[g]) + 1
    BY <1>8, <2>3
  <2>5. Cardinality(Places) = Cardinality(Places') + 1
    BY <1>7, <1>8, <2>3, <2>4, PlacesAdded
  <2>6. Cardinality(Places') \in Nat
    BY <1>7, <2>3, PlacesType
  <2>7. GroupPopped(g)' = GroupPopped(g) \cup {r} /\ r \notin GroupPopped(g)
    BY <1>4, <1>g, <2>1 DEF GroupPopped
  <2>8. AllPopped' = AllPopped \cup {r} /\ r \notin AllPopped
    BY <1>4, <2>1 DEF AllPopped
  <2>9. Cardinality(GroupPopped(g)') = Cardinality(GroupPopped(g)) + 1
    BY <2>7, FiniteCounts, FS_AddElement
  <2>10. Cardinality(AllPopped') = Cardinality(AllPopped) + 1
    BY <2>8, FiniteCounts, FS_AddElement
  <2>11. \A h \in Groups \ {g} : GroupPopped(h)' = GroupPopped(h)
    BY <1>4, <1>g, <2>1 DEF GroupPopped
  <2>12. \A h \in Groups : InFlight(h)' = InFlight(h)
    BY <1>4, <2>1 DEF InFlight
  <2>13. mOpCounter'[g] = Len(mOps'[g]) - Cardinality(GroupUncounted(g)')
                                        + Cardinality(GroupPopped(g)')
    <3>1. mOpCounter'[g] = mOpCounter[g] /\ GroupUncounted(g)' = GroupUncounted(g)
      BY <1>5, <2>1
    <3>2. Len(mOps[g]) \in Nat
      BY <1>8
    <3> QED
      <4>1. /\ mOpCounter'[g] = Len(mOps[g]) - Cardinality(GroupUncounted(g))
                                               + Cardinality(GroupPopped(g))
            /\ Cardinality(GroupUncounted(g)') = Cardinality(GroupUncounted(g))
            /\ Cardinality(GroupUncounted(g)) \in Nat /\ Cardinality(GroupPopped(g)) \in Nat
        BY <1>9, <3>1
      <4>2. Len(mOps'[g]) = Len(mOps[g]) - 1
        BY <2>3
      <4>3. \A l, u, p \in Nat : l - u + p = (l - 1) - u + (p + 1)
        OBVIOUS
      <4>4. Len(mOps'[g]) - Cardinality(GroupUncounted(g)') + Cardinality(GroupPopped(g)')
                = (Len(mOps[g]) - 1) - Cardinality(GroupUncounted(g))
                    + (Cardinality(GroupPopped(g)) + 1)
        BY <2>9, <4>1, <4>2, Zenon
      <4>5. Len(mOps[g]) - Cardinality(GroupUncounted(g)) + Cardinality(GroupPopped(g))
                = (Len(mOps[g]) - 1) - Cardinality(GroupUncounted(g))
                    + (Cardinality(GroupPopped(g)) + 1)
        BY <3>2, <4>1, <4>3, Zenon
      <4> QED
        BY <4>1, <4>4, <4>5, Zenon
  <2>14. mOpCounter'[TheOpq] =
            Cardinality(Places') - Cardinality(AllUncounted') + Cardinality(AllPopped')
    BY <1>5, <1>9, <2>1, <2>5, <2>6, <2>10
  <2> QED
    BY <1>9, <2>1, <2>3, <2>11, <2>12, <2>13, <2>14
<1>12. CASE CountInFlight(r)
  <2>1. /\ pc[r] = "count" /\ pc'[r] = "run" /\ Group(r)' = g
        /\ mOps' = mOps /\ mOpCounter' = mOpCounter
        /\ mOpsInFlightCounter' = [mOpsInFlightCounter EXCEPT ![g] = @ + 1]
    BY <1>1, <1>6, <1>12, <1>g DEF CountInFlight, Goto
  <2>2. InFlight(g)' = InFlight(g) \cup {r} /\ r \notin InFlight(g)
    BY <1>4, <1>g, <2>1 DEF InFlight
  <2>3. Cardinality(InFlight(g)') = Cardinality(InFlight(g)) + 1
    BY <2>2, FiniteCounts, FS_AddElement
  <2>4. \A h \in Groups \ {g} : InFlight(h)' = InFlight(h)
    BY <1>4, <1>g, <2>1 DEF InFlight
  <2>5. AllPopped' = AllPopped /\ \A h \in Groups : GroupPopped(h)' = GroupPopped(h)
    BY <1>4, <1>g, <2>1 DEF AllPopped, GroupPopped
  <2>6. /\ mOpsInFlightCounter'[g] = mOpsInFlightCounter[g] + 1
        /\ \A h \in Groups \ {g} : mOpsInFlightCounter'[h] = mOpsInFlightCounter[h]
    BY <1>1, <2>1
  <2> QED
    BY <1>5, <1>7, <1>8, <1>9, <2>1, <2>3, <2>4, <2>5, <2>6
<1>13. CASE RemoveFromOpq(r)
  <2>1. /\ pc[r] = "remOpq" /\ pc'[r] = "remGroup" /\ Group(r)' = g
        /\ mOps' = mOps /\ mOpsInFlightCounter' = mOpsInFlightCounter
        /\ mOpCounter' = [mOpCounter EXCEPT ![TheOpq] = @ - 1]
    BY <1>1, <1>6, <1>13, <1>g DEF RemoveFromOpq, RemItem, Goto
  <2>2. AllPopped' = AllPopped \ {r} /\ r \in AllPopped
    BY <1>4, <2>1 DEF AllPopped
  <2>3. Cardinality(AllPopped') = Cardinality(AllPopped) - 1
    BY <2>2, FiniteCounts, FS_RemoveElement
  <2>4. \A h \in Groups : GroupPopped(h)' = GroupPopped(h) /\ InFlight(h)' = InFlight(h)
    BY <1>4, <1>g, <2>1 DEF GroupPopped, InFlight
  <2>5. /\ mOpCounter'[TheOpq] = mOpCounter[TheOpq] - 1
        /\ \A h \in Groups : mOpCounter'[h] = mOpCounter[h]
    BY <1>1, <2>1, Kinds
  <2>6. Cardinality(Places) \in Nat /\ Places' = Places
    BY <1>7, <1>8, <2>1
  <2>7. mOpCounter'[TheOpq] =
            Cardinality(Places') - Cardinality(AllUncounted') + Cardinality(AllPopped')
    BY <1>5, <1>9, <2>3, <2>5, <2>6
  <2> QED
    BY <1>5, <1>8, <1>9, <2>1, <2>4, <2>5, <2>7
<1>14. CASE RemoveFromGroup(r)
  <2>1. /\ pc[r] = "remGroup" /\ pc'[r] = "uncount" /\ Group(r)' = g
        /\ mOps' = mOps /\ mOpsInFlightCounter' = mOpsInFlightCounter
        /\ mOpCounter' = [mOpCounter EXCEPT ![g] = @ - 1]
    BY <1>1, <1>6, <1>14, <1>g DEF RemoveFromGroup, RemItem, Goto
  <2>2. GroupPopped(g)' = GroupPopped(g) \ {r} /\ r \in GroupPopped(g)
    BY <1>4, <1>g, <2>1 DEF GroupPopped
  <2>3. Cardinality(GroupPopped(g)') = Cardinality(GroupPopped(g)) - 1
    BY <2>2, FiniteCounts, FS_RemoveElement
  <2>4. \A h \in Groups \ {g} : GroupPopped(h)' = GroupPopped(h)
    BY <1>4, <1>g, <2>1 DEF GroupPopped
  <2>5. AllPopped' = AllPopped /\ \A h \in Groups : InFlight(h)' = InFlight(h)
    BY <1>4, <1>g, <2>1 DEF AllPopped, InFlight
  <2>6. /\ mOpCounter'[g] = mOpCounter[g] - 1 /\ mOpCounter'[TheOpq] = mOpCounter[TheOpq]
        /\ \A h \in Groups \ {g} : mOpCounter'[h] = mOpCounter[h]
    BY <1>1, <2>1, Kinds
  <2>7. mOpCounter'[g] = Len(mOps'[g]) - Cardinality(GroupUncounted(g)')
                                       + Cardinality(GroupPopped(g)')
    BY <1>5, <1>8, <1>9, <2>1, <2>3, <2>6
  <2>8. Places' = Places
    BY <1>7, <2>1
  <2> QED
    BY <1>5, <1>8, <1>9, <2>1, <2>4, <2>5, <2>6, <2>7, <2>8
<1>15. CASE UncountInFlight(r)
  <2>1. /\ pc[r] = "uncount" /\ pc'[r] \in {"test", "scan"}
        /\ mOps' = mOps /\ mOpCounter' = mOpCounter
        /\ mOpsInFlightCounter' = [mOpsInFlightCounter EXCEPT ![g] = @ - 1]
    BY <1>1, <1>15, <1>g DEF UncountInFlight, Returned, Goto
  <2>2. InFlight(g)' = InFlight(g) \ {r} /\ r \in InFlight(g)
    BY <1>4, <1>g, <2>1 DEF InFlight
  <2>3. Cardinality(InFlight(g)') = Cardinality(InFlight(g)) - 1
    BY <2>2, FiniteCounts, FS_RemoveElement
  <2>4. \A h \in Groups \ {g} : InFlight(h)' = InFlight(h)
    BY <1>4, <1>g, <2>1 DEF InFlight
  <2>5. AllPopped' = AllPopped /\ \A h \in Groups : GroupPopped(h)' = GroupPopped(h)
    BY <1>4, <2>1 DEF AllPopped, GroupPopped
  <2>6. /\ mOpsInFlightCounter'[g] = mOpsInFlightCounter[g] - 1
        /\ \A h \in Groups \ {g} : mOpsInFlightCounter'[h] = mOpsInFlightCounter[h]
    BY <1>1, <2>1
  <2>7. Places' = Places
    BY <1>7, <2>1
  <2> QED
    BY <1>5, <1>8, <1>9, <2>1, <2>3, <2>4, <2>5, <2>6, <2>7
<1> QED
  BY <1>11, <1>12, <1>13, <1>14, <1>15

----------------------------------------------------------------------------
(* Every step keeps the invariant.                                         *)

LEMMA CallsStep ==
    ASSUME TypeOK, Calls, Next  PROVE Calls'
<1> SUFFICES ASSUME NEW d \in Clients
             PROVE  /\ pc'[d] \in ClientLabels
                    /\ op'[d] \in Ops \cup {d, None}
                    /\ pc'[d] \in Pushing => op'[d] # None /\ at'[d] \in Groups
                    /\ pc'[d] = "await" => op'[d] = d
  BY DEF Calls
<1>1. /\ d \in Threads /\ d \notin Runners /\ Clients \subseteq Threads /\ Runners \subseteq Threads
      /\ pc \in [Threads -> ClientLabels \cup RunnerLabels] /\ op \in [Threads -> Items \cup {None}]
      /\ at \in [Threads -> Synchros \cup DOMAIN GroupOrder]
  BY Kinds DEF TypeOK
<1>2. CASE UNCHANGED <<pc[d], op[d], at[d]>>
  BY <1>2 DEF Calls
<1>3. ASSUME NEW c \in Clients, InCall(c) \/ Call(c) \/ \E s \in Synchros : SpuriousWakeup(c, s)
      PROVE  \/ UNCHANGED <<pc[d], op[d], at[d]>>
             \/ c = d
  BY <1>1, <1>3 DEF InCall, Call, StartPush, StartSync, StartDrain, Destroy, Throttle, PushClaim,
     PushPublish, PushAddToGroup, PushAddToOpq, PushNotify, Await, Drain, Joining,
     SpuriousWakeup, WaitOnCondition, Goto
<1>4. ASSUME NEW r \in Runners, (r \in Workers /\ Work(r)) \/ Process(r)
      PROVE  UNCHANGED <<pc[d], op[d], at[d]>>
  BY <1>1, <1>4 DEF Work, WorkerStart, WorkerTest, WorkerWait, WorkerWoken, WorkerLeave, Process,
     Inspect, NumOps, TryPop, CountInFlight, Run, RemoveFromOpq, RemoveFromGroup,
     UncountInFlight, Advance, Returned, Goto
<1>5. CASE \E s \in Synchros : SpuriousWakeup(d, s)
  BY <1>2, <1>5 DEF SpuriousWakeup
<1>6. CASE Call(d)
  BY <1>1, <1>6, Kinds DEF Call, StartPush, StartSync, StartDrain, Destroy, Goto, Calls,
     Pushing, ClientLabels
<1>7. CASE InCall(d)
  BY <1>1, <1>7, Kinds DEF InCall, Throttle, PushClaim, PushPublish, PushAddToGroup,
     PushAddToOpq, PushNotify, Await, Drain, Joining, WaitOnCondition, Goto, Calls, Pushing,
     ClientLabels
<1> QED
  <2>1. Workers \subseteq Runners
    BY Kinds
  <2> QED
    BY <1>2, <1>3, <1>4, <1>5, <1>6, <1>7, <2>1 DEF Next

LEMMA RunningStep ==
    ASSUME TypeOK, Running, Next
    PROVE  /\ Running' /\ mThreadsRunning' \in 0 .. Cardinality(Workers)
           /\ (DestroyWaits => DestroyWaits') /\ late' \subseteq Workers
<1> DEFINE R == {w \in Workers : pc[w] \notin {"starting", "gone"}}
           R1 == {w \in Workers : pc'[w] \notin {"starting", "gone"}}
<1>1. /\ Clients \subseteq Threads /\ Runners \subseteq Threads /\ Workers \subseteq Runners
      /\ Clients \cap Runners = {}
      /\ pc \in [Threads -> ClientLabels \cup RunnerLabels] /\ op \in [Threads -> Items \cup {None}]
      /\ mThreadsRunning = Cardinality(R)
  BY Kinds DEF TypeOK, Running
<1>2. /\ IsFiniteSet(R) /\ Cardinality(R) \in Nat
      /\ IsFiniteSet(R1) /\ Cardinality(R1) \in Nat /\ Cardinality(R1) <= Cardinality(Workers)
      /\ Cardinality(Workers) \in Nat
  <2>1. R \subseteq Workers /\ R1 \subseteq Workers
    OBVIOUS
  <2> HIDE DEF R, R1
  <2> QED
    BY <2>1, Finite, FS_Subset, FS_CardinalityType
<1>3. ASSUME NEW w \in Workers, WorkerStart(w)
      PROVE  /\ mThreadsRunning' = Cardinality(R1) /\ R1 = R \cup {w} /\ destroyed' = destroyed
             /\ late' = IF destroyed THEN late \cup {w} ELSE late
  <2>1. R1 = R \cup {w} /\ w \notin R
    BY <1>1, <1>3 DEF WorkerStart, Goto
  <2>2. /\ mThreadsRunning' = mThreadsRunning + 1 /\ destroyed' = destroyed
        /\ late' = IF destroyed THEN late \cup {w} ELSE late
    BY <1>3 DEF WorkerStart
  <2> HIDE DEF R, R1
  <2> QED
    BY <1>1, <1>2, <2>1, <2>2, FS_AddElement
<1>4. ASSUME NEW w \in Workers, WorkerLeave(w)
      PROVE  /\ mThreadsRunning' = Cardinality(R1) /\ R1 \subseteq R
             /\ destroyed' = destroyed /\ late' = late
  <2>1. R1 = R \ {w} /\ w \in R
    BY <1>1, <1>4 DEF WorkerLeave, Goto
  <2>2. mThreadsRunning' = mThreadsRunning - 1 /\ destroyed' = destroyed /\ late' = late
    BY <1>4 DEF WorkerLeave
  <2> HIDE DEF R, R1
  <2> QED
    BY <1>1, <1>2, <2>1, <2>2, FS_RemoveElement
<1>5. ASSUME NEW w \in Workers, WorkerTest(w) \/ WorkerWait(w) \/ WorkerWoken(w)
      PROVE  /\ mThreadsRunning' = mThreadsRunning /\ R1 = R
             /\ destroyed' = destroyed /\ late' = late
  <2>1. mThreadsRunning' = mThreadsRunning /\ destroyed' = destroyed /\ late' = late
    BY <1>5 DEF WorkerTest, WorkerWait, WorkerWoken, lifecycle
  <2>2. R1 = R
    BY <1>1, <1>5 DEF WorkerTest, WorkerWait, WorkerWoken, Goto
  <2> QED
    BY <2>1, <2>2
<1>6. ASSUME NEW r \in Runners, Process(r)
      PROVE  /\ mThreadsRunning' = mThreadsRunning /\ R1 = R
             /\ destroyed' = destroyed /\ late' = late
  <2>1. mThreadsRunning' = mThreadsRunning /\ destroyed' = destroyed /\ late' = late
    BY <1>6 DEF Process, Inspect, NumOps, TryPop, CountInFlight, Run, RemoveFromOpq,
       RemoveFromGroup, UncountInFlight, lifecycle
  <2>2. /\ \A t \in Threads \ {r} : pc'[t] = pc[t]
        /\ pc[r] \notin {"starting", "gone"} /\ pc'[r] \notin {"starting", "gone"}
    BY <1>1, <1>6 DEF Process, Inspect, NumOps, TryPop, CountInFlight, Run, RemoveFromOpq,
       RemoveFromGroup, UncountInFlight, Advance, Returned, Goto
  <2> QED
    BY <1>1, <2>1, <2>2
<1>7. ASSUME NEW c \in Clients, InCall(c) \/ Call(c) \/ \E s \in Synchros : SpuriousWakeup(c, s)
      PROVE  /\ mThreadsRunning' = mThreadsRunning /\ R1 = R
             /\ \A r \in Runners : pc'[r] = pc[r] /\ op'[r] = op[r]
             /\ destroyed' = destroyed \/ mThreadsRunning = 0
             /\ late' = late
  <2>1. \A r \in Runners : pc'[r] = pc[r] /\ op'[r] = op[r]
    BY <1>1, <1>7 DEF InCall, Call, StartPush, StartSync, StartDrain, Destroy, Throttle, PushClaim,
       PushPublish, PushAddToGroup, PushAddToOpq, PushNotify, Await, Drain, Joining,
       SpuriousWakeup, WaitOnCondition, Goto
  <2>2. /\ mThreadsRunning' = mThreadsRunning /\ late' = late
        /\ destroyed' = destroyed \/ mThreadsRunning = 0
    BY <1>7 DEF InCall, Call, StartPush, StartSync, StartDrain, Destroy, Throttle, PushClaim,
       PushPublish, PushAddToGroup, PushAddToOpq, PushNotify, Await, Drain, Joining,
       SpuriousWakeup, lifecycle
  <2> QED
    BY <1>1, <2>1, <2>2
<1>8. mThreadsRunning' = Cardinality(R1)
  BY <1>1, <1>3, <1>4, <1>5, <1>6, <1>7 DEF Next, Work
<1>9. ASSUME DestroyWaits  PROVE DestroyWaits'
  <2>1. Cardinality(R) = 0 => R = {}
    <3> HIDE DEF R
    <3> QED
      BY <1>2, FS_EmptySet
  <2>2. DestroyWaits <=> (destroyed => R \subseteq late)
    BY DEF DestroyWaits
  <2>3. DestroyWaits' <=> (destroyed' => R1 \subseteq late')
    BY DEF DestroyWaits
  <2> HIDE DEF R, R1
  <2> QED
    BY <1>1, <1>3, <1>4, <1>5, <1>6, <1>7, <1>9, <2>1, <2>2, <2>3 DEF Next, Work
<1>10. ASSUME NEW s \in Runners
       PROVE  pc'[s] \in RunnerLabels /\ (pc'[s] \in Holding => op'[s] \in Items)
  <2>0. pc[s] \in RunnerLabels /\ (pc[s] \in Holding => op[s] \in Items)
    BY DEF Running
  <2>1. ASSUME NEW r \in Runners, (r \in Workers /\ Work(r)) \/ Process(r), s # r
        PROVE  pc'[s] = pc[s] /\ op'[s] = op[s]
    BY <1>1, <2>1 DEF Work, WorkerStart, WorkerTest, WorkerWait, WorkerWoken, WorkerLeave, Process,
       Inspect, NumOps, TryPop, CountInFlight, Run, RemoveFromOpq, RemoveFromGroup,
       UncountInFlight, Advance, Returned, Goto
  <2>2. CASE TryPop(s) /\ Ready(mOps[Group(s)])
    <3>1. mOps[Group(s)] \in Queues(Items, Clients)
      BY Typed
    <3>2. First(mOps[Group(s)]) \in Items
      BY <2>2, <3>1, RestQueue
    <3> QED
      BY <1>1, <2>2, <3>2 DEF TryPop, Goto, RunnerLabels
  <2>3. CASE (s \in Workers /\ Work(s)) \/ (Process(s) /\ ~(TryPop(s) /\ Ready(mOps[Group(s)])))
    BY <1>1, <2>0, <2>3 DEF Work, WorkerStart, WorkerTest, WorkerWait, WorkerWoken, WorkerLeave,
       Process, Inspect, NumOps, TryPop, CountInFlight, Run, RemoveFromOpq, RemoveFromGroup,
       UncountInFlight, Advance, Returned, Goto, RunnerLabels, Holding
  <2> QED
    BY <1>1, <1>7, <2>0, <2>1, <2>2, <2>3 DEF Next, Process
<1>11. late' \subseteq Workers
  BY <1>3, <1>4, <1>5, <1>6, <1>7 DEF Next, Work, TypeOK
<1> QED
  BY <1>2, <1>8, <1>9, <1>10, <1>11 DEF Running

\* Steps of a client, of a worker between two calls of Process, and of Process.
LEMMA CountedStep ==
    ASSUME Inv, Next
    PROVE  Counted' /\ mOps' \in [Groups -> Queues(Items, Clients)]
<1>1. TypeOK /\ Calls /\ Counted /\ Workers \subseteq Runners
  BY Kinds DEF Inv
<1>2. Uncountable => Counted' /\ mOps' \in [Groups -> Queues(Items, Clients)]
  BY <1>1, UncountableKeeps DEF Uncountable
<1>3. ASSUME NEW c \in Clients, Call(c) \/ InCall(c) \/ \E s \in Synchros : SpuriousWakeup(c, s)
      PROVE  Counted' /\ mOps' \in [Groups -> Queues(Items, Clients)]
  <2>1. CASE PushClaim(c) \/ PushAddToGroup(c) \/ PushAddToOpq(c)
    BY <2>1, PushCounted
  <2>2. CASE ~PushClaim(c) /\ ~PushAddToGroup(c) /\ ~PushAddToOpq(c)
    BY <1>1, <1>2, <1>3, <2>2, UncountableClients
  <2> QED
    BY <2>1, <2>2
<1>4. ASSUME NEW r \in Runners, (r \in Workers /\ Work(r)) \/ Process(r)
      PROVE  Counted' /\ mOps' \in [Groups -> Queues(Items, Clients)]
  <2>1. CASE \/ (TryPop(r) /\ Ready(mOps[Group(r)])) \/ CountInFlight(r)
             \/ RemoveFromOpq(r) \/ RemoveFromGroup(r) \/ UncountInFlight(r)
    BY <2>1, ProcessCounted
  <2>2. CASE \/ (r \in Workers /\ Work(r)) \/ Inspect(r) \/ NumOps(r)
             \/ (TryPop(r) /\ ~Ready(mOps[Group(r)])) \/ Run(r)
    BY <1>1, <1>2, <2>2, UncountableRunners
  <2> QED
    BY <1>4, <2>1, <2>2 DEF Process
<1> QED
  BY <1>1, <1>3, <1>4 DEF Next

LEMMA PlacedStep ==
    ASSUME Inv, Next
    PROVE  Placed' /\ Passing' /\ (Kept => Kept')
<1>1. TypeOK /\ Placed /\ Passing /\ Workers \subseteq Runners
  BY Kinds DEF Inv
<1>2. Same => Placed' /\ Passing' /\ (Kept => Kept')
  BY <1>1, SameKeeps
<1>3. ASSUME NEW c \in Clients, Call(c) \/ InCall(c) \/ \E s \in Synchros : SpuriousWakeup(c, s)
      PROVE  Placed' /\ Passing' /\ (Kept => Kept')
  <2>1. CASE \E o \in Ops : StartPush(c, o)
    BY <2>1, StartPushMoves
  <2>2. CASE StartSync(c) \/ PushClaim(c) \/ PushNotify(c) \/ Await(c)
    BY <2>2, StartSyncMoves, PushClaimMoves, PushNotifyMoves, AwaitMoves
  <2>3. CASE \/ Throttle(c) \/ PushPublish(c) \/ PushAddToGroup(c) \/ PushAddToOpq(c)
             \/ Drain(c) \/ Joining(c) \/ (\E s \in MayDrain[c] : StartDrain(c, s)) \/ Destroy(c)
             \/ \E s \in Synchros : SpuriousWakeup(c, s)
    BY <1>1, <1>2, <2>3, QuietClients
  <2> QED
    BY <1>3, <2>1, <2>2, <2>3 DEF Call, InCall
<1>4. ASSUME NEW r \in Runners, (r \in Workers /\ Work(r)) \/ Process(r)
      PROVE  Placed' /\ Passing' /\ (Kept => Kept')
  <2>1. CASE TryPop(r) /\ Ready(mOps[Group(r)])
    BY <2>1, TryPopMoves
  <2>2. CASE Run(r)
    BY <2>2, RunMoves
  <2>3. CASE \/ (r \in Workers /\ Work(r)) \/ Inspect(r) \/ NumOps(r)
             \/ (TryPop(r) /\ ~Ready(mOps[Group(r)]))
             \/ CountInFlight(r) \/ RemoveFromOpq(r) \/ RemoveFromGroup(r) \/ UncountInFlight(r)
    BY <1>1, <1>2, <2>3, QuietRunners
  <2> QED
    BY <1>4, <2>1, <2>2, <2>3 DEF Process
<1> QED
  BY <1>1, <1>3, <1>4 DEF Next

LEMMA TypeStep ==
    ASSUME Inv, Next, Counted', Calls', Running'
    PROVE  TypeOK'
<1>1. Clients \subseteq Threads /\ Runners \subseteq Threads /\ Workers \subseteq Runners
      /\ Threads = Clients \cup Runners /\ Groups \subseteq Synchros
      /\ DefaultGroup \in Groups /\ TheOpq \in Synchros
      /\ (\A o \in Ops : GroupOf[o] \in Groups)
      /\ \A c \in Clients : MayDrain[c] \subseteq Synchros
  BY Kinds
<1>2. mOps' \in [Groups -> Seq([item : Items, writer : Clients \cup {NoThread}])]
  BY CountedStep DEF Queues
<1>3. mOpsInFlightCounter' \in [Groups -> Nat]
  <2>1. mOpsInFlightCounter' = [g \in Groups |-> mOpsInFlightCounter'[g]]
    BY <1>1, Typed DEF Inv, TypeOK, Next, counters, Call, InCall, StartPush, StartSync,
       StartDrain, Destroy, Throttle, PushClaim, PushPublish, PushAddToGroup, PushAddToOpq,
       PushNotify, Await, Drain, Joining, SpuriousWakeup, Work, WorkerStart, WorkerTest,
       WorkerWait, WorkerWoken, WorkerLeave, Process, Inspect, NumOps, TryPop, CountInFlight,
       Run, RemoveFromOpq, RemoveFromGroup, UncountInFlight
  <2>2. \A g \in Groups : InFlight(g)' \subseteq Runners
    BY DEF InFlight
  <2>3. \A S \in SUBSET Runners : Cardinality(S) \in Nat
    BY Finite, FS_Subset, FS_CardinalityType
  <2>4. \A g \in Groups : mOpsInFlightCounter'[g] \in Nat
    BY <2>2, <2>3 DEF Counted
  <2> QED
    BY <2>1, <2>4
<1>4. mOpCounter' \in [Synchros -> Int]
  <2>1. mOpCounter \in [Synchros -> Int]
    BY DEF Inv, TypeOK
  <2>2. \/ mOpCounter' = mOpCounter
        \/ \E s : \/ mOpCounter' = [mOpCounter EXCEPT ![s] = @ + 1]
                  \/ mOpCounter' = [mOpCounter EXCEPT ![s] = @ - 1]
    BY DEF Next, counters, AddItem, RemItem, Call, InCall, StartPush, StartSync, StartDrain,
       Destroy, Throttle, PushClaim, PushPublish, PushAddToGroup, PushAddToOpq, PushNotify,
       Await, Drain, Joining, SpuriousWakeup, Work, WorkerStart, WorkerTest, WorkerWait,
       WorkerWoken, WorkerLeave, Process, Inspect, NumOps, TryPop, CountInFlight, Run,
       RemoveFromOpq, RemoveFromGroup, UncountInFlight
  <2> QED
    BY <2>1, <2>2
<1>5. waiting' \in [Synchros -> SUBSET Clients]
  <2>1. waiting \in [Synchros -> SUBSET Clients]
    BY DEF Inv, TypeOK
  <2>2. \/ waiting' = waiting
        \/ \E s \in Synchros, C \in SUBSET Clients : waiting' = [waiting EXCEPT ![s] = C]
    <3>1. ASSUME NEW s \in Synchros, NotifyOne(s)
          PROVE  \/ waiting' = waiting
                 \/ \E C \in SUBSET Clients : waiting' = [waiting EXCEPT ![s] = C]
      BY <1>1, <2>1, <3>1 DEF NotifyOne
    <3>2. /\ \A c \in Clients : pc[c] \in Pushing => at[c] \in Synchros
          /\ \A c \in Clients : at[c] \in Synchros
          /\ \A r \in Runners : Group(r) \in Synchros
      BY <1>1, Typed DEF Inv, TypeOK
    <3>3. ASSUME NEW c \in Clients, Call(c) \/ InCall(c) \/ \E s \in Synchros : SpuriousWakeup(c, s)
          PROVE  \/ waiting' = waiting
                 \/ \E s \in Synchros : NotifyOne(s)
                 \/ \E s \in Synchros : waiting' = [waiting EXCEPT ![s] = @ \ {c}]
                 \/ \E s \in Synchros : waiting' = [waiting EXCEPT ![s] = @ \cup {c}]
      BY <1>1, <3>2, <3>3 DEF counters, AddItem, RemItem, WaitOnCondition, Call, InCall,
         StartPush, StartSync, StartDrain, Destroy, Throttle, PushClaim,
     PushPublish, PushAddToGroup, PushAddToOpq, PushNotify, Await, Drain, Joining,
     SpuriousWakeup, Work, WorkerStart, WorkerTest, WorkerWait, WorkerWoken, WorkerLeave,
     Process, Inspect, NumOps, TryPop, CountInFlight, Run, RemoveFromOpq, RemoveFromGroup,
     UncountInFlight
    <3>4. ASSUME NEW r \in Runners, (r \in Workers /\ Work(r)) \/ Process(r)
          PROVE  waiting' = waiting \/ \E s \in Synchros : NotifyOne(s)
      BY <1>1, <3>2, <3>4 DEF counters, AddItem, RemItem, WaitOnCondition, Call, InCall,
         StartPush, StartSync, StartDrain, Destroy, Throttle, PushClaim,
     PushPublish, PushAddToGroup, PushAddToOpq, PushNotify, Await, Drain, Joining,
     SpuriousWakeup, Work, WorkerStart, WorkerTest, WorkerWait, WorkerWoken, WorkerLeave,
     Process, Inspect, NumOps, TryPop, CountInFlight, Run, RemoveFromOpq, RemoveFromGroup,
     UncountInFlight
    <3>5. \A s \in Synchros, c \in Clients :
              waiting[s] \ {c} \in SUBSET Clients /\ waiting[s] \cup {c} \in SUBSET Clients
      BY <2>1
    <3>6. ASSUME NEW c \in Clients, Call(c) \/ InCall(c) \/ \E s \in Synchros : SpuriousWakeup(c, s)
          PROVE  \/ waiting' = waiting
                 \/ \E s \in Synchros, C \in SUBSET Clients : waiting' = [waiting EXCEPT ![s] = C]
      BY <3>1, <3>3, <3>5, <3>6
    <3> QED
      BY <1>1, <3>1, <3>4, <3>6 DEF Next
  <2> QED
    BY <2>1, <2>2
<1>6. mSemaphore' \in Nat
  BY DEF Inv, TypeOK, Next, Call, InCall, StartPush, StartSync, StartDrain, Destroy, Throttle,
     PushClaim, PushPublish, PushAddToGroup, PushAddToOpq, PushNotify, Await, Drain, Joining,
     SpuriousWakeup, Work, WorkerStart, WorkerTest, WorkerWait, WorkerWoken, WorkerLeave,
     Process, Inspect, NumOps, TryPop, CountInFlight, Run, RemoveFromOpq, RemoveFromGroup,
     UncountInFlight
<1>7. mThreadsRunning' \in 0 .. Cardinality(Workers) /\ late' \subseteq Workers
  BY RunningStep DEF Inv
<1>8. mbGoingDown' \in BOOLEAN /\ destroyed' \in BOOLEAN
  BY DEF Inv, TypeOK, Next, lifecycle, Call, InCall, StartPush, StartSync, StartDrain, Destroy,
     Throttle, PushClaim, PushPublish, PushAddToGroup, PushAddToOpq, PushNotify, Await, Drain,
     Joining, SpuriousWakeup, Work, WorkerStart, WorkerTest, WorkerWait, WorkerWoken,
     WorkerLeave, Process, Inspect, NumOps, TryPop, CountInFlight, Run, RemoveFromOpq,
     RemoveFromGroup, UncountInFlight
<1>9. pc' \in [Threads -> ClientLabels \cup RunnerLabels]
  <2>1. pc \in [Threads -> ClientLabels \cup RunnerLabels]
    BY DEF Inv, TypeOK
  <2>2. pc' = pc \/ \E t, l : pc' = [pc EXCEPT ![t] = l]
    BY DEF Next, Goto, WaitOnCondition, Advance, Returned, Call, InCall, StartPush, StartSync,
       StartDrain, Destroy, Throttle, PushClaim, PushPublish, PushAddToGroup, PushAddToOpq,
       PushNotify, Await, Drain, Joining, SpuriousWakeup, Work, WorkerStart, WorkerTest,
       WorkerWait, WorkerWoken, WorkerLeave, Process, Inspect, NumOps, TryPop, CountInFlight,
       Run, RemoveFromOpq, RemoveFromGroup, UncountInFlight
  <2>3. pc' = [t \in Threads |-> pc'[t]]
    BY <2>1, <2>2
  <2>4. \A t \in Threads : pc'[t] \in ClientLabels \cup RunnerLabels
    BY <1>1 DEF Calls, Running
  <2> QED
    BY <2>3, <2>4
<1>10. op' \in [Threads -> Items \cup {None}]
  <2>1. op \in [Threads -> Items \cup {None}]
    BY DEF Inv, TypeOK
  <2>2. \/ op' = op
        \/ \E t \in Threads, x \in Items \cup {None} : op' = [op EXCEPT ![t] = x]
    <3>1. \A r \in Runners : Ready(mOps[Group(r)]) => First(mOps[Group(r)]) \in Items
      <4> SUFFICES ASSUME NEW r \in Runners, Ready(mOps[Group(r)])
                   PROVE  First(mOps[Group(r)]) \in Items
        OBVIOUS
      <4>1. mOps[Group(r)] \in Queues(Items, Clients)
        BY Typed DEF Inv
      <4> QED
        BY <4>1, RestQueue
    <3>2. Ops \subseteq Items /\ Clients \subseteq Items
      BY Kinds
    <3> QED
      BY <1>1, <3>1, <3>2 DEF Next, Call, InCall, StartPush, StartSync, StartDrain, Destroy,
         Throttle, PushClaim,
     PushPublish, PushAddToGroup, PushAddToOpq, PushNotify, Await, Drain, Joining,
     SpuriousWakeup, Work, WorkerStart, WorkerTest, WorkerWait, WorkerWoken, WorkerLeave,
     Process, Inspect, NumOps, TryPop, CountInFlight, Run, RemoveFromOpq, RemoveFromGroup,
     UncountInFlight
  <2> QED
    BY <2>1, <2>2
<1>11. /\ at' \in [Threads -> Synchros \cup DOMAIN GroupOrder]
       /\ \A c \in Clients : at'[c] \in Synchros
       /\ \A r \in Runners : at'[r] \in DOMAIN GroupOrder
  <2>1. /\ at \in [Threads -> Synchros \cup DOMAIN GroupOrder]
        /\ \A c \in Clients : at[c] \in Synchros
        /\ \A r \in Runners : at[r] \in DOMAIN GroupOrder
        /\ Clients \cap Runners = {}
    BY Kinds DEF Inv, TypeOK
  <2>2. ASSUME NEW c \in Clients, Call(c) \/ InCall(c) \/ \E s \in Synchros : SpuriousWakeup(c, s)
        PROVE  at' = at \/ \E s \in Synchros : at' = [at EXCEPT ![c] = s]
    BY <1>1, <2>2 DEF Call, InCall, StartPush, StartSync, StartDrain, Destroy, Throttle, PushClaim,
     PushPublish, PushAddToGroup, PushAddToOpq, PushNotify, Await, Drain, Joining,
     SpuriousWakeup, Work, WorkerStart, WorkerTest, WorkerWait, WorkerWoken, WorkerLeave,
     Process, Inspect, NumOps, TryPop, CountInFlight, Run, RemoveFromOpq, RemoveFromGroup,
     UncountInFlight
  <2>3. ASSUME NEW r \in Runners, (r \in Workers /\ Work(r)) \/ Process(r)
        PROVE  at' = at \/ \E i \in DOMAIN GroupOrder : at' = [at EXCEPT ![r] = i]
    <3>1. 1 \in DOMAIN GroupOrder
      BY Finite
    <3>2. at[r] < Len(GroupOrder) => at[r] + 1 \in DOMAIN GroupOrder
      BY <2>1, Finite
    <3> QED
      BY <2>1, <2>3, <3>1, <3>2 DEF Advance, Call, InCall, StartPush, StartSync, StartDrain,
         Destroy, Throttle, PushClaim,
     PushPublish, PushAddToGroup, PushAddToOpq, PushNotify, Await, Drain, Joining,
     SpuriousWakeup, Work, WorkerStart, WorkerTest, WorkerWait, WorkerWoken, WorkerLeave,
     Process, Inspect, NumOps, TryPop, CountInFlight, Run, RemoveFromOpq, RemoveFromGroup,
     UncountInFlight
  <2>4. \/ at' = at
        \/ \E c \in Clients : \E s \in Synchros : at' = [at EXCEPT ![c] = s]
        \/ \E r \in Runners : \E i \in DOMAIN GroupOrder : at' = [at EXCEPT ![r] = i]
    BY <1>1, <2>2, <2>3 DEF Next
  <2> QED
    BY <1>1, <2>1, <2>4
<1>12. signalled' \subseteq Clients
  BY DEF Inv, TypeOK, Next, history, Call, InCall, StartPush, StartSync, StartDrain, Destroy,
     Throttle, PushClaim, PushPublish, PushAddToGroup, PushAddToOpq, PushNotify, Await, Drain,
     Joining, SpuriousWakeup, Work, WorkerStart, WorkerTest, WorkerWait, WorkerWoken,
     WorkerLeave, Process, Inspect, NumOps, TryPop, CountInFlight, Run, RemoveFromOpq,
     RemoveFromGroup, UncountInFlight
<1>13. done' \subseteq Ops /\ returned' \subseteq Ops
  BY DEF Inv, TypeOK, Next, history, Call, InCall, StartPush, StartSync, StartDrain, Destroy,
     Throttle, PushClaim, PushPublish, PushAddToGroup, PushAddToOpq, PushNotify, Await, Drain,
     Joining, SpuriousWakeup, Work, WorkerStart, WorkerTest, WorkerWait, WorkerWoken,
     WorkerLeave, Process, Inspect, NumOps, TryPop, CountInFlight, Run, RemoveFromOpq,
     RemoveFromGroup, UncountInFlight
<1>14. promised' \in [Clients -> SUBSET Ops]
  <2>1. promised \in [Clients -> SUBSET Ops] /\ returned \subseteq Ops
    BY DEF Inv, TypeOK
  <2>2. promised' = promised \/ \E c \in Clients, P \in SUBSET returned :
                                    promised' = [promised EXCEPT ![c] = P]
    BY DEF Next, history, Call, InCall, StartPush, StartSync, StartDrain, Destroy, Throttle,
       PushClaim, PushPublish, PushAddToGroup, PushAddToOpq, PushNotify, Await, Drain, Joining,
       SpuriousWakeup, Work, WorkerStart, WorkerTest, WorkerWait, WorkerWoken, WorkerLeave,
       Process, Inspect, NumOps, TryPop, CountInFlight, Run, RemoveFromOpq, RemoveFromGroup,
       UncountInFlight
  <2> QED
    BY <2>1, <2>2
<1> QED
  BY <1>2, <1>3, <1>4, <1>5, <1>6, <1>7, <1>8, <1>9, <1>10, <1>11, <1>12, <1>13, <1>14 DEF TypeOK

LEMMA DrainsStep ==
    ASSUME Inv, Drains, Next  PROVE Drains'
<1> SUFFICES ASSUME NEW d \in Clients, pc'[d] = "drain"
             PROVE  \A o \in promised'[d] :
                        o \in returned' /\ (at'[d] = TheOpq \/ GroupOf[o] = at'[d])
  BY DEF Drains
<1>1. /\ d \in Threads /\ d \notin Runners /\ Clients \subseteq Threads /\ Runners \subseteq Threads
      /\ pc \in [Threads -> ClientLabels \cup RunnerLabels]
      /\ at \in [Threads -> Synchros \cup DOMAIN GroupOrder]
      /\ promised \in [Clients -> SUBSET Ops] /\ Workers \subseteq Runners
  BY Kinds DEF Inv, TypeOK
<1>2. returned \subseteq returned'
  BY DEF Next, history, Call, InCall, StartPush, StartSync, StartDrain, Destroy, Throttle,
     PushClaim, PushPublish, PushAddToGroup, PushAddToOpq, PushNotify, Await, Drain, Joining,
     SpuriousWakeup, Work, WorkerStart, WorkerTest, WorkerWait, WorkerWoken, WorkerLeave,
     Process, Inspect, NumOps, TryPop, CountInFlight, Run, RemoveFromOpq, RemoveFromGroup,
     UncountInFlight
<1>3. CASE \E s \in MayDrain[d] : StartDrain(d, s)
  BY <1>1, <1>3 DEF StartDrain
<1>4. CASE pc[d] = "drain" /\ UNCHANGED <<at[d], promised[d]>>
  BY <1>2, <1>4 DEF Drains
<1>5. ASSUME NEW c \in Clients, Call(c) \/ InCall(c) \/ \E s \in Synchros : SpuriousWakeup(c, s)
      PROVE  \/ \E s \in MayDrain[d] : StartDrain(d, s)
             \/ pc[d] = "drain" /\ UNCHANGED <<at[d], promised[d]>>
  <2>1. CASE c # d
    BY <1>1, <1>5, <2>1 DEF Goto, WaitOnCondition, history, Call, InCall, StartPush, StartSync,
       StartDrain, Destroy, Throttle, PushClaim, PushPublish, PushAddToGroup, PushAddToOpq,
       PushNotify, Await, Drain, Joining, SpuriousWakeup, Work, WorkerStart, WorkerTest,
       WorkerWait, WorkerWoken, WorkerLeave, Process, Inspect, NumOps, TryPop, CountInFlight,
       Run, RemoveFromOpq, RemoveFromGroup, UncountInFlight
  <2>2. CASE c = d
    BY <1>1, <1>5, <2>2 DEF Free, Goto, WaitOnCondition, history, Call, InCall, StartPush,
       StartSync, StartDrain, Destroy, Throttle, PushClaim, PushPublish, PushAddToGroup,
       PushAddToOpq, PushNotify, Await, Drain, Joining, SpuriousWakeup, Work, WorkerStart,
       WorkerTest, WorkerWait, WorkerWoken, WorkerLeave, Process, Inspect, NumOps, TryPop,
       CountInFlight, Run, RemoveFromOpq, RemoveFromGroup, UncountInFlight
  <2> QED
    BY <2>1, <2>2
<1>6. ASSUME NEW r \in Runners, (r \in Workers /\ Work(r)) \/ Process(r)
      PROVE  pc[d] = "drain" /\ UNCHANGED <<at[d], promised[d]>>
  BY <1>1, <1>6 DEF Goto, Advance, Returned, history, Call, InCall, StartPush, StartSync,
     StartDrain, Destroy, Throttle, PushClaim, PushPublish, PushAddToGroup, PushAddToOpq,
     PushNotify, Await, Drain, Joining, SpuriousWakeup, Work, WorkerStart, WorkerTest,
     WorkerWait, WorkerWoken, WorkerLeave, Process, Inspect, NumOps, TryPop, CountInFlight,
     Run, RemoveFromOpq, RemoveFromGroup, UncountInFlight
<1> QED
  BY <1>1, <1>3, <1>4, <1>5, <1>6 DEF Next

LEMMA Initially == Init => DrainInv
<1> SUFFICES ASSUME Init  PROVE DrainInv
  OBVIOUS
<1>1. /\ Threads = Clients \cup Runners /\ Clients \cap Runners = {} /\ Workers \subseteq Runners
      /\ Groups \subseteq Synchros /\ DefaultGroup \in Groups /\ TheOpq \in Synchros
  BY Kinds
<1>2. /\ \A c \in Clients : pc[c] = "idle" /\ op[c] = None /\ at[c] = DefaultGroup
      /\ \A r \in Runners : pc[r] \in {"starting", "scan"} /\ at[r] = 1
      /\ \A w \in Workers : pc[w] = "starting"
  BY <1>1 DEF Init
<1>3. 1 \in DOMAIN GroupOrder
  BY Finite
<1>4. \A g \in Groups : /\ mOps[g] = <<>> /\ ItemsOf(mOps[g]) = {} /\ NoTwice(mOps[g])
                        /\ Len(mOps[g]) = 0 /\ DOMAIN mOps[g] = {}
  BY EmptyQueue DEF Init
<1>5. mOps \in [Groups -> Queues(Items, Clients)]
  BY EmptyQueue DEF Init
<1>6. Cardinality({}) = 0
  BY FS_EmptySet
<1>7. {w \in Workers : pc[w] \notin {"starting", "gone"}} = {}
  BY <1>2
<1>8. TypeOK
  <2>1. mThreadsRunning \in 0 .. Cardinality(Workers)
    BY Finite, FS_CardinalityType DEF Init
  <2>2. pc \in [Threads -> ClientLabels \cup RunnerLabels]
    BY DEF Init, ClientLabels, RunnerLabels
  <2>3. at \in [Threads -> Synchros \cup DOMAIN GroupOrder]
    BY <1>1, <1>3 DEF Init
  <2>4. mOps \in [Groups -> Seq([item : Items, writer : Clients \cup {NoThread}])]
    BY <1>5 DEF Queues
  <2>5. /\ mOpsInFlightCounter \in [Groups -> Nat] /\ mOpCounter \in [Synchros -> Int]
        /\ waiting \in [Synchros -> SUBSET Clients]
        /\ op \in [Threads -> Items \cup {None}] /\ promised \in [Clients -> SUBSET Ops]
    BY DEF Init
  <2>6. /\ mSemaphore \in Nat /\ mbGoingDown \in BOOLEAN /\ destroyed \in BOOLEAN
        /\ late \subseteq Workers
        /\ signalled \subseteq Clients /\ done \subseteq Ops /\ returned \subseteq Ops
    BY DEF Init
  <2>7. /\ \A c \in Clients : at[c] \in Synchros
        /\ \A r \in Runners : at[r] \in DOMAIN GroupOrder
    BY <1>1, <1>2, <1>3
  <2> QED
    BY <2>1, <2>2, <2>3, <2>4, <2>5, <2>6, <2>7 DEF TypeOK
<1>9. Calls
  BY <1>2 DEF Calls, ClientLabels, Pushing
<1>10. Running
  <2>1. mThreadsRunning = Cardinality({w \in Workers : pc[w] \notin {"starting", "gone"}})
    BY <1>6, <1>7 DEF Init
  <2> QED
    BY <1>2, <2>1 DEF Running, RunnerLabels, Holding
<1>11. Counted
  <2>1. \A g \in Groups : GroupUncounted(g) = {} /\ GroupPopped(g) = {} /\ InFlight(g) = {}
    BY <1>2 DEF GroupUncounted, GroupPopped, InFlight
  <2>2. AllUncounted = {} /\ AllPopped = {}
    BY <1>2 DEF AllUncounted, AllPopped
  <2>3. Places = {}
    BY <1>4 DEF Places
  <2>4. /\ \A g \in Groups : mOpCounter[g] = 0 /\ mOpsInFlightCounter[g] = 0
        /\ mOpCounter[TheOpq] = 0
    BY <1>1 DEF Init
  <2>5. \A g \in Groups : mOpCounter[g] = Len(mOps[g]) - Cardinality(GroupUncounted(g))
                                          + Cardinality(GroupPopped(g))
    <3> SUFFICES ASSUME NEW g \in Groups
                 PROVE  mOpCounter[g] = Len(mOps[g]) - Cardinality(GroupUncounted(g))
                                          + Cardinality(GroupPopped(g))
      OBVIOUS
    <3>1. /\ mOpCounter[g] = 0 /\ Len(mOps[g]) = 0
          /\ Cardinality(GroupUncounted(g)) = 0 /\ Cardinality(GroupPopped(g)) = 0
      BY <1>4, <1>6, <2>1, <2>4, Zenon
    <3> QED
      BY <3>1
  <2>6. \A g \in Groups : mOpsInFlightCounter[g] = Cardinality(InFlight(g))
    BY <1>6, <2>1, <2>4, Zenon
  <2>7. mOpCounter[TheOpq] =
            Cardinality(Places) - Cardinality(AllUncounted) + Cardinality(AllPopped)
    <3>1. /\ Cardinality(Places) = 0 /\ Cardinality(AllUncounted) = 0
          /\ Cardinality(AllPopped) = 0
      BY <1>6, <2>2, <2>3, Zenon
    <3> QED
      BY <2>4, <3>1
  <2> QED
    BY <2>5, <2>6, <2>7 DEF Counted
<1>12. \A x : ~Somewhere(x) /\ (x # None => ~Pushed(x)) /\ ~Over(x)
  BY <1>2, <1>4 DEF Init, Somewhere, Holds, Holding, Pushed, Queued, Over
<1>13. Placed /\ Passing
  <2>1. \A x : ~Pending(x)
    BY <1>2 DEF Pending, Unclaimed
  <2>2. \A x \in Items : Alone(x)
    BY <1>12 DEF Somewhere, Alone
  <2> QED
    BY <1>2, <1>4, <1>12, <2>1, <2>2 DEF Placed, Passing, Over
<1>14. DestroyWaits /\ Drains
  BY <1>2 DEF DestroyWaits, Drains
<1>15. Kept
  <2>1. \A o \in Ops : ~Pushed(o)
    BY <1>12, Kinds
  <2> QED
    BY <1>2, <2>1 DEF Kept, Pushing
<1> QED
  BY <1>8, <1>9, <1>10, <1>11, <1>13, <1>14, <1>15 DEF DrainInv, Inv

\* What is queued, pushed and executed, the counters and the threads belong
\* together (ork/kernel/opq.cpp, push, Process, run and the destructor).
THEOREM Invariance == Spec => []DrainInv
<1>1. DrainInv /\ [Next]_vars => DrainInv'
  <2> SUFFICES ASSUME DrainInv, [Next]_vars  PROVE DrainInv'
    OBVIOUS
  <2>1. CASE Next
    <3>1. Calls' /\ Counted'
      BY <2>1, CallsStep, CountedStep DEF DrainInv, Inv
    <3>2. Running' /\ DestroyWaits'
      BY <2>1, RunningStep DEF DrainInv, Inv
    <3>3. TypeOK'
      BY <2>1, <3>1, <3>2, TypeStep DEF DrainInv
    <3>4. Placed' /\ Passing' /\ Kept'
      BY <2>1, PlacedStep DEF DrainInv
    <3>5. Drains'
      BY <2>1, DrainsStep DEF DrainInv
    <3> QED
      BY <3>1, <3>2, <3>3, <3>4, <3>5 DEF DrainInv, Inv
  <2>2. CASE UNCHANGED vars
    <3>1. UNCHANGED <<mOps, mOpsInFlightCounter, mOpCounter, waiting, mSemaphore, mThreadsRunning,
                      mbGoingDown, destroyed, late, pc, op, at, signalled, done, returned, promised>>
      BY <2>2 DEF vars, counters, lifecycle, history
    <3>2. TypeOK' /\ Calls' /\ Running' /\ DestroyWaits'
      BY <3>1 DEF DrainInv, Inv, TypeOK, Calls, Running, DestroyWaits
    <3>3. Counted'
      <4>1. \A g : /\ GroupUncounted(g)' = GroupUncounted(g) /\ GroupPopped(g)' = GroupPopped(g)
                   /\ InFlight(g)' = InFlight(g)
        BY <3>1 DEF GroupUncounted, GroupPopped, InFlight, Group
      <4>2. AllUncounted' = AllUncounted /\ AllPopped' = AllPopped /\ Places' = Places
        BY <3>1 DEF AllUncounted, AllPopped, Places
      <4> QED
        BY <3>1, <4>1, <4>2 DEF DrainInv, Inv, Counted
    <3>4. Same
      BY <3>1 DEF Same
    <3>5. Placed' /\ Passing' /\ Kept'
      BY <3>4, SameKeeps DEF DrainInv, Inv
    <3>6. Drains'
      BY <3>1 DEF DrainInv, Drains
    <3> QED
      BY <3>2, <3>3, <3>5, <3>6 DEF DrainInv, Inv
  <2> QED
    BY <2>1, <2>2
<1> QED
  BY <1>1, Initially, PTL DEF Spec

\* The destructor waits for the workers that have counted themselves
\* (ork/kernel/opq.cpp, ~Opq and OpqThreadImpl::run): only one that starts
\* after may run when it has seen none.
THEOREM DestructorWaits == Spec => []DestroyWaits
<1>1. DrainInv => DestroyWaits
  BY DEF DrainInv, Inv
<1> QED
  BY <1>1, Invariance, PTL

\* mOpCounter and mOpsInFlightCounter are right up to the calls in progress,
\* although no step of push or Process updates two of them together.
THEOREM CountersAgree == Spec => []CountersMatch
<1>1. DrainInv => CountersMatch
  BY DEF DrainInv, Inv, CountersMatch, Counted, Uncounted, Popped, GroupUncounted, GroupPopped,
     InFlight, AllUncounted, AllPopped
<1> QED
  BY <1>1, Invariance, PTL

LEMMA AtMostOne ==
    ASSUME NEW S, \A x, y \in S : x = y
    PROVE  (S = {} /\ Cardinality(S) = 0) \/ (S # {} /\ Cardinality(S) = 1)
<1>1. CASE S = {}
  BY <1>1, FS_EmptySet
<1>2. CASE S # {}
  <2>1. PICK x \in S : S = {x}
    BY <1>2
  <2> QED
    BY <1>2, <2>1, FS_Singleton
<1> QED
  BY <1>1, <1>2

\* No lambda is in two places and none runs twice, with any number of threads
\* that push and that call Process.
THEOREM OneExecution == Spec => []OpOnce
<1> DEFINE queued(o) == {p \in Places : mOps[p[1]][p[2]].item = o}
           held(o) == {r \in Runners : op[r] = o /\ pc[r] \in {"count", "run"}}
<1>1. ASSUME Inv, NEW o \in Ops
      PROVE  Cardinality(queued(o)) + Cardinality(held(o)) + (IF o \in done THEN 1 ELSE 0) <= 1
  <2>1. /\ mOps \in [Groups -> Queues(Items, Clients)] /\ o \in Items
        /\ Places = PlacesIn(mOps)
    BY <1>1, Typed, Kinds DEF Inv, Places, PlacesIn
  <2>2. \A p \in Places : /\ p = <<p[1], p[2]>> /\ p[1] \in Groups
                          /\ p[2] \in DOMAIN mOps[p[1]]
    BY <2>1, PlacesType
  <2>3. \A p \in queued(o) : o \in ItemsOf(mOps[p[1]])
    BY <2>2 DEF ItemsOf
  <2>4. \A r \in held(o) : Holds(r, o)
    BY DEF Holds, Holding
  <2>5. /\ Alone(o) /\ (\A g \in Groups : NoTwice(mOps[g]))
        /\ (Somewhere(o) => ~Over(o))
    BY <1>1, <2>1 DEF Inv, Placed, Passing
  <2>6. \A p, q \in queued(o) : p = q
    <3> SUFFICES ASSUME NEW p \in queued(o), NEW q \in queued(o)  PROVE p = q
      OBVIOUS
    <3>1. p[1] = q[1]
      BY <2>2, <2>3, <2>5 DEF Alone
    <3>2. p[2] = q[2]
      BY <2>2, <2>5, <3>1 DEF NoTwice
    <3> QED
      BY <2>2, <3>1, <3>2
  <2>7. \A r, s \in held(o) : r = s
    BY <2>4, <2>5 DEF Alone
  <2>8. queued(o) # {} => held(o) = {} /\ o \notin done
    BY <2>2, <2>3, <2>4, <2>5 DEF Alone, Somewhere, Over
  <2>9. held(o) # {} => o \notin done
    BY <2>4, <2>5 DEF Somewhere, Over
  <2> HIDE DEF queued, held
  <2>10. /\ (queued(o) = {} /\ Cardinality(queued(o)) = 0)
                \/ (queued(o) # {} /\ Cardinality(queued(o)) = 1)
         /\ (held(o) = {} /\ Cardinality(held(o)) = 0)
                \/ (held(o) # {} /\ Cardinality(held(o)) = 1)
    BY <2>6, <2>7, AtMostOne
  <2> QED
    BY <2>8, <2>9, <2>10
<1>2. DrainInv => OpOnce
  BY <1>1 DEF DrainInv, OpOnce
<1> QED
  BY <1>2, Invariance, PTL

----------------------------------------------------------------------------
(* What drain promises.                                                    *)

\* No push that has queued its operation and not counted it yet in what a
\* client drains.  test/opq.cpp drains from the thread that pushes.
QuietDrains ==
    \A c, d \in Clients : pc[c] = "drain" =>
        IF at[c] = TheOpq
        THEN pc[d] \notin {"publish", "addGroup", "addOpq"}
        ELSE pc[d] \in {"publish", "addGroup"} => at[d] # at[c]

LEMMA NothingLeft ==
    ASSUME DrainInv, QuietDrains, NEW c \in Clients, pc[c] = "drain", mOpCounter[at[c]] = 0
    PROVE  promised[c] \subseteq done
<1> SUFFICES ASSUME NEW o \in promised[c]  PROVE o \in done
  OBVIOUS
<1>1. /\ o \in Ops /\ Pushed(o) /\ (at[c] = TheOpq \/ GroupOf[o] = at[c])
      /\ at[c] \in Synchros /\ GroupOf[o] \in Groups
      /\ mOps \in [Groups -> Queues(Items, Clients)]
  BY Typed, Kinds DEF DrainInv, Inv, TypeOK, Drains, Pushed
<1>2. \/ o \in done
      \/ o \in ItemsOf(mOps[GroupOf[o]])
      \/ \E r \in Runners : Holds(r, o) /\ Group(r) = GroupOf[o]
  BY <1>1 DEF DrainInv, Kept
<1>3. CASE at[c] = TheOpq
  <2>1. AllUncounted = {} /\ Cardinality(AllUncounted) = 0
    BY <1>3, FS_EmptySet DEF QuietDrains, AllUncounted
  <2>2. Cardinality(Places) \in Nat /\ Cardinality(AllPopped) \in Nat
        /\ IsFiniteSet(Places) /\ IsFiniteSet(AllPopped)
    BY <1>1, PlacesType, FiniteCounts DEF Places, PlacesIn
  <2>3. Cardinality(Places) = 0 /\ Cardinality(AllPopped) = 0
    <3>1. 0 = Cardinality(Places) - 0 + Cardinality(AllPopped)
      BY <1>3, <2>1 DEF DrainInv, Inv, Counted
    <3> QED
      BY <2>2, <3>1
  <2>4. Places = {} /\ AllPopped = {}
    BY <2>2, <2>3, FS_EmptySet
  <2>5. o \notin ItemsOf(mOps[GroupOf[o]])
    <3>1. DOMAIN mOps[GroupOf[o]] = 1 .. Len(mOps[GroupOf[o]])
      BY <1>1, PlacesType
    <3>2. \A i \in DOMAIN mOps[GroupOf[o]] : <<GroupOf[o], i>> \in PlacesIn(mOps)
      BY <1>1, <3>1, PlacesType
    <3> QED
      BY <2>4, <3>2 DEF ItemsOf, Places, PlacesIn
  <2>6. \A r \in Runners : ~Holds(r, o)
    BY <2>4 DEF AllPopped, Holds, Holding
  <2> QED
    BY <1>2, <2>5, <2>6
<1>4. CASE at[c] # TheOpq
  <2> DEFINE g == GroupOf[o]
  <2>1. at[c] = g /\ g \in Groups
    BY <1>1, <1>4
  <2>2. GroupUncounted(g) = {} /\ Cardinality(GroupUncounted(g)) = 0
    BY <1>4, <2>1, FS_EmptySet DEF QuietDrains, GroupUncounted
  <2>3. /\ Cardinality(GroupPopped(g)) \in Nat /\ IsFiniteSet(GroupPopped(g))
        /\ Len(mOps[g]) \in Nat /\ DOMAIN mOps[g] = 1 .. Len(mOps[g])
    BY <1>1, PlacesType, FiniteCounts
  <2>4. Len(mOps[g]) = 0 /\ Cardinality(GroupPopped(g)) = 0
    <3>1. 0 = Len(mOps[g]) - Cardinality(GroupUncounted(g)) + Cardinality(GroupPopped(g))
      BY <2>1 DEF DrainInv, Inv, Counted
    <3>2. 0 = Len(mOps[g]) - 0 + Cardinality(GroupPopped(g))
      BY <2>2, <3>1, Zenon
    <3> QED
      BY <2>3, <3>2
  <2>5. DOMAIN mOps[g] = {} /\ GroupPopped(g) = {}
    BY <2>3, <2>4, FS_EmptySet
  <2>6. o \notin ItemsOf(mOps[g])
    BY <2>5 DEF ItemsOf
  <2>7. \A r \in Runners : ~(Holds(r, o) /\ Group(r) = g)
    BY <2>5 DEF GroupPopped, Holds, Holding
  <2> QED
    BY <1>2, <2>6, <2>7
<1> QED
  BY <1>3, <1>4

LEMMA DrainEnds ==
    ASSUME TypeOK, Next, NEW c \in Clients, pc[c] = "drain", pc'[c] = "idle"
    PROVE  mOpCounter[at[c]] = 0
<1>1. /\ pc \in [Threads -> ClientLabels \cup RunnerLabels] /\ c \in Threads /\ c \notin Runners
      /\ Workers \subseteq Runners
  BY Kinds DEF TypeOK
<1>2. ASSUME NEW d \in Clients, Call(d) \/ InCall(d) \/ \E s \in Synchros : SpuriousWakeup(d, s)
      PROVE  mOpCounter[at[c]] = 0
  <2>1. d = c
    BY <1>1, <1>2 DEF Goto, WaitOnCondition, Call, InCall, StartPush, StartSync, StartDrain,
       Destroy, Throttle, PushClaim, PushPublish, PushAddToGroup, PushAddToOpq, PushNotify,
       Await, Drain, Joining, SpuriousWakeup
  <2> QED
    BY <1>1, <1>2, <2>1 DEF Free, Goto, WaitOnCondition, Call, InCall, StartPush, StartSync,
       StartDrain, Destroy, Throttle, PushClaim, PushPublish, PushAddToGroup, PushAddToOpq,
       PushNotify, Await, Drain, Joining, SpuriousWakeup
<1>3. ASSUME NEW r \in Runners, (r \in Workers /\ Work(r)) \/ Process(r)
      PROVE  mOpCounter[at[c]] = 0
  BY <1>1, <1>3 DEF Goto, Advance, Returned, Work, WorkerStart, WorkerTest, WorkerWait, WorkerWoken,
     WorkerLeave, Process, Inspect, NumOps, TryPop, CountInFlight, Run, RemoveFromOpq,
     RemoveFromGroup, UncountInFlight
<1> QED
  BY <1>1, <1>2, <1>3 DEF Next

\* When drain returns, every lambda whose push had returned when it began has
\* run to its end, whatever the threads that push elsewhere and that call
\* Process are doing (ork/kernel/opq.cpp, Opq::drain and OpGroup::drain).
THEOREM DrainedAll == Spec /\ []QuietDrains => DrainFlushes
<1>1. DrainInv /\ QuietDrains /\ [Next]_vars =>
        [\A c \in Clients : pc[c] = "drain" /\ pc'[c] = "idle" => promised[c] \subseteq done]_vars
  <2> SUFFICES ASSUME DrainInv, QuietDrains, [Next]_vars,
                      NEW c \in Clients, pc[c] = "drain", pc'[c] = "idle"
               PROVE  promised[c] \subseteq done
    OBVIOUS
  <2>1. CASE Next
    BY <2>1, DrainEnds, NothingLeft DEF DrainInv, Inv
  <2>2. CASE UNCHANGED vars
    BY <2>2 DEF vars
  <2> QED
    BY <2>1, <2>2
<1> QED
  BY <1>1, Invariance, PTL DEF Spec, DrainFlushes

\* One thread that pushes and drains, as in test/opq.cpp, needs no hypothesis.
COROLLARY DrainedAlone ==
    ASSUME \A c, d \in Clients : c = d
    PROVE  Spec => DrainFlushes
<1>1. QuietDrains
  BY DEF QuietDrains
<1> QED
  BY <1>1, DrainedAll, PTL

----------------------------------------------------------------------------
(* What sync promises.                                                     *)

\* One thread at a time is between the pop of an operation of the default group
\* and the end of it: one thread calls Process on the queue, or the group is
\* serial as MakeSerial means it.
OneRuns ==
    \A r, s \in Runners :
        /\ pc[r] \in Holding /\ Group(r) = DefaultGroup
        /\ pc[s] \in Holding /\ Group(s) = DefaultGroup
        => r = s

Taken(x) == \E r \in Runners : Holds(r, x) /\ Group(r) = DefaultGroup

\* What a sync has promised is in front of its barrier, until it has run.
Ahead ==
    \A c \in Clients : op[c] = c =>
        /\ pc[c] \in Pushing => at[c] = DefaultGroup
        /\ pc[c] \in Unclaimed => \A o \in promised[c] :
              o \in done \/ o \in ItemsOf(mOps[DefaultGroup]) \/ Taken(o)
        /\ pc[c] \in Queued => \A o \in promised[c] :
              \/ o \in done
              \/ /\ c \in ItemsOf(mOps[DefaultGroup])
                 /\ Before(mOps[DefaultGroup], o, c) \/ Taken(o)

\* The steps that leave every promise as it is.
Onward ==
    /\ \A c \in Clients : op'[c] = c =>
        /\ pc'[c] \in Pushing => op[c] = c /\ pc[c] \in Pushing /\ at'[c] = at[c]
        /\ pc'[c] \in Unclaimed => op[c] = c /\ pc[c] \in Unclaimed /\ promised'[c] = promised[c]
        /\ pc'[c] \in Queued => op[c] = c /\ pc[c] \in Queued /\ promised'[c] = promised[c]
    /\ \A r \in Runners : pc[r] \in Holding =>
            pc'[r] \in Holding /\ op'[r] = op[r] /\ at'[r] = at[r]
    /\ ItemsOf(mOps'[DefaultGroup]) = ItemsOf(mOps[DefaultGroup])
    /\ \A x, y : Before(mOps[DefaultGroup], x, y) => Before(mOps'[DefaultGroup], x, y)
    /\ done' = done

LEMMA OnwardKeeps ==
    ASSUME Onward, Ahead  PROVE Ahead'
<1>1. \A x : Taken(x) => Taken(x)'
  BY DEF Onward, Taken, Holds, Group
<1> QED
  BY <1>1 DEF Onward, Ahead

LEMMA ClientsOnward ==
    ASSUME Inv, NEW d \in Clients, Call(d) \/ InCall(d) \/ \E s \in Synchros : SpuriousWakeup(d, s),
           ~StartSync(d), ~PushClaim(d)
    PROVE  Onward
<1>1. /\ d \in Threads /\ d \notin Runners /\ Clients \subseteq Threads /\ Runners \subseteq Threads
      /\ pc \in [Threads -> ClientLabels \cup RunnerLabels] /\ op \in [Threads -> Items \cup {None}]
      /\ at \in [Threads -> Synchros \cup DOMAIN GroupOrder] /\ DefaultGroup \in Groups
      /\ promised \in [Clients -> SUBSET Ops] /\ \A o \in Ops : o # d
  BY Kinds DEF Inv, TypeOK
<1>2. \A t \in Threads \ {d} : pc'[t] = pc[t] /\ op'[t] = op[t] /\ at'[t] = at[t]
  BY <1>1 DEF Goto, WaitOnCondition, Call, InCall, StartPush, StartDrain, Destroy, Throttle,
     PushPublish, PushAddToGroup, PushAddToOpq, PushNotify, Await, Drain, Joining, SpuriousWakeup
<1>3. \A c \in Clients \ {d} : promised'[c] = promised[c]
  BY <1>1 DEF history, Call, InCall, StartPush, StartDrain, Destroy, Throttle, PushPublish,
     PushAddToGroup, PushAddToOpq, PushNotify, Await, Drain, Joining, SpuriousWakeup
<1>4. op'[d] = d =>
        /\ pc'[d] \in Pushing => op[d] = d /\ pc[d] \in Pushing /\ at'[d] = at[d]
        /\ pc'[d] \in Unclaimed => op[d] = d /\ pc[d] \in Unclaimed /\ promised'[d] = promised[d]
        /\ pc'[d] \in Queued => op[d] = d /\ pc[d] \in Queued /\ promised'[d] = promised[d]
  BY <1>1 DEF Free, Goto, WaitOnCondition, history, Call, InCall, StartPush, StartDrain, Destroy,
     Throttle, PushPublish, PushAddToGroup, PushAddToOpq, PushNotify, Await, Drain, Joining,
     SpuriousWakeup, Pushing, Unclaimed, Queued
<1>5. /\ ItemsOf(mOps'[DefaultGroup]) = ItemsOf(mOps[DefaultGroup])
      /\ \A x, y : Before(mOps[DefaultGroup], x, y) => Before(mOps'[DefaultGroup], x, y)
  <2>1. CASE PushPublish(d)
    <3>1. /\ mOps' = [mOps EXCEPT ![at[d]] = Published(@, d)]
          /\ mOps \in [Groups -> Queues(Items, Clients)]
      BY <2>1, Typed DEF PushPublish, Inv
    <3>2. mOps'[DefaultGroup] = IF at[d] = DefaultGroup THEN Published(mOps[DefaultGroup], d)
                                                        ELSE mOps[DefaultGroup]
      BY <1>1, <3>1
    <3>3. mOps[DefaultGroup] \in Queues(Items, Clients)
      BY <1>1, <3>1
    <3>4. ItemsOf(Published(mOps[DefaultGroup], d)) = ItemsOf(mOps[DefaultGroup])
      BY <3>3, PublishedQueue
    <3>5. \A x, y : Before(mOps[DefaultGroup], x, y) => Before(Published(mOps[DefaultGroup], d), x, y)
      BY PublishedOrder
    <3> QED
      BY <3>2, <3>4, <3>5
  <2>2. CASE ~PushPublish(d)
    <3>1. mOps' = mOps
      BY <2>2 DEF Call, InCall, StartPush, StartDrain, Destroy, Throttle, PushAddToGroup,
         PushAddToOpq, PushNotify, Await, Drain, Joining, SpuriousWakeup
    <3> QED
      BY <3>1
  <2> QED
    BY <2>1, <2>2
<1>6. done' = done
  BY DEF history, Call, InCall, StartPush, StartDrain, Destroy, Throttle, PushPublish,
     PushAddToGroup, PushAddToOpq, PushNotify, Await, Drain, Joining, SpuriousWakeup
<1> QED
  BY <1>1, <1>2, <1>3, <1>4, <1>5, <1>6 DEF Onward

LEMMA RunnersOnward ==
    ASSUME Inv, NEW r \in Runners,
           \/ (r \in Workers /\ Work(r)) \/ Inspect(r) \/ NumOps(r)
           \/ (TryPop(r) /\ ~Ready(mOps[Group(r)]))
           \/ CountInFlight(r) \/ RemoveFromOpq(r) \/ RemoveFromGroup(r) \/ UncountInFlight(r)
    PROVE  Onward
<1>1. Same
  BY QuietRunners DEF Inv
<1>2. mOps' = mOps /\ promised' = promised
  BY DEF history, Work, WorkerStart, WorkerTest, WorkerWait, WorkerWoken, WorkerLeave, Inspect,
     NumOps, TryPop, CountInFlight, RemoveFromOpq, RemoveFromGroup, UncountInFlight
<1> QED
  BY <1>1, <1>2 DEF Same, Onward

\* The sync begins: what it promises has been pushed.
LEMMA StartSyncAhead ==
    ASSUME Inv, Kept, Ahead, NEW d \in Clients, StartSync(d)
    PROVE  Ahead'
<1>1. /\ d \in Threads /\ d \notin Runners /\ Clients \subseteq Threads /\ Runners \subseteq Threads
      /\ pc \in [Threads -> ClientLabels \cup RunnerLabels] /\ op \in [Threads -> Items \cup {None}]
      /\ at \in [Threads -> Synchros \cup DOMAIN GroupOrder] /\ returned \subseteq Ops
      /\ promised \in [Clients -> SUBSET Ops]
  BY Kinds DEF Inv, TypeOK
<1>2. /\ \A t \in Threads \ {d} : pc'[t] = pc[t] /\ op'[t] = op[t] /\ at'[t] = at[t]
      /\ pc'[d] = "throttle" /\ at'[d] = DefaultGroup
      /\ promised' = [promised EXCEPT ![d] = {o \in returned : GroupOf[o] = DefaultGroup}]
      /\ UNCHANGED <<mOps, done>>
  BY <1>1 DEF StartSync, Goto
<1>3. \A x : Taken(x)' <=> Taken(x)
  BY <1>1, <1>2 DEF Taken, Holds, Group
<1>4. \A o \in promised'[d] : o \in done \/ o \in ItemsOf(mOps[DefaultGroup]) \/ Taken(o)
  BY <1>1, <1>2 DEF Kept, Pushed, Taken
<1>5. pc'[d] \in Pushing /\ pc'[d] \in Unclaimed /\ pc'[d] \notin Queued
  BY <1>2 DEF Pushing, Unclaimed, Queued
<1>6. \A c \in Clients \ {d} : promised'[c] = promised[c]
  BY <1>1, <1>2
<1> QED
  BY <1>1, <1>2, <1>3, <1>4, <1>5, <1>6 DEF Ahead

\* An item gets the last place: what is queued is ahead of it.
LEMMA PushClaimAhead ==
    ASSUME Inv, Ahead, NEW d \in Clients, PushClaim(d)
    PROVE  Ahead'
<1> DEFINE q == mOps[DefaultGroup]
<1>1. /\ d \in Threads /\ d \notin Runners /\ Clients \subseteq Threads /\ Runners \subseteq Threads
      /\ pc \in [Threads -> ClientLabels \cup RunnerLabels] /\ DefaultGroup \in Groups
      /\ mOps \in [Groups -> Queues(Items, Clients)]
      /\ op[d] \in Items /\ at[d] \in Groups
  <2>1. op[d] \in Items \cup {None} /\ op[d] # None /\ at[d] \in Groups
    BY Kinds DEF Inv, TypeOK, Calls, Pushing, PushClaim
  <2> QED
    BY <2>1, Kinds, Typed DEF Inv, TypeOK
<1>2. /\ pc[d] = "claim" /\ pc'[d] = "publish" /\ \A t \in Threads \ {d} : pc'[t] = pc[t]
      /\ mOps' = [mOps EXCEPT ![at[d]] = Claimed(@, d, op[d])]
      /\ UNCHANGED <<op, at, done, promised>>
  BY <1>1 DEF PushClaim, Goto, history
<1>3. \A x : Taken(x)' <=> Taken(x)
  BY <1>1, <1>2 DEF Taken, Holds, Group
<1>4. q \in Queues(Items, Clients) /\ DefaultGroup \in DOMAIN mOps
  BY <1>1
<1>5. mOps'[DefaultGroup] = IF at[d] = DefaultGroup THEN Claimed(q, d, op[d]) ELSE q
  BY <1>1, <1>2
<1> HIDE DEF q
<1>6. /\ \A y, z : Before(q, y, z) => Before(mOps'[DefaultGroup], y, z)
      /\ \A x \in ItemsOf(q) : x \in ItemsOf(mOps'[DefaultGroup])
      /\ at[d] = DefaultGroup =>
            /\ op[d] \in ItemsOf(mOps'[DefaultGroup])
            /\ \A y \in ItemsOf(q) : Before(mOps'[DefaultGroup], y, op[d])
  <2>1. /\ ItemsOf(Claimed(q, d, op[d])) = ItemsOf(q) \cup {op[d]}
        /\ \A y, z : Before(q, y, z) => Before(Claimed(q, d, op[d]), y, z)
        /\ \A y \in ItemsOf(q) : Before(Claimed(q, d, op[d]), y, op[d])
    BY <1>1, <1>4, ClaimedQueue, ClaimedOrder
  <2> QED
    BY <1>5, <2>1
<1>7. /\ pc[d] \in Pushing /\ pc[d] \in Unclaimed
      /\ pc'[d] \in Pushing /\ pc'[d] \notin Unclaimed
  BY <1>2 DEF Pushing, Unclaimed
<1>8. ASSUME NEW c \in Clients, op[c] = c
      PROVE  /\ pc'[c] \in Pushing => at[c] = DefaultGroup
             /\ pc'[c] \in Unclaimed => \A o \in promised[c] :
                   o \in done \/ o \in ItemsOf(mOps'[DefaultGroup]) \/ Taken(o)
             /\ pc'[c] \in Queued => \A o \in promised[c] :
                   \/ o \in done
                   \/ /\ c \in ItemsOf(mOps'[DefaultGroup])
                      /\ Before(mOps'[DefaultGroup], o, c) \/ Taken(o)
  <2>1. CASE c = d
    <3>1. at[d] = DefaultGroup /\ \A o \in promised[d] : o \in done \/ o \in ItemsOf(q) \/ Taken(o)
      BY <1>7, <1>8, <2>1 DEF Ahead, q
    <3> QED
      BY <1>6, <1>7, <1>8, <2>1, <3>1
  <2>2. CASE c # d
    <3>1. pc'[c] = pc[c]
      BY <1>1, <1>2, <2>2
    <3> QED
      BY <1>6, <1>8, <3>1 DEF Ahead, q
  <2> QED
    BY <2>1, <2>2
<1> QED
  BY <1>2, <1>3, <1>8 DEF Ahead

\* The head is taken: when it is a barrier, what it has promised has run, and
\* when it is promised, the barrier is behind it.
LEMMA TryPopAhead ==
    ASSUME Inv, Ahead, OneRuns', NEW r \in Runners, TryPop(r), Ready(mOps[Group(r)])
    PROVE  Ahead'
<1> DEFINE q == mOps[DefaultGroup]
           x == First(mOps[Group(r)])
<1>1. /\ r \in Threads /\ r \notin Clients /\ Clients \subseteq Threads /\ Runners \subseteq Threads
      /\ pc \in [Threads -> ClientLabels \cup RunnerLabels] /\ op \in [Threads -> Items \cup {None}]
      /\ DefaultGroup \in Groups /\ mOps \in [Groups -> Queues(Items, Clients)]
      /\ Group(r) \in Groups
  BY Kinds, Typed DEF Inv, TypeOK
<1>2. /\ pc[r] = "pop" /\ pc'[r] = "count" /\ op'[r] = x
      /\ \A t \in Threads \ {r} : pc'[t] = pc[t] /\ op'[t] = op[t]
      /\ mOps' = [mOps EXCEPT ![Group(r)] = Rest(mOps[Group(r)])]
      /\ UNCHANGED <<at, done, promised>>
  BY <1>1 DEF TryPop, Goto, history
<1>3. \A y : Taken(y) => Taken(y)'
  BY <1>1, <1>2 DEF Taken, Holds, Group, Holding
<1>4. \A c \in Clients : pc'[c] = pc[c] /\ op'[c] = op[c]
  BY <1>1, <1>2
<1>5. q \in Queues(Items, Clients) /\ NoTwice(q)
  BY <1>1 DEF Inv, Placed
<1>6. CASE Group(r) # DefaultGroup
  <2>1. mOps'[DefaultGroup] = q
    BY <1>1, <1>2, <1>6
  <2> QED
    BY <1>2, <1>3, <1>4, <2>1 DEF Ahead
<1>7. CASE Group(r) = DefaultGroup
  <2>1. mOps'[DefaultGroup] = Rest(q) /\ Ready(q) /\ op'[r] = First(q)
    BY <1>1, <1>2, <1>7
  <2>2. PICK h \in Items : h = First(q)
    BY <1>5, <2>1, RestQueue
  <2>3. Taken(h)'
    BY <1>2, <1>7, <2>1, <2>2 DEF Taken, Holds, Holding, Group
  <2>4. \A y : ~Taken(y)
    BY <1>1, <1>2, <1>7 DEF OneRuns, Taken, Holds, Holding, Group
  <2> HIDE DEF q
  <2>5. \A y, z : Before(q, y, z) => /\ z \in ItemsOf(Rest(q))
                                     /\ y # h => Before(Rest(q), y, z)
    BY <1>5, <2>1, <2>2, RestOrder
  <2>6. ItemsOf(q) = ItemsOf(Rest(q)) \cup {h}
    BY <1>5, <2>1, <2>2, RestQueue
  <2> QED
    BY <1>2, <1>4, <2>1, <2>3, <2>4, <2>5, <2>6 DEF Ahead, q
<1> QED
  BY <1>6, <1>7

LEMMA RunAhead ==
    ASSUME Inv, Ahead, NEW r \in Runners, Run(r)
    PROVE  Ahead'
<1>1. /\ r \in Threads /\ r \notin Clients /\ Clients \subseteq Threads /\ Runners \subseteq Threads
      /\ pc \in [Threads -> ClientLabels \cup RunnerLabels]
      /\ promised \in [Clients -> SUBSET Ops]
  BY Kinds DEF Inv, TypeOK
<1>2. /\ \A t \in Threads \ {r} : pc'[t] = pc[t]
      /\ done' = done \cup ({op[r]} \cap Ops) /\ UNCHANGED <<mOps, op, at, promised>>
  BY <1>1 DEF Run, Goto
<1>3. \A o \in Ops : Taken(o) => o \in done' \/ Taken(o)'
  BY <1>1, <1>2 DEF Taken, Holds, Group
<1>4. \A c \in Clients : pc'[c] = pc[c] /\ promised[c] \subseteq Ops
  BY <1>1, <1>2
<1> QED
  BY <1>2, <1>3, <1>4 DEF Ahead

LEMMA AheadStep ==
    ASSUME Inv, Kept, Ahead, OneRuns', Next  PROVE Ahead'
<1>1. ASSUME NEW c \in Clients, Call(c) \/ InCall(c) \/ \E s \in Synchros : SpuriousWakeup(c, s)
      PROVE  Ahead'
  <2>1. CASE StartSync(c) \/ PushClaim(c)
    BY <2>1, StartSyncAhead, PushClaimAhead
  <2>2. CASE ~StartSync(c) /\ ~PushClaim(c)
    BY <1>1, <2>2, ClientsOnward, OnwardKeeps
  <2> QED
    BY <2>1, <2>2
<1>2. ASSUME NEW r \in Runners, (r \in Workers /\ Work(r)) \/ Process(r)
      PROVE  Ahead'
  <2>1. CASE TryPop(r) /\ Ready(mOps[Group(r)])
    BY <2>1, TryPopAhead
  <2>2. CASE Run(r)
    BY <2>2, RunAhead
  <2>3. CASE \/ (r \in Workers /\ Work(r)) \/ Inspect(r) \/ NumOps(r)
             \/ (TryPop(r) /\ ~Ready(mOps[Group(r)]))
             \/ CountInFlight(r) \/ RemoveFromOpq(r) \/ RemoveFromGroup(r) \/ UncountInFlight(r)
    BY <2>3, RunnersOnward, OnwardKeeps
  <2> QED
    BY <1>2, <2>1, <2>2, <2>3 DEF Process
<1> QED
  BY <1>1, <1>2, Kinds DEF Next

LEMMA AwaitEnds ==
    ASSUME TypeOK, Next, NEW c \in Clients, pc[c] = "await", pc'[c] = "idle"
    PROVE  c \in signalled
<1>1. /\ pc \in [Threads -> ClientLabels \cup RunnerLabels] /\ c \in Threads /\ c \notin Runners
      /\ Workers \subseteq Runners
  BY Kinds DEF TypeOK
<1>2. ASSUME NEW d \in Clients, Call(d) \/ InCall(d) \/ \E s \in Synchros : SpuriousWakeup(d, s)
      PROVE  c \in signalled
  <2>1. d = c
    BY <1>1, <1>2 DEF Goto, WaitOnCondition, Call, InCall, StartPush, StartSync, StartDrain,
       Destroy, Throttle, PushClaim, PushPublish, PushAddToGroup, PushAddToOpq, PushNotify,
       Await, Drain, Joining, SpuriousWakeup
  <2> QED
    BY <1>1, <1>2, <2>1 DEF Free, Goto, WaitOnCondition, Call, InCall, StartPush, StartSync,
       StartDrain, Destroy, Throttle, PushClaim, PushPublish, PushAddToGroup, PushAddToOpq,
       PushNotify, Await, Drain, Joining, SpuriousWakeup
<1>3. ASSUME NEW r \in Runners, (r \in Workers /\ Work(r)) \/ Process(r)
      PROVE  c \in signalled
  BY <1>1, <1>3 DEF Goto, Advance, Returned, Work, WorkerStart, WorkerTest, WorkerWait, WorkerWoken,
     WorkerLeave, Process, Inspect, NumOps, TryPop, CountInFlight, Run, RemoveFromOpq,
     RemoveFromGroup, UncountInFlight
<1> QED
  BY <1>1, <1>2, <1>3 DEF Next

\* When sync returns, every lambda of the default group whose push had returned
\* when it began has run to its end (ork/kernel/opq.cpp, Opq::sync), provided
\* one thread at a time executes operations of that group.
THEOREM SyncedAll == Spec /\ []OneRuns => SyncFlushes
<1>1. Init => Ahead
  BY Kinds DEF Init, Ahead
<1>2. DrainInv /\ Ahead /\ OneRuns' /\ [Next]_vars => Ahead'
  <2> SUFFICES ASSUME DrainInv, Ahead, OneRuns', [Next]_vars  PROVE Ahead'
    OBVIOUS
  <2>1. CASE Next
    BY <2>1, AheadStep DEF DrainInv
  <2>2. CASE UNCHANGED vars
    <3>1. UNCHANGED <<mOps, pc, op, at, done, promised>>
      BY <2>2 DEF vars, history
    <3> QED
      BY <3>1 DEF Ahead, Taken, Holds, Group
  <2> QED
    BY <2>1, <2>2
<1>3. DrainInv /\ Ahead /\ [Next]_vars =>
        [\A c \in Clients : pc[c] = "await" /\ pc'[c] = "idle" => promised[c] \subseteq done]_vars
  <2> SUFFICES ASSUME DrainInv, Ahead, Next,
                      NEW c \in Clients, pc[c] = "await", pc'[c] = "idle",
                      NEW o \in promised[c]
               PROVE  o \in done
    BY DEF vars
  <2>1. c \in signalled /\ c \in Items
    BY AwaitEnds, Kinds DEF DrainInv, Inv
  <2>2. ~Somewhere(c)
    BY <2>1 DEF DrainInv, Inv, Passing, Over
  <2>3. c \notin ItemsOf(mOps[DefaultGroup])
    BY <2>2, Kinds DEF Somewhere
  <2>4. op[c] = c /\ pc[c] \in Queued
    BY DEF DrainInv, Inv, Calls, Queued
  <2> QED
    BY <2>3, <2>4 DEF Ahead
<1> QED
  BY <1>1, <1>2, <1>3, Invariance, PTL DEF Spec, SyncFlushes

\* The queues that one thread pumps, UpdateSerialOpQ and MainThreadOpQ, need no
\* hypothesis.
COROLLARY SyncedAlone ==
    ASSUME \A r, s \in Runners : r = s
    PROVE  Spec => SyncFlushes
<1>1. OneRuns
  BY DEF OneRuns
<1> QED
  BY <1>1, SyncedAll, PTL

----------------------------------------------------------------------------
(* The refinement of OperationQueue: a claim pushes, a pop starts and the   *)
(* end of a lambda, or a signal, finishes.                                  *)

Orders == [g \in Groups |-> InOrder(mOps[g])]
Executing == [g \in Groups |-> ExecutingIn(g)]

Unseen == UNCHANGED <<Orders, Executing, done \cup signalled>>

LEMMA ExecutingKept ==
    ASSUME \A r \in Runners :
              /\ pc'[r] \in Holding <=> pc[r] \in Holding
              /\ pc[r] \in Holding => op'[r] = op[r] /\ at'[r] = at[r]
    PROVE  Executing' = Executing
<1>1. ASSUME NEW g \in Groups  PROVE ExecutingIn(g)' = ExecutingIn(g)
  <2> DEFINE H == {s \in Runners : pc[s] \in Holding /\ Group(s) = g}
  <2>1. H' = H
    BY DEF Group
  <2>2. \A r \in H : op'[r] = op[r]
    OBVIOUS
  <2>3. ExecutingIn(g) = {op[r] : r \in H} /\ ExecutingIn(g)' = {op'[r] : r \in H'}
    BY DEF ExecutingIn, Holding
  <2> HIDE DEF H
  <2> QED
    BY <2>1, <2>2, <2>3
<1> QED
  BY <1>1 DEF Executing

LEMMA QueuedOrExecuting ==
    ASSUME NEW x
    PROVE  /\ Promise!Queued(x) <=> \E g \in Groups : x \in ItemsOf(mOps[g])
           /\ Promise!Executing(x) <=> \E r \in Runners : Holds(r, x) /\ Group(r) \in Groups
<1>1. ASSUME NEW g \in Groups
      PROVE  x \in ItemsOf(mOps[g]) <=> \E i \in DOMAIN InOrder(mOps[g]) : InOrder(mOps[g])[i] = x
  BY DEF InOrder, ItemsOf
<1>2. ASSUME NEW g \in Groups
      PROVE  x \in ExecutingIn(g) <=> \E r \in Runners : Holds(r, x) /\ Group(r) = g
  BY DEF ExecutingIn, Holds, Holding
<1> QED
  BY <1>1, <1>2 DEF Promise!Queued, Promise!Executing

\* The steps of a client: a claim is a push, the start of a sync may use its
\* barrier again, and the rest is not seen.
LEMMA ClientsMap ==
    ASSUME Inv, NEW c \in Clients, Call(c) \/ InCall(c) \/ \E s \in Synchros : SpuriousWakeup(c, s)
    PROVE  Promise!Next \/ Unseen
<1>1. /\ c \in Threads /\ c \notin Runners /\ Runners \subseteq Threads
      /\ pc \in [Threads -> ClientLabels \cup RunnerLabels]
      /\ op \in [Threads -> Items \cup {None}] /\ at \in [Threads -> Synchros \cup DOMAIN GroupOrder]
      /\ mOps \in [Groups -> Queues(Items, Clients)]
  BY Kinds, Typed DEF Inv, TypeOK
<1>2. \A r \in Runners : pc'[r] = pc[r] /\ op'[r] = op[r] /\ at'[r] = at[r]
  BY <1>1 DEF Call, InCall, StartPush, StartSync, StartDrain, Destroy, Throttle, PushClaim,
     PushPublish, PushAddToGroup, PushAddToOpq, PushNotify, Await, Drain, Joining, SpuriousWakeup,
     WaitOnCondition, Goto
<1>3. Executing' = Executing
  BY <1>2, ExecutingKept
<1>4. CASE PushClaim(c)
  <2> DEFINE x == op[c]
             g == at[c]
  <2>1. /\ pc[c] = "claim" /\ mOps' = [mOps EXCEPT ![g] = Claimed(@, c, x)]
        /\ UNCHANGED <<signalled, done>>
    BY <1>4 DEF PushClaim, history
  <2>2. x \in Items /\ g \in Groups
    BY <1>1, <2>1 DEF Inv, Calls, Pushing
  <2>3. ~Somewhere(x) /\ ~Over(x)
    BY <2>1, <2>2 DEF Inv, Passing, Pending, Unclaimed
  <2>4. ~Promise!Queued(x) /\ ~Promise!Executing(x) /\ x \notin done \cup signalled
    BY <2>3, QueuedOrExecuting DEF Somewhere, Over
  <2>5. Orders' = [Orders EXCEPT ![g] = Append(@, x)]
    <3>1. ASSUME NEW h \in Groups
          PROVE  InOrder(mOps'[h]) = IF h = g THEN Append(InOrder(mOps[h]), x) ELSE InOrder(mOps[h])
      <4>1. mOps[h] \in Queues(Items, Clients)
        BY <1>1
      <4>2. mOps'[h] = IF h = g THEN Claimed(mOps[h], c, x) ELSE mOps[h]
        BY <1>1, <2>1
      <4> HIDE DEF x, g
      <4>3. InOrder(Claimed(mOps[h], c, x)) = Append(InOrder(mOps[h]), x)
        BY <2>2, <4>1, ClaimedInOrder
      <4> QED
        BY <4>2, <4>3
    <3> HIDE DEF x, g
    <3> QED
      BY <3>1 DEF Orders
  <2>6. Promise!Push(g, x)
    BY <1>3, <2>1, <2>4, <2>5 DEF Promise!Push, Orders, Executing
  <2> QED
    BY <2>2, <2>6 DEF Promise!Next, Promise!Operations, Items
<1>5. CASE StartSync(c)
  <2>1. signalled' = signalled \ {c} /\ UNCHANGED <<mOps, done>>
    BY <1>5 DEF StartSync
  <2>2. Orders' = Orders
    BY <2>1 DEF Orders
  <2>3. done' \cup signalled' = (done \cup signalled) \ {c}
    BY <2>1, Kinds DEF Inv, TypeOK
  <2>4. CASE c \in signalled
    <3>1. Promise!Renew(c)
      BY <1>3, <2>2, <2>3, <2>4 DEF Promise!Renew, Orders, Executing
    <3> QED
      BY <3>1 DEF Promise!Next
  <2>5. CASE c \notin signalled
    BY <1>3, <2>1, <2>2, <2>5 DEF Unseen
  <2> QED
    BY <2>4, <2>5
<1>6. CASE PushPublish(c)
  <2>1. mOps' = [mOps EXCEPT ![at[c]] = Published(@, c)] /\ UNCHANGED <<signalled, done>>
    BY <1>6 DEF PushPublish, history
  <2>2. ASSUME NEW h \in Groups  PROVE InOrder(mOps'[h]) = InOrder(mOps[h])
    BY <1>1, <2>1, PublishedInOrder
  <2>3. Orders' = Orders
    BY <2>2 DEF Orders
  <2> QED
    BY <1>3, <2>1, <2>3 DEF Unseen
<1>7. CASE ~PushClaim(c) /\ ~StartSync(c) /\ ~PushPublish(c)
  <2>1. UNCHANGED <<mOps, signalled, done>>
    BY <1>7 DEF Call, InCall, StartPush, StartDrain, Destroy, Throttle, PushAddToGroup,
       PushAddToOpq, PushNotify, Await, Drain, Joining, SpuriousWakeup, history
  <2> QED
    BY <1>3, <2>1 DEF Unseen, Orders
<1> QED
  BY <1>4, <1>5, <1>6, <1>7

LEMMA TryPopMaps ==
    ASSUME Inv, NEW r \in Runners, TryPop(r), Ready(mOps[Group(r)])
    PROVE  Promise!Start(Group(r))
<1> DEFINE g == Group(r)
           q == mOps[g]
<1>1. /\ pc \in [Threads -> ClientLabels \cup RunnerLabels] /\ op \in [Threads -> Items \cup {None}]
      /\ r \in Threads /\ Runners \subseteq Threads
      /\ mOps \in [Groups -> Queues(Items, Clients)] /\ g \in Groups
  BY Kinds, Typed DEF Inv, TypeOK
<1>2. /\ pc[r] = "pop" /\ pc'[r] = "count" /\ op'[r] = First(q)
      /\ \A t \in Threads \ {r} : pc'[t] = pc[t] /\ op'[t] = op[t]
      /\ mOps' = [mOps EXCEPT ![g] = Rest(q)]
      /\ UNCHANGED <<at, signalled, done>>
  BY <1>1 DEF TryPop, Goto, history
<1>3. InOrder(q) # <<>> /\ Head(InOrder(q)) = First(q) /\ InOrder(Rest(q)) = Tail(InOrder(q))
  <2>1. q \in Queues(Items, Clients) /\ Ready(q)
    BY <1>1
  <2> HIDE DEF q
  <2> QED
    BY <2>1, RestInOrder
<1>4. Orders' = [Orders EXCEPT ![g] = Tail(@)]
  <2>1. \A h \in Groups : mOps'[h] = IF h = g THEN Rest(q) ELSE mOps[h]
    BY <1>1, <1>2
  <2> HIDE DEF g
  <2> QED
    BY <1>3, <2>1 DEF Orders
<1>5. ASSUME NEW h \in Groups
      PROVE  ExecutingIn(h)' = IF h = g THEN ExecutingIn(h) \cup {First(q)} ELSE ExecutingIn(h)
  <2>1. \A s \in Runners : Group(s)' = Group(s)
    BY <1>2 DEF Group
  <2>2. \A x : x \in ExecutingIn(h) <=> \E s \in Runners : Holds(s, x) /\ Group(s) = h
    BY DEF ExecutingIn, Holds, Holding
  <2>3. \A x : x \in ExecutingIn(h)' <=> \E s \in Runners : Holds(s, x)' /\ Group(s)' = h
    BY DEF ExecutingIn, Holds, Holding
  <2>4. \A s \in Runners : \A y : Holds(s, y)' <=> Holds(s, y) \/ (s = r /\ y = First(q))
    BY <1>1, <1>2 DEF Holds, Holding
  <2> HIDE DEF q
  <2> QED
    BY <2>1, <2>2, <2>3, <2>4
<1>6. Executing' = [Executing EXCEPT ![g] = @ \cup {Head(Orders[g])}]
  BY <1>1, <1>3, <1>5 DEF Executing, Orders
<1> QED
  BY <1>1, <1>2, <1>3, <1>4, <1>6 DEF Promise!Start, Orders, Executing

LEMMA RunMaps ==
    ASSUME Inv, NEW r \in Runners, Run(r)
    PROVE  op[r] \in Items /\ Group(r) \in Groups /\ Promise!Finish(Group(r), op[r])
<1> DEFINE x == op[r]
           g == Group(r)
<1>1. /\ pc \in [Threads -> ClientLabels \cup RunnerLabels]
      /\ r \in Threads /\ Runners \subseteq Threads /\ g \in Groups
  BY Kinds, Typed DEF Inv, TypeOK
<1>2. /\ pc[r] = "run" /\ pc'[r] = "remOpq" /\ \A t \in Threads \ {r} : pc'[t] = pc[t]
      /\ done' = done \cup ({x} \cap Ops) /\ signalled' = signalled \cup ({x} \cap Clients)
      /\ UNCHANGED <<mOps, op, at>>
  BY <1>1 DEF Run, Goto
<1>3. x \in Items /\ Holds(r, x)
  BY <1>2 DEF Inv, Running, Holds, Holding
<1>4. \A s \in Runners : Holds(s, x) => s = r
  BY <1>3 DEF Inv, Placed, Alone
<1>5. ASSUME NEW h \in Groups
      PROVE  ExecutingIn(h)' = IF h = g THEN ExecutingIn(h) \ {x} ELSE ExecutingIn(h)
  <2>1. \A s \in Runners : Group(s)' = Group(s)
    BY <1>2 DEF Group
  <2>2. \A y : y \in ExecutingIn(h) <=> \E s \in Runners : Holds(s, y) /\ Group(s) = h
    BY DEF ExecutingIn, Holds, Holding
  <2>3. \A y : y \in ExecutingIn(h)' <=> \E s \in Runners : Holds(s, y)' /\ Group(s)' = h
    BY DEF ExecutingIn, Holds, Holding
  <2>4. \A s \in Runners : \A y : Holds(s, y)' <=> Holds(s, y) /\ s # r
    BY <1>1, <1>2 DEF Holds, Holding
  <2>5. \A y : Holds(r, y) => y = x
    BY DEF Holds
  <2> HIDE DEF x
  <2> QED
    BY <1>4, <2>1, <2>2, <2>3, <2>4, <2>5
<1>6. Executing' = [Executing EXCEPT ![g] = @ \ {x}] /\ x \in ExecutingIn(g)
  BY <1>1, <1>3, <1>5 DEF Executing, ExecutingIn, Holds, Holding
<1>7. done' \cup signalled' = (done \cup signalled) \cup {x}
  BY <1>2, <1>3 DEF Items
<1>8. Orders' = Orders
  BY <1>2 DEF Orders
<1> QED
  BY <1>1, <1>3, <1>6, <1>7, <1>8 DEF Promise!Finish, Orders, Executing

LEMMA RunnersMap ==
    ASSUME Inv, NEW r \in Runners, (r \in Workers /\ Work(r)) \/ Process(r)
    PROVE  Promise!Next \/ Unseen
<1>1. CASE TryPop(r) /\ Ready(mOps[Group(r)])
  <2>1. Promise!Start(Group(r)) /\ Group(r) \in Groups
    BY <1>1, TryPopMaps, Typed DEF Inv
  <2> QED
    BY <2>1 DEF Promise!Next
<1>2. CASE Run(r)
  BY <1>2, RunMaps DEF Promise!Next, Promise!Operations, Items
<1>3. CASE \/ (r \in Workers /\ Work(r)) \/ Inspect(r) \/ NumOps(r)
           \/ (TryPop(r) /\ ~Ready(mOps[Group(r)]))
           \/ CountInFlight(r) \/ RemoveFromOpq(r) \/ RemoveFromGroup(r) \/ UncountInFlight(r)
  <2>1. Same
    BY <1>3, QuietRunners DEF Inv
  <2>2. Executing' = Executing
    BY <2>1, ExecutingKept DEF Same
  <2>3. UNCHANGED <<mOps, signalled, done>>
    BY <1>3 DEF Work, WorkerStart, WorkerTest, WorkerWait, WorkerWoken, WorkerLeave, Inspect,
       NumOps, TryPop, CountInFlight, RemoveFromOpq, RemoveFromGroup, UncountInFlight, history
  <2> QED
    BY <2>2, <2>3 DEF Unseen, Orders
<1> QED
  BY <1>1, <1>2, <1>3 DEF Process

\* The Opq keeps its promise (ork/kernel/opq.cpp, push, sync and Process) for any
\* number of clients, workers, pumps, groups and lambdas: operations start in
\* the order of their group's queue, each once, and are finished once.
THEOREM KeepsPromise == Spec => ImplementsQueue
<1>1. Init => Promise!Init
  <2> SUFFICES ASSUME Init  PROVE Promise!Init
    OBVIOUS
  <2>1. ASSUME NEW g \in Groups  PROVE InOrder(mOps[g]) = <<>> /\ ExecutingIn(g) = {}
    <3>1. mOps[g] = <<>> /\ \A r \in Runners : pc[r] \notin {"count", "run"}
      BY Kinds DEF Init
    <3>2. InOrder(<<>>) = <<>>
      BY DEF InOrder
    <3> QED
      BY <3>1, <3>2 DEF ExecutingIn
  <2>2. done \cup signalled = {}
    BY DEF Init
  <2> QED
    BY <2>1, <2>2 DEF Promise!Init
<1>2. DrainInv /\ [Next]_vars => Promise!Next \/ Unseen
  <2> SUFFICES ASSUME Inv, [Next]_vars  PROVE Promise!Next \/ Unseen
    BY DEF DrainInv
  <2>1. CASE UNCHANGED vars
    <3>1. UNCHANGED <<mOps, pc, op, at, signalled, done>>
      BY <2>1 DEF vars, history
    <3> QED
      BY <3>1, ExecutingKept DEF Unseen, Orders
  <2>2. CASE Next
    BY <2>2, ClientsMap, RunnersMap, Kinds DEF Next
  <2> QED
    BY <2>1, <2>2
<1>3. DrainInv /\ [Next]_vars
        => [Promise!Next]_(<<[g \in Groups |-> InOrder(mOps[g])],
                            [g \in Groups |-> ExecutingIn(g)], done \cup signalled>>)
  BY <1>2 DEF Unseen, Orders, Executing
<1> QED
  BY <1>1, <1>3, Invariance, PTL DEF Spec, ImplementsQueue, Promise!Spec

----------------------------------------------------------------------------
(* How far a group outgrows its limit.                                     *)

\* Clients that have passed the throttle and are not counted yet.
Admitted(g) == {c \in Clients : pc[c] \in {"claim", "publish", "addGroup"} /\ at[c] = g}

\* The count at the time when the last of them passed was below the limit.
AdmittedFew ==
    \A g \in Groups : MaxQueued[g] # 0 =>
        mOpCounter[g] + Cardinality(Admitted(g)) <= MaxQueued[g] + Cardinality(Clients) - 1

LEMMA AdmittedCounts ==
    /\ \A g : IsFiniteSet(Admitted(g)) /\ Cardinality(Admitted(g)) \in Nat
              /\ Cardinality(Admitted(g)) <= Cardinality(Clients)
    /\ Cardinality(Clients) \in Nat
<1>1. \A g : Admitted(g) \subseteq Clients
  BY DEF Admitted
<1> QED
  BY <1>1, Finite, FS_Subset, FS_CardinalityType

\* The steps that neither admit anybody nor raise a counter.
LEMMA FewStays ==
    ASSUME TypeOK, AdmittedFew,
           \A g \in Groups : Admitted(g)' = Admitted(g) /\ mOpCounter'[g] \in Int
                             /\ mOpCounter'[g] <= mOpCounter[g]
    PROVE  AdmittedFew'
<1>1. \A g \in Groups : mOpCounter[g] \in Int /\ MaxQueued[g] \in Nat
  BY Kinds, GroupsAssumption DEF TypeOK
<1> QED
  BY <1>1, AdmittedCounts DEF AdmittedFew

LEMMA ThrottleFew ==
    ASSUME Inv, AdmittedFew, NEW c \in Clients, Throttle(c)
    PROVE  AdmittedFew'
<1>1. /\ c \in Threads /\ Clients \subseteq Threads /\ at[c] \in Groups /\ pc[c] = "throttle"
      /\ pc \in [Threads -> ClientLabels \cup RunnerLabels]
      /\ \A g \in Groups : mOpCounter[g] \in Int /\ MaxQueued[g] \in Nat
      /\ UNCHANGED <<mOpCounter, at>>
  BY Kinds, GroupsAssumption DEF Inv, TypeOK, Calls, Pushing, Throttle
<1> DEFINE met == MaxQueued[at[c]] = 0 \/ mOpCounter[at[c]] < MaxQueued[at[c]]
<1>2. CASE met
  <2>1. pc' = [pc EXCEPT ![c] = "claim"]
    BY <1>2 DEF Throttle, WaitOnCondition, Goto
  <2>2. \A g \in Groups : g # at[c] => Admitted(g)' = Admitted(g)
    BY <1>1, <2>1 DEF Admitted
  <2>3. MaxQueued[at[c]] # 0 =>
            mOpCounter[at[c]] + Cardinality(Clients) <= MaxQueued[at[c]] + Cardinality(Clients) - 1
    BY <1>1, <1>2, AdmittedCounts
  <2>4. \A g : Cardinality(Admitted(g)') \in Nat /\ Cardinality(Admitted(g)') <= Cardinality(Clients)
    <3>1. \A g : Admitted(g)' \subseteq Clients
      BY DEF Admitted
    <3> QED
      BY <3>1, Finite, FS_Subset, FS_CardinalityType
  <2> SUFFICES ASSUME NEW g \in Groups, MaxQueued[g] # 0
               PROVE  mOpCounter[g] + Cardinality(Admitted(g)') <= MaxQueued[g] + Cardinality(Clients) - 1
    BY <1>1 DEF AdmittedFew
  <2>5. CASE g = at[c]
    BY <1>1, <2>3, <2>4, <2>5, AdmittedCounts
  <2>6. CASE g # at[c]
    BY <2>2, <2>6 DEF AdmittedFew
  <2> QED
    BY <2>5, <2>6
<1>3. CASE ~met
  <2>1. pc' = pc
    BY <1>3 DEF Throttle, WaitOnCondition
  <2>2. \A g \in Groups : Admitted(g)' = Admitted(g)
    BY <1>1, <2>1 DEF Admitted
  <2> QED
    BY <1>1, <2>2, FewStays DEF Inv
<1> QED
  BY <1>2, <1>3

LEMMA PushAddToGroupFew ==
    ASSUME Inv, AdmittedFew, NEW c \in Clients, PushAddToGroup(c)
    PROVE  AdmittedFew'
<1>1. /\ c \in Threads /\ Clients \subseteq Threads /\ at[c] \in Groups /\ pc[c] = "addGroup"
      /\ pc \in [Threads -> ClientLabels \cup RunnerLabels]
      /\ mOpCounter \in [Synchros -> Int] /\ Groups \subseteq Synchros
      /\ pc' = [pc EXCEPT ![c] = "addOpq"] /\ at' = at
      /\ mOpCounter' = [mOpCounter EXCEPT ![at[c]] = @ + 1]
  BY Kinds DEF Inv, TypeOK, Calls, Pushing, PushAddToGroup, AddItem, Goto
<1>2. \A g \in Groups : g # at[c] => Admitted(g)' = Admitted(g) /\ mOpCounter'[g] = mOpCounter[g]
  BY <1>1 DEF Admitted
<1>3. \A g \in Groups : g = at[c] => Admitted(g)' = Admitted(g) \ {c} /\ c \in Admitted(g)
  BY <1>1 DEF Admitted
<1>4. \A g \in Groups : g = at[c] => Cardinality(Admitted(g)') = Cardinality(Admitted(g)) - 1
  BY <1>3, AdmittedCounts, FS_RemoveElement
<1>5. mOpCounter'[at[c]] = mOpCounter[at[c]] + 1
  BY <1>1
<1> SUFFICES ASSUME NEW g \in Groups, MaxQueued[g] # 0
             PROVE  mOpCounter'[g] + Cardinality(Admitted(g)') <= MaxQueued[g] + Cardinality(Clients) - 1
  BY DEF AdmittedFew
<1>6. /\ mOpCounter[g] \in Int /\ MaxQueued[g] \in Nat
      /\ mOpCounter[g] + Cardinality(Admitted(g)) <= MaxQueued[g] + Cardinality(Clients) - 1
  BY <1>1, GroupsAssumption DEF AdmittedFew
<1>7. CASE g = at[c]
  <2>1. Cardinality(Admitted(g)') = Cardinality(Admitted(g)) - 1
    BY <1>4, <1>7
  <2>2. mOpCounter'[g] = mOpCounter[g] + 1
    BY <1>5, <1>7
  <2> QED
    BY <1>6, <2>1, <2>2, AdmittedCounts
<1>8. CASE g # at[c]
  BY <1>2, <1>6, <1>8
<1> QED
  BY <1>7, <1>8

LEMMA FewStep ==
    ASSUME Inv, AdmittedFew, Next
    PROVE  AdmittedFew'
<1>1. /\ Clients \subseteq Threads /\ Runners \subseteq Threads /\ Workers \subseteq Runners
      /\ pc \in [Threads -> ClientLabels \cup RunnerLabels]
      /\ at \in [Threads -> Synchros \cup DOMAIN GroupOrder]
      /\ mOpCounter \in [Synchros -> Int] /\ Groups \subseteq Synchros /\ TheOpq \notin Groups
      /\ \A r \in Runners : Group(r) \in Groups
  BY Kinds, Typed DEF Inv, TypeOK
<1>2. ASSUME NEW c \in Clients, Call(c) \/ InCall(c) \/ \E s \in Synchros : SpuriousWakeup(c, s),
             ~Throttle(c), ~PushAddToGroup(c)
      PROVE  AdmittedFew'
  <2>1. \A g \in Groups : mOpCounter'[g] = mOpCounter[g]
    BY <1>1, <1>2 DEF Call, InCall, StartPush, StartSync, StartDrain, Destroy, PushClaim,
       PushPublish, PushAddToOpq, AddItem, PushNotify, Await, Drain, Joining, SpuriousWakeup,
       counters
  <2>2. \A d \in Clients \ {c} : pc'[d] = pc[d] /\ at'[d] = at[d]
    BY <1>1, <1>2 DEF Call, InCall, StartPush, StartSync, StartDrain, Destroy, PushClaim,
       PushPublish, PushAddToOpq, PushNotify, Await, Drain, Joining, SpuriousWakeup,
       WaitOnCondition, Goto
  <2>3. /\ pc'[c] \in {"claim", "publish", "addGroup"} <=> pc[c] \in {"claim", "publish", "addGroup"}
        /\ pc[c] \in {"claim", "publish", "addGroup"} => at'[c] = at[c]
    BY <1>1, <1>2 DEF Call, InCall, Free, StartPush, StartSync, StartDrain, Destroy, PushClaim,
       PushPublish, PushAddToOpq, PushNotify, Await, Drain, Joining, SpuriousWakeup,
       WaitOnCondition, Goto
  <2>4. \A g \in Groups : Admitted(g)' = Admitted(g)
    BY <2>2, <2>3 DEF Admitted
  <2> QED
    BY <1>1, <2>1, <2>4, FewStays DEF Inv
<1>3. ASSUME NEW r \in Runners, (r \in Workers /\ Work(r)) \/ Process(r)
      PROVE  AdmittedFew'
  <2>1. \A c \in Clients : pc'[c] = pc[c] /\ at'[c] = at[c]
    BY <1>1, <1>3, Kinds DEF Work, WorkerStart, WorkerTest, WorkerWait, WorkerWoken, WorkerLeave,
       Process, Inspect, NumOps, TryPop, CountInFlight, Run, RemoveFromOpq, RemoveFromGroup,
       UncountInFlight, Advance, Returned, Goto
  <2>2. \A g \in Groups : Admitted(g)' = Admitted(g)
    BY <2>1 DEF Admitted
  <2>3. \A g \in Groups : mOpCounter'[g] \in Int /\ mOpCounter'[g] <= mOpCounter[g]
    <3>1. CASE RemoveFromOpq(r) \/ RemoveFromGroup(r)
      <4>1. \E s \in Synchros : mOpCounter' = [mOpCounter EXCEPT ![s] = @ - 1]
        BY <1>1, <3>1, Kinds DEF RemoveFromOpq, RemoveFromGroup, RemItem
      <4> QED
        BY <1>1, <4>1
    <3>2. CASE ~RemoveFromOpq(r) /\ ~RemoveFromGroup(r)
      <4>1. mOpCounter' = mOpCounter
        BY <1>3, <3>2 DEF Work, WorkerStart, WorkerTest, WorkerWait, WorkerWoken, WorkerLeave,
           Process, Inspect, NumOps, TryPop, CountInFlight, Run, UncountInFlight, counters
      <4> QED
        BY <1>1, <4>1
    <3> QED
      BY <3>1, <3>2
  <2> QED
    BY <2>2, <2>3, FewStays DEF Inv
<1> QED
  BY <1>1, <1>2, <1>3, ThrottleFew, PushAddToGroupFew DEF Next

\* The queue of a group with a limit is longer than the limit by at most one for
\* each thread that pushes, but the last (ork/kernel/opq.cpp, OpGroup::push).
THEOREM LimitOutgrown == Spec => []QueueBounded
<1>1. Init => AdmittedFew
  <2> SUFFICES ASSUME Init, NEW g \in Groups, MaxQueued[g] # 0
               PROVE  mOpCounter[g] + Cardinality(Admitted(g)) <= MaxQueued[g] + Cardinality(Clients) - 1
    BY DEF AdmittedFew
  <2>1. mOpCounter[g] = 0 /\ MaxQueued[g] \in Nat
    BY Kinds, GroupsAssumption DEF Init
  <2>2. Admitted(g) = {}
    BY Kinds DEF Init, Admitted
  <2>3. Cardinality(Admitted(g)) = 0
    BY <2>2, FS_EmptySet
  <2> QED
    BY <2>1, <2>3, AdmittedCounts
<1>2. DrainInv /\ AdmittedFew /\ [Next]_vars => AdmittedFew'
  <2> SUFFICES ASSUME Inv, AdmittedFew, [Next]_vars  PROVE AdmittedFew'
    BY DEF DrainInv
  <2>1. CASE UNCHANGED vars
    BY <2>1 DEF vars, counters, AdmittedFew, Admitted
  <2> QED
    BY <2>1, FewStep
<1>3. DrainInv /\ AdmittedFew => QueueBounded
  <2> SUFFICES ASSUME Inv, AdmittedFew, NEW g \in Groups, MaxQueued[g] # 0
               PROVE  Len(mOps[g]) <= MaxQueued[g] + Cardinality(Clients) - 1
    BY DEF DrainInv, QueueBounded
  <2>1. /\ mOps[g] \in Queues(Items, Clients) /\ mOpCounter[g] \in Int /\ MaxQueued[g] \in Nat
    BY Kinds, Typed, GroupsAssumption DEF Inv, TypeOK
  <2>2. Len(mOps[g]) \in Nat
    BY <2>1 DEF Queues
  <2>3. mOpCounter[g] = Len(mOps[g]) - Cardinality(GroupUncounted(g)) + Cardinality(GroupPopped(g))
    BY DEF Inv, Counted
  <2>4. GroupUncounted(g) \subseteq Admitted(g)
    BY DEF GroupUncounted, Admitted
  <2>5. Cardinality(GroupUncounted(g)) <= Cardinality(Admitted(g))
    BY <2>4, AdmittedCounts, FS_Subset
  <2>6. mOpCounter[g] + Cardinality(Admitted(g)) <= MaxQueued[g] + Cardinality(Clients) - 1
    BY DEF AdmittedFew
  <2> QED
    BY <2>1, <2>2, <2>3, <2>5, <2>6, AdmittedCounts, FiniteCounts
<1> QED
  BY <1>1, <1>2, <1>3, Invariance, PTL DEF Spec
=============================================================================
