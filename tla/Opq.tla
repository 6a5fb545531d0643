-------------------------------- MODULE Opq --------------------------------
(***************************************************************************)
(* ork::Opq (ork/kernel/opq.h, kernel/opq.cpp): an operation queue with    *)
(* its groups, the threads that push operations and wait for them, the     *)
(* worker threads that execute them, and the threads that pump a queue     *)
(* without workers by calling Process themselves (the update thread for    *)
(* UpdateSerialOpQ, the main thread for MainThreadOpQ).                    *)
(*                                                                         *)
(* An access to an atomic counter, a critical section of an OpqSynchro and *)
(* a step of the lock-free queue are one step each.  A semaphore is its    *)
(* count: each notify adds one and wakes one of its waiters, and nothing   *)
(* else waits on it.                                                       *)
(***************************************************************************)
EXTENDS RingQueue, Integers, FiniteSets

CONSTANTS
    Clients,       \* threads that push, sync, drain and destroy
    Workers,       \* the threads Opq's constructor starts
    Pumps,         \* other threads that call Process
    Ops,           \* the lambdas that get pushed, each once
    GroupOrder,    \* the groups, in the order of mOpGroups (a set of pointers)
    DefaultGroup,  \* mDefaultGroup
    GroupOf,       \* the group each lambda is pushed to
    TheOpq,        \* names the OpqSynchro of the Opq itself
    MaxInFlight,   \* per group: mLimitMaxOpsInFlight, 0 for no limit
    MaxQueued,     \* per group: mLimitMaxOpsQueued, 0 for no limit
    MaySync,       \* clients that call sync
    MayDrain,      \* what each client may drain: groups and TheOpq
    MayDestroy,    \* clients that destroy the Opq
    MaxTokens,     \* bound: no sync begins and the destructor does not notify
                   \* at that many tokens (nobody takes those of a pumped Opq)
    None           \* no operation

Groups == {GroupOrder[i] : i \in DOMAIN GroupOrder}
Synchros == Groups \cup {TheOpq}
Runners == Workers \cup Pumps
Threads == Clients \cup Runners

ASSUME ThreadsAssumption ==
    /\ Clients \cap Runners = {} /\ Workers \cap Pumps = {}
    /\ NoThread \notin Threads
    /\ IsFiniteSet(Clients) /\ IsFiniteSet(Runners)
ASSUME OpsAssumption == Ops \cap Clients = {} /\ None \notin Ops \cup Clients
ASSUME GroupsAssumption ==
    /\ GroupOrder \in Seq(Groups) /\ DefaultGroup \in Groups /\ TheOpq \notin Groups
    /\ GroupOf \in [Ops -> Groups]
    /\ MaxInFlight \in [Groups -> Nat] /\ MaxQueued \in [Groups -> Nat]
    /\ MaySync \subseteq Clients /\ MayDestroy \subseteq Clients
    /\ MayDrain \in [Clients -> SUBSET Synchros]

\* What is queued: a lambda, or the barrier of a client's sync, named by it.
Items == Ops \cup Clients

VARIABLES
    mOps,                  \* per group: its lock-free queue
    mOpsInFlightCounter,   \* per group
    mOpCounter,            \* per OpqSynchro
    waiting,               \* per OpqSynchro: clients asleep on mOpWaitCV
    mSemaphore,
    mThreadsRunning,
    mbGoingDown,
    destroyed,             \* the destructor has seen mThreadsRunning at zero
    late,                  \* history: workers that started after that
    pc,                    \* per thread
    op,                    \* per thread: the operation pushed or executed
    at,                    \* per client: the group or synchro it is busy with;
                           \* per runner: how far Process is in the groups
    signalled,             \* clients whose Future is signalled
    done,                  \* history: lambdas executed
    returned,              \* history: lambdas whose push has returned
    promised               \* history, per client: lambdas whose push had
                           \* returned when its sync or drain began

counters == <<mOpsInFlightCounter, mOpCounter, waiting>>
lifecycle == <<mThreadsRunning, mbGoingDown, destroyed, late>>
history == <<done, returned, promised>>
vars == <<mOps, counters, mSemaphore, lifecycle, pc, op, at, signalled, history>>

Init ==
    /\ mOps = [g \in Groups |-> <<>>]
    /\ mOpsInFlightCounter = [g \in Groups |-> 0]
    /\ mOpCounter = [s \in Synchros |-> 0]
    /\ waiting = [s \in Synchros |-> {}]
    /\ mSemaphore = 0
    /\ mThreadsRunning = 0
    /\ mbGoingDown = FALSE
    /\ destroyed = FALSE
    /\ late = {}
    /\ pc = [t \in Threads |->
                IF t \in Clients THEN "idle" ELSE IF t \in Workers THEN "starting" ELSE "scan"]
    /\ op = [t \in Threads |-> None]
    /\ at = [t \in Threads |-> IF t \in Clients THEN DefaultGroup ELSE 1]
    /\ signalled = {}
    /\ done = {}
    /\ returned = {}
    /\ promised = [c \in Clients |-> {}]

Goto(t, l) == pc' = [pc EXCEPT ![t] = l]

----------------------------------------------------------------------------
(* OpqSynchro.  notify_one wakes one of the threads asleep, if any; the    *)
(* thread it wakes checks its condition again.                             *)

NotifyOne(s) ==
    IF waiting[s] = {}
    THEN UNCHANGED waiting
    ELSE \E c \in waiting[s] : waiting' = [waiting EXCEPT ![s] = @ \ {c}]

AddItem(s) == mOpCounter' = [mOpCounter EXCEPT ![s] = @ + 1] /\ NotifyOne(s)
\* Mutant: the waiters are not told.
MutRemItem(s) == mOpCounter' = [mOpCounter EXCEPT ![s] = @ - 1] /\ UNCHANGED waiting

RemItem(s) == mOpCounter' = [mOpCounter EXCEPT ![s] = @ - 1] /\ NotifyOne(s)

\* One turn of the loop of WaitOnCondition: go on to l, or fall asleep.
WaitOnCondition(c, s, met, l) ==
    /\ c \notin waiting[s]
    /\ IF met
       THEN Goto(c, l) /\ UNCHANGED waiting
       ELSE waiting' = [waiting EXCEPT ![s] = @ \cup {c}] /\ UNCHANGED pc

\* The standard lets a condition variable wake a thread without a notify.
SpuriousWakeup(c, s) ==
    /\ c \in waiting[s]
    /\ waiting' = [waiting EXCEPT ![s] = @ \ {c}]
    /\ UNCHANGED <<mOps, mOpsInFlightCounter, mOpCounter, mSemaphore, lifecycle, pc, op, at,
                   signalled, history>>

----------------------------------------------------------------------------
(* Clients: push, sync, drain.  QueueSync and push_sync are a push and a   *)
(* sync by the same client.                                                *)

Free(c) == pc[c] = "idle" /\ ~mbGoingDown

StartPush(c, o) ==
    /\ Free(c)
    /\ o \notin returned
    /\ \A d \in Clients : op[d] # o
    /\ op' = [op EXCEPT ![c] = o]
    /\ at' = [at EXCEPT ![c] = GroupOf[o]]
    /\ Goto(c, "throttle")
    /\ UNCHANGED <<mOps, counters, mSemaphore, lifecycle, signalled, history>>

\* Mutant: the Future of the last sync is used again without Clear.
MutStartSync(c) ==
    /\ Free(c)
    /\ mSemaphore < MaxTokens
    /\ op' = [op EXCEPT ![c] = c]
    /\ at' = [at EXCEPT ![c] = DefaultGroup]
    /\ promised' = [promised EXCEPT ![c] = {o \in returned : GroupOf[o] = DefaultGroup}]
    /\ Goto(c, "throttle")
    /\ UNCHANGED <<mOps, counters, mSemaphore, lifecycle, signalled, done, returned>>

StartSync(c) ==
    /\ Free(c)
    /\ mSemaphore < MaxTokens
    /\ op' = [op EXCEPT ![c] = c]
    /\ at' = [at EXCEPT ![c] = DefaultGroup]
    /\ signalled' = signalled \ {c}
    /\ promised' = [promised EXCEPT ![c] = {o \in returned : GroupOf[o] = DefaultGroup}]
    /\ Goto(c, "throttle")
    /\ UNCHANGED <<mOps, counters, mSemaphore, lifecycle, done, returned>>

StartDrain(c, s) ==
    /\ Free(c)
    /\ at' = [at EXCEPT ![c] = s]
    /\ promised' = [promised EXCEPT ![c] =
                        {o \in returned : s = TheOpq \/ GroupOf[o] = s}]
    /\ Goto(c, "drain")
    /\ UNCHANGED <<mOps, counters, mSemaphore, lifecycle, op, signalled, done, returned>>

\* Mutant: one more operation passes than the limit says.
MutThrottle(c) ==
    /\ pc[c] = "throttle"
    /\ LET g == at[c] IN
        WaitOnCondition(c, g, MaxQueued[g] = 0 \/ mOpCounter[g] <= MaxQueued[g], "claim")
    /\ UNCHANGED <<mOps, mOpsInFlightCounter, mOpCounter, mSemaphore, lifecycle, op, at,
                   signalled, history>>

Throttle(c) ==
    /\ pc[c] = "throttle"
    /\ LET g == at[c] IN
        WaitOnCondition(c, g, MaxQueued[g] = 0 \/ mOpCounter[g] < MaxQueued[g], "claim")
    /\ UNCHANGED <<mOps, mOpsInFlightCounter, mOpCounter, mSemaphore, lifecycle, op, at,
                   signalled, history>>

PushClaim(c) ==
    /\ pc[c] = "claim"
    /\ mOps' = [mOps EXCEPT ![at[c]] = Claimed(@, c, op[c])]
    /\ Goto(c, "publish")
    /\ UNCHANGED <<counters, mSemaphore, lifecycle, op, at, signalled, history>>

PushPublish(c) ==
    /\ pc[c] = "publish"
    /\ mOps' = [mOps EXCEPT ![at[c]] = Published(@, c)]
    /\ Goto(c, "addGroup")
    /\ UNCHANGED <<counters, mSemaphore, lifecycle, op, at, signalled, history>>

PushAddToGroup(c) ==
    /\ pc[c] = "addGroup"
    /\ AddItem(at[c])
    /\ Goto(c, "addOpq")
    /\ UNCHANGED <<mOps, mOpsInFlightCounter, mSemaphore, lifecycle, op, at, signalled, history>>

PushAddToOpq(c) ==
    /\ pc[c] = "addOpq"
    /\ AddItem(TheOpq)
    /\ Goto(c, "notify")
    /\ UNCHANGED <<mOps, mOpsInFlightCounter, mSemaphore, lifecycle, op, at, signalled, history>>

\* After its barrier is queued, sync polls the Future.
PushNotify(c) ==
    /\ pc[c] = "notify"
    /\ mSemaphore' = mSemaphore + 1
    /\ Goto(c, IF op[c] = c THEN "await" ELSE "idle")
    /\ returned' = returned \cup ({op[c]} \cap Ops)
    /\ UNCHANGED <<mOps, counters, lifecycle, op, at, signalled, done, promised>>

Await(c) ==
    /\ pc[c] = "await"
    /\ c \in signalled
    /\ Goto(c, "idle")
    /\ UNCHANGED <<mOps, counters, mSemaphore, lifecycle, op, at, signalled, history>>

\* Mutant: drain is content with one operation left.
MutDrain(c) ==
    /\ pc[c] = "drain"
    /\ WaitOnCondition(c, at[c], mOpCounter[at[c]] <= 1, "idle")
    /\ UNCHANGED <<mOps, mOpsInFlightCounter, mOpCounter, mSemaphore, lifecycle, op, at,
                   signalled, history>>

Drain(c) ==
    /\ pc[c] = "drain"
    /\ WaitOnCondition(c, at[c], mOpCounter[at[c]] = 0, "idle")
    /\ UNCHANGED <<mOps, mOpsInFlightCounter, mOpCounter, mSemaphore, lifecycle, op, at,
                   signalled, history>>

----------------------------------------------------------------------------
(* The destructor.  It is called when no client is inside a call and none  *)
(* calls after; it executes nothing that is still queued.  Only queues     *)
(* with workers are destroyed: the pumped ones are statics.                *)

Destroy(c) ==
    /\ \A d \in Clients : Free(d)
    /\ mbGoingDown' = TRUE
    /\ Goto(c, "joining")
    /\ UNCHANGED <<mOps, counters, mSemaphore, mThreadsRunning, destroyed, late, op, at,
                   signalled, history>>

\* Mutant: the destructor notifies and does not wait.
MutJoiningOnce(c) ==
    /\ pc[c] = "joining"
    /\ mSemaphore' = mSemaphore + 1
    /\ destroyed' = TRUE
    /\ Goto(c, "gone")
    /\ UNCHANGED <<mOps, counters, mThreadsRunning, mbGoingDown, late, op, at, signalled,
                   history>>

\* Mutant: the destructor waits and does not notify.
MutJoiningSilently(c) ==
    /\ pc[c] = "joining"
    /\ mThreadsRunning = 0
    /\ destroyed' = TRUE
    /\ Goto(c, "gone")
    /\ UNCHANGED <<mOps, counters, mSemaphore, mThreadsRunning, mbGoingDown, late, op, at,
                   signalled, history>>

Joining(c) ==
    /\ pc[c] = "joining"
    /\ \/ /\ mThreadsRunning # 0
          /\ mSemaphore < MaxTokens
          /\ mSemaphore' = mSemaphore + 1
          /\ UNCHANGED <<destroyed, pc>>
       \/ /\ mThreadsRunning = 0
          /\ destroyed' = TRUE
          /\ Goto(c, "gone")
          /\ UNCHANGED mSemaphore
    /\ UNCHANGED <<mOps, counters, mThreadsRunning, mbGoingDown, late, op, at, signalled,
                   history>>

----------------------------------------------------------------------------
(* OpqThreadImpl::run.  Nothing keeps a thread from starting late: it then *)
(* counts itself in an Opq that has been freed, and goes on.  What it      *)
(* reads is undefined: the flag is either, and Process finds the groups    *)
(* deleted.  The counters it changes are read by nobody any more.          *)

WorkerStart(w) ==
    /\ pc[w] = "starting"
    /\ mThreadsRunning' = mThreadsRunning + 1
    /\ late' = IF destroyed THEN late \cup {w} ELSE late
    /\ Goto(w, "test")
    /\ UNCHANGED <<mOps, counters, mSemaphore, mbGoingDown, destroyed, op, at, signalled, history>>

\* What a load of mbGoingDown may return.
GoingDown == IF destroyed THEN BOOLEAN ELSE {mbGoingDown}

WorkerTest(w) ==
    /\ pc[w] = "test"
    /\ \E down \in GoingDown : Goto(w, IF down THEN "leaving" ELSE "wait")
    /\ UNCHANGED <<mOps, counters, mSemaphore, lifecycle, op, at, signalled, history>>

WorkerWait(w) ==
    /\ pc[w] = "wait"
    /\ mSemaphore > 0
    /\ mSemaphore' = mSemaphore - 1
    /\ Goto(w, "woken")
    /\ UNCHANGED <<mOps, counters, lifecycle, op, at, signalled, history>>

WorkerWoken(w) ==
    /\ pc[w] = "woken"
    /\ \E down \in GoingDown : Goto(w, IF down THEN "test" ELSE "scan")
    /\ at' = [at EXCEPT ![w] = 1]
    /\ UNCHANGED <<mOps, counters, mSemaphore, lifecycle, op, signalled, history>>

WorkerLeave(w) ==
    /\ pc[w] = "leaving"
    /\ mThreadsRunning' = mThreadsRunning - 1
    /\ Goto(w, "gone")
    /\ UNCHANGED <<mOps, counters, mSemaphore, mbGoingDown, destroyed, late, op, at, signalled,
                   history>>

----------------------------------------------------------------------------
(* Process, called by workers and pumps                                    *)

Group(r) == GroupOrder[at[r]]

\* Process has returned: a worker goes back to the semaphore whatever the
\* result, the token it took is spent; a pump calls Process again.
Returned(r) == Goto(r, IF r \in Workers THEN "test" ELSE "scan")

Advance(r) ==
    IF at[r] < Len(GroupOrder)
    THEN at' = [at EXCEPT ![r] = @ + 1] /\ Goto(r, "scan")
    ELSE at' = [at EXCEPT ![r] = 1] /\ Returned(r)

\* The loop's head: the load of mOpsInFlightCounter, then that of mOpCounter.
\* A destroyed Opq has no group left to look at.
Inspect(r) ==
    /\ pc[r] = "scan"
    /\ LET g == Group(r) IN
        \/ /\ ~destroyed
           /\ MaxInFlight[g] = 0 \/ mOpsInFlightCounter[g] < MaxInFlight[g]
           /\ Goto(r, "numOps")
           /\ UNCHANGED at
        \/ /\ ~destroyed
           /\ MaxInFlight[g] # 0 /\ mOpsInFlightCounter[g] >= MaxInFlight[g]
           /\ Advance(r)
        \/ destroyed /\ at' = [at EXCEPT ![r] = 1] /\ Returned(r)
    /\ UNCHANGED <<mOps, counters, mSemaphore, lifecycle, op, signalled, history>>

\* Mutant: the last operation of a group is not seen.
MutNumOps(r) ==
    /\ pc[r] = "numOps"
    /\ IF mOpCounter[Group(r)] > 1 THEN Goto(r, "pop") /\ UNCHANGED at ELSE Advance(r)
    /\ UNCHANGED <<mOps, counters, mSemaphore, lifecycle, op, signalled, history>>

NumOps(r) ==
    /\ pc[r] = "numOps"
    /\ IF mOpCounter[Group(r)] > 0 THEN Goto(r, "pop") /\ UNCHANGED at ELSE Advance(r)
    /\ UNCHANGED <<mOps, counters, mSemaphore, lifecycle, op, signalled, history>>

\* Mutant: the operation is copied and stays queued.
MutTryPop(r) ==
    /\ pc[r] = "pop"
    /\ LET q == mOps[Group(r)] IN
        IF Ready(q)
        THEN op' = [op EXCEPT ![r] = First(q)] /\ Goto(r, "count") /\ UNCHANGED at
        ELSE Advance(r) /\ UNCHANGED op
    /\ UNCHANGED <<mOps, counters, mSemaphore, lifecycle, signalled, history>>

TryPop(r) ==
    /\ pc[r] = "pop"
    /\ LET q == mOps[Group(r)] IN
        IF Ready(q)
        THEN /\ op' = [op EXCEPT ![r] = First(q)]
             /\ mOps' = [mOps EXCEPT ![Group(r)] = Rest(q)]
             /\ Goto(r, "count")
             /\ UNCHANGED at
        ELSE Advance(r) /\ UNCHANGED <<mOps, op>>
    /\ UNCHANGED <<counters, mSemaphore, lifecycle, signalled, history>>

CountInFlight(r) ==
    /\ pc[r] = "count"
    /\ mOpsInFlightCounter' = [mOpsInFlightCounter EXCEPT ![Group(r)] = @ + 1]
    /\ Goto(r, "run")
    /\ UNCHANGED <<mOps, mOpCounter, waiting, mSemaphore, lifecycle, op, at, signalled, history>>

\* Mutant: the barrier's Future is not signalled.
MutRun(r) ==
    /\ pc[r] = "run"
    /\ done' = done \cup ({op[r]} \cap Ops)
    /\ Goto(r, "remOpq")
    /\ UNCHANGED <<mOps, counters, mSemaphore, lifecycle, op, at, signalled, returned, promised>>

\* The end of the lambda, or the signal of the barrier's Future.
Run(r) ==
    /\ pc[r] = "run"
    /\ done' = done \cup ({op[r]} \cap Ops)
    /\ signalled' = signalled \cup ({op[r]} \cap Clients)
    /\ Goto(r, "remOpq")
    /\ UNCHANGED <<mOps, counters, mSemaphore, lifecycle, op, at, returned, promised>>

RemoveFromOpq(r) ==
    /\ pc[r] = "remOpq"
    /\ RemItem(TheOpq)
    /\ Goto(r, "remGroup")
    /\ UNCHANGED <<mOps, mOpsInFlightCounter, mSemaphore, lifecycle, op, at, signalled, history>>

RemoveFromGroup(r) ==
    /\ pc[r] = "remGroup"
    /\ RemItem(Group(r))
    /\ Goto(r, "uncount")
    /\ UNCHANGED <<mOps, mOpsInFlightCounter, mSemaphore, lifecycle, op, at, signalled, history>>

UncountInFlight(r) ==
    /\ pc[r] = "uncount"
    /\ mOpsInFlightCounter' = [mOpsInFlightCounter EXCEPT ![Group(r)] = @ - 1]
    /\ op' = [op EXCEPT ![r] = None]
    /\ at' = [at EXCEPT ![r] = 1]
    /\ Returned(r)
    /\ UNCHANGED <<mOps, mOpCounter, waiting, mSemaphore, lifecycle, signalled, history>>

----------------------------------------------------------------------------
Call(c) ==
    \/ \E o \in Ops : StartPush(c, o)
    \/ c \in MaySync /\ StartSync(c)
    \/ \E s \in MayDrain[c] : StartDrain(c, s)
    \/ c \in MayDestroy /\ Destroy(c)

InCall(c) ==
    \/ Throttle(c) \/ PushClaim(c) \/ PushPublish(c) \/ PushAddToGroup(c)
    \/ PushAddToOpq(c) \/ PushNotify(c) \/ Await(c) \/ Drain(c) \/ Joining(c)

Process(r) ==
    \/ Inspect(r) \/ NumOps(r) \/ TryPop(r) \/ CountInFlight(r) \/ Run(r)
    \/ RemoveFromOpq(r) \/ RemoveFromGroup(r) \/ UncountInFlight(r)

Work(w) == WorkerStart(w) \/ WorkerTest(w) \/ WorkerWait(w) \/ WorkerWoken(w) \/ WorkerLeave(w)

Next ==
    \/ \E c \in Clients : Call(c) \/ InCall(c) \/ \E s \in Synchros : SpuriousWakeup(c, s)
    \/ \E w \in Workers : Work(w)
    \/ \E r \in Runners : Process(r)

Spec == Init /\ [][Next]_vars

\* Threads are scheduled, lambdas end, pumps keep pumping; nobody need call.
Fairness ==
    /\ \A c \in Clients : WF_vars(InCall(c))
    /\ \A w \in Workers : WF_vars(Work(w) \/ Process(w))
    /\ \A p \in Pumps : WF_vars(Process(p))

FairSpec == Spec /\ Fairness

----------------------------------------------------------------------------
(* Properties                                                              *)

ClientLabels == {"idle", "throttle", "claim", "publish", "addGroup", "addOpq", "notify",
                 "await", "drain", "joining", "gone"}
RunnerLabels == {"starting", "test", "wait", "woken", "leaving", "gone", "scan", "numOps", "pop",
                 "count", "run", "remOpq", "remGroup", "uncount"}

\* The type invariant.  A counter may pass below zero for a moment: an
\* operation can be popped and removed before its push has added it.
TypeOK ==
    /\ mOps \in [Groups -> Seq([item : Items, writer : Clients \cup {NoThread}])]
    /\ mOpsInFlightCounter \in [Groups -> Nat]
    /\ mOpCounter \in [Synchros -> Int]
    /\ waiting \in [Synchros -> SUBSET Clients]
    /\ mSemaphore \in Nat
    /\ mThreadsRunning \in 0 .. Cardinality(Workers)
    /\ mbGoingDown \in BOOLEAN /\ destroyed \in BOOLEAN /\ late \subseteq Workers
    /\ pc \in [Threads -> ClientLabels \cup RunnerLabels]
    /\ op \in [Threads -> Items \cup {None}]
    /\ at \in [Threads -> Synchros \cup DOMAIN GroupOrder]
    /\ \A c \in Clients : at[c] \in Synchros
    /\ \A r \in Runners : at[r] \in DOMAIN GroupOrder
    /\ signalled \subseteq Clients
    /\ done \subseteq Ops /\ returned \subseteq Ops
    /\ promised \in [Clients -> SUBSET Ops]

\* Where operations are queued.
Places == UNION {{g} \X DOMAIN mOps[g] : g \in Groups}

\* Clients between the claim of a place for an operation and the AddItem of
\* the given synchro, and runners between the pop and the RemItem.
Uncounted(labels, g) == Cardinality({c \in Clients : pc[c] \in labels /\ at[c] = g})
Popped(labels, g) == Cardinality({r \in Runners : pc[r] \in labels /\ Group(r) = g})

\* The counters are right up to the calls in progress: each group's
\* mOpCounter counts what is queued or executing, less what a push has not
\* added yet; mOpsInFlightCounter counts the executing; and the Opq's
\* mOpCounter counts what is queued or executing in all groups, so that at
\* rest drain returns exactly when nothing is left.  No step updates two of
\* them together.
CountersMatch ==
    /\ TypeOK
    /\ \A g \in Groups :
        /\ mOpCounter[g] =
            Len(mOps[g]) - Uncounted({"publish", "addGroup"}, g)
                + Popped({"count", "run", "remOpq", "remGroup"}, g)
        /\ mOpsInFlightCounter[g] = Popped({"run", "remOpq", "remGroup", "uncount"}, g)
    /\ mOpCounter[TheOpq] =
        Cardinality(Places)
            - Cardinality({c \in Clients : pc[c] \in {"publish", "addGroup", "addOpq"}})
            + Cardinality({r \in Runners : pc[r] \in {"count", "run", "remOpq"}})

\* Every lambda is in one place at a time and none runs twice, though two
\* clients push and several threads call Process at the same time.
OpOnce ==
    \A o \in Ops :
        LET queued == {p \in Places : mOps[p[1]][p[2]].item = o}
            held == {r \in Runners : op[r] = o /\ pc[r] \in {"count", "run"}}
        IN Cardinality(queued) + Cardinality(held) + (IF o \in done THEN 1 ELSE 0) <= 1

\* Threads that push to a group can pass its limit together, having all seen
\* the same count: the queue outgrows mLimitMaxOpsQueued by one for each of
\* them but the last, and no more, however their steps fall.
QueueBounded ==
    \A g \in Groups : MaxQueued[g] # 0 =>
        Len(mOps[g]) <= MaxQueued[g] + Cardinality(Clients) - 1

\* Which operations of a group are being executed, counted or not.
ExecutingIn(g) == {op[r] : r \in {s \in Runners : pc[s] \in {"count", "run"} /\ Group(s) = g}}

Promise == INSTANCE OperationQueue WITH
    Lambdas <- Ops, Barriers <- Clients,
    queue <- [g \in Groups |-> InOrder(mOps[g])],
    executing <- [g \in Groups |-> ExecutingIn(g)],
    finished <- done \cup signalled

\* The Opq implements its promise with any number of threads that push and that
\* call Process: each operation is started once, in the order of its group,
\* and a barrier is not pushed again before it is over.
ImplementsQueue == Promise!Spec

\* When sync returns, every lambda whose push to the default group had
\* returned before the sync began has run to its end.  With one thread that
\* calls Process; with several the barrier may overtake a running lambda.
SyncFlushes ==
    [][\A c \in Clients : pc[c] = "await" /\ pc'[c] = "idle" => promised[c] \subseteq done]_vars

\* When drain returns, every lambda whose push had returned before the drain
\* began has run to its end: test/opq.cpp drains and then checks the number
\* of lambdas that ran.
DrainFlushes ==
    [][\A c \in Clients : pc[c] = "drain" /\ pc'[c] = "idle" => promised[c] \subseteq done]_vars

\* A group runs at most mLimitMaxOpsInFlight lambdas at a time; MakeSerial
\* sets that to one.  It does not hold: the limit is tested before the count is
\* incremented, with a pop in between.
InFlightLimited ==
    \A g \in Groups : MaxInFlight[g] # 0 => Popped({"run"}, g) <= MaxInFlight[g]

\* The destructor waits for every worker that has counted itself: whatever such
\* a worker is doing, in Process, about to test mbGoingDown or about to sleep, it
\* has left when the groups are deleted.  One that starts after is not waited for.
DestroyWaits == destroyed => \A w \in Workers : pc[w] \in {"starting", "gone"} \/ w \in late

\* "signal to thread we are going down, then wait for it to go down" promises
\* more: that no worker runs in the freed Opq.  It does not hold.
NoneLate == late = {}

\* A lambda whose push has returned runs, unless the Opq is destroyed.
EveryOpRuns == \A o \in Ops : o \in returned ~> (o \in done \/ mbGoingDown)

\* Every push, sync and drain returns.
PushReturns == \A c \in Clients : pc[c] = "throttle" ~> pc[c] \in {"idle", "await"}
SyncReturns == \A c \in Clients : pc[c] = "await" ~> pc[c] = "idle"
DrainReturns == \A c \in Clients : pc[c] = "drain" ~> pc[c] = "idle"

\* The destructor returns, whatever its workers are doing when it begins.
DestroyCompletes == mbGoingDown ~> destroyed
=============================================================================
