--------------------------- MODULE OperationQueue ---------------------------
(***************************************************************************)
(* What an Opq promises those who push to it, without counters, semaphore, *)
(* condition variables or threads: every group is a queue whose operations *)
(* start in the order in which they were queued, each once, and of which   *)
(* any number may be executing.  A lambda is pushed once; the barrier of a *)
(* sync may be used again when it is over.                                 *)
(***************************************************************************)
EXTENDS Sequences

CONSTANTS Groups, Lambdas, Barriers

VARIABLES
    queue,      \* per group: the operations queued and not started, oldest first
    executing,  \* per group: the operations started and not finished
    finished    \* operations finished, but for barriers that are used again

Operations == Lambdas \cup Barriers

Init ==
    /\ queue = [g \in Groups |-> <<>>]
    /\ executing = [g \in Groups |-> {}]
    /\ finished = {}

Queued(x) == \E g \in Groups : \E i \in DOMAIN queue[g] : queue[g][i] = x
Executing(x) == \E g \in Groups : x \in executing[g]

Push(g, x) ==
    /\ ~Queued(x) /\ ~Executing(x) /\ x \notin finished
    /\ queue' = [queue EXCEPT ![g] = Append(@, x)]
    /\ UNCHANGED <<executing, finished>>

Start(g) ==
    /\ queue[g] # <<>>
    /\ executing' = [executing EXCEPT ![g] = @ \cup {Head(queue[g])}]
    /\ queue' = [queue EXCEPT ![g] = Tail(@)]
    /\ UNCHANGED finished

Finish(g, x) ==
    /\ x \in executing[g]
    /\ executing' = [executing EXCEPT ![g] = @ \ {x}]
    /\ finished' = finished \cup {x}
    /\ UNCHANGED queue

Renew(b) ==
    /\ b \in finished
    /\ finished' = finished \ {b}
    /\ UNCHANGED <<queue, executing>>

Next ==
    \/ \E g \in Groups : Start(g) \/ \E x \in Operations : Push(g, x) \/ Finish(g, x)
    \/ \E b \in Barriers : Renew(b)

Spec == Init /\ [][Next]_<<queue, executing, finished>>
=============================================================================
