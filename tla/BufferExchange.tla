--------------------------- MODULE BufferExchange ---------------------------
(***************************************************************************)
(* What a concurrent_multi_buffer promises the threads that share it,      *)
(* without queues that are claimed and published or loops that count: each *)
(* buffer is free, filled, withheld or with one thread; filled ones are    *)
(* read in the order in which they were filled; a thread that stops the    *)
(* exchange has stopped it when all buffers are withheld, which those that *)
(* are filled leave through no reader; and it has restarted it when none   *)
(* is.                                                                     *)
(***************************************************************************)
EXTENDS Sequences

CONSTANTS Threads, Buffers, None

VARIABLES
    free, withheld,   \* sets of buffers
    filled,           \* the buffers filled and not read, oldest first
    held,             \* per thread: the buffer it has, or None
    doing             \* per thread: what it is doing with the exchange

Init ==
    /\ free = Buffers /\ withheld = {} /\ filled = <<>>
    /\ held = [t \in Threads |-> None]
    /\ doing = [t \in Threads |-> "nothing"]

Turn(t, from, to) == doing[t] = from /\ doing' = [doing EXCEPT ![t] = to]
Take(t, b) == held' = [held EXCEPT ![t] = b]
Part(t) == held[t] # None /\ held' = [held EXCEPT ![t] = None]

TakeFree(t) == \E b \in free : Take(t, b) /\ free' = free \ {b}
TakeFilled(t) == filled # <<>> /\ Take(t, Head(filled)) /\ filled' = Tail(filled)

Write(t) == Turn(t, "nothing", "write") /\ TakeFree(t) /\ UNCHANGED <<withheld, filled>>

Written(t) ==
    /\ Turn(t, "write", "nothing") /\ Part(t)
    /\ filled' = Append(filled, held[t])
    /\ UNCHANGED <<free, withheld>>

Read(t) == Turn(t, "nothing", "read") /\ TakeFilled(t) /\ UNCHANGED <<free, withheld>>

Drawn(t) ==
    /\ Turn(t, "read", "nothing") /\ Part(t)
    /\ free' = free \cup {held[t]}
    /\ UNCHANGED <<withheld, filled>>

Stop(t) == Turn(t, "nothing", "stop") /\ UNCHANGED <<free, withheld, filled, held>>

Collect(t) ==
    /\ doing[t] = "stop" /\ held[t] = None
    /\ \/ TakeFree(t) /\ UNCHANGED filled
       \/ TakeFilled(t) /\ UNCHANGED free
    /\ UNCHANGED <<withheld, doing>>

Withhold(t) ==
    /\ doing[t] = "stop" /\ Part(t)
    /\ withheld' = withheld \cup {held[t]}
    /\ UNCHANGED <<free, filled, doing>>

Stopped(t) ==
    /\ withheld = Buffers
    /\ Turn(t, "stop", "stopped")
    /\ UNCHANGED <<free, withheld, filled, held>>

Restart(t) == Turn(t, "stopped", "restart") /\ UNCHANGED <<free, withheld, filled, held>>

Return(t) ==
    /\ doing[t] = "restart" /\ held[t] = None
    /\ \E b \in withheld : Take(t, b) /\ withheld' = withheld \ {b}
    /\ UNCHANGED <<free, filled, doing>>

Release(t) ==
    /\ doing[t] = "restart" /\ Part(t)
    /\ free' = free \cup {held[t]}
    /\ UNCHANGED <<withheld, filled, doing>>

Restarted(t) ==
    /\ withheld = {} /\ held[t] = None
    /\ Turn(t, "restart", "nothing")
    /\ UNCHANGED <<free, withheld, filled, held>>

Exchange(t) == Write(t) \/ Written(t) \/ Read(t) \/ Drawn(t)
Clear(t) ==
    \/ Stop(t) \/ Collect(t) \/ Withhold(t) \/ Stopped(t)
    \/ Restart(t) \/ Return(t) \/ Release(t) \/ Restarted(t)

Next == \E t \in Threads : Exchange(t) \/ Clear(t)

Spec == Init /\ [][Next]_<<free, withheld, filled, held, doing>>
=============================================================================
