---------------------------- MODULE MultiBuffer ----------------------------
(***************************************************************************)
(* concurrent_multi_buffer<T,N> (ork/util/multi_buffer.h) and the protocol *)
(* around its one instance, gBuffers in ork.ent/src/drawable.cpp: the      *)
(* update thread fills a DrawableBuffer and hands it to the render thread, *)
(* which draws it and hands it back; to change the scene, a thread takes   *)
(* every buffer out of circulation (disable, under                         *)
(* BeginClearAndSync...) and later puts them back (enable).                *)
(*                                                                         *)
(* Buffers move between three queues and the hands of threads.  The        *)
(* counters mWritesOut and mReadsOut, which the code maintains and never   *)
(* reads (the assertions on them are commented out), are left out.         *)
(***************************************************************************)
EXTENDS RingQueue, FiniteSets

CONSTANTS
    Writers,     \* threads that call BeginWrite and EndWrite
    Readers,     \* threads that call BeginRead and EndRead
    Clearers,    \* threads that call disable and enable
    Buffers,     \* the N buffers
    None         \* no buffer

ASSUME BuffersAssumption == IsFiniteSet(Buffers) /\ None \notin Buffers
ASSUME ThreadsAssumption == NoThread \notin Writers \cup Readers \cup Clearers

Threads == Writers \cup Readers \cup Clearers
N == Cardinality(Buffers)

VARIABLES
    mReadItems, mWriteItems, mDisabledItems,   \* the three MpMc queues
    pc,       \* per thread: what it does next
    hand,     \* per thread: the buffer it holds
    icount,   \* per thread: the local of disable and enable
    old       \* history: buffers filled before the last disable completed

queues == <<mReadItems, mWriteItems, mDisabledItems>>
vars == <<queues, pc, hand, icount, old>>

\* The constructor fills mWriteItems, in the order of creation.
Init ==
    /\ mReadItems = <<>>
    /\ \E order \in [1 .. N -> Buffers] :
        /\ \A i, j \in 1 .. N : i # j => order[i] # order[j]
        /\ mWriteItems = [i \in 1 .. N |-> [item |-> order[i], writer |-> NoThread]]
    /\ mDisabledItems = <<>>
    /\ pc = [t \in Threads |-> "idle"]
    /\ hand = [t \in Threads |-> None]
    /\ icount = [t \in Threads |-> 0]
    /\ old = {}

Goto(t, l) == pc' = [pc EXCEPT ![t] = l]

TakeFrom(t, q, l) ==
    /\ Ready(q)
    /\ hand' = [hand EXCEPT ![t] = First(q)]
    /\ Goto(t, l)

----------------------------------------------------------------------------
(* Writing and reading                                                     *)

\* BeginWrite sleeps and retries until mWriteItems yields a buffer.
BeginWrite(t) ==
    /\ pc[t] = "idle"
    /\ Goto(t, "popWrite")
    /\ UNCHANGED <<queues, hand, icount, old>>

PopWrite(t) ==
    /\ pc[t] = "popWrite"
    /\ TakeFrom(t, mWriteItems, "writing")
    /\ mWriteItems' = Rest(mWriteItems)
    /\ old' = old \ {First(mWriteItems)}
    /\ UNCHANGED <<mReadItems, mDisabledItems, icount>>

EndWrite(t) ==
    /\ pc[t] = "writing"
    /\ mReadItems' = Claimed(mReadItems, t, hand[t])
    /\ Goto(t, "toRead")
    /\ UNCHANGED <<mWriteItems, mDisabledItems, hand, icount, old>>

EndWritePublish(t) ==
    /\ pc[t] = "toRead"
    /\ mReadItems' = Published(mReadItems, t)
    /\ hand' = [hand EXCEPT ![t] = None]
    /\ Goto(t, "idle")
    /\ UNCHANGED <<mWriteItems, mDisabledItems, icount, old>>

\* BeginRead does not wait: it returns null when try_pop finds nothing, and
\* the render thread then draws no buffer; that call changes nothing here.
\* Mutant: the buffer is looked at and left in the queue.
MutBeginRead(t) ==
    /\ pc[t] = "idle"
    /\ TakeFrom(t, mReadItems, "reading")
    /\ UNCHANGED <<queues, icount, old>>

BeginRead(t) ==
    /\ pc[t] = "idle"
    /\ TakeFrom(t, mReadItems, "reading")
    /\ mReadItems' = Rest(mReadItems)
    /\ UNCHANGED <<mWriteItems, mDisabledItems, icount, old>>

\* Mutant: the buffer goes back to the queue it came from.
MutEndRead(t) ==
    /\ pc[t] = "reading"
    /\ mReadItems' = Append(mReadItems, [item |-> hand[t], writer |-> NoThread])
    /\ hand' = [hand EXCEPT ![t] = None]
    /\ Goto(t, "idle")
    /\ UNCHANGED <<mWriteItems, mDisabledItems, icount, old>>

EndRead(t) ==
    /\ pc[t] = "reading"
    /\ mWriteItems' = Claimed(mWriteItems, t, hand[t])
    /\ Goto(t, "toWrite")
    /\ UNCHANGED <<mReadItems, mDisabledItems, hand, icount, old>>

EndReadPublish(t) ==
    /\ pc[t] = "toWrite"
    /\ mWriteItems' = Published(mWriteItems, t)
    /\ hand' = [hand EXCEPT ![t] = None]
    /\ Goto(t, "idle")
    /\ UNCHANGED <<mReadItems, mDisabledItems, icount, old>>

----------------------------------------------------------------------------
(* disable: collect N buffers, from mReadItems or else from mWriteItems    *)

BeginDisable(t) ==
    /\ pc[t] = "idle"
    /\ icount' = [icount EXCEPT ![t] = 0]
    /\ Goto(t, "sweepRead")
    /\ UNCHANGED <<queues, hand, old>>

SweepRead(t) ==
    /\ pc[t] = "sweepRead"
    /\ \/ /\ TakeFrom(t, mReadItems, "swept")
          /\ mReadItems' = Rest(mReadItems)
       \/ /\ ~Ready(mReadItems)
          /\ Goto(t, "sweepWrite")
          /\ UNCHANGED <<mReadItems, hand>>
    /\ UNCHANGED <<mWriteItems, mDisabledItems, icount, old>>

SweepWrite(t) ==
    /\ pc[t] = "sweepWrite"
    /\ \/ /\ TakeFrom(t, mWriteItems, "swept")
          /\ mWriteItems' = Rest(mWriteItems)
       \/ /\ ~Ready(mWriteItems)
          /\ Goto(t, "sweepRead")
          /\ UNCHANGED <<mWriteItems, hand>>
    /\ UNCHANGED <<mReadItems, mDisabledItems, icount, old>>

Swept(t) ==
    /\ pc[t] = "swept"
    /\ mDisabledItems' = Claimed(mDisabledItems, t, hand[t])
    /\ Goto(t, "toDisabled")
    /\ UNCHANGED <<mReadItems, mWriteItems, hand, icount, old>>

\* Mutant: one buffer too few is waited for.
MutSweptPublish(t) ==
    /\ pc[t] = "toDisabled"
    /\ mDisabledItems' = Published(mDisabledItems, t)
    /\ hand' = [hand EXCEPT ![t] = None]
    /\ icount' = [icount EXCEPT ![t] = icount[t] + 1]
    /\ IF icount[t] + 1 < N - 1
       THEN Goto(t, "sweepRead") /\ UNCHANGED old
       ELSE Goto(t, "cleared") /\ old' = Buffers
    /\ UNCHANGED <<mReadItems, mWriteItems>>

\* Mutant: one buffer too many is waited for.
MutSweptPublishMore(t) ==
    /\ pc[t] = "toDisabled"
    /\ mDisabledItems' = Published(mDisabledItems, t)
    /\ hand' = [hand EXCEPT ![t] = None]
    /\ icount' = [icount EXCEPT ![t] = icount[t] + 1]
    /\ IF icount[t] + 1 <= N
       THEN Goto(t, "sweepRead") /\ UNCHANGED old
       ELSE Goto(t, "cleared") /\ old' = Buffers
    /\ UNCHANGED <<mReadItems, mWriteItems>>

\* The loop ends when N pushes have been counted; the caller then has every
\* buffer out of circulation, or so it takes it.
SweptPublish(t) ==
    /\ pc[t] = "toDisabled"
    /\ mDisabledItems' = Published(mDisabledItems, t)
    /\ hand' = [hand EXCEPT ![t] = None]
    /\ icount' = [icount EXCEPT ![t] = icount[t] + 1]
    /\ IF icount[t] + 1 < N
       THEN Goto(t, "sweepRead") /\ UNCHANGED old
       ELSE Goto(t, "cleared") /\ old' = Buffers
    /\ UNCHANGED <<mReadItems, mWriteItems>>

----------------------------------------------------------------------------
(* enable: put N buffers into mWriteItems                                  *)

BeginEnable(t) ==
    /\ pc[t] = "cleared"
    /\ icount' = [icount EXCEPT ![t] = 0]
    /\ Goto(t, "refill")
    /\ UNCHANGED <<queues, hand, old>>

\* The other branch of the loop, for mDisabledItems without a buffer to give, is
\* never taken, not even when clears overlap: FlushedWhenCleared says so.
RefillDisabled(t) ==
    /\ pc[t] = "refill"
    /\ TakeFrom(t, mDisabledItems, "refilled")
    /\ mDisabledItems' = Rest(mDisabledItems)
    /\ UNCHANGED <<mReadItems, mWriteItems, icount, old>>

Refilled(t) ==
    /\ pc[t] = "refilled"
    /\ mWriteItems' = Claimed(mWriteItems, t, hand[t])
    /\ Goto(t, "toRefill")
    /\ UNCHANGED <<mReadItems, mDisabledItems, hand, icount, old>>

\* Mutant: one buffer too few is put back.
MutRefilledPublish(t) ==
    /\ pc[t] = "toRefill"
    /\ mWriteItems' = Published(mWriteItems, t)
    /\ hand' = [hand EXCEPT ![t] = None]
    /\ icount' = [icount EXCEPT ![t] = icount[t] + 1]
    /\ Goto(t, IF icount[t] + 1 < N - 1 THEN "refill" ELSE "idle")
    /\ UNCHANGED <<mReadItems, mDisabledItems, old>>

RefilledPublish(t) ==
    /\ pc[t] = "toRefill"
    /\ mWriteItems' = Published(mWriteItems, t)
    /\ hand' = [hand EXCEPT ![t] = None]
    /\ icount' = [icount EXCEPT ![t] = icount[t] + 1]
    /\ Goto(t, IF icount[t] + 1 < N THEN "refill" ELSE "idle")
    /\ UNCHANGED <<mReadItems, mDisabledItems, old>>

----------------------------------------------------------------------------
Write(t) == PopWrite(t) \/ EndWrite(t) \/ EndWritePublish(t)
Read(t) == EndRead(t) \/ EndReadPublish(t)
Disable(t) == SweepRead(t) \/ SweepWrite(t) \/ Swept(t) \/ SweptPublish(t)
Enable(t) ==
    BeginEnable(t) \/ RefillDisabled(t) \/ Refilled(t) \/ RefilledPublish(t)

Next ==
    \/ \E t \in Writers : BeginWrite(t) \/ Write(t)
    \/ \E t \in Readers : BeginRead(t) \/ Read(t)
    \/ \E t \in Clearers : BeginDisable(t) \/ Disable(t) \/ Enable(t)

Spec == Init /\ [][Next]_vars

\* A thread inside one of the calls goes on, and the render thread keeps
\* redrawing (the idle timer of the editor).  Nobody need begin to write or
\* to clear.
Fairness ==
    /\ \A t \in Writers : WF_vars(Write(t))
    /\ \A t \in Readers : WF_vars(BeginRead(t) \/ Read(t))
    /\ \A t \in Clearers : WF_vars(Disable(t)) /\ WF_vars(Enable(t))

FairSpec == Spec /\ Fairness

----------------------------------------------------------------------------
(* Properties                                                              *)

Labels == {"idle", "popWrite", "writing", "toRead", "reading", "toWrite",
           "sweepRead", "sweepWrite", "swept", "toDisabled", "cleared",
           "refill", "refilled", "toRefill"}

Entry == [item : Buffers, writer : Threads \cup {NoThread}]

\* The type invariant; a thread holds a buffer exactly at the labels between
\* a pop and the end of the push that gives the buffer away.
TypeOK ==
    /\ mReadItems \in Seq(Entry)
    /\ mWriteItems \in Seq(Entry)
    /\ mDisabledItems \in Seq(Entry)
    /\ pc \in [Threads -> Labels]
    /\ hand \in [Threads -> Buffers \cup {None}]
    /\ icount \in [Threads -> 0 .. N]
    /\ old \subseteq Buffers

\* Threads between the pop of a buffer and the claim of a place for it.
Holding(t) == pc[t] \in {"writing", "reading", "swept", "refilled"}

Places(b) ==
    {<<"hand", t>> : t \in {u \in Threads : Holding(u) /\ hand[u] = b}}
        \cup {<<"read", i>> : i \in {j \in DOMAIN mReadItems : mReadItems[j].item = b}}
        \cup {<<"write", i>> : i \in {j \in DOMAIN mWriteItems : mWriteItems[j].item = b}}
        \cup {<<"disabled", i>> :
                i \in {j \in DOMAIN mDisabledItems : mDisabledItems[j].item = b}}

\* No buffer is lost and none is in two places, whoever disables, enables,
\* writes and reads at the same time: in particular a buffer being drawn is
\* not being filled.
OnePlace == TypeOK /\ \A b \in Buffers : Cardinality(Places(b)) = 1

\* The labels inside disable and inside enable.
Sweeping == {"sweepRead", "sweepWrite", "swept", "toDisabled"}
Refilling == {"refill", "refilled", "toRefill"}

Clearing(t) == pc[t] \in Sweeping \cup {"cleared"} \cup Refilling

\* Clears do not overlap: what the code asserts of gbInsideClearAndSync for
\* those of the update thread, and nothing for those of others.
OneClears == \A t, u \in Clearers : Clearing(t) /\ Clearing(u) => t = u

\* No thread draws and none fills between Begin- and EndClearAndSync, whatever
\* they held when it began and whoever else clears: every buffer is in
\* mDisabledItems, so drawables may be deleted; and enable finds there, written
\* and at the head, each buffer it takes out, so that it never takes one from
\* mWriteItems.
FlushedWhenCleared ==
    \A t \in Clearers :
        /\ pc[t] = "cleared" =>
            \A b \in Buffers : \E i \in DOMAIN mDisabledItems : mDisabledItems[i].item = b
        /\ pc[t] = "refill" => Ready(mDisabledItems)

\* What was queued for drawing before a clear is never drawn after it: the
\* buffer a reader has was filled since.
NoStaleRead == \A t \in Readers : pc[t] \in {"reading", "toWrite"} => hand[t] \notin old

Doing(t) ==
    CASE pc[t] = "writing" -> "write"
      [] pc[t] = "reading" -> "read"
      [] pc[t] \in Sweeping -> "stop"
      [] pc[t] = "cleared" -> "stopped"
      [] pc[t] \in Refilling -> "restart"
      [] OTHER -> "nothing"

Promise == INSTANCE BufferExchange WITH
    free <- ItemsOf(mWriteItems), withheld <- ItemsOf(mDisabledItems),
    filled <- InOrder(mReadItems),
    held <- [t \in Threads |-> IF Holding(t) THEN hand[t] ELSE None],
    doing <- [t \in Threads |-> Doing(t)]

\* With one clear at a time, the three queues and the two counting loops keep
\* the promise of the exchange: the loop of disable ends when every buffer is
\* withheld, wherever it was, and that of enable when none is.
ImplementsExchange == Promise!Spec

\* disable ends, though buffers are in the hands of others when it begins and
\* keep moving, and so does enable.
ClearCompletes ==
    \A t \in Clearers :
        /\ pc[t] = "sweepRead" ~> pc[t] = "cleared"
        /\ pc[t] = "refill" ~> pc[t] = "idle"

\* A thread waiting for a buffer to fill gets one, as long as the render
\* thread keeps reading.
WriteGetsBuffer == \A t \in Writers : pc[t] = "popWrite" ~> pc[t] = "writing"
=============================================================================
