---------------------------- MODULE TripleBuffer ----------------------------
(***************************************************************************)
(* concurrent_triple_buffer (ork/util/triple_buffer.h): three buffers and  *)
(* one word, mState, of four two-bit fields.  One thread pushes, one       *)
(* pulls, and the owner disables and enables.  Every operation loads the   *)
(* word, computes a new one from what it loaded, and tries to swap it in;  *)
(* it starts over when the swap fails.  A buffer is its number, 1 to 3, as *)
(* in the fields; 0 is none.                                               *)
(*                                                                         *)
(* Pack and UnPack lay the four fields side by side: the record stands for *)
(* the word, and fields are compared as the word is.                       *)
(***************************************************************************)
EXTENDS Naturals, FiniteSets, Sequences

CONSTANT MayDisable     \* whether the owner disables at all

ASSUME FlagsAssumption == MayDisable \in BOOLEAN

Threads == {"writer", "reader", "owner"}

\* mEnab
off == 0
starting == 1
on == 2
stopping == 3

VARIABLES
    asserts,      \* whether the build evaluates assert(): the same for ever
    mState,
    ost,          \* per thread: the local copy of mState
    pc,           \* per thread: the operation and how far it is
    buf,          \* per thread: the buffer the last begin_ returned
    published,    \* history: buffers pushed since the last disable began
    aborted       \* an assert failed

vars == <<asserts, mState, ost, pc, buf, published, aborted>>

State(r, w, n, e) == [mRead |-> r, mWrit |-> w, mNxtR |-> n, mEnab |-> e]

\* A local copy is not used again after its swap.
Unused == State(0, 0, 0, off)

Init ==
    /\ asserts \in BOOLEAN
    /\ mState = State(0, 0, 0, starting)
    /\ ost = [t \in Threads |-> Unused]
    /\ pc = [t \in Threads |-> IF t = "writer" THEN "begin_push"
                               ELSE IF t = "reader" THEN "begin_pull" ELSE "enabled"]
    /\ buf = [t \in Threads |-> 0]
    /\ published = {}
    /\ aborted = FALSE

----------------------------------------------------------------------------
(* What each operation makes of the word it loaded                         *)

\* "mRead==mWrit==0" compares mRead==mWrit with 0: it holds when they differ.
CommonUpdate(s) ==
    LET stops == s.mEnab = stopping /\ (s.mRead # s.mWrit)
    IN [s EXCEPT !.mEnab = IF @ = starting THEN on ELSE IF stops THEN off ELSE @,
                 !.mNxtR = IF s.mEnab = on THEN @ ELSE 0]

\* The asserts of CommonUpdate, on what it is called with.
Sane(s) == s.mEnab \in {off, starting} => s.mRead = 0 /\ s.mWrit = 0

\* Mutant: the same, modulo three, without regard to the reader.
MutNextWriteBlind(s) == (s.mNxtR % 3) + 1

\* The tables of begin_push: by mRead, then by mNxtR.
NextWrite(s) ==
    LET tab == <<<<1, 2, 3, 1>>, <<2, 3, 2, 3>>, <<3, 1, 3, 1>>, <<1, 2, 1, 2>>>>
    IN tab[s.mRead + 1][s.mNxtR + 1]

\* Mutant: the buffer is next to be read before it is written.
MutBegunPush(s) ==
    LET u == CommonUpdate(s)
        nwr == IF u.mEnab = on THEN NextWrite(u) ELSE 0
    IN [u EXCEPT !.mWrit = nwr, !.mNxtR = nwr]

BegunPush(s) ==
    LET u == CommonUpdate(s)
    IN [u EXCEPT !.mWrit = IF u.mEnab = on THEN NextWrite(u) ELSE 0]

EndedPush(s) == [s EXCEPT !.mNxtR = s.mWrit]

BegunPull(s) ==
    LET u == CommonUpdate(s)
    IN [u EXCEPT !.mRead = IF u.mEnab = on THEN u.mNxtR ELSE 0]

EndedPull(s) == [CommonUpdate(s) EXCEPT !.mRead = 0]

\* Mutant: the reader is forgotten.
MutStopped(s) == State(0, 0, 0, stopping)

\* Mutant: the buffer goes on working.
MutStoppedOn(s) == State(s.mRead, 0, 0, s.mEnab)

Stopped(s) == State(s.mRead, 0, 0, stopping)

----------------------------------------------------------------------------
(* Every operation is a load and a swap                                    *)

Goto(t, l) == pc' = [pc EXCEPT ![t] = l]

\* All but end_push and disable call CommonUpdate, which asserts.
Load(t, here, next, checks) ==
    /\ pc[t] = here
    /\ ~aborted
    /\ ost' = [ost EXCEPT ![t] = mState]
    /\ aborted' = (asserts /\ checks /\ ~Sane(mState))
    /\ Goto(t, next)
    /\ UNCHANGED <<asserts, mState, buf, published>>

\* A weak swap may fail though the word is what was loaded.
Swap(t, here, next, new) ==
    /\ pc[t] = here
    /\ ~aborted
    /\ ost[t] = mState
    /\ mState' = new
    /\ ost' = [ost EXCEPT ![t] = Unused]
    /\ Goto(t, next)
    /\ UNCHANGED <<asserts, aborted>>

SwapFails(t, here, back) ==
    /\ pc[t] = here
    /\ ~aborted
    /\ ost' = [ost EXCEPT ![t] = Unused]
    /\ Goto(t, back)
    /\ UNCHANGED <<asserts, mState, buf, published, aborted>>

LoadPush == Load("writer", "begin_push", "swap_begin_push", TRUE)
LoadEndPush == Load("writer", "writing", "swap_end_push", FALSE)
LoadPull == Load("reader", "begin_pull", "swap_begin_pull", TRUE)
LoadEndPull == Load("reader", "reading", "swap_end_pull", TRUE)

BeginPush ==
    LET new == BegunPush(ost["writer"]) IN
    /\ Swap("writer", "swap_begin_push", "writing", new)
    /\ buf' = [buf EXCEPT !["writer"] = new.mWrit]
    /\ UNCHANGED published

EndPush ==
    LET new == EndedPush(ost["writer"]) IN
    /\ Swap("writer", "swap_end_push", "begin_push", new)
    /\ buf' = [buf EXCEPT !["writer"] = 0]
    /\ published' = published \cup ({new.mNxtR} \ {0})

BeginPull ==
    LET new == BegunPull(ost["reader"]) IN
    /\ Swap("reader", "swap_begin_pull", "reading", new)
    /\ buf' = [buf EXCEPT !["reader"] = new.mRead]
    /\ UNCHANGED published

EndPull ==
    /\ Swap("reader", "swap_end_pull", "begin_pull", EndedPull(ost["reader"]))
    /\ buf' = [buf EXCEPT !["reader"] = 0]
    /\ UNCHANGED published

\* disable: the swap to stopping, the wait for the reader, the store of 0.
StartDisable ==
    /\ MayDisable
    /\ Load("owner", "enabled", "swap_disable", FALSE)

Disable ==
    /\ Swap("owner", "swap_disable", "stopping", Stopped(ost["owner"]))
    /\ published' = {}
    /\ UNCHANGED buf

DisableFails ==
    /\ pc["owner"] = "swap_disable"
    /\ ~aborted
    /\ ost' = [ost EXCEPT !["owner"] = mState]
    /\ UNCHANGED <<asserts, mState, pc, buf, published, aborted>>

AwaitReader ==
    /\ pc["owner"] = "stopping"
    /\ ~aborted
    /\ mState.mRead = 0
    /\ Goto("owner", "clear")
    /\ UNCHANGED <<asserts, mState, ost, buf, published, aborted>>

Clear ==
    /\ pc["owner"] = "clear"
    /\ ~aborted
    /\ mState' = State(0, 0, 0, off)
    /\ Goto("owner", "disabled")
    /\ UNCHANGED <<asserts, ost, buf, published, aborted>>

Enable ==
    /\ pc["owner"] = "disabled"
    /\ ~aborted
    /\ mState' = State(0, 0, 0, starting)
    /\ Goto("owner", "enabled")
    /\ UNCHANGED <<asserts, ost, buf, published, aborted>>

----------------------------------------------------------------------------
Push == LoadPush \/ BeginPush \/ LoadEndPush \/ EndPush
PushRetry == SwapFails("writer", "swap_begin_push", "begin_push")
                \/ SwapFails("writer", "swap_end_push", "writing")
Pull == LoadPull \/ BeginPull \/ LoadEndPull \/ EndPull
PullRetry == SwapFails("reader", "swap_begin_pull", "begin_pull")
                \/ SwapFails("reader", "swap_end_pull", "reading")
Disabling == Disable \/ DisableFails \/ AwaitReader \/ Clear

Next == Push \/ PushRetry \/ Pull \/ PullRetry \/ StartDisable \/ Disabling \/ Enable

Spec == Init /\ [][Next]_vars

\* Threads are scheduled, both keep calling, and a swap that can succeed
\* again and again succeeds once (each retry sleeps kquanta first).
Fairness ==
    /\ WF_vars(Push \/ PushRetry) /\ SF_vars(BeginPush) /\ SF_vars(EndPush)
    /\ WF_vars(Pull \/ PullRetry) /\ SF_vars(BeginPull) /\ SF_vars(EndPull)
    /\ WF_vars(Disabling) /\ SF_vars(Disable)

FairSpec == Spec /\ Fairness

----------------------------------------------------------------------------
(* Properties                                                              *)

Word == [mRead : 0 .. 3, mWrit : 0 .. 3, mNxtR : 0 .. 3, mEnab : 0 .. 3]

\* The type invariant; mState.mRead is the reader's buffer while it reads.
TypeOK ==
    /\ asserts \in BOOLEAN
    /\ mState \in Word
    /\ ost \in [Threads -> Word]
    /\ pc \in [Threads ->
            {"begin_push", "swap_begin_push", "writing", "swap_end_push",
             "begin_pull", "swap_begin_pull", "reading", "swap_end_pull",
             "enabled", "swap_disable", "stopping", "clear", "disabled"}]
    /\ buf \in [Threads -> 0 .. 3]
    /\ published \subseteq 1 .. 3
    /\ aborted \in BOOLEAN

\* The writer and the reader never hold the same buffer.  It does not hold:
\* the tables may choose the buffer that is next to be read.
Exclusive == buf["reader"] # 0 => buf["reader"] # buf["writer"]

\* The buffer begin_push returns is not the one being read at that moment,
\* whatever happened between its load and its swap: assert(ord!=nwr).
WriterAvoidsReader ==
    [][BeginPush => buf'["writer"] = 0 \/ buf'["writer"] # buf["reader"]]_vars

\* What begin_pull returns was pushed, to its end, since the last disable.
PulledWasPushed ==
    [][BeginPull => buf'["reader"] = 0 \/ buf'["reader"] \in published]_vars

\* When disable has returned, and until enable, nobody reads, whichever of
\* begin_pull and end_pull it overlapped.
DisabledMeansUnread == TypeOK /\ (pc["owner"] = "disabled" => buf["reader"] = 0)

\* disable returns, whatever the others are in the middle of, or ends the
\* program: while it waits for the reader's buffer any of the others turns
\* stopping into off, and the next call of CommonUpdate, in a build with
\* asserts, fails assert(mRead==0).
DisableCompletes ==
    pc["owner"] = "swap_disable" ~>
        \/ pc["owner"] = "disabled"
        \/ aborted /\ pc["owner"] = "stopping" /\ buf["reader"] # 0
=============================================================================
