---------------------------- MODULE DataflowOrder ----------------------------
(***************************************************************************)
(* graph_inst::RefreshTopology and dgqueue (ork.core/src/dataflow): the    *)
(* order in which the modules of a dataflow graph are computed, and the    *)
(* registers their outputs share.  QueModule calls itself for a module's   *)
(* dependants: its calls are the frames of mModStack.                      *)
(*                                                                         *)
(* A module has one output, whose connections are visited in any order.    *)
(* There is one set of registers, of which any free one may be given out.  *)
(***************************************************************************)
EXTENDS Integers, Sequences, FiniteSets, SequencesExt

CONSTANTS
    Modules,
    None,
    Registers,
    Graphs,    \* sets of connections, from producer to consumer
    HalfRange  \* of the serial number and of the depth, narrowed to s8: 128

ASSUME ModulesAssumption == IsFiniteSet(Modules) /\ None \notin Modules
ASSUME RegistersAssumption ==
    Cardinality(Registers) >= Cardinality(Modules) /\ None \notin Registers
ASSUME GraphsAssumption == \A g \in Graphs : g \subseteq Modules \X Modules
ASSUME HalfRangeAssumption == HalfRange \in Nat \ {0}

VARIABLES
    connections, \* the graph
    typed,       \* the modules whose output takes a register
    floats,      \* those connected to themselves by plugs of floats only
    probe,       \* mpProbeModule
    mDepth,
    pending,
    ready,    \* what is left of PendingAndReady
    stack,    \* mModStack, with the dependants each call has yet to visit
    next,     \* mSerial
    serial,   \* per module, its mSerial once it is queued
    reg,      \* per module, its output's register
    allocated \* per allocated register, mpOwner and mChildren

graph == <<connections, typed, floats, probe>>
vars == <<graph, mDepth, pending, ready, stack, next, serial, reg, allocated>>

Dependants(m) == {d \in Modules \ {m} : <<m, d>> \in connections}
Inputs(m) == {p \in Modules : <<p, m>> \in connections}
Looped == {m \in Modules : <<m, m>> \in connections}

\* A connection of a module to itself counts, unless its plug is a float's.
HasPendingInputs(m) == (Inputs(m) \ ({m} \cap floats)) \cap pending # {}
Narrow(n) == ((n + HalfRange) % (2 * HalfRange)) - HalfRange

\* The context does not initialize mpProbeModule: without SetProbeModule it may
\* be any module or none.
Init ==
    /\ connections \in Graphs /\ typed \in SUBSET Modules /\ floats \in SUBSET Looped
    /\ probe \in Modules \cup {None}
    /\ mDepth = [m \in Modules |-> 0]
    /\ pending = Modules
    /\ ready = <<>> /\ stack = <<>> /\ next = 0
    /\ serial = <<>>
    /\ reg = [m \in Modules |-> None]
    /\ allocated = <<>>

----------------------------------------------------------------------------
(* The constructor of dgqueue: depths, until nothing changes.  A module     *)
(* connected to itself sinks until its depth wraps around.                 *)

Lower(m) == {mDepth[d] - 1 : d \in {c \in Modules : <<m, c>> \in connections}}

ComputeDepth(m) ==
    \E low \in Lower(m) :
        /\ \A l \in Lower(m) : low <= l
        /\ low < 0 /\ low < mDepth[m]
        /\ mDepth' = [mDepth EXCEPT ![m] = Narrow(low)]
        /\ UNCHANGED <<graph, pending, ready, stack, next, serial, reg, allocated>>

DepthsDone == \A m \in Modules : \A l \in Lower(m) : l < 0 => mDepth[m] <= l

----------------------------------------------------------------------------
(* Registers                                                               *)

\* Mutant: whoever has read the register, it is free.
MutPruned(m) ==
    Restrict(allocated, {r \in DOMAIN allocated : m \notin allocated[r].mChildren})

\* Prune: a module that has been computed needs its inputs no more.  Registers
\* that nobody needs are freed; the probed module's are still needed.
Pruned(m) ==
    LET Left(r) == IF allocated[r].mpOwner = probe THEN allocated[r].mChildren
                   ELSE allocated[r].mChildren \ {m}
    IN [r \in {x \in DOMAIN allocated : Left(x) # {}} |->
           [mpOwner |-> allocated[r].mpOwner, mChildren |-> Left(r)]]

\* What QueModule prunes on the way in: the module on top of the stack.
PrunedOnEntry == IF stack = <<>> THEN allocated ELSE Pruned(Last(stack).mod)

NeedsRegister(m) == m \in typed /\ (Inputs(m) # {} \/ \E d \in Modules : <<m, d>> \in connections)

----------------------------------------------------------------------------
(* RefreshTopology and QueModule                                           *)

Key(m) == mDepth[m] * 16 - 1

\* Mutant: only modules without inputs are ready.
MutFindReady ==
    /\ DepthsDone /\ stack = <<>> /\ ready = <<>> /\ pending # {}
    /\ ready' \in SetToSeqs({m \in pending : Inputs(m) = {}})
    /\ UNCHANGED <<graph, mDepth, pending, stack, next, serial, reg, allocated>>

\* One turn of the loop: the pending modules without pending inputs, by key.
\* With a cycle there are none, and the loop never ends.
FindReady ==
    /\ DepthsDone /\ stack = <<>> /\ ready = <<>> /\ pending # {}
    /\ ready' \in {s \in SetToSeqs({m \in pending : ~HasPendingInputs(m)}) :
                       \A i, j \in DOMAIN s : i < j => Key(s[i]) <= Key(s[j])}
    /\ UNCHANGED <<graph, mDepth, pending, stack, next, serial, reg, allocated>>

\* QueModule up to its recursion.
QueModule(m, callers) ==
    /\ pending' = pending \ {m}
    /\ serial' = [x \in DOMAIN serial \cup {m} |-> IF x = m THEN Narrow(next) ELSE serial[x]]
    /\ next' = next + 1
    /\ LET before == PrunedOnEntry IN
        IF NeedsRegister(m)
        THEN \E r \in Registers \ DOMAIN before :
                /\ reg' = [reg EXCEPT ![m] = r]
                /\ allocated' = [x \in DOMAIN before \cup {r} |->
                                    IF x = r THEN [mpOwner |-> m, mChildren |-> Dependants(m)]
                                    ELSE before[x]]
        ELSE allocated' = before /\ UNCHANGED reg
    /\ stack' = Append(callers, [mod |-> m,
                                 todo |-> IF NeedsRegister(m) THEN Dependants(m) ELSE {}])
    /\ UNCHANGED <<graph, mDepth>>

QueNext ==
    /\ stack = <<>> /\ ready # <<>>
    /\ ready' = Tail(ready)
    /\ IF Head(ready) \in pending
       THEN QueModule(Head(ready), <<>>)
       ELSE UNCHANGED <<graph, mDepth, pending, stack, next, serial, reg, allocated>>

\* Mutant: a dependant is queued although inputs are pending.
MutVisit(d) ==
    /\ stack # <<>> /\ d \in Last(stack).todo
    /\ LET callers == [stack EXCEPT ![Len(stack)].todo = @ \ {d}] IN
        IF d \in pending
        THEN QueModule(d, callers)
        ELSE stack' = callers /\ UNCHANGED <<graph, mDepth, pending, next, serial, reg, allocated>>
    /\ UNCHANGED ready

\* A dependant is queued if it waits for nothing else.
Visit(d) ==
    /\ stack # <<>> /\ d \in Last(stack).todo
    /\ LET callers == [stack EXCEPT ![Len(stack)].todo = @ \ {d}] IN
        IF d \in pending /\ ~HasPendingInputs(d)
        THEN QueModule(d, callers)
        ELSE stack' = callers /\ UNCHANGED <<graph, mDepth, pending, next, serial, reg, allocated>>
    /\ UNCHANGED ready

\* The call returns; while modules are pending it prunes once more.
Return ==
    /\ stack # <<>> /\ Last(stack).todo = {}
    /\ allocated' = IF pending # {} THEN Pruned(Last(stack).mod) ELSE allocated
    /\ stack' = Front(stack)
    /\ UNCHANGED <<graph, mDepth, pending, ready, next, serial, reg>>

Next ==
    \/ \E m \in Modules : ComputeDepth(m)
    \/ FindReady \/ QueNext \/ Return
    \/ \E d \in Modules : Visit(d)

Spec == Init /\ [][Next]_vars
FairSpec == Spec /\ WF_vars(Next)

----------------------------------------------------------------------------
TypeOK ==
    /\ mDepth \in [Modules -> Int]
    /\ DOMAIN serial = Modules \ pending
    /\ \A f \in ToSet(stack) : f.mod \notin pending /\ f.todo \subseteq Modules
    /\ reg \in [Modules -> Registers \cup {None}]
    /\ DOMAIN allocated \subseteq Registers

\* The modules are computed in the order of their serial numbers: everything a
\* module reads has been computed before it.
ProducersFirst ==
    /\ TypeOK
    /\ \A m \in DOMAIN serial : \A p \in Inputs(m) \ {m} :
            p \in DOMAIN serial /\ serial[p] < serial[m]

\* p's register is still p's when m is computed: no module in between, nor m
\* itself, has been given it.
HeldUntil(p, m) ==
    \A q \in DOMAIN serial \ {p} :
        serial[p] < serial[q] /\ serial[q] <= serial[m] => reg[q] # reg[p]

\* What a module reads has not been overwritten, for all the sharing of
\* registers; and a probed module that feeds others keeps its register to the end.
InputsIntact ==
    \A p \in DOMAIN serial : reg[p] # None =>
        \A m \in DOMAIN serial :
            m \in Dependants(p) \/ (p = probe /\ Dependants(p) # {}) => HeldUntil(p, m)

Promise == INSTANCE RegisterPlan WITH position <- serial, register <- reg

\* The recursion, the depths and the lists of children implement the plan: a
\* module's place is after everything it reads, and its register is one that
\* nothing still to be computed reads.
ImplementsPlan == Promise!Spec

\* In a graph without cycles the loops end with every module queued.  A module
\* may feed itself, with floats and nobody else: were it to feed others from the
\* same output, its depth would wrap for ever.
EveryModuleQueued ==
    (\A m \in Looped : m \in floats /\ Dependants(m) = {}) => <>(pending = {} /\ stack = <<>>)
=============================================================================
