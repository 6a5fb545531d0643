------------------------------ MODULE Scheduler ------------------------------
(***************************************************************************)
(* ork::dataflow::scheduler, cluster and processor                         *)
(* (ork.core/src/dataflow/scheduler.cpp): Process divides one module after *)
(* another into work units, hands them to processor threads and waits for  *)
(* the cluster's count of units done.  A processor holds the lock of its   *)
(* current unit from Compute to the end of NotifyWorkUnitFinished.         *)
(*                                                                         *)
(* The cluster lives on the stack of Process.  Its counters and mBusy are  *)
(* plain variables: an increment is a load and a store.                    *)
(***************************************************************************)
EXTENDS Naturals, FiniteSets

CONSTANTS
    Processors,
    None,       \* no work unit, no processor
    Affinities, \* processors that match a work unit's affinity
    NumModules, \* dirty modules of the graphs
    MaxUnits    \* bound: work units of a module

ASSUME ProcessorsAssumption == IsFiniteSet(Processors) /\ None \notin Processors
ASSUME AffinitiesAssumption == Affinities \subseteq SUBSET Processors \ {{}}
ASSUME NoneAssumption == None \notin Nat \X Nat
ASSUME BoundsAssumption == NumModules \in Nat /\ MaxUnits \in Nat

VARIABLES
    mod,     \* serial number of the cluster: modules divided so far
    at,      \* where Process is
    matches, \* per work unit of the cluster, the processors for its affinity
    miNumWorkUnitsAssigned,
    miNumWorkUnitsDone,
    proc,    \* the processor AssignWorkUnit has chosen
    mbTerminate, \* per processor, once it sees it at the head of its loop
    mCurrentWorkUnit,
    mBusy,
    doing,   \* where a processor is; it holds its lock unless "idle"
    count,   \* what a processor has loaded to increment
    computed, combined  \* work units and modules that have been

cluster == <<mod, matches, miNumWorkUnitsAssigned, miNumWorkUnitsDone>>
processor == <<mbTerminate, mCurrentWorkUnit, mBusy, doing, count>>
vars == <<cluster, at, proc, processor, computed, combined>>

miNumWorkUnits == Cardinality(DOMAIN matches)
Units(m) == {<<m, i>> : i \in DOMAIN matches}
Doings == {"idle", "compute", "check", "combine", "load", "store", "finish"}

Init ==
    /\ mod = 0 /\ at = "module"
    /\ matches = [i \in 1..0 |-> {}]
    /\ miNumWorkUnitsAssigned = 0 /\ miNumWorkUnitsDone = 0
    /\ proc = None
    /\ mbTerminate = [p \in Processors |-> FALSE]
    /\ mCurrentWorkUnit = [p \in Processors |-> None]
    /\ mBusy = [p \in Processors |-> FALSE]
    /\ doing = [p \in Processors |-> "idle"]
    /\ count = [p \in Processors |-> 0]
    /\ computed = {} /\ combined = {}

----------------------------------------------------------------------------
(* The thread that calls Process                                           *)

\* The next dirty module gets a cluster and divides its work.
DivideWork ==
    /\ at = "module" /\ mod < NumModules
    /\ at' = "assign" /\ mod' = mod + 1
    /\ \E n \in 0..MaxUnits : matches' \in [1..n -> Affinities]
    /\ miNumWorkUnitsAssigned' = 0 /\ miNumWorkUnitsDone' = 0
    /\ UNCHANGED <<proc, processor, computed, combined>>

\* GetPendingWorkUnit, and the search for an idle processor, in the order of
\* their addresses: any.  It goes on until there is one.
Choose(p) ==
    /\ at = "assign" /\ miNumWorkUnitsAssigned < miNumWorkUnits
    /\ ~mBusy[p] /\ p \in matches[miNumWorkUnitsAssigned + 1]
    /\ at' = "hand" /\ proc' = p
    /\ miNumWorkUnitsAssigned' = miNumWorkUnitsAssigned + 1
    /\ UNCHANGED <<mod, matches, miNumWorkUnitsDone, processor, computed, combined>>

\* Mutant: the processor is not marked busy.
MutAssignWorkUnit ==
    /\ at = "hand" /\ doing[proc] = "idle"
    /\ at' = "assign"
    /\ mCurrentWorkUnit' = [mCurrentWorkUnit EXCEPT ![proc] = <<mod, miNumWorkUnitsAssigned>>]
    /\ UNCHANGED <<cluster, proc, mbTerminate, mBusy, doing, count, computed, combined>>

\* Under the processor's lock.
AssignWorkUnit ==
    /\ at = "hand" /\ doing[proc] = "idle"
    /\ at' = "assign"
    /\ mCurrentWorkUnit' = [mCurrentWorkUnit EXCEPT ![proc] = <<mod, miNumWorkUnitsAssigned>>]
    /\ mBusy' = [mBusy EXCEPT ![proc] = TRUE]
    /\ UNCHANGED <<cluster, proc, mbTerminate, doing, count, computed, combined>>

\* All are done: the cluster goes out of scope.
Completed ==
    /\ at = "assign" /\ miNumWorkUnitsAssigned = miNumWorkUnits
    /\ miNumWorkUnitsDone >= miNumWorkUnits
    /\ at' = "module"
    /\ UNCHANGED <<cluster, proc, processor, computed, combined>>

Returned == at = "module" /\ mod = NumModules

\* scheduler::terminate goes from processor to processor, whatever they do; a
\* processor leaves its loop when it has finished what it does.
Terminate(p) ==
    /\ doing[p] = "idle"
    /\ ~mbTerminate[p] /\ mbTerminate' = [mbTerminate EXCEPT ![p] = TRUE]
    /\ UNCHANGED <<cluster, at, proc, mCurrentWorkUnit, mBusy, doing, count, computed, combined>>

----------------------------------------------------------------------------
(* ProcessorThreadMain                                                     *)

Step(p, from, to) == doing[p] = from /\ doing' = [doing EXCEPT ![p] = to]

TakeUnit(p) ==
    /\ Step(p, "idle", "compute")
    /\ ~mbTerminate[p] /\ mCurrentWorkUnit[p] # None
    /\ UNCHANGED <<cluster, at, proc, mbTerminate, mCurrentWorkUnit, mBusy, count,
                   computed, combined>>

Compute(p) ==
    /\ Step(p, "compute", "check")
    /\ computed' = computed \cup {mCurrentWorkUnit[p]}
    /\ UNCHANGED <<cluster, at, proc, mbTerminate, mCurrentWorkUnit, mBusy, count, combined>>

\* Mutant: one unit early.
MutNotify(p) ==
    /\ Step(p, "check", IF miNumWorkUnitsDone + 1 >= miNumWorkUnits - 1 THEN "combine" ELSE "load")
    /\ UNCHANGED <<cluster, at, proc, mbTerminate, mCurrentWorkUnit, mBusy, count,
                   computed, combined>>

\* NotifyWorkUnitFinished: is it the last one?
Notify(p) ==
    /\ Step(p, "check", IF miNumWorkUnitsDone + 1 = miNumWorkUnits THEN "combine" ELSE "load")
    /\ UNCHANGED <<cluster, at, proc, mbTerminate, mCurrentWorkUnit, mBusy, count,
                   computed, combined>>

CombineWork(p) ==
    /\ Step(p, "combine", "load")
    /\ combined' = combined \cup {mCurrentWorkUnit[p][1]}
    /\ UNCHANGED <<cluster, at, proc, mbTerminate, mCurrentWorkUnit, mBusy, count, computed>>

Load(p) ==
    /\ Step(p, "load", "store")
    /\ count' = [count EXCEPT ![p] = miNumWorkUnitsDone]
    /\ UNCHANGED <<cluster, at, proc, mbTerminate, mCurrentWorkUnit, mBusy, computed, combined>>

Store(p) ==
    /\ Step(p, "store", "finish")
    /\ miNumWorkUnitsDone' = count[p] + 1
    /\ UNCHANGED <<mod, matches, miNumWorkUnitsAssigned, at, proc, mbTerminate,
                   mCurrentWorkUnit, mBusy, count, computed, combined>>

\* Mutant: the processor stays busy.
MutFinish(p) ==
    /\ Step(p, "finish", "idle")
    /\ mCurrentWorkUnit' = [mCurrentWorkUnit EXCEPT ![p] = None]
    /\ UNCHANGED <<cluster, at, proc, mbTerminate, mBusy, count, computed, combined>>

\* The assertion on the count, which the cluster may not live to see, has no
\* effect; then the processor is idle and unlocked.
Finish(p) ==
    /\ Step(p, "finish", "idle")
    /\ mCurrentWorkUnit' = [mCurrentWorkUnit EXCEPT ![p] = None]
    /\ mBusy' = [mBusy EXCEPT ![p] = FALSE]
    /\ UNCHANGED <<cluster, at, proc, mbTerminate, count, computed, combined>>

Scheduling == DivideWork \/ (\E p \in Processors : Choose(p)) \/ AssignWorkUnit \/ Completed

Processing(p) ==
    TakeUnit(p) \/ Compute(p) \/ Notify(p) \/ CombineWork(p) \/ Load(p) \/ Store(p) \/ Finish(p)

Next == Scheduling \/ \E p \in Processors : Terminate(p) \/ Processing(p)

Spec == Init /\ [][Next]_vars

\* Every thread runs.
FairSpec == Spec /\ WF_vars(Scheduling) /\ \A p \in Processors : WF_vars(Processing(p))

----------------------------------------------------------------------------
TypeOK ==
    /\ mod \in 0..NumModules /\ at \in {"module", "assign", "hand"}
    /\ miNumWorkUnitsAssigned \in 0..miNumWorkUnits
    /\ miNumWorkUnitsDone \in 0..miNumWorkUnits
    /\ proc \in Processors \cup {None}
    /\ doing \in [Processors -> Doings]

\* Each work unit is computed once: the processor it is handed to has none
\* (the assertion of AssignWorkUnit), nobody has it or has computed it; and
\* no module is divided before all the work of the one before it, whose
\* outputs it reads, is computed.
UnitsOnce ==
    /\ TypeOK
    /\ at = "hand" => mCurrentWorkUnit[proc] = None \/ doing[proc] = "finish"
    /\ \A p \in Processors : doing[p] = "compute" =>
        /\ mCurrentWorkUnit[p] \notin computed
        /\ \A q \in Processors \ {p} : mCurrentWorkUnit[q] # mCurrentWorkUnit[p]
    /\ at = "module" => Units(mod) \subseteq computed

\* CombineWork is called at most once, with all of the module's work computed;
\* and whoever still counts does so in a cluster that lives.  (Two processors
\* that check the count together both leave CombineWork to the other.)
CombineLast ==
    \A p \in Processors :
        /\ doing[p] = "combine" =>
            Units(mod) \subseteq computed /\ mod \notin combined
        /\ doing[p] \in {"check", "combine", "load", "store"} =>
            at # "module" /\ mCurrentWorkUnit[p][1] = mod

\* Two increments made one: all is computed, and Process waits for ever.  It
\* takes work units that more than one processor matches.
CountLost ==
    /\ at = "assign" /\ miNumWorkUnitsAssigned = miNumWorkUnits
    /\ Units(mod) \subseteq computed
    /\ \A p \in Processors : mCurrentWorkUnit[p] = None
    /\ miNumWorkUnitsDone < miNumWorkUnits
    /\ Cardinality(UNION {matches[i] : i \in DOMAIN matches}) > 1

\* Process returns, unless the processors are terminated under it or a count
\* was lost.
ProcessReturns == <>(Returned \/ CountLost \/ \E p \in Processors : mbTerminate[p])
=============================================================================
