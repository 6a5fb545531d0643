-------------------------- MODULE Scheduler_proofs --------------------------
(***************************************************************************)
(* Proofs about Scheduler, for every set of processors, every affinity of  *)
(* the work units and any number of modules and of work units.             *)
(***************************************************************************)
EXTENDS Scheduler, FiniteSetTheorems, TLAPS

----------------------------------------------------------------------------
(* The inductive invariant.  Processors may lose counts, so what is known  *)
(* of miNumWorkUnitsDone is that it is never more than the work units that *)
(* have been counted or are being forgotten.                               *)

\* Work units of the module that are with a processor, or have been.
Handed == IF at = "hand" THEN miNumWorkUnitsAssigned - 1 ELSE miNumWorkUnitsAssigned

Holds(p, i) == mCurrentWorkUnit[p] = <<mod, i>> /\ doing[p] # "finish"

\* Those that every processor is through with.
Out == {i \in 1..Handed : \A p \in Processors : ~Holds(p, i)}

Typed ==
    /\ mod \in Nat /\ at \in {"module", "assign", "hand"}
    /\ miNumWorkUnits \in Nat /\ DOMAIN matches = 1..miNumWorkUnits
    /\ miNumWorkUnitsAssigned \in 0..miNumWorkUnits
    /\ miNumWorkUnitsDone \in Nat
    /\ proc \in Processors \cup {None}
    /\ mCurrentWorkUnit \in [Processors -> (Nat \X Nat) \cup {None}]
    /\ mBusy \in [Processors -> BOOLEAN]
    /\ doing \in [Processors -> Doings]
    /\ count \in [Processors -> Nat]
    /\ mod <= NumModules
    /\ computed \subseteq Nat \X Nat /\ combined \subseteq Nat

\* What is handed over goes to a processor that has nothing.
HandOk ==
    at = "hand" => /\ proc \in Processors /\ mCurrentWorkUnit[proc] = None
                   /\ miNumWorkUnitsAssigned > 0

\* Who is busy, with what.
HeldOk(p) ==
    /\ mBusy[p] <=> mCurrentWorkUnit[p] # None
    /\ doing[p] # "idle" => mCurrentWorkUnit[p] # None
    /\ mCurrentWorkUnit[p] # None =>
        \/ mCurrentWorkUnit[p][1] = mod /\ mCurrentWorkUnit[p][2] \in 1..Handed
        \/ mCurrentWorkUnit[p][1] < mod /\ doing[p] = "finish"

HeldOnce ==
    \A p, q \in Processors :
        p # q /\ mCurrentWorkUnit[p] # None => mCurrentWorkUnit[p] # mCurrentWorkUnit[q]

ComputedOk ==
    /\ \A u \in computed : u[1] <= mod /\ (u[1] = mod => u[2] \in 1..Handed)
    /\ \A p \in Processors :
        /\ doing[p] \in {"idle", "compute"} => mCurrentWorkUnit[p] \notin computed
        /\ doing[p] \notin {"idle", "compute"} => mCurrentWorkUnit[p] \in computed
    /\ \A i \in Out : <<mod, i>> \in computed

CountOk ==
    /\ miNumWorkUnitsDone <= Cardinality(Out)
    /\ \A p \in Processors : doing[p] = "store" => count[p] <= Cardinality(Out)

\* All but i are out.
LastIs(i) == i \in 1..miNumWorkUnits /\ (1..miNumWorkUnits) \ {i} \subseteq Out

CombinedOk ==
    /\ \A m \in combined : m <= mod
    /\ \A p \in Processors : doing[p] = "combine" =>
        mod \notin combined /\ LastIs(mCurrentWorkUnit[p][2])
    /\ mod \in combined => \E i \in 1..miNumWorkUnits :
        /\ LastIs(i)
        /\ i \in Out \/ \E p \in Processors : doing[p] \in {"load", "store"} /\ Holds(p, i)

IInv ==
    /\ Typed /\ HandOk
    /\ \A p \in Processors : HeldOk(p)
    /\ HeldOnce /\ ComputedOk /\ CountOk /\ CombinedOk
    /\ at = "module" => Out = 1..miNumWorkUnits

----------------------------------------------------------------------------
(* Counting the units that are out.                                        *)

LEMMA HandedType ==
  ASSUME Typed, HandOk
  PROVE  Handed \in 0..miNumWorkUnits
  BY DEF Typed, HandOk, Handed

LEMMA OutCount ==
  ASSUME Typed, HandOk
  PROVE  /\ Out \subseteq 1..miNumWorkUnits
         /\ IsFiniteSet(Out)
         /\ Cardinality(Out) \in Nat
         /\ Cardinality(Out) <= miNumWorkUnits
         /\ Cardinality(Out) = miNumWorkUnits => Out = 1..miNumWorkUnits
  <1> DEFINE All == 1..miNumWorkUnits
  <1>1. miNumWorkUnits \in Nat
    BY DEF Typed
  <1>2. Out \subseteq All
    BY HandedType, <1>1 DEF Out
  <1>3. IsFiniteSet(All) /\ Cardinality(All) = miNumWorkUnits
    BY FS_Interval, <1>1
  <1>4. IsFiniteSet(Out) /\ Cardinality(Out) <= Cardinality(All)
        /\ (Cardinality(All) = Cardinality(Out) => All = Out)
    BY ONLY <1>2, <1>3, FS_Subset
  <1>5. Cardinality(Out) \in Nat
    BY <1>4, FS_CardinalityType
  <1> QED
    BY <1>2, <1>3, <1>4, <1>5

\* When all but one are counted, all but that one are out.
LEMMA LastOne ==
  ASSUME Typed, HandOk, NEW i \in 1..miNumWorkUnits, i \notin Out,
         Cardinality(Out) + 1 >= miNumWorkUnits
  PROVE  LastIs(i)
  <1> DEFINE All == 1..miNumWorkUnits
  <1>1. miNumWorkUnits \in Nat
    BY DEF Typed
  <1>2. IsFiniteSet(All) /\ Cardinality(All) = miNumWorkUnits
    BY FS_Interval, <1>1
  <1>3. IsFiniteSet(All \ {i}) /\ Cardinality(All \ {i}) = miNumWorkUnits - 1
    BY <1>2, FS_RemoveElement
  <1>4. Out \subseteq All \ {i}
    BY OutCount
  <1>5. Cardinality(Out) <= Cardinality(All \ {i})
        /\ (Cardinality(All \ {i}) = Cardinality(Out) => All \ {i} = Out)
    BY ONLY <1>3, <1>4, FS_Subset
  <1>6. All \ {i} = Out
    BY <1>1, <1>3, <1>5, OutCount
  <1> QED
    BY <1>6 DEF LastIs

----------------------------------------------------------------------------
(* The inductive invariant holds at the start and every step keeps it.     *)

LEMMA InitInv == Init => IInv
  <1> SUFFICES ASSUME Init PROVE IInv
    OBVIOUS
  <1>1. DOMAIN matches = 1..0 /\ miNumWorkUnits = 0
    BY FS_Interval DEF Init, miNumWorkUnits
  <1>2. Handed = 0 /\ Out = {}
    BY DEF Init, Handed, Out
  <1>3. Cardinality(Out) = 0
    BY <1>2, FS_EmptySet
  <1>4. Typed
    BY <1>1, BoundsAssumption DEF Init, Typed, Doings
  <1>5. CountOk
    BY <1>3 DEF Init, CountOk
  <1>6. \A p \in Processors : mCurrentWorkUnit[p] = None /\ ~mBusy[p] /\ doing[p] = "idle"
    BY DEF Init
  <1>7. (\A p \in Processors : HeldOk(p)) /\ HeldOnce
    BY <1>6 DEF HeldOk, HeldOnce
  <1>8. ComputedOk /\ CombinedOk
    BY <1>2, <1>6 DEF Init, ComputedOk, CombinedOk
  <1> QED
    BY <1>1, <1>2, <1>4, <1>5, <1>7, <1>8 DEF Init, IInv, HandOk

\* When Process is between modules no processor is before its store.
LEMMA Quiet ==
  ASSUME IInv, Out = 1..miNumWorkUnits, NEW p \in Processors, mCurrentWorkUnit[p] # None
  PROVE  doing[p] = "finish"
  <1> SUFFICES ASSUME doing[p] # "finish" PROVE FALSE
    OBVIOUS
  <1> DEFINE i == mCurrentWorkUnit[p][2]
  <1>1. mCurrentWorkUnit[p] = <<mod, i>> /\ i \in 1..Handed
    BY DEF IInv, HeldOk, Typed
  <1>2. i \in Out
    BY <1>1, HandedType DEF IInv, Typed
  <1> QED
    BY <1>1, <1>2 DEF Out, Holds

LEMMA DivideInv == ASSUME IInv, DivideWork PROVE IInv'
  <1> USE DEF DivideWork, processor
  <1>1. PICK n \in 0..MaxUnits : matches' \in [1..n -> Affinities]
    OBVIOUS
  <1>2. n \in Nat /\ DOMAIN matches' = 1..n
    BY <1>1, BoundsAssumption
  <1>3. miNumWorkUnits' = n
    BY <1>2, FS_Interval DEF miNumWorkUnits
  <1>4. Handed' = 0 /\ Out' = {}
    BY DEF Handed, Out
  <1>5. Cardinality(Out') = 0
    BY <1>4, FS_EmptySet
  <1>6. \A p \in Processors : mCurrentWorkUnit[p] # None => doing[p] = "finish"
    BY Quiet DEF IInv
  <1>7. Typed' /\ HandOk'
    BY <1>2, <1>3, BoundsAssumption DEF IInv, Typed, HandOk
  <1>8. \A p \in Processors : HeldOk(p)'
    BY <1>6 DEF IInv, Typed, HeldOk
  <1>9. HeldOnce' /\ ComputedOk'
    <2>1. \A u \in computed : u[1] <= mod' /\ u[1] # mod'
      BY DEF IInv, Typed, ComputedOk
    <2>2. HeldOnce'
      BY DEF IInv, HeldOnce
    <2> QED
      BY <2>1, <2>2, <1>4 DEF IInv, ComputedOk
  <1>10. \A p \in Processors : doing[p] \notin {"store", "combine"}
    BY <1>6 DEF IInv, HeldOk
  <1>11. CountOk' /\ CombinedOk'
    <2>1. \A m \in combined : m <= mod' /\ m # mod'
      BY DEF IInv, Typed, CombinedOk
    <2> QED
      BY <2>1, <1>5, <1>10 DEF CountOk, CombinedOk
  <1> QED
    BY <1>7, <1>8, <1>9, <1>11 DEF IInv

LEMMA ChooseInv == ASSUME IInv, NEW p \in Processors, Choose(p) PROVE IInv'
  <1> USE DEF Choose, processor
  <1>1. miNumWorkUnits' = miNumWorkUnits /\ Handed' = Handed
    BY DEF IInv, Typed, miNumWorkUnits, Handed
  <1>2. Out' = Out
    BY <1>1 DEF Out, Holds
  <1>3. mCurrentWorkUnit[p] = None
    BY DEF IInv, HeldOk
  <1>4. Typed' /\ HandOk'
    BY <1>1, <1>3 DEF IInv, Typed, HandOk
  <1>5. (\A q \in Processors : HeldOk(q)') /\ HeldOnce'
    BY <1>1 DEF IInv, HeldOk, HeldOnce
  <1>6. ComputedOk' /\ CountOk' /\ CombinedOk'
    BY <1>1, <1>2 DEF IInv, ComputedOk, CountOk, CombinedOk, LastIs, Holds
  <1> QED
    BY <1>4, <1>5, <1>6 DEF IInv

LEMMA AssignInv == ASSUME IInv, AssignWorkUnit PROVE IInv'
  <1> USE DEF AssignWorkUnit, cluster
  <1> DEFINE i == miNumWorkUnitsAssigned
  <1>1. /\ miNumWorkUnits' = miNumWorkUnits
        /\ Handed = i - 1 /\ Handed' = i /\ i \in Nat \ {0}
    BY DEF IInv, Typed, HandOk, miNumWorkUnits, Handed
  <1>2. proc \in Processors /\ mCurrentWorkUnit[proc] = None
    BY DEF IInv, HandOk
  <1>3. <<mod, i>> \in Nat \X Nat /\ <<mod, i>> # None
    BY <1>1, NoneAssumption DEF IInv, Typed
  <1>4. /\ mCurrentWorkUnit'[proc] = <<mod, i>>
        /\ \A q \in Processors \ {proc} : mCurrentWorkUnit'[q] = mCurrentWorkUnit[q]
    BY <1>2 DEF IInv, Typed
  <1>5. \A q \in Processors : mCurrentWorkUnit[q] # <<mod, i>>
    <2> SUFFICES ASSUME NEW q \in Processors, mCurrentWorkUnit[q] = <<mod, i>> PROVE FALSE
      OBVIOUS
    <2>1. mCurrentWorkUnit[q][1] = mod /\ mCurrentWorkUnit[q][2] = i /\ mCurrentWorkUnit[q] # None
      BY <1>3
    <2>2. mod \in Nat /\ (i \in 1..(i - 1) \/ mod < mod)
      BY <2>1, <1>1 DEF IInv, HeldOk, Typed
    <2> QED
      BY <2>2, <1>1
  <1>6. Out' = Out
    <2>1. i \notin Out'
      BY <1>2, <1>4 DEF Out, Holds
    <2>2. \A j \in 1..(i - 1) : \A q \in Processors : Holds(q, j)' <=> Holds(q, j)
      <3> SUFFICES ASSUME NEW j \in 1..(i - 1), NEW q \in Processors
                   PROVE  Holds(q, j)' <=> Holds(q, j)
        OBVIOUS
      <3>1. CASE q # proc
        BY <3>1, <1>4 DEF Holds
      <3>2. CASE q = proc
        <4>1. mCurrentWorkUnit[q] # <<mod, j>>
          BY <3>2, <1>2, NoneAssumption, <1>1 DEF IInv, Typed
        <4>2. mCurrentWorkUnit'[q] # <<mod, j>>
          BY <3>2, <1>4, <1>1
        <4> QED
          BY <4>1, <4>2 DEF Holds
      <3> QED
        BY <3>1, <3>2
    <2> QED
      BY <2>1, <2>2, <1>1 DEF Out
  <1>7. Typed' /\ HandOk'
    BY <1>1, <1>2, <1>3 DEF IInv, Typed, HandOk
  <1>8. ASSUME NEW q \in Processors PROVE HeldOk(q)'
    <2>1. CASE q = proc
      <3>1. mBusy'[q] /\ doing'[q] = "idle" /\ mCurrentWorkUnit'[q] = <<mod, i>>
        BY <2>1, <1>2, <1>4 DEF IInv, Typed
      <3>2. mCurrentWorkUnit'[q][1] = mod' /\ mCurrentWorkUnit'[q][2] \in 1..Handed'
        BY <3>1, <1>1
      <3> QED
        BY <3>1, <3>2, <1>3 DEF HeldOk
    <2>2. CASE q # proc
      BY <2>2, <1>1, <1>4 DEF IInv, Typed, HeldOk
    <2> QED
      BY <2>1, <2>2
  <1>9. HeldOnce'
    BY <1>4, <1>5 DEF IInv, HeldOnce
  <1>10. <<mod, i>> \notin computed
    BY <1>1 DEF IInv, ComputedOk
  <1>11. ComputedOk'
    <2>1. \A u \in computed : u[1] <= mod /\ (u[1] = mod => u[2] \in 1..i)
      BY <1>1 DEF IInv, ComputedOk
    <2> QED
      BY <2>1, <1>1, <1>4, <1>6, <1>10 DEF IInv, ComputedOk
  <1>12. CountOk'
    BY <1>6 DEF IInv, CountOk
  <1>13. CombinedOk'
    <2>1. \A q \in Processors : doing[q] # "idle" => mCurrentWorkUnit'[q] = mCurrentWorkUnit[q]
      BY <1>4
    <2>2. \A j : LastIs(j)' <=> LastIs(j)
      BY <1>1, <1>6 DEF LastIs
    <2> QED
      BY <2>1, <2>2, <1>1, <1>6 DEF IInv, CombinedOk, Holds
  <1> QED
    BY <1>7, <1>8, <1>9, <1>11, <1>12, <1>13 DEF IInv

LEMMA CompletedInv == ASSUME IInv, Completed PROVE IInv'
  <1> USE DEF Completed, cluster, processor
  <1>1. miNumWorkUnits' = miNumWorkUnits /\ Handed' = Handed
    BY DEF IInv, Typed, miNumWorkUnits, Handed
  <1>2. Out' = Out
    BY <1>1 DEF Out, Holds
  <1>3. Out = 1..miNumWorkUnits
    BY OutCount DEF IInv, Typed, CountOk
  <1>4. Typed' /\ HandOk'
    BY <1>1 DEF IInv, Typed, HandOk
  <1>5. (\A q \in Processors : HeldOk(q)') /\ HeldOnce'
    BY <1>1 DEF IInv, HeldOk, HeldOnce
  <1>6. ComputedOk' /\ CountOk' /\ CombinedOk'
    BY <1>1, <1>2 DEF IInv, ComputedOk, CountOk, CombinedOk, LastIs, Holds
  <1> QED
    BY <1>1, <1>2, <1>3, <1>4, <1>5, <1>6 DEF IInv

LEMMA TerminateInv == ASSUME IInv, NEW p \in Processors, Terminate(p) PROVE IInv'
  <1> USE DEF Terminate, cluster
  <1>1. miNumWorkUnits' = miNumWorkUnits /\ Handed' = Handed
    BY DEF miNumWorkUnits, Handed
  <1>2. Out' = Out
    BY <1>1 DEF Out, Holds
  <1>3. Typed' /\ HandOk'
    BY <1>1 DEF IInv, Typed, HandOk
  <1>4. (\A q \in Processors : HeldOk(q)') /\ HeldOnce'
    BY <1>1 DEF IInv, HeldOk, HeldOnce
  <1>5. ComputedOk' /\ CountOk' /\ CombinedOk'
    BY <1>1, <1>2 DEF IInv, ComputedOk, CountOk, CombinedOk, LastIs, Holds
  <1> QED
    BY <1>1, <1>2, <1>3, <1>4, <1>5 DEF IInv

\* A step of a processor with a unit, that does not yet let it out.
LEMMA InnerStep ==
  ASSUME IInv, NEW p \in Processors, NEW from, NEW to \in Doings, Step(p, from, to),
         from # "finish", to \notin {"idle", "finish"}, mCurrentWorkUnit[p] # None,
         UNCHANGED <<cluster, at, proc, mCurrentWorkUnit, mBusy>>
  PROVE  /\ miNumWorkUnits' = miNumWorkUnits /\ Handed' = Handed /\ Out' = Out
         /\ doing[p] = from /\ doing'[p] = to
         /\ \A q \in Processors \ {p} : doing'[q] = doing[q]
         /\ doing' \in [Processors -> Doings]
         /\ \A i : LastIs(i)' <=> LastIs(i)
         /\ \A q \in Processors : HeldOk(q)'
         /\ HandOk' /\ HeldOnce'
         /\ at' = "module" => Out' = 1..miNumWorkUnits'
         /\ at # "module"
  <1> USE DEF cluster
  <1>1. miNumWorkUnits' = miNumWorkUnits /\ Handed' = Handed
    BY DEF miNumWorkUnits, Handed
  <1>2. /\ doing[p] = from /\ doing'[p] = to
        /\ \A q \in Processors \ {p} : doing'[q] = doing[q]
        /\ doing' \in [Processors -> Doings]
    BY DEF Step, IInv, Typed
  <1>3. \A q \in Processors, i \in Nat : Holds(q, i)' <=> Holds(q, i)
    BY <1>2 DEF Holds
  <1>4. Out' = Out
    BY <1>1, <1>3 DEF Out
  <1>5. \A q \in Processors : HeldOk(q)'
    BY <1>1, <1>2 DEF IInv, HeldOk
  <1>6. HandOk' /\ HeldOnce'
    BY DEF IInv, HandOk, HeldOnce
  <1>7. at # "module"
    BY <1>2, Quiet DEF IInv
  <1> QED
    BY <1>1, <1>2, <1>4, <1>5, <1>6, <1>7 DEF LastIs


LEMMA TakeInv == ASSUME IInv, NEW p \in Processors, TakeUnit(p) PROVE IInv'
  <1> USE DEF TakeUnit, cluster
  <1>1. /\ miNumWorkUnits' = miNumWorkUnits /\ Handed' = Handed /\ Out' = Out
        /\ doing[p] = "idle" /\ doing'[p] = "compute"
        /\ \A q \in Processors \ {p} : doing'[q] = doing[q]
        /\ doing' \in [Processors -> Doings]
        /\ \A i : LastIs(i)' <=> LastIs(i)
        /\ \A q \in Processors : HeldOk(q)'
        /\ HandOk' /\ HeldOnce'
        /\ at' = "module" => Out' = 1..miNumWorkUnits'
    BY InnerStep DEF Doings
  <1>2. Typed'
    BY <1>1 DEF IInv, Typed
  <1>3. ComputedOk' /\ CountOk'
    BY <1>1 DEF IInv, ComputedOk, CountOk
  <1>4. CombinedOk'
    BY <1>1 DEF IInv, CombinedOk, Holds
  <1> QED
    BY <1>1, <1>2, <1>3, <1>4 DEF IInv

LEMMA ComputeInv == ASSUME IInv, NEW p \in Processors, Compute(p) PROVE IInv'
  <1> USE DEF Compute, cluster
  <1> DEFINE u == mCurrentWorkUnit[p]
  <1>0. doing[p] = "compute" /\ u # None
    BY DEF Step, IInv, HeldOk
  <1>1. /\ miNumWorkUnits' = miNumWorkUnits /\ Handed' = Handed /\ Out' = Out
        /\ doing[p] = "compute" /\ doing'[p] = "check"
        /\ \A q \in Processors \ {p} : doing'[q] = doing[q]
        /\ doing' \in [Processors -> Doings]
        /\ \A i : LastIs(i)' <=> LastIs(i)
        /\ \A q \in Processors : HeldOk(q)'
        /\ HandOk' /\ HeldOnce'
        /\ at' = "module" => Out' = 1..miNumWorkUnits'
    BY <1>0, InnerStep DEF Doings
  <1>2. u \in Nat \X Nat /\ u[1] = mod /\ u[2] \in 1..Handed
    BY <1>0 DEF IInv, Typed, HeldOk
  <1>3. Typed'
    BY <1>1, <1>2 DEF IInv, Typed
  <1>4. ComputedOk'
    <2>1. \A v \in computed' : v[1] <= mod' /\ (v[1] = mod' => v[2] \in 1..Handed')
      BY <1>1, <1>2 DEF IInv, ComputedOk, Typed
    <2>2. \A q \in Processors \ {p} : mCurrentWorkUnit[q] # u
      BY <1>0 DEF IInv, HeldOnce
    <2> QED
      BY <1>1, <2>1, <2>2 DEF IInv, ComputedOk
  <1>5. CountOk' /\ CombinedOk'
    BY <1>1 DEF IInv, CountOk, CombinedOk, Holds
  <1> QED
    BY <1>1, <1>3, <1>4, <1>5 DEF IInv

LEMMA NotifyInv == ASSUME IInv, NEW p \in Processors, Notify(p) PROVE IInv'
  <1> USE DEF Notify, cluster
  <1> DEFINE u == mCurrentWorkUnit[p]
             to == IF miNumWorkUnitsDone + 1 = miNumWorkUnits THEN "combine" ELSE "load"
  <1>0. doing[p] = "check" /\ u # None /\ Step(p, "check", to)
    BY DEF Step, IInv, HeldOk
  <1>1. /\ miNumWorkUnits' = miNumWorkUnits /\ Handed' = Handed /\ Out' = Out
        /\ doing[p] = "check" /\ doing'[p] = to
        /\ \A q \in Processors \ {p} : doing'[q] = doing[q]
        /\ doing' \in [Processors -> Doings]
        /\ \A i : LastIs(i)' <=> LastIs(i)
        /\ \A q \in Processors : HeldOk(q)'
        /\ HandOk' /\ HeldOnce'
        /\ at' = "module" => Out' = 1..miNumWorkUnits'
    BY <1>0, InnerStep DEF Doings
  <1>2. u = <<mod, u[2]>> /\ u[2] \in 1..miNumWorkUnits /\ u[2] \in 1..Handed
    BY <1>0, HandedType DEF IInv, Typed, HeldOk
  <1>3. u[2] \notin Out
    BY <1>0, <1>2 DEF Out, Holds
  <1>4. Typed'
    BY <1>1 DEF IInv, Typed
  <1>5. ComputedOk' /\ CountOk'
    BY <1>1 DEF IInv, ComputedOk, CountOk
  <1>6. ASSUME to = "combine" PROVE mod \notin combined /\ LastIs(u[2])
    <2>1. miNumWorkUnitsDone + 1 = miNumWorkUnits
      BY <1>6
    <2>2. Cardinality(Out) + 1 >= miNumWorkUnits
      BY <2>1, OutCount DEF IInv, Typed, CountOk
    <2>3. LastIs(u[2])
      BY <1>2, <1>3, <2>2, LastOne DEF IInv
    <2>4. ASSUME mod \in combined PROVE FALSE
      <3>1. PICK i \in 1..miNumWorkUnits :
              /\ LastIs(i)
              /\ i \in Out \/ \E q \in Processors : doing[q] \in {"load", "store"} /\ Holds(q, i)
        BY <2>4 DEF IInv, CombinedOk
      <3>2. i = u[2]
        BY <3>1, <1>2, <1>3 DEF LastIs
      <3>3. PICK q \in Processors : doing[q] \in {"load", "store"} /\ Holds(q, i)
        BY <3>1, <3>2, <1>3
      <3>4. q # p /\ mCurrentWorkUnit[q] = u
        BY <3>2, <3>3, <1>0, <1>2 DEF Holds
      <3> QED
        BY <3>4, <1>0 DEF IInv, HeldOnce
    <2> QED
      BY <2>3, <2>4
  <1>7. CombinedOk'
    <2>1. \A m \in combined' : m <= mod'
      BY DEF IInv, CombinedOk
    <2>2. \A q \in Processors : doing'[q] = "combine" =>
            mod' \notin combined' /\ LastIs(mCurrentWorkUnit[q][2])'
      BY <1>1, <1>6 DEF IInv, CombinedOk
    <2>3. mod \in combined => \E i \in 1..miNumWorkUnits :
            /\ LastIs(i)
            /\ i \in Out \/ \E q \in Processors : doing'[q] \in {"load", "store"} /\ Holds(q, i)'
      BY <1>1 DEF IInv, CombinedOk, Holds
    <2> QED
      BY <1>1, <2>1, <2>2, <2>3 DEF CombinedOk
  <1> QED
    BY <1>1, <1>4, <1>5, <1>7 DEF IInv

LEMMA CombineInv == ASSUME IInv, NEW p \in Processors, CombineWork(p) PROVE IInv'
  <1> USE DEF CombineWork, cluster
  <1> DEFINE u == mCurrentWorkUnit[p]
  <1>0. doing[p] = "combine" /\ u # None
    BY DEF Step, IInv, HeldOk
  <1>1. /\ miNumWorkUnits' = miNumWorkUnits /\ Handed' = Handed /\ Out' = Out
        /\ doing[p] = "combine" /\ doing'[p] = "load"
        /\ \A q \in Processors \ {p} : doing'[q] = doing[q]
        /\ doing' \in [Processors -> Doings]
        /\ \A i : LastIs(i)' <=> LastIs(i)
        /\ \A q \in Processors : HeldOk(q)'
        /\ HandOk' /\ HeldOnce'
        /\ at' = "module" => Out' = 1..miNumWorkUnits'
    BY <1>0, InnerStep DEF Doings
  <1>2. u = <<mod, u[2]>> /\ u[1] = mod /\ u[2] \in 1..miNumWorkUnits /\ LastIs(u[2])
    BY <1>0, HandedType DEF IInv, Typed, HeldOk, CombinedOk
  <1>3. Typed'
    BY <1>1, <1>2 DEF IInv, Typed
  <1>4. ComputedOk' /\ CountOk'
    BY <1>1 DEF IInv, ComputedOk, CountOk
  <1>5. ASSUME NEW q \in Processors, q # p, doing[q] = "combine" PROVE FALSE
    <2> DEFINE v == mCurrentWorkUnit[q]
    <2>1. v # None /\ v = <<mod, v[2]>> /\ v[2] \in 1..miNumWorkUnits
      BY <1>5, HandedType DEF IInv, Typed, HeldOk
    <2>2. v[2] # u[2]
      BY <2>1, <1>2, <1>5 DEF IInv, HeldOnce
    <2>3. v[2] \in Out
      BY <2>1, <2>2, <1>2 DEF LastIs
    <2> QED
      BY <2>1, <2>3, <1>5 DEF Out, Holds
  <1>6. CombinedOk'
    <2>1. \A m \in combined' : m <= mod'
      BY <1>2 DEF IInv, CombinedOk, Typed
    <2>2. \A q \in Processors : doing'[q] # "combine"
      BY <1>1, <1>5
    <2>3. doing'[p] \in {"load", "store"} /\ Holds(p, u[2])' /\ LastIs(u[2])'
      BY <1>1, <1>2 DEF Holds
    <2> QED
      BY <1>1, <1>2, <2>1, <2>2, <2>3 DEF CombinedOk
  <1> QED
    BY <1>1, <1>3, <1>4, <1>6 DEF IInv

LEMMA LoadInv == ASSUME IInv, NEW p \in Processors, Load(p) PROVE IInv'
  <1> USE DEF Load, cluster
  <1>0. doing[p] = "load" /\ mCurrentWorkUnit[p] # None
    BY DEF Step, IInv, HeldOk
  <1>1. /\ miNumWorkUnits' = miNumWorkUnits /\ Handed' = Handed /\ Out' = Out
        /\ doing[p] = "load" /\ doing'[p] = "store"
        /\ \A q \in Processors \ {p} : doing'[q] = doing[q]
        /\ doing' \in [Processors -> Doings]
        /\ \A i : LastIs(i)' <=> LastIs(i)
        /\ \A q \in Processors : HeldOk(q)'
        /\ HandOk' /\ HeldOnce'
        /\ at' = "module" => Out' = 1..miNumWorkUnits'
    BY <1>0, InnerStep DEF Doings
  <1>2. Typed'
    BY <1>1 DEF IInv, Typed
  <1>3. ComputedOk'
    BY <1>1 DEF IInv, ComputedOk
  <1>4. CountOk'
    BY <1>1 DEF IInv, CountOk, Typed
  <1>5. CombinedOk'
    BY <1>1 DEF IInv, CombinedOk, Holds
  <1> QED
    BY <1>1, <1>2, <1>3, <1>4, <1>5 DEF IInv

\* The unit comes out: one more is out, and one more at most is counted.
LEMMA StoreInv == ASSUME IInv, NEW p \in Processors, Store(p) PROVE IInv'
  <1> USE DEF Store, Step
  <1> DEFINE u == mCurrentWorkUnit[p]
             i == u[2]
  <1>0. doing[p] = "store" /\ u # None
    BY DEF IInv, HeldOk
  <1>1. /\ doing'[p] = "finish" /\ \A q \in Processors \ {p} : doing'[q] = doing[q]
        /\ doing' \in [Processors -> Doings]
    BY DEF IInv, Typed, Doings
  <1>2. miNumWorkUnits' = miNumWorkUnits /\ Handed' = Handed
    BY DEF miNumWorkUnits, Handed
  <1>3. u = <<mod, i>> /\ u[1] = mod /\ i \in 1..Handed /\ i \in 1..miNumWorkUnits
    BY <1>0, HandedType DEF IInv, Typed, HeldOk
  <1>4. i \notin Out
    BY <1>0, <1>3 DEF Out, Holds
  <1>5. Out' = Out \cup {i}
    <2>1. \A q \in Processors : ~Holds(q, i)'
      BY <1>0, <1>1, <1>3 DEF IInv, HeldOnce, Holds
    <2>2. \A q \in Processors, j \in Nat : j # i => (Holds(q, j)' <=> Holds(q, j))
      BY <1>1, <1>3 DEF Holds
    <2> QED
      BY <1>2, <1>3, <2>1, <2>2 DEF Out
  <1>6. Cardinality(Out') = Cardinality(Out) + 1 /\ Cardinality(Out) \in Nat
    BY <1>4, <1>5, OutCount, FS_AddElement DEF IInv
  <1>7. Typed' /\ HandOk'
    BY <1>1, <1>2 DEF IInv, Typed, HandOk
  <1>8. (\A q \in Processors : HeldOk(q)') /\ HeldOnce'
    BY <1>0, <1>1, <1>2 DEF IInv, HeldOk, HeldOnce
  <1>9. ComputedOk'
    <2>1. u \in computed
      BY <1>0 DEF IInv, ComputedOk
    <2> QED
      BY <1>0, <1>1, <1>2, <1>3, <1>5, <2>1 DEF IInv, ComputedOk
  <1>10. CountOk'
    BY <1>0, <1>1, <1>6 DEF IInv, CountOk, Typed
  <1>11. CombinedOk'
    <2>1. \A j : LastIs(j) => LastIs(j)'
      BY <1>2, <1>5 DEF LastIs
    <2>2. ASSUME NEW j \in 1..miNumWorkUnits,
                 j \in Out \/ \E q \in Processors : doing[q] \in {"load", "store"} /\ Holds(q, j)
          PROVE  j \in Out' \/ \E q \in Processors : doing'[q] \in {"load", "store"} /\ Holds(q, j)'
      <3>1. CASE j \in Out
        BY <3>1, <1>5
      <3>2. CASE Holds(p, j)
        <4>1. j = i
          BY <3>2, <1>3 DEF Holds
        <4> QED
          BY <4>1, <1>5
      <3>3. ASSUME NEW q \in Processors, q # p, doing[q] \in {"load", "store"}, Holds(q, j)
            PROVE  doing'[q] \in {"load", "store"} /\ Holds(q, j)'
        BY <3>3, <1>1 DEF Holds
      <3> QED
        BY <2>2, <3>1, <3>2, <3>3
    <2>3. \A q \in Processors : doing'[q] = "combine" =>
            mod' \notin combined' /\ LastIs(mCurrentWorkUnit[q][2])'
      BY <1>1, <2>1 DEF IInv, CombinedOk
    <2>4. \A m \in combined' : m <= mod'
      BY DEF IInv, CombinedOk
    <2> QED
      BY <1>2, <2>1, <2>2, <2>3, <2>4 DEF IInv, CombinedOk
  <1>12. at' # "module"
    BY <1>0, Quiet DEF IInv
  <1> QED
    BY <1>7, <1>8, <1>9, <1>10, <1>11, <1>12 DEF IInv

\* The processor forgets a unit that is out.
LEMMA FinishInv == ASSUME IInv, NEW p \in Processors, Finish(p) PROVE IInv'
  <1> USE DEF Finish, Step, cluster
  <1>1. /\ doing[p] = "finish" /\ doing'[p] = "idle" /\ mCurrentWorkUnit'[p] = None
        /\ \A q \in Processors \ {p} :
             doing'[q] = doing[q] /\ mCurrentWorkUnit'[q] = mCurrentWorkUnit[q]
        /\ ~mBusy'[p] /\ \A q \in Processors \ {p} : mBusy'[q] = mBusy[q]
    BY DEF IInv, Typed, Doings
  <1>2. miNumWorkUnits' = miNumWorkUnits /\ Handed' = Handed
    BY DEF miNumWorkUnits, Handed
  <1>3. Typed' /\ HandOk'
    BY <1>1, <1>2 DEF IInv, Typed, HandOk, Doings
  <1>4. \A q \in Processors, j \in Nat : Holds(q, j)' <=> Holds(q, j)
    <2>1. mod \in Nat
      BY DEF IInv, Typed
    <2>2. \A j \in Nat : ~Holds(p, j) /\ ~Holds(p, j)'
      BY <1>1, <2>1, NoneAssumption DEF Holds
    <2> QED
      BY <1>1, <2>2 DEF Holds
  <1>5. Out' = Out
    BY <1>2, <1>4 DEF Out
  <1>6. (\A q \in Processors : HeldOk(q)') /\ HeldOnce'
    BY <1>1, <1>2 DEF IInv, HeldOk, HeldOnce
  <1>7. ComputedOk'
    <2>1. None \notin computed
      BY NoneAssumption DEF IInv, Typed
    <2> QED
      BY <1>1, <1>2, <1>5, <2>1 DEF IInv, ComputedOk
  <1>8. CountOk' /\ CombinedOk'
    <2>1. CountOk'
      BY <1>1, <1>5 DEF IInv, CountOk
    <2>2. \A j : LastIs(j)' <=> LastIs(j)
      BY <1>2, <1>5 DEF LastIs
    <2>3. \A q \in Processors \ {p} : doing'[q] = doing[q]
                                       /\ mCurrentWorkUnit'[q] = mCurrentWorkUnit[q]
      BY <1>1
    <2>4. CombinedOk'
      BY <1>1, <1>2, <1>5, <2>2, <2>3 DEF IInv, CombinedOk, Holds
    <2> QED
      BY <2>1, <2>4
  <1> QED
    BY <1>2, <1>3, <1>5, <1>6, <1>7, <1>8 DEF IInv

LEMMA StepInv == IInv /\ [Next]_vars => IInv'
  <1> SUFFICES ASSUME IInv, [Next]_vars PROVE IInv'
    OBVIOUS
  <1>1. CASE Scheduling
    BY <1>1, DivideInv, ChooseInv, AssignInv, CompletedInv DEF Scheduling
  <1>2. ASSUME NEW p \in Processors, Terminate(p) PROVE IInv'
    BY <1>2, TerminateInv
  <1>3. ASSUME NEW p \in Processors, Processing(p) PROVE IInv'
    BY <1>3, TakeInv, ComputeInv, NotifyInv, CombineInv, LoadInv, StoreInv, FinishInv
    DEF Processing
  <1>4. CASE UNCHANGED vars
    <2> USE <1>4 DEF vars, cluster, processor
    <2>1. miNumWorkUnits' = miNumWorkUnits /\ Handed' = Handed
      BY DEF miNumWorkUnits, Handed
    <2>2. Out' = Out
      BY <2>1 DEF Out, Holds
    <2>3. Typed' /\ HandOk'
      BY <2>1 DEF IInv, Typed, HandOk
    <2>4. (\A q \in Processors : HeldOk(q)') /\ HeldOnce'
      BY <2>1 DEF IInv, HeldOk, HeldOnce
    <2>5. ComputedOk' /\ CountOk' /\ CombinedOk'
      BY <2>1, <2>2 DEF IInv, ComputedOk, CountOk, CombinedOk, LastIs, Holds
    <2> QED
      BY <2>1, <2>2, <2>3, <2>4, <2>5 DEF IInv
  <1> QED
    BY <1>1, <1>2, <1>3, <1>4 DEF Next

----------------------------------------------------------------------------
(* What follows from it.                                                   *)

LEMMA InvTypes == IInv => TypeOK
  BY OutCount DEF IInv, Typed, CountOk, TypeOK

\* A unit that is with a processor, or has been and is not counted yet, is of
\* the cluster at hand.
LEMMA LiveUnit ==
  ASSUME IInv, NEW p \in Processors, doing[p] \notin {"idle", "finish"}
  PROVE  /\ at # "module" /\ mCurrentWorkUnit[p] # None
         /\ mCurrentWorkUnit[p][1] = mod /\ mCurrentWorkUnit[p][2] \in 1..miNumWorkUnits
         /\ mCurrentWorkUnit[p] = <<mod, mCurrentWorkUnit[p][2]>>
  BY Quiet, HandedType DEF IInv, HeldOk, Typed

LEMMA InvUnitsOnce == IInv => UnitsOnce
  <1> SUFFICES ASSUME IInv PROVE UnitsOnce
    OBVIOUS
  <1>1. at = "hand" => mCurrentWorkUnit[proc] = None \/ doing[proc] = "finish"
    BY DEF IInv, HandOk
  <1>2. ASSUME NEW p \in Processors, doing[p] = "compute"
        PROVE  /\ mCurrentWorkUnit[p] \notin computed
               /\ \A q \in Processors \ {p} : mCurrentWorkUnit[q] # mCurrentWorkUnit[p]
    BY <1>2, LiveUnit DEF IInv, ComputedOk, HeldOnce
  <1>3. at = "module" => Units(mod) \subseteq computed
    BY DEF IInv, ComputedOk, Units, Typed
  <1> QED
    BY <1>1, <1>2, <1>3, InvTypes DEF UnitsOnce

LEMMA InvCombineLast == IInv => CombineLast
  <1> SUFFICES ASSUME IInv, NEW p \in Processors
               PROVE  /\ doing[p] = "combine" =>
                          Units(mod) \subseteq computed /\ mod \notin combined
                      /\ doing[p] \in {"check", "combine", "load", "store"} =>
                          at # "module" /\ mCurrentWorkUnit[p][1] = mod
    BY DEF CombineLast
  <1>1. ASSUME doing[p] = "combine"
        PROVE  Units(mod) \subseteq computed /\ mod \notin combined
    <2> DEFINE i == mCurrentWorkUnit[p][2]
    <2>1. LastIs(i) /\ mod \notin combined
      BY <1>1 DEF IInv, CombinedOk
    <2>2. <<mod, i>> \in computed
      BY <1>1, LiveUnit DEF IInv, ComputedOk
    <2>3. \A j \in 1..miNumWorkUnits : <<mod, j>> \in computed
      BY <2>1, <2>2 DEF LastIs, IInv, ComputedOk
    <2> QED
      BY <2>1, <2>3 DEF Units, IInv, Typed
  <1>2. doing[p] \in {"check", "combine", "load", "store"} =>
            at # "module" /\ mCurrentWorkUnit[p][1] = mod
    BY LiveUnit
  <1> QED
    BY <1>1, <1>2

\* The inductive invariant holds of every state the scheduler reaches.
THEOREM Invariance == Spec => []IInv
  BY InitInv, StepInv, PTL DEF Spec

\* Whatever affinities the work units have and however the processors run: a
\* unit is handed to a processor that has none, computed by one processor and
\* once, and a module is divided when the one before it is computed.
THEOREM WorkOnce == Spec => []UnitsOnce
  BY Invariance, InvUnitsOnce, PTL

\* NotifyWorkUnitFinished calls CombineWork with all of the module's work
\* computed and at most once, though miNumWorkUnitsDone loses increments; and
\* it counts only in the cluster that Process has on its stack.
THEOREM CombinedLast == Spec => []CombineLast
  BY Invariance, InvCombineLast, PTL

=============================================================================
