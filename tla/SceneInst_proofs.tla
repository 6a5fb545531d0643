-------------------------- MODULE SceneInst_proofs --------------------------
(***************************************************************************)
(* Proofs about SceneInst, for every scene, every number of entities and   *)
(* every bound on the queues.                                              *)
(***************************************************************************)
EXTENDS SceneInst, FiniteSetTheorems, FunctionTheorems, SequenceTheorems, TLAPS

----------------------------------------------------------------------------
(* The lists that Update walks.                                            *)

\* Between a mode change that empties the active list or fills it with the
\* table and the StartEntities at its end nothing need be started; and nothing
\* in a scene that is edited, to whose active entities a new one is added.
Walked ==
    /\ mEntities = [n \in Names |-> mEntities[n]]
    /\ phase = "editing" => meSceneInstMode # "RUN"
    /\ phase = "linking" => mActiveEntities \subseteq Table
    /\ phase \notin {"stopping", "linking"} /\ (meSceneInstMode = "RUN" \/ entering = "run") =>
            mActiveEntities \subseteq started

----------------------------------------------------------------------------
(* What is deleted, and what still refers to it.                           *)

Lists ==
    /\ mEntityActivateQueue \in Seq(Ents) /\ mEntityDeactivateQueue \in Seq(Ents)
    /\ Len(mEntityActivateQueue) <= MaxQueued
    /\ live = Table
    /\ Range(mEntityDeactivateQueue) \subseteq live
    /\ mActiveEntities \cup started \subseteq live \cup leftover
    /\ leftover \subseteq Ents /\ IsFiniteSet(leftover) /\ Cardinality(leftover) <= MaxQueued
    /\ phase = "stopping" => started \subseteq leftover

\* What a mode change under way began in and leads to.
Modes ==
    /\ phase \in UpdatePhases => meSceneInstMode = "RUN"
    /\ phase = "stopping" => entering \in {"object", "delete", "topo"}
    /\ phase \in EnterPhases /\ entering = "run" => meSceneInstMode = "EDIT"
    /\ phase = "editing" => meSceneInstMode = "EDIT"

\* The activation queue is never cleared by a mode change: what was spawned
\* since a run began has not been deleted, or was left behind by topo_op.
Running ==
    IF phase \in EnterPhases
    THEN entering = "run" \/ (entering = "topo" /\ meSceneInstMode = "RUN")
    ELSE meSceneInstMode = "RUN"

Spawned == Running => Range(mEntityActivateQueue) \subseteq live \cup leftover

Inv == TypeOK /\ Lists /\ Modes /\ Spawned

----------------------------------------------------------------------------
(* Active entities are started.                                            *)

\* A name that is given an address takes none away.
LEMMA TableGrows ==
    ASSUME mEntities = [n \in Names |-> mEntities[n]],
           NEW n \in Names, mEntities[n] = Null, NEW e,
           mEntities' = [mEntities EXCEPT ![n] = e]
    PROVE  /\ mEntities' = [k \in Names |-> mEntities'[k]]
           /\ Table \subseteq Table'
           /\ Table' \subseteq Table \cup {e}
  BY DEF Table, Range

\* Clearing the deactivation queue takes entities from both lists.
LEMMA DeactivateWalked ==
    ASSUME Walked, ServiceDeactivateQueue, phase # "stopping",
           phase' \notin {"stopping", "linking"}, mEntities' = mEntities,
           phase' = "editing" => meSceneInstMode' # "RUN",
           meSceneInstMode' = "RUN" \/ entering' = "run" =>
                meSceneInstMode = "RUN" \/ entering = "run"
    PROVE  Walked'
<1>1. CASE phase = "linking"
  BY <1>1 DEF Walked, ServiceDeactivateQueue
<1>2. CASE phase # "linking"
  BY <1>2 DEF Walked, ServiceDeactivateQueue
<1> QED
  BY <1>1, <1>2

LEMMA WalkedStep ==
    ASSUME Walked, Next  PROVE Walked'
<1>1. CASE TakeEdit
  <2>1. mEntities' = Composed /\ mActiveEntities' = {} /\ phase' = "idle"
    BY <1>1 DEF TakeEdit, Take, Idle
  <2> QED
    BY <2>1 DEF Walked, Composed
<1>2. CASE TakeRun
  <2>1. mEntities' = Composed /\ phase' = "linking" /\ mActiveEntities' = Table'
    BY <1>2 DEF TakeRun, Table
  <2> QED
    BY <2>1 DEF Walked, Composed
<1>3. CASE TakeStaleTopo
  BY <1>3 DEF TakeStaleTopo, lists, modes, Walked, Table
<1>4. ASSUME NEW o \in {"object", "delete", "topo"}, EnterEditState(o)  PROVE Walked'
  BY <1>4 DEF EnterEditState, Walked
<1>5. CASE ComposeEntities
  <2>1. mEntities' = Composed /\ mActiveEntities' = {} /\ phase' = "linking"
    BY <1>5 DEF ComposeEntities
  <2> QED
    BY <2>1 DEF Walked, Composed
<1>6. CASE StartEntities
  <2>1. ServiceDeactivateQueue /\ UNCHANGED <<mEntities, entering, meSceneInstMode>>
    BY <1>6 DEF StartEntities, modes
  <2> QED
    BY <1>6, <2>1, DeactivateWalked DEF StartEntities
<1>7. CASE Entered
  <2>1. /\ phase = "starting" /\ phase' \in {"editing", "idle"}
        /\ ServiceDeactivateQueue /\ UNCHANGED mEntities
    BY <1>7 DEF Entered
  <2>2. CASE entering = "run"
    BY <1>7, <2>1, <2>2, DeactivateWalked DEF Entered
  <2>3. CASE entering = "topo"
    BY <1>7, <2>1, <2>3, DeactivateWalked DEF Entered
  <2>4. CASE entering # "run" /\ entering # "topo"
    <3>1. meSceneInstMode' = "EDIT" /\ entering' # "run"
      BY <1>7, <2>4 DEF Entered
    <3> QED
      BY <2>1, <3>1, DeactivateWalked
  <2> QED
    BY <2>2, <2>3, <2>4
<1>8. CASE BeginUpdate \/ BeginFreeUpdate
  <2>1. UNCHANGED <<lists, entering, modes>> /\ phase = "idle" /\ phase' \in {"idle", "components"}
    BY <1>8 DEF BeginUpdate, BeginFreeUpdate, Idle
  <2> QED
    BY <2>1 DEF lists, modes, Walked
<1>9. CASE UpdateDeactivate
  <2>1. ServiceDeactivateQueue /\ UNCHANGED <<mEntities, entering, meSceneInstMode>>
    BY <1>9 DEF UpdateDeactivate, modes
  <2> QED
    BY <1>9, <2>1, DeactivateWalked DEF UpdateDeactivate
<1>10. CASE ServiceActivateQueue
  BY <1>10 DEF ServiceActivateQueue, modes, Walked
<1>11. CASE EndUpdate
  BY <1>11 DEF EndUpdate, lists, modes, Walked
<1>12. ASSUME NEW o \in Requests, Request(o)  PROVE Walked'
  BY <1>12 DEF Request, lists, modes, Walked, Table
<1>13. CASE TopoChanged
  BY <1>13 DEF TopoChanged, lists, modes, Walked, Table
<1>14. ASSUME NEW n \in Names, Spawn(n)  PROVE Walked'
  <2>1. /\ mEntities[n] = Null
        /\ mEntities' = [mEntities EXCEPT ![n] = CHOOSE x \in Unused : TRUE]
        /\ UNCHANGED <<phase, entering, meSceneInstMode, mActiveEntities, started>>
    BY <1>14 DEF Spawn, modes
  <2>2. mEntities' = [k \in Names |-> mEntities'[k]] /\ Table \subseteq Table'
    BY <2>1, TableGrows DEF Walked
  <2> QED
    BY <2>1, <2>2 DEF Walked
<1>15. ASSUME NEW e \in Ents, Despawn(e)  PROVE Walked'
  BY <1>15 DEF Despawn, lists, modes, Walked, Table
<1>16. CASE RendererTake
  BY <1>16 DEF RendererTake, lists, modes, Walked, Table
<1>17. CASE RendererReturn
  BY <1>17 DEF RendererReturn, lists, modes, Walked, Table
<1>18. ASSUME NEW n \in Names, NewEntity(n)  PROVE Walked'
  <2>1. /\ mEntities[n] = Null
        /\ mEntities' = [mEntities EXCEPT ![n] = CHOOSE x \in Unused : TRUE]
        /\ phase = "editing" /\ phase' = "idle" /\ entering' = "none"
        /\ meSceneInstMode' = meSceneInstMode
    BY <1>18 DEF NewEntity, Editing
  <2>2. mEntities' = [k \in Names |-> mEntities'[k]]
    BY <2>1, TableGrows DEF Walked
  <2> QED
    BY <2>1, <2>2 DEF Walked
<1>19. CASE NoNameLeft \/ DeleteObject
  BY <1>19 DEF NoNameLeft, DeleteObject, Editing, lists, modes, Walked
<1> QED
  BY <1>1, <1>2, <1>3, <1>4, <1>5, <1>6, <1>7, <1>8, <1>9, <1>10, <1>11, <1>12, <1>13,
     <1>14, <1>15, <1>16, <1>17, <1>18, <1>19 DEF Next, UpdateThread

\* Whatever callbacks spawn and despawn in the middle of an update or of a mode
\* change, and whenever objects are made, deleted or regrouped: the entities that
\* UpdateEntityComponents (sceneinst.cpp) goes through are started.
THEOREM WalkedStarted == Spec => []ActiveStarted
<1>1. Init => Walked
  BY DEF Init, Walked
<1>2. Walked /\ [Next]_vars => Walked'
  <2>1. Walked /\ UNCHANGED vars => Walked'
    BY DEF vars, lists, modes, Walked, Table
  <2> QED
    BY <2>1, WalkedStep
<1>3. Walked => ActiveStarted
  BY DEF Walked, ActiveStarted, Idle
<1> QED
  BY <1>1, <1>2, <1>3, PTL DEF Spec

----------------------------------------------------------------------------
(* Queues and addresses.                                                   *)

LEMMA RangeOfAppend ==
    ASSUME NEW S, NEW q \in Seq(S), NEW x \in S
    PROVE  /\ Append(q, x) \in Seq(S)
           /\ Len(Append(q, x)) = Len(q) + 1
           /\ Range(Append(q, x)) = Range(q) \cup {x}
<1> DEFINE a == Append(q, x)
<1>1. /\ a \in Seq(S) /\ Len(a) = Len(q) + 1 /\ Len(q) \in Nat
      /\ \A i \in 1..Len(q) : a[i] = q[i]
      /\ a[Len(q) + 1] = x
  BY AppendProperties
<1> HIDE DEF a
<1>2. DOMAIN a = 1..(Len(q) + 1) /\ DOMAIN q = 1..Len(q)
  BY <1>1
<1>3. Range(a) = Range(q) \cup {x}
  BY <1>1, <1>2 DEF Range
<1> QED
  BY <1>1, <1>3 DEF a

LEMMA RangeOfTail ==
    ASSUME NEW S, NEW q \in Seq(S), q # <<>>
    PROVE  /\ Tail(q) \in Seq(S)
           /\ Head(q) \in Range(q)
           /\ Range(Tail(q)) \subseteq Range(q)
<1> DEFINE t == Tail(q)
<1>1. /\ t \in Seq(S) /\ Len(t) = Len(q) - 1 /\ Len(q) \in Nat /\ Len(q) # 0
      /\ \A i \in 1..Len(t) : t[i] = q[i + 1]
  BY HeadTailProperties
<1>2. Head(q) = q[1]
  OBVIOUS
<1> HIDE DEF t
<1>3. DOMAIN t = 1..Len(t) /\ DOMAIN q = 1..Len(q)
  BY <1>1
<1>4. \A i \in DOMAIN t : i + 1 \in DOMAIN q /\ t[i] = q[i + 1]
  BY <1>1, <1>3
<1>5. Range(t) \subseteq Range(q)
  BY <1>4 DEF Range
<1>6. q[1] \in Range(q)
  BY <1>1, <1>3 DEF Range
<1> QED
  BY <1>1, <1>2, <1>5, <1>6 DEF t

LEMMA RangeType ==
    ASSUME NEW S, NEW q \in Seq(S)
    PROVE  /\ Range(q) \subseteq S /\ Len(q) \in Nat
           /\ IsFiniteSet(Range(q)) /\ Cardinality(Range(q)) <= Len(q)
<1>1. DOMAIN q = 1..Len(q) /\ Len(q) \in Nat /\ q \in [1..Len(q) -> S]
  OBVIOUS
<1>2. q \in [1..Len(q) -> Range(q)] /\ \A y \in Range(q) : \E i \in 1..Len(q) : q[i] = y
  BY <1>1 DEF Range
<1>3. q \in Surjection(1..Len(q), Range(q))
  BY <1>2, Fun_IsSurj
<1>4. IsFiniteSet(1..Len(q)) /\ Cardinality(1..Len(q)) = Len(q)
  BY <1>1, FS_Interval
<1>5. IsFiniteSet(Range(q)) /\ Cardinality(Range(q)) <= Len(q)
  BY <1>3, <1>4, FS_Surjection
<1> QED
  BY <1>1, <1>5 DEF Range

\* A set at least as large as another takes an injection of it.
LEMMA InjectionFits ==
    ASSUME NEW S, IsFiniteSet(S), NEW T, IsFiniteSet(T), Cardinality(S) <= Cardinality(T)
    PROVE  Injection(S, T) # {}
<1>1. /\ Cardinality(S) \in Nat /\ ExistsBijection(1..Cardinality(S), S)
      /\ Cardinality(T) \in Nat /\ ExistsBijection(1..Cardinality(T), T)
  BY FS_CardinalityType
<1>2. ExistsInjection(1..Cardinality(S), 1..Cardinality(T))
  BY <1>1, Fun_NatInjLeq
<1>3. ExistsInjection(S, 1..Cardinality(S)) /\ ExistsInjection(1..Cardinality(T), T)
  BY <1>1, Fun_ExistsBijEquiv
<1>4. ExistsInjection(S, T)
  <2>1. ExistsInjection(S, 1..Cardinality(T))
    BY <1>2, <1>3, Fun_ExistsInjTransitive
  <2> QED
    BY <1>3, <2>1, Fun_ExistsInjTransitive
<1> QED
  BY <1>4, Fun_ExistsInj

\* There is an address for every entity of the scene, the old ones not being
\* deleted yet.
LEMMA AddressesLeft ==
    ASSUME TypeOK, Lists
    PROVE  IsFiniteSet(Unused) /\ Cardinality(Unused) >= Cardinality(Names)
<1> DEFINE Used == live \cup leftover \cup Queued
           Spn == Range(mEntityActivateQueue)
           Act == Spn \cup leftover
<1>1. IsFiniteSet(Ents) /\ IsFiniteSet(Names) /\ MaxQueued \in Nat
  BY EntsAssumption, NamesAssumption, BoundsAssumption
<1>2. Cardinality(Ents) \in Nat /\ Cardinality(Names) \in Nat
  BY <1>1, FS_CardinalityType
<1>3. IsFiniteSet(live) /\ Cardinality(live) <= Cardinality(Names)
  <2>1. mEntities \in [Names -> Range(mEntities)]
        /\ \A y \in Range(mEntities) : \E n \in Names : mEntities[n] = y
    BY DEF TypeOK, Range
  <2>2. IsFiniteSet(Range(mEntities)) /\ Cardinality(Range(mEntities)) <= Cardinality(Names)
    BY <1>1, <2>1, Fun_IsSurj, FS_Surjection
  <2>3. live \subseteq Range(mEntities)
    BY DEF Lists, Table
  <2>4. IsFiniteSet(live) /\ Cardinality(live) <= Cardinality(Range(mEntities))
    BY <2>2, <2>3, FS_Subset
  <2>5. Cardinality(live) \in Nat /\ Cardinality(Range(mEntities)) \in Nat
    BY <2>2, <2>4, FS_CardinalityType
  <2> QED
    BY <1>2, <2>2, <2>4, <2>5
<1>4. IsFiniteSet(Act) /\ Cardinality(Act) <= 2 * MaxQueued /\ Act \subseteq Ents
  <2>1. IsFiniteSet(Spn) /\ Cardinality(Spn) <= Len(mEntityActivateQueue)
        /\ Len(mEntityActivateQueue) \in Nat /\ Spn \subseteq Ents
    BY RangeType DEF Lists
  <2>2. IsFiniteSet(leftover) /\ Cardinality(leftover) <= MaxQueued /\ leftover \subseteq Ents
        /\ Len(mEntityActivateQueue) <= MaxQueued
    BY DEF Lists
  <2>3. IsFiniteSet(Act)
        /\ Cardinality(Act) = Cardinality(Spn) + Cardinality(leftover) - Cardinality(Spn \cap leftover)
    BY <2>1, <2>2, FS_Union
  <2>4. /\ Cardinality(Act) \in Nat /\ Cardinality(Spn) \in Nat /\ Cardinality(leftover) \in Nat
        /\ Cardinality(Spn \cap leftover) \in Nat
    BY <2>1, <2>2, <2>3, FS_Intersection, FS_CardinalityType
  <2> HIDE DEF Spn
  <2>5. Act \subseteq Ents
    BY <2>1, <2>2
  <2> QED
    BY <1>1, <2>1, <2>2, <2>3, <2>4, <2>5
<1>5. Used = live \cup Act /\ Used \subseteq Ents
  BY <1>4 DEF Lists, Queued, TypeOK
<1>6. /\ Cardinality(Act) \in Nat /\ Cardinality(live) \in Nat /\ Cardinality(Used) \in Nat
      /\ IsFiniteSet(Used) /\ Cardinality(Used) <= Cardinality(live) + Cardinality(Act)
  <2>1. IsFiniteSet(Used)
        /\ Cardinality(Used) = Cardinality(live) + Cardinality(Act) - Cardinality(live \cap Act)
    BY <1>3, <1>4, <1>5, FS_Union
  <2>2. IsFiniteSet(live \cap Act)
    BY <1>3, FS_Intersection
  <2>3. /\ Cardinality(Act) \in Nat /\ Cardinality(live) \in Nat /\ Cardinality(Used) \in Nat
        /\ Cardinality(live \cap Act) \in Nat
    BY <1>3, <1>4, <2>1, <2>2, FS_CardinalityType
  <2> QED
    BY <2>1, <2>3
<1>7. Cardinality(Used) <= Cardinality(Names) + 2 * MaxQueued
  BY <1>1, <1>2, <1>3, <1>4, <1>6
<1>8. /\ IsFiniteSet(Ents \ Used)
      /\ Cardinality(Ents \ Used) = Cardinality(Ents) - Cardinality(Ents \cap Used)
  BY <1>1, FS_Difference
<1>9. Ents \cap Used = Used /\ Unused = Ents \ Used
  BY <1>5 DEF Unused
<1>10. Cardinality(Ents) >= 2 * (Cardinality(Names) + MaxQueued)
  BY EntsAssumption
<1>11. Cardinality(Unused) = Cardinality(Ents) - Cardinality(Used) /\ IsFiniteSet(Unused)
  BY <1>8, <1>9
<1> HIDE DEF Used
<1> QED
  BY <1>1, <1>2, <1>6, <1>7, <1>10, <1>11

\* ComposeEntities gives the scene's entities addresses that were not in use.
LEMMA ComposedType ==
    ASSUME TypeOK, Lists
    PROVE  /\ Composed \in [Names -> Ents \cup {Null}]
           /\ Range(Composed) \ {Null} \subseteq Ents
<1>1. IsFiniteSet(mSceneObjects) /\ Cardinality(mSceneObjects) <= Cardinality(Names)
  BY NamesAssumption, FS_Subset DEF TypeOK
<1>2. IsFiniteSet(Unused) /\ Cardinality(Unused) >= Cardinality(Names)
  BY AddressesLeft
<1>3. /\ Cardinality(mSceneObjects) \in Nat /\ Cardinality(Names) \in Nat
      /\ Cardinality(Unused) \in Nat
  BY <1>1, <1>2, NamesAssumption, FS_CardinalityType
<1>4. Injection(mSceneObjects, Unused) # {}
  BY <1>1, <1>2, <1>3, InjectionFits
<1> DEFINE address == CHOOSE f \in Injection(mSceneObjects, Unused) : TRUE
<1>5. address \in Injection(mSceneObjects, Unused)
  BY <1>4
<1>6. address \in [mSceneObjects -> Unused]
  BY <1>5, Fun_InjectionProperties
<1>7. Composed = [n \in Names |-> IF n \in mSceneObjects THEN address[n] ELSE Null]
  BY DEF Composed
<1> HIDE DEF address
<1>8. Composed \in [Names -> Ents \cup {Null}]
  BY <1>6, <1>7 DEF Unused
<1> QED
  BY <1>8 DEF Range

----------------------------------------------------------------------------
(* One lemma per part of the invariant.                                    *)

\* The queue after a deletion of the instance.
LEMMA AbandonedType ==
    ASSUME NEW q \in Seq(Ops)
    PROVE  Abandoned(q) \in Seq(Ops)
<1>1. DOMAIN q = 1..Len(q) /\ Len(q) \in Nat /\ \A i \in 1..Len(q) : q[i] \in Ops
  OBVIOUS
<1>2. Abandoned(q) = [i \in 1..Len(q) |-> IF q[i] = "topo" THEN "staleTopo" ELSE q[i]]
  BY <1>1 DEF Abandoned
<1>3. "staleTopo" \in Ops
  BY DEF Ops
<1>4. Abandoned(q) \in [1..Len(q) -> Ops]
  BY <1>1, <1>2, <1>3
<1> QED
  BY <1>1, <1>4

\* Whatever is pushed to UpdateSerialOpQ or taken from it is an operation.
LEMMA OpsStep ==
    ASSUME TypeOK, Next  PROVE updq' \in Seq(Ops)
<1>1. updq \in Seq(Ops) /\ "topo" \in Ops /\ \A o \in Requests : o \in Ops
  BY DEF TypeOK, Ops
<1>2. Append(updq, "topo") \in Seq(Ops) /\ \A o \in Requests : Append(updq, o) \in Seq(Ops)
  BY <1>1
<1>3. CASE TakeEdit \/ TakeRun
  <2>1. updq # <<>> /\ updq' = Abandoned(Tail(updq))
    BY <1>3 DEF TakeEdit, TakeRun, Take
  <2> QED
    BY <1>1, <2>1, RangeOfTail, AbandonedType
<1>4. CASE updq # <<>> /\ updq' = Tail(updq)
  BY <1>1, <1>4, RangeOfTail
<1>5. CASE TakeStaleTopo \/ \E o \in {"object", "delete", "topo"} : EnterEditState(o)
  BY <1>4, <1>5 DEF TakeStaleTopo, EnterEditState, Take
<1>6. CASE (\E o \in Requests : Request(o)) \/ TopoChanged
  BY <1>2, <1>6 DEF Request, TopoChanged, Push
<1>7. CASE (\E n \in Names : NewEntity(n)) \/ NoNameLeft \/ DeleteObject
  BY <1>1, <1>2, <1>7 DEF NewEntity, NoNameLeft, DeleteObject
<1>8. CASE \/ ComposeEntities \/ StartEntities \/ Entered \/ BeginUpdate \/ BeginFreeUpdate
           \/ UpdateDeactivate \/ ServiceActivateQueue \/ EndUpdate
           \/ (\E n \in Names : Spawn(n)) \/ (\E e \in Ents : Despawn(e))
           \/ RendererTake \/ RendererReturn
  BY <1>1, <1>8 DEF ComposeEntities, StartEntities, Entered, BeginUpdate, BeginFreeUpdate,
     UpdateDeactivate, ServiceActivateQueue, EndUpdate, Spawn, Despawn, RendererTake,
     RendererReturn
<1> QED
  BY <1>3, <1>5, <1>6, <1>7, <1>8 DEF Next, UpdateThread

LEMMA ModesStep ==
    ASSUME Modes, Next  PROVE Modes'
<1> USE DEF EnterPhases, UpdatePhases
<1>1. CASE TakeEdit \/ TakeRun
  BY <1>1 DEF TakeEdit, TakeRun, Take, Idle, Modes
<1>2. ASSUME NEW o \in {"object", "delete", "topo"}, EnterEditState(o)  PROVE Modes'
  BY <1>2 DEF EnterEditState, Modes
<1>3. CASE ComposeEntities
  BY <1>3 DEF ComposeEntities, modes, Modes
<1>4. CASE StartEntities
  BY <1>4 DEF StartEntities, modes, Modes
<1>5. CASE Entered
  <2>1. CASE entering = "run" \/ entering = "topo"
    BY <1>5, <2>1 DEF Entered, Modes
  <2>2. CASE entering # "run" /\ entering # "topo"
    <3>1. meSceneInstMode' = "EDIT" /\ entering' # "run" /\ phase' \in {"editing", "idle"}
      BY <1>5, <2>2 DEF Entered
    <3> QED
      BY <3>1 DEF Modes
  <2> QED
    BY <2>1, <2>2
<1>6. CASE (\E n \in Names : NewEntity(n)) \/ NoNameLeft \/ DeleteObject
  BY <1>6 DEF NewEntity, NoNameLeft, DeleteObject, Editing, Modes
<1>7. CASE BeginUpdate \/ BeginFreeUpdate
  BY <1>7 DEF BeginUpdate, BeginFreeUpdate, Idle, modes, Modes
<1>8. CASE UpdateDeactivate \/ ServiceActivateQueue \/ EndUpdate
  BY <1>8 DEF UpdateDeactivate, ServiceActivateQueue, EndUpdate, modes, Modes
<1>9. CASE \/ TakeStaleTopo \/ TopoChanged \/ RendererTake \/ RendererReturn
           \/ (\E o \in Requests : Request(o))
           \/ (\E n \in Names : Spawn(n)) \/ (\E e \in Ents : Despawn(e))
  <2>1. UNCHANGED <<phase, entering, meSceneInstMode>>
    BY <1>9 DEF TakeStaleTopo, TopoChanged, RendererTake, RendererReturn, Request, Spawn,
       Despawn, modes
  <2> QED
    BY <2>1 DEF Modes
<1> QED
  BY <1>1, <1>2, <1>3, <1>4, <1>5, <1>6, <1>7, <1>8, <1>9 DEF Next, UpdateThread

\* Queues and lists when ServiceDeactivateQueue has cleared its queue.
LEMMA DeactivateLists ==
    ASSUME Lists, ServiceDeactivateQueue,
           UNCHANGED <<mEntities, live, leftover, mEntityActivateQueue>>, phase' # "stopping"
    PROVE  Lists'
<1>1. /\ mEntityDeactivateQueue' = <<>> /\ Table' = Table
      /\ mActiveEntities' \subseteq mActiveEntities
      /\ started' \subseteq started \cup Table
  BY DEF ServiceDeactivateQueue, Table
<1>2. Range(mEntityDeactivateQueue') = {} /\ mEntityDeactivateQueue' \in Seq(Ents)
  BY <1>1 DEF Range
<1> QED
  BY <1>1, <1>2 DEF Lists

\* A mode change deletes the entities of the table and composes it again.
LEMMA ComposedLists ==
    ASSUME TypeOK, Lists, mEntities' = Composed, live' = Table',
           mActiveEntities' \cup started' \subseteq live' \cup leftover',
           leftover' = {} \/ leftover' \subseteq Range(mEntityActivateQueue),
           mEntityActivateQueue' \in {<<>>, mEntityActivateQueue},
           mEntityDeactivateQueue' = <<>>,
           phase' # "stopping"
    PROVE  Lists'
<1>1. mEntityActivateQueue' \in Seq(Ents) /\ Len(mEntityActivateQueue') <= MaxQueued
  <2>1. CASE mEntityActivateQueue' = <<>>
    BY <2>1, BoundsAssumption
  <2>2. CASE mEntityActivateQueue' = mEntityActivateQueue
    BY <2>2 DEF Lists
  <2> QED
    BY <2>1, <2>2
<1>2. Range(mEntityDeactivateQueue') = {} /\ mEntityDeactivateQueue' \in Seq(Ents)
  BY DEF Range
<1>3. leftover' \subseteq Ents /\ IsFiniteSet(leftover') /\ Cardinality(leftover') <= MaxQueued
  <2>1. CASE leftover' = {}
    BY <2>1, FS_EmptySet, BoundsAssumption
  <2>2. CASE leftover' \subseteq Range(mEntityActivateQueue)
    <3>1. /\ Range(mEntityActivateQueue) \subseteq Ents /\ Len(mEntityActivateQueue) \in Nat
          /\ IsFiniteSet(Range(mEntityActivateQueue)) /\ Len(mEntityActivateQueue) <= MaxQueued
          /\ Cardinality(Range(mEntityActivateQueue)) <= Len(mEntityActivateQueue)
      BY RangeType DEF Lists
    <3>2. /\ IsFiniteSet(leftover')
          /\ Cardinality(leftover') <= Cardinality(Range(mEntityActivateQueue))
      BY <2>2, <3>1, FS_Subset
    <3>3. Cardinality(leftover') \in Nat /\ Cardinality(Range(mEntityActivateQueue)) \in Nat
      BY <3>1, <3>2, FS_CardinalityType
    <3> QED
      BY <2>2, <3>1, <3>2, <3>3, BoundsAssumption
  <2> QED
    BY <2>1, <2>2
<1> QED
  BY <1>1, <1>2, <1>3 DEF Lists

\* SpawnDynamicEntity puts an address nothing refers to in the table and in the
\* activation queue.
LEMMA SpawnFacts ==
    ASSUME TypeOK, Lists, NEW n \in Names, Spawn(n)
    PROVE  \E e \in Ents :
             /\ mEntities' = [mEntities EXCEPT ![n] = e]
             /\ Table' = Table \cup {e} /\ live' = live \cup {e}
             /\ mEntityActivateQueue' \in Seq(Ents)
             /\ Len(mEntityActivateQueue') <= MaxQueued
             /\ Range(mEntityActivateQueue') = Range(mEntityActivateQueue) \cup {e}
<1> DEFINE e == CHOOSE x \in Unused : TRUE
<1>1. Unused # {}
  <2>1. Cardinality(Unused) >= Cardinality(Names) /\ IsFiniteSet(Unused)
    BY AddressesLeft
  <2>2. IsFiniteSet(Names) /\ Cardinality(Names) # 0 /\ Cardinality(Names) \in Nat
    BY NamesAssumption, FS_EmptySet, FS_CardinalityType
  <2> QED
    BY <2>1, <2>2, FS_EmptySet
<1>2. e \in Ents /\ e # Null
  BY <1>1, NamesAssumption DEF Unused
<1>3. /\ mEntities[n] = Null /\ mEntities' = [mEntities EXCEPT ![n] = e]
      /\ live' = live \cup {e}
      /\ mEntityActivateQueue' = Append(mEntityActivateQueue, e)
      /\ Len(mEntityActivateQueue) < MaxQueued
  BY DEF Spawn
<1> HIDE DEF e
<1>4. mEntityActivateQueue \in Seq(Ents)
  BY DEF Lists
<1>5. /\ mEntityActivateQueue' \in Seq(Ents)
      /\ Len(mEntityActivateQueue') = Len(mEntityActivateQueue) + 1
      /\ Range(mEntityActivateQueue') = Range(mEntityActivateQueue) \cup {e}
  BY <1>2, <1>3, <1>4, RangeOfAppend
<1>6. Len(mEntityActivateQueue') <= MaxQueued
  BY <1>3, <1>4, <1>5, BoundsAssumption
<1>7. mEntities = [k \in Names |-> mEntities[k]]
  BY DEF TypeOK
<1>8. Table \subseteq Table' /\ Table' \subseteq Table \cup {e}
  BY <1>3, <1>7, TableGrows
<1>9. e \in Table'
  <2>1. mEntities'[n] = e /\ n \in DOMAIN mEntities'
    BY <1>3, <1>7
  <2> QED
    BY <1>2, <2>1 DEF Table, Range
<1> QED
  BY <1>2, <1>3, <1>5, <1>6, <1>8, <1>9

\* ImplNewEntity puts one in the table and in the active list.
LEMMA NewEntityFacts ==
    ASSUME TypeOK, Lists, NEW n \in Names, NewEntity(n)
    PROVE  \E e \in Ents :
             /\ mEntities' = [mEntities EXCEPT ![n] = e]
             /\ Table' = Table \cup {e} /\ live' = live \cup {e}
             /\ mActiveEntities' = mActiveEntities \cup {e}
<1> DEFINE e == CHOOSE x \in Unused : TRUE
<1>1. Unused # {}
  <2>1. Cardinality(Unused) >= Cardinality(Names) /\ IsFiniteSet(Unused)
    BY AddressesLeft
  <2>2. IsFiniteSet(Names) /\ Cardinality(Names) # 0 /\ Cardinality(Names) \in Nat
    BY NamesAssumption, FS_EmptySet, FS_CardinalityType
  <2> QED
    BY <2>1, <2>2, FS_EmptySet
<1>2. e \in Ents /\ e # Null
  BY <1>1, NamesAssumption DEF Unused
<1>3. /\ mEntities[n] = Null /\ mEntities' = [mEntities EXCEPT ![n] = e]
      /\ live' = live \cup {e} /\ mActiveEntities' = mActiveEntities \cup {e}
  BY DEF NewEntity
<1> HIDE DEF e
<1>4. mEntities = [k \in Names |-> mEntities[k]]
  BY DEF TypeOK
<1>5. Table \subseteq Table' /\ Table' \subseteq Table \cup {e}
  BY <1>3, <1>4, TableGrows
<1>6. e \in Table'
  <2>1. mEntities'[n] = e /\ n \in DOMAIN mEntities'
    BY <1>3, <1>4
  <2> QED
    BY <1>2, <2>1 DEF Table, Range
<1> QED
  BY <1>2, <1>3, <1>5, <1>6

LEMMA ListsStep ==
    ASSUME TypeOK, Lists, Modes, Spawned, Next  PROVE Lists'
<1> USE DEF EnterPhases, UpdatePhases
<1>1. CASE TakeEdit
  BY <1>1, ComposedLists DEF TakeEdit, Take, Idle, Table
<1>2. CASE TakeRun
  BY <1>2, ComposedLists DEF TakeRun, Table
<1>3. CASE TakeStaleTopo \/ EndUpdate \/ RendererTake \/ RendererReturn
  <2>1. UNCHANGED <<lists, queues>> /\ (phase' = phase \/ phase' = "idle")
    BY <1>3 DEF TakeStaleTopo, EndUpdate, RendererTake, RendererReturn
  <2> QED
    BY <2>1 DEF lists, queues, Lists, Table
<1>4. ASSUME NEW o \in {"object", "delete", "topo"}, EnterEditState(o)  PROVE Lists'
  <2>1. /\ UNCHANGED <<mEntities, live, mActiveEntities, queues>>
        /\ started' = started \ Table
    BY <1>4 DEF EnterEditState
  <2>2. started \subseteq Table \cup leftover /\ leftover' = leftover
    BY <1>4 DEF Lists, EnterEditState
  <2> QED
    BY <2>1, <2>2 DEF queues, Lists, Table
<1>5. CASE ComposeEntities
  <2>1. /\ live' = Table' /\ started' = {} /\ mActiveEntities' = {}
        /\ leftover' \subseteq Range(mEntityActivateQueue)
    BY <1>5 DEF ComposeEntities, LeftBehind, Lists, Table
  <2> QED
    BY <1>5, <2>1, ComposedLists DEF ComposeEntities
<1>6. CASE StartEntities \/ Entered \/ UpdateDeactivate
  BY <1>6, DeactivateLists DEF StartEntities, Entered, UpdateDeactivate
<1>7. CASE BeginUpdate \/ BeginFreeUpdate
  <2>1. UNCHANGED <<lists, queues>> /\ phase = "idle" /\ phase' \in {"idle", "components"}
    BY <1>7 DEF BeginUpdate, BeginFreeUpdate, Idle
  <2> QED
    BY <2>1 DEF lists, queues, Lists, Table
<1>8. CASE ServiceActivateQueue
  <2>1. /\ phase = "stopped" /\ phase' = "systems"
        /\ started' = started \cup Range(mEntityActivateQueue)
        /\ mActiveEntities' = mActiveEntities \cup Range(mEntityActivateQueue)
        /\ mEntityActivateQueue' = <<>>
        /\ UNCHANGED <<mEntities, live, leftover, mEntityDeactivateQueue>>
    BY <1>8 DEF ServiceActivateQueue
  <2>2. Range(mEntityActivateQueue) \subseteq live \cup leftover
    BY <2>1 DEF Modes, Spawned, Running
  <2>3. mEntityActivateQueue' \in Seq(Ents) /\ Len(mEntityActivateQueue') <= MaxQueued
    BY <2>1, BoundsAssumption
  <2> QED
    BY <2>1, <2>2, <2>3 DEF Lists, Table
<1>9. ASSUME NEW o \in Requests, Request(o)  PROVE Lists'
  BY <1>9 DEF Request, lists, queues, Lists, Table
<1>10. CASE TopoChanged
  BY <1>10 DEF TopoChanged, lists, queues, Lists, Table
<1>11. ASSUME NEW n \in Names, Spawn(n)  PROVE Lists'
  <2>1. UNCHANGED <<phase, leftover, mActiveEntities, started, mEntityDeactivateQueue>>
    BY <1>11 DEF Spawn
  <2> QED
    BY <1>11, <2>1, SpawnFacts DEF Lists
<1>12. ASSUME NEW e \in Ents, Despawn(e)  PROVE Lists'
  <2>1. /\ UNCHANGED <<phase, mEntities, live, leftover, mActiveEntities, started,
                         mEntityActivateQueue>>
        /\ mEntityDeactivateQueue' = Append(mEntityDeactivateQueue, e) /\ e \in Table
    BY <1>12 DEF Despawn, lists
  <2>2. /\ mEntityDeactivateQueue' \in Seq(Ents)
        /\ Range(mEntityDeactivateQueue') = Range(mEntityDeactivateQueue) \cup {e}
    BY <2>1, RangeOfAppend DEF Lists
  <2> QED
    BY <2>1, <2>2 DEF Lists, Table
<1>13. ASSUME NEW n \in Names, NewEntity(n)  PROVE Lists'
  <2>1. UNCHANGED <<leftover, started, queues>> /\ phase' = "idle"
    BY <1>13 DEF NewEntity, Editing
  <2> QED
    BY <1>13, <2>1, NewEntityFacts DEF Lists, queues
<1>14. CASE NoNameLeft \/ DeleteObject
  <2>1. UNCHANGED <<lists, queues>> /\ phase' = "idle"
    BY <1>14 DEF NoNameLeft, DeleteObject, Editing
  <2> QED
    BY <2>1 DEF lists, queues, Lists, Table
<1> QED
  BY <1>1, <1>2, <1>3, <1>4, <1>5, <1>6, <1>7, <1>8, <1>9, <1>10, <1>11, <1>12, <1>13, <1>14
     DEF Next, UpdateThread

LEMMA SpawnedStep ==
    ASSUME TypeOK, Lists, Modes, Spawned, Next  PROVE Spawned'
<1> USE DEF EnterPhases, UpdatePhases
<1>1. CASE TakeEdit \/ TakeRun \/ ServiceActivateQueue
  <2>1. mEntityActivateQueue' = <<>>
    BY <1>1 DEF TakeEdit, TakeRun, ServiceActivateQueue
  <2> QED
    BY <2>1 DEF Spawned, Range
<1>2. CASE \/ TakeStaleTopo \/ TopoChanged \/ RendererTake \/ RendererReturn
           \/ (\E o \in Requests : Request(o)) \/ (\E e \in Ents : Despawn(e))
  <2>1. UNCHANGED <<phase, entering, meSceneInstMode, live, leftover, mEntityActivateQueue>>
    BY <1>2 DEF TakeStaleTopo, TopoChanged, RendererTake, RendererReturn, Request, Despawn,
       lists, queues, modes
  <2> QED
    BY <2>1 DEF Spawned, Running
<1>3. ASSUME NEW o \in {"object", "delete", "topo"}, EnterEditState(o)  PROVE Spawned'
  <2>1. /\ phase = "idle" /\ phase' = "stopping" /\ entering' = o
        /\ UNCHANGED <<meSceneInstMode, live, leftover, mEntityActivateQueue>>
    BY <1>3 DEF EnterEditState, Take, Idle, queues
  <2> QED
    BY <2>1 DEF Spawned, Running
<1>4. CASE ComposeEntities
  <2>1. /\ phase = "stopping" /\ phase' = "linking"
        /\ UNCHANGED <<entering, meSceneInstMode, mEntityActivateQueue>>
        /\ leftover' = LeftBehind
    BY <1>4 DEF ComposeEntities, modes
  <2>2. SUFFICES ASSUME Running'  PROVE Range(mEntityActivateQueue) \subseteq leftover'
    BY <2>1 DEF Spawned
  <2>3. entering = "topo" /\ meSceneInstMode = "RUN"
    BY <2>1, <2>2 DEF Modes, Running
  <2>4. Range(mEntityActivateQueue) \subseteq Table \cup leftover
    BY <2>1, <2>3 DEF Spawned, Running, Lists
  <2> QED
    BY <2>1, <2>3, <2>4 DEF LeftBehind
<1>5. CASE StartEntities
  BY <1>5 DEF StartEntities, modes, Spawned, Running
<1>6. CASE Entered
  <2>1. /\ phase = "starting" /\ phase' \in {"idle", "editing"}
        /\ UNCHANGED <<live, leftover, mEntityActivateQueue>>
    BY <1>6 DEF Entered
  <2>2. CASE entering = "run" \/ entering = "topo"
    BY <1>6, <2>1, <2>2 DEF Entered, Spawned, Running
  <2>3. CASE entering # "run" /\ entering # "topo"
    <3>1. meSceneInstMode' = "EDIT" /\ entering' # "run"
      BY <1>6, <2>3 DEF Entered
    <3> QED
      BY <2>1, <3>1 DEF Spawned, Running
  <2> QED
    BY <2>2, <2>3
<1>7. CASE BeginUpdate \/ BeginFreeUpdate
  <2>1. /\ phase = "idle" /\ phase' \in {"idle", "components"}
        /\ UNCHANGED <<live, leftover, mEntityActivateQueue, meSceneInstMode>>
    BY <1>7 DEF BeginUpdate, BeginFreeUpdate, Idle, lists, queues, modes
  <2> QED
    BY <2>1 DEF Spawned, Running
<1>8. CASE UpdateDeactivate \/ EndUpdate
  <2>1. /\ phase \in UpdatePhases /\ phase' \in UpdatePhases \cup {"idle"}
        /\ UNCHANGED <<live, leftover, mEntityActivateQueue, meSceneInstMode>>
    BY <1>8 DEF UpdateDeactivate, EndUpdate, lists, queues, modes
  <2> QED
    BY <2>1 DEF Spawned, Running
<1>9. CASE (\E n \in Names : NewEntity(n)) \/ NoNameLeft \/ DeleteObject
  <2>1. phase = "editing" /\ phase' = "idle" /\ meSceneInstMode' = meSceneInstMode
    BY <1>9 DEF NewEntity, NoNameLeft, DeleteObject, Editing, modes
  <2> QED
    BY <2>1 DEF Modes, Spawned, Running
<1>10. ASSUME NEW n \in Names, Spawn(n)  PROVE Spawned'
  <2>1. UNCHANGED <<phase, entering, meSceneInstMode, leftover>>
    BY <1>10 DEF Spawn, modes
  <2> QED
    BY <1>10, <2>1, SpawnFacts DEF Spawned, Running
<1> QED
  BY <1>1, <1>2, <1>3, <1>4, <1>5, <1>6, <1>7, <1>8, <1>9, <1>10 DEF Next, UpdateThread

LEMMA TypeStep ==
    ASSUME TypeOK, Lists, Lists', Next  PROVE TypeOK'
<1> USE DEF EnterPhases, UpdatePhases
<1>1. updq' \in Seq(Ops)
  BY OpsStep
<1>2. Queued' \subseteq Ents
  BY RangeType DEF Lists, Queued
<1>3. updTok' \in Nat /\ renTok' \in Nat /\ held' \in {0, 1}
  BY DEF TypeOK, Next, UpdateThread, TakeEdit, TakeRun, TakeStaleTopo, EnterEditState,
     ComposeEntities, StartEntities, Entered, BeginUpdate, UpdateDeactivate,
     ServiceActivateQueue, EndUpdate, Request, TopoChanged, Spawn, Despawn,
     RendererTake, RendererReturn, NewEntity, NoNameLeft, DeleteObject, BeginFreeUpdate,
     tokens
<1>4. phase' \in {"idle"} \cup EnterPhases \cup UpdatePhases
  BY DEF TypeOK, Next, UpdateThread, TakeEdit, TakeRun, TakeStaleTopo, EnterEditState,
     ComposeEntities, StartEntities, Entered, BeginUpdate, UpdateDeactivate,
     ServiceActivateQueue, EndUpdate, Request, TopoChanged, Spawn, Despawn,
     RendererTake, RendererReturn, NewEntity, NoNameLeft, DeleteObject, Editing,
     BeginFreeUpdate
<1>5. entering' \in Requests \cup {"topo", "none"}
  BY DEF TypeOK, Next, UpdateThread, TakeEdit, TakeRun, TakeStaleTopo, EnterEditState,
     ComposeEntities, StartEntities, Entered, BeginUpdate, UpdateDeactivate,
     ServiceActivateQueue, EndUpdate, Request, TopoChanged, Spawn, Despawn,
     RendererTake, RendererReturn, NewEntity, NoNameLeft, DeleteObject, Editing,
     BeginFreeUpdate, Requests, Awaited
<1>6. /\ meSceneInstMode' \in {"EDIT", "RUN"} /\ gbQRUNMODE' \in BOOLEAN
      /\ mSystems' \in {"none", "free", "fixed"}
  <2>1. CASE Entered
    <3>1. meSceneInstMode' \in {"RUN", "EDIT", meSceneInstMode}
      <4>1. CASE entering = "run"
        BY <2>1, <4>1 DEF Entered
      <4>2. CASE entering = "topo"
        BY <2>1, <4>2 DEF Entered
      <4>3. CASE entering # "run" /\ entering # "topo"
        BY <2>1, <4>3 DEF Entered
      <4> QED
        BY <4>1, <4>2, <4>3
    <3> QED
      BY <2>1, <3>1 DEF Entered, TypeOK
  <2>2. CASE ~Entered
    BY <2>2 DEF TypeOK, Next, UpdateThread, TakeEdit, TakeRun, TakeStaleTopo, EnterEditState,
       ComposeEntities, StartEntities, BeginUpdate, UpdateDeactivate,
       ServiceActivateQueue, EndUpdate, Request, TopoChanged, Spawn, Despawn,
       RendererTake, RendererReturn, NewEntity, NoNameLeft, DeleteObject, BeginFreeUpdate,
       modes
  <2> QED
    BY <2>1, <2>2
<1>8. mSceneObjects' \subseteq Names
  BY DEF TypeOK, Next, UpdateThread, TakeEdit, TakeRun, TakeStaleTopo, EnterEditState,
     ComposeEntities, StartEntities, Entered, BeginUpdate, UpdateDeactivate,
     ServiceActivateQueue, EndUpdate, Request, TopoChanged, Spawn, Despawn,
     RendererTake, RendererReturn, NewEntity, NoNameLeft, DeleteObject, BeginFreeUpdate,
     modes
<1>7. mEntities' \in [Names -> Ents \cup {Null}] /\ live' \subseteq Ents
  <2>1. CASE mEntities' = Composed
    <3>1. mEntities' \in [Names -> Ents \cup {Null}] /\ Range(mEntities') \ {Null} \subseteq Ents
      BY <2>1, ComposedType
    <3> QED
      BY <3>1 DEF Lists, Table
  <2>2. ASSUME NEW n \in Names, Spawn(n)
        PROVE  mEntities' \in [Names -> Ents \cup {Null}] /\ live' \subseteq Ents
    BY <2>2, SpawnFacts DEF TypeOK
  <2>6. ASSUME NEW n \in Names, NewEntity(n)
        PROVE  mEntities' \in [Names -> Ents \cup {Null}] /\ live' \subseteq Ents
    BY <2>6, NewEntityFacts DEF TypeOK
  <2>3. CASE mEntities' = mEntities /\ live' = live
    BY <2>3 DEF TypeOK
  <2>4. (TakeEdit \/ TakeRun \/ ComposeEntities) => mEntities' = Composed
    BY DEF TakeEdit, TakeRun, ComposeEntities
  <2>5. (\/ TakeStaleTopo \/ StartEntities \/ Entered \/ BeginUpdate \/ UpdateDeactivate
         \/ ServiceActivateQueue \/ EndUpdate \/ TopoChanged \/ RendererTake
         \/ RendererReturn \/ NoNameLeft \/ DeleteObject \/ BeginFreeUpdate
         \/ \E o \in {"object", "delete", "topo"} : EnterEditState(o)
         \/ (\E o \in Requests : Request(o)) \/ \E e \in Ents : Despawn(e))
            => mEntities' = mEntities /\ live' = live
    BY DEF TakeStaleTopo, EnterEditState, StartEntities, Entered, BeginUpdate, UpdateDeactivate,
       ServiceActivateQueue, EndUpdate, Request, TopoChanged, Despawn, RendererTake,
       RendererReturn, NoNameLeft, DeleteObject, BeginFreeUpdate, lists
  <2> QED
    BY <2>1, <2>2, <2>3, <2>4, <2>5, <2>6 DEF Next, UpdateThread
<1> QED
  BY <1>1, <1>2, <1>3, <1>4, <1>5, <1>6, <1>7, <1>8 DEF TypeOK, Lists

LEMMA Initially == Init => Inv
<1> SUFFICES ASSUME Init  PROVE Inv
  OBVIOUS
<1>1. Range(<<>>) = {}
  BY DEF Range
<1>2. Table = {}
  BY DEF Init, Table, Range
<1>3. TypeOK
  <2>1. updq \in Seq(Ops) /\ entering \in Requests \cup {"topo", "none"}
    BY DEF Init
  <2>2. mEntities \in [Names -> Ents \cup {Null}] /\ live \subseteq Ents
    BY DEF Init
  <2>3. Queued \subseteq Ents
    BY <1>1 DEF Init, Queued
  <2> QED
    BY <2>1, <2>2, <2>3, NamesAssumption DEF Init, TypeOK
<1>4. Lists
  BY <1>1, <1>2, BoundsAssumption, FS_EmptySet DEF Init, Lists
<1>5. Modes /\ Spawned
  BY <1>1 DEF Init, Modes, Spawned, EnterPhases, UpdatePhases
<1> QED
  BY <1>3, <1>4, <1>5 DEF Inv

\* What exists, what refers to it and what mode change is under way belong
\* together.
THEOREM Invariance == Spec => []Inv
<1>1. Inv /\ [Next]_vars => Inv'
  <2> SUFFICES ASSUME Inv, [Next]_vars  PROVE Inv'
    OBVIOUS
  <2>1. CASE Next
    <3>1. Lists'
      BY <2>1, ListsStep DEF Inv
    <3>2. TypeOK'
      BY <2>1, <3>1, TypeStep DEF Inv
    <3>3. Modes' /\ Spawned'
      BY <2>1, ModesStep, SpawnedStep DEF Inv
    <3> QED
      BY <3>1, <3>2, <3>3 DEF Inv
  <2>2. CASE UNCHANGED vars
    <3>1. UNCHANGED <<updq, phase, entering, meSceneInstMode, gbQRUNMODE, mSystems,
                      mSceneObjects, mEntities, live, leftover, mActiveEntities, started,
                      mEntityActivateQueue, mEntityDeactivateQueue, updTok, renTok, held>>
      BY <2>2 DEF vars, modes, lists, queues, tokens
    <3>2. TypeOK' /\ Lists'
      BY <3>1 DEF Inv, TypeOK, Lists, Table, Queued
    <3>3. Modes' /\ Spawned'
      BY <3>1 DEF Inv, Modes, Spawned, Running
    <3> QED
      BY <3>2, <3>3 DEF Inv
  <2> QED
    BY <2>1, <2>2
<1> QED
  BY <1>1, Initially, PTL DEF Spec

\* SceneInst deletes entities only in mode changes, which clear what refers to
\* them; they leave the activation queue, but a scene runs with what was in it
\* only where topo_op leaves it running (sceneinst.cpp, ComposeEntities and
\* ServiceActivateQueue).
THEOREM NothingDangles == Spec => []ListsLive
<1>1. Inv => ListsLive
  <2> SUFFICES ASSUME Inv  PROVE ListsLive
    OBVIOUS
  <2>1. /\ Table \cup Range(mEntityDeactivateQueue) \subseteq live
        /\ mActiveEntities \cup started \subseteq live \cup leftover
    BY DEF Inv, Lists
  <2>2. meSceneInstMode = "RUN" /\ phase \notin EnterPhases =>
            Range(mEntityActivateQueue) \subseteq live \cup leftover
    BY DEF Inv, Spawned, Running
  <2> QED
    BY <2>1, <2>2 DEF Inv, ListsLive
<1> QED
  BY <1>1, Invariance, PTL
=============================================================================
