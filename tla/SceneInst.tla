------------------------------ MODULE SceneInst ------------------------------
(***************************************************************************)
(* ork::ent::SceneInst (ork.ent/src/sceneinst.cpp): the entities of a      *)
(* scene, the lists and queues that point to them, the changes of mode     *)
(* that delete and recreate them, and the token that makes update and      *)
(* rendering alternate at a fixed frame rate.                              *)
(*                                                                         *)
(* All of it runs on the update thread, as operations of UpdateSerialOpQ   *)
(* or between them.  Others push those operations: the run loop its        *)
(* requests, the main thread a change of the scene's topology.  The        *)
(* renderer shares the token queues.  Scripts and components are called    *)
(* back in the middle of most operations and spawn and despawn; they stand *)
(* as Spawn and Despawn between the phases of an operation.                *)
(***************************************************************************)
EXTENDS Naturals, Sequences, FiniteSets, Functions

CONSTANTS
    Ents,            \* addresses of entities
    Names,           \* names of entities
    Authored,        \* those of SceneData's entities to begin with
    Null,            \* no entity
    MaxOps,          \* bound: operations in UpdateSerialOpQ
    MaxQueued        \* bound: entities in a queue when a callback adds one

ASSUME NamesAssumption ==
    IsFiniteSet(Names) /\ Authored \subseteq Names /\ Null \notin Ents
ASSUME BoundsAssumption == MaxOps \in Nat /\ MaxQueued \in Nat
ASSUME EntsAssumption ==
    IsFiniteSet(Ents) /\ Cardinality(Ents) >= 2 * (Cardinality(Names) + MaxQueued)

Awaited == {"run", "edit", "object"}
Requests == Awaited \cup {"delete"}
Ops == Requests \cup {"topo", "staleTopo"}
UpdatePhases == {"components", "stopped", "systems"}
EnterPhases == {"stopping", "linking", "starting", "editing"}

VARIABLES
    updq,                  \* UpdateSerialOpQ
    phase,                 \* how far the update thread is
    entering,              \* the operation that changes the mode, or "none"
    meSceneInstMode,
    gbQRUNMODE,
    mSystems,              \* none, or those of a free or a fixed frame rate
    mSceneObjects,         \* names of SceneData's entities
    mEntities,             \* per name, an address
    live,                  \* addresses not deleted
    leftover,              \* deleted by topo_op in a running scene while queued
    mActiveEntities,
    started,               \* entities whose components are started
    mEntityActivateQueue,
    mEntityDeactivateQueue,
    updTok, renTok,        \* tokens in mOfflineUpdateSynchro and ...Render...
    held                   \* tokens the renderer has taken

queues == <<mEntityActivateQueue, mEntityDeactivateQueue>>
lists == <<mEntities, live, leftover, mActiveEntities, started>>
modes == <<meSceneInstMode, gbQRUNMODE, mSystems, mSceneObjects>>
tokens == <<updTok, renTok, held>>
vars == <<updq, phase, entering, modes, lists, queues, tokens>>

Table == Range(mEntities) \ {Null}
Queued == Range(mEntityActivateQueue) \cup Range(mEntityDeactivateQueue)
Idle == phase = "idle"

\* What the allocator may return: addresses nothing refers to any more.
\* (One that is used again would hide a dangling pointer.)
Unused == Ents \ (live \cup leftover \cup Queued)

\* new Entity for each EntData of the scene.
Composed ==
    LET address == CHOOSE f \in Injection(mSceneObjects, Unused) : TRUE
    IN [n \in Names |-> IF n \in mSceneObjects THEN address[n] ELSE Null]

\* A SceneInst in edit mode, new: nothing ran, no systems.
Init ==
    /\ updq = <<>> /\ phase = "idle" /\ entering = "none"
    /\ meSceneInstMode = "EDIT" /\ gbQRUNMODE = FALSE /\ mSystems = "none"
    /\ mSceneObjects = Authored
    /\ live = {} /\ leftover = {} /\ mEntityActivateQueue = <<>> /\ mEntityDeactivateQueue = <<>>
    /\ mEntities = [n \in Names |-> Null]
    /\ mActiveEntities = {} /\ started = {}
    /\ updTok = 1 /\ renTok = 0 /\ held = 0

----------------------------------------------------------------------------
(* Who pushes to UpdateSerialOpQ                                           *)

Push(o) == Len(updq) < MaxOps /\ updq' = Append(updq, o)

\* The run loop waits for every request but a deletion.
Request(o) ==
    /\ Awaited \cap Range(updq) = {}
    /\ entering \notin Awaited
    /\ Push(o)
    /\ UNCHANGED <<phase, entering, modes, lists, queues, tokens>>

\* SigSceneTopoChanged by the main thread: a model is invalidated, objects
\* are grouped or replicated.
TopoChanged ==
    /\ Push("topo")
    /\ UNCHANGED <<phase, entering, modes, lists, queues, tokens>>

----------------------------------------------------------------------------
(* Mode changes                                                            *)

Take(o) == Idle /\ updq # <<>> /\ Head(updq) = o

\* The operations that captured the instance NewSceneInst deletes.
Abandoned(q) == [i \in DOMAIN q |-> IF q[i] = "topo" THEN "staleTopo" ELSE q[i]]

\* NewSceneInst: the old instance is deleted with its entities and systems,
\* its tokens are stolen; a new one enters edit mode.  Without systems no
\* script is called back on the way.
TakeEdit ==
    /\ Take("edit")
    /\ updq' = Abandoned(Tail(updq))
    /\ mEntities' = Composed /\ live' = Range(mEntities') \ {Null}
    /\ started' = live' /\ mActiveEntities' = {}
    /\ mEntityActivateQueue' = <<>> /\ mEntityDeactivateQueue' = <<>>
    /\ meSceneInstMode' = "EDIT" /\ gbQRUNMODE' = FALSE /\ mSystems' = "none"
    /\ leftover' = {}
    /\ updTok' = 1 /\ renTok' = 0
    /\ UNCHANGED <<phase, entering, mSceneObjects, held>>

\* NewSceneInst, then EnterRunState up to LinkEntities.
TakeRun ==
    /\ Take("run")
    /\ updq' = Abandoned(Tail(updq))
    /\ phase' = "linking" /\ entering' = "run"
    /\ mEntities' = Composed /\ live' = Range(mEntities') \ {Null}
    /\ started' = {} /\ mActiveEntities' = live'
    /\ mEntityActivateQueue' = <<>> /\ mEntityDeactivateQueue' = <<>>
    /\ meSceneInstMode' = "EDIT" /\ gbQRUNMODE' = TRUE /\ mSystems' \in {"free", "fixed"}
    /\ leftover' = {}
    /\ updTok' = 1 /\ renTok' = 0
    /\ UNCHANGED <<mSceneObjects, held>>

\* EnterEditState on the instance as it is, up to StopEntities: by
\* SlotPreNewObject, through OnSceneInstMode, before an object is made or
\* deleted; by SlotSceneTopoChanged, without.
EnterEditState(o) ==
    /\ Take(o)
    /\ updq' = Tail(updq)
    /\ phase' = "stopping" /\ entering' = o
    /\ gbQRUNMODE' = FALSE
    /\ started' = started \ Table
    /\ UNCHANGED <<meSceneInstMode, mSystems, mSceneObjects, mEntities, live, leftover,
                   mActiveEntities, queues, tokens>>

\* topo_op calls a deleted object.  What that does is not followed.
TakeStaleTopo ==
    /\ Take("staleTopo")
    /\ updq' = Tail(updq)
    /\ UNCHANGED <<phase, entering, modes, lists, queues, tokens>>

\* The entities in the activation queue, which is not cleared, that the
\* update of a running scene will go through although they are deleted.
LeftBehind ==
    Range(mEntityActivateQueue) \cap
        (leftover \cup IF entering = "topo" /\ meSceneInstMode = "RUN" THEN Table ELSE {})

\* Mutant: the deactivation queue is not cleared.
MutComposeEntities ==
    /\ phase = "stopping"
    /\ phase' = "linking"
    /\ mActiveEntities' = {} /\ started' = started \ leftover
    /\ mEntities' = Composed
    /\ live' = (live \ Table) \cup (Range(mEntities') \ {Null})
    /\ leftover' = LeftBehind
    /\ UNCHANGED <<updq, entering, modes, queues, tokens>>

\* The lists are cleared, the entities deleted and composed again.
ComposeEntities ==
    /\ phase = "stopping"
    /\ phase' = "linking"
    /\ mActiveEntities' = {} /\ started' = started \ leftover
    /\ mEntityDeactivateQueue' = <<>>
    /\ mEntities' = Composed
    /\ live' = (live \ Table) \cup (Range(mEntities') \ {Null})
    /\ leftover' = LeftBehind
    /\ UNCHANGED <<updq, entering, modes, mEntityActivateQueue, tokens>>

\* The queue is copied and cleared; who is not active is only reported.
ServiceDeactivateQueue ==
    LET stopped == Range(mEntityDeactivateQueue) \cap mActiveEntities IN
    /\ mActiveEntities' = mActiveEntities \ stopped
    /\ started' = (started \ stopped) \cup (IF phase = "linking" THEN Table ELSE {})
    /\ mEntityDeactivateQueue' = <<>>

\* After LinkEntities: ServiceDeactivateQueue, StartEntities.
StartEntities ==
    /\ phase = "linking"
    /\ phase' = "starting"
    /\ ServiceDeactivateQueue
    /\ UNCHANGED <<updq, entering, modes, mEntities, live, leftover,
                   mEntityActivateQueue, tokens>>

\* ServiceDeactivateQueue once more, the tokens of a run, and the mode, which
\* topo_op does not set.  The operations on objects go on from here.
Entered ==
    /\ phase = "starting"
    /\ IF entering \in {"object", "delete"}
       THEN phase' = "editing" /\ UNCHANGED entering
       ELSE phase' = "idle" /\ entering' = "none"
    /\ ServiceDeactivateQueue
    /\ meSceneInstMode' = CASE entering = "run" -> "RUN"
                            [] entering = "topo" -> meSceneInstMode
                            [] OTHER -> "EDIT"
    /\ updTok' = IF entering = "run" THEN 1 ELSE updTok
    /\ renTok' = IF entering = "run" THEN 0 ELSE renTok
    /\ UNCHANGED <<updq, gbQRUNMODE, mSystems, mSceneObjects, mEntities, live, leftover,
                   mEntityActivateQueue, held>>

----------------------------------------------------------------------------
(* Objects of the scene.  Each change signals the topology: topo_op        *)
(* composes the entities again.                                            *)

Editing(o) ==
    /\ phase = "editing" /\ entering = o
    /\ phase' = "idle" /\ entering' = "none"

\* ImplNewEntity: the entity is composed and active, and never started.
NewEntity(n) ==
    /\ Editing("object")
    /\ n \notin mSceneObjects /\ mEntities[n] = Null
    /\ LET e == CHOOSE x \in Unused : TRUE IN
        /\ mEntities' = [mEntities EXCEPT ![n] = e]
        /\ live' = live \cup {e}
        /\ mActiveEntities' = mActiveEntities \cup {e}
    /\ mSceneObjects' = mSceneObjects \cup {n}
    /\ updq' = Append(updq, "topo")
    /\ UNCHANGED <<meSceneInstMode, gbQRUNMODE, mSystems, leftover, started,
                   queues, tokens>>

\* Bound: with every name in use there is no name for a new one.
NoNameLeft ==
    /\ Editing("object")
    /\ \A n \in Names : n \in mSceneObjects \/ mEntities[n] # Null
    /\ UNCHANGED <<updq, modes, lists, queues, tokens>>

\* ImplDeleteObject of what is no scene object, of an archetype or a group,
\* or of an entity, whose instance topo_op will delete.
DeleteObject ==
    /\ Editing("delete")
    /\ \/ UNCHANGED <<updq, mSceneObjects>>
       \/ updq' = Append(updq, "topo") /\ UNCHANGED mSceneObjects
       \/ \E n \in mSceneObjects :
            updq' = Append(updq, "topo") /\ mSceneObjects' = mSceneObjects \ {n}
    /\ UNCHANGED <<meSceneInstMode, gbQRUNMODE, mSystems, lists, queues, tokens>>

----------------------------------------------------------------------------
(* Update, between operations.  Where the compositor among the systems     *)
(* fixes the frame rate there is no update without the token.              *)

BeginUpdate ==
    /\ Idle /\ updq = <<>>
    /\ mSystems = "fixed" /\ updTok > 0
    /\ updTok' = updTok - 1
    /\ IF meSceneInstMode = "RUN"
       THEN phase' = "components" /\ UNCHANGED renTok
       ELSE renTok' = renTok + 1 /\ UNCHANGED phase
    /\ UNCHANGED <<updq, entering, modes, lists, queues, held>>

BeginFreeUpdate ==
    /\ Idle /\ updq = <<>>
    /\ mSystems # "fixed" /\ meSceneInstMode = "RUN"
    /\ phase' = "components"
    /\ UNCHANGED <<updq, entering, modes, lists, queues, tokens>>

UpdateDeactivate ==
    /\ phase = "components"
    /\ phase' = "stopped"
    /\ ServiceDeactivateQueue
    /\ UNCHANGED <<updq, entering, modes, mEntities, live, leftover,
                   mEntityActivateQueue, tokens>>

\* Mutant: entities are activated and not started.
MutServiceActivateQueue ==
    /\ phase = "stopped"
    /\ phase' = "systems"
    /\ mActiveEntities' = mActiveEntities \cup Range(mEntityActivateQueue)
    /\ mEntityActivateQueue' = <<>>
    /\ UNCHANGED <<updq, entering, modes, mEntities, live, leftover, started,
                   mEntityDeactivateQueue, tokens>>

ServiceActivateQueue ==
    /\ phase = "stopped"
    /\ phase' = "systems"
    /\ started' = started \cup Range(mEntityActivateQueue)
    /\ mActiveEntities' = mActiveEntities \cup Range(mEntityActivateQueue)
    /\ mEntityActivateQueue' = <<>>
    /\ UNCHANGED <<updq, entering, modes, mEntities, live, leftover,
                   mEntityDeactivateQueue, tokens>>

\* Mutant: the token is not passed on.
MutEndUpdate ==
    /\ phase = "systems"
    /\ phase' = "idle"
    /\ UNCHANGED <<updq, entering, modes, lists, queues, tokens>>

EndUpdate ==
    /\ phase = "systems"
    /\ phase' = "idle"
    /\ renTok' = IF mSystems = "fixed" THEN renTok + 1 ELSE renTok
    /\ UNCHANGED <<updq, entering, modes, lists, queues, updTok, held>>

----------------------------------------------------------------------------
(* Callbacks of scripts and components, while systems are there            *)

MayCall == ~Idle /\ mSystems # "none"

\* SpawnDynamicEntity.  Scripts give each entity a name of its own.
Spawn(n) ==
    /\ MayCall
    /\ Len(mEntityActivateQueue) < MaxQueued
    /\ mEntities[n] = Null
    /\ LET e == CHOOSE x \in Unused : TRUE IN
        /\ mEntities' = [mEntities EXCEPT ![n] = e]
        /\ live' = live \cup {e}
        /\ mEntityActivateQueue' = Append(mEntityActivateQueue, e)
    /\ UNCHANGED <<updq, phase, entering, modes, leftover, mActiveEntities, started,
                   mEntityDeactivateQueue, tokens>>

Despawn(e) ==
    /\ MayCall
    /\ Len(mEntityDeactivateQueue) < MaxQueued
    /\ e \in Table
    /\ mEntityDeactivateQueue' = Append(mEntityDeactivateQueue, e)
    /\ UNCHANGED <<updq, phase, entering, modes, lists, mEntityActivateQueue, tokens>>

----------------------------------------------------------------------------
(* The renderer.  When two seconds pass without a token it draws without   *)
(* one, which changes nothing here.                                        *)

RendererTake ==
    /\ held = 0 /\ renTok > 0 /\ meSceneInstMode = "RUN" /\ mSystems = "fixed"
    /\ renTok' = renTok - 1 /\ held' = 1
    /\ UNCHANGED <<updq, phase, entering, modes, lists, queues, updTok>>

RendererReturn ==
    /\ held = 1
    /\ held' = 0 /\ updTok' = updTok + 1
    /\ UNCHANGED <<updq, phase, entering, modes, lists, queues, renTok>>

----------------------------------------------------------------------------
UpdateThread ==
    \/ TakeEdit \/ TakeRun \/ TakeStaleTopo
    \/ \E o \in {"object", "delete", "topo"} : EnterEditState(o)
    \/ ComposeEntities \/ StartEntities \/ Entered
    \/ (\E n \in Names : NewEntity(n)) \/ NoNameLeft \/ DeleteObject
    \/ BeginUpdate \/ BeginFreeUpdate \/ UpdateDeactivate \/ ServiceActivateQueue \/ EndUpdate

Next ==
    \/ UpdateThread
    \/ \E o \in Requests : Request(o)
    \/ TopoChanged
    \/ \E n \in Names : Spawn(n)
    \/ \E e \in Ents : Despawn(e)
    \/ RendererTake \/ RendererReturn

Spec == Init /\ [][Next]_vars

\* The update thread and the renderer keep running; callbacks return.
FairSpec == Spec /\ WF_vars(UpdateThread) /\ WF_vars(RendererTake) /\ WF_vars(RendererReturn)

----------------------------------------------------------------------------
TypeOK ==
    /\ updq \in Seq(Ops)
    /\ phase \in {"idle"} \cup EnterPhases \cup UpdatePhases
    /\ entering \in Requests \cup {"topo", "none"}
    /\ meSceneInstMode \in {"EDIT", "RUN"} /\ gbQRUNMODE \in BOOLEAN
    /\ mSystems \in {"none", "free", "fixed"} /\ mSceneObjects \subseteq Names
    /\ mEntities \in [Names -> Ents \cup {Null}]
    /\ live \subseteq Ents /\ leftover \subseteq Ents
    /\ Queued \subseteq Ents
    /\ updTok \in Nat /\ renTok \in Nat /\ held \in {0, 1}

\* What the update dereferences was not deleted: the table and the
\* deactivation queue at any time, the active and the started entities, and
\* the activation queue, which no mode change clears, whenever Update could
\* service it; but for those that topo_op deletes out of a running scene's
\* activation queue.
ListsLive ==
    /\ TypeOK
    /\ Table \cup Range(mEntityDeactivateQueue) \subseteq live
    /\ mActiveEntities \cup started \subseteq live \cup leftover
    /\ meSceneInstMode = "RUN" /\ phase \notin EnterPhases =>
            Range(mEntityActivateQueue) \subseteq live \cup leftover

\* Refuted: the topology signalled while a run begins, or in a running scene,
\* leaves deleted entities in the activation queue.
NoneLeftOver == leftover = {}

\* While the scene runs, an entity in the lists that Update walks has been
\* started, whatever its callbacks spawned and despawned on the way.
ActiveStarted == meSceneInstMode = "RUN" /\ Idle => mActiveEntities \subseteq started

\* An entity spawned in a running scene becomes active, at a fixed frame rate
\* or a free one, unless topo_op deletes it or the scene stops running.
SpawnActivated ==
    \A n \in Names :
        (meSceneInstMode = "RUN" /\ mEntities[n] \in Range(mEntityActivateQueue))
            ~> (meSceneInstMode = "RUN" => mEntities[n] \in mActiveEntities \cup {Null})

\* "create one token", says the constructor, and "steal all
\* RenderSyncToken's" the destructor: there is one at most.
OneToken ==
    updTok + renTok + held +
        (IF mSystems = "fixed" /\ phase \in UpdatePhases THEN 1 ELSE 0) <= 1
=============================================================================
