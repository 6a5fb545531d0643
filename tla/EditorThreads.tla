---------------------------- MODULE EditorThreads ----------------------------
(***************************************************************************)
(* The threads of the editor (ork.tool/src/ent) and who waits for whom:    *)
(* the main thread draws, pumps MainThreadOpQ and turns what the user does *)
(* into requests, syncs and picks; the update thread pumps UpdateSerialOpQ *)
(* and fills drawable buffers; the run loop serves the requests in mSerialQ*)
(* by operations on the update thread; the worker of gPickOPQ makes the    *)
(* update thread wait for the main thread.                                 *)
(*                                                                         *)
(* The queues are what Opq promises: first in, first out, one operation at *)
(* a time.  QueueSync and push_sync push the operation and then a barrier, *)
(* and wait for the barrier to be executed; what others push between the   *)
(* two might as well have come before both.  A clear of the drawable       *)
(* buffers is what MultiBuffer promises: it ends once the main thread has  *)
(* none in its hands, and leaves all of them to be written.                *)
(***************************************************************************)
EXTENDS Naturals, Sequences, Functions

CONSTANTS
    Buffers,   \* of gBuffers
    MaxEvents  \* bound: what the user does

ASSUME BuffersAssumption == Buffers \in Nat \ {0}
ASSUME MaxEventsAssumption == MaxEvents \in Nat

\* What the run loop serves between disable_op and enable_op: NewSceneReq;
\* changes of the scene's objects; RunLocalReq and StopLocalReq; GetSceneReq.
Bracketed == {"newScene", "objects", "runStop", "getScene"}
\* Asked: somebody waits for the Future of the request.
Requests == [op : Bracketed \cup {"load"}, asked : BOOLEAN]
Queued(r) == [op |-> r, asked |-> FALSE]
Asked(r) == [op |-> r, asked |-> TRUE]

UpdateOps == Bracketed \cup
    {"disable", "enable", "stop", "start", "preLoad", "postLoad", "topo",
     "edit", "newEntities", "pick", "onPick", "syncMain", "syncLoop", "syncPick"}
MainOps == {"viewOff", "viewOn", "load", "pick", "syncUpdate"}

VARIABLES
    mSerialQ, updQ, mainQ, \* requests; UpdateSerialOpQ; MainThreadOpQ
    upd, main, loop, pick, \* where each thread is
    todo,                  \* operations of the request in the run loop
    meStatus,              \* gUpdateStatus
    written,               \* buffers to be read
    mpScene,               \* whether there is a scene
    mpEditSceneInst,       \* whether there is an instance of one
    olds,                  \* per load between pre_load_op and post_load_op, whether
                           \* poldscene is a scene; each holds the GlobalLock once
    display,               \* mbSceneDisplayEnable
    dialog,                \* the dialog that is open: none, file or readOnly
    events,                \* what the user has done
    lostStart,             \* history: an EUPD_START was overwritten by EUPD_STOPPED
    forgotten              \* history: a load that failed put no scene for a scene

queues == <<mSerialQ, updQ, mainQ>>
threads == <<upd, main, loop, pick, todo>>
frames == <<meStatus, written, lostStart>>
scene == <<mpScene, mpEditSceneInst, olds, display, forgotten>>
user == <<dialog, events>>
vars == <<queues, threads, frames, scene, user>>

Drawing == main = "drawing"
Writable == Buffers - written - (IF Drawing THEN 1 ELSE 0)
Locked == olds # <<>>

\* A scene has been opened or not, and a load has been asked for, as it may be
\* on the command line before the main loop begins.
Init ==
    /\ mSerialQ = <<Queued("load")>> /\ updQ = <<>> /\ mainQ = <<>>
    /\ upd = "loop" /\ main = "idle" /\ loop = "idle" /\ pick = "idle"
    /\ todo = <<>>
    /\ meStatus = "RUNNING" /\ written = 0 /\ lostStart = FALSE
    /\ mpScene \in BOOLEAN /\ mpEditSceneInst = mpScene /\ display = mpScene
    /\ olds = <<>> /\ forgotten = FALSE
    /\ dialog = "none" /\ events = 0

----------------------------------------------------------------------------
(* The main thread: what the user does                                     *)

Event == main = "idle" /\ dialog = "none" /\ events < MaxEvents /\ events' = events + 1

Request(r) ==
    /\ Event
    /\ mSerialQ' = Append(mSerialQ, Queued(r))
    /\ UNCHANGED <<updQ, mainQ, threads, frames, scene, dialog>>

\* A key or a script: the main thread waits for what it asked for.
Ask(r) ==
    /\ Event
    /\ mSerialQ' = Append(mSerialQ, Asked(r))
    /\ main' = "asking"
    /\ UNCHANGED <<updQ, mainQ, upd, loop, pick, todo, frames, scene, dialog>>

\* The dialog stops updates; it pumps and draws as the main loop does.
OpenSceneFile ==
    /\ Event
    /\ dialog' = "file" /\ meStatus' = "STOP"
    /\ UNCHANGED <<queues, threads, written, lostStart, scene>>

Restart == meStatus' = "START" /\ lostStart' = (upd = "stopping")

\* With or without a file name.
SceneFileChosen ==
    /\ main = "idle" /\ dialog = "file"
    /\ dialog' = "none" /\ main' \in {"idle", "checking"}
    /\ Restart
    /\ UNCHANGED <<queues, upd, loop, pick, todo, written, scene, events>>

\* A file that cannot be written brings up another dialog.
FileChecked ==
    /\ main = "checking" /\ main' = "idle"
    /\ \/ mSerialQ' = Append(mSerialQ, Queued("load")) /\ UNCHANGED <<dialog, meStatus>>
       \/ dialog' = "readOnly" /\ meStatus' = "STOP" /\ UNCHANGED mSerialQ
    /\ UNCHANGED <<updQ, mainQ, upd, loop, pick, todo, written, lostStart, scene, events>>

ReadOnlyAnswered ==
    /\ main = "idle" /\ dialog = "readOnly"
    /\ dialog' = "none"
    /\ mSerialQ' \in {mSerialQ, Append(mSerialQ, Queued("load"))}
    /\ Restart
    /\ UNCHANGED <<updQ, mainQ, threads, written, scene, events>>

\* push_sync: ArchExport, a double click and the like, or NewEntities.
PushSync ==
    /\ Event
    /\ \E o \in {"edit", "newEntities"} : updQ' = updQ \o <<o, "syncMain">>
    /\ main' = "waiting"
    /\ UNCHANGED <<mSerialQ, mainQ, upd, loop, pick, todo, frames, scene, dialog>>

\* SigSceneTopoChanged: objects are grouped, a model is invalidated.
TopoChanged ==
    /\ Event
    /\ mpEditSceneInst
    /\ updQ' = Append(updQ, "topo")
    /\ UNCHANGED <<mSerialQ, mainQ, threads, frames, scene, dialog>>

StartResize ==
    /\ Event
    /\ main' = "resizing"
    /\ UNCHANGED <<queues, upd, loop, pick, todo, frames, scene, dialog>>

\* The lock is taken and released with nothing that waits in between.
Resize ==
    /\ main = "resizing" /\ ~Locked
    /\ main' = "idle"
    /\ UNCHANGED <<queues, upd, loop, pick, todo, frames, scene, user>>

OuterPickOp ==
    /\ Event
    /\ mpScene /\ display /\ pick = "idle"
    /\ pick' = "queued"
    /\ UNCHANGED <<queues, upd, main, loop, todo, frames, scene, dialog>>

----------------------------------------------------------------------------
(* The main thread: drawing and pumping                                    *)

\* Without a buffer to be read there is nothing to draw.
DoDraw ==
    /\ main = "idle" /\ written > 0
    /\ main' = "drawing" /\ written' = written - 1
    /\ UNCHANGED <<queues, upd, loop, pick, todo, meStatus, lostStart, scene, user>>

DrawDone ==
    /\ main = "drawing"
    /\ main' = "idle"
    /\ UNCHANGED <<queues, upd, loop, pick, todo, frames, scene, user>>

Pump(o) == main = "idle" /\ mainQ # <<>> /\ Head(mainQ) = o

PumpView ==
    /\ Pump("viewOff") \/ Pump("viewOn")
    /\ display' = (Head(mainQ) = "viewOn")
    /\ mainQ' = Tail(mainQ)
    /\ UNCHANGED <<mSerialQ, updQ, threads, frames, mpScene, mpEditSceneInst, olds,
                   forgotten, user>>

PumpLoad ==
    /\ Pump("load")
    /\ mainQ' = Tail(mainQ)
    /\ updQ' = Append(updQ, "postLoad")
    /\ UNCHANGED <<mSerialQ, threads, frames, scene, user>>

\* op_pick until GetPixel has drawn, for which it takes the GlobalLock.
PumpPick ==
    /\ Pump("pick")
    /\ mainQ' = Tail(mainQ)
    /\ main' = IF mpScene /\ display THEN "picking" ELSE "picked"
    /\ UNCHANGED <<mSerialQ, updQ, upd, loop, pick, todo, frames, scene, user>>

PickDraw ==
    /\ main = "picking" /\ ~Locked
    /\ main' = "picked"
    /\ UNCHANGED <<queues, upd, loop, pick, todo, frames, scene, user>>

\* Mutant: updates start again only if there is a callback.
MutPicked ==
    /\ main = "picked"
    /\ main' = "idle"
    /\ updQ' \in {updQ, Append(updQ, "onPick")}
    /\ UNCHANGED <<mSerialQ, mainQ, upd, loop, pick, todo, frames, scene, user>>

\* The callback, if there is one, starts updates again; a double click has none.
Picked ==
    /\ main = "picked"
    /\ main' = "idle"
    /\ \/ updQ' = Append(updQ, "onPick") /\ UNCHANGED <<meStatus, lostStart>>
       \/ meStatus' = "START" /\ lostStart' = FALSE /\ UNCHANGED updQ
    /\ UNCHANGED <<mSerialQ, mainQ, upd, loop, pick, todo, written, scene, user>>

PumpSync ==
    /\ Pump("syncUpdate")
    /\ mainQ' = Tail(mainQ)
    /\ upd' = IF upd = "syncing" THEN "synced" ELSE "loop"
    /\ UNCHANGED <<mSerialQ, updQ, main, loop, pick, todo, frames, scene, user>>

----------------------------------------------------------------------------
(* The update thread: operations                                           *)

Execute(o) == upd = "loop" /\ updQ # <<>> /\ Head(updQ) = o

ClearAndSyncReaders == ~Drawing /\ written' = 0

\* SetState, DisableUpdates, DisableViews.
Disable ==
    /\ Execute("disable") /\ ClearAndSyncReaders
    /\ meStatus' = "STOP"
    /\ updQ' = Append(Tail(updQ), "stop")
    /\ mainQ' = Append(mainQ, "viewOff")
    /\ UNCHANGED <<mSerialQ, threads, lostStart, scene, user>>

\* EnableViews, EnableUpdates, SetState.
Enable ==
    /\ Execute("enable") /\ ClearAndSyncReaders
    /\ meStatus' = "START" /\ lostStart' = FALSE
    /\ updQ' = Append(Tail(updQ), "start")
    /\ mainQ' = Append(mainQ, "viewOn")
    /\ UNCHANGED <<mSerialQ, threads, scene, user>>

\* ESIEV_DISABLE_UPDATE, ESIEV_ENABLE_UPDATE, and a pick's on_pick.
SetState ==
    /\ \/ Execute("stop") /\ meStatus' = "STOP" /\ UNCHANGED lostStart
       \/ (Execute("start") \/ Execute("onPick")) /\ meStatus' = "START" /\ lostStart' = FALSE
    /\ updQ' = Tail(updQ)
    /\ UNCHANGED <<mSerialQ, mainQ, threads, written, scene, user>>

\* SigSceneTopoChanged reaches the instance, if there is one.
SignalTopo(q) == IF mpEditSceneInst' THEN Append(q, "topo") ELSE q

\* The operation of a request.  GetSceneReq only reads; the others clear the
\* buffers; RunLocalReq and StopLocalReq disable and enable the views again and
\* signal nothing.
Serve(r) ==
    /\ Execute(r)
    /\ IF r = "getScene" THEN UNCHANGED written ELSE ClearAndSyncReaders
    /\ mpScene' = (mpScene \/ r = "newScene")
    /\ mpEditSceneInst' = IF r \in {"newScene", "runStop"} THEN mpScene' ELSE mpEditSceneInst
    /\ updQ' = IF r \in {"newScene", "objects"} THEN SignalTopo(Tail(updQ)) ELSE Tail(updQ)
    /\ mainQ' = IF r = "runStop" THEN mainQ \o <<"viewOff", "viewOn">> ELSE mainQ
    /\ UNCHANGED <<mSerialQ, threads, meStatus, lostStart,
                   olds, display, forgotten, user>>

\* topo_op, which enters edit mode again.
Topo ==
    /\ Execute("topo") /\ ClearAndSyncReaders
    /\ updQ' = Tail(updQ)
    /\ UNCHANGED <<mSerialQ, mainQ, threads, meStatus, lostStart, scene, user>>

\* The lambda of a push_sync, which changes what it is about on this thread.
\* (ArchExport and the other operations on archetypes open a file dialog here;
\* that is not followed.)
Edit ==
    /\ Execute("edit")
    /\ updQ' = Tail(updQ)
    /\ UNCHANGED <<mSerialQ, mainQ, threads, frames, scene, user>>

\* EditorNewEntities.  Bound: the first entity, for which nobody answers.
NewEntities ==
    /\ Execute("newEntities")
    /\ updQ' = Tail(updQ)
    /\ IF mpScene
       THEN mSerialQ' = Append(mSerialQ, Asked("objects")) /\ upd' = "asking"
       ELSE UNCHANGED <<mSerialQ, upd>>
    /\ UNCHANGED <<mainQ, main, loop, pick, todo, frames, scene, user>>

PreLoad ==
    /\ Execute("preLoad") /\ ClearAndSyncReaders
    /\ olds' = Append(olds, mpScene) /\ mpScene' = FALSE
    /\ updQ' = Tail(updQ)
    /\ mainQ' = mainQ \o <<"viewOff", "load">>
    /\ UNCHANGED <<mSerialQ, threads, meStatus, lostStart, mpEditSceneInst, display,
                   forgotten, user>>

Loaded == mpScene' = TRUE /\ mpEditSceneInst' = TRUE /\ UNCHANGED forgotten

\* What was deserialized is no scene; poldscene is deleted all the same.
LoadedOther == mpEditSceneInst' = mpScene /\ UNCHANGED <<mpScene, forgotten>>

LoadFailed ==
    /\ mpScene' = Head(olds)
    /\ forgotten' = (forgotten \/ (mpScene /\ ~Head(olds)))
    /\ UNCHANGED mpEditSceneInst


PostLoad ==
    /\ Execute("postLoad") /\ ClearAndSyncReaders
    /\ Loaded \/ LoadedOther \/ LoadFailed
    /\ olds' = Tail(olds)
    /\ updQ' = SignalTopo(Tail(updQ))
    /\ mainQ' = Append(mainQ, "viewOn")
    /\ UNCHANGED <<mSerialQ, threads, meStatus, lostStart, display, user>>

\* A pick waits for the main thread twice: for what it has to do already, and
\* for op_pick.
Pick ==
    /\ \/ Execute("pick") /\ upd' = "syncing"
          /\ updQ' = Tail(updQ) /\ mainQ' = Append(mainQ, "syncUpdate")
       \/ upd = "synced" /\ upd' = "waiting"
          /\ UNCHANGED updQ /\ mainQ' = mainQ \o <<"pick", "syncUpdate">>
    /\ UNCHANGED <<mSerialQ, main, loop, pick, todo, frames, scene, user>>

Barrier ==
    /\ \/ Execute("syncMain") /\ main' = "idle" /\ UNCHANGED <<loop, pick, todo>>
       \/ /\ Execute("syncLoop")
          /\ todo' = Tail(todo)
          /\ loop' = IF todo' = <<>> THEN "idle" ELSE "pushing"
          /\ UNCHANGED <<main, pick>>
       \/ /\ Execute("syncPick")
          /\ pick' = IF pick = "syncing" THEN "synced" ELSE "idle"
          /\ UNCHANGED <<main, loop, todo>>
    /\ updQ' = Tail(updQ)
    /\ UNCHANGED <<mSerialQ, mainQ, upd, frames, scene, user>>

----------------------------------------------------------------------------
(* The update thread: one turn of its loop, when Process has found nothing *)

Turn(s) == upd = "loop" /\ updQ = <<>> /\ meStatus = s

StartTurn ==
    /\ \/ Turn("START") /\ upd' = "starting"
       \/ Turn("STOP") /\ upd' = "stopping"
       \/ Turn("RUNNING") /\ upd' = "writing"
    /\ UNCHANGED <<queues, main, loop, pick, todo, frames, scene, user>>

\* NotInDrawSync, then the state is set whatever it has become.
EndTurn ==
    /\ upd \in {"starting", "stopping"} /\ ~Drawing
    /\ meStatus' = IF upd = "starting" THEN "RUNNING" ELSE "STOPPED"
    /\ upd' = "loop"
    /\ UNCHANGED <<queues, main, loop, pick, todo, written, lostStart, scene, user>>

\* LockWriteBuffer waits for a buffer; it is filled and given to the readers.
WriteBuffer ==
    /\ upd = "writing" /\ Writable > 0
    /\ written' = written + 1
    /\ upd' = "loop"
    /\ UNCHANGED <<queues, main, loop, pick, todo, meStatus, lostStart, scene, user>>

----------------------------------------------------------------------------
(* The run loop and the worker of gPickOPQ                                 *)

TakeRequest ==
    /\ loop = "idle" /\ mSerialQ # <<>>
    /\ mSerialQ' = Tail(mSerialQ)
    /\ LET r == Head(mSerialQ) IN
        IF r.op = "load"
        THEN updQ' = Append(updQ, "preLoad") /\ UNCHANGED <<loop, todo>>
        ELSE /\ todo' = IF r.asked THEN <<"disable", r.op, "enable", "answer">>
                        ELSE <<"disable", r.op, "enable">>
             /\ loop' = "pushing"
             /\ UNCHANGED updQ
    /\ UNCHANGED <<mainQ, upd, main, pick, frames, scene, user>>

\* Mutant: nobody looks whether there is a scene.
MutPushOp ==
    /\ loop = "pushing" /\ Head(todo) # "answer"
    /\ updQ' = updQ \o <<Head(todo), "syncLoop">> /\ loop' = "waiting"
    /\ UNCHANGED <<todo, mSerialQ, mainQ, upd, main, pick, frames, scene, user>>

\* Without a scene there is nothing to add to or to delete from.  (A deletion
\* is not waited for, but enable_op, right behind it, is.)
PushOp ==
    /\ loop = "pushing" /\ Head(todo) # "answer"
    /\ IF Head(todo) = "objects" /\ ~mpScene
       THEN todo' = Tail(todo) /\ UNCHANGED <<updQ, loop>>
       ELSE /\ updQ' = updQ \o <<Head(todo), "syncLoop">>
            /\ loop' = "waiting" /\ UNCHANGED todo
    /\ UNCHANGED <<mSerialQ, mainQ, upd, main, pick, frames, scene, user>>

\* SetEntity, SetScene: whoever asked has the answer.
Answer ==
    /\ loop = "pushing" /\ Head(todo) = "answer"
    /\ loop' = "idle" /\ todo' = <<>>
    /\ main' = IF main = "asking" THEN "idle" ELSE main
    /\ upd' = IF upd = "asking" THEN "loop" ELSE upd
    /\ UNCHANGED <<queues, pick, frames, scene, user>>

\* outer_op: stop, sync, the operation and its barrier.
OuterOp ==
    /\ \/ pick = "queued" /\ pick' = "stopped"
          /\ meStatus' = "STOP" /\ UNCHANGED updQ
       \/ pick = "stopped" /\ pick' = "syncing"
          /\ updQ' = Append(updQ, "syncPick") /\ UNCHANGED meStatus
       \/ pick = "synced" /\ pick' = "waiting"
          /\ updQ' = updQ \o <<"pick", "syncPick">> /\ UNCHANGED meStatus
    /\ UNCHANGED <<mSerialQ, mainQ, upd, main, loop, todo, written, lostStart, scene, user>>

----------------------------------------------------------------------------
User ==
    \/ \E r \in {"newScene", "objects", "runStop", "load"} : Request(r)
    \/ \E r \in {"newScene", "objects", "getScene"} : Ask(r)
    \/ OpenSceneFile \/ SceneFileChosen \/ ReadOnlyAnswered
    \/ PushSync \/ TopoChanged \/ StartResize \/ OuterPickOp

MainPump == PumpView \/ PumpLoad \/ PumpPick \/ PumpSync
MainThread == FileChecked \/ Resize \/ DrawDone \/ PickDraw \/ Picked

UpdateThread ==
    \/ Disable \/ Enable \/ SetState \/ (\E r \in Bracketed : Serve(r)) \/ Topo
    \/ Edit \/ NewEntities \/ PreLoad \/ PostLoad \/ Pick \/ Barrier
    \/ StartTurn \/ EndTurn \/ WriteBuffer

RunLoop == TakeRequest \/ PushOp \/ Answer

Next == User \/ MainPump \/ DoDraw \/ MainThread \/ UpdateThread \/ RunLoop \/ OuterOp

Spec == Init /\ [][Next]_vars

\* The threads run; the main loop serves its timer and its paint events
\* however often the other kind comes.  The user need do nothing.
FairSpec ==
    /\ Spec
    /\ SF_vars(MainPump) /\ SF_vars(DoDraw) /\ WF_vars(MainThread)
    /\ WF_vars(UpdateThread) /\ WF_vars(RunLoop) /\ WF_vars(OuterOp)

----------------------------------------------------------------------------
TypeOK ==
    /\ mSerialQ \in Seq(Requests) /\ updQ \in Seq(UpdateOps) /\ mainQ \in Seq(MainOps)
    /\ upd \in {"loop", "starting", "stopping", "writing", "syncing", "synced", "waiting",
               "asking"}
    /\ main \in {"idle", "drawing", "waiting", "asking", "checking", "resizing", "picking",
                "picked"}
    /\ loop \in {"idle", "pushing", "waiting"}
    /\ pick \in {"idle", "queued", "stopped", "syncing", "synced", "waiting"}
    /\ todo \in Seq(Bracketed \cup {"disable", "enable", "answer"})
    /\ meStatus \in {"START", "RUNNING", "STOP", "STOPPED"}
    /\ written \in 0 .. Buffers /\ Writable >= 0
    /\ olds \in Seq(BOOLEAN)
    /\ \A b \in {mpScene, mpEditSceneInst, display, lostStart, forgotten} : b \in BOOLEAN
    /\ dialog \in {"none", "file", "readOnly"}
    /\ events \in 0 .. MaxEvents

\* The update thread waits for the main thread in the middle of a pick.
InPick == upd \in {"syncing", "synced", "waiting"}

\* The main thread waits for what only the update thread gets on with.
MainWaits == main = "waiting" \/ (main = "asking" /\ todo # <<"answer">>)

\* The ways the threads wait for one another for ever: a sync or a request by
\* the main thread, for an update that waits for a buffer only the main thread
\* can give back, or for a pick that waits for the main thread; the GlobalLock,
\* wanted by the main thread while a load holds it that only the main thread can
\* get on with, or that waits behind an update or a pick for the main thread; a
\* request by the update thread, for which the run loop waits for the update
\* thread.
WaitsDuringWrite == MainWaits /\ upd = "writing" /\ Writable = 0
WaitsDuringPick == MainWaits /\ InPick
LockDuringLoad ==
    /\ main \in {"resizing", "picking"} /\ Locked
    /\ InPick \/ (upd = "writing" /\ Writable = 0) \/ "load" \in Range(mainQ)
UpdateAsks == upd = "asking"
Cycle == WaitsDuringWrite \/ WaitsDuringPick \/ LockDuringLoad \/ UpdateAsks

Busy(t) ==
    CASE t = "main" -> main # "idle"
      [] t = "loop" -> loop # "idle" \/ mSerialQ # <<>>
      [] t = "pick" -> pick # "idle"


\* Operations that use mpScene find one, although the test for it was made on
\* another thread and loads take it away: unless a load failed that had begun
\* while another was under way, and which restores the null it found.
SceneThere ==
    /\ TypeOK
    /\ Execute("objects") => mpScene \/ forgotten

\* Whoever stops the updates, they run again: unless a thread is stuck, a
\* dialog is open, or the START that ends it came while the update thread was
\* between reading STOP and writing STOPPED.
UpdatesResume ==
    meStatus # "RUNNING" ~> (meStatus = "RUNNING" \/ dialog # "none" \/ lostStart \/ Cycle)

\* Refuted: "prevent deadlock", as the assertions of the editor have it.
MainReturns == main # "idle" ~> main = "idle"
=============================================================================
