---------------------------- MODULE StreamSession ----------------------------
EXTENDS Integers

(***************************************************************************)
(* The life of streaming sessions in one process.  A session is a Game     *)
(* activity with its NvConnection.  Four kinds of actor share state:       *)
(*   - Android's main thread runs the activity's lifecycle and surface     *)
(*     callbacks and the Runnables posted by runOnUiThread (Game.java);    *)
(*   - one start thread per session, made by NvConnection.start();         *)
(*   - one stop thread per session, made by Game.stopConnection();         *)
(*   - the callback threads of moonlight-common-c, the native library,     *)
(*     whose source is a submodule and is modelled as external.            *)
(* What they share is static: the semaphore connectionAllowed, the monitor *)
(* of MoonBridge.class, the bridge pointers of MoonBridge and the native   *)
(* library, which can hold one connection.                                 *)
(***************************************************************************)
CONSTANTS Sessions,   \* the Game activities that can be created
          None        \* no session

ASSUME NoneAssumption == None \notin Sessions

VARIABLES
    activity,             \* Android's view of the Game activity
    surface,              \* does the SurfaceView have a surface now
    surfaceCreated,       \* Game.surfaceCreated
    attemptedConnection,  \* Game.attemptedConnection
    connecting,           \* Game.connecting
    connected,            \* Game.connected
    failureShown,         \* Game.displayedFailureDialog
    posts,                \* the listener Runnables posted and not yet run
    startPc,              \* the start thread of each session
    stopPc,               \* the stop thread of each session
    permits,              \* NvConnection.connectionAllowed
    monitor,              \* the monitor of MoonBridge.class
    bridge,               \* whose renderers and listener MoonBridge points to
    native,               \* whose connection moonlight-common-c holds
    interrupted,          \* the library was told to interrupt its connection
    termination           \* the library's termination callback, per connection

uiVars     == <<activity, surface, surfaceCreated, attemptedConnection>>
gameVars   == <<connecting, connected, failureShown>>
nativeVars == <<bridge, native, interrupted>>
vars == <<uiVars, gameVars, posts, startPc, stopPc, permits, monitor,
          nativeVars, termination>>

\* How a start thread ends: "rejected" by the host before it asked for the
\* permit, "failed" when LiStartConnection returned an error, "up" when it
\* returned 0.  "started": connectionStarted was called back and
\* LiStartConnection has not returned yet.
StartPcs == {"none", "launch", "acquire", "monitor", "starting", "started",
             "up", "failed", "rejected"}
StopPcs  == {"none", "interrupt", "monitor", "stopping", "release", "done"}

TypeOK ==
    /\ activity \in [Sessions -> {"none", "active", "finishing", "stopped", "destroyed"}]
    /\ surface \in [Sessions -> BOOLEAN]
    /\ surfaceCreated \in [Sessions -> BOOLEAN]
    /\ attemptedConnection \in [Sessions -> BOOLEAN]
    /\ connecting \in [Sessions -> BOOLEAN]
    /\ connected \in [Sessions -> BOOLEAN]
    /\ failureShown \in [Sessions -> BOOLEAN]
    /\ posts \in [Sessions -> SUBSET {"started", "failed", "terminated"}]
    /\ startPc \in [Sessions -> StartPcs]
    /\ stopPc \in [Sessions -> StopPcs]
    /\ permits \in Nat
    /\ monitor \in {"free", "start", "stop"}
    /\ bridge \in Sessions \cup {None}
    /\ native \in Sessions \cup {None}
    /\ interrupted \in BOOLEAN
    /\ termination \in [Sessions -> {"none", "checked", "called"}]

Init ==
    /\ activity = [s \in Sessions |-> "none"]
    /\ surface = [s \in Sessions |-> FALSE]
    /\ surfaceCreated = [s \in Sessions |-> FALSE]
    /\ attemptedConnection = [s \in Sessions |-> FALSE]
    /\ connecting = [s \in Sessions |-> FALSE]
    /\ connected = [s \in Sessions |-> FALSE]
    /\ failureShown = [s \in Sessions |-> FALSE]
    /\ posts = [s \in Sessions |-> {}]
    /\ startPc = [s \in Sessions |-> "none"]
    /\ stopPc = [s \in Sessions |-> "none"]
    /\ permits = 1
    /\ monitor = "free"
    /\ bridge = None
    /\ native = None
    /\ interrupted = FALSE
    /\ termination = [s \in Sessions |-> "none"]

-----------------------------------------------------------------------------
(***************************************************************************)
(* Game: the activity's lifecycle and surface callbacks, on the main       *)
(* thread.  Game is singleTask: a new one is not created before the last   *)
(* one is finishing.                                                       *)
(***************************************************************************)

\* stopConnection() as it would be if it left its flags set.
StopConnectionKeepsFlags(s) ==
    IF connecting[s] \/ connected[s]
    THEN /\ stopPc' = [stopPc EXCEPT ![s] = "interrupt"]
         /\ UNCHANGED <<connecting, connected>>
    ELSE UNCHANGED <<connecting, connected, stopPc>>

\* stopConnection(): nothing unless connecting or connected; otherwise both
\* flags are cleared and a thread is made that runs conn.stop().  Game.conn is
\* static, but stop() touches static state only.
StopConnection(s) ==
    IF connecting[s] \/ connected[s]
    THEN /\ connecting' = [connecting EXCEPT ![s] = FALSE]
         /\ connected' = [connected EXCEPT ![s] = FALSE]
         /\ stopPc' = [stopPc EXCEPT ![s] = "interrupt"]
    ELSE UNCHANGED <<connecting, connected, stopPc>>

\* onCreate() up to addCallback(): the NvConnection exists, nothing is started.
Create(s) ==
    /\ activity[s] = "none"
    /\ \A t \in Sessions : activity[t] # "active"
    /\ activity' = [activity EXCEPT ![s] = "active"]
    /\ UNCHANGED <<surface, surfaceCreated, attemptedConnection, gameVars, posts,
                   startPc, stopPc, permits, monitor, nativeVars, termination>>

\* finish(), by the user, a dialog or the Quit key.
Finish(s) ==
    /\ activity[s] = "active"
    /\ activity' = [activity EXCEPT ![s] = "finishing"]
    /\ UNCHANGED <<surface, surfaceCreated, attemptedConnection, gameVars, posts,
                   startPc, stopPc, permits, monitor, nativeVars, termination>>

\* onStop() stops the connection and calls finish().
OnStop(s) ==
    /\ activity[s] \in {"active", "finishing"}
    /\ activity' = [activity EXCEPT ![s] = "stopped"]
    /\ failureShown' = [failureShown EXCEPT ![s] = TRUE]
    /\ StopConnection(s)
    /\ UNCHANGED <<surface, surfaceCreated, attemptedConnection, posts, startPc,
                   permits, monitor, nativeVars, termination>>

OnDestroy(s) ==
    /\ activity[s] = "stopped"
    /\ activity' = [activity EXCEPT ![s] = "destroyed"]
    /\ surface' = [surface EXCEPT ![s] = FALSE]
    /\ surfaceCreated' = [surfaceCreated EXCEPT ![s] = FALSE]
    /\ failureShown' = [failureShown EXCEPT ![s] = TRUE]
    /\ StopConnection(s)
    /\ UNCHANGED <<attemptedConnection, posts, startPc, permits, monitor,
                   nativeVars, termination>>

SurfaceCreated(s) ==
    /\ activity[s] \in {"active", "finishing"}
    /\ ~surface[s]
    /\ surface' = [surface EXCEPT ![s] = TRUE]
    /\ surfaceCreated' = [surfaceCreated EXCEPT ![s] = TRUE]
    /\ UNCHANGED <<activity, attemptedConnection, gameVars, posts, startPc,
                   stopPc, permits, monitor, nativeVars, termination>>

\* surfaceChanged() as it would be if it announced that it is connecting.
SurfaceChangedMarksConnecting(s) ==
    /\ activity[s] \in {"active", "finishing"}
    /\ surface[s] /\ surfaceCreated[s]
    /\ ~attemptedConnection[s]
    /\ attemptedConnection' = [attemptedConnection EXCEPT ![s] = TRUE]
    /\ connecting' = [connecting EXCEPT ![s] = TRUE]
    /\ startPc' = [startPc EXCEPT ![s] = "launch"]
    /\ UNCHANGED <<activity, surface, surfaceCreated, connected, failureShown,
                   posts, stopPc, permits, monitor, nativeVars, termination>>

\* surfaceChanged(): the first one makes the start thread.  connecting is not
\* set here, nor anywhere else.
SurfaceChanged(s) ==
    /\ activity[s] \in {"active", "finishing"}
    /\ surface[s] /\ surfaceCreated[s]
    /\ ~attemptedConnection[s]
    /\ attemptedConnection' = [attemptedConnection EXCEPT ![s] = TRUE]
    /\ startPc' = [startPc EXCEPT ![s] = "launch"]
    /\ UNCHANGED <<activity, surface, surfaceCreated, gameVars, posts, stopPc,
                   permits, monitor, nativeVars, termination>>

\* surfaceDestroyed(): prepareForStop() belongs to the renderer's module.
SurfaceDestroyed(s) ==
    /\ activity[s] \in {"active", "finishing", "stopped"}
    /\ surface[s] /\ surfaceCreated[s]
    /\ surface' = [surface EXCEPT ![s] = FALSE]
    /\ IF attemptedConnection[s] /\ connected[s]
       THEN StopConnection(s)
       ELSE UNCHANGED <<connecting, connected, stopPc>>
    /\ UNCHANGED <<activity, surfaceCreated, attemptedConnection, failureShown,
                   posts, startPc, permits, monitor, nativeVars, termination>>

-----------------------------------------------------------------------------
(***************************************************************************)
(* Game as NvConnectionListener: the Runnables it posts, as the main       *)
(* thread runs them.  The looper is first in, first out, so "terminated"   *)
(* waits for a "started" of the same session.  They run whatever the       *)
(* activity's state is.                                                    *)
(***************************************************************************)
UiConnectionStarted(s) ==
    /\ "started" \in posts[s]
    /\ posts' = [posts EXCEPT ![s] = @ \ {"started"}]
    /\ connected' = [connected EXCEPT ![s] = TRUE]
    /\ connecting' = [connecting EXCEPT ![s] = FALSE]
    /\ UNCHANGED <<uiVars, failureShown, startPc, stopPc, permits, monitor,
                   nativeVars, termination>>

\* The dialog it shows leads to Finish.
UiStageFailed(s) ==
    /\ "failed" \in posts[s]
    /\ posts' = [posts EXCEPT ![s] = @ \ {"failed"}]
    /\ failureShown' = [failureShown EXCEPT ![s] = TRUE]
    /\ UNCHANGED <<uiVars, connecting, connected, startPc, stopPc, permits,
                   monitor, nativeVars, termination>>

\* Unless a failure was shown already (onStop counts as one), the connection is
\* stopped; after a graceful end finish() follows at once, otherwise a dialog.
UiConnectionTerminated(s) ==
    /\ "terminated" \in posts[s] /\ "started" \notin posts[s]
    /\ posts' = [posts EXCEPT ![s] = @ \ {"terminated"}]
    /\ IF failureShown[s]
       THEN UNCHANGED <<connecting, connected, stopPc, failureShown, activity>>
       ELSE /\ failureShown' = [failureShown EXCEPT ![s] = TRUE]
            /\ StopConnection(s)
            /\ activity' \in { activity,
                 [activity EXCEPT ![s] = IF @ = "active" THEN "finishing" ELSE @] }
    /\ UNCHANGED <<surface, surfaceCreated, attemptedConnection, startPc, permits,
                   monitor, nativeVars, termination>>

-----------------------------------------------------------------------------
(***************************************************************************)
(* NvConnection.start(): the start thread.                                 *)
(***************************************************************************)

\* startApp() returned true.
LaunchSucceeds(s) ==
    /\ startPc[s] = "launch"
    /\ startPc' = [startPc EXCEPT ![s] = "acquire"]
    /\ UNCHANGED <<uiVars, gameVars, posts, stopPc, permits, monitor, nativeVars,
                   termination>>

\* startApp() returned false or threw: stageFailed() tests the ports and posts.
LaunchFails(s) ==
    /\ startPc[s] = "launch"
    /\ startPc' = [startPc EXCEPT ![s] = "rejected"]
    /\ posts' = [posts EXCEPT ![s] = @ \cup {"failed"}]
    /\ UNCHANGED <<uiVars, gameVars, stopPc, permits, monitor, nativeVars,
                   termination>>

\* connectionAllowed.acquire() as it would be if it did not wait.
AcquireWithoutWaiting(s) ==
    /\ startPc[s] = "acquire"
    /\ permits' = permits - 1
    /\ startPc' = [startPc EXCEPT ![s] = "monitor"]
    /\ UNCHANGED <<uiVars, gameVars, posts, stopPc, monitor, nativeVars, termination>>

\* connectionAllowed.acquire().  No one interrupts a start thread.
AcquirePermit(s) ==
    /\ startPc[s] = "acquire"
    /\ permits > 0
    /\ permits' = permits - 1
    /\ startPc' = [startPc EXCEPT ![s] = "monitor"]
    /\ UNCHANGED <<uiVars, gameVars, posts, stopPc, monitor, nativeVars, termination>>

\* start() as it would be if the bridge were set up for the first session only.
BeginStartKeepsBridge(s) ==
    /\ startPc[s] = "monitor"
    /\ monitor = "free"
    /\ monitor' = "start"
    /\ startPc' = [startPc EXCEPT ![s] = "starting"]
    /\ bridge' = IF bridge = None THEN s ELSE bridge
    /\ native' = s
    /\ interrupted' = FALSE
    /\ UNCHANGED <<uiVars, gameVars, posts, stopPc, permits, termination>>

\* Enter the monitor, setupBridge(), call LiStartConnection(), which clears an
\* interruption left from an earlier connection.
BeginStart(s) ==
    /\ startPc[s] = "monitor"
    /\ monitor = "free"
    /\ monitor' = "start"
    /\ startPc' = [startPc EXCEPT ![s] = "starting"]
    /\ bridge' = s
    /\ native' = s
    /\ interrupted' = FALSE
    /\ UNCHANGED <<uiVars, gameVars, posts, stopPc, permits, termination>>

\* The library calls back connectionStarted(), on this thread, as its last
\* stage: bridgeClConnectionStarted() hands it to the listener of the bridge.
NativeStarted(s) ==
    /\ startPc[s] = "starting"
    /\ ~interrupted
    /\ bridge # None
    /\ startPc' = [startPc EXCEPT ![s] = "started"]
    /\ posts' = [posts EXCEPT ![bridge] = @ \cup {"started"}]
    /\ UNCHANGED <<uiVars, gameVars, stopPc, permits, monitor, nativeVars,
                   termination>>

\* LiStartConnection() returned 0: leave the monitor and keep the permit.
StartReturns(s) ==
    /\ startPc[s] = "started"
    /\ startPc' = [startPc EXCEPT ![s] = "up"]
    /\ monitor' = "free"
    /\ UNCHANGED <<uiVars, gameVars, posts, stopPc, permits, nativeVars, termination>>

\* A failed start as it would be if the permit were kept.
StartFailsKeepsPermit(s) ==
    /\ startPc[s] = "starting"
    /\ startPc' = [startPc EXCEPT ![s] = "failed"]
    /\ \/ posts' = [posts EXCEPT ![bridge] = @ \cup {"failed"}]
       \/ UNCHANGED posts
    /\ native' = None
    /\ monitor' = "free"
    /\ UNCHANGED <<uiVars, gameVars, stopPc, permits, bridge, interrupted, termination>>

\* LiStartConnection() failed, with or without a stageFailed() callback, and
\* returned an error: the permit is released and the bridge stays as it was.
StartFails(s) ==
    /\ startPc[s] = "starting"
    /\ startPc' = [startPc EXCEPT ![s] = "failed"]
    /\ \/ posts' = [posts EXCEPT ![bridge] = @ \cup {"failed"}]
       \/ UNCHANGED posts
    /\ native' = None
    /\ permits' = permits + 1
    /\ monitor' = "free"
    /\ UNCHANGED <<uiVars, gameVars, stopPc, bridge, interrupted, termination>>

-----------------------------------------------------------------------------
(***************************************************************************)
(* The termination callback.  The library calls it at most once for a      *)
(* connection, on a thread that LiStopConnection does not wait for.        *)
(* bridgeClConnectionTerminated() reads the static listener twice: to test *)
(* it, and to call it.                                                     *)
(***************************************************************************)
TerminationChecked(s) ==
    /\ native = s
    /\ startPc[s] \in {"started", "up"}
    /\ stopPc[s] \notin {"release", "done"}
    /\ termination[s] = "none"
    /\ bridge # None
    /\ termination' = [termination EXCEPT ![s] = "checked"]
    /\ UNCHANGED <<uiVars, gameVars, posts, startPc, stopPc, permits, monitor,
                   nativeVars>>

\* The second read may find another session's listener.  If it finds null, the
\* NullPointerException ends the process, and the behaviour with it.
TerminationCalled(s) ==
    /\ termination[s] = "checked"
    /\ bridge # None
    /\ termination' = [termination EXCEPT ![s] = "called"]
    /\ posts' = [posts EXCEPT ![bridge] = @ \cup {"terminated"}]
    /\ UNCHANGED <<uiVars, gameVars, startPc, stopPc, permits, monitor, nativeVars>>

-----------------------------------------------------------------------------
(***************************************************************************)
(* NvConnection.stop(): the stop thread.                                   *)
(***************************************************************************)

\* interruptConnection(), outside the monitor.
InterruptConnection(s) ==
    /\ stopPc[s] = "interrupt"
    /\ interrupted' = TRUE
    /\ stopPc' = [stopPc EXCEPT ![s] = "monitor"]
    /\ UNCHANGED <<uiVars, gameVars, posts, startPc, permits, monitor, bridge,
                   native, termination>>

\* Enter the monitor and call LiStopConnection().
BeginStop(s) ==
    /\ stopPc[s] = "monitor"
    /\ monitor = "free"
    /\ monitor' = "stop"
    /\ stopPc' = [stopPc EXCEPT ![s] = "stopping"]
    /\ UNCHANGED <<uiVars, gameVars, posts, startPc, permits, nativeVars, termination>>

\* LiStopConnection() returned: cleanupBridge() and leave the monitor.
StopReturns(s) ==
    /\ stopPc[s] = "stopping"
    /\ native' = None
    /\ bridge' = None
    /\ monitor' = "free"
    /\ stopPc' = [stopPc EXCEPT ![s] = "release"]
    /\ UNCHANGED <<uiVars, gameVars, posts, startPc, permits, interrupted, termination>>

ReleasePermit(s) ==
    /\ stopPc[s] = "release"
    /\ permits' = permits + 1
    /\ stopPc' = [stopPc EXCEPT ![s] = "done"]
    /\ UNCHANGED <<uiVars, gameVars, posts, startPc, monitor, nativeVars, termination>>

-----------------------------------------------------------------------------
Lifecycle(s) ==
    \/ Create(s) \/ Finish(s) \/ OnStop(s) \/ OnDestroy(s)
    \/ SurfaceCreated(s) \/ SurfaceChanged(s) \/ SurfaceDestroyed(s)

RunPosted(s) ==
    UiConnectionStarted(s) \/ UiStageFailed(s) \/ UiConnectionTerminated(s)

StartThread(s) ==
    \/ LaunchSucceeds(s) \/ LaunchFails(s) \/ AcquirePermit(s) \/ BeginStart(s)
    \/ NativeStarted(s) \/ StartReturns(s) \/ StartFails(s)

Termination(s) == TerminationChecked(s) \/ TerminationCalled(s)

StopThread(s) ==
    InterruptConnection(s) \/ BeginStop(s) \/ StopReturns(s) \/ ReleasePermit(s)

Next == \E s \in Sessions :
    Lifecycle(s) \/ RunPosted(s) \/ StartThread(s) \/ Termination(s) \/ StopThread(s)

Spec == Init /\ [][Next]_vars

\* Threads that can run do run, the looper runs what is posted, the library's
\* calls return, and Android stops and destroys an activity that is finishing.
\* What the user and the host do is not assumed.
Fairness == \A s \in Sessions :
    /\ WF_vars(StartThread(s))
    /\ WF_vars(StopThread(s))
    /\ WF_vars(RunPosted(s))
    /\ WF_vars(activity[s] = "finishing" /\ OnStop(s))
    /\ WF_vars(OnDestroy(s))

FairSpec == Spec /\ Fairness

-----------------------------------------------------------------------------
(***************************************************************************)
(* Correctness.                                                            *)
(***************************************************************************)

\* A session holds the permit from acquire() until its start failed or its stop
\* thread released it.
Holder(s) ==
    \/ startPc[s] \in {"monitor", "starting", "started"}
    \/ startPc[s] = "up" /\ stopPc[s] # "done"

Holders == {s \in Sessions : Holder(s)}

\* It held the permit and released it.
Released(s) ==
    \/ startPc[s] = "failed"
    \/ startPc[s] = "up" /\ stopPc[s] = "done"

Served == {s \in Sessions : Released(s)}

\* "Acquire the connection semaphore to ensure we only have one connection
\* going at once" (NvConnection.java:263): the permit is free exactly when no
\* session holds it, so neither stop() nor a failed start ever releases a
\* permit it does not hold, and two sessions are never connected at once.
OneConnection ==
    /\ permits = 1 => Holders = {}
    /\ permits = 0 => \E s \in Sessions : Holders = {s}
    /\ permits \in {0, 1}

\* A stop thread interrupts and stops its own session's connection, never one
\* that a later session has started or is starting.
StopsOwnConnection == \A s \in Sessions :
    stopPc[s] \in {"interrupt", "monitor", "stopping"} => native = s

\* While the library holds a connection its callbacks reach that session: the
\* bridge is neither cleaned up nor pointed elsewhere.
BridgeFollowsConnection == native # None => bridge = native

\* A session that believes it is connected has a connection that is up (or
\* about to return) and that no stop thread was made for: it is stopped at most
\* once, however often onStop, onDestroy, surfaceDestroyed and the termination
\* callback ask for it.
ConnectedIsStoppable == \A s \in Sessions :
    connected[s] \/ "started" \in posts[s] =>
        /\ startPc[s] \in {"started", "up"}
        /\ stopPc[s] = "none"

\* A session that ends while it is connected is stopped and its permit freed.
EndedSessionIsStopped == \A s \in Sessions :
    (connected[s] /\ activity[s] \in {"finishing", "stopped"})
        ~> stopPc[s] = "done"

\* stop() "interrupt[s] any pending connection" (NvConnection.java:73), and only
\* a failed start releases its own permit (:288-290): a connection that came up
\* for an activity that is gone should be stopped.
OrphanIsStopped == \A s \in Sessions :
    (activity[s] = "destroyed" /\ startPc[s] = "up") ~> stopPc[s] = "done"

\* The sessions with a permit implement one slot that is given and given back.
Slot == INSTANCE StreamSlot WITH slot <- Holders, used <- Served

ImplementsSlot == Slot!Spec
=============================================================================
