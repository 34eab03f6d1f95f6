--------------------------- MODULE StreamSession ---------------------------
(***************************************************************************)
(* The life of a stream: the stream screen (Game), the connection it       *)
(* starts, stops and reconnects (NvConnection), and the single native core *)
(* (MoonBridge) that every stream of the process shares.                   *)
(*                                                                         *)
(* Three kinds of threads take part.  The UI thread runs the activity's    *)
(* callbacks, the timers and the runnables other threads post to it, each  *)
(* as one step.  Every NvConnection.start() runs on a thread of its own,   *)
(* named <<s, k>>: k = 0 is the first start of stream s, k > 0 its k-th    *)
(* reconnect attempt.  Every NvConnection.stop() runs on a thread of its   *)
(* own as well, named by the reason for it and its stream.                 *)
(*                                                                         *)
(* Time is abstract: a delay that runs out is an action that may happen.   *)
(***************************************************************************)
EXTENDS Integers

CONSTANTS
    Streams,            \* the stream screens opened one after the other
    MaxAttempts,        \* bound: reconnect attempts in the life of a stream
    MaxRetries,         \* retries of a first start's requests: 2 in the code
    NoStart             \* no start thread holds the monitor or the bridge,
                        \* and no stream the permit

Starts == Streams \X (0 .. MaxAttempts)

ASSUME StreamSessionAssumption ==
    /\ MaxAttempts \in Nat
    /\ MaxRetries \in Nat
    /\ NoStart \notin Starts
    /\ NoStart \notin Streams

VARIABLES
    (* NvConnection and MoonBridge, shared by all streams *)
    connectionAllowed,  \* permits of the static semaphore
    monitor,            \* the start thread inside synchronized(MoonBridge.class)
    bridge,             \* the start whose callbacks setupBridge() installed
    core,               \* moonlight-common-c: "idle", "starting" or "up"
    interrupted,        \* LiInterruptConnection() since LiStartConnection()
    terminated,         \* the core has reported the end of the connection
    ending,             \* connections whose end Game is examining
    (* threads *)
    startPc,            \* where each start thread stands
    tryCount,           \* the first start's tries at the host
    startAborted,       \* abortStart() since the last start()
    stopPc,             \* where each stop thread stands
    (* Game, one of each per stream *)
    phase,              \* what became of the surface callback
    surface,            \* the surface exists
    finishing,          \* isFinishing()
    stopped,            \* onStop() has run
    displayedFailureDialog,
    connected,
    reconnecting,
    deadConnectionStopped,
    reconnectAttemptInFlight,
    attempts,           \* attempts made in the life of the stream
    tick,               \* reconnectTick is on the timer
    retry,              \* reconnectAttemptRunnable is on the timer
    posted              \* runnables waiting for the UI thread

coreVars == <<monitor, bridge, core, terminated, ending>>
threadVars == <<startPc, tryCount, stopPc>>
screenVars == <<phase, surface, finishing, stopped>>
reconnectVars == <<reconnecting, deadConnectionStopped,
                   reconnectAttemptInFlight, attempts, tick, retry>>
gameVars == <<screenVars, displayedFailureDialog, connected, reconnectVars>>
vars == <<connectionAllowed, coreVars, interrupted, threadVars, startAborted,
          gameVars, posted>>

StartPcs == {"none", "probe", "probed", "checked", "launching", "launched",
             "acquiring", "acquired", "locking", "core", "coreFailed",
             "returning", "done"}
StopKinds == {"dead", "leave", "late"}
StopPcs == {"idle", "interrupt", "locking", "releasing"}

\* What is posted to the UI thread, and the start it tells of.
Runnables == {"started", "startedAgain", "terminated", "startFailed",
              "attemptFailed", "attemptRefused", "deadStopped"} \X Starts

\* Game.connecting: declared false and only ever assigned false, so the tests
\* of it in stopConnection() see false.
connecting(s) == FALSE

Init ==
    /\ connectionAllowed = 1
    /\ monitor = NoStart
    /\ bridge = NoStart
    /\ core = "idle"
    /\ interrupted = FALSE
    /\ terminated = FALSE
    /\ ending = {}
    /\ startPc = [t \in Starts |-> "none"]
    /\ tryCount = [s \in Streams |-> 0]
    /\ startAborted = [s \in Streams |-> FALSE]
    /\ stopPc = [x \in StopKinds \X Streams |-> "idle"]
    /\ phase = [s \in Streams |-> "waiting"]
    /\ surface = [s \in Streams |-> FALSE]
    /\ finishing = [s \in Streams |-> FALSE]
    /\ stopped = [s \in Streams |-> FALSE]
    /\ displayedFailureDialog = [s \in Streams |-> FALSE]
    /\ connected = [s \in Streams |-> FALSE]
    /\ reconnecting = [s \in Streams |-> FALSE]
    /\ deadConnectionStopped = [s \in Streams |-> FALSE]
    /\ reconnectAttemptInFlight = [s \in Streams |-> FALSE]
    /\ attempts = [s \in Streams |-> 0]
    /\ tick = [s \in Streams |-> FALSE]
    /\ retry = [s \in Streams |-> FALSE]
    /\ posted = {}

-----------------------------------------------------------------------------
(* The start threads: NvConnection.start() and startApp() *)

Goto(t, pc) == startPc' = [startPc EXCEPT ![t] = pc]

\* What Game.stageFailed() posts for a start that failed.
FailureOf(t, final) ==
    <<IF ~reconnectAttemptInFlight[t[1]] THEN "startFailed"
      ELSE IF final THEN "attemptRefused" ELSE "attemptFailed", t>>

\* Game.stageFailed() for a failure that is not tried again: the thread ends.
StageFailed(t, final) ==
    /\ posted' = posted \cup {FailureOf(t, final)}
    /\ Goto(t, "done")
    /\ UNCHANGED tryCount

\* A request to the host failed with an IOException.  The first start tries
\* again up to MaxRetries times, unless the port test says the ports are blocked.
HostUnreachable(t) ==
    \/ StageFailed(t, FALSE)
    \/ /\ ~reconnectAttemptInFlight[t[1]]
       /\ tryCount[t[1]] < MaxRetries
       /\ tryCount' = [tryCount EXCEPT ![t[1]] = @ + 1]
       /\ Goto(t, "probe")
       /\ UNCHANGED posted

\* The host answered that it will not start the stream.  In a reconnect
\* attempt the answer may be one that ends the reconnect.
HostRefuses(t) == \E final \in BOOLEAN : StageFailed(t, final)

\* startApp() up to the second throwIfStartAborted(): who is the host, and is
\* the game running on it?
Probe(t) ==
    /\ startPc[t] = "probe"
    /\ \/ HostUnreachable(t)
       \/ /\ ~startAborted[t[1]]
          /\ \/ HostRefuses(t)
             \/ Goto(t, "probed") /\ UNCHANGED <<tryCount, posted>>
    /\ UNCHANGED <<connectionAllowed, coreVars, interrupted, stopPc,
                   startAborted, gameVars>>

\* The second throwIfStartAborted().
CheckBeforeLaunch(t) ==
    /\ startPc[t] = "probed"
    /\ IF startAborted[t[1]]
       THEN HostUnreachable(t)
       ELSE Goto(t, "checked") /\ UNCHANGED <<tryCount, posted>>
    /\ UNCHANGED <<connectionAllowed, coreVars, interrupted, stopPc,
                   startAborted, gameVars>>

\* The /resume or /launch goes out.
SendLaunch(t) ==
    /\ startPc[t] = "checked"
    /\ Goto(t, "launching")
    /\ UNCHANGED <<connectionAllowed, coreVars, interrupted, tryCount, stopPc,
                   startAborted, gameVars, posted>>

\* ... and is answered, times out, or is cancelled by abortStart().
LaunchAnswered(t) ==
    /\ startPc[t] = "launching"
    /\ \/ HostUnreachable(t)
       \/ HostRefuses(t)
       \/ Goto(t, "launched") /\ UNCHANGED <<tryCount, posted>>
    /\ UNCHANGED <<connectionAllowed, coreVars, interrupted, stopPc,
                   startAborted, gameVars>>

\* The last look at startAborted before the semaphore.
CheckBeforeAcquire(t) ==
    /\ startPc[t] = "launched"
    /\ IF startAborted[t[1]]
       THEN StageFailed(t, FALSE)
       ELSE Goto(t, "acquiring") /\ UNCHANGED <<tryCount, posted>>
    /\ UNCHANGED <<connectionAllowed, coreVars, interrupted, stopPc,
                   startAborted, gameVars>>

Acquire(t) ==
    /\ startPc[t] = "acquiring"
    /\ connectionAllowed > 0
    /\ connectionAllowed' = connectionAllowed - 1
    /\ Goto(t, "acquired")
    /\ UNCHANGED <<coreVars, interrupted, tryCount, stopPc, startAborted,
                   gameVars, posted>>

\* Mutant: an aborted start returns without giving the semaphore back.
CheckAfterAcquireKeepingPermit(t) ==
    /\ startPc[t] = "acquired"
    /\ IF startAborted[t[1]]
       THEN StageFailed(t, FALSE)
       ELSE Goto(t, "locking") /\ UNCHANGED <<tryCount, posted>>
    /\ UNCHANGED <<connectionAllowed, coreVars, interrupted, stopPc,
                   startAborted, gameVars>>

\* The look after the wait: an aborted start gives the semaphore back.
CheckAfterAcquire(t) ==
    /\ startPc[t] = "acquired"
    /\ IF startAborted[t[1]]
       THEN /\ connectionAllowed' = connectionAllowed + 1
            /\ StageFailed(t, FALSE)
       ELSE /\ Goto(t, "locking")
            /\ UNCHANGED <<connectionAllowed, tryCount, posted>>
    /\ UNCHANGED <<coreVars, interrupted, stopPc, startAborted, gameVars>>

\* synchronized(MoonBridge.class), setupBridge(), into LiStartConnection(),
\* which forgets the interruptions that came before it.
EnterCore(t) ==
    /\ startPc[t] = "locking"
    /\ monitor = NoStart
    /\ monitor' = t
    /\ bridge' = t
    /\ core' = "starting"
    /\ interrupted' = FALSE
    /\ terminated' = FALSE
    /\ Goto(t, "core")
    /\ UNCHANGED <<connectionAllowed, ending, tryCount, stopPc, startAborted,
                   gameVars, posted>>

\* LiStartConnection() calls connectionStarted() before it returns 0.  An
\* interruption may come too late to stop it.
CoreStarted(t) ==
    /\ startPc[t] = "core"
    /\ core' = "up"
    /\ posted' = posted \cup
         {<<IF reconnectAttemptInFlight[t[1]] THEN "startedAgain"
            ELSE "started", t>>}
    /\ Goto(t, "returning")
    /\ UNCHANGED <<connectionAllowed, monitor, bridge, terminated, ending,
                   interrupted, tryCount, stopPc, startAborted, gameVars>>

\* A stage fails: the core reports it and cleans up after itself.  A first start
\* that failed with error 0 after an inconclusive port test ends without a word:
\* stageFailed() asks for another try, and the core does not look at the answer.
CoreStartFails(t) ==
    /\ startPc[t] = "core"
    /\ core' = "idle"
    /\ \/ \E final \in BOOLEAN : posted' = posted \cup {FailureOf(t, final)}
       \/ ~reconnectAttemptInFlight[t[1]] /\ UNCHANGED posted
    /\ Goto(t, "coreFailed")
    /\ UNCHANGED <<connectionAllowed, monitor, bridge, terminated, ending,
                   interrupted, tryCount, stopPc, startAborted, gameVars>>

\* Mutant: a start that failed in the core keeps the semaphore.
LeaveCoreKeepingPermit(t) ==
    /\ startPc[t] \in {"coreFailed", "returning"}
    /\ monitor' = NoStart
    /\ Goto(t, "done")
    /\ UNCHANGED <<connectionAllowed, bridge, core, terminated, ending,
                   interrupted, tryCount, stopPc, startAborted, gameVars,
                   posted>>

\* startConnection() returns: a start that failed gives the semaphore back.
LeaveCore(t) ==
    /\ startPc[t] \in {"coreFailed", "returning"}
    /\ connectionAllowed' = IF startPc[t] = "coreFailed"
                            THEN connectionAllowed + 1 ELSE connectionAllowed
    /\ monitor' = NoStart
    /\ Goto(t, "done")
    /\ UNCHANGED <<bridge, core, terminated, ending, interrupted, tryCount,
                   stopPc, startAborted, gameVars, posted>>

-----------------------------------------------------------------------------
(* The stop threads: NvConnection.stop() *)

StopInterrupts(x) ==
    /\ stopPc[x] = "interrupt"
    /\ interrupted' = TRUE
    /\ stopPc' = [stopPc EXCEPT ![x] = "locking"]
    /\ UNCHANGED <<connectionAllowed, coreVars, startPc, tryCount,
                   startAborted, gameVars, posted>>

\* stopConnection() and cleanupBridge() inside the monitor.
StopCore(x) ==
    /\ stopPc[x] = "locking"
    /\ monitor = NoStart
    /\ core' = "idle"
    /\ bridge' = NoStart
    /\ stopPc' = [stopPc EXCEPT ![x] = "releasing"]
    /\ UNCHANGED <<connectionAllowed, monitor, terminated, ending,
                   interrupted, startPc, tryCount, startAborted, gameVars,
                   posted>>

\* connectionAllowed.release(); a reconnect is then told that its dead
\* connection is out of the way.
StopReleases(x) ==
    /\ stopPc[x] = "releasing"
    /\ connectionAllowed' = connectionAllowed + 1
    /\ stopPc' = [stopPc EXCEPT ![x] = "idle"]
    /\ posted' = IF x[1] = "dead"
                 THEN posted \cup {<<"deadStopped", <<x[2], 0>>>>}
                 ELSE posted
    /\ UNCHANGED <<coreVars, interrupted, startPc, tryCount, startAborted,
                   gameVars>>

-----------------------------------------------------------------------------
(* The core ends a connection, once.  Game.connectionTerminated() examines *)
(* the network on the thread it is called on, then posts the end, by which *)
(* time the connection may be long gone.                                   *)

Terminates ==
    /\ core # "idle"
    /\ ~interrupted
    /\ ~terminated
    /\ bridge # NoStart
    /\ terminated' = TRUE
    /\ ending' = ending \cup {bridge}
    /\ UNCHANGED <<connectionAllowed, monitor, bridge, core, interrupted,
                   threadVars, startAborted, gameVars, posted>>

PostTerminated(t) ==
    /\ t \in ending
    /\ ending' = ending \ {t}
    /\ posted' = posted \cup {<<"terminated", t>>}
    /\ UNCHANGED <<connectionAllowed, monitor, bridge, core, terminated,
                   interrupted, threadVars, startAborted, gameVars>>

-----------------------------------------------------------------------------
(* What Game's methods do, as the parts the UI thread's steps are made of *)

\* A new thread that runs conn.stop().
SpawnStop(why, s) == stopPc' = [stopPc EXCEPT ![<<why, s>>] = "interrupt"]

\* conn.start() on the thread t: a new start forgets earlier aborts.
StartConnection(t) ==
    /\ startAborted' = [startAborted EXCEPT ![t[1]] = FALSE]
    /\ Goto(t, "probe")

\* The timers of a reconnect are taken off the handler.
StopTimers(s) ==
    /\ tick' = [tick EXCEPT ![s] = FALSE]
    /\ retry' = [retry EXCEPT ![s] = FALSE]

\* endReconnect(), but for the timers: an attempt in flight is told to give up
\* by abortStart(), which also interrupts whatever the core is doing.
AbandonReconnect(s, inFlight) ==
    /\ reconnecting' = [reconnecting EXCEPT ![s] = FALSE]
    /\ startAborted' = [startAborted EXCEPT ![s] = @ \/ inFlight]
    /\ interrupted' = (interrupted \/ inFlight)

EndReconnect(s, inFlight) == StopTimers(s) /\ AbandonReconnect(s, inFlight)

\* Mutant: conn.stop() whether or not the stream has a connection.
DropConnectionAlways(s) ==
    /\ connected' = [connected EXCEPT ![s] = FALSE]
    /\ SpawnStop("leave", s)

\* The end of stopConnection(): the connection held, if any, is stopped.
DropConnection(s) ==
    /\ connected' = [connected EXCEPT ![s] = FALSE]
    /\ IF connecting(s) \/ connected[s]
       THEN SpawnStop("leave", s) ELSE UNCHANGED stopPc

\* stopConnection(): leaving ends a reconnect too.
StopConnection(s) ==
    /\ DropConnection(s)
    /\ IF reconnecting[s]
       THEN EndReconnect(s, reconnectAttemptInFlight[s])
       ELSE UNCHANGED <<reconnecting, tick, retry, startAborted, interrupted>>

\* giveUpReconnect(): the reconnect is over and so is the stream.
GiveUpReconnect(s, inFlight) ==
    /\ EndReconnect(s, inFlight)
    /\ displayedFailureDialog' = [displayedFailureDialog EXCEPT ![s] = TRUE]
    /\ IF displayedFailureDialog[s]
       THEN UNCHANGED <<connected, stopPc>> ELSE DropConnection(s)

-----------------------------------------------------------------------------
(* The UI thread: the activity and its surface *)

\* The surface callback.  A stream is opened once those before it are gone.
SurfaceAvailable(s) ==
    /\ ~surface[s]
    /\ ~stopped[s]
    /\ \A o \in Streams \ {s} : stopped[o] \/ phase[o] = "waiting"
    /\ surface' = [surface EXCEPT ![s] = TRUE]
    /\ phase' = [phase EXCEPT ![s] = IF @ = "waiting" THEN "measuring" ELSE @]
    /\ UNCHANGED <<connectionAllowed, coreVars, interrupted, threadVars,
                   startAborted, finishing, stopped, displayedFailureDialog,
                   connected, reconnectVars, posted>>

\* The refresh rate is known: the first start.
FirstStart(s) ==
    /\ phase[s] = "measuring"
    /\ phase' = [phase EXCEPT ![s] = "attempted"]
    /\ IF finishing[s]
       THEN UNCHANGED <<startAborted, startPc>>
       ELSE StartConnection(<<s, 0>>)
    /\ UNCHANGED <<connectionAllowed, coreVars, interrupted, tryCount, stopPc,
                   surface, finishing, stopped, displayedFailureDialog,
                   connected, reconnectVars, posted>>

SurfaceDestroyed(s) ==
    /\ surface[s]
    /\ surface' = [surface EXCEPT ![s] = FALSE]
    /\ phase' = [phase EXCEPT ![s] = IF @ = "measuring" THEN "waiting" ELSE @]
    /\ IF phase[s] = "attempted" /\ (connected[s] \/ reconnecting[s])
       THEN StopConnection(s)
       ELSE UNCHANGED <<connected, stopPc, reconnecting, tick, retry,
                        startAborted, interrupted>>
    /\ UNCHANGED <<connectionAllowed, coreVars, startPc, tryCount, finishing,
                   stopped, displayedFailureDialog, deadConnectionStopped,
                   reconnectAttemptInFlight, attempts, posted>>

\* The user closes the dialog that tells why the stream ended.
DismissDialog(s) ==
    /\ displayedFailureDialog[s]
    /\ ~finishing[s]
    /\ finishing' = [finishing EXCEPT ![s] = TRUE]
    /\ UNCHANGED <<connectionAllowed, coreVars, interrupted, threadVars,
                   startAborted, phase, surface, stopped,
                   displayedFailureDialog, connected, reconnectVars, posted>>

\* onStop(): the user has left the stream screen, at any moment of its life.
OnStop(s) ==
    /\ phase[s] # "waiting"
    /\ ~stopped[s]
    /\ stopped' = [stopped EXCEPT ![s] = TRUE]
    /\ finishing' = [finishing EXCEPT ![s] = TRUE]
    /\ displayedFailureDialog' = [displayedFailureDialog EXCEPT ![s] = TRUE]
    /\ StopConnection(s)
    /\ UNCHANGED <<connectionAllowed, coreVars, startPc, tryCount, phase,
                   surface, deadConnectionStopped, reconnectAttemptInFlight,
                   attempts, posted>>

-----------------------------------------------------------------------------
(* The UI thread: the runnables posted by the other threads *)

Take(what, t) ==
    /\ <<what, t>> \in posted
    /\ posted' = posted \ {<<what, t>>}

\* connectionStarted(), of the first start.
OnStarted(t) ==
    /\ Take("started", t)
    /\ connected' = [connected EXCEPT ![t[1]] = TRUE]
    /\ UNCHANGED <<connectionAllowed, coreVars, interrupted, threadVars,
                   startAborted, screenVars, displayedFailureDialog,
                   reconnectVars>>

\* Mutant: a late success connects a stream that nobody waits for.
OnStartedAgainUnasked(t) ==
    LET s == t[1] IN
    /\ Take("startedAgain", t)
    /\ reconnectAttemptInFlight' =
         [reconnectAttemptInFlight EXCEPT ![s] = FALSE]
    /\ EndReconnect(s, FALSE)
    /\ connected' = [connected EXCEPT ![s] = TRUE]
    /\ UNCHANGED <<connectionAllowed, coreVars, startPc, tryCount, stopPc,
                   screenVars, displayedFailureDialog, deadConnectionStopped,
                   attempts>>

\* Mutant: a late success is ignored, and so is the connection it made.
OnStartedAgainIgnored(t) ==
    LET s == t[1] IN
    /\ Take("startedAgain", t)
    /\ reconnectAttemptInFlight' =
         [reconnectAttemptInFlight EXCEPT ![s] = FALSE]
    /\ IF reconnecting[s]
       THEN /\ EndReconnect(s, FALSE)
            /\ connected' = [connected EXCEPT ![s] = TRUE]
       ELSE UNCHANGED <<connected, reconnecting, tick, retry, startAborted,
                        interrupted>>
    /\ UNCHANGED <<connectionAllowed, coreVars, startPc, tryCount, stopPc,
                   screenVars, displayedFailureDialog, deadConnectionStopped,
                   attempts>>

\* connectionStarted(), of a reconnect attempt: the stream is back, or nobody
\* wants it any more.
OnStartedAgain(t) ==
    LET s == t[1] IN
    /\ Take("startedAgain", t)
    /\ reconnectAttemptInFlight' =
         [reconnectAttemptInFlight EXCEPT ![s] = FALSE]
    /\ IF reconnecting[s]
       THEN /\ EndReconnect(s, FALSE)
            /\ connected' = [connected EXCEPT ![s] = TRUE]
            /\ UNCHANGED stopPc
       ELSE /\ SpawnStop("late", s)
            /\ UNCHANGED <<connected, reconnecting, tick, retry,
                           startAborted, interrupted>>
    /\ UNCHANGED <<connectionAllowed, coreVars, startPc, tryCount, screenVars,
                   displayedFailureDialog, deadConnectionStopped, attempts>>

\* stageFailed(), of the first start: the dialog.
OnStartFailed(t) ==
    /\ Take("startFailed", t)
    /\ displayedFailureDialog' =
         [displayedFailureDialog EXCEPT ![t[1]] = TRUE]
    /\ UNCHANGED <<connectionAllowed, coreVars, interrupted, threadVars,
                   startAborted, screenVars, connected, reconnectVars>>

\* Mutant: the failure of an attempt nobody waits for is dropped unread.
OnAttemptFailedIgnored(t) ==
    LET s == t[1] IN
    /\ \/ /\ Take("attemptFailed", t)
          /\ retry' = [retry EXCEPT ![s] = @ \/ reconnecting[s]]
          /\ UNCHANGED <<reconnecting, tick, startAborted, interrupted,
                         displayedFailureDialog, connected, stopPc>>
       \/ /\ Take("attemptRefused", t)
          /\ IF reconnecting[s]
             THEN GiveUpReconnect(s, FALSE)
             ELSE UNCHANGED <<reconnecting, tick, retry, startAborted,
                              interrupted, displayedFailureDialog, connected,
                              stopPc>>
    /\ reconnectAttemptInFlight' =
         [reconnectAttemptInFlight EXCEPT ![s] = @ /\ ~reconnecting[s]]
    /\ UNCHANGED <<connectionAllowed, coreVars, startPc, tryCount, screenVars,
                   deadConnectionStopped, attempts>>

\* onReconnectAttemptFailed(): another attempt later, or none at all.
OnAttemptFailed(t) ==
    LET s == t[1] IN
    /\ reconnectAttemptInFlight' =
         [reconnectAttemptInFlight EXCEPT ![s] = FALSE]
    /\ \/ /\ Take("attemptFailed", t)
          /\ retry' = [retry EXCEPT ![s] = @ \/ reconnecting[s]]
          /\ UNCHANGED <<reconnecting, tick, startAborted, interrupted,
                         displayedFailureDialog, connected, stopPc>>
       \/ /\ Take("attemptRefused", t)
          /\ IF reconnecting[s]
             THEN GiveUpReconnect(s, FALSE)
             ELSE UNCHANGED <<reconnecting, tick, retry, startAborted,
                              interrupted, displayedFailureDialog, connected,
                              stopPc>>
    /\ UNCHANGED <<connectionAllowed, coreVars, startPc, tryCount, screenVars,
                   deadConnectionStopped, attempts>>

\* The dead connection has been stopped: attempts may start.
OnDeadStopped(t) ==
    LET s == t[1] IN
    /\ Take("deadStopped", t)
    /\ deadConnectionStopped' = [deadConnectionStopped EXCEPT ![s] = TRUE]
    /\ retry' = [retry EXCEPT ![s] = @ \/ reconnecting[s]]
    /\ UNCHANGED <<connectionAllowed, coreVars, interrupted, threadVars,
                   startAborted, screenVars, displayedFailureDialog,
                   connected, reconnecting, reconnectAttemptInFlight,
                   attempts, tick>>

\* Mutant: the stream still counts as connected while it reconnects.
MaybeStartReconnectConnected(s) ==
    /\ connected[s]
    /\ ~reconnecting[s]
    /\ ~displayedFailureDialog[s]
    /\ ~finishing[s]
    /\ surface[s]
    /\ reconnecting' = [reconnecting EXCEPT ![s] = TRUE]
    /\ deadConnectionStopped' = [deadConnectionStopped EXCEPT ![s] = FALSE]
    /\ tick' = [tick EXCEPT ![s] = TRUE]
    /\ SpawnStop("dead", s)
    /\ UNCHANGED <<connected, retry, startAborted, interrupted, finishing,
                   displayedFailureDialog>>

\* Mutant: the countdown of the reconnect window is not started.
MaybeStartReconnectUntimed(s) ==
    /\ connected[s]
    /\ ~reconnecting[s]
    /\ ~displayedFailureDialog[s]
    /\ ~finishing[s]
    /\ surface[s]
    /\ reconnecting' = [reconnecting EXCEPT ![s] = TRUE]
    /\ deadConnectionStopped' = [deadConnectionStopped EXCEPT ![s] = FALSE]
    /\ connected' = [connected EXCEPT ![s] = FALSE]
    /\ SpawnStop("dead", s)
    /\ UNCHANGED <<tick, retry, startAborted, interrupted, finishing,
                   displayedFailureDialog>>

\* maybeStartReconnect(): the end is a network drop, within the window.
MaybeStartReconnect(s) ==
    /\ connected[s]
    /\ ~reconnecting[s]
    /\ ~displayedFailureDialog[s]
    /\ ~finishing[s]
    /\ surface[s]
    /\ reconnecting' = [reconnecting EXCEPT ![s] = TRUE]
    /\ deadConnectionStopped' = [deadConnectionStopped EXCEPT ![s] = FALSE]
    /\ connected' = [connected EXCEPT ![s] = FALSE]
    /\ tick' = [tick EXCEPT ![s] = TRUE]
    /\ SpawnStop("dead", s)
    /\ UNCHANGED <<retry, startAborted, interrupted, finishing,
                   displayedFailureDialog>>

\* showConnectionEnd(): the timers stop, and the first end that is shown
\* stops the connection.  A graceful end closes the screen without a dialog.
ShowConnectionEnd(s) ==
    /\ StopTimers(s)
    /\ displayedFailureDialog' = [displayedFailureDialog EXCEPT ![s] = TRUE]
    /\ IF displayedFailureDialog[s]
       THEN UNCHANGED <<connected, stopPc, reconnecting, startAborted,
                        interrupted, finishing>>
       ELSE /\ DropConnection(s)
            /\ AbandonReconnect(s, reconnecting[s]
                                     /\ reconnectAttemptInFlight[s])
            /\ \E graceful \in BOOLEAN :
                 finishing' = [finishing EXCEPT ![s] = @ \/ graceful]
    /\ UNCHANGED deadConnectionStopped

\* connectionTerminated().
OnTerminated(t) ==
    /\ Take("terminated", t)
    /\ MaybeStartReconnect(t[1]) \/ ShowConnectionEnd(t[1])
    /\ UNCHANGED <<connectionAllowed, coreVars, startPc, tryCount, phase,
                   surface, stopped, reconnectAttemptInFlight, attempts>>

-----------------------------------------------------------------------------
(* The UI thread: the timers of a reconnect *)

\* reconnectAttemptRunnable, after its delay or at once because Android has a
\* network again.
AttemptTimer(s) ==
    LET t == <<s, attempts[s] + 1>> IN
    /\ retry[s]
    /\ attempts[s] < MaxAttempts
    /\ IF ~reconnecting[s] \/ ~deadConnectionStopped[s]
             \/ reconnectAttemptInFlight[s]
       THEN /\ retry' = [retry EXCEPT ![s] = FALSE]
            /\ UNCHANGED <<reconnecting, tick, startAborted, interrupted,
                           displayedFailureDialog, connected, stopPc,
                           attempts, reconnectAttemptInFlight, startPc>>
       ELSE IF ~surface[s]
       THEN /\ GiveUpReconnect(s, FALSE)
            /\ UNCHANGED <<attempts, reconnectAttemptInFlight, startPc>>
       ELSE /\ retry' = [retry EXCEPT ![s] = FALSE]
            /\ attempts' = [attempts EXCEPT ![s] = @ + 1]
            /\ reconnectAttemptInFlight' =
                 [reconnectAttemptInFlight EXCEPT ![s] = TRUE]
            /\ StartConnection(t)
            /\ UNCHANGED <<reconnecting, tick, interrupted,
                           displayedFailureDialog, connected, stopPc>>
    /\ UNCHANGED <<connectionAllowed, coreVars, tryCount, screenVars,
                   deadConnectionStopped, posted>>

\* reconnectTick, when the reconnect window is over.
WindowOver(s) ==
    /\ tick[s]
    /\ IF reconnecting[s]
       THEN GiveUpReconnect(s, reconnectAttemptInFlight[s])
       ELSE /\ tick' = [tick EXCEPT ![s] = FALSE]
            /\ UNCHANGED <<reconnecting, retry, startAborted, interrupted,
                           displayedFailureDialog, connected, stopPc>>
    /\ UNCHANGED <<connectionAllowed, coreVars, startPc, tryCount, screenVars,
                   deadConnectionStopped, reconnectAttemptInFlight, attempts,
                   posted>>

-----------------------------------------------------------------------------

StartThread(t) ==
    \/ Probe(t) \/ CheckBeforeLaunch(t) \/ SendLaunch(t) \/ LaunchAnswered(t)
    \/ CheckBeforeAcquire(t) \/ Acquire(t) \/ CheckAfterAcquire(t)
    \/ EnterCore(t) \/ CoreStarted(t) \/ CoreStartFails(t) \/ LeaveCore(t)

StopThread(x) == StopInterrupts(x) \/ StopCore(x) \/ StopReleases(x)

Posted(t) ==
    \/ OnStarted(t) \/ OnStartedAgain(t) \/ OnStartFailed(t)
    \/ OnAttemptFailed(t) \/ OnDeadStopped(t) \/ OnTerminated(t)

Screen(s) ==
    \/ SurfaceAvailable(s) \/ FirstStart(s) \/ SurfaceDestroyed(s)
    \/ DismissDialog(s) \/ OnStop(s)

Timer(s) == AttemptTimer(s) \/ WindowOver(s)

Next ==
    \/ \E t \in Starts : StartThread(t) \/ Posted(t) \/ PostTerminated(t)
    \/ \E x \in StopKinds \X Streams : StopThread(x)
    \/ \E s \in Streams : Screen(s) \/ Timer(s)
    \/ Terminates

Spec == Init /\ [][Next]_vars

(* Threads run, requests and LiStartConnection() end one way or the other, *)
(* timers fire and a screen that is finishing is stopped.  Nothing is      *)
(* expected of the user, the surface or the network.                       *)
Fairness ==
    /\ \A t \in Starts : /\ WF_vars(StartThread(t))
                         /\ WF_vars(Posted(t))
                         /\ WF_vars(PostTerminated(t))
    /\ \A x \in StopKinds \X Streams : WF_vars(StopThread(x))
    /\ \A s \in Streams : /\ WF_vars(WindowOver(s))
                          /\ WF_vars(finishing[s] /\ OnStop(s))

FairSpec == Spec /\ Fairness

-----------------------------------------------------------------------------
(* Who owes the semaphore its permit: a start that has taken it and not yet *)
(* reported, a report of success on its way to the UI thread, a stream that *)
(* is connected, a stop that has not released it.                           *)

HoldingStart == {"acquired", "locking", "core", "coreFailed"}

StartHolds(t) == startPc[t] \in HoldingStart
ReportHolds(r) == r \in posted /\ r[1] \in {"started", "startedAgain"}
StopHolds(x) == stopPc[x] # "idle"

Holders ==
    {<<"start", t>> : t \in {u \in Starts : StartHolds(u)}}
      \cup {<<"report", r>> : r \in {q \in Runnables : ReportHolds(q)}}
      \cup {<<"stream", s>> : s \in {u \in Streams : connected[u]}}
      \cup {<<"stop", x>> : x \in {y \in StopKinds \X Streams : StopHolds(y)}}

TypeOK ==
    /\ connectionAllowed \in Nat
    /\ monitor \in Starts \cup {NoStart}
    /\ bridge \in Starts \cup {NoStart}
    /\ core \in {"idle", "starting", "up"}
    /\ interrupted \in BOOLEAN
    /\ terminated \in BOOLEAN
    /\ ending \subseteq Starts
    /\ startPc \in [Starts -> StartPcs]
    /\ tryCount \in [Streams -> 0 .. MaxRetries]
    /\ startAborted \in [Streams -> BOOLEAN]
    /\ stopPc \in [StopKinds \X Streams -> StopPcs]
    /\ phase \in [Streams -> {"waiting", "measuring", "attempted"}]
    /\ surface \in [Streams -> BOOLEAN]
    /\ finishing \in [Streams -> BOOLEAN]
    /\ stopped \in [Streams -> BOOLEAN]
    /\ displayedFailureDialog \in [Streams -> BOOLEAN]
    /\ connected \in [Streams -> BOOLEAN]
    /\ reconnecting \in [Streams -> BOOLEAN]
    /\ deadConnectionStopped \in [Streams -> BOOLEAN]
    /\ reconnectAttemptInFlight \in [Streams -> BOOLEAN]
    /\ attempts \in [Streams -> 0 .. MaxAttempts]
    /\ tick \in [Streams -> BOOLEAN]
    /\ retry \in [Streams -> BOOLEAN]
    /\ posted \subseteq Runnables

(* Safety *)

\* Every permit is accounted for: the semaphore is free only when nobody owes
\* it a permit, and then exactly one start, report, stream or stop does.  A
\* stop() of a connection that was never taken, a second stop() of the same
\* one, or an end that forgets to stop breaks it.
SemaphoreAccounted ==
    /\ connectionAllowed \in {0, 1}
    /\ connectionAllowed = 1 => Holders = {}
    /\ connectionAllowed = 0 => \E h \in Holders : Holders = {h}

\* The core works for the one who holds the semaphore: it starts under the
\* monitor, and a connection that is up reports to, serves or is being stopped
\* by the stream whose callbacks are installed.  A stream that believes it is
\* connected has the core, so its input and its watchdog reach its own host.
CoreServesHolder ==
    /\ core = "starting" <=> \E t \in Starts : startPc[t] = "core"
    /\ \A t \in Starts :
          startPc[t] \in {"core", "coreFailed", "returning"} => monitor = t
    /\ core = "starting" => monitor = bridge /\ startPc[bridge] = "core"
    /\ core = "up" =>
          \/ \E r \in posted : ReportHolds(r) /\ r[2] = bridge
          \/ connected[bridge[1]]
          \/ \E why \in StopKinds : StopHolds(<<why, bridge[1]>>)
    /\ \A s \in Streams : connected[s] => core = "up" /\ bridge[1] = s

\* reconnectAttemptInFlight is read on the connection thread, to tell a
\* reconnect attempt from the first start, and written on the UI thread: it is
\* up exactly from the moment an attempt is started until the UI thread has
\* dealt with the attempt's one report.
Unreported == {"probe", "probed", "checked", "launching", "launched",
               "acquiring", "acquired", "locking", "core"}
AttemptReports == {"startedAgain", "attemptFailed", "attemptRefused"}
InFlightIsExact ==
    \A s \in Streams :
        reconnectAttemptInFlight[s] <=>
            \E k \in 1 .. MaxAttempts :
                \/ startPc[<<s, k>>] \in Unreported
                \/ \E what \in AttemptReports : <<what, <<s, k>>>> \in posted

\* A reconnect always has something that carries it on: the countdown that
\* ends it, and the dead connection's stop, an attempt or the timer of the
\* next one.  It never runs beside a live connection, and the flag that says an
\* attempt is under way is exact.
DeadStopUnderWay(s) ==
    stopPc[<<"dead", s>>] # "idle" \/ <<"deadStopped", <<s, 0>>>> \in posted
ReconnectIsDriven ==
    /\ InFlightIsExact
    /\ \A s \in Streams :
          reconnecting[s] =>
              /\ tick[s]
              /\ ~connected[s]
              /\ IF deadConnectionStopped[s]
                 THEN retry[s] \/ reconnectAttemptInFlight[s]
                 ELSE DeadStopUnderWay(s) /\ ~reconnectAttemptInFlight[s]

\* LiInterruptConnection() is global.  abortStart() and stop() call it without
\* the monitor, and still no stream ever interrupts another one's start, unless
\* that one has been left and should not connect any more.
OnlyOwnStartInterrupted ==
    [][ (core = "starting" /\ ~interrupted /\ interrupted') =>
            \/ startAborted'[bridge[1]]
            \/ stopped[bridge[1]]
            \/ \E why \in StopKinds : stopPc[<<why, bridge[1]>>] = "interrupt"
      ]_vars

(* Liveness *)

HoldsNothing(s) ==
    /\ ~connected[s]
    /\ core = "up" => bridge[1] # s
    /\ \A k \in 0 .. MaxAttempts : ~StartHolds(<<s, k>>)
    /\ \A r \in posted : r[2][1] = s => ~ReportHolds(r)
    /\ \A why \in StopKinds : ~StopHolds(<<why, s>>)

\* A reconnect comes to an end: the stream is back or has been given up.
ReconnectEnds == \A s \in Streams : reconnecting[s] ~> ~reconnecting[s]

\* The first start has come to its end, one way or the other.
FirstStartOver(s) ==
    /\ startPc[<<s, 0>>] \in {"none", "coreFailed", "returning", "done"}
    /\ <<"started", <<s, 0>>>> \notin posted

\* A stream that was left lets go of the core for good, the attempt that was
\* still on its way included.  Excepted is a stream that was left during its
\* first start and connects all the same: stopConnection() stops nothing then,
\* as Game.connecting is never set, and the connection stays.
LeftStreamLetsGo ==
    \A s \in Streams :
        stopped[s] /\ FirstStartOver(s) /\ ~connected[s] ~> [] HoldsNothing(s)

\* A stream that was left during its first start and connected all the same.
LeftStreamIsConnected == \E s \in Streams : stopped[s] /\ connected[s]

\* A start that waits for the semaphore gets past it, whatever the stream before
\* it does with the permit: a connection or its stop, a start that fails in the
\* core, an abandoned attempt that waits beside it and takes the permit first.
\* Excepted is a start whose own stream is left, and one that waits for a stream
\* that was left and connected all the same, which gives nothing back.
WaitingStartIsServed ==
    \A t \in Starts :
        startPc[t] = "acquiring"
            ~> (startPc[t] # "acquiring" \/ stopped[t[1]] \/ LeftStreamIsConnected)

(* Refinement: the threads, aborts and timers above carry out StreamLife.   *)

StreamLifeOf(s) ==
    IF connected[s] THEN "live"
    ELSE IF reconnecting[s] THEN "reconnecting"
    ELSE IF \/ startPc[<<s, 0>>] \in Unreported \cup {"none"}
            \/ <<"started", <<s, 0>>>> \in posted
    THEN "starting"
    ELSE "over"

SlotOwner ==
    IF \A s \in Streams : HoldsNothing(s) THEN NoStart
    ELSE CHOOSE s \in Streams : ~HoldsNothing(s)

Life == INSTANCE StreamLife
            WITH life <- [s \in Streams |-> StreamLifeOf(s)],
                 slot <- SlotOwner,
                 NoStream <- NoStart

\* Seen from outside, a stream goes through its life as StreamLife has it.
LivesAsPromised == Life!LifeSpec
=============================================================================
