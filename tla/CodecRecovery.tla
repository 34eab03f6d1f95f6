--------------------------- MODULE CodecRecovery ---------------------------
(***************************************************************************)
(* How the threads that share one MediaCodec recover it and stop using it  *)
(* (MediaCodecDecoderRenderer).                                            *)
(*                                                                         *)
(* Three threads call the codec: "input" (the native decoder thread, in    *)
(* submitDecodeUnit), "render" (startRendererThread) and, with the         *)
(* balanced frame pacing alone, "choreographer" (doFrame).  A codec        *)
(* exception, new HDR metadata or a failed upscaler asks for a recovery;   *)
(* each thread comes to doCodecRecoveryIfRequired after its codec call,    *)
(* and the last one to come recovers the codec for all of them.            *)
(*                                                                         *)
(* The request, codecRecoveryType, is an atomic integer set outside the    *)
(* monitor that guards the flags: this is where the threads can miss each  *)
(* other.  CR_RECOVERY_TYPE_FLUSH is left out: nothing ever assigns it.    *)
(***************************************************************************)
EXTENDS Naturals, Sequences

CONSTANTS
    Balanced,           \* prefs.framePacing is FRAME_PACING_BALANCED
    PreferLowerDelays,  \* preferLowerDelays
    CR_MAX_TRIES,
    OUTPUT_BUFFER_QUEUE_LIMIT,
    BaselineSpsHack,    \* the decoder wants its first SPS to say baseline
    FaultyThreads,      \* threads whose codec calls may throw
    MaxFaults,          \* bound: exceptions of the codec and the upscaler
    MaxHdrChanges,      \* bound: calls of setHdrMode that change something
    Stoppers,           \* who may stop the decoder, of "ui" and "core"
    FromStart           \* begin inside start(), or with all threads running

Threads == {"input", "render", "choreographer"}

ASSUME CodecRecoveryAssumption ==
    /\ Balanced \in BOOLEAN
    /\ PreferLowerDelays \in BOOLEAN
    /\ CR_MAX_TRIES \in Nat
    /\ OUTPUT_BUFFER_QUEUE_LIMIT \in Nat \ {0}
    /\ BaselineSpsHack \in BOOLEAN
    /\ FaultyThreads \subseteq Threads
    /\ MaxFaults \in Nat
    /\ MaxHdrChanges \in Nat
    /\ "core" \in Stoppers /\ Stoppers \subseteq {"ui", "core"}
    /\ FromStart \in BOOLEAN

VARIABLES
    (* what a recovery is about *)
    codecRecoveryType,  \* "none", "restart" or "reset"
    quiesced,           \* codecRecoveryThreadQuiescedFlags
    codecRecoveryAttempts,
    initialException,   \* an exception was eaten when the tries were used up
    stopping,
    codec,              \* videoDecoder: "live", "null" or "released"
    crashed,            \* why the process died, "no" while it lives
    (* the threads *)
    pc,                 \* where each thread stands
    todo,               \* what the input thread still queues for the frame
    step,               \* which call of the input thread is on
    callOk,             \* that call succeeded
    needsBaselineSpsHack,
    renderInterrupted,  \* interrupt status of the render thread
    renderReturns,      \* the render thread returns after its recovery check
    (* buffers: those of a codec that was since restarted are "stale" *)
    nextInputBuffer,
    outputBufferQueue,
    inHand,             \* the buffer doFrame polled and has not released
    submittedCsd,
    awaitingIdr,        \* native core drops frames until the next IDR frame
    (* HDR metadata and upscaler *)
    hdr,                \* changes of currentHdrMetadata
    hdrPc,              \* "idle", or "casing" inside setHdrMode
    upscaler,           \* "null", "ok" or "failed"
    (* stopping *)
    prepare,            \* how far each caller is in prepareForStop
    quitPosted,         \* quit message at the choreographer's looper
    faults

recoveryVars == <<codecRecoveryType, quiesced, codecRecoveryAttempts>>
inputVars == <<todo, step, callOk, needsBaselineSpsHack>>
renderVars == <<renderInterrupted, renderReturns>>
bufferVars == <<nextInputBuffer, outputBufferQueue, inHand>>
streamVars == <<submittedCsd, awaitingIdr>>
hdrVars == <<hdr, hdrPc>>
stopVars == <<prepare, quitPosted>>
vars == <<recoveryVars, initialException, stopping, codec, crashed, pc,
          inputVars, renderVars, bufferVars, streamVars, hdrVars, upscaler,
          stopVars, faults>>

Buffer == {"none", "fresh", "stale"}
RecoveringPcs == {"restart", "reset", "recreate", "finish"}
FailedPcs == {"wantRestart", "wantReset", "promoteRestart", "promoteReset"}
Pcs == {"unborn", "absent", "top", "codec", "taking", "holding", "upscaling",
        "check", "enter", "waiting", "closing", "gone"}
           \cup FailedPcs \cup RecoveringPcs
\* The recovery monitor is held over several steps by a recovering thread
\* alone; every other synchronized block here is one step.
MonitorFree == \A t \in Threads : pc[t] \notin RecoveringPcs

\* choreographerHandlerThread is null
NoChoreographerThread == pc["choreographer"] \in {"unborn", "absent"}

TypeOK ==
    /\ codecRecoveryType \in {"none", "restart", "reset"}
    /\ quiesced \subseteq Threads
    /\ codecRecoveryAttempts \in Nat
    /\ codec \in {"live", "null", "released"}
    /\ crashed \in {"no", "unexpected", "exhausted", "recreate", "cleanup",
                    "hung"}
    /\ {initialException, stopping, callOk, renderInterrupted, renderReturns,
        submittedCsd, awaitingIdr, quitPosted, needsBaselineSpsHack} \subseteq BOOLEAN
    /\ pc \in [Threads -> Pcs]
    /\ todo \in {<<>>, <<"frame">>, <<"csd", "frame">>, <<"sps", "frame">>}
    /\ step \in {"fetch", "queue", "prefetch"}
    /\ {nextInputBuffer, inHand} \subseteq Buffer
    /\ outputBufferQueue \in Seq({"fresh", "stale"})
    /\ Len(outputBufferQueue) <= OUTPUT_BUFFER_QUEUE_LIMIT
    /\ hdr \in 0 .. MaxHdrChanges
    /\ hdrPc \in {"idle", "casing"}
    /\ upscaler \in {"null", "ok", "failed"}
    /\ prepare \in [Stoppers -> {"no", "marked", "interrupted", "cleared",
                                 "done"}]
    /\ faults \in 0 .. MaxFaults

\* start() has started the render thread; the choreographer's comes next, and
\* the native core starts its decoder thread once start() has returned.  With
\* FromStart = FALSE all this has happened, and nothing else has.
Init ==
    /\ codecRecoveryType = "none"
    /\ quiesced = {}
    /\ codecRecoveryAttempts = 0
    /\ initialException = FALSE
    /\ stopping = FALSE
    /\ codec = "live"
    /\ crashed = "no"
    /\ pc = [t \in Threads |->
                CASE t = "choreographer" /\ ~Balanced -> "absent"
                  [] t = "render" \/ ~FromStart -> "top"
                  [] OTHER -> "unborn"]
    /\ todo = <<>>
    /\ step = "fetch"
    /\ callOk = TRUE
    /\ needsBaselineSpsHack = BaselineSpsHack
    /\ renderInterrupted = FALSE
    /\ renderReturns = FALSE
    /\ nextInputBuffer = "none"
    /\ outputBufferQueue = <<>>
    /\ inHand = "none"
    /\ submittedCsd = FALSE
    /\ awaitingIdr = TRUE
    /\ hdr = 0
    /\ hdrPc = "idle"
    /\ upscaler \in {"null", "ok"}
    /\ prepare = [p \in Stoppers |-> "no"]
    /\ quitPosted = FALSE
    /\ faults = 0

Goto(t, label) == pc' = [pc EXCEPT ![t] = label]

(***************************************************************************)
(* An exception of the codec: handleDecoderException, and then what        *)
(* follows the call's catch block.                                         *)
(***************************************************************************)

\* checkUpscaling() comes first in the render thread's finally block.
AfterCall(t) == IF t = "render" THEN "upscaling" ELSE "check"

\* A codec call of t throws.  While stopping, and when the exception is
\* transient, nothing follows from it; otherwise it asks for a recovery.
Throws(t) ==
    /\ t \in FaultyThreads
    /\ faults < MaxFaults
    /\ faults' = faults + 1
    /\ IF stopping THEN Goto(t, AfterCall(t))
       ELSE \E label \in {AfterCall(t), "wantRestart", "wantReset"} :
                Goto(t, label)

\* Tries used up: the first exception is eaten, a later one is thrown if it
\* comes more than three seconds after the first.
Exhausted(t) ==
    /\ UNCHANGED codecRecoveryType
    /\ IF codecRecoveryType # "none"
       THEN /\ Goto(t, AfterCall(t))
            /\ UNCHANGED <<initialException, crashed>>
       ELSE /\ initialException' = TRUE
            /\ Goto(t, AfterCall(t))
            /\ \/ crashed' = "no"
               \/ initialException /\ crashed' = "exhausted"

\* The request is set if there is none yet.
WantRecovery(t) ==
    /\ pc[t] \in {"wantRestart", "wantReset"}
    /\ IF codecRecoveryAttempts >= CR_MAX_TRIES
       THEN Exhausted(t)
       ELSE /\ UNCHANGED <<initialException, crashed>>
            /\ IF codecRecoveryType = "none"
               THEN /\ codecRecoveryType' =
                           IF pc[t] = "wantReset" THEN "reset" ELSE "restart"
                    /\ Goto(t, AfterCall(t))
               ELSE /\ Goto(t, IF pc[t] = "wantReset" THEN "promoteReset"
                                                      ELSE "promoteRestart")
                    /\ UNCHANGED codecRecoveryType
    /\ UNCHANGED <<quiesced, codecRecoveryAttempts, stopping, codec, inputVars,
                   renderVars, bufferVars, streamVars, hdrVars, upscaler,
                   stopVars, faults>>

\* There was one: it is promoted, and found to be of a known type.
PromoteRecovery(t) ==
    /\ pc[t] \in {"promoteRestart", "promoteReset"}
    /\ IF codecRecoveryType = "none"
       THEN crashed' = "unexpected" /\ UNCHANGED codecRecoveryType
       ELSE /\ codecRecoveryType' = IF pc[t] = "promoteReset" THEN "reset"
                                    ELSE codecRecoveryType
            /\ UNCHANGED crashed
    /\ Goto(t, AfterCall(t))
    /\ UNCHANGED <<quiesced, codecRecoveryAttempts, initialException, stopping,
                   codec, inputVars, renderVars, bufferVars, streamVars,
                   hdrVars, upscaler, stopVars, faults>>

(***************************************************************************)
(* doCodecRecoveryIfRequired.                                              *)
(***************************************************************************)

\* A call of the input thread is over, successfully.  What it queued counts
\* once the buffer for the next one has been fetched.  After the first
\* parameter sets a decoder with the baseline hack gets its true SPS.
CallSucceeds ==
    LET queued == step = "prefetch"
        sentCsd == queued /\ Head(todo) = "csd"
    IN  /\ step' = CASE step = "fetch" -> "queue"
                     [] step = "queue" -> "prefetch"
                     [] OTHER -> "fetch"
        /\ todo' = IF sentCsd /\ needsBaselineSpsHack THEN <<"sps", "frame">>
                   ELSE IF queued THEN Tail(todo) ELSE todo
        /\ submittedCsd' = (submittedCsd \/ sentCsd)
        /\ needsBaselineSpsHack' = (needsBaselineSpsHack /\ ~sentCsd)
        /\ Goto("input", IF queued /\ Len(todo) = 1 THEN "top" ELSE "codec")
        /\ UNCHANGED awaitingIdr

\* A recovery that the input thread does not learn of.
InputMissesRecovery(recovered) ==
    IF ~callOk
    THEN /\ todo' = <<>>
         /\ awaitingIdr' = TRUE
         /\ step' = "fetch"
         /\ callOk' = TRUE
         /\ Goto("input", "top")
         /\ UNCHANGED <<submittedCsd, needsBaselineSpsHack>>
    ELSE CallSucceeds /\ UNCHANGED callOk

\* Where the input thread goes on after doCodecRecoveryIfRequired: a recovery
\* or a failed call ends the frame and asks the host for an IDR frame.
InputReturns(recovered) ==
    IF recovered \/ ~callOk
    THEN /\ todo' = <<>>
         /\ awaitingIdr' = TRUE
         /\ step' = "fetch"
         /\ callOk' = TRUE
         /\ Goto("input", "top")
         /\ UNCHANGED <<submittedCsd, needsBaselineSpsHack>>
    ELSE CallSucceeds /\ UNCHANGED callOk

\* doCodecRecoveryIfRequired() returns.
Returns(t, recovered) ==
    IF t = "input"
    THEN InputReturns(recovered)
    ELSE /\ Goto(t, IF t = "render" /\ renderReturns THEN "gone" ELSE "top")
         /\ UNCHANGED <<inputVars, streamVars>>

\* The first look at the request, outside the monitor.
Check(t) ==
    /\ pc[t] = "check"
    /\ IF codecRecoveryType = "none"
       THEN Returns(t, FALSE)
       ELSE Goto(t, "enter") /\ UNCHANGED <<inputVars, streamVars>>
    /\ UNCHANGED <<recoveryVars, initialException, stopping, codec, crashed,
                   renderVars, bufferVars, hdrVars, upscaler, stopVars,
                   faults>>

\* What the flags become when t enters the monitor.
QuiescedWith(t) ==
    quiesced \cup {t}
        \cup (IF NoChoreographerThread THEN {"choreographer"} ELSE {})

\* Waits without having set its flag.
EnterUnflagged(t) ==
    /\ pc[t] = "enter"
    /\ MonitorFree
    /\ QuiescedWith(t) # Threads
    /\ UNCHANGED quiesced
    /\ IF codecRecoveryType = "none"
       THEN Returns(t, TRUE)
       ELSE Goto(t, "waiting") /\ UNCHANGED <<inputVars, streamVars>>
    /\ UNCHANGED <<codecRecoveryType, codecRecoveryAttempts, initialException,
                   stopping, codec, crashed, renderVars, bufferVars,
                   hdrVars, upscaler, stopVars, faults>>

\* Not the last thread: wait for the recovery, if one is still wanted.
EnterToWait(t) ==
    /\ pc[t] = "enter"
    /\ MonitorFree
    /\ QuiescedWith(t) # Threads
    /\ quiesced' = QuiescedWith(t)
    /\ IF codecRecoveryType = "none"
       THEN Returns(t, TRUE)
       ELSE Goto(t, "waiting") /\ UNCHANGED <<inputVars, streamVars>>
    /\ UNCHANGED <<codecRecoveryType, codecRecoveryAttempts, initialException,
                   stopping, codec, crashed, renderVars, bufferVars,
                   hdrVars, upscaler, stopVars, faults>>

\* The last thread, with the request taken back by prepareForStop: nothing to
\* recover, the buffers are forgotten and the flags cleared all the same.
EnterForNothing(t) ==
    /\ pc[t] = "enter"
    /\ MonitorFree
    /\ QuiescedWith(t) = Threads
    /\ codecRecoveryType = "none"
    /\ quiesced' = {}
    /\ nextInputBuffer' = "none"
    /\ outputBufferQueue' = <<>>
    /\ upscaler' = IF upscaler = "ok" THEN "failed" ELSE upscaler
    /\ Returns(t, TRUE)
    /\ UNCHANGED <<codecRecoveryType, codecRecoveryAttempts, initialException,
                   stopping, codec, crashed, renderVars, inHand,
                   hdrVars, stopVars, faults>>

\* The recovery that keeps the buffers of the codec it is about to stop.
EnterToRecoverKeepingBuffers(t) ==
    /\ pc[t] = "enter"
    /\ MonitorFree
    /\ QuiescedWith(t) = Threads
    /\ codecRecoveryType # "none"
    /\ quiesced' = Threads
    /\ upscaler' = IF upscaler = "ok" THEN "failed" ELSE upscaler
    /\ codecRecoveryAttempts' = codecRecoveryAttempts + 1
    /\ Goto(t, codecRecoveryType)
    /\ UNCHANGED <<codecRecoveryType, initialException, stopping, codec,
                   crashed, inputVars, renderVars, bufferVars, streamVars,
                   hdrVars, stopVars, faults>>

\* The last thread: it recovers the codec, holding the monitor throughout.
\* The upscaler is given up, and the buffers of the codec are forgotten.
EnterToRecover(t) ==
    /\ pc[t] = "enter"
    /\ MonitorFree
    /\ QuiescedWith(t) = Threads
    /\ codecRecoveryType # "none"
    /\ quiesced' = Threads
    /\ nextInputBuffer' = "none"
    /\ outputBufferQueue' = <<>>
    /\ upscaler' = IF upscaler = "ok" THEN "failed" ELSE upscaler
    /\ codecRecoveryAttempts' = codecRecoveryAttempts + 1
    /\ Goto(t, codecRecoveryType)
    /\ UNCHANGED <<codecRecoveryType, initialException, stopping, codec,
                   crashed, inputVars, renderVars, inHand, streamVars, hdrVars,
                   stopVars, faults>>

Stale(buffer) == IF buffer = "none" THEN "none" ELSE "stale"

\* The codec takes all of its buffers back.
InvalidateBuffers ==
    /\ nextInputBuffer' = Stale(nextInputBuffer)
    /\ inHand' = Stale(inHand)
    /\ outputBufferQueue' = [i \in DOMAIN outputBufferQueue |-> "stale"]

\* configureAndStartDecoder after stop(), reset() or the creation of another
\* codec: what is left of the old codec's buffers is of no use, the metadata
\* is that of this moment, and the codec needs its parameter sets again.
ConfigureAndStart ==
    /\ InvalidateBuffers
    /\ submittedCsd' = FALSE
    /\ upscaler' = IF upscaler = "failed" THEN "null" ELSE upscaler
    /\ UNCHANGED <<awaitingIdr, hdrVars>>

\* One of the tries of a recovery succeeds.
Configured(t) ==
    /\ pc[t] \in {"restart", "reset", "recreate"}
    /\ ConfigureAndStart
    /\ codec' = "live"
    /\ Goto(t, "finish")
    /\ UNCHANGED <<recoveryVars, initialException, stopping, crashed,
                   inputVars, renderVars, stopVars, faults>>

\* It fails with an IllegalArgumentException: the surface is taken for gone.
\* The codec that could not be created anew leaves none behind.
SurfaceInvalid(t) ==
    /\ pc[t] \in {"restart", "reset", "recreate"}
    /\ faults < MaxFaults
    /\ faults' = faults + 1
    /\ stopping' = TRUE
    /\ codec' = IF pc[t] = "recreate" THEN "null" ELSE codec
    /\ Goto(t, "finish")
    /\ UNCHANGED <<recoveryVars, initialException, crashed, inputVars,
                   renderVars, bufferVars, streamVars, hdrVars, upscaler,
                   stopVars>>

\* It fails with an IllegalStateException: the bigger hammer is next, and
\* after the last one the application crashes.
RecoveryFails(t) ==
    /\ pc[t] \in {"restart", "reset", "recreate"}
    /\ faults < MaxFaults
    /\ faults' = faults + 1
    /\ IF pc[t] = "recreate"
       THEN /\ crashed' = "recreate"
            /\ codec' = "null"
            /\ UNCHANGED pc
       ELSE /\ Goto(t, IF pc[t] = "restart" THEN "reset" ELSE "recreate")
            /\ UNCHANGED <<crashed, codec>>
    /\ codecRecoveryType' = "reset"
    /\ UNCHANGED <<quiesced, codecRecoveryAttempts, initialException, stopping,
                   inputVars, renderVars, bufferVars, streamVars, hdrVars,
                   upscaler, stopVars>>

\* Forgets to clear the flags.
FinishKeepingFlags(t) ==
    /\ pc[t] = "finish"
    /\ codecRecoveryType' = "none"
    /\ Returns(t, TRUE)
    /\ UNCHANGED <<quiesced, codecRecoveryAttempts, initialException, stopping,
                   codec, crashed, renderVars, bufferVars, hdrVars,
                   upscaler, stopVars, faults>>

\* The request is taken back, the flags are cleared, and the monitor is left.
Finish(t) ==
    /\ pc[t] = "finish"
    /\ codecRecoveryType' = "none"
    /\ quiesced' = {}
    /\ Returns(t, TRUE)
    /\ UNCHANGED <<codecRecoveryAttempts, initialException, stopping, codec,
                   crashed, renderVars, bufferVars, hdrVars, upscaler,
                   stopVars, faults>>

\* A waiting thread looks at the request again and sees none.  A thread that
\* sees one goes on waiting, whether or not its flag is still set.
Wake(t) ==
    /\ pc[t] = "waiting"
    /\ MonitorFree
    /\ codecRecoveryType = "none"
    /\ Returns(t, TRUE)
    /\ UNCHANGED <<recoveryVars, initialException, stopping, codec, crashed,
                   renderVars, bufferVars, hdrVars, upscaler, stopVars,
                   faults>>

Recovery(t) ==
    \/ WantRecovery(t) \/ PromoteRecovery(t)
    \/ Check(t) \/ EnterToWait(t) \/ EnterForNothing(t) \/ EnterToRecover(t)
    \/ Configured(t) \/ SurfaceInvalid(t) \/ RecoveryFails(t) \/ Finish(t)
    \/ Wake(t)

(***************************************************************************)
(* The input thread.                                                       *)
(***************************************************************************)

\* The native core hands over a frame.  The first IDR frame of a codec, and
\* every IDR frame where the codec cannot take the parameter sets with the
\* frame, is queued in two buffers.  (AV1 has no separate parameter sets.)
FrameArrives ==
    /\ pc["input"] = "top"
    /\ ~stopping
    /\ \E kind \in {"idr", "p"} :
        /\ awaitingIdr => kind = "idr"
        /\ todo' \in IF kind = "p" THEN {<<"frame">>}
                     ELSE IF submittedCsd THEN {<<"frame">>, <<"csd", "frame">>}
                     ELSE {<<"csd", "frame">>}
    /\ awaitingIdr' = FALSE
    /\ step' = "fetch"
    /\ Goto("input", "codec")
    /\ UNCHANGED <<recoveryVars, initialException, stopping, codec, crashed,
                   callOk, needsBaselineSpsHack, renderVars, bufferVars,
                   submittedCsd, hdrVars, upscaler, stopVars, faults>>

\* fetchNextInputBuffer with a buffer at hand: no recovery check.
BufferAtHand ==
    /\ pc["input"] = "codec"
    /\ step \in {"fetch", "prefetch"}
    /\ nextInputBuffer # "none"
    /\ callOk' = TRUE
    /\ CallSucceeds
    /\ UNCHANGED <<recoveryVars, initialException, stopping, codec, crashed,
                   renderVars, bufferVars, hdrVars, upscaler, stopVars, faults>>

\* The stop found the codec hung: it has had no input buffer for five seconds,
\* no exception was reported and the check below finds no recovery wanted.
DecoderHung ==
    /\ codecRecoveryType = "none"
    /\ ~initialException
    /\ crashed' = "hung"

\* fetchNextInputBuffer without one: it asks the codec until it gets one or
\* the decoder is stopping.
FetchBuffer ==
    /\ pc["input"] = "codec"
    /\ step \in {"fetch", "prefetch"}
    /\ nextInputBuffer = "none"
    /\ \/ /\ nextInputBuffer' = "fresh"
          /\ callOk' = TRUE
          /\ Goto("input", "check")
          /\ UNCHANGED <<faults, crashed>>
       \/ /\ stopping
          /\ callOk' = FALSE
          /\ Goto("input", "check")
          /\ UNCHANGED crashed \/ DecoderHung
          /\ UNCHANGED <<nextInputBuffer, faults>>
       \/ /\ Throws("input")
          /\ callOk' = FALSE
          /\ UNCHANGED <<nextInputBuffer, crashed>>
    /\ UNCHANGED <<recoveryVars, initialException, stopping, codec,
                   todo, step, needsBaselineSpsHack, renderVars,
                   outputBufferQueue, inHand, streamVars, hdrVars, upscaler,
                   stopVars>>

\* queueNextInputBuffer up to its recovery check.  The buffer is kept after a
\* transient exception only.
QueueBuffer ==
    /\ pc["input"] = "codec"
    /\ step = "queue"
    /\ \/ /\ callOk' = TRUE
          /\ nextInputBuffer' = "none"
          /\ Goto("input", "check")
          /\ UNCHANGED faults
       \/ /\ callOk' = FALSE
          /\ Throws("input")
          /\ nextInputBuffer' = IF ~stopping /\ pc'["input"] = "check"
                                THEN nextInputBuffer ELSE "none"
    /\ UNCHANGED <<recoveryVars, initialException, stopping, codec, crashed,
                   todo, step, needsBaselineSpsHack, renderVars,
                   outputBufferQueue, inHand, streamVars, hdrVars, upscaler,
                   stopVars>>

\* stop() has returned to the native core: it ends the decoder thread, which
\* stops between two frames.
StopReturned ==
    /\ prepare["core"] = "done"
    /\ pc["choreographer"] \in {"absent", "gone"}
    /\ pc["render"] = "gone"

InputLeaves ==
    /\ pc["input"] = "top"
    /\ StopReturned
    /\ Goto("input", "gone")
    /\ UNCHANGED <<recoveryVars, initialException, stopping, codec, crashed,
                   inputVars, renderVars, bufferVars, streamVars, hdrVars,
                   upscaler, stopVars, faults>>

InputThread == FrameArrives \/ BufferAtHand \/ FetchBuffer \/ QueueBuffer
               \/ InputLeaves \/ Recovery("input")

(***************************************************************************)
(* The render thread.                                                      *)
(***************************************************************************)
RenderLoops ==
    /\ pc["render"] = "top"
    /\ Goto("render", IF stopping THEN "closing" ELSE "codec")
    /\ UNCHANGED <<recoveryVars, initialException, stopping, codec, crashed,
                   inputVars, renderVars, bufferVars, streamVars, hdrVars,
                   upscaler, stopVars, faults>>

\* dequeueOutputBuffer gives nothing, or a frame once the codec has its
\* parameter sets.  A frame is shown at once, or handed to the choreographer
\* if there is room for it.
Dequeue ==
    /\ pc["render"] = "codec"
    /\ \/ /\ Goto("render", "upscaling")
          /\ UNCHANGED <<outputBufferQueue, faults>>
       \/ /\ submittedCsd /\ Balanced
          /\ UNCHANGED faults
          /\ IF Len(outputBufferQueue) = OUTPUT_BUFFER_QUEUE_LIMIT
             THEN Goto("render", "taking") /\ UNCHANGED outputBufferQueue
             ELSE /\ outputBufferQueue' = Append(outputBufferQueue, "fresh")
                  /\ Goto("render", "upscaling")
       \/ /\ Throws("render")
          /\ UNCHANGED outputBufferQueue
    /\ UNCHANGED <<recoveryVars, initialException, stopping, codec, crashed,
                   inputVars, renderVars, nextInputBuffer, inHand, streamVars,
                   hdrVars, upscaler, stopVars>>

\* There was no room: drop the oldest frame first.  take() waits for one if
\* the choreographer has meanwhile emptied the queue.
TakeOldest ==
    /\ pc["render"] = "taking"
    /\ ~renderInterrupted
    /\ outputBufferQueue # <<>>
    /\ \/ /\ outputBufferQueue' = Append(Tail(outputBufferQueue), "fresh")
          /\ Goto("render", "upscaling")
          /\ UNCHANGED faults
       \/ /\ outputBufferQueue' = Tail(outputBufferQueue)
          /\ Throws("render")
    /\ UNCHANGED <<recoveryVars, initialException, stopping, codec, crashed,
                   inputVars, renderVars, nextInputBuffer, inHand, streamVars,
                   hdrVars, upscaler, stopVars>>

\* Goes on waiting when interrupted.
TakeIgnoresInterrupt ==
    /\ pc["render"] = "taking"
    /\ renderInterrupted
    /\ renderInterrupted' = FALSE
    /\ UNCHANGED <<pc, renderReturns>>
    /\ UNCHANGED <<recoveryVars, initialException, stopping, codec, crashed,
                   inputVars, bufferVars, streamVars, hdrVars, upscaler,
                   stopVars, faults>>

\* The interrupt ends the thread, after the finally block, and is forgotten.
TakeInterrupted ==
    /\ pc["render"] = "taking"
    /\ renderInterrupted
    /\ renderInterrupted' = FALSE
    /\ renderReturns' = TRUE
    /\ Goto("render", "upscaling")
    /\ UNCHANGED <<recoveryVars, initialException, stopping, codec, crashed,
                   inputVars, bufferVars, streamVars, hdrVars, upscaler,
                   stopVars, faults>>

\* checkHealth() of the upscaler, an exception of which fails it.
HealthChecked ==
    IF upscaler = "ok" /\ ~stopping /\ faults < MaxFaults
    THEN \/ UNCHANGED <<upscaler, faults>>
         \/ upscaler' = "failed" /\ faults' = faults + 1
    ELSE UNCHANGED <<upscaler, faults>>

\* checkUpscaling: a failed upscaler asks for a restart without it, which is
\* not counted as a try.
CheckUpscaling ==
    /\ pc["render"] = "upscaling"
    /\ HealthChecked
    /\ IF upscaler' = "failed" /\ ~stopping
       THEN /\ MonitorFree
            /\ codecRecoveryAttempts' = 0
            /\ codecRecoveryType' = IF codecRecoveryType = "none"
                                    THEN "restart" ELSE codecRecoveryType
       ELSE UNCHANGED <<codecRecoveryAttempts, codecRecoveryType>>
    /\ Goto("render", "check")
    /\ UNCHANGED <<quiesced, initialException, stopping, codec, crashed,
                   inputVars, renderVars, bufferVars, streamVars, hdrVars,
                   stopVars>>

\* wait() throws, now or at once when the status was set before; the status is
\* restored and the thread goes on without the recovery it waited for.
WaitInterrupted ==
    /\ pc["render"] = "waiting"
    /\ renderInterrupted
    /\ MonitorFree
    /\ Returns("render", TRUE)
    /\ UNCHANGED <<recoveryVars, initialException, stopping, codec, crashed,
                   renderVars, bufferVars, hdrVars, upscaler, stopVars,
                   faults>>

\* The end of the thread.  The watchdog stands after the loop: it flushes the
\* codec when the thread has run for more than 1.2 seconds, whatever it put out.
RenderEnds ==
    /\ pc["render"] = "closing"
    /\ Goto("render", "gone")
    /\ \/ UNCHANGED bufferVars
       \/ codec = "live" /\ InvalidateBuffers
    /\ UNCHANGED <<recoveryVars, initialException, stopping, codec, crashed,
                   inputVars, renderVars, streamVars, hdrVars, upscaler,
                   stopVars, faults>>

RenderThread == RenderLoops \/ Dequeue \/ TakeOldest \/ TakeInterrupted
                \/ CheckUpscaling \/ WaitInterrupted \/ RenderEnds
                \/ Recovery("render")

(***************************************************************************)
(* The choreographer thread.                                               *)
(***************************************************************************)

\* doFrame: poll the oldest frame, if a frame is due.  When the decoder is
\* stopping it does nothing and asks for no further callback.
DoFrame ==
    /\ pc["choreographer"] = "top"
    /\ ~stopping
    /\ \/ /\ outputBufferQueue # <<>>
          /\ inHand' = Head(outputBufferQueue)
          /\ outputBufferQueue' = Tail(outputBufferQueue)
          /\ Goto("choreographer", "holding")
       \/ /\ Goto("choreographer", "check")
          /\ UNCHANGED <<inHand, outputBufferQueue>>
    /\ UNCHANGED <<recoveryVars, initialException, stopping, codec, crashed,
                   inputVars, renderVars, nextInputBuffer, streamVars, hdrVars,
                   upscaler, stopVars, faults>>

\* With PreferLowerDelays a newer frame takes the place of the one in hand.
PreferNewer ==
    /\ pc["choreographer"] = "holding"
    /\ PreferLowerDelays
    /\ outputBufferQueue # <<>>
    /\ inHand' = Head(outputBufferQueue)
    /\ outputBufferQueue' = Tail(outputBufferQueue)
    /\ UNCHANGED <<recoveryVars, initialException, stopping, codec, crashed,
                   pc, inputVars, renderVars, nextInputBuffer, streamVars,
                   hdrVars, upscaler, stopVars, faults>>

\* The frame is shown; failing that, it is released unshown.
Present ==
    /\ pc["choreographer"] = "holding"
    /\ PreferLowerDelays => outputBufferQueue = <<>>
    /\ inHand' = "none"
    /\ \/ Goto("choreographer", "check") /\ UNCHANGED faults
       \/ Throws("choreographer")
    /\ UNCHANGED <<recoveryVars, initialException, stopping, codec, crashed,
                   inputVars, renderVars, nextInputBuffer, outputBufferQueue,
                   streamVars, hdrVars, upscaler, stopVars>>

ChoreographerQuits ==
    /\ pc["choreographer"] = "top"
    /\ quitPosted
    /\ Goto("choreographer", "gone")
    /\ UNCHANGED <<recoveryVars, initialException, stopping, codec, crashed,
                   inputVars, renderVars, bufferVars, streamVars, hdrVars,
                   upscaler, stopVars, faults>>

ChoreographerThread == DoFrame \/ PreferNewer \/ Present
                       \/ ChoreographerQuits \/ Recovery("choreographer")

(***************************************************************************)
(* The thread that starts and stops the decoder, the UI thread, and the    *)
(* control stream's thread.                                                *)
(***************************************************************************)
StartChoreographer ==
    /\ Balanced
    /\ pc["choreographer"] = "unborn"
    /\ Goto("choreographer", "top")
    /\ UNCHANGED <<recoveryVars, initialException, stopping, codec, crashed,
                   inputVars, renderVars, bufferVars, streamVars, hdrVars,
                   upscaler, stopVars, faults>>

\* start() has returned: the native core starts its decoder thread.
StartInput ==
    /\ pc["input"] = "unborn"
    /\ pc["choreographer"] # "unborn"
    /\ Goto("input", "top")
    /\ UNCHANGED <<recoveryVars, initialException, stopping, codec, crashed,
                   inputVars, renderVars, bufferVars, streamVars, hdrVars,
                   upscaler, stopVars, faults>>

\* prepareForStop, from surfaceDestroyed ("ui") and from stop() ("core"), the
\* second of which the core calls only after start().
PrepareMarks(p) ==
    /\ prepare[p] = "no"
    /\ p = "core" => pc["input"] # "unborn"
    /\ stopping' = TRUE
    /\ prepare' = [prepare EXCEPT ![p] = "marked"]
    /\ UNCHANGED <<recoveryVars, initialException, codec, crashed, pc,
                   inputVars, renderVars, bufferVars, streamVars, hdrVars,
                   upscaler, quitPosted, faults>>

PrepareInterrupts(p) ==
    /\ prepare[p] = "marked"
    /\ renderInterrupted' = (renderInterrupted \/ pc["render"] # "gone")
    /\ prepare' = [prepare EXCEPT ![p] = "interrupted"]
    /\ UNCHANGED <<recoveryVars, initialException, stopping, codec, crashed,
                   pc, inputVars, renderReturns, bufferVars, streamVars,
                   hdrVars, upscaler, quitPosted, faults>>

PrepareClears(p) ==
    /\ prepare[p] = "interrupted"
    /\ MonitorFree
    /\ codecRecoveryType' = "none"
    /\ prepare' = [prepare EXCEPT ![p] = "cleared"]
    /\ UNCHANGED <<quiesced, codecRecoveryAttempts, initialException, stopping,
                   codec, crashed, pc, inputVars, renderVars, bufferVars,
                   streamVars, hdrVars, upscaler, quitPosted, faults>>

PreparePostsQuit(p) ==
    /\ prepare[p] = "cleared"
    /\ quitPosted' = (quitPosted \/ ~NoChoreographerThread)
    /\ prepare' = [prepare EXCEPT ![p] = "done"]
    /\ UNCHANGED <<recoveryVars, initialException, stopping, codec, crashed,
                   pc, inputVars, renderVars, bufferVars, streamVars, hdrVars,
                   upscaler, faults>>

Prepares(p) == PrepareInterrupts(p) \/ PrepareClears(p) \/ PreparePostsQuit(p)

\* The end of cleanup() where the codec is not kept for a reconnect.
Cleanup ==
    /\ StopReturned
    /\ pc["input"] = "gone"
    /\ codec # "released"
    /\ IF codec = "null"
       THEN crashed' = "cleanup" /\ UNCHANGED <<codec, upscaler>>
       ELSE codec' = "released" /\ upscaler' = "null" /\ UNCHANGED crashed
    /\ UNCHANGED <<recoveryVars, initialException, stopping, pc, inputVars,
                   renderVars, bufferVars, streamVars, hdrVars, stopVars,
                   faults>>

\* setHdrMode with metadata other than before; HDR gives up the upscaler.
SetHdrMode ==
    /\ hdrPc = "idle"
    /\ hdr < MaxHdrChanges
    /\ codec # "released"
    /\ hdr' = hdr + 1
    /\ hdrPc' = "casing"
    /\ upscaler' \in IF upscaler = "ok" THEN {"ok", "failed"} ELSE {upscaler}
    /\ UNCHANGED <<recoveryVars, initialException, stopping, codec, crashed,
                   pc, inputVars, renderVars, bufferVars, streamVars,
                   stopVars, faults>>

\* Its request for a restart, without the monitor.
HdrWantsRestart ==
    /\ hdrPc = "casing"
    /\ codecRecoveryAttempts' = 0
    /\ codecRecoveryType' = IF codecRecoveryType = "none"
                            THEN "restart" ELSE codecRecoveryType
    /\ hdrPc' = "idle"
    /\ UNCHANGED <<quiesced, initialException, stopping, codec, crashed, pc,
                   inputVars, renderVars, bufferVars, streamVars, hdr,
                   upscaler, stopVars, faults>>

Alive == crashed = "no"

Next ==
    /\ Alive
    /\ \/ InputThread \/ RenderThread \/ ChoreographerThread
       \/ StartChoreographer \/ StartInput
       \/ \E p \in Stoppers : PrepareMarks(p) \/ Prepares(p)
       \/ Cleanup \/ SetHdrMode \/ HdrWantsRestart

Spec == Init /\ [][Next]_vars

\* The threads run, the display keeps its vertical syncs, the host goes on
\* sending frames, the codec answers every call.  Nobody has to stop the
\* decoder or to change the HDR metadata.
Fairness ==
    /\ WF_vars(Alive /\ InputThread)
    /\ WF_vars(Alive /\ RenderThread)
    /\ WF_vars(Alive /\ ChoreographerThread)
    /\ WF_vars(Alive /\ (StartChoreographer \/ StartInput))
    /\ \A p \in Stoppers : WF_vars(Alive /\ Prepares(p))
    /\ WF_vars(Alive /\ Cleanup)
    /\ WF_vars(Alive /\ HdrWantsRestart)

FairSpec == Spec /\ Fairness

(***************************************************************************)
(* Properties.                                                             *)
(***************************************************************************)

\* Unless the decoder is stopping, a codec is recovered only while every other
\* thread waits for it: none is inside a codec call, has a frame in hand or is
\* about to set the request.
RecoveryIsExclusive ==
    ~stopping =>
        \A t \in Threads : pc[t] \in RecoveringPcs =>
            \A u \in Threads \ {t} : pc[u] \in {"waiting", "absent"}

\* Buffers of a codec that was stopped, reset or thrown away are never queued
\* to, or released by, the one that took its place.
NoStaleBuffer ==
    ~stopping => /\ nextInputBuffer # "stale"
                 /\ inHand # "stale"
                 /\ \A i \in DOMAIN outputBufferQueue :
                        outputBufferQueue[i] # "stale"

\* A codec is never handed a frame, nor the replayed SPS, before the parameter
\* sets: whatever restarted it, the input thread has dropped its frame and asked
\* for an IDR frame, and that frame starts with the parameter sets.
ParameterSetsComeFirst ==
    /\ ~stopping
    /\ pc["input"] = "codec" /\ step = "queue"
    /\ todo \in {<<"frame">>, <<"sps", "frame">>}
    => submittedCsd

\* The render thread waits in take() for a frame that only it could queue.
RenderStuck == pc["render"] = "taking" /\ outputBufferQueue = <<>>

\* Nothing more is to be expected of the decoder.
Over == stopping \/ ~Alive \/ RenderStuck

\* Every request for a recovery is served, and every thread that waited for it
\* works again, unless the decoder stops, crashes or has lost its render thread.
RecoveryCompletes ==
    /\ codecRecoveryType # "none" ~> (codecRecoveryType = "none" \/ Over)
    /\ \A t \in Threads : pc[t] = "waiting" ~> (pc[t] # "waiting" \/ Over)

\* A codec that was just started, or restarted, is given its parameter sets:
\* the input thread learns of the recovery and asks for an IDR frame.
VideoResumes == ~submittedCsd ~> submittedCsd \/ Over

\* A recovery that is wanted after prepareForStop has taken the requests back:
\* its thread waits for others that are gone or do not come.
LateRequest ==
    /\ codecRecoveryType # "none"
    /\ \E p \in Stoppers : prepare[p] \in {"cleared", "done"}

\* A decoder that is stopped is cleaned up: no join waits for ever, whatever
\* recovery was on when the stop began, unless a request comes late.
StopCompletes ==
    prepare["core"] # "no" ~> (codec = "released" \/ ~Alive \/ LateRequest)
=============================================================================
