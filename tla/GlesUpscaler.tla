---------------------------- MODULE GlesUpscaler ----------------------------
(***************************************************************************)
(* The upscaler between the decoder and the display: frames the decoder    *)
(* releases into a SurfaceTexture are drawn by a thread of their own       *)
(* (GlesUpscaler), which learns from the texture's timestamps what frame   *)
(* it latched and when that frame is due (UpscalingFrameQueue).            *)
(*                                                                         *)
(* The texture keeps the newest buffer alone, so frames are skipped; the   *)
(* GPU tells through a fence when a frame is drawn, which is polled; and   *)
(* what goes wrong makes the renderer give up the upscaler.                *)
(***************************************************************************)
EXTENDS Naturals, Sequences

CONSTANTS
    Capacity,           \* entries of the ring (64 in the code)
    MaxFrames,          \* bound: frames released
    MaxNow              \* bound: ticks of the clock

ASSUME UpscalerAssumption ==
    /\ Capacity \in Nat \ {0}
    /\ MaxFrames \in Nat /\ MaxNow \in Nat

VARIABLES
    now,                \* System.nanoTime()
    (* UpscalingFrameQueue *)
    timestamps, targets, head, size, overflow,
    lastTimestamp, consumedTimestamp,
    (* the decoder's thread, the codec and the texture *)
    releasing,          \* the timestamp of a buffer that is about to be released
    released,           \* frames released so far
    onWay,              \* buffers between the codec and the texture
    waiting,            \* the newest buffer of the texture, 0 once it is latched
    latched,            \* texture.getTimestamp()
    (* the upscaling thread *)
    gl,                 \* where it is: "idle" between two messages
    callbacks,          \* frame callbacks in its queue
    polls,              \* pollCompletion messages in its queue
    frame,              \* [timestamp, target, drops] that consume() gave
    frameAvailable,
    fence,              \* "none", "pending" or "signalled"
    workStart,          \* workStartNs
    (* failure and end *)
    failed,             \* policy.getReason() is not NONE
    gpu,                \* "ok" or "hung"
    closer,             \* close(): "no", "joining" or "back"
    (* history *)
    asked,              \* the target each timestamp was released with
    lost,               \* a buffer never came to the texture
    drawn,              \* frames consumed
    dropped             \* the drops they came with

ringVars == <<timestamps, targets, head, size, overflow, lastTimestamp, consumedTimestamp>>
sourceVars == <<releasing, released, onWay, asked, lost>>
textureVars == <<waiting, latched>>
glVars == <<gl, callbacks, polls>>
frameVars == <<frame, frameAvailable, fence, workStart>>
endVars == <<failed, closer>>
countVars == <<drawn, dropped>>
vars == <<now, ringVars, sourceVars, textureVars, glVars, frameVars, endVars, gpu, countVars>>

Ring == 0 .. Capacity - 1
Later(a, b) == IF a > b THEN a ELSE b

\* initialize() has succeeded: the upscaler is closed at once when it fails.
Init ==
    /\ now = 1
    /\ timestamps = [i \in Ring |-> 0] /\ targets = [i \in Ring |-> 0]
    /\ head = 0 /\ size = 0 /\ overflow = 0
    /\ lastTimestamp = 0 /\ consumedTimestamp = 0
    /\ releasing = 0 /\ released = 0 /\ onWay = <<>> /\ asked = {} /\ lost = FALSE
    /\ waiting = 0 /\ latched = 0
    /\ gl = "idle" /\ callbacks = 0 /\ polls = 0
    /\ frame = [timestamp |-> 0, target |-> 0, drops |-> 0]
    /\ frameAvailable = FALSE /\ fence = "none" /\ workStart = 0
    /\ failed = FALSE /\ gpu = "ok" /\ closer = "no"
    /\ drawn = 0 /\ dropped = 0

Tick ==
    /\ now < MaxNow
    /\ now' = now + 1
    /\ UNCHANGED <<ringVars, sourceVars, textureVars, glVars, frameVars, endVars, gpu, countVars>>

-----------------------------------------------------------------------------
(* releaseOutputFrame, on the one decoder thread that presents *)

\* Each frame gets a timestamp of its own.  A full ring drops its oldest frame.
\* The n-th frame is due at time n: targets are only told apart.
Release ==
    /\ closer = "no" /\ ~failed
    /\ releasing = 0 /\ released < MaxFrames
    /\ LET full == size = Capacity
           first == IF full THEN (head + 1) % Capacity ELSE head
           kept == IF full THEN size - 1 ELSE size
           tail == (first + kept) % Capacity
           token == Later(now, lastTimestamp + 1)
       IN
       /\ head' = first /\ size' = kept + 1
       /\ overflow' = IF full THEN overflow + 1 ELSE overflow
       /\ timestamps' = [timestamps EXCEPT ![tail] = token]
       /\ targets' = [targets EXCEPT ![tail] = released + 1]
       /\ lastTimestamp' = token
       /\ releasing' = token
       /\ asked' = asked \cup {<<token, released + 1>>}
    /\ released' = released + 1
    /\ UNCHANGED <<now, consumedTimestamp, onWay, lost, textureVars, glVars, frameVars,
                   endVars, gpu, countVars>>

\* videoDecoder.releaseOutputBuffer, which may throw: the frame is lost, and the
\* recovery that follows gives up the upscaler (GiveUp).
ReleaseBuffer ==
    /\ releasing # 0
    /\ releasing' = 0
    /\ \/ onWay' = Append(onWay, releasing) /\ UNCHANGED lost
       \/ lost' = TRUE /\ UNCHANGED onWay
    /\ UNCHANGED <<now, ringVars, released, asked, textureVars, glVars, frameVars, endVars, gpu,
                   countVars>>

\* A buffer replaces one that nobody has latched, with or without a callback.
Arrive ==
    /\ onWay # <<>> /\ gl # "gone"
    /\ onWay' = Tail(onWay)
    /\ waiting' = Head(onWay)
    /\ \/ callbacks' = callbacks + 1
       \/ waiting # 0 /\ UNCHANGED callbacks
    /\ UNCHANGED <<now, ringVars, releasing, released, asked, lost, latched, gl, polls, frameVars,
                   endVars, gpu, countVars>>

-----------------------------------------------------------------------------
(* the upscaling thread *)

Working == closer = "no" /\ ~failed

\* pollCompletion with a fence.  It is signalled, which may have taken too long
\* once too often; it is not, and is polled again; or that is a stall, or the
\* wait itself fails, and the fence is kept.
PollFence(kept, wanted) ==
    \/ /\ fence = "signalled"
       /\ fence' = "none" /\ workStart' = 0
       /\ failed' \in BOOLEAN
       /\ gl' = IF wanted /\ ~failed' THEN "latch" ELSE "idle"
       /\ polls' = kept
    \/ /\ fence = "pending"
       /\ polls' = kept + 1
       /\ gl' = "idle"
       /\ UNCHANGED <<failed, fence, workStart>>
    \/ /\ failed' = TRUE
       /\ polls' = kept
       /\ gl' = "idle"
       /\ UNCHANGED <<fence, workStart>>

\* A callback polls the fence itself, in place of the message in the queue, and
\* draws when there is no fence left.
OnFrameAvailable ==
    /\ gl = "idle" /\ callbacks > 0
    /\ callbacks' = callbacks - 1
    /\ IF ~Working
       THEN UNCHANGED <<gl, polls, frameAvailable, fence, workStart, failed>>
       ELSE /\ frameAvailable' = TRUE
            /\ IF fence = "none"
               THEN gl' = "latch" /\ polls' = 0 /\ UNCHANGED <<fence, workStart, failed>>
               ELSE PollFence(0, TRUE)
    /\ UNCHANGED <<now, ringVars, sourceVars, textureVars, frame, closer, gpu, countVars>>

\* Mutant: the frame that came while the fence was pending waits for the next.
PollUndrawn ==
    /\ gl = "idle" /\ polls > 0
    /\ IF Working /\ fence # "none"
       THEN PollFence(polls - 1, FALSE)
       ELSE polls' = polls - 1 /\ UNCHANGED <<gl, fence, workStart, failed>>
    /\ UNCHANGED <<now, ringVars, sourceVars, textureVars, callbacks, frame, frameAvailable,
                   closer, gpu, countVars>>

\* The posted pollCompletion.
Poll ==
    /\ gl = "idle" /\ polls > 0
    /\ IF Working /\ fence # "none"
       THEN PollFence(polls - 1, frameAvailable)
       ELSE polls' = polls - 1 /\ UNCHANGED <<gl, fence, workStart, failed>>
    /\ UNCHANGED <<now, ringVars, sourceVars, textureVars, callbacks, frame, frameAvailable,
                   closer, gpu, countVars>>

\* drawFrame: updateTexImage, which may throw ...
Latch ==
    /\ gl = "latch"
    /\ frameAvailable' = FALSE
    /\ \/ /\ latched' = IF waiting = 0 THEN latched ELSE waiting
          /\ waiting' = 0
          /\ gl' = "consume" /\ UNCHANGED failed
       \/ failed' = TRUE /\ gl' = "idle" /\ UNCHANGED textureVars
    /\ UNCHANGED <<now, ringVars, sourceVars, callbacks, polls, frame, fence, workStart, closer,
                   gpu, countVars>>

Slot(skipped) == (head + skipped) % Capacity
Matches == {skipped \in 0 .. size - 1 : timestamps[Slot(skipped)] = latched}

\* Mutant: the target of the oldest frame, not of the one that was latched.
ConsumeOldest ==
    /\ gl = "consume"
    /\ IF latched > consumedTimestamp /\ Matches # {}
       THEN \E skipped \in Matches :
              /\ frame' = [timestamp |-> latched, target |-> targets[head],
                           drops |-> skipped + overflow]
              /\ head' = (Slot(skipped) + 1) % Capacity
              /\ size' = size - (skipped + 1)
              /\ overflow' = 0
              /\ consumedTimestamp' = latched
              /\ workStart' = latched
              /\ gl' = "draw"
              /\ drawn' = drawn + 1 /\ dropped' = dropped + skipped + overflow
       ELSE gl' = "idle" /\ UNCHANGED <<frame, head, size, overflow, consumedTimestamp, workStart,
                                        countVars>>
    /\ UNCHANGED <<now, timestamps, targets, lastTimestamp, sourceVars, textureVars, callbacks,
                   polls, frameAvailable, fence, endVars, gpu>>

\* Mutant: the frames skipped stay in the ring.
ConsumeAlone ==
    /\ gl = "consume"
    /\ IF latched > consumedTimestamp /\ Matches # {}
       THEN \E skipped \in Matches :
              /\ frame' = [timestamp |-> latched, target |-> targets[Slot(skipped)],
                           drops |-> skipped + overflow]
              /\ head' = (head + 1) % Capacity
              /\ size' = size - 1
              /\ overflow' = 0
              /\ consumedTimestamp' = latched
              /\ workStart' = latched
              /\ gl' = "draw"
              /\ drawn' = drawn + 1 /\ dropped' = dropped + skipped + overflow
       ELSE gl' = "idle" /\ UNCHANGED <<frame, head, size, overflow, consumedTimestamp, workStart,
                                        countVars>>
    /\ UNCHANGED <<now, timestamps, targets, lastTimestamp, sourceVars, textureVars, callbacks,
                   polls, frameAvailable, fence, endVars, gpu>>

\* ... and the frame with the timestamp that was latched, which goes from the
\* ring with those before it.  A timestamp is in the ring at most once.
Consume ==
    /\ gl = "consume"
    /\ IF latched > consumedTimestamp /\ Matches # {}
       THEN \E skipped \in Matches :
              /\ frame' = [timestamp |-> latched, target |-> targets[Slot(skipped)],
                           drops |-> skipped + overflow]
              /\ head' = (Slot(skipped) + 1) % Capacity
              /\ size' = size - (skipped + 1)
              /\ overflow' = 0
              /\ consumedTimestamp' = latched
              /\ workStart' = latched
              /\ gl' = "draw"
              /\ drawn' = drawn + 1 /\ dropped' = dropped + skipped + overflow
       ELSE gl' = "idle" /\ UNCHANGED <<frame, head, size, overflow, consumedTimestamp, workStart,
                                        countVars>>
    /\ UNCHANGED <<now, timestamps, targets, lastTimestamp, sourceVars, textureVars, callbacks,
                   polls, frameAvailable, fence, endVars, gpu>>

\* The draw, its fence and the swap, each of which may fail.  A hung GPU blocks
\* the swap.
Draw ==
    /\ gl = "draw"
    /\ \/ failed' = TRUE /\ gl' = "idle" /\ fence' \in {"none", "pending"}
       \/ gpu = "ok" /\ gl' = "poll" /\ fence' = "pending" /\ UNCHANGED failed
    /\ UNCHANGED <<now, ringVars, sourceVars, textureVars, callbacks, polls, frame,
                   frameAvailable, workStart, closer, gpu, countVars>>

\* drawFrame ends with a pollCompletion of its own.
PollDrawn ==
    /\ gl = "poll"
    /\ IF Working THEN PollFence(polls, frameAvailable)
       ELSE gl' = "idle" /\ UNCHANGED <<polls, fence, workStart, failed>>
    /\ UNCHANGED <<now, ringVars, sourceVars, textureVars, callbacks, frame, frameAvailable,
                   closer, gpu, countVars>>

-----------------------------------------------------------------------------
(* the GPU *)

Completes ==
    /\ fence = "pending" /\ gpu = "ok"
    /\ fence' = "signalled"
    /\ UNCHANGED <<now, ringVars, sourceVars, textureVars, glVars, frame, frameAvailable,
                   workStart, endVars, gpu, countVars>>

Hangs ==
    /\ gpu = "ok"
    /\ gpu' = "hung"
    /\ UNCHANGED <<now, ringVars, sourceVars, textureVars, glVars, frameVars, endVars, countVars>>

-----------------------------------------------------------------------------
(* failure and end *)

\* checkHealth: the render thread finds a draw, or a frame that is not drawn,
\* older than it may be.
CheckHealth ==
    /\ Working
    /\ workStart # 0 \/ size > 0
    /\ failed' = TRUE
    /\ UNCHANGED <<now, ringVars, sourceVars, textureVars, glVars, frameVars, closer, gpu,
                   countVars>>

\* HDR, another size or a recovery of the codec.
GiveUp ==
    /\ Working
    /\ failed' = TRUE
    /\ UNCHANGED <<now, ringVars, sourceVars, textureVars, glVars, frameVars, closer, gpu,
                   countVars>>

\* close(), by a recovery or at the end of the stream: no thread of the decoder
\* is releasing a buffer then.
Close ==
    /\ closer = "no" /\ releasing = 0
    /\ closer' = "joining"
    /\ UNCHANGED <<now, ringVars, sourceVars, textureVars, glVars, frameVars, failed, gpu,
                   countVars>>

CloseRuns ==
    /\ closer = "joining" /\ gl = "idle"
    /\ gl' = "gone" /\ polls' = 0
    /\ UNCHANGED <<now, ringVars, sourceVars, textureVars, callbacks, frameVars, endVars, gpu,
                   countVars>>

Joined ==
    /\ closer = "joining" /\ gl = "gone"
    /\ closer' = "back"
    /\ UNCHANGED <<now, ringVars, sourceVars, textureVars, glVars, frameVars, failed, gpu,
                   countVars>>

-----------------------------------------------------------------------------

UpscalingThread ==
    \/ OnFrameAvailable \/ Poll \/ Latch \/ Consume \/ Draw \/ PollDrawn \/ CloseRuns

Next ==
    \/ Tick \/ Release \/ ReleaseBuffer \/ Arrive
    \/ UpscalingThread \/ Completes \/ Hangs
    \/ CheckHealth \/ GiveUp \/ Close \/ Joined

Spec == Init /\ [][Next]_vars

\* The thread runs unless a hung GPU holds it, a GPU that does not hang draws,
\* what was released comes to the texture and a close comes to its end.
FairSpec ==
    /\ Spec
    /\ WF_vars(UpscalingThread /\ (gl # "draw" \/ gpu = "ok"))
    /\ WF_vars(Completes)
    /\ WF_vars(ReleaseBuffer)
    /\ WF_vars(Arrive)
    /\ WF_vars(Joined)

-----------------------------------------------------------------------------
(* properties *)

TypeOK ==
    /\ now \in Nat /\ releasing \in Nat /\ released \in Nat
    /\ head \in Ring /\ size \in Nat /\ size <= Capacity /\ overflow \in Nat
    /\ lastTimestamp \in Nat /\ consumedTimestamp \in Nat
    /\ timestamps \in [Ring -> Nat] /\ targets \in [Ring -> Nat]
    /\ waiting \in Nat /\ latched \in Nat
    /\ callbacks \in Nat /\ polls \in Nat /\ workStart \in Nat
    /\ drawn \in Nat /\ dropped \in Nat
    /\ onWay \in Seq(Nat) /\ asked \subseteq Nat \X Nat
    /\ gl \in {"idle", "latch", "consume", "draw", "poll", "gone"}
    /\ frame \in [timestamp : Nat, target : Nat, drops : Nat]
    /\ fence \in {"none", "pending", "signalled"}
    /\ frameAvailable \in BOOLEAN /\ failed \in BOOLEAN /\ lost \in BOOLEAN
    /\ gpu \in {"ok", "hung"} /\ closer \in {"no", "joining", "back"}

\* Every frame that was released is drawn, counted as dropped by a frame that was
\* drawn, waits in the ring or was pushed out of it since, and is only one of
\* these, however the texture coalesces frames and however the ring wraps.
FramesAreAccounted == drawn + dropped + size + overflow = released

\* A frame goes to the display at the time it was released for: the target that
\* is found belongs to the buffer that was latched, and to that one alone.
DeadlineIsOwn ==
    gl = "draw" => /\ frame.timestamp = latched
                   /\ {a \in asked : a[1] = latched} = {<<latched, frame.target>>}

\* Between two messages the thread has exactly one poll of its fence posted,
\* or no fence, no poll and no work that checkHealth() could take for a stall.
PollFollowsFence ==
    gl = "idle" /\ Working =>
        IF fence = "none" THEN polls = 0 /\ workStart = 0 ELSE polls = 1 /\ workStart # 0

\* The newest buffer of the texture is drawn, also when it came while the GPU
\* was at the one before it, unless the upscaler is given up, or is about to be
\* after a buffer was lost, or the GPU hangs.
NewestIsDrawn ==
    \A t \in 1 .. MaxNow + MaxFrames :
        waiting = t ~> (consumedTimestamp >= t \/ ~Working \/ gpu = "hung" \/ lost)
=============================================================================
