------------------------ MODULE GlesUpscaler_proofs ------------------------
(***************************************************************************)
(* That every frame is accounted for, that a frame is shown at the time of *)
(* its own buffer, and that the fence of a draw is polled by one message:  *)
(* for a ring of any size, any number of frames and any clock.             *)
(*                                                                         *)
(* DeadlineIsOwn rests on RingAgrees, which holds of every slot of the     *)
(* ring, also of those outside its window: what stands there was released  *)
(* once, and no two frames were released with one timestamp.               *)
(* PollFollowsFence speaks of the thread between two messages;             *)
(* FenceAgrees says what holds in the middle of one.                       *)
(***************************************************************************)
EXTENDS GlesUpscaler, TLAPS

RingAgrees ==
    /\ \A a \in asked : a[1] <= lastTimestamp
    /\ \A a, b \in asked : a[1] = b[1] => a = b
    /\ \A i \in Ring : timestamps[i] # 0 => <<timestamps[i], targets[i]>> \in asked

FenceAgrees ==
    /\ gl = "gone" => closer # "no"
    /\ Working /\ gl \in {"latch", "consume", "draw"} => fence = "none" /\ polls = 0
    /\ Working /\ gl \in {"latch", "consume"} => workStart = 0
    /\ Working /\ gl = "draw" => workStart # 0
    /\ Working /\ gl = "poll" => fence # "none" /\ polls = 0 /\ workStart # 0

IInv ==
    /\ TypeOK /\ FramesAreAccounted /\ RingAgrees /\ DeadlineIsOwn
    /\ PollFollowsFence /\ FenceAgrees

\* The slot that is n further on is one of the ring.
LEMMA SlotsInRing ==
    ASSUME NEW i \in Ring, NEW n \in Nat
    PROVE  /\ (i + n) % Capacity \in Ring
           /\ i \in Nat
BY UpscalerAssumption DEF Ring

LEMMA InitIInv == Init => IInv
<1> SUFFICES ASSUME Init PROVE IInv
    OBVIOUS
<1>1. TypeOK
  <2>1. 0 \in Ring /\ 0 <= Capacity
      BY UpscalerAssumption DEF Ring
  <2>2. <<>> \in Seq(Nat)
      OBVIOUS
  <2>. QED
      BY <2>1, <2>2 DEF Init, TypeOK
<1>2. FramesAreAccounted /\ RingAgrees /\ DeadlineIsOwn /\ PollFollowsFence /\ FenceAgrees
    BY DEF Init, FramesAreAccounted, RingAgrees, DeadlineIsOwn, PollFollowsFence, FenceAgrees,
           Working
<1>. QED
    BY <1>1, <1>2 DEF IInv

-----------------------------------------------------------------------------
(* the ring *)

\* A frame goes into the ring at its tail, with a timestamp above all others.
LEMMA ReleaseIInv == IInv /\ Release => IInv'
<1> SUFFICES ASSUME IInv, Release PROVE IInv'
    OBVIOUS
<1> USE DEF IInv, TypeOK
<1> DEFINE full == size = Capacity
           first == IF full THEN (head + 1) % Capacity ELSE head
           kept == IF full THEN size - 1 ELSE size
           tail == (first + kept) % Capacity
           token == Later(now, lastTimestamp + 1)
           target == released + 1
<1>1. first \in Ring /\ kept \in Nat /\ kept + 1 <= Capacity
  <2>1. (head + 1) % Capacity \in Ring
      BY SlotsInRing
  <2>. QED
      BY <2>1, UpscalerAssumption
<1>2. tail \in Ring
    BY <1>1, SlotsInRing
<1>3. token \in Nat /\ token > lastTimestamp /\ target \in Nat
    BY DEF Later
<1>4. /\ head' = first /\ size' = kept + 1
      /\ overflow' = IF full THEN overflow + 1 ELSE overflow
      /\ timestamps' = [timestamps EXCEPT ![tail] = token]
      /\ targets' = [targets EXCEPT ![tail] = target]
      /\ lastTimestamp' = token /\ releasing' = token /\ released' = target
      /\ asked' = asked \cup {<<token, target>>}
      /\ UNCHANGED <<now, consumedTimestamp, onWay, lost, waiting, latched, gl, callbacks, polls,
                     frame, frameAvailable, fence, workStart, failed, closer, gpu, drawn, dropped>>
    BY DEF Release, textureVars, glVars, frameVars, endVars, countVars
<1> HIDE DEF first, kept, tail, token, target
<1>5. TypeOK'
  <2>1. timestamps' \in [Ring -> Nat] /\ targets' \in [Ring -> Nat]
      BY <1>2, <1>3, <1>4
  <2>2. asked' \subseteq Nat \X Nat
      BY <1>3, <1>4
  <2>3. head' \in Ring /\ size' \in Nat /\ size' <= Capacity /\ overflow' \in Nat
      BY <1>1, <1>4
  <2>4. lastTimestamp' \in Nat /\ releasing' \in Nat /\ released' \in Nat
      BY <1>3, <1>4
  <2>. QED
      BY <1>4, <2>1, <2>2, <2>3, <2>4
<1>6. FramesAreAccounted'
    BY <1>4 DEF FramesAreAccounted, kept, target
<1>7. RingAgrees'
  <2>1. \A a \in asked' : a[1] <= lastTimestamp'
      BY <1>3, <1>4 DEF RingAgrees
  <2>2. \A a, b \in asked' : a[1] = b[1] => a = b
    <3>1. \A a \in asked : a[1] \in Nat /\ a[1] # token
        BY <1>3 DEF RingAgrees
    <3>2. \A a \in asked' : a \in asked \/ a = <<token, target>>
        BY <1>4
    <3>3. <<token, target>>[1] = token
        OBVIOUS
    <3>. TAKE a, b \in asked'
    <3>4. CASE a \in asked /\ b \in asked
        BY <3>4 DEF RingAgrees
    <3>5. CASE a = <<token, target>> /\ b \in asked
        BY <3>1, <3>3, <3>5
    <3>6. CASE a \in asked /\ b = <<token, target>>
        BY <3>1, <3>3, <3>6
    <3>. QED
        BY <3>2, <3>4, <3>5, <3>6
  <2>3. \A i \in Ring : timestamps'[i] # 0 => <<timestamps'[i], targets'[i]>> \in asked'
      BY <1>2, <1>4 DEF RingAgrees
  <2>. QED
      BY <2>1, <2>2, <2>3 DEF RingAgrees
<1>8. DeadlineIsOwn'
  <2>1. gl = "draw" => <<latched, frame.target>> \in asked
      BY DEF DeadlineIsOwn
  <2>2. gl = "draw" => latched # token
      BY <1>3, <2>1 DEF RingAgrees
  <2>. QED
      BY <1>4, <2>2 DEF DeadlineIsOwn
<1>9. PollFollowsFence' /\ FenceAgrees'
    BY <1>4 DEF PollFollowsFence, FenceAgrees, Working
<1>. QED
    BY <1>5, <1>6, <1>7, <1>8, <1>9

\* The frame that was latched leaves the ring with those before it.
LEMMA ConsumeIInv == IInv /\ Consume => IInv'
<1> SUFFICES ASSUME IInv, Consume PROVE IInv'
    OBVIOUS
<1> USE DEF IInv, TypeOK
<1>1. UNCHANGED <<now, timestamps, targets, lastTimestamp, releasing, released, onWay, asked, lost,
                  waiting, latched, callbacks, polls, frameAvailable, fence, failed, closer, gpu>>
    BY DEF Consume, sourceVars, textureVars, endVars
<1>2. CASE latched > consumedTimestamp /\ Matches # {}
  <2>1. PICK skipped \in Matches :
           /\ frame' = [timestamp |-> latched, target |-> targets[Slot(skipped)],
                        drops |-> skipped + overflow]
           /\ head' = (Slot(skipped) + 1) % Capacity
           /\ size' = size - (skipped + 1)
           /\ overflow' = 0
           /\ consumedTimestamp' = latched
           /\ workStart' = latched
           /\ gl' = "draw"
           /\ drawn' = drawn + 1 /\ dropped' = dropped + skipped + overflow
      BY <1>2 DEF Consume
  <2>2. skipped \in Nat /\ skipped < size /\ timestamps[Slot(skipped)] = latched
      BY DEF Matches
  <2>3. Slot(skipped) \in Ring
      BY <2>2, SlotsInRing DEF Slot
  <2>4. head' \in Ring
      BY <2>1, <2>3, SlotsInRing
  <2>5. targets[Slot(skipped)] \in Nat /\ <<latched, targets[Slot(skipped)]>> \in asked
      BY <1>2, <2>2, <2>3 DEF RingAgrees
  <2>6. TypeOK'
    <3>1. /\ size' \in Nat /\ size' <= Capacity /\ overflow' \in Nat
          /\ drawn' \in Nat /\ dropped' \in Nat
        BY <2>1, <2>2, UpscalerAssumption
    <3>2. /\ frame' \in [timestamp : Nat, target : Nat, drops : Nat]
          /\ consumedTimestamp' \in Nat /\ workStart' \in Nat
        BY <2>1, <2>2, <2>5
    <3>3. /\ now' \in Nat /\ releasing' \in Nat /\ released' \in Nat /\ lastTimestamp' \in Nat
          /\ timestamps' \in [Ring -> Nat] /\ targets' \in [Ring -> Nat]
          /\ waiting' \in Nat /\ latched' \in Nat /\ callbacks' \in Nat /\ polls' \in Nat
          /\ onWay' \in Seq(Nat) /\ asked' \subseteq Nat \X Nat
        BY <1>1
    <3>4. /\ fence' \in {"none", "pending", "signalled"}
          /\ frameAvailable' \in BOOLEAN /\ failed' \in BOOLEAN /\ lost' \in BOOLEAN
          /\ gpu' \in {"ok", "hung"} /\ closer' \in {"no", "joining", "back"}
        BY <1>1
    <3>5. gl' \in {"idle", "latch", "consume", "draw", "poll", "gone"}
        BY <2>1
    <3>. QED
        BY <2>4, <3>1, <3>2, <3>3, <3>4, <3>5
  <2>7. FramesAreAccounted'
      BY <1>1, <2>1, <2>2 DEF FramesAreAccounted
  <2>8. RingAgrees'
      BY <1>1 DEF RingAgrees
  <2>9. DeadlineIsOwn'
    <3>1. {a \in asked : a[1] = latched} = {<<latched, targets[Slot(skipped)]>>}
      <4>1. \A a \in asked : a[1] = latched => a = <<latched, targets[Slot(skipped)]>>
          BY <2>5 DEF RingAgrees
      <4>2. <<latched, targets[Slot(skipped)]>>[1] = latched
          OBVIOUS
      <4>. QED
          BY <4>1, <4>2, <2>5, Zenon
    <3>. QED
        BY <1>1, <2>1, <3>1 DEF DeadlineIsOwn
  <2>10. PollFollowsFence' /\ FenceAgrees'
      BY <1>1, <1>2, <2>1 DEF PollFollowsFence, FenceAgrees, Working, Consume
  <2>. QED
      BY <2>6, <2>7, <2>8, <2>9, <2>10
<1>3. CASE ~(latched > consumedTimestamp /\ Matches # {})
  <2>1. /\ gl' = "idle"
        /\ UNCHANGED <<frame, head, size, overflow, consumedTimestamp, workStart, drawn, dropped>>
      BY <1>3 DEF Consume, countVars
  <2>2. TypeOK' /\ FramesAreAccounted' /\ RingAgrees' /\ DeadlineIsOwn'
      BY <1>1, <2>1 DEF FramesAreAccounted, RingAgrees, DeadlineIsOwn
  <2>3. PollFollowsFence' /\ FenceAgrees'
      BY <1>1, <2>1 DEF PollFollowsFence, FenceAgrees, Working, Consume
  <2>. QED
      BY <2>2, <2>3
<1>. QED
    BY <1>2, <1>3

-----------------------------------------------------------------------------
(* the steps that leave the ring alone *)

RingStays ==
    UNCHANGED <<timestamps, targets, head, size, overflow, lastTimestamp, released, asked, drawn,
                dropped>>

LEMMA RingStaysAgrees ==
    IInv /\ RingStays => FramesAreAccounted' /\ RingAgrees'
BY DEF IInv, RingStays, FramesAreAccounted, RingAgrees

\* The fence is looked at: it is gone, or polled once more.
LEMMA PollFencePolls ==
    ASSUME IInv, NEW wanted \in BOOLEAN, PollFence(0, wanted), workStart # 0,
           fence # "none", ~failed
    PROVE  /\ fence' \in {"none", "pending", "signalled"} /\ gl' \in {"idle", "latch"}
           /\ workStart' \in Nat /\ polls' \in Nat /\ failed' \in BOOLEAN
           /\ ~failed' /\ fence' = "none" => polls' = 0 /\ workStart' = 0
           /\ ~failed' /\ fence' # "none" => polls' = 1 /\ workStart' # 0 /\ gl' = "idle"
<1>1. CASE /\ fence = "signalled" /\ fence' = "none" /\ workStart' = 0
           /\ failed' \in BOOLEAN
           /\ gl' = IF wanted /\ ~failed' THEN "latch" ELSE "idle"
           /\ polls' = 0
    BY <1>1 DEF IInv, TypeOK
<1>2. CASE fence = "pending" /\ failed' = failed /\ polls' = 0 + 1 /\ gl' = "idle"
           /\ fence' = fence /\ workStart' = workStart
    BY <1>2 DEF IInv, TypeOK
<1>3. CASE failed' = TRUE /\ polls' = 0 /\ gl' = "idle"
           /\ fence' = fence /\ workStart' = workStart
    BY <1>3 DEF IInv, TypeOK
<1>. QED
    BY <1>1, <1>2, <1>3 DEF PollFence

LEMMA SourceIInv == IInv /\ (Tick \/ ReleaseBuffer \/ Arrive) => IInv'
<1> SUFFICES ASSUME IInv, Tick \/ ReleaseBuffer \/ Arrive PROVE IInv'
    OBVIOUS
<1> USE DEF ringVars, sourceVars, textureVars, glVars, frameVars, endVars, countVars
<1>1. RingStays /\ UNCHANGED <<consumedTimestamp, latched, gl, polls, frame, frameAvailable, fence,
                               workStart, failed, closer, gpu>>
    BY DEF Tick, ReleaseBuffer, Arrive, RingStays
<1>2. TypeOK'
  <2>1. CASE Tick
      BY <2>1 DEF IInv, TypeOK, Tick
  <2>2. CASE ReleaseBuffer
    <3>1. onWay' \in Seq(Nat) /\ lost' \in BOOLEAN
      <4>1. CASE onWay' = Append(onWay, releasing) /\ lost' = lost
          BY <4>1 DEF IInv, TypeOK
      <4>2. CASE lost' = TRUE /\ onWay' = onWay
          BY <4>2 DEF IInv, TypeOK
      <4>. QED
          BY <2>2, <4>1, <4>2 DEF ReleaseBuffer
    <3>. QED
        BY <2>2, <3>1 DEF IInv, TypeOK, ReleaseBuffer
  <2>3. CASE Arrive
    <3>1. onWay \in Seq(Nat) /\ onWay # <<>> /\ callbacks \in Nat
        BY <2>3 DEF IInv, TypeOK, Arrive
    <3>2. Tail(onWay) \in Seq(Nat) /\ Head(onWay) \in Nat
        BY <3>1
    <3>3. callbacks' \in Nat
        BY <2>3, <3>1 DEF Arrive
    <3>. QED
        BY <2>3, <3>2, <3>3 DEF IInv, TypeOK, Arrive
  <2>. QED
      BY <2>1, <2>2, <2>3
<1>3. DeadlineIsOwn' /\ PollFollowsFence' /\ FenceAgrees'
    BY <1>1 DEF IInv, RingStays, DeadlineIsOwn, PollFollowsFence, FenceAgrees, Working
<1>. QED
    BY <1>1, <1>2, <1>3, RingStaysAgrees DEF IInv

\* A callback, a posted poll and the poll at the end of a draw.
LEMMA PollsIInv == IInv /\ (OnFrameAvailable \/ Poll \/ PollDrawn) => IInv'
<1> SUFFICES ASSUME IInv, OnFrameAvailable \/ Poll \/ PollDrawn PROVE IInv'
    OBVIOUS
<1> DEFINE Fences ==
             /\ fence' \in {"none", "pending", "signalled"} /\ gl' \in {"idle", "latch"}
             /\ workStart' \in Nat /\ polls' \in Nat /\ failed' \in BOOLEAN
             /\ Working' /\ fence' = "none" => polls' = 0 /\ workStart' = 0
             /\ Working' /\ fence' # "none" => polls' = 1 /\ workStart' # 0 /\ gl' = "idle"
<1>1. /\ RingStays
      /\ UNCHANGED <<now, consumedTimestamp, releasing, onWay, lost, waiting, latched, frame,
                     closer, gpu>>
    BY DEF OnFrameAvailable, Poll, PollDrawn, RingStays, ringVars, sourceVars, textureVars,
           countVars
<1>2. ASSUME OnFrameAvailable
     PROVE  callbacks' \in Nat /\ frameAvailable' \in BOOLEAN /\ Fences
  <2>1. callbacks' \in Nat /\ frameAvailable' \in BOOLEAN
    <3>1. callbacks > 0 /\ callbacks' = callbacks - 1
        BY <1>2 DEF OnFrameAvailable
    <3>2. frameAvailable' = TRUE \/ frameAvailable' = frameAvailable
        BY <1>2 DEF OnFrameAvailable
    <3>3. callbacks' \in Nat
        BY <3>1 DEF IInv, TypeOK
    <3>4. CASE frameAvailable' = TRUE
        BY <3>3, <3>4
    <3>5. CASE frameAvailable' = frameAvailable
        BY <3>3, <3>5 DEF IInv, TypeOK
    <3>. QED
        BY <3>2, <3>4, <3>5
  <2>2. Fences
    <3>1. CASE ~Working
        BY <1>1, <1>2, <3>1 DEF OnFrameAvailable, IInv, TypeOK, Working
    <3>2. CASE Working /\ fence = "none"
        BY <1>1, <1>2, <3>2 DEF OnFrameAvailable, IInv, TypeOK, Working, PollFollowsFence
    <3>3. CASE Working /\ fence # "none"
      <4>1. PollFence(0, TRUE) /\ workStart # 0 /\ ~failed
          BY <1>2, <3>3 DEF OnFrameAvailable, IInv, Working, PollFollowsFence
      <4>. QED
          BY <1>1, <3>3, <4>1, PollFencePolls DEF Working
    <3>. QED
        BY <3>1, <3>2, <3>3
  <2>. QED
      BY <2>1, <2>2
<1>3. ASSUME Poll
     PROVE  callbacks' \in Nat /\ frameAvailable' \in BOOLEAN /\ Fences
  <2>1. callbacks' \in Nat /\ frameAvailable' \in BOOLEAN
      BY <1>3 DEF Poll, IInv, TypeOK
  <2>2. Fences
    <3>1. CASE ~(Working /\ fence # "none")
        BY <1>1, <1>3, <3>1 DEF Poll, IInv, TypeOK, Working, PollFollowsFence
    <3>2. CASE Working /\ fence # "none"
      <4>1. PollFence(0, frameAvailable) /\ workStart # 0 /\ ~failed
          BY <1>3, <3>2 DEF Poll, IInv, Working, PollFollowsFence
      <4>2. frameAvailable \in BOOLEAN
          BY DEF IInv, TypeOK
      <4>. QED
          BY <1>1, <3>2, <4>1, <4>2, PollFencePolls DEF Working
    <3>. QED
        BY <3>1, <3>2
  <2>. QED
      BY <2>1, <2>2
<1>4. ASSUME PollDrawn
     PROVE  callbacks' \in Nat /\ frameAvailable' \in BOOLEAN /\ Fences
  <2>1. callbacks' \in Nat /\ frameAvailable' \in BOOLEAN
      BY <1>4 DEF PollDrawn, IInv, TypeOK
  <2>2. Fences
    <3>1. CASE ~Working
        BY <1>1, <1>4, <3>1 DEF PollDrawn, IInv, TypeOK, Working
    <3>2. CASE Working
      <4>1. PollFence(0, frameAvailable) /\ workStart # 0 /\ ~failed /\ fence # "none"
          BY <1>4, <3>2 DEF PollDrawn, IInv, Working, FenceAgrees
      <4>2. frameAvailable \in BOOLEAN
          BY DEF IInv, TypeOK
      <4>. QED
          BY <1>1, <4>1, <4>2, PollFencePolls DEF Working
    <3>. QED
        BY <3>1, <3>2
  <2>. QED
      BY <2>1, <2>2
<1>5. callbacks' \in Nat /\ frameAvailable' \in BOOLEAN /\ Fences
    BY <1>2, <1>3, <1>4
<1>6. TypeOK'
    BY <1>1, <1>5 DEF IInv, TypeOK, RingStays
<1>7. DeadlineIsOwn' /\ PollFollowsFence' /\ FenceAgrees'
    BY <1>5 DEF DeadlineIsOwn, PollFollowsFence, FenceAgrees
<1>. QED
    BY <1>1, <1>6, <1>7, RingStaysAgrees DEF IInv

\* The newest buffer is latched and drawn, or one of the two fails.
LEMMA DrawIInv == IInv /\ (Latch \/ Draw) => IInv'
<1> SUFFICES ASSUME IInv, Latch \/ Draw PROVE IInv'
    OBVIOUS
<1>1. /\ RingStays
      /\ UNCHANGED <<now, consumedTimestamp, releasing, onWay, lost, callbacks, polls, frame,
                     workStart, closer, gpu>>
    BY DEF Latch, Draw, RingStays, ringVars, sourceVars, textureVars, countVars
<1>2. CASE Latch
  <2>1. frameAvailable' = FALSE /\ fence' = fence
      BY <1>2 DEF Latch
  <2>2. \/ /\ waiting' = 0 /\ latched' \in {latched, waiting}
           /\ gl' = "consume" /\ failed' = failed
        \/ failed' = TRUE /\ gl' = "idle" /\ latched' = latched /\ waiting' = waiting
      BY <1>2 DEF Latch, textureVars
  <2>3. TypeOK'
    <3>1. /\ waiting' \in Nat /\ latched' \in Nat
          /\ gl' \in {"idle", "latch", "consume", "draw", "poll", "gone"}
        BY <2>2 DEF IInv, TypeOK
    <3>2. failed' \in BOOLEAN
      <4>1. CASE failed' = TRUE
          BY <4>1
      <4>2. CASE failed' = failed
          BY <4>2 DEF IInv, TypeOK
      <4>. QED
          BY <2>2, <4>1, <4>2
    <3>. QED
        BY <1>1, <2>1, <3>1, <3>2 DEF IInv, TypeOK, RingStays
  <2>4. DeadlineIsOwn'
      BY <2>2 DEF DeadlineIsOwn
  <2>5. PollFollowsFence' /\ FenceAgrees'
    <3>1. CASE gl' = "consume" /\ failed' = failed
        BY <1>1, <1>2, <2>1, <3>1 DEF IInv, Latch, PollFollowsFence, FenceAgrees, Working
    <3>2. CASE gl' = "idle" /\ failed' = TRUE
        BY <3>2 DEF PollFollowsFence, FenceAgrees, Working
    <3>. QED
        BY <2>2, <3>1, <3>2
  <2>. QED
      BY <1>1, <2>3, <2>4, <2>5, RingStaysAgrees DEF IInv
<1>3. CASE Draw
  <2>1. waiting' = waiting /\ latched' = latched /\ frameAvailable' = frameAvailable
      BY <1>3 DEF Draw, textureVars
  <2>2. /\ fence' \in {"none", "pending"}
        /\ \/ failed' = TRUE /\ gl' = "idle"
           \/ gl' = "poll" /\ fence' = "pending" /\ failed' = failed
      BY <1>3 DEF Draw
  <2>3. TypeOK'
    <3>1. /\ fence' \in {"none", "pending", "signalled"}
          /\ gl' \in {"idle", "latch", "consume", "draw", "poll", "gone"}
        BY <2>2
    <3>2. failed' \in BOOLEAN
      <4>1. CASE failed' = TRUE
          BY <4>1
      <4>2. CASE failed' = failed
          BY <4>2 DEF IInv, TypeOK
      <4>. QED
          BY <2>2, <4>1, <4>2
    <3>. QED
        BY <1>1, <2>1, <3>1, <3>2 DEF IInv, TypeOK, RingStays
  <2>4. DeadlineIsOwn'
      BY <2>2 DEF DeadlineIsOwn
  <2>5. PollFollowsFence' /\ FenceAgrees'
    <3>1. CASE gl' = "poll" /\ fence' = "pending" /\ failed' = failed
        BY <1>1, <1>3, <3>1 DEF IInv, Draw, PollFollowsFence, FenceAgrees, Working
    <3>2. CASE gl' = "idle" /\ failed' = TRUE
        BY <3>2 DEF PollFollowsFence, FenceAgrees, Working
    <3>. QED
        BY <2>2, <3>1, <3>2
  <2>. QED
      BY <1>1, <2>3, <2>4, <2>5, RingStaysAgrees DEF IInv
<1>. QED
    BY <1>2, <1>3

\* The GPU, and what makes the renderer give up or close the upscaler: none of
\* these makes a fence come or go.
LEMMA EndIInv ==
    IInv /\ (Completes \/ Hangs \/ CheckHealth \/ GiveUp \/ Close \/ CloseRuns \/ Joined) => IInv'
<1> SUFFICES ASSUME IInv,
                    Completes \/ Hangs \/ CheckHealth \/ GiveUp \/ Close \/ CloseRuns \/ Joined
             PROVE  IInv'
    OBVIOUS
<1> USE DEF Completes, Hangs, CheckHealth, GiveUp, Close, CloseRuns, Joined
<1>1. /\ RingStays
      /\ UNCHANGED <<now, consumedTimestamp, releasing, onWay, lost, waiting, latched, callbacks,
                     frame, frameAvailable, workStart>>
    BY DEF RingStays, ringVars, sourceVars, textureVars, glVars, frameVars, countVars
<1>2. \/ fence' = fence
      \/ fence = "pending" /\ fence' = "signalled"
  <2>1. CASE Completes
      BY <2>1
  <2>2. CASE Hangs \/ CheckHealth \/ GiveUp \/ Close \/ CloseRuns \/ Joined
    <3>1. UNCHANGED frameVars
        BY <2>2
    <3>. QED
        BY <3>1 DEF frameVars
  <2>. QED
      BY <2>1, <2>2
<1>3. failed' = failed \/ failed' = TRUE
    BY DEF endVars
<1>4. \/ gl' = gl /\ polls' = polls
      \/ gl' = "gone" /\ polls' = 0 /\ closer' = closer /\ closer = "joining"
    BY DEF glVars, endVars
<1>5. closer' = closer \/ closer' \in {"joining", "back"}
    BY DEF endVars
<1>6. gpu' = gpu \/ gpu' = "hung"
    OBVIOUS
<1>7. TypeOK'
  <2>1. failed' \in BOOLEAN
      BY <1>3 DEF IInv, TypeOK
  <2>2. fence' \in {"none", "pending", "signalled"} /\ gpu' \in {"ok", "hung"}
      BY <1>2, <1>6 DEF IInv, TypeOK
  <2>3. /\ gl' \in {"idle", "latch", "consume", "draw", "poll", "gone"} /\ polls' \in Nat
        /\ closer' \in {"no", "joining", "back"}
      BY <1>4, <1>5 DEF IInv, TypeOK
  <2>. QED
      BY <1>1, <2>1, <2>2, <2>3 DEF IInv, TypeOK, RingStays
<1>8. DeadlineIsOwn'
    BY <1>1, <1>4 DEF IInv, DeadlineIsOwn, RingStays
<1>9. PollFollowsFence' /\ FenceAgrees'
  <2>1. CASE failed' = TRUE
    <3>1. ~Working'
        BY <2>1 DEF Working
    <3>. QED
        BY <1>4, <1>5, <3>1 DEF IInv, TypeOK, PollFollowsFence, FenceAgrees
  <2>2. CASE failed' = failed
      BY <1>1, <1>2, <1>4, <1>5, <2>2 DEF IInv, PollFollowsFence, FenceAgrees, Working
  <2>. QED
      BY <1>3, <2>1, <2>2
<1>. QED
    BY <1>1, <1>7, <1>8, <1>9, RingStaysAgrees DEF IInv

LEMMA NextIInv == IInv /\ [Next]_vars => IInv'
<1> SUFFICES ASSUME IInv, [Next]_vars PROVE IInv'
    OBVIOUS
<1>1. CASE Next
    BY <1>1, ReleaseIInv, ConsumeIInv, SourceIInv, PollsIInv, DrawIInv, EndIInv
    DEF Next, UpscalingThread
<1>2. CASE UNCHANGED vars
  <2>1. RingStays
      BY <1>2 DEF RingStays, vars, ringVars, sourceVars, countVars
  <2>2. TypeOK' /\ DeadlineIsOwn' /\ PollFollowsFence' /\ FenceAgrees'
      BY <1>2 DEF IInv, TypeOK, DeadlineIsOwn, PollFollowsFence, FenceAgrees, Working, vars,
                  ringVars, sourceVars, textureVars, glVars, frameVars, endVars, countVars
  <2>. QED
      BY <2>1, <2>2, RingStaysAgrees DEF IInv
<1>. QED
    BY <1>1, <1>2

LEMMA Invariance == Spec => []IInv
<1>. QED
    BY InitIInv, NextIInv, PTL DEF Spec

\* The ring, the fence and every counter keep their types and bounds.
THEOREM TypeCorrect == Spec => []TypeOK
<1>1. IInv => TypeOK
    BY DEF IInv
<1>. QED
    BY <1>1, Invariance, PTL

\* The queue loses count of no frame: however often it overflows and however
\* many frames a texture skips, each is drawn, dropped or still waiting.
THEOREM FramesStayAccounted == Spec => []FramesAreAccounted
<1>1. IInv => FramesAreAccounted
    BY DEF IInv
<1>. QED
    BY <1>1, Invariance, PTL

\* The time a frame is presented at is the one its own buffer was released for,
\* though the only thing the texture tells of a buffer is its timestamp.
THEOREM DeadlinesStayOwn == Spec => []DeadlineIsOwn
<1>1. IInv => DeadlineIsOwn
    BY DEF IInv
<1>. QED
    BY <1>1, Invariance, PTL

\* The callbacks take the posted poll away and put it back: between two messages
\* a draw is always polled, and nothing else is.
THEOREM PollsFollowFence == Spec => []PollFollowsFence
<1>1. IInv => PollFollowsFence
    BY DEF IInv
<1>. QED
    BY <1>1, Invariance, PTL
=============================================================================
