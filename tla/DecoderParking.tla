--------------------------- MODULE DecoderParking ---------------------------
(***************************************************************************)
(* How a video codec survives a reconnect (DecoderParking): the renderer   *)
(* of the dead connection parks its codec, and the renderer of the next    *)
(* attempt takes it back if it fits the stream.                            *)
(*                                                                         *)
(* Two threads meet here.  The native core's runs setup() and cleanup() of *)
(* one renderer after the other, under the monitor StreamSession models;   *)
(* the UI thread (Game) opens the parking when a reconnect begins, and     *)
(* closes it when the reconnect is over, whatever the renderers are doing. *)
(* What the codec does in between is CodecRecovery.                        *)
(***************************************************************************)
EXTENDS Naturals

CONSTANTS
    Codecs,             \* the codecs the platform can create, one after another
    Formats,            \* decoder, size, video format and surface of a stream
    MaxAttempts,        \* bound: reconnect attempts in the life of the screen
    NoCodec             \* null

Renderers == 0 .. MaxAttempts

ASSUME DecoderParkingAssumption ==
    /\ MaxAttempts \in Nat
    /\ NoCodec \notin Codecs
    /\ Formats # {}

VARIABLES
    (* DecoderParking *)
    open,
    parked,             \* codec
    parkedFormat,       \* codecName, width, height, videoFormat and surface
    (* MediaCodecDecoderRenderer, one for each connection *)
    pc,                 \* how far the renderer's setup() or cleanup() has come
    decoderParking,     \* the field is set
    videoDecoder,
    toRelease,          \* the codec take() found not to fit
    format,             \* that of its stream
    upscaler,           \* the codec renders into the upscaler
    (* Game *)
    current,            \* decoderRenderer
    screen,             \* "streaming", "reconnecting", "over" or "destroyed"
    uiPc,               \* how far endReconnect() or onDestroy() has come
    uiToRelease,        \* the codec close() found parked
    (* the platform's codecs *)
    codecState,         \* "unmade", "live" or "released"
    codecFormat         \* what the codec was configured for

parkingVars == <<open, parked, parkedFormat>>
rendererVars == <<pc, decoderParking, videoDecoder, toRelease, format, upscaler>>
gameVars == <<current, screen, uiPc, uiToRelease>>
codecVars == <<codecState, codecFormat>>
vars == <<parkingVars, rendererVars, gameVars, codecVars>>

\* Where the core's thread is inside a renderer.
Busy == {"configuring", "taking", "discarding", "creating", "up", "parking",
         "releasing"}
Pcs == {"unmade", "new", "gone"} \cup Busy

Init ==
    /\ open = FALSE
    /\ parked = NoCodec
    /\ parkedFormat \in Formats
    /\ pc = [r \in Renderers |-> IF r = 0 THEN "new" ELSE "unmade"]
    /\ decoderParking = [r \in Renderers |-> FALSE]
    /\ videoDecoder = [r \in Renderers |-> NoCodec]
    /\ toRelease = [r \in Renderers |-> NoCodec]
    /\ format \in [Renderers -> Formats]
    /\ upscaler = [r \in Renderers |-> FALSE]
    /\ current = 0
    /\ screen = "streaming"
    /\ uiPc = "idle"
    /\ uiToRelease = NoCodec
    /\ codecState = [c \in Codecs |-> "unmade"]
    /\ codecFormat = [c \in Codecs |-> parkedFormat]

Goto(r, label) == pc' = [pc EXCEPT ![r] = label]

\* release(): null is passed over.
Release(c) ==
    codecState' = [d \in Codecs |-> IF d = c THEN "released" ELSE codecState[d]]

-----------------------------------------------------------------------------
(* The core's thread, in one renderer at a time *)

\* The start came to nothing before it reached the renderer.
NeverSetUp(r) ==
    /\ pc[r] = "new"
    /\ Goto(r, "gone")
    /\ UNCHANGED <<parkingVars, decoderParking, videoDecoder, toRelease,
                   format, upscaler, gameVars, codecVars>>

\* setup(), up to the first try to configure a decoder.
Setup(r) ==
    /\ pc[r] = "new"
    /\ \A other \in Renderers : pc[other] \notin Busy
    /\ \E u \in BOOLEAN : upscaler' = [upscaler EXCEPT ![r] = u]
    /\ Goto(r, "configuring")
    /\ UNCHANGED <<parkingVars, decoderParking, videoDecoder, toRelease,
                   format, gameVars, codecVars>>

\* tryConfigureDecoder(): an upscaled stream passes the parking over.
ReadParking(r) ==
    /\ pc[r] = "configuring"
    /\ Goto(r, IF decoderParking[r] /\ ~upscaler[r] THEN "taking" ELSE "creating")
    /\ UNCHANGED <<parkingVars, decoderParking, videoDecoder, toRelease,
                   format, upscaler, gameVars, codecVars>>

\* Mutant: take() does not compare the formats.
TakeAny(r) ==
    /\ pc[r] = "taking"
    /\ parked' = NoCodec
    /\ videoDecoder' = [videoDecoder EXCEPT ![r] = parked]
    /\ Goto(r, IF parked = NoCodec THEN "creating" ELSE "up")
    /\ UNCHANGED <<open, parkedFormat, decoderParking, toRelease, format,
                   upscaler, gameVars, codecVars>>

\* take(): the parked codec, if it fits; otherwise it is to be released.
Take(r) ==
    /\ pc[r] = "taking"
    /\ parked' = NoCodec
    /\ \/ /\ parked = NoCodec
          /\ Goto(r, "creating")
          /\ UNCHANGED <<videoDecoder, toRelease>>
       \/ /\ parked # NoCodec /\ format[r] = parkedFormat
          /\ videoDecoder' = [videoDecoder EXCEPT ![r] = parked]
          /\ Goto(r, "up")
          /\ UNCHANGED toRelease
       \/ /\ parked # NoCodec /\ format[r] # parkedFormat
          /\ toRelease' = [toRelease EXCEPT ![r] = parked]
          /\ Goto(r, "discarding")
          /\ UNCHANGED videoDecoder
    /\ UNCHANGED <<open, parkedFormat, decoderParking, format, upscaler,
                   gameVars, codecVars>>

\* The end of take(), outside its lock.
DiscardMisfit(r) ==
    /\ pc[r] = "discarding"
    /\ Release(toRelease[r])
    /\ toRelease' = [toRelease EXCEPT ![r] = NoCodec]
    /\ Goto(r, "creating")
    /\ UNCHANGED <<parkingVars, decoderParking, videoDecoder, format, upscaler,
                   gameVars, codecFormat>>

\* The rest of tryConfigureDecoder(): a codec of the renderer's own.  The
\* upscaler may fail as the codec is configured, which then renders directly.
Create(r) ==
    /\ pc[r] = "creating"
    /\ \E c \in Codecs :
          /\ codecState[c] = "unmade"
          /\ codecState' = [codecState EXCEPT ![c] = "live"]
          /\ codecFormat' = [codecFormat EXCEPT ![c] = format[r]]
          /\ videoDecoder' = [videoDecoder EXCEPT ![r] = c]
    /\ \E u \in {FALSE, upscaler[r]} : upscaler' = [upscaler EXCEPT ![r] = u]
    /\ Goto(r, "up")
    /\ UNCHANGED <<parkingVars, decoderParking, toRelease, format, gameVars>>

\* A codec that cannot be configured is released on the spot, and another
\* set of low latency options is tried, or none is left.
CreateFails(r) ==
    /\ pc[r] = "creating"
    /\ \E label \in {"configuring", "gone"} : Goto(r, label)
    /\ UNCHANGED <<parkingVars, decoderParking, videoDecoder, toRelease,
                   format, upscaler, gameVars, codecVars>>

\* A recovery gives up the codec for a new one.
Recreate(r) ==
    /\ pc[r] = "up"
    /\ Release(videoDecoder[r])
    /\ videoDecoder' = [videoDecoder EXCEPT ![r] = NoCodec]
    /\ Goto(r, "configuring")
    /\ UNCHANGED <<parkingVars, decoderParking, toRelease, format, upscaler,
                   gameVars, codecFormat>>

\* The upscaler fails, and the codec is restarted on the surface itself.
FallBack(r) ==
    /\ pc[r] = "up" /\ upscaler[r]
    /\ upscaler' = [upscaler EXCEPT ![r] = FALSE]
    /\ UNCHANGED <<parkingVars, pc, decoderParking, videoDecoder, toRelease,
                   format, gameVars, codecVars>>

\* cleanup() reads the field and flushes the codec, which may throw.
BeginCleanup(r) ==
    /\ pc[r] = "up"
    /\ \/ decoderParking[r] /\ ~upscaler[r] /\ Goto(r, "parking")
       \/ Goto(r, "releasing")
    /\ UNCHANGED <<parkingVars, decoderParking, videoDecoder, toRelease,
                   format, upscaler, gameVars, codecVars>>

\* Mutant: the field is not cleared once the codec is parked.
ParkKeeping(r) ==
    /\ pc[r] = "parking"
    /\ IF ~open
       THEN /\ Goto(r, "releasing")
            /\ UNCHANGED <<parked, parkedFormat, codecState, videoDecoder>>
       ELSE /\ Release(parked)
            /\ parked' = videoDecoder[r]
            /\ parkedFormat' = format[r]
            /\ Goto(r, "gone")
            /\ UNCHANGED videoDecoder
    /\ UNCHANGED <<open, decoderParking, toRelease, format, upscaler, gameVars,
                   codecFormat>>

\* Mutant: the codec that is replaced is forgotten.
ParkForgetting(r) ==
    /\ pc[r] = "parking"
    /\ IF ~open
       THEN /\ Goto(r, "releasing")
            /\ UNCHANGED <<parked, parkedFormat, videoDecoder>>
       ELSE /\ parked' = videoDecoder[r]
            /\ parkedFormat' = format[r]
            /\ videoDecoder' = [videoDecoder EXCEPT ![r] = NoCodec]
            /\ Goto(r, "gone")
    /\ UNCHANGED <<open, decoderParking, toRelease, format, upscaler, gameVars,
                   codecVars>>

\* park(), and cleanup() after it: refused, the codec is still the renderer's.
Park(r) ==
    /\ pc[r] = "parking"
    /\ IF ~open
       THEN /\ Goto(r, "releasing")
            /\ UNCHANGED <<parked, parkedFormat, codecState, videoDecoder>>
       ELSE /\ Release(parked)
            /\ parked' = videoDecoder[r]
            /\ parkedFormat' = format[r]
            /\ videoDecoder' = [videoDecoder EXCEPT ![r] = NoCodec]
            /\ Goto(r, "gone")
    /\ UNCHANGED <<open, decoderParking, toRelease, format, upscaler, gameVars,
                   codecFormat>>

\* The end of cleanup() for a codec that is not parked.
CleanupReleases(r) ==
    /\ pc[r] = "releasing"
    /\ Release(videoDecoder[r])
    /\ videoDecoder' = [videoDecoder EXCEPT ![r] = NoCodec]
    /\ upscaler' = [upscaler EXCEPT ![r] = FALSE]
    /\ Goto(r, "gone")
    /\ UNCHANGED <<parkingVars, decoderParking, toRelease, format, gameVars,
                   codecFormat>>

-----------------------------------------------------------------------------
(* The UI thread *)

\* maybeStartReconnect(): the connection of the current renderer has died.
StartReconnect ==
    /\ screen = "streaming" /\ uiPc = "idle"
    /\ pc[current] = "up"
    /\ screen' = "reconnecting"
    /\ open' = TRUE
    /\ decoderParking' = [decoderParking EXCEPT ![current] = TRUE]
    /\ UNCHANGED <<parked, parkedFormat, pc, videoDecoder, toRelease, format,
                   upscaler, current, uiPc, uiToRelease, codecVars>>

\* reconnectAttemptRunnable: a fresh renderer, once the last one has ended.
Attempt ==
    /\ screen = "reconnecting" /\ uiPc = "idle"
    /\ pc[current] = "gone"
    /\ current < MaxAttempts
    /\ current' = current + 1
    /\ Goto(current + 1, "new")
    /\ decoderParking' = [decoderParking EXCEPT ![current + 1] = TRUE]
    /\ UNCHANGED <<parkingVars, videoDecoder, toRelease, format, upscaler,
                   screen, uiPc, uiToRelease, codecVars>>

\* endReconnect() begins: the stream is back, or it is given up or left.
EndReconnect ==
    /\ screen = "reconnecting" /\ uiPc = "idle"
    /\ \/ screen' = "over"
       \/ screen' = "streaming" /\ current > 0 /\ pc[current] = "up"
    /\ uiPc' = "closing"
    /\ decoderParking' = [decoderParking EXCEPT ![current] = FALSE]
    /\ UNCHANGED <<parkingVars, pc, videoDecoder, toRelease, format, upscaler,
                   current, uiToRelease, codecVars>>

\* The stream ends without a reconnect.
Leave ==
    /\ screen = "streaming" /\ uiPc = "idle"
    /\ screen' = "over"
    /\ UNCHANGED <<parkingVars, rendererVars, current, uiPc, uiToRelease,
                   codecVars>>

\* onDestroy()
Destroy ==
    /\ screen = "over" /\ uiPc = "idle"
    /\ screen' = "destroyed"
    /\ uiPc' = "closing"
    /\ UNCHANGED <<parkingVars, rendererVars, current, uiToRelease, codecVars>>

\* close(), inside its lock.
Close ==
    /\ uiPc = "closing"
    /\ open' = FALSE
    /\ uiToRelease' = parked
    /\ parked' = NoCodec
    /\ uiPc' = "discarding"
    /\ UNCHANGED <<parkedFormat, rendererVars, current, screen, codecVars>>

\* close(), after it.
CloseReleases ==
    /\ uiPc = "discarding"
    /\ Release(uiToRelease)
    /\ uiToRelease' = NoCodec
    /\ uiPc' = "idle"
    /\ UNCHANGED <<parkingVars, rendererVars, current, screen, codecFormat>>

-----------------------------------------------------------------------------

Renderer(r) ==
    \/ NeverSetUp(r) \/ Setup(r) \/ ReadParking(r) \/ Take(r)
    \/ DiscardMisfit(r) \/ Create(r) \/ CreateFails(r)
    \/ Recreate(r) \/ FallBack(r)
    \/ BeginCleanup(r) \/ Park(r) \/ CleanupReleases(r)

Game ==
    \/ StartReconnect \/ Attempt \/ EndReconnect \/ Leave \/ Destroy
    \/ Close \/ CloseReleases

Next == Game \/ \E r \in Renderers : Renderer(r)

Spec == Init /\ [][Next]_vars

-----------------------------------------------------------------------------

TypeOK ==
    /\ open \in BOOLEAN
    /\ parked \in Codecs \cup {NoCodec}
    /\ parkedFormat \in Formats
    /\ pc \in [Renderers -> Pcs]
    /\ decoderParking \in [Renderers -> BOOLEAN]
    /\ videoDecoder \in [Renderers -> Codecs \cup {NoCodec}]
    /\ toRelease \in [Renderers -> Codecs \cup {NoCodec}]
    /\ format \in [Renderers -> Formats]
    /\ upscaler \in [Renderers -> BOOLEAN]
    /\ current \in Renderers
    /\ screen \in {"streaming", "reconnecting", "over", "destroyed"}
    /\ uiPc \in {"idle", "closing", "discarding"}
    /\ uiToRelease \in Codecs \cup {NoCodec}
    /\ codecState \in [Codecs -> {"unmade", "live", "released"}]
    /\ codecFormat \in [Codecs -> Formats]

\* Who has a codec: a renderer plays with it or is about to release it, the
\* parking keeps it, or the UI thread is about to release it.
Places == ({"plays", "discards"} \X Renderers) \cup ({"parking", "ui"} \X {0})

Has(p) == IF p[1] = "plays" THEN videoDecoder[p[2]]
          ELSE IF p[1] = "discards" THEN toRelease[p[2]]
          ELSE IF p[1] = "parking" THEN parked
          ELSE uiToRelease

\* Every live codec has exactly one owner, and nobody has one that is gone:
\* close(), park() and take() may cross in any order, and still a codec is
\* never played by two, released under the one who plays it, or lost.
OneOwner ==
    /\ \A p \in Places : Has(p) # NoCodec => codecState[Has(p)] = "live"
    /\ \A p, q \in Places : Has(p) # NoCodec /\ Has(p) = Has(q) => p = q
    /\ \A c \in Codecs : codecState[c] = "live" => \E p \in Places : Has(p) = c

\* A renderer that plays has a codec that was configured for its own stream,
\* be it its own or one that an earlier connection left.
CodecFits ==
    \A r \in Renderers :
        pc[r] \in {"up", "parking", "releasing"} =>
            /\ videoDecoder[r] # NoCodec
            /\ codecFormat[videoDecoder[r]] = format[r]

\* "Once closed, nothing can be parked": outside a reconnect the parking is
\* empty, so a renderer that ends late cannot leave its codec behind.
NothingParkedOnceClosed ==
    screen # "reconnecting" /\ uiPc # "closing" => parked = NoCodec

\* When the screen has been destroyed and its connections have ended, every
\* codec that was ever created has been released.
Ended == /\ screen = "destroyed" /\ uiPc = "idle"
         /\ \A r \in Renderers : pc[r] \notin Busy
NoCodecLeft == Ended => \A c \in Codecs : codecState[c] # "live"
=============================================================================
