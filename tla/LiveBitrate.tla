---------------------------- MODULE LiveBitrate ----------------------------
(***************************************************************************)
(* A running stream's bitrate, changed while it plays (LiveBitrate, with   *)
(* the bounds its AdaptiveBitrateController keeps and the arithmetic of    *)
(* BitrateSteps).                                                          *)
(*                                                                         *)
(* Three threads meet: the UI thread, which queues what the menu asks for  *)
(* and stops it all; the decoder's thread, which queues a sample of the    *)
(* stream every second; and one worker, which takes the tasks in order and *)
(* waits for the host's answers.  A request is a step of its own: between  *)
(* its sending and its answer the other threads go on, the host may refuse *)
(* it, hold it to a limit of its own that nothing told this end, answer    *)
(* that it has no such endpoint, or take it and have its answer lost.      *)
(*                                                                         *)
(* Left free: when the controller moves.  Its streaks, its round trip and  *)
(* queue windows and its cooldown only decide which of its steps is due,   *)
(* and a sample here may find any of them due, or none.                    *)
(***************************************************************************)
EXTENDS Integers, Sequences, FiniteSets

CONSTANTS
    StartKbps,          \* what the stream started with
    LadderKbps,         \* the bitrates the menu always offers
    HostLimitKbps,      \* max_bitrate of the host; 0 for none
    WarpFactor,         \* of frame pacing, 1 for none
    FecPercent,         \* what the host keeps for error correction; 0 with dynamic FEC
    AudioKbps,
    PyroWave,           \* the stream is PyroWave, which pays for audio in full
    LeastFloorKbps,     \* of the adaptive mode
    FloorPercent,       \* of the adaptive mode
    DownPercents,       \* what a step down leaves: 70, 90 or 95
    MaxAdaptiveFailures,
    MaxPicks,           \* bound: choices made in the menu
    NoController        \* null

ASSUME LiveBitrateAssumption ==
    /\ StartKbps \in Nat \ {0} /\ LadderKbps \subseteq Nat \ {0}
    /\ HostLimitKbps \in Nat
    /\ WarpFactor \in Nat \ {0} /\ AudioKbps \in Nat /\ PyroWave \in BOOLEAN
    /\ FecPercent \in 0 .. 99 /\ FloorPercent \in 0 .. 100
    /\ LeastFloorKbps \in Nat /\ DownPercents \subseteq 1 .. 99
    /\ MaxAdaptiveFailures \in Nat \ {0} /\ MaxPicks \in Nat
    /\ NoController \notin [ceiling : Nat, current : Nat]

VARIABLES
    (* LiveBitrate *)
    queue,              \* of the worker: tasks not yet taken
    supported,
    stopped,
    adaptive,
    currentKbps,        \* where this end believes the stream to be
    chosenKbps,
    sampleQueued,
    controller,         \* its ceiling and its own idea of the current bitrate
    adaptiveFailures,
    hostCapKbps,        \* the host's limit once a request has run into it; 0 until then
    worker,             \* what it waits for: pc, and the send() under way
    (* the other threads *)
    decoder,            \* "decoding", or "submitting" a sample it has set sampleQueued for
    menu,               \* what the open bitrate menu offers: [on, choices]; {} if closed
    picks,              \* choices made
    (* the host *)
    encoderKbps,        \* what its encoder runs at
    answered            \* the last request it was sent has been answered; before
                        \* any, its own limit did not touch the start

clientVars == <<supported, stopped, adaptive, currentKbps, chosenKbps,
                controller, adaptiveFailures, hostCapKbps>>
uiVars == <<menu, picks>>
hostVars == <<encoderKbps, answered>>
vars == <<clientVars, queue, sampleQueued, worker, decoder, uiVars, hostVars>>

Smaller(a, b) == IF a <= b THEN a ELSE b
Larger(a, b) == IF a >= b THEN a ELSE b

-----------------------------------------------------------------------------
(* Bitrates. *)

\* What the encoder gets of a stream's whole budget.
EncoderOf(kbps) ==
    LET budget == kbps * WarpFactor
        fec == (budget * (100 - FecPercent)) \div 100
        video == fec - Smaller(AudioKbps, fec \div 5)
    IN  Larger(1, IF PyroWave THEN budget - (AudioKbps * 3 + 1) \div 2 - 500
                              ELSE video - Smaller(500, video \div 10))

\* The host takes a live change as it is, up to its limit.
HostApplies(kbps) ==
    IF HostLimitKbps > 0 THEN Smaller(kbps, HostLimitKbps) ELSE kbps

Floor(ceiling) ==
    Smaller(Larger(LeastFloorKbps, (ceiling * FloorPercent) \div 100), ceiling)

Clamp(kbps, ceiling) == Larger(Floor(ceiling), Smaller(ceiling, kbps))

Controller(ceiling, current) ==
    [ceiling |-> Larger(ceiling, 100),
     current |-> Clamp(current, Larger(ceiling, 100))]

\* As if a pick only moved the bitrate.
OnManualChangeKeepingCeiling(kbps) == [ceiling |-> Larger(StartKbps, 100), current |-> kbps]

\* A bitrate picked by hand is the ceiling and the bitrate.
OnManualChange(kbps) == [ceiling |-> Larger(kbps, 100), current |-> kbps]

OnApplied(c, kbps) == [c EXCEPT !.current = kbps]

CapCeiling(c, kbps) ==
    IF 0 < kbps /\ kbps < c.ceiling THEN Controller(kbps, c.current) ELSE c

StepsDown(c) == {((c.current * p) \div 10000) * 100 : p \in DownPercents}

StepsUp(c) ==
    IF c.current < c.ceiling
        THEN {((Larger(c.current * 110, (c.current + 2000) * 100) + 9999)
                    \div 10000) * 100}
        ELSE {}

\* Whatever step is due, it stays between the floor and the ceiling.
Decisions(c) ==
    {Clamp(kbps, c.ceiling) : kbps \in StepsDown(c) \cup StepsUp(c)}
        \ {c.current}

MenuChoices == LadderKbps \cup {chosenKbps, currentKbps}

WithinHostCap(kbps) ==
    IF hostCapKbps > 0 THEN Smaller(kbps, hostCapKbps) ELSE kbps

-----------------------------------------------------------------------------
Idle == [pc |-> "idle"]

\* send(): the worker asks for a bitrate, held to the limit if one is known.
Send(job, kbps, from) ==
    worker' = [pc |-> "first", job |-> job, kbps |-> kbps, from |-> from,
               wire |-> WithinHostCap(kbps)]

Requesting == worker.pc \in {"first", "second"}

StartTask(wanted) == [task |-> "start", on |-> wanted]
SwitchTask(on) == [task |-> "adaptive", on |-> on]
ManualTask(kbps) == [task |-> "manual", kbps |-> kbps]
SampleTask == [task |-> "sample"]

\* submit(): a task is dropped once all has been stopped.
Submit(task) == queue' = IF stopped THEN queue ELSE Append(queue, task)

Init ==
    /\ \E wanted \in BOOLEAN : queue = <<StartTask(wanted)>>
    /\ supported = FALSE
    /\ stopped = FALSE
    /\ adaptive = FALSE
    /\ currentKbps = StartKbps
    /\ chosenKbps = StartKbps
    /\ sampleQueued = FALSE
    /\ controller = NoController
    /\ adaptiveFailures = 0
    /\ hostCapKbps = 0
    /\ worker = Idle
    /\ decoder = "decoding"
    /\ menu = {}
    /\ picks = 0
    /\ encoderKbps = EncoderOf(HostApplies(StartKbps))
    /\ answered = (encoderKbps = HostApplies(EncoderOf(StartKbps)))

-----------------------------------------------------------------------------
(* The UI thread. *)

\* The menu is offered only while the host can do it, and shows what it found
\* when it opened.
OpenMenu ==
    /\ menu = {} /\ picks < MaxPicks
    /\ supported /\ ~stopped
    /\ menu' = {[on |-> ~adaptive, choices |-> MenuChoices]}
    /\ UNCHANGED <<clientVars, queue, sampleQueued, worker, decoder, picks, hostVars>>

PickAdaptive ==
    \E m \in menu :
        /\ Submit(SwitchTask(m.on))
        /\ menu' = {}
        /\ picks' = picks + 1
        /\ UNCHANGED <<clientVars, sampleQueued, worker, decoder, hostVars>>

PickBitrate ==
    \E m \in menu : \E kbps \in m.choices :
        /\ Submit(ManualTask(kbps))
        /\ menu' = {}
        /\ picks' = picks + 1
        /\ UNCHANGED <<clientVars, sampleQueued, worker, decoder, hostVars>>

\* The stream is over, or reconnecting: shutdownNow() drops what is queued and
\* leaves the task that runs to its end.
Stop ==
    /\ ~stopped
    /\ stopped' = TRUE
    /\ adaptive' = FALSE
    /\ queue' = <<>>
    /\ UNCHANGED <<supported, currentKbps, chosenKbps, controller,
                   adaptiveFailures, hostCapKbps, sampleQueued, worker,
                   decoder, uiVars, hostVars>>

(* The decoder's thread. *)

\* onSample(): a sample is dropped while another is with the worker.
OnSample ==
    /\ decoder = "decoding"
    /\ adaptive /\ ~stopped /\ ~sampleQueued
    /\ sampleQueued' = TRUE
    /\ decoder' = "submitting"
    /\ UNCHANGED <<clientVars, queue, worker, uiVars, hostVars>>

SubmitSample ==
    /\ decoder = "submitting"
    /\ decoder' = "decoding"
    /\ Submit(SampleTask)
    /\ sampleQueued' = IF stopped THEN FALSE ELSE sampleQueued
    /\ UNCHANGED <<clientVars, worker, uiVars, hostVars>>

-----------------------------------------------------------------------------
(* The worker takes a task. *)

Taking(kind) ==
    /\ worker = Idle
    /\ queue # <<>> /\ Head(queue).task = kind
    /\ queue' = Tail(queue)
    /\ UNCHANGED <<stopped, currentKbps, chosenKbps, hostCapKbps, decoder,
                   uiVars, hostVars>>

\* enableAdaptive()
EnableAdaptive ==
    IF adaptive /\ controller # NoController
        THEN UNCHANGED <<adaptive, controller, adaptiveFailures>>
        ELSE /\ controller' = Controller(WithinHostCap(chosenKbps), currentKbps)
             /\ adaptiveFailures' = 0
             /\ adaptive' = TRUE

AskSupport ==
    /\ Taking("start")
    /\ worker' = [pc |-> "asking", on |-> Head(queue).on]
    /\ UNCHANGED <<supported, adaptive, controller, adaptiveFailures, sampleQueued>>

SupportAnswered ==
    /\ worker.pc = "asking"
    /\ worker' = Idle
    /\ supported' \in BOOLEAN
    /\ IF supported' /\ worker.on
           THEN EnableAdaptive
           ELSE UNCHANGED <<adaptive, controller, adaptiveFailures>>
    /\ UNCHANGED <<queue, stopped, currentKbps, chosenKbps, hostCapKbps,
                   sampleQueued, decoder, uiVars, hostVars>>

SwitchOn ==
    /\ Taking("adaptive") /\ Head(queue).on
    /\ IF supported
           THEN EnableAdaptive
           ELSE UNCHANGED <<adaptive, controller, adaptiveFailures>>
    /\ UNCHANGED <<supported, sampleQueued, worker>>

\* restoreChosen(): back to the chosen bitrate, if the stream is not there.
RestoreChosen(job) ==
    IF currentKbps = WithinHostCap(chosenKbps)
        THEN worker' = Idle
        ELSE Send(job, WithinHostCap(chosenKbps), 0)

\* As if off only stopped the controller.
SwitchOffOnly ==
    /\ Taking("adaptive") /\ ~Head(queue).on
    /\ IF supported
           THEN /\ adaptive' = FALSE
                /\ controller' = NoController
           ELSE UNCHANGED <<adaptive, controller>>
    /\ UNCHANGED <<supported, adaptiveFailures, sampleQueued, worker>>

SwitchOff ==
    /\ Taking("adaptive") /\ ~Head(queue).on
    /\ IF supported
           THEN /\ adaptive' = FALSE
                /\ controller' = NoController
                /\ RestoreChosen("restore")
           ELSE UNCHANGED <<adaptive, controller, worker>>
    /\ UNCHANGED <<supported, adaptiveFailures, sampleQueued>>

SetManual ==
    /\ Taking("manual")
    /\ IF supported THEN Send("manual", Head(queue).kbps, 0)
                    ELSE UNCHANGED worker
    /\ UNCHANGED <<supported, adaptive, controller, adaptiveFailures, sampleQueued>>

\* adapt(): a step down is asked for as a step, anything else as it is.
Adapt ==
    /\ Taking("sample")
    /\ sampleQueued' = FALSE
    /\ \/ UNCHANGED worker
       \/ /\ adaptive /\ controller # NoController
          /\ \E kbps \in Decisions(controller) :
                 Send("step", kbps, IF kbps < currentKbps THEN currentKbps ELSE 0)
    /\ UNCHANGED <<supported, adaptive, controller, adaptiveFailures>>

-----------------------------------------------------------------------------
(* The host's answer. *)

\* As if the bitrate asked for were the one the stream is at.
SucceededAsAsked(kbps) ==
    /\ worker' = Idle
    /\ answered' = TRUE
    /\ currentKbps' = worker.kbps
    /\ chosenKbps' = IF worker.job = "manual" THEN worker.kbps ELSE chosenKbps
    /\ controller' =
           IF controller = NoController \/ worker.job \notin {"manual", "step"}
               THEN controller
           ELSE IF worker.job = "manual"
               THEN OnManualChange(worker.kbps)
               ELSE CapCeiling(OnApplied(controller, worker.kbps), hostCapKbps)
    /\ adaptiveFailures' = IF worker.job = "step" THEN 0 ELSE adaptiveFailures
    /\ UNCHANGED <<queue, supported, stopped, adaptive, hostCapKbps,
                   sampleQueued, decoder, uiVars>>

\* The job's bitrate has been set.
Succeeded(kbps) ==
    /\ worker' = Idle
    /\ answered' = TRUE
    /\ currentKbps' = kbps
    /\ chosenKbps' = IF worker.job = "manual" THEN worker.kbps ELSE chosenKbps
    /\ controller' =
           IF controller = NoController \/ worker.job \notin {"manual", "step"}
               THEN controller
           ELSE IF worker.job = "manual"
               THEN OnManualChange(kbps)
               ELSE CapCeiling(OnApplied(controller, kbps), hostCapKbps)
    /\ adaptiveFailures' = IF worker.job = "step" THEN 0 ELSE adaptiveFailures
    /\ UNCHANGED <<queue, supported, stopped, adaptive, hostCapKbps,
                   sampleQueued, decoder, uiVars>>

\* The first request is applied as it is, or the corrected one however the host
\* applies it.
RequestApplied ==
    /\ Requesting
    /\ LET asked == EncoderOf(worker.wire)
       IN  /\ worker.pc = "second" \/ HostApplies(asked) >= asked
           /\ encoderKbps' = HostApplies(asked)
    /\ Succeeded(worker.wire)

\* The host held the first request to its limit, which gives the limit away; an
\* absolute bitrate is asked again within it, a step again from it.
RequestClamped ==
    /\ worker.pc = "first"
    /\ LET applied == HostApplies(EncoderOf(worker.wire))
           cap == IF hostCapKbps = 0 THEN applied ELSE Smaller(hostCapKbps, applied)
           again == IF worker.from > 0
                        THEN (Smaller(worker.from, cap) * worker.kbps) \div worker.from
                        ELSE worker.kbps
       IN  /\ applied < EncoderOf(worker.wire)
           /\ encoderKbps' = applied
           /\ hostCapKbps' = cap
           /\ worker' = [worker EXCEPT !.pc = "second", !.wire = Smaller(again, cap)]
    /\ answered' = TRUE
    /\ UNCHANGED <<queue, supported, stopped, adaptive, currentKbps, chosenKbps,
                   controller, adaptiveFailures, sampleQueued, decoder, uiVars>>

\* Three steps in a row that failed, with nobody having stopped adaptation
\* meanwhile, end it.
GivesUp == worker.job = "step" /\ adaptive
               /\ adaptiveFailures + 1 >= MaxAdaptiveFailures

Failed ==
    /\ IF GivesUp
           THEN /\ adaptive' = FALSE
                /\ controller' = NoController
                /\ RestoreChosen("giveup")
           ELSE /\ worker' = Idle
                /\ UNCHANGED <<adaptive, controller>>
    /\ adaptiveFailures' = IF worker.job = "step" /\ adaptive
                               THEN adaptiveFailures + 1 ELSE adaptiveFailures
    /\ answered' = FALSE
    /\ UNCHANGED <<queue, supported, stopped, currentKbps, chosenKbps,
                   hostCapKbps, sampleQueued, decoder, uiVars>>

\* The host refuses in its reply, or cannot be reached.
RequestRefused ==
    /\ Requesting
    /\ UNCHANGED encoderKbps
    /\ Failed

\* The host applies the request, and the reply is lost.
ReplyLost ==
    /\ Requesting
    /\ encoderKbps' = HostApplies(EncoderOf(worker.wire))
    /\ Failed

\* HTTP 404: the endpoint is missing, and it is over for this stream.
EndpointMissing ==
    /\ Requesting
    /\ supported' = FALSE
    /\ adaptive' = FALSE
    /\ controller' = NoController
    /\ worker' = Idle
    /\ answered' = FALSE
    /\ UNCHANGED <<queue, stopped, currentKbps, chosenKbps, adaptiveFailures,
                   hostCapKbps, sampleQueued, decoder, uiVars, encoderKbps>>

-----------------------------------------------------------------------------
Ui == OpenMenu \/ PickAdaptive \/ PickBitrate \/ Stop
Decoder == OnSample \/ SubmitSample
Worker == AskSupport \/ SwitchOn \/ SwitchOff \/ SetManual \/ Adapt
Host == \/ SupportAnswered \/ RequestApplied \/ RequestClamped
        \/ RequestRefused \/ ReplyLost \/ EndpointMissing

Next == Ui \/ Decoder \/ Worker \/ Host

Spec == Init /\ [][Next]_vars

-----------------------------------------------------------------------------
(* Properties. *)

Tasks == [task : {"start", "adaptive"}, on : BOOLEAN]
             \cup [task : {"manual"}, kbps : Nat] \cup {SampleTask}

Sends == [pc : {"first", "second"}, job : {"manual", "restore", "step", "giveup"},
          kbps : Nat, from : Nat, wire : Nat]

\* The type of every variable, and the failures in a row, which reach the limit
\* only as adaptation ends (LiveBitrate's fields, 89-107).
TypeOK ==
    /\ queue \in Seq(Tasks)
    /\ supported \in BOOLEAN /\ stopped \in BOOLEAN /\ adaptive \in BOOLEAN
    /\ currentKbps \in Nat /\ chosenKbps \in Nat /\ hostCapKbps \in Nat
    /\ sampleQueued \in BOOLEAN
    /\ controller \in [ceiling : Nat, current : Nat] \cup {NoController}
    /\ adaptiveFailures \in 0 .. MaxAdaptiveFailures
    /\ adaptive => controller # NoController
                   /\ adaptiveFailures < MaxAdaptiveFailures
    /\ worker \in {Idle} \cup [pc : {"asking"}, on : BOOLEAN] \cup Sends
    /\ decoder \in {"decoding", "submitting"}
    /\ menu \in SUBSET [on : BOOLEAN, choices : SUBSET Nat]
    /\ picks \in Nat
    /\ encoderKbps \in Nat /\ answered \in BOOLEAN

\* A bitrate is only ever asked of a host that said it can change it, and never
\* again of one that said its endpoint is missing, whatever was queued or half
\* done at that moment (start() 165, request() 375, adapt() 298).
OnlySupportedHostsAreAsked == Requesting => supported

\* Once the host's limit is known no request runs into it again: not one by
\* hand, not a step, not the corrected one (send() 340, 354).
RequestsWithinLimit ==
    Requesting /\ hostCapKbps > 0 /\ WarpFactor = 1
        => EncoderOf(worker.wire) <= hostCapKbps

\* What this end believes of the stream is what the host's encoder runs at,
\* whenever the last request was answered and none is under way, though the
\* host may have taken it for something else in between (send() 339-359).
BelievedBitrateIsReal ==
    answered /\ ~Requesting
        => encoderKbps = HostApplies(EncoderOf(currentKbps))

\* The bitrate chosen is a promise: neither what the stream is believed to run
\* at nor what the controller may climb to exceeds it, in whatever order a step
\* and a pick reach the host (setManual() 239-257, enableAdaptive() 273).  The
\* least bitrate that is ever asked for by itself is ROUNDING_KBPS.
NeverAboveTheChoice ==
    /\ currentKbps <= Larger(chosenKbps, 100)
    /\ controller # NoController => controller.ceiling <= Larger(chosenKbps, 100)

\* Both bounds of a bitrate hold at once: what the user chose, whatever a step
\* or a late answer makes of it, and what the host gave away, whatever is asked
\* for after that (setManual() 239-257, send() 340-359).
ChoiceAndLimitHold == NeverAboveTheChoice /\ RequestsWithinLimit

\* A stream that does not adapt runs at the chosen bitrate, or at the host's
\* limit below it, unless the host did not take the last request (setAdaptive()
\* 199-217, adapt() 302).
OffRunsAtChosen ==
    worker = Idle /\ supported /\ ~stopped /\ ~adaptive /\ answered
        => currentKbps = WithinHostCap(chosenKbps)

=============================================================================
