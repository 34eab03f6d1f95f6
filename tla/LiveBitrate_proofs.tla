------------------------ MODULE LiveBitrate_proofs ------------------------
(***************************************************************************)
(* What LiveBitrate guarantees for every bitrate, host limit and mode: the *)
(* types, that only a host that can do it is asked, that the known limit   *)
(* is respected, that the believed bitrate is the real one, that the       *)
(* chosen bitrate is never exceeded, and that a stream that does not adapt *)
(* runs at it.                                                             *)
(***************************************************************************)
EXTENDS LiveBitrate, TLAPS

Controllers == [ceiling : Nat, current : Nat]

-----------------------------------------------------------------------------
(* What the operators on bitrates return. *)

LEMMA FloorBounds ==
    ASSUME NEW ceiling \in Nat
    PROVE  Floor(ceiling) \in Nat /\ Floor(ceiling) <= ceiling
<1> DEFINE share == (ceiling * FloorPercent) \div 100
<1>1. ceiling * FloorPercent \in Nat
    BY LiveBitrateAssumption
<1>2. share \in Nat
    BY <1>1
<1> HIDE DEF share
<1>3. Floor(ceiling) = Smaller(Larger(LeastFloorKbps, share), ceiling)
    BY DEF Floor, share
<1> QED
    BY <1>2, <1>3, LiveBitrateAssumption DEF Smaller, Larger

LEMMA ClampBounds ==
    ASSUME NEW kbps \in Nat, NEW ceiling \in Nat
    PROVE  Clamp(kbps, ceiling) \in Nat /\ Clamp(kbps, ceiling) <= ceiling
BY FloorBounds DEF Clamp, Smaller, Larger

LEMMA ControllerType ==
    ASSUME NEW ceiling \in Nat, NEW current \in Nat
    PROVE  /\ Controller(ceiling, current) \in Controllers
           /\ Controller(ceiling, current).ceiling = Larger(ceiling, 100)
<1>1. Larger(ceiling, 100) \in Nat
    BY DEF Larger
<1>2. Clamp(current, Larger(ceiling, 100)) \in Nat
    BY <1>1, ClampBounds
<1> QED
    BY <1>1, <1>2 DEF Controller, Controllers

LEMMA CapCeilingType ==
    ASSUME NEW c \in Controllers, NEW kbps \in Nat
    PROVE  /\ CapCeiling(c, kbps) \in Controllers
           /\ CapCeiling(c, kbps).ceiling <= Larger(c.ceiling, 100)
<1>1. c.ceiling \in Nat /\ c.current \in Nat
    BY DEF Controllers
<1>2. CASE 0 < kbps /\ kbps < c.ceiling
    <2>1. CapCeiling(c, kbps) = Controller(kbps, c.current)
        BY <1>2 DEF CapCeiling
    <2> QED
        BY <1>1, <1>2, <2>1, ControllerType DEF Larger
<1>3. CASE ~(0 < kbps /\ kbps < c.ceiling)
    <2>1. CapCeiling(c, kbps) = c
        BY <1>3 DEF CapCeiling
    <2> QED
        BY <1>1, <2>1 DEF Larger
<1> QED
    BY <1>2, <1>3

LEMMA DecisionBounds ==
    ASSUME NEW c \in Controllers, NEW kbps \in Decisions(c)
    PROVE  kbps \in Nat /\ kbps <= c.ceiling
<1>1. c.ceiling \in Nat /\ c.current \in Nat
    BY DEF Controllers
<1>2. PICK step \in StepsDown(c) \cup StepsUp(c) : kbps = Clamp(step, c.ceiling)
    BY DEF Decisions
<1>3. step \in Nat
    <2>1. CASE step \in StepsDown(c)
        <3>1. PICK p \in DownPercents : step = ((c.current * p) \div 10000) * 100
            BY <2>1 DEF StepsDown
        <3>2. p \in Nat
            BY LiveBitrateAssumption
        <3>3. c.current * p \in Nat
            BY <1>1, <3>2
        <3> QED
            BY <3>1, <3>3
    <2>2. CASE step \in StepsUp(c)
        BY <1>1, <2>2 DEF StepsUp, Larger
    <2> QED
        BY <1>2, <2>1, <2>2
<1> QED
    BY <1>1, <1>2, <1>3, ClampBounds

\* A share of the limit is no more than the step it is the share of.
LEMMA ShareBound ==
    ASSUME NEW a \in Nat, NEW b \in Nat, NEW c \in Nat, c > 0, a <= c
    PROVE  (a * b) \div c \in Nat /\ (a * b) \div c <= b
<1>1. a * b \in Nat /\ a * b <= c * b
    OBVIOUS
<1> DEFINE q == (a * b) \div c
<1>2. q \in Nat /\ c * q <= a * b
    BY <1>1
<1> HIDE DEF q
<1>3. c * q <= c * b
    BY <1>1, <1>2
<1>4. q <= b
    BY <1>2, <1>3
<1> QED
    BY <1>2, <1>4 DEF q

\* The encoder gets no more than the stream's budget, and never nothing.
LEMMA EncoderBounds ==
    ASSUME NEW kbps \in Nat
    PROVE  /\ EncoderOf(kbps) \in Nat /\ EncoderOf(kbps) >= 1
           /\ WarpFactor = 1 => EncoderOf(kbps) <= Larger(1, kbps)
<1> DEFINE budget == kbps * WarpFactor
           kept == 100 - FecPercent
           fec == (kept * budget) \div 100
           video == fec - Smaller(AudioKbps, fec \div 5)
           rest == IF PyroWave THEN budget - (AudioKbps * 3 + 1) \div 2 - 500
                               ELSE video - Smaller(500, video \div 10)
<1>1. budget \in Nat /\ (WarpFactor = 1 => budget = kbps)
    BY LiveBitrateAssumption
<1>2. kept \in Nat /\ kept <= 100
    BY LiveBitrateAssumption
<1> HIDE DEF budget, kept
<1>3. fec \in Nat /\ fec <= budget
    BY <1>1, <1>2, ShareBound
<1>4. EncoderOf(kbps) = Larger(1, rest)
    <2>1. budget * kept = kept * budget
        BY <1>1, <1>2
    <2> QED
        BY <2>1 DEF EncoderOf, budget, kept
<1> HIDE DEF fec
<1>5. video \in Int /\ video <= fec
    BY <1>3, LiveBitrateAssumption DEF Smaller
<1>6. video >= 0
    BY <1>3, LiveBitrateAssumption DEF Smaller
<1> HIDE DEF video
<1>7. rest \in Int /\ rest <= budget
    BY <1>1, <1>3, <1>5, <1>6, LiveBitrateAssumption DEF Smaller
<1> HIDE DEF rest
<1> QED
    BY <1>1, <1>4, <1>7 DEF Larger

LEMMA HostAppliesBounds ==
    ASSUME NEW kbps \in Nat
    PROVE  HostApplies(kbps) \in Nat /\ HostApplies(kbps) <= kbps
BY LiveBitrateAssumption DEF HostApplies, Smaller

-----------------------------------------------------------------------------
(* The invariant: the types, and what a request under way may ask for.  It  *)
(* is never more than what its task wants, which is the pick itself or at   *)
(* most the bitrate chosen, and never more than the known limit.            *)

SendWithinBounds ==
    Requesting =>
        /\ supported
        /\ worker.wire <= worker.kbps
        /\ worker.job # "manual" => worker.kbps <= Larger(chosenKbps, 100)
        /\ hostCapKbps > 0 => worker.wire <= hostCapKbps

\* The host is asked what it can do before anything else is taken, and only a
\* host that can is adapted to.
StartComesFirst ==
    /\ \A i \in DOMAIN queue :
           queue[i].task = "start" => i = 1 /\ worker = Idle /\ ~supported /\ ~adaptive
    /\ worker.pc = "asking" => ~supported /\ ~adaptive
    /\ adaptive => supported

IInv == TypeOK /\ StartComesFirst /\ SendWithinBounds /\ NeverAboveTheChoice

LEMMA RequestIsSend ==
    ASSUME TypeOK, Requesting
    PROVE  worker \in Sends
BY DEF TypeOK, Requesting, Idle

\* Whatever is asked for, send() leaves a request within the known limit.
LEMMA SendType ==
    ASSUME TypeOK, NEW job \in {"manual", "restore", "step", "giveup"},
           NEW kbps \in Nat, NEW from \in Nat, Send(job, kbps, from)
    PROVE  /\ worker' \in Sends
           /\ worker'.pc = "first" /\ worker'.job = job
           /\ worker'.kbps = kbps /\ worker'.wire <= kbps
           /\ hostCapKbps > 0 => worker'.wire <= hostCapKbps
<1>1. /\ WithinHostCap(kbps) \in Nat /\ WithinHostCap(kbps) <= kbps
      /\ hostCapKbps > 0 => WithinHostCap(kbps) <= hostCapKbps
    BY DEF TypeOK, WithinHostCap, Smaller
<1>2. worker' = [pc |-> "first", job |-> job, kbps |-> kbps, from |-> from,
                 wire |-> WithinHostCap(kbps)]
    BY DEF Send
<1> HIDE DEF Send
<1> QED
    BY <1>1, <1>2 DEF Sends

\* restoreChosen() leaves the worker idle or asking for the chosen bitrate.
LEMMA RestoreType ==
    ASSUME TypeOK, NEW job \in {"restore", "giveup"}, RestoreChosen(job)
    PROVE  \/ worker' = Idle
           \/ /\ worker' \in Sends /\ worker'.job = job
              /\ worker'.kbps <= chosenKbps /\ worker'.wire <= worker'.kbps
              /\ hostCapKbps > 0 => worker'.wire <= hostCapKbps
<1>1. WithinHostCap(chosenKbps) \in Nat /\ WithinHostCap(chosenKbps) <= chosenKbps
    BY DEF TypeOK, WithinHostCap, Smaller
<1>2. CASE worker' = Idle
    BY <1>2
<1>3. CASE Send(job, WithinHostCap(chosenKbps), 0)
    BY <1>1, <1>3, SendType
<1> QED
    BY <1>2, <1>3 DEF RestoreChosen

LEMMA EnableType ==
    ASSUME TypeOK, EnableAdaptive
    PROVE  /\ adaptive' /\ controller' \in Controllers
           /\ adaptiveFailures' \in 0 .. MaxAdaptiveFailures
           /\ adaptiveFailures' < MaxAdaptiveFailures
<1>1. CASE adaptive /\ controller # NoController
    BY <1>1 DEF EnableAdaptive, TypeOK, Controllers
<1>2. CASE ~(adaptive /\ controller # NoController)
    <2>1. WithinHostCap(chosenKbps) \in Nat /\ currentKbps \in Nat
        BY DEF TypeOK, WithinHostCap, Smaller
    <2>2. controller' = Controller(WithinHostCap(chosenKbps), currentKbps)
              /\ adaptiveFailures' = 0 /\ adaptive'
        BY <1>2 DEF EnableAdaptive
    <2>3. controller' \in Controllers
        BY <2>1, <2>2, ControllerType
    <2> QED
        BY <2>2, <2>3, LiveBitrateAssumption
<1> QED
    BY <1>1, <1>2

LEMMA NoControllerIsNone == NoController \notin Controllers
BY LiveBitrateAssumption DEF Controllers

LEMMA InitType == Init => TypeOK
<1> SUFFICES ASSUME Init PROVE TypeOK
    OBVIOUS
<1>1. PICK wanted \in BOOLEAN : queue = <<StartTask(wanted)>>
    BY DEF Init
<1>2. StartTask(wanted) \in Tasks
    BY DEF StartTask, Tasks
<1>3. queue \in Seq(Tasks)
    BY <1>1, <1>2
<1>4. encoderKbps \in Nat
    <2>1. HostApplies(StartKbps) \in Nat
        BY HostAppliesBounds, LiveBitrateAssumption
    <2> QED
        BY <2>1, EncoderBounds DEF Init
<1>5. answered \in BOOLEAN
    BY Zenon DEF Init
<1>6. worker \in {Idle} /\ menu \in SUBSET [on : BOOLEAN, choices : SUBSET Nat]
    BY DEF Init
<1>7. /\ adaptiveFailures \in 0 .. MaxAdaptiveFailures
      /\ currentKbps \in Nat /\ chosenKbps \in Nat /\ hostCapKbps \in Nat
    BY LiveBitrateAssumption DEF Init
<1> QED
    BY <1>3, <1>4, <1>5, <1>6, <1>7 DEF Init, TypeOK

\* A submitted task joins the queue.
LEMMA SubmitType ==
    ASSUME TypeOK, NEW task \in Tasks, Submit(task)
    PROVE  queue' \in Seq(Tasks)
BY DEF TypeOK, Submit

\* What the worker takes is a task, and the others are left.
LEMMA TakingType ==
    ASSUME TypeOK, NEW kind, Taking(kind)
    PROVE  /\ Head(queue) \in Tasks /\ Head(queue).task = kind
           /\ queue' \in Seq(Tasks)
BY DEF TypeOK, Taking

LEMMA UiType == TypeOK /\ Ui => TypeOK'
<1> SUFFICES ASSUME TypeOK, Ui PROVE TypeOK'
    OBVIOUS
<1>1. CASE OpenMenu
    <2>1. MenuChoices \subseteq Nat
        BY LiveBitrateAssumption DEF TypeOK, MenuChoices
    <2>2. menu' \in SUBSET [on : BOOLEAN, choices : SUBSET Nat]
        BY <1>1, <2>1 DEF OpenMenu, TypeOK
    <2> QED
        BY <1>1, <2>2 DEF OpenMenu, TypeOK, clientVars, hostVars
<1>2. CASE PickAdaptive
    <2>1. PICK m \in menu : Submit(SwitchTask(m.on))
        BY <1>2 DEF PickAdaptive
    <2>2. SwitchTask(m.on) \in Tasks
        BY DEF TypeOK, SwitchTask, Tasks
    <2>3. queue' \in Seq(Tasks)
        BY <2>1, <2>2, SubmitType
    <2> QED
        BY <1>2, <2>3 DEF PickAdaptive, TypeOK, clientVars, hostVars
<1>3. CASE PickBitrate
    <2>1. PICK m \in menu : \E kbps \in m.choices : Submit(ManualTask(kbps))
        BY <1>3 DEF PickBitrate
    <2>2. PICK kbps \in m.choices : Submit(ManualTask(kbps))
        BY <2>1
    <2>3. ManualTask(kbps) \in Tasks
        BY DEF TypeOK, ManualTask, Tasks
    <2>4. queue' \in Seq(Tasks)
        BY <2>2, <2>3, SubmitType
    <2> QED
        BY <1>3, <2>4 DEF PickBitrate, TypeOK, clientVars, hostVars
<1>4. CASE Stop
    <2>1. queue' \in Seq(Tasks)
        BY <1>4 DEF Stop
    <2>2. stopped' \in BOOLEAN /\ adaptive' \in BOOLEAN /\ ~adaptive'
        BY <1>4 DEF Stop
    <2> QED
        BY <1>4, <2>1, <2>2 DEF Stop, TypeOK, uiVars, hostVars
<1> QED
    BY <1>1, <1>2, <1>3, <1>4 DEF Ui

LEMMA DecoderType == TypeOK /\ Decoder => TypeOK'
<1> SUFFICES ASSUME TypeOK, Decoder PROVE TypeOK'
    OBVIOUS
<1>1. CASE OnSample
    BY <1>1 DEF OnSample, TypeOK, clientVars, uiVars, hostVars
<1>2. CASE SubmitSample
    <2>1. SampleTask \in Tasks
        BY DEF Tasks
    <2>2. queue' \in Seq(Tasks)
        BY <1>2, <2>1, SubmitType DEF SubmitSample
    <2> QED
        BY <1>2, <2>2 DEF SubmitSample, TypeOK, clientVars, uiVars, hostVars
<1> QED
    BY <1>1, <1>2 DEF Decoder

LEMMA WorkerType == TypeOK /\ Worker => TypeOK'
<1> SUFFICES ASSUME TypeOK, Worker PROVE TypeOK'
    OBVIOUS
<1>1. CASE AskSupport
    <2>1. Head(queue) \in Tasks /\ Head(queue).task = "start" /\ queue' \in Seq(Tasks)
        BY <1>1, TakingType DEF AskSupport
    <2>2. worker' \in [pc : {"asking"}, on : BOOLEAN]
        BY <1>1, <2>1 DEF AskSupport, Tasks, SampleTask
    <2> QED
        BY <1>1, <2>1, <2>2 DEF AskSupport, Taking, TypeOK, uiVars, hostVars
<1>2. CASE SwitchOn
    <2>1. queue' \in Seq(Tasks)
        BY <1>2, TakingType DEF SwitchOn
    <2>2. /\ adaptive' \in BOOLEAN
          /\ controller' \in Controllers \cup {NoController}
          /\ adaptiveFailures' \in 0 .. MaxAdaptiveFailures
          /\ adaptive' => controller' # NoController
                          /\ adaptiveFailures' < MaxAdaptiveFailures
        <3>1. CASE supported
            BY <1>2, <3>1, EnableType, NoControllerIsNone DEF SwitchOn
        <3>2. CASE ~supported
            BY <1>2, <3>2 DEF SwitchOn, TypeOK, Controllers
        <3> QED
            BY <3>1, <3>2
    <2> QED
        BY <1>2, <2>1, <2>2 DEF SwitchOn, Taking, TypeOK, Controllers, uiVars, hostVars
<1>3. CASE SwitchOff
    <2>1. queue' \in Seq(Tasks)
        BY <1>3, TakingType DEF SwitchOff
    <2>2. worker' \in {Idle} \cup [pc : {"asking"}, on : BOOLEAN] \cup Sends
        <3>1. CASE supported
            BY <1>3, <3>1, RestoreType DEF SwitchOff
        <3>2. CASE ~supported
            BY <1>3, <3>2 DEF SwitchOff, TypeOK
        <3> QED
            BY <3>1, <3>2
    <2>3. /\ adaptive' \in BOOLEAN
          /\ controller' \in Controllers \cup {NoController}
          /\ adaptive' => adaptive /\ controller' = controller
        BY <1>3 DEF SwitchOff, TypeOK, Controllers
    <2> QED
        BY <1>3, <2>1, <2>2, <2>3 DEF SwitchOff, Taking, TypeOK, Controllers, uiVars, hostVars
<1>4. CASE SetManual
    <2>1. Head(queue) \in Tasks /\ Head(queue).task = "manual" /\ queue' \in Seq(Tasks)
        BY <1>4, TakingType DEF SetManual
    <2>2. worker' \in {Idle} \cup [pc : {"asking"}, on : BOOLEAN] \cup Sends
        <3>1. CASE supported
            <4>1. Head(queue).kbps \in Nat
                BY <2>1 DEF Tasks, SampleTask
            <4>2. Send("manual", Head(queue).kbps, 0)
                BY <1>4, <3>1 DEF SetManual
            <4> QED
                BY <4>1, <4>2, SendType
        <3>2. CASE ~supported
            BY <1>4, <3>2 DEF SetManual, TypeOK
        <3> QED
            BY <3>1, <3>2
    <2> QED
        BY <1>4, <2>1, <2>2 DEF SetManual, Taking, TypeOK, uiVars, hostVars
<1>5. CASE Adapt
    <2>1. queue' \in Seq(Tasks)
        BY <1>5, TakingType DEF Adapt
    <2>2. worker' \in {Idle} \cup [pc : {"asking"}, on : BOOLEAN] \cup Sends
        <3>1. CASE UNCHANGED worker
            BY <3>1 DEF TypeOK
        <3>2. CASE adaptive /\ controller # NoController
                   /\ \E kbps \in Decisions(controller) :
                          Send("step", kbps, IF kbps < currentKbps THEN currentKbps ELSE 0)
            <4>1. PICK kbps \in Decisions(controller) :
                          Send("step", kbps, IF kbps < currentKbps THEN currentKbps ELSE 0)
                BY <3>2
            <4>2. controller \in Controllers
                BY <3>2 DEF TypeOK, Controllers
            <4>3. kbps \in Nat
                BY <4>2, DecisionBounds
            <4>4. (IF kbps < currentKbps THEN currentKbps ELSE 0) \in Nat
                BY DEF TypeOK
            <4> QED
                BY <4>1, <4>3, <4>4, SendType
        <3> QED
            BY <1>5, <3>1, <3>2 DEF Adapt
    <2> QED
        BY <1>5, <2>1, <2>2 DEF Adapt, Taking, TypeOK, uiVars, hostVars
<1> QED
    BY <1>1, <1>2, <1>3, <1>4, <1>5 DEF Worker

LEMMA HostType == TypeOK /\ Host => TypeOK'
<1> SUFFICES ASSUME TypeOK, Host PROVE TypeOK'
    OBVIOUS
<1>1. CASE SupportAnswered
    <2>1. /\ adaptive' \in BOOLEAN
          /\ controller' \in Controllers \cup {NoController}
          /\ adaptiveFailures' \in 0 .. MaxAdaptiveFailures
          /\ adaptive' => controller' # NoController
                          /\ adaptiveFailures' < MaxAdaptiveFailures
        <3>1. CASE EnableAdaptive
            BY <3>1, EnableType, NoControllerIsNone DEF EnableAdaptive, TypeOK
        <3>2. CASE UNCHANGED <<adaptive, controller, adaptiveFailures>>
            BY <3>2 DEF TypeOK, Controllers
        <3> QED
            BY <1>1, <3>1, <3>2 DEF SupportAnswered
    <2>2. supported' \in BOOLEAN /\ worker' = Idle
        BY <1>1 DEF SupportAnswered
    <2> QED
        BY <1>1, <2>1, <2>2 DEF SupportAnswered, TypeOK, Controllers, uiVars, hostVars
<1>2. CASE RequestApplied
    <2>1. worker \in Sends
        BY <1>2, RequestIsSend DEF RequestApplied
    <2>2. worker.wire \in Nat /\ worker.kbps \in Nat
        BY <2>1 DEF Sends
    <2>3. encoderKbps' \in Nat
        BY <1>2, <2>2, EncoderBounds, HostAppliesBounds DEF RequestApplied
    <2>4. Succeeded(worker.wire)
        BY <1>2 DEF RequestApplied
    <2>5. controller' \in Controllers \cup {NoController}
              /\ (controller # NoController => controller' # NoController)
        <3>1. CASE controller = NoController \/ worker.job \notin {"manual", "step"}
            BY <2>4, <3>1 DEF Succeeded, TypeOK, Controllers
        <3>2. CASE controller # NoController /\ worker.job = "manual"
            <4>1. controller' = OnManualChange(worker.wire)
                BY <2>4, <3>2 DEF Succeeded
            <4>2. controller' \in Controllers
                BY <2>2, <4>1 DEF OnManualChange, Controllers, Larger
            <4> QED
                BY <4>2, NoControllerIsNone
        <3>3. CASE controller # NoController /\ worker.job = "step"
            <4>1. controller' = CapCeiling(OnApplied(controller, worker.wire), hostCapKbps)
                BY <2>4, <3>3 DEF Succeeded
            <4>2. OnApplied(controller, worker.wire) \in Controllers /\ hostCapKbps \in Nat
                BY <2>2, <3>3 DEF TypeOK, OnApplied, Controllers
            <4>3. controller' \in Controllers
                BY <4>1, <4>2, CapCeilingType
            <4> QED
                BY <4>3, NoControllerIsNone
        <3> QED
            BY <3>1, <3>2, <3>3
    <2>6. /\ adaptiveFailures' \in 0 .. MaxAdaptiveFailures
          /\ adaptiveFailures' = 0 \/ adaptiveFailures' = adaptiveFailures
        BY <2>4, LiveBitrateAssumption DEF Succeeded, TypeOK
    <2>7. currentKbps' \in Nat /\ chosenKbps' \in Nat /\ worker' = Idle
        BY <2>2, <2>4 DEF Succeeded, TypeOK
    <2>8. answered' \in BOOLEAN
        BY <2>4 DEF Succeeded
    <2>9. adaptive' => controller' # NoController
                       /\ adaptiveFailures' < MaxAdaptiveFailures
        BY <2>4, <2>5, <2>6, LiveBitrateAssumption DEF Succeeded, TypeOK
    <2> QED
        BY <2>3, <2>4, <2>5, <2>6, <2>7, <2>8, <2>9 DEF Succeeded, TypeOK, Controllers, uiVars
<1>3. CASE RequestClamped
    <2> DEFINE applied == HostApplies(EncoderOf(worker.wire))
               cap == IF hostCapKbps = 0 THEN applied ELSE Smaller(hostCapKbps, applied)
               again == IF worker.from > 0
                            THEN (Smaller(worker.from, cap) * worker.kbps) \div worker.from
                            ELSE worker.kbps
    <2>1. worker \in Sends
        BY <1>3, RequestIsSend DEF RequestClamped, Requesting
    <2>2. /\ worker.wire \in Nat /\ worker.kbps \in Nat /\ worker.from \in Nat
          /\ hostCapKbps \in Nat
        BY <2>1 DEF Sends, TypeOK
    <2>3. applied \in Nat
        BY <2>2, EncoderBounds, HostAppliesBounds
    <2> HIDE DEF applied
    <2>4. cap \in Nat
        BY <2>2, <2>3 DEF Smaller
    <2> HIDE DEF cap
    <2>5. Smaller(worker.from, cap) \in Nat /\ Smaller(worker.from, cap) <= worker.from
        BY <2>2, <2>4 DEF Smaller
    <2>6. again \in Nat
        BY <2>2, <2>5, ShareBound
    <2> HIDE DEF again
    <2>7. worker' = [worker EXCEPT !.pc = "second", !.wire = Smaller(again, cap)]
              /\ encoderKbps' = applied /\ hostCapKbps' = cap
        BY <1>3 DEF RequestClamped, applied, cap, again
    <2>8. worker' \in Sends
        BY <2>1, <2>4, <2>6, <2>7 DEF Sends, Smaller
    <2>9. answered' \in BOOLEAN
        BY <1>3 DEF RequestClamped
    <2> QED
        BY <1>3, <2>3, <2>4, <2>7, <2>8, <2>9 DEF RequestClamped, TypeOK, uiVars
<1>4. CASE Requesting /\ Failed /\ encoderKbps' \in Nat
    <2>1. worker' \in {Idle} \cup [pc : {"asking"}, on : BOOLEAN] \cup Sends
        BY <1>4, RestoreType DEF Failed
    <2>2. /\ adaptive' \in BOOLEAN /\ controller' \in Controllers \cup {NoController}
          /\ adaptiveFailures' \in 0 .. MaxAdaptiveFailures
          /\ adaptive' => controller' # NoController
                          /\ adaptiveFailures' < MaxAdaptiveFailures
        <3>1. CASE GivesUp
            <4>1. adaptiveFailures' = adaptiveFailures + 1 /\ adaptive' = FALSE
                      /\ controller' = NoController
                BY <1>4, <3>1 DEF Failed, GivesUp
            <4>2. adaptiveFailures < MaxAdaptiveFailures
                BY <3>1 DEF GivesUp, TypeOK
            <4>3. adaptiveFailures' \in 0 .. MaxAdaptiveFailures
                BY <4>1, <4>2, LiveBitrateAssumption DEF TypeOK
            <4>4. adaptive' \in BOOLEAN /\ ~adaptive'
                BY <4>1
            <4> QED
                BY <4>1, <4>3, <4>4
        <3>2. CASE ~GivesUp
            <4>1. adaptive' = adaptive /\ controller' = controller
                BY <1>4, <3>2 DEF Failed
            <4>2. CASE worker.job = "step" /\ adaptive
                <5>1. adaptiveFailures' = adaptiveFailures + 1
                    BY <1>4, <4>2 DEF Failed
                <5>2. adaptiveFailures + 1 < MaxAdaptiveFailures
                    BY <3>2, <4>2, LiveBitrateAssumption DEF GivesUp, TypeOK
                <5> QED
                    BY <4>1, <5>1, <5>2, LiveBitrateAssumption DEF TypeOK, Controllers
            <4>3. CASE ~(worker.job = "step" /\ adaptive)
                <5>1. adaptiveFailures' = adaptiveFailures
                    BY <1>4, <4>3 DEF Failed
                <5> QED
                    BY <4>1, <5>1 DEF TypeOK, Controllers
            <4> QED
                BY <4>2, <4>3
        <3> QED
            BY <3>1, <3>2
    <2>3. answered' \in BOOLEAN
        BY <1>4 DEF Failed
    <2> QED
        BY <1>4, <2>1, <2>2, <2>3 DEF Failed, TypeOK, Controllers, uiVars
<1>5. CASE RequestRefused
    BY <1>4, <1>5 DEF RequestRefused, TypeOK
<1>6. CASE ReplyLost
    <2>1. worker.wire \in Nat
        BY <1>6, RequestIsSend DEF ReplyLost, Sends
    <2>2. encoderKbps' \in Nat
        BY <1>6, <2>1, EncoderBounds, HostAppliesBounds DEF ReplyLost
    <2> QED
        BY <1>4, <1>6, <2>2 DEF ReplyLost
<1>7. CASE EndpointMissing
    <2>1. worker' = Idle /\ controller' = NoController /\ adaptive' = FALSE
              /\ supported' = FALSE /\ answered' = FALSE
        BY <1>7 DEF EndpointMissing
    <2> QED
        BY <1>7, <2>1 DEF EndpointMissing, TypeOK, uiVars
<1> QED
    BY <1>1, <1>2, <1>3, <1>5, <1>6, <1>7 DEF Host

-----------------------------------------------------------------------------
(* The requests and the choice. *)

LEMMA InitBounds == Init => SendWithinBounds /\ NeverAboveTheChoice
BY LiveBitrateAssumption DEF Init, SendWithinBounds, NeverAboveTheChoice, Requesting,
   Idle, Larger

\* Nothing these threads do touches a request, the choice or the controller.
LEMMA OthersKeepBounds ==
    ASSUME IInv,
           UNCHANGED <<supported, currentKbps, chosenKbps, hostCapKbps, controller, worker>>
    PROVE  SendWithinBounds' /\ NeverAboveTheChoice'
BY DEF IInv, SendWithinBounds, NeverAboveTheChoice, Requesting

LEMMA IdleKeepsBounds ==
    ASSUME worker' = Idle
    PROVE  SendWithinBounds'
BY DEF SendWithinBounds, Requesting, Idle

LEMMA EnableKeepsCeiling ==
    ASSUME IInv, EnableAdaptive
    PROVE  controller' # NoController => controller'.ceiling <= Larger(chosenKbps, 100)
<1>1. CASE adaptive /\ controller # NoController
    BY <1>1 DEF EnableAdaptive, IInv, NeverAboveTheChoice
<1>2. CASE ~(adaptive /\ controller # NoController)
    <2>1. WithinHostCap(chosenKbps) \in Nat /\ WithinHostCap(chosenKbps) <= chosenKbps
              /\ currentKbps \in Nat /\ chosenKbps \in Nat
        BY DEF IInv, TypeOK, WithinHostCap, Smaller
    <2>2. controller' = Controller(WithinHostCap(chosenKbps), currentKbps)
        BY <1>2 DEF EnableAdaptive
    <2>3. controller'.ceiling = Larger(WithinHostCap(chosenKbps), 100)
        BY <2>1, <2>2, ControllerType
    <2> QED
        BY <2>1, <2>3 DEF Larger
<1> QED
    BY <1>1, <1>2

LEMMA InitStart == Init => StartComesFirst
<1> SUFFICES ASSUME Init PROVE StartComesFirst
    OBVIOUS
<1>1. PICK wanted \in BOOLEAN : queue = <<StartTask(wanted)>>
    BY DEF Init
<1>2. DOMAIN queue = {1}
    BY <1>1
<1> QED
    BY <1>2 DEF Init, StartComesFirst, Idle

\* A task that is submitted is not the start, and comes after it.
LEMMA SubmitKeepsStart ==
    ASSUME TypeOK, StartComesFirst, NEW task \in Tasks, task.task # "start",
           Submit(task), UNCHANGED <<worker, supported, adaptive>>
    PROVE  StartComesFirst'
<1>1. CASE stopped
    BY <1>1 DEF Submit, StartComesFirst
<1>2. CASE ~stopped
    <2>1. queue' = Append(queue, task) /\ queue \in Seq(Tasks)
        BY <1>2 DEF Submit, TypeOK
    <2>2. \A i \in DOMAIN queue' :
              \/ i \in DOMAIN queue /\ queue'[i] = queue[i]
              \/ queue'[i] = task
        BY <2>1
    <2> QED
        BY <2>2 DEF StartComesFirst
<1> QED
    BY <1>1, <1>2

\* Once the worker has taken a task, the start is behind it.
LEMMA NoStartBehind ==
    ASSUME TypeOK, StartComesFirst, NEW kind, Taking(kind)
    PROVE  \A i \in DOMAIN queue' : queue'[i].task # "start"
<1>1. queue \in Seq(Tasks) /\ queue # <<>> /\ queue' = Tail(queue)
    BY DEF TypeOK, Taking
<1>2. \A i \in DOMAIN queue' : i + 1 \in DOMAIN queue /\ i + 1 # 1 /\ queue'[i] = queue[i + 1]
    BY <1>1
<1> QED
    BY <1>2 DEF StartComesFirst

LEMMA StartStep == TypeOK /\ StartComesFirst /\ Next => StartComesFirst'
<1> SUFFICES ASSUME TypeOK, StartComesFirst, Next PROVE StartComesFirst'
    OBVIOUS
<1>1. CASE OpenMenu
    BY <1>1 DEF OpenMenu, clientVars, StartComesFirst
<1>2. CASE PickAdaptive
    <2>1. PICK m \in menu : Submit(SwitchTask(m.on))
        BY <1>2 DEF PickAdaptive
    <2>2. SwitchTask(m.on) \in Tasks /\ SwitchTask(m.on).task # "start"
        BY DEF TypeOK, SwitchTask, Tasks
    <2> QED
        BY <1>2, <2>1, <2>2, SubmitKeepsStart DEF PickAdaptive, clientVars
<1>3. CASE PickBitrate
    <2>1. PICK m \in menu : \E kbps \in m.choices : Submit(ManualTask(kbps))
        BY <1>3 DEF PickBitrate
    <2>2. PICK kbps \in m.choices : Submit(ManualTask(kbps))
        BY <2>1
    <2>3. ManualTask(kbps) \in Tasks /\ ManualTask(kbps).task # "start"
        BY DEF TypeOK, ManualTask, Tasks
    <2> QED
        BY <1>3, <2>2, <2>3, SubmitKeepsStart DEF PickBitrate, clientVars
<1>4. CASE Stop
    BY <1>4 DEF Stop, StartComesFirst
<1>5. CASE OnSample
    BY <1>5 DEF OnSample, clientVars, StartComesFirst
<1>6. CASE SubmitSample
    <2>1. SampleTask \in Tasks /\ SampleTask.task # "start"
        BY DEF SampleTask, Tasks
    <2> QED
        BY <1>6, <2>1, SubmitKeepsStart DEF SubmitSample, clientVars
<1>7. CASE AskSupport
    <2>1. \A i \in DOMAIN queue' : queue'[i].task # "start"
        BY <1>7, NoStartBehind DEF AskSupport
    <2>2. ~supported /\ ~adaptive
        <3>1. queue \in Seq(Tasks) /\ queue # <<>> /\ Head(queue).task = "start"
            BY <1>7 DEF AskSupport, Taking, TypeOK
        <3>2. 1 \in DOMAIN queue /\ Head(queue) = queue[1]
            BY <3>1
        <3> QED
            BY <3>1, <3>2 DEF StartComesFirst
    <2> QED
        BY <1>7, <2>1, <2>2 DEF AskSupport, StartComesFirst
<1>8. CASE SwitchOn
    <2>1. \A i \in DOMAIN queue' : queue'[i].task # "start"
        BY <1>8, NoStartBehind DEF SwitchOn
    <2>2. worker' = Idle /\ supported' = supported /\ (adaptive' => adaptive \/ supported)
        BY <1>8 DEF SwitchOn, Taking
    <2> QED
        BY <2>1, <2>2 DEF StartComesFirst, Idle
<1>9. CASE SwitchOff
    <2>1. \A i \in DOMAIN queue' : queue'[i].task # "start"
        BY <1>9, NoStartBehind DEF SwitchOff
    <2>2. worker'.pc # "asking" /\ supported' = supported /\ (adaptive' => adaptive)
        BY <1>9, RestoreType DEF SwitchOff, Taking, Idle, Sends
    <2> QED
        BY <2>1, <2>2 DEF StartComesFirst
<1>10. CASE SetManual
    <2>1. \A i \in DOMAIN queue' : queue'[i].task # "start"
        BY <1>10, NoStartBehind DEF SetManual
    <2>2. worker'.pc # "asking"
        BY <1>10 DEF SetManual, Taking, Idle, Send
    <2>3. supported' = supported /\ adaptive' = adaptive
        BY <1>10 DEF SetManual
    <2> QED
        BY <2>1, <2>2, <2>3 DEF StartComesFirst
<1>11. CASE Adapt
    <2>1. \A i \in DOMAIN queue' : queue'[i].task # "start"
        BY <1>11, NoStartBehind DEF Adapt
    <2>2. worker'.pc # "asking"
        BY <1>11 DEF Adapt, Taking, Idle, Send
    <2>3. supported' = supported /\ adaptive' = adaptive
        BY <1>11 DEF Adapt
    <2> QED
        BY <2>1, <2>2, <2>3 DEF StartComesFirst
<1>12. CASE SupportAnswered
    <2>1. worker # Idle /\ ~adaptive
        BY <1>12 DEF SupportAnswered, StartComesFirst, Idle
    <2>2. /\ worker' = Idle /\ queue' = queue
          /\ adaptive' => supported' \/ adaptive
        BY <1>12 DEF SupportAnswered
    <2>3. \A i \in DOMAIN queue' : queue'[i].task # "start"
        BY <2>1, <2>2 DEF StartComesFirst
    <2> QED
        BY <2>1, <2>2, <2>3 DEF StartComesFirst, Idle
<1>13. CASE Requesting /\ queue' = queue /\ worker'.pc # "asking"
            /\ (adaptive' => adaptive /\ supported')
    <2>1. worker # Idle
        BY <1>13 DEF Requesting, Idle
    <2>2. \A i \in DOMAIN queue' : queue'[i].task # "start"
        BY <1>13, <2>1 DEF StartComesFirst
    <2> QED
        BY <1>13, <2>2 DEF StartComesFirst
<1>14. CASE RequestApplied
    BY <1>13, <1>14 DEF RequestApplied, Succeeded, StartComesFirst, Idle
<1>15. CASE RequestClamped
    <2>1. worker'.pc # "asking"
        <3>1. worker \in Sends
            BY <1>15, RequestIsSend DEF RequestClamped, Requesting
        <3>2. PICK wire : worker' = [worker EXCEPT !.pc = "second", !.wire = wire]
            BY <1>15 DEF RequestClamped
        <3> QED
            BY <3>1, <3>2 DEF Sends
    <2> QED
        BY <1>13, <1>15, <2>1 DEF RequestClamped, Requesting, StartComesFirst
<1>16. CASE Requesting /\ Failed
    <2>1. worker'.pc # "asking"
        BY <1>16, RestoreType DEF Failed, Idle, Sends
    <2> QED
        BY <1>13, <1>16, <2>1 DEF Failed, StartComesFirst
<1>17. CASE EndpointMissing
    BY <1>13, <1>17 DEF EndpointMissing, Idle
<1>18. RequestRefused \/ ReplyLost => Requesting /\ Failed
    BY DEF RequestRefused, ReplyLost
<1> QED
    BY <1>1, <1>2, <1>3, <1>4, <1>5, <1>6, <1>7, <1>8, <1>9, <1>10, <1>11, <1>12,
       <1>14, <1>15, <1>16, <1>17, <1>18 DEF Next, Ui, Decoder, Worker, Host

LEMMA WorkerKeepsBounds == IInv /\ Worker => SendWithinBounds' /\ NeverAboveTheChoice'
<1> SUFFICES ASSUME IInv, Worker PROVE SendWithinBounds' /\ NeverAboveTheChoice'
    OBVIOUS
<1> USE DEF IInv
<1>1. CASE AskSupport
    <2>1. worker'.pc = "asking"
        BY <1>1 DEF AskSupport
    <2> QED
        BY <1>1, <2>1 DEF AskSupport, Taking, SendWithinBounds, Requesting, NeverAboveTheChoice
<1>2. CASE SwitchOn
    <2>1. worker' = Idle
        BY <1>2 DEF SwitchOn, Taking
    <2>2. controller' # NoController => controller'.ceiling <= Larger(chosenKbps, 100)
        BY <1>2, EnableKeepsCeiling DEF SwitchOn, NeverAboveTheChoice
    <2> QED
        BY <1>2, <2>1, <2>2, IdleKeepsBounds DEF SwitchOn, Taking, NeverAboveTheChoice
<1>3. CASE SwitchOff
    <2>1. CASE supported
        <3>1. RestoreChosen("restore") /\ controller' = NoController
                  /\ supported' = supported /\ chosenKbps' = chosenKbps
                  /\ currentKbps' = currentKbps /\ hostCapKbps' = hostCapKbps
            BY <1>3, <2>1 DEF SwitchOff, Taking
        <3>2. chosenKbps <= Larger(chosenKbps, 100)
            BY DEF TypeOK, Larger
        <3>3. SendWithinBounds'
            <4>1. CASE worker' = Idle
                BY <4>1, IdleKeepsBounds
            <4>2. CASE /\ worker' \in Sends
                       /\ worker'.kbps <= chosenKbps /\ worker'.wire <= worker'.kbps
                       /\ hostCapKbps > 0 => worker'.wire <= hostCapKbps
                <5>1. worker'.kbps <= Larger(chosenKbps, 100)
                    BY <3>2, <4>2 DEF Sends, TypeOK, Larger
                <5> QED
                    BY <2>1, <3>1, <4>2, <5>1 DEF SendWithinBounds
            <4> QED
                BY <3>1, <4>1, <4>2, RestoreType
        <3> QED
            BY <3>1, <3>3 DEF NeverAboveTheChoice
    <2>2. CASE ~supported
        BY <1>3, <2>2, OthersKeepBounds DEF SwitchOff, Taking
    <2> QED
        BY <2>1, <2>2
<1>4. CASE SetManual
    <2>1. CASE supported
        <3>1. Head(queue) \in Tasks /\ Head(queue).task = "manual"
            BY <1>4, TakingType DEF SetManual
        <3>2. Head(queue).kbps \in Nat
            BY <3>1 DEF Tasks, SampleTask
        <3>3. Send("manual", Head(queue).kbps, 0)
                  /\ UNCHANGED <<supported, currentKbps, chosenKbps, hostCapKbps, controller>>
            BY <1>4, <2>1 DEF SetManual, Taking
        <3>4. /\ worker'.job = "manual" /\ worker'.kbps = Head(queue).kbps
              /\ worker'.wire <= Head(queue).kbps
              /\ hostCapKbps > 0 => worker'.wire <= hostCapKbps
            BY <3>2, <3>3, SendType
        <3> QED
            BY <2>1, <3>3, <3>4 DEF SendWithinBounds, NeverAboveTheChoice
    <2>2. CASE ~supported
        BY <1>4, <2>2, OthersKeepBounds DEF SetManual, Taking
    <2> QED
        BY <2>1, <2>2
<1>5. CASE Adapt
    <2>1. UNCHANGED <<supported, currentKbps, chosenKbps, hostCapKbps, controller>>
        BY <1>5 DEF Adapt, Taking
    <2>2. CASE UNCHANGED worker
        BY <2>1, <2>2, OthersKeepBounds
    <2>3. CASE adaptive /\ controller # NoController
               /\ \E kbps \in Decisions(controller) :
                      Send("step", kbps, IF kbps < currentKbps THEN currentKbps ELSE 0)
        <3>1. PICK kbps \in Decisions(controller) :
                      Send("step", kbps, IF kbps < currentKbps THEN currentKbps ELSE 0)
            BY <2>3
        <3>2. controller \in Controllers
            BY <2>3 DEF TypeOK, Controllers
        <3>3. kbps \in Nat /\ kbps <= controller.ceiling
            BY <3>2, DecisionBounds
        <3>4. (IF kbps < currentKbps THEN currentKbps ELSE 0) \in Nat
            BY DEF TypeOK
        <3>5. /\ worker'.kbps = kbps /\ worker'.wire <= kbps
              /\ hostCapKbps > 0 => worker'.wire <= hostCapKbps
            BY <3>1, <3>3, <3>4, SendType
        <3>6. kbps <= Larger(chosenKbps, 100)
            <4>1. controller.ceiling <= Larger(chosenKbps, 100)
                BY <2>3 DEF NeverAboveTheChoice
            <4>2. Larger(chosenKbps, 100) \in Nat /\ controller.ceiling \in Nat
                BY <3>2 DEF TypeOK, Larger, Controllers
            <4> QED
                BY <3>3, <4>1, <4>2
        <3>7. supported
            BY <2>3 DEF StartComesFirst
        <3> QED
            BY <2>1, <3>5, <3>6, <3>7 DEF SendWithinBounds, NeverAboveTheChoice
    <2> QED
        BY <1>5, <2>2, <2>3 DEF Adapt
<1> QED
    BY <1>1, <1>2, <1>3, <1>4, <1>5 DEF Worker

LEMMA HostKeepsBounds == IInv /\ Host => SendWithinBounds' /\ NeverAboveTheChoice'
<1> SUFFICES ASSUME IInv, Host PROVE SendWithinBounds' /\ NeverAboveTheChoice'
    OBVIOUS
<1> USE DEF IInv
<1>1. CASE SupportAnswered
    <2>1. worker' = Idle /\ currentKbps' = currentKbps /\ chosenKbps' = chosenKbps
        BY <1>1 DEF SupportAnswered
    <2>2. controller' # NoController => controller'.ceiling <= Larger(chosenKbps, 100)
        BY <1>1, EnableKeepsCeiling DEF SupportAnswered, NeverAboveTheChoice
    <2> QED
        BY <2>1, <2>2, IdleKeepsBounds DEF NeverAboveTheChoice
<1>2. CASE RequestApplied
    <2>1. worker \in Sends
        BY <1>2, RequestIsSend DEF RequestApplied
    <2>2. worker.wire \in Nat /\ worker.kbps \in Nat /\ chosenKbps \in Nat
        BY <2>1 DEF Sends, TypeOK
    <2>3. /\ worker.wire <= worker.kbps
          /\ worker.job # "manual" => worker.kbps <= Larger(chosenKbps, 100)
        BY <1>2 DEF RequestApplied, SendWithinBounds
    <2>4. Succeeded(worker.wire)
        BY <1>2 DEF RequestApplied
    <2>5. /\ worker' = Idle /\ currentKbps' = worker.wire
          /\ chosenKbps' = IF worker.job = "manual" THEN worker.kbps ELSE chosenKbps
        BY <2>4 DEF Succeeded
    <2>6. currentKbps' <= Larger(chosenKbps', 100)
        BY <2>2, <2>3, <2>5 DEF Larger
    <2>7. controller' # NoController => controller'.ceiling <= Larger(chosenKbps', 100)
        <3>1. CASE controller = NoController
            BY <2>4, <3>1 DEF Succeeded
        <3>2. CASE controller # NoController /\ worker.job = "manual"
            <4>1. controller' = OnManualChange(worker.wire)
                BY <2>4, <3>2 DEF Succeeded
            <4>2. controller'.ceiling = Larger(worker.wire, 100)
                BY <4>1 DEF OnManualChange
            <4> QED
                BY <2>2, <2>3, <2>5, <3>2, <4>2 DEF Larger
        <3>3. CASE controller # NoController /\ worker.job = "step"
            <4>1. controller' = CapCeiling(OnApplied(controller, worker.wire), hostCapKbps)
                BY <2>4, <3>3 DEF Succeeded
            <4>2. /\ OnApplied(controller, worker.wire) \in Controllers /\ hostCapKbps \in Nat
                  /\ OnApplied(controller, worker.wire).ceiling = controller.ceiling
                  /\ controller.ceiling \in Nat
                BY <2>2, <3>3 DEF TypeOK, OnApplied, Controllers
            <4>3. controller'.ceiling <= Larger(controller.ceiling, 100)
                      /\ controller'.ceiling \in Nat
                <5>1. controller' \in Controllers
                          /\ controller'.ceiling <= Larger(controller.ceiling, 100)
                    BY <4>1, <4>2, CapCeilingType
                <5> QED
                    BY <5>1 DEF Controllers
            <4>4. controller.ceiling <= Larger(chosenKbps, 100)
                BY <3>3 DEF NeverAboveTheChoice
            <4> QED
                BY <2>2, <2>5, <3>3, <4>2, <4>3, <4>4 DEF Larger
        <3>4. CASE controller # NoController /\ worker.job \notin {"manual", "step"}
            BY <2>4, <2>5, <3>4 DEF Succeeded, NeverAboveTheChoice
        <3> QED
            BY <3>1, <3>2, <3>3, <3>4
    <2> QED
        BY <2>5, <2>6, <2>7, IdleKeepsBounds DEF NeverAboveTheChoice
<1>3. CASE RequestClamped
    <2> DEFINE applied == HostApplies(EncoderOf(worker.wire))
               cap == IF hostCapKbps = 0 THEN applied ELSE Smaller(hostCapKbps, applied)
               again == IF worker.from > 0
                            THEN (Smaller(worker.from, cap) * worker.kbps) \div worker.from
                            ELSE worker.kbps
    <2>1. worker \in Sends
        BY <1>3, RequestIsSend DEF RequestClamped, Requesting
    <2>2. /\ worker.wire \in Nat /\ worker.kbps \in Nat /\ worker.from \in Nat
          /\ hostCapKbps \in Nat
        BY <2>1 DEF Sends, TypeOK
    <2>3. applied \in Nat
        BY <2>2, EncoderBounds, HostAppliesBounds
    <2> HIDE DEF applied
    <2>4. cap \in Nat
        BY <2>2, <2>3 DEF Smaller
    <2> HIDE DEF cap
    <2>5. Smaller(worker.from, cap) \in Nat /\ Smaller(worker.from, cap) <= worker.from
        BY <2>2, <2>4 DEF Smaller
    <2>6. again \in Nat /\ again <= worker.kbps
        BY <2>2, <2>5, ShareBound
    <2> HIDE DEF again
    <2>7. worker' = [worker EXCEPT !.pc = "second", !.wire = Smaller(again, cap)]
              /\ hostCapKbps' = cap
              /\ UNCHANGED <<supported, currentKbps, chosenKbps, controller>>
        BY <1>3 DEF RequestClamped, applied, cap, again
    <2>8. /\ worker'.wire = Smaller(again, cap) /\ worker'.kbps = worker.kbps
          /\ worker'.job = worker.job
        BY <2>1, <2>7 DEF Sends
    <2>9. worker'.wire <= worker'.kbps /\ worker'.wire <= hostCapKbps'
        BY <2>2, <2>4, <2>6, <2>7, <2>8 DEF Smaller
    <2>10. supported /\ (worker.job # "manual" => worker.kbps <= Larger(chosenKbps, 100))
        BY <1>3 DEF RequestClamped, SendWithinBounds, Requesting
    <2> QED
        BY <2>7, <2>8, <2>9, <2>10 DEF SendWithinBounds, NeverAboveTheChoice
<1>4. CASE Requesting /\ Failed
    <2>1. /\ UNCHANGED <<supported, currentKbps, chosenKbps, hostCapKbps>>
          /\ controller' # NoController => controller' = controller
        BY <1>4 DEF Failed
    <2>2. supported
        BY <1>4 DEF SendWithinBounds
    <2>3. SendWithinBounds'
        <3>1. CASE worker' = Idle
            BY <3>1, IdleKeepsBounds
        <3>2. CASE /\ worker' \in Sends
                   /\ worker'.kbps <= chosenKbps /\ worker'.wire <= worker'.kbps
                   /\ hostCapKbps > 0 => worker'.wire <= hostCapKbps
            <4>1. worker'.kbps <= Larger(chosenKbps, 100)
                BY <3>2 DEF Sends, TypeOK, Larger
            <4> QED
                BY <2>1, <2>2, <3>2, <4>1 DEF SendWithinBounds
        <3>3. worker' = Idle \/ RestoreChosen("giveup")
            BY <1>4 DEF Failed
        <3> QED
            BY <3>1, <3>2, <3>3, RestoreType
    <2> QED
        BY <2>1, <2>3 DEF NeverAboveTheChoice
<1>5. CASE EndpointMissing
    <2>1. worker' = Idle /\ controller' = NoController
              /\ UNCHANGED <<currentKbps, chosenKbps>>
        BY <1>5 DEF EndpointMissing
    <2> QED
        BY <2>1, IdleKeepsBounds DEF NeverAboveTheChoice
<1>6. RequestRefused \/ ReplyLost => Requesting /\ Failed
    BY DEF RequestRefused, ReplyLost
<1> QED
    BY <1>1, <1>2, <1>3, <1>4, <1>5, <1>6 DEF Host

LEMMA OtherThreadsKeepBounds ==
    IInv /\ (Ui \/ Decoder \/ UNCHANGED vars) => SendWithinBounds' /\ NeverAboveTheChoice'
BY OthersKeepBounds DEF Ui, Decoder, OpenMenu, PickAdaptive, PickBitrate, Stop, OnSample,
   SubmitSample, vars, clientVars

LEMMA IInvHolds == Spec => []IInv
<1>1. Init => IInv
    BY InitType, InitStart, InitBounds DEF IInv
<1>2. IInv /\ [Next]_vars => IInv'
    <2> SUFFICES ASSUME IInv, [Next]_vars PROVE IInv'
        OBVIOUS
    <2>1. TypeOK'
        <3>1. CASE UNCHANGED vars
            BY <3>1 DEF IInv, TypeOK, vars, clientVars, uiVars, hostVars
        <3> QED
            BY <3>1, UiType, DecoderType, WorkerType, HostType DEF Next, IInv
    <2>2. StartComesFirst'
        <3>1. CASE UNCHANGED vars
            BY <3>1 DEF IInv, StartComesFirst, vars, clientVars
        <3> QED
            BY <3>1, StartStep DEF IInv
    <2>3. SendWithinBounds' /\ NeverAboveTheChoice'
        BY OtherThreadsKeepBounds, WorkerKeepsBounds, HostKeepsBounds DEF Next
    <2> QED
        BY <2>1, <2>2, <2>3 DEF IInv
<1> QED
    BY <1>1, <1>2, PTL DEF Spec

\* Every variable of the live bitrate keeps its type, and adaptation that is on
\* has a controller and fewer than three failures behind it (LiveBitrate 89-107).
THEOREM TypeCorrect == Spec => []TypeOK
<1>1. IInv => TypeOK
    BY DEF IInv
<1> QED
    BY <1>1, IInvHolds, PTL

\* Whatever the host answers and the menu asks for, neither the believed bitrate
\* nor the controller's ceiling exceeds the bitrate chosen (setManual() 239-257,
\* adapt() 285-316).
THEOREM ChoiceIsTheCeiling == Spec => []NeverAboveTheChoice
<1>1. IInv => NeverAboveTheChoice
    BY DEF IInv
<1> QED
    BY <1>1, IInvHolds, PTL

\* A host that never said it can change the bitrate, or said its endpoint is
\* missing, is asked nothing (start() 165, request() 374).
THEOREM HostIsAskedFirst == Spec => []OnlySupportedHostsAreAsked
<1>1. IInv => OnlySupportedHostsAreAsked
    BY DEF IInv, SendWithinBounds, OnlySupportedHostsAreAsked
<1> QED
    BY <1>1, IInvHolds, PTL

\* No request exceeds the limit the host gave away, by hand or not (send() 340,
\* 353).
THEOREM LimitIsRespected == Spec => []RequestsWithinLimit
<1>1. IInv => RequestsWithinLimit
    <2> SUFFICES ASSUME IInv, Requesting, hostCapKbps > 0, WarpFactor = 1
                 PROVE  EncoderOf(worker.wire) <= hostCapKbps
        BY DEF RequestsWithinLimit
    <2>1. worker.wire \in Nat /\ hostCapKbps \in Nat
        BY RequestIsSend DEF IInv, Sends, TypeOK
    <2>2. worker.wire <= hostCapKbps
        BY DEF IInv, SendWithinBounds
    <2>3. EncoderOf(worker.wire) \in Nat /\ EncoderOf(worker.wire) <= Larger(1, worker.wire)
        BY <2>1, EncoderBounds
    <2> QED
        BY <2>1, <2>2, <2>3 DEF Larger
<1> QED
    BY <1>1, IInvHolds, PTL

\* Between requests, and the last of them answered, the encoder runs at what the
\* client believes (send() 339-358).
THEOREM BeliefIsReal == Spec => []BelievedBitrateIsReal
<1> DEFINE Belief == BelievedBitrateIsReal
<1>1. Init => Belief
    BY DEF Init, BelievedBitrateIsReal
<1>2. IInv /\ Belief /\ [Next]_vars => Belief'
    <2> SUFFICES ASSUME IInv, Belief, [Next]_vars PROVE Belief'
        OBVIOUS
    <2>1. CASE UNCHANGED <<hostVars, currentKbps>> /\ (Requesting => Requesting')
        BY <2>1 DEF BelievedBitrateIsReal, hostVars
    <2>2. CASE UNCHANGED vars
        BY <2>1, <2>2 DEF vars, clientVars, Requesting
    <2>3. CASE Ui \/ Decoder
        BY <2>1, <2>3 DEF Ui, Decoder, OpenMenu, PickAdaptive, PickBitrate, Stop,
           OnSample, SubmitSample, clientVars, Requesting
    <2>4. CASE Worker
        <3>1. \E kind : Taking(kind)
            BY <2>4 DEF Worker, AskSupport, SwitchOn, SwitchOff, SetManual, Adapt
        <3> QED
            BY <2>1, <3>1 DEF Taking, Requesting, Idle
    <2>5. CASE SupportAnswered
        BY <2>1, <2>5 DEF SupportAnswered, Requesting
    <2>6. CASE RequestApplied
        BY <2>6 DEF RequestApplied, Succeeded, BelievedBitrateIsReal
    <2>7. CASE RequestClamped
        <3>1. worker \in Sends
            BY <2>7, RequestIsSend DEF IInv, RequestClamped, Requesting
        <3>2. PICK wire : worker' = [worker EXCEPT !.pc = "second", !.wire = wire]
            BY <2>7 DEF RequestClamped
        <3>3. Requesting'
            BY <3>1, <3>2 DEF Sends, Requesting
        <3> QED
            BY <3>3 DEF BelievedBitrateIsReal
    <2>8. CASE RequestRefused \/ ReplyLost \/ EndpointMissing
        <3>1. ~answered'
            BY <2>8 DEF RequestRefused, ReplyLost, EndpointMissing, Failed
        <3> QED
            BY <3>1 DEF BelievedBitrateIsReal
    <2> QED
        BY <2>2, <2>3, <2>4, <2>5, <2>6, <2>7, <2>8 DEF Next, Host
<1> QED
    BY <1>1, <1>2, IInvHolds, PTL DEF Spec

-----------------------------------------------------------------------------
(* A stream that does not adapt.  A request by hand ends at what it asked   *)
(* for within the limit known by then, and one that restores asks for the   *)
(* bitrate chosen; a step is only under way while adapting.  Before the     *)
(* host has been asked nothing has moved.                                   *)

OffInv ==
    /\ OffRunsAtChosen
    /\ Requesting /\ (worker.pc = "first" \/ worker.job # "step")
           => worker.wire = WithinHostCap(worker.kbps)
    /\ Requesting /\ worker.job \in {"restore", "giveup"}
           => WithinHostCap(worker.kbps) = WithinHostCap(chosenKbps)
    /\ Requesting /\ worker.job = "step" /\ ~stopped => adaptive
    /\ Requesting /\ worker.job # "step" => worker.from = 0
    /\ (worker.pc = "asking" \/ \E i \in DOMAIN queue : queue[i].task = "start")
           => currentKbps = chosenKbps /\ hostCapKbps = 0

LEMMA InitOff == Init => OffInv
BY DEF Init, OffInv, OffRunsAtChosen, Requesting, Idle

\* What a send asks for first.
LEMMA SendAsks ==
    ASSUME TypeOK, NEW job \in {"manual", "restore", "step", "giveup"},
           NEW kbps \in Nat, NEW from \in Nat, Send(job, kbps, from)
    PROVE  /\ worker' # Idle /\ Requesting' /\ worker'.pc = "first"
           /\ worker'.job = job /\ worker'.kbps = kbps
           /\ worker'.wire = WithinHostCap(kbps) /\ worker'.from = from
BY DEF Send, Idle, Requesting

\* Holding to a limit twice is holding to it once.
LEMMA HeldTwice ==
    ASSUME TypeOK, NEW kbps \in Nat
    PROVE  /\ WithinHostCap(kbps) \in Nat
           /\ WithinHostCap(WithinHostCap(kbps)) = WithinHostCap(kbps)
BY DEF TypeOK, WithinHostCap, Smaller

\* restoreChosen() finds the stream there, or asks for the bitrate chosen.
LEMMA RestoreAsks ==
    ASSUME TypeOK, NEW job \in {"restore", "giveup"}, RestoreChosen(job)
    PROVE  \/ worker' = Idle /\ currentKbps = WithinHostCap(chosenKbps)
           \/ /\ worker' # Idle /\ Requesting' /\ worker'.job = job
              /\ worker'.from = 0
              /\ worker'.wire = WithinHostCap(worker'.kbps)
              /\ WithinHostCap(worker'.kbps) = WithinHostCap(chosenKbps)
<1>1. CASE currentKbps = WithinHostCap(chosenKbps)
    BY <1>1 DEF RestoreChosen
<1>2. CASE currentKbps # WithinHostCap(chosenKbps)
    <2>1. Send(job, WithinHostCap(chosenKbps), 0)
        BY <1>2 DEF RestoreChosen
    <2>2. chosenKbps \in Nat
        BY DEF TypeOK
    <2>3. WithinHostCap(chosenKbps) \in Nat
        BY <2>2, HeldTwice
    <2>4. /\ worker' # Idle /\ Requesting' /\ worker'.job = job
          /\ worker'.kbps = WithinHostCap(chosenKbps) /\ worker'.from = 0
          /\ worker'.wire = WithinHostCap(WithinHostCap(chosenKbps))
        BY <2>1, <2>3, SendAsks
    <2> QED
        BY <2>2, <2>4, HeldTwice
<1> QED
    BY <1>1, <1>2

\* Steps that move none of the bitrates and no request.
LEMMA OthersKeepOff ==
    ASSUME OffInv,
           UNCHANGED <<currentKbps, chosenKbps, hostCapKbps, worker>>,
           stopped' \/ (UNCHANGED <<supported, adaptive, answered, stopped>>),
           (\E i \in DOMAIN queue' : queue'[i].task = "start")
               => \E i \in DOMAIN queue : queue[i].task = "start"
    PROVE  OffInv'
<1>1. OffRunsAtChosen'
    BY DEF OffInv, OffRunsAtChosen, WithinHostCap
<1>2. (Requesting /\ worker.job = "step" /\ ~stopped => adaptive)'
    BY DEF OffInv, Requesting
<1>3. /\ (Requesting /\ (worker.pc = "first" \/ worker.job # "step")
              => worker.wire = WithinHostCap(worker.kbps))'
      /\ (Requesting /\ worker.job \in {"restore", "giveup"}
              => WithinHostCap(worker.kbps) = WithinHostCap(chosenKbps))'
      /\ (Requesting /\ worker.job # "step" => worker.from = 0)'
    BY DEF OffInv, Requesting, WithinHostCap
<1>4. ((worker.pc = "asking" \/ \E i \in DOMAIN queue : queue[i].task = "start")
           => currentKbps = chosenKbps /\ hostCapKbps = 0)'
    BY DEF OffInv
<1> QED
    BY <1>1, <1>2, <1>3, <1>4 DEF OffInv

\* A submitted task that is not the start leaves no start where none was.
LEMMA SubmitNoStart ==
    ASSUME TypeOK, NEW task \in Tasks, task.task # "start", Submit(task),
           \E i \in DOMAIN queue' : queue'[i].task = "start"
    PROVE  \E i \in DOMAIN queue : queue[i].task = "start"
<1>1. CASE stopped
    BY <1>1 DEF Submit
<1>2. CASE ~stopped
    <2>1. queue' = Append(queue, task) /\ queue \in Seq(Tasks)
        BY <1>2 DEF Submit, TypeOK
    <2>2. \A i \in DOMAIN queue' :
              \/ i \in DOMAIN queue /\ queue'[i] = queue[i]
              \/ queue'[i] = task
        BY <2>1
    <2> QED
        BY <2>2
<1> QED
    BY <1>1, <1>2

LEMMA UiDecoderKeepOff == IInv /\ OffInv /\ (Ui \/ Decoder) => OffInv'
<1> SUFFICES ASSUME IInv, OffInv, Ui \/ Decoder PROVE OffInv'
    OBVIOUS
<1> USE DEF IInv
<1>1. CASE OpenMenu
    BY <1>1, OthersKeepOff DEF OpenMenu, clientVars, hostVars
<1>2. CASE PickAdaptive
    <2>1. PICK m \in menu : Submit(SwitchTask(m.on))
        BY <1>2 DEF PickAdaptive
    <2>2. SwitchTask(m.on) \in Tasks /\ SwitchTask(m.on).task # "start"
        BY DEF TypeOK, SwitchTask, Tasks
    <2>3. (\E i \in DOMAIN queue' : queue'[i].task = "start")
               => \E i \in DOMAIN queue : queue[i].task = "start"
        BY <2>1, <2>2, SubmitNoStart
    <2> QED
        BY <1>2, <2>3, OthersKeepOff DEF PickAdaptive, clientVars, hostVars
<1>3. CASE PickBitrate
    <2>1. PICK m \in menu : \E kbps \in m.choices : Submit(ManualTask(kbps))
        BY <1>3 DEF PickBitrate
    <2>2. PICK kbps \in m.choices : Submit(ManualTask(kbps))
        BY <2>1
    <2>3. ManualTask(kbps) \in Tasks /\ ManualTask(kbps).task # "start"
        BY DEF TypeOK, ManualTask, Tasks
    <2>4. (\E i \in DOMAIN queue' : queue'[i].task = "start")
               => \E i \in DOMAIN queue : queue[i].task = "start"
        BY <2>2, <2>3, SubmitNoStart
    <2> QED
        BY <1>3, <2>4, OthersKeepOff DEF PickBitrate, clientVars, hostVars
<1>4. CASE Stop
    <2>1. DOMAIN queue' = {}
        BY <1>4 DEF Stop
    <2> QED
        BY <1>4, <2>1, OthersKeepOff DEF Stop, hostVars
<1>5. CASE OnSample
    BY <1>5, OthersKeepOff DEF OnSample, clientVars, hostVars
<1>6. CASE SubmitSample
    <2>1. SampleTask \in Tasks /\ SampleTask.task # "start"
        BY DEF SampleTask, Tasks
    <2>2. (\E i \in DOMAIN queue' : queue'[i].task = "start")
               => \E i \in DOMAIN queue : queue[i].task = "start"
        BY <1>6, <2>1, SubmitNoStart DEF SubmitSample
    <2> QED
        BY <1>6, <2>2, OthersKeepOff DEF SubmitSample, clientVars, hostVars
<1> QED
    BY <1>1, <1>2, <1>3, <1>4, <1>5, <1>6 DEF Ui, Decoder

LEMMA WorkerKeepsOff == IInv /\ OffInv /\ Worker => OffInv'
<1> SUFFICES ASSUME IInv, OffInv, Worker PROVE OffInv'
    OBVIOUS
<1> USE DEF IInv
<1>1. CASE AskSupport
    <2>1. \A i \in DOMAIN queue' : queue'[i].task # "start"
        BY <1>1, NoStartBehind DEF AskSupport
    <2>2. \E i \in DOMAIN queue : queue[i].task = "start"
        <3>1. queue \in Seq(Tasks) /\ queue # <<>> /\ Head(queue).task = "start"
            BY <1>1 DEF AskSupport, Taking, TypeOK
        <3> QED
            BY <3>1
    <2>3. worker'.pc = "asking" /\ worker' # Idle /\ ~Requesting'
        BY <1>1 DEF AskSupport, Idle, Requesting
    <2>4. (currentKbps = chosenKbps /\ hostCapKbps = 0)'
        BY <1>1, <2>2 DEF AskSupport, Taking, OffInv
    <2> QED
        BY <2>3, <2>4 DEF OffInv, OffRunsAtChosen
<1>2. CASE \E kind : Taking(kind) /\ worker'.pc # "asking" /\ OffRunsAtChosen'
               /\ (Requesting' => /\ worker'.wire = WithinHostCap(worker'.kbps)
                                  /\ worker'.job = "step" => adaptive'
                                  /\ worker'.job # "step" => worker'.from = 0
                                  /\ worker'.job \in {"restore", "giveup"}
                                         => WithinHostCap(worker'.kbps) = WithinHostCap(chosenKbps))
    <2>1. \A i \in DOMAIN queue' : queue'[i].task # "start"
        BY <1>2, NoStartBehind
    <2>2. UNCHANGED <<stopped, currentKbps, chosenKbps, hostCapKbps>>
        BY <1>2 DEF Taking
    <2> QED
        BY <1>2, <2>1, <2>2 DEF OffInv, WithinHostCap
<1>3. CASE SwitchOn
    <2>1. worker' = Idle /\ UNCHANGED <<stopped, currentKbps, chosenKbps, hostCapKbps, answered, supported>>
        BY <1>3 DEF SwitchOn, Taking, hostVars
    <2>2. adaptive' \/ adaptive' = adaptive
        BY <1>3, EnableType DEF SwitchOn
    <2>3. OffRunsAtChosen'
        BY <1>3, <2>1, <2>2 DEF OffInv, OffRunsAtChosen, WithinHostCap, SwitchOn, Taking
    <2> QED
        BY <1>2, <1>3, <2>1, <2>3 DEF SwitchOn, Idle, Requesting
<1>4. CASE SwitchOff
    <2>1. UNCHANGED <<stopped, currentKbps, chosenKbps, hostCapKbps, answered, supported>>
        BY <1>4 DEF SwitchOff, Taking, hostVars
    <2>2. CASE supported
        <3>1. RestoreChosen("restore")
            BY <1>4, <2>2 DEF SwitchOff
        <3>2. CASE worker' = Idle /\ currentKbps = WithinHostCap(chosenKbps)
            <4>1. OffRunsAtChosen'
                BY <2>1, <3>2 DEF OffRunsAtChosen, WithinHostCap
            <4> QED
                BY <1>2, <1>4, <3>2, <4>1 DEF SwitchOff, Idle, Requesting
        <3>3. CASE /\ worker' # Idle /\ Requesting' /\ worker'.job = "restore"
                   /\ worker'.wire = WithinHostCap(worker'.kbps) /\ worker'.from = 0
                   /\ WithinHostCap(worker'.kbps) = WithinHostCap(chosenKbps)
            <4>1. OffRunsAtChosen' /\ worker'.pc # "asking"
                BY <3>3 DEF OffRunsAtChosen, Requesting
            <4> QED
                BY <1>2, <1>4, <3>3, <4>1 DEF SwitchOff
        <3> QED
            BY <3>1, <3>2, <3>3, RestoreAsks
    <2>3. CASE ~supported
        <3>1. worker' = Idle /\ OffRunsAtChosen'
            BY <1>4, <2>1, <2>3 DEF SwitchOff, Taking, OffRunsAtChosen
        <3> QED
            BY <1>2, <1>4, <3>1 DEF SwitchOff, Idle, Requesting
    <2> QED
        BY <2>2, <2>3
<1>5. CASE SetManual
    <2>1. CASE supported
        <3>1. Head(queue) \in Tasks /\ Head(queue).task = "manual"
            BY <1>5, TakingType DEF SetManual
        <3>2. Head(queue).kbps \in Nat
            BY <3>1 DEF Tasks, SampleTask
        <3>3. Send("manual", Head(queue).kbps, 0)
            BY <1>5, <2>1 DEF SetManual
        <3>4. /\ worker' # Idle /\ worker'.pc = "first" /\ worker'.job = "manual"
              /\ worker'.from = 0
              /\ worker'.wire = WithinHostCap(worker'.kbps)
            BY <3>2, <3>3, SendAsks
        <3>5. OffRunsAtChosen'
            BY <3>4 DEF OffRunsAtChosen
        <3> QED
            BY <1>2, <1>5, <3>4, <3>5 DEF SetManual
    <2>2. CASE ~supported
        <3>1. worker' = Idle /\ OffRunsAtChosen'
            BY <1>5, <2>2 DEF SetManual, Taking, OffRunsAtChosen
        <3> QED
            BY <1>2, <1>5, <3>1 DEF SetManual, Idle, Requesting
    <2> QED
        BY <2>1, <2>2
<1>6. CASE Adapt
    <2>1. CASE UNCHANGED worker
        <3>1. worker' = Idle
            BY <1>6, <2>1 DEF Adapt, Taking
        <3>2. OffRunsAtChosen'
            BY <1>6, <3>1 DEF OffInv, OffRunsAtChosen, WithinHostCap, Adapt, Taking, hostVars
        <3> QED
            BY <1>2, <1>6, <3>1, <3>2 DEF Adapt, Idle, Requesting
    <2>2. CASE adaptive /\ controller # NoController
               /\ \E kbps \in Decisions(controller) :
                      Send("step", kbps, IF kbps < currentKbps THEN currentKbps ELSE 0)
        <3>1. PICK kbps \in Decisions(controller) :
                      Send("step", kbps, IF kbps < currentKbps THEN currentKbps ELSE 0)
            BY <2>2
        <3>2. controller \in Controllers
            BY <2>2 DEF TypeOK, Controllers
        <3>3. kbps \in Nat
            BY <3>2, DecisionBounds
        <3>4. (IF kbps < currentKbps THEN currentKbps ELSE 0) \in Nat
            BY DEF TypeOK
        <3>5. /\ worker' # Idle /\ worker'.pc = "first" /\ worker'.job = "step"
              /\ worker'.wire = WithinHostCap(worker'.kbps)
            BY <3>1, <3>3, <3>4, SendAsks
        <3>6. OffRunsAtChosen' /\ adaptive'
            BY <1>6, <2>2, <3>5 DEF OffRunsAtChosen, Adapt
        <3> QED
            BY <1>2, <1>6, <3>5, <3>6 DEF Adapt
    <2> QED
        BY <1>6, <2>1, <2>2 DEF Adapt
<1> QED
    BY <1>1, <1>3, <1>4, <1>5, <1>6 DEF Worker

\* Once a request is under way the start is behind.
LEMMA NoStartRequesting ==
    ASSUME TypeOK, StartComesFirst, worker # Idle, queue' = queue
    PROVE  \A i \in DOMAIN queue' : queue'[i].task # "start"
BY DEF StartComesFirst

LEMMA HostKeepsOff == IInv /\ OffInv /\ Host => OffInv'
<1> SUFFICES ASSUME IInv, OffInv, Host PROVE OffInv'
    OBVIOUS
<1> USE DEF IInv
<1>1. CASE worker # Idle /\ queue' = queue /\ worker' = Idle /\ OffRunsAtChosen'
    <2>1. \A i \in DOMAIN queue' : queue'[i].task # "start"
        BY <1>1, NoStartRequesting
    <2> QED
        BY <1>1, <2>1 DEF OffInv, Idle, Requesting
<1>2. CASE SupportAnswered
    <2>1. /\ worker # Idle /\ worker' = Idle /\ queue' = queue
          /\ UNCHANGED <<currentKbps, chosenKbps, hostCapKbps>>
          /\ currentKbps = chosenKbps /\ hostCapKbps = 0
        BY <1>2 DEF SupportAnswered, OffInv, Idle
    <2>2. OffRunsAtChosen'
        BY <2>1 DEF OffRunsAtChosen, WithinHostCap
    <2> QED
        BY <1>1, <2>1, <2>2
<1>3. CASE RequestApplied
    <2>1. worker \in Sends /\ worker # Idle
        BY <1>3, RequestIsSend DEF RequestApplied, Requesting, Idle
    <2>2. /\ worker' = Idle /\ queue' = queue /\ currentKbps' = worker.wire
          /\ chosenKbps' = IF worker.job = "manual" THEN worker.kbps ELSE chosenKbps
          /\ UNCHANGED <<hostCapKbps, stopped, adaptive, supported>>
        BY <1>3 DEF RequestApplied, Succeeded
    <2>3. OffRunsAtChosen'
        <3>1. CASE worker.job = "step"
            BY <1>3, <2>2, <3>1 DEF OffInv, OffRunsAtChosen, RequestApplied
        <3>2. CASE worker.job # "step"
            <4>1. worker.wire = WithinHostCap(worker.kbps)
                BY <1>3, <3>2 DEF OffInv, RequestApplied
            <4>2. worker.job = "manual" \/ worker.job \in {"restore", "giveup"}
                BY <2>1, <3>2 DEF Sends
            <4>3. worker.wire = WithinHostCap(chosenKbps')
                BY <1>3, <2>2, <4>1, <4>2 DEF OffInv, RequestApplied
            <4> QED
                BY <2>2, <4>3 DEF OffRunsAtChosen, WithinHostCap
        <3> QED
            BY <3>1, <3>2
    <2> QED
        BY <1>1, <2>1, <2>2, <2>3
<1>4. CASE RequestClamped
    <2> DEFINE applied == HostApplies(EncoderOf(worker.wire))
               cap == IF hostCapKbps = 0 THEN applied ELSE Smaller(hostCapKbps, applied)
               again == IF worker.from > 0
                            THEN (Smaller(worker.from, cap) * worker.kbps) \div worker.from
                            ELSE worker.kbps
    <2>1. worker \in Sends /\ worker # Idle
        BY <1>4, RequestIsSend DEF RequestClamped, Requesting, Idle
    <2>2. /\ worker.wire \in Nat /\ worker.kbps \in Nat /\ worker.from \in Nat
          /\ hostCapKbps \in Nat /\ chosenKbps \in Nat
        BY <2>1 DEF Sends, TypeOK
    <2>3. applied \in Nat /\ applied > 0
        <3>1. EncoderOf(worker.wire) \in Nat /\ EncoderOf(worker.wire) >= 1
            BY <2>2, EncoderBounds
        <3> QED
            BY <3>1, LiveBitrateAssumption DEF HostApplies, Smaller
    <2> HIDE DEF applied
    <2>4. cap \in Nat /\ cap > 0 /\ (hostCapKbps > 0 => cap <= hostCapKbps)
        BY <2>2, <2>3 DEF Smaller
    <2> HIDE DEF cap
    <2>5. worker.job # "step" => worker.from = 0
        BY <1>4 DEF OffInv, RequestClamped, Requesting
    <2>6. worker' = [worker EXCEPT !.pc = "second", !.wire = Smaller(again, cap)]
              /\ hostCapKbps' = cap /\ queue' = queue
              /\ UNCHANGED <<stopped, adaptive, currentKbps, chosenKbps>>
        BY <1>4 DEF RequestClamped, applied, cap, again
    <2>7. /\ worker'.wire = Smaller(again, cap) /\ worker'.kbps = worker.kbps
          /\ worker'.job = worker.job /\ worker'.pc = "second" /\ worker' # Idle
          /\ worker'.from = worker.from
        BY <2>1, <2>6 DEF Sends, Idle
    <2>8. worker.job # "step" => worker'.wire = Smaller(worker.kbps, cap)
        BY <2>5, <2>7
    <2>9. worker.job \in {"restore", "giveup"}
              => Smaller(worker.kbps, cap) = Smaller(chosenKbps, cap)
        <3>1. worker.job \in {"restore", "giveup"}
                  => WithinHostCap(worker.kbps) = WithinHostCap(chosenKbps)
            BY <1>4 DEF OffInv, RequestClamped, Requesting
        <3> QED
            BY <2>2, <2>4, <3>1 DEF WithinHostCap, Smaller
    <2>10. \A i \in DOMAIN queue' : queue'[i].task # "start"
        BY <2>1, <2>6, NoStartRequesting
    <2>11. worker.job = "step" /\ ~stopped => adaptive
        BY <1>4 DEF OffInv, RequestClamped, Requesting
    <2> QED
        BY <2>4, <2>6, <2>7, <2>5, <2>8, <2>9, <2>10, <2>11 DEF OffInv, OffRunsAtChosen, WithinHostCap
<1>5. CASE Requesting /\ Failed
    <2>1. worker # Idle /\ queue' = queue /\ ~answered'
              /\ UNCHANGED <<chosenKbps, hostCapKbps>>
        BY <1>5 DEF Requesting, Idle, Failed
    <2>2. OffRunsAtChosen'
        BY <2>1 DEF OffRunsAtChosen
    <2>3. CASE worker' = Idle
        BY <1>1, <2>1, <2>2, <2>3
    <2>4. CASE /\ worker' # Idle /\ Requesting' /\ worker'.job = "giveup"
               /\ worker'.from = 0
               /\ worker'.wire = WithinHostCap(worker'.kbps)
               /\ WithinHostCap(worker'.kbps) = WithinHostCap(chosenKbps)
        <3>1. \A i \in DOMAIN queue' : queue'[i].task # "start"
            BY <2>1, NoStartRequesting
        <3> QED
            BY <2>1, <2>2, <2>4, <3>1 DEF OffInv, Requesting, WithinHostCap
    <2> QED
        BY <1>5, <2>3, <2>4, RestoreAsks DEF Failed
<1>6. CASE EndpointMissing
    <2>1. worker # Idle /\ worker' = Idle /\ queue' = queue /\ ~answered'
        BY <1>6 DEF EndpointMissing, Requesting, Idle
    <2> QED
        BY <1>1, <2>1 DEF OffRunsAtChosen
<1>7. RequestRefused \/ ReplyLost => Requesting /\ Failed
    BY DEF RequestRefused, ReplyLost
<1> QED
    BY <1>2, <1>3, <1>4, <1>5, <1>6, <1>7 DEF Host

\* A stream that does not adapt runs at the bitrate chosen, or at the host's
\* limit below it, whatever was asked, clamped, given up or switched in between,
\* as long as the host took the last request (setAdaptive() 199-217, adapt()
\* 298-307).
THEOREM OffRunsAtTheChoice == Spec => []OffRunsAtChosen
<1>1. IInv /\ OffInv /\ [Next]_vars => OffInv'
    <2> SUFFICES ASSUME IInv, OffInv, [Next]_vars PROVE OffInv'
        OBVIOUS
    <2>1. CASE UNCHANGED vars
        BY <2>1, OthersKeepOff DEF vars, clientVars, hostVars
    <2> QED
        BY <2>1, UiDecoderKeepOff, WorkerKeepsOff, HostKeepsOff DEF Next
<1>2. OffInv => OffRunsAtChosen
    BY DEF OffInv
<1> QED
    BY <1>1, <1>2, InitOff, IInvHolds, PTL DEF Spec

\* For every bitrate, mode, deduction and host limit: nothing runs above the
\* choice, and no request above a limit that is known.
THEOREM BoundsHold == Spec => []ChoiceAndLimitHold
<1>1. NeverAboveTheChoice /\ RequestsWithinLimit => ChoiceAndLimitHold
    BY DEF ChoiceAndLimitHold
<1> QED
    BY <1>1, ChoiceIsTheCeiling, LimitIsRespected, PTL
=============================================================================
