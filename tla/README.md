# Verification of the Moonlight Android streaming client

TLA+ models of the parts of this Android game-streaming client (Java under
`src/app/src/main/java/com/limelight`, native code under `src/app/src/main/jni`)
whose correctness depends on the order in which threads, callbacks, timers and
network answers happen to interleave.  TLC checks them on small instances; TLAPS
proves their most important invariants for every value of the constants.

Paths of Java files are relative to `src/app/src/main/java/com/limelight/`, those of
C and C++ files to `src/app/src/main/jni/`.

Contents: 1 the system, 2 the modules and the plan, 3 the modules and the code,
4 the runs, 5 the proofs, 6 what the code does not do, 7 what is left out.

## 1. The system

### 1.1 Components

| Component | State it keeps | Operations | What is hard |
|---|---|---|---|
| **Stream session**: `Game`, `nvstream/NvConnection`, `nvstream/jni/MoonBridge` | the static `connectionAllowed` semaphore, the bridge's static callbacks, the native core; per screen `connected`, `reconnecting`, `reconnectAttemptInFlight`, `deadConnectionStopped`, two timers | start (with retries), stop, abortStart, the core's callbacks, surface callbacks, onStop, the reconnect's attempt timer and countdown | three kinds of threads; one core and one permit per process; aborts, failures and terminations that come late; global interruption |
| **Decoder threads and codec recovery**: `binding/video/MediaCodecDecoderRenderer` | the codec, a request (`codecRecoveryType`), the flags of the threads that wait, buffer indices in three hands, the pacing queue | submitDecodeUnit, the render loop, doFrame, handleDecoderException, doCodecRecoveryIfRequired, setHdrMode, prepareForStop, stop, cleanup | the last of three threads to arrive recovers the codec for all; the request is set outside the monitor; stop joins threads that may wait |
| **Decoder kept through a reconnect**: `binding/video/DecoderParking` | one parked codec and its format, open or closed | park, take, close, release | the UI thread closes while the core's threads park and take; renderers that end after the screen |
| **Live bitrate**: `bitrate/LiveBitrate`, `AdaptiveBitrateController`, `BitrateSteps` | believed and chosen bitrate, the host's limit once met, the controller's ceiling, a queue of tasks | start, onSample, setManual, setAdaptive, send, giveUp, stop | picks, switches and steps queue behind a slow request; the host clamps, refuses or loses; arithmetic with floors, ceilings and rounding |
| **Computer polling**: `computers/ComputerManagerService`, `ComputerDatabaseManager`, `PcView`, `AppView` | per PC an entry (details, thread, networkLock) and a database record; a reference count, a listener, `pollingActive` | runPoll in a thread per PC, startPolling, stopPolling, addTuple, removeComputer, doPair, invalidateState, network callbacks, onUnbind, onDestroy | two monitors and an unguarded rest; reads before and writes after requests; screens that start and stop what others started |
| **Root mouse capture**: `evdev_reader/evdev_reader.c` | a process of its own: a list of heap entries with a descriptor each, `grabbing` | main's scan of `/dev/input` and the app's grab requests, a thread per device, open, grab, poll, remove | the threads free entries that main walks; a flag no lock guards; descriptors and names that are handed out again |
| **PyroWave renderer**: `pyrowave-renderer/pyrowave_renderer.cpp` | a mailbox of one frame, two timelines, a fence, an acquire semaphore, the swapchain, what `initialize()` made | start (nine stages), submit, decode, draw and present, recreateSwapchain, stop from two threads | five threads and a GPU; single objects used every frame; a start that fails half way |
| **PyroWave framing**: `pyrowave-renderer/pyrowaveframing.cpp` | the place in a frame, what is left of it | walkRecordFrame, walkPacket, block counts | records found again after lost packets, from the host's flags or without them |
| **Vendored PyroWave and Granite** (`pyrowave/pyrowave`) | a ring of frame contexts, a timeline per queue; the decoder's received blocks | next_frame_context, submit, destroy; push_packet, decode_is_ready | what is destroyed is freed when its context comes round; submissions whose failure is only logged |
| Native bridge: `moonlight-core/callbacks.c`, `simplejni.c` | the attached threads' environments, `g_Renderer` | JNI up and down calls | a PyroWave frame against the stop of its renderer |
| **Upscaled frames**: `binding/video/UpscalingFrameQueue`, `GlesUpscaler`, `UpscalingPolicy` | a ring of 64 released frames, the texture's newest buffer, one fence and its posted poll, a failure reason | release, frame callback, draw, poll, checkHealth, close | the texture coalesces buffers; the ring wraps and overflows; the polls are taken away and put back; a hung GPU blocks the drawing thread |
| Frame pacing: `VsyncTargeter`, `DisplayRefreshMeter`, `QueueDelayTracker` | averages of timestamps | note, estimate | samples attributed to the wrong frame |
| Second screen: `companion/*` | the panel's state, an SSE call, a view | start, stop, register, resolve | stop against a call being opened |
| USB controllers: `binding/input/driver/*` | claimed devices, a thread each | attach, permission, detach | delayed handling after stop |
| Box art cache: `grid/assets/*` | memory and file cache, executors | load, evict, cancel | two loaders of one file |
| Pairing, `NvHTTP`, discovery | a session, requests, mDNS callbacks | pair, query, discover | half-done pairings |
| Input, audio, settings, profiles, statistics, screens | per-screen state on one thread | | little that concurrency can break |

### 1.2 How they interact

`Game` creates an `NvConnection` and a renderer for a first start, and new ones
for every reconnect attempt.  `NvConnection.start()` runs on a thread of its own,
waits for the static semaphore, installs itself in `MoonBridge` and calls the
native core, which calls `Game` (stageFailed, connectionStarted,
connectionTerminated) and the renderer (setup, start, submitDecodeUnit, stop,
cleanup) back on threads of its own.  `Game` posts what it learns to the UI
thread.  Through a reconnect the `DecoderParking` takes the codec from the
renderer that ends to the next one.  The decoder's thread hands a sample a second
to `LiveBitrate`, whose worker asks the host.  Before all this,
`ComputerManagerService` polls the PCs for `PcView` and `AppView`, and a pairing
in `PcView` pins the certificate the polls then use.

With upscaling the decoder releases its frames into a `SurfaceTexture`, after noting
each one's timestamp and due time in `UpscalingFrameQueue`; `GlesUpscaler`'s thread
latches the newest, looks its due time up by its timestamp, draws it and polls a fence
for the end of the draw.  The decoder's render thread asks `checkHealth()` and gives the
upscaler up when it stalls, which `CodecRecovery` models as a request like any other.

A PyroWave stream is not decoded by `MediaCodec`.  The core's thread makes the native
renderer from the Surface and publishes it as `g_Renderer`; the core's video thread
puts each frame into its mailbox; its render thread takes the newest one, walks its
packets (`pyrowaveframing.cpp`), pushes the whole records to PyroWave's decoder, lets
that decide whether they are enough, submits the decode through Granite and the draw
through its own Vulkan calls, both to one queue.  It is stopped by the core's thread
or, when the Surface goes first, by the UI thread.  `evdev_reader` is a helper process
that runs as root: the app sends it grab requests over a socket and it sends back the
events of the mice and keyboards it reads.

### 1.3 What makes each correct

- *Stream session*: the permit and the core always have exactly one owner and are
  given back; a reconnect always has something that drives it and ends; nothing of
  one stream interrupts another.
- *Codec recovery*: nobody touches a codec that is being recovered; no buffer
  survives its codec; every request is served and every waiting thread wakes; stop
  ends.
- *Parking*: a codec has one owner and is released once, after its last use.
- *Live bitrate*: the chosen bitrate is a ceiling and what the stream returns to;
  what is believed is what the encoder does.
- *Polling*: references balance; one thread per PC; a pinned certificate stays and
  is saved; what is shown of a PC follows it.
- *Mouse capture*: the list reaches no freed entry and no closed descriptor; grabs
  follow the last request; a device that is plugged in and stays is read.
- *Upscaling*: every frame released is drawn or counted as dropped, once; a frame is
  shown at its own time, whatever the texture skipped; the newest frame is drawn.
- *PyroWave renderer*: the planes are not overwritten while they are drawn; nothing
  the GPU may use is destroyed; the objects there is one of are free when they are
  used again; all is given back, in order, whatever failed; a stop ends.
- *PyroWave framing*: only whole records reach the decoder; a picture that is shown
  has its coarsest level; a lost packet costs no more than it must; parser and decoder
  count the same blocks.

`PROJECT.json` lists the hazards behind these, each at its line with the
properties that would catch it.  Section 6 has those no property can cover because
the code lets them happen; the two that no property observes have a note there instead.

## 2. The modules and the plan

| Order | Module | Question | State |
|---|---|---|---|
| 1 | `StreamLife` | what a stream promises whoever looks from outside | abstract specification |
| 2 | `StreamSession` (composes Game, NvConnection and MoonBridge) | does it keep that promise with threads, aborts and timers? | checked, seven theorems |
| 3 | `CodecRecovery` | can three threads recover one codec? | checked, three theorems |
| 4 | `DecoderParking` (composes the parking, its renderers and Game's reconnect) | who owns each codec? | checked, three theorems |
| 5 | `LiveBitrate` (composes client, controller and host) | is the bitrate what was chosen? | checked, six theorems |
| 6 | `ComputerPolling` (composes service, database, screens, pairing, network) | who polls, and what is known? | checked, four theorems |
| 7 | `EvdevReader` (composes the helper, the kernel and the app's requests) | does the list outlive its devices? | checked, three theorems |
| 8 | `PyroWaveDevice`, `PyroWaveRenderer` (the second extends the first: queue, GPU and frame contexts, with the threads around them) | what does the GPU still use? | checked, four theorems |
| 9 | `PyroWaveFraming` (composes host, loss, walk and decoder) | what of a damaged frame is shown? | checked, five theorems |
| 10 | `GlesUpscaler` (composes the frame queue, the texture, the drawing thread and the GPU) | is each frame shown when it was due? | checked, four theorems |

Still to come, in this order:

1. `ApplistPoller`, with its lost notification, and `ShortcutTrampoline` in
   `ComputerPolling`;
2. `TelemetryStream`'s stop against a call being opened, and the registration of
   `CompanionState`'s listener across a change of displays;
3. the USB drivers' attach and detach.

## 3. The modules and the code

Every module names a definition after the method it stands for; `PROJECT.json`
maps each to its lines.  Definitions whose comment begins with *Mutant* are not
part of any specification: each is a plausible bug in the definition below it, and
shows that the property it is listed with would notice.

**StreamSession.**  A start thread is `<<s, k>>`: the first start (`k = 0`) or the
k-th reconnect attempt of stream `s`; `startPc` is its place in
`NvConnection.startConnection`/`startApp`, one label per place where another
thread may come between two looks at shared state (`throwIfStartAborted` twice,
the request and its answer, the semaphore, the monitor, `LiStartConnection`).
A stop thread is `<<why, s>>`: of a dead connection (`dead`), of a screen that is
left (`leave`), of a late success (`late`).  The UI thread's runnables are the
set `posted`; each is one action, `OnStarted` to `OnTerminated`.  The native core
is external: `idle`, `starting`, `up`, one interruption flag, and it may end a
connection at any moment (`Terminates`).  `StreamLife` is its abstraction: each
stream starting, live, reconnecting or over, and one slot.  The screen may be left
at any moment; when that is before the first connection is up, the code stops nothing
(section 6) and the start goes on without its screen, in the model as in the program.

**CodecRecovery.**  Threads `input`, `render` and `choreographer` have a `pc`.  A
codec call and its outcome is a step; so are each set of the request
(`WantRecovery`), the entry to the monitor (`EnterToWait`, `EnterToRecover`), the
recovery's parts (restart, reset, re-create, which may each fail) and its end
(`Finish`).  Buffers are `fresh` or `stale` (of the codec before).
A decoder that needs its baseline SPS patched gets the SPS once more before the first
frame after the parameter sets (`replaySps`), with a buffer of its own.  A stop that
finds no buffer after five seconds crashes the program (`DecoderHung`).  `setHdrMode`
is two steps, the metadata and the request.  `prepareForStop` is three, and is
called by the UI thread (surfaceDestroyed) and by the core.  With `FromStart` the
model begins inside `start()`, before the choreographer thread exists.

**DecoderParking.**  Renderers are numbered in the order Game creates them.  A
renderer's life is setup (reads the parking field, takes or creates), playing,
recoveries that re-create the codec, and cleanup (park or release, with the read
of the field a step of its own).  The screen streams, reconnects, is over or
destroyed.  A codec is `unmade`, `live` or `released`.

**LiveBitrate.**  The worker's tasks are a sequence; a request under way is a
record of what was asked, for which job.  The host answers, clamps to a limit it
did not tell, refuses, answers 404, or takes the request and its answer is lost.
All arithmetic (FEC share, audio share, floor, rounding to 100 kbps, the step
after a clamp) is the code's integer arithmetic.  When the controller moves is
free; by how much is its own.

**ComputerPolling.**  One PC.  An entry (`PollingTuple`) is a number; removing the
PC and finding it again makes another.  `pc[p]` is the place of a poller, a
polling thread or an adder (mDNS, AddComputerManually), in `runPoll()`; one label
per place where another thread may come in: networkLock, the test and the
increment of `dbRefCount`, the requests, the read and the write of the record, the
listener.  The up to four parallel requests of a poll are one step.  `startPolling`
and `onUnbind` are two steps each, since they set `pollingActive` before they enter
`pollingTuples`; `uiPc` and `pairPc` are where the UI and the pairing threads are in
them.  The process ends in `crashed` when an exception nobody catches is thrown.

**EvdevReader.**  An entry is an address `malloc()` may return again; `pc[e]` is where
its thread is, from its creation to `free()`.  `mainPc` is where `main()` is: the scan
of the directory (one name of `todo` after another, in any order), `startPollForDevice`
with each of its early returns, `select` with its timeout of a second, the request that
is carried out on the entries one by one (`walk`) with `DeviceListLock` held.  The
kernel's part is small but matters: `file[f]` is what a descriptor is open on, a
descriptor is the lowest that is free, a plugged-in device has a number of its own
under its name, and `EVIOCGRAB` fails when another descriptor holds the device.

**PyroWaveDevice and PyroWaveRenderer.**  A submission is a record in `batches` with
the value its timeline waits for and the one it signals; the GPU starts any whose wait
is over, and signals in the order of submission (`StartDecode`, `StartRender`,
`EndBatch`, `Signal`).  `context`, `fences` and `views` are Granite's ring of frame
contexts.  `made` is what `initialize()` has made; `Make` and `MakeFails` are its nine
stages, in their order.  `rt` is where the render thread is in `decodeAndPresent()`,
`down` how far `shutdown()` and the destructors have come (`Join`, `DeviceIdle`,
`DestroyDecoder`, `FreeObject` for each object in turn, `DestroyContext`,
`DestroyDevice`, `DestroyInstance`), `holder` which thread has
taken the renderer from `g_Renderer`.  A failure of each stage, of a submission, a GPU
that hangs and one that is lost share the budget `MaxFaults`.

**PyroWaveFraming.**  The host lays a frame out in one of three ways: `flagged` (the
records follow each other wherever packets end, and each packet says whether it starts
with one), `packed` (ordinary records of the finer levels stay inside a packet, with
padding before them; its first packet, which starts with one anyway, is not flagged
either: `pyrowaveframing.cpp:78`), `prefixed` (the older layout, a length before what each
packet begins with).  A `flagged` host may pad too, as `pyrowaveframing_test.cpp:64` has it.  `Put` appends a record, `Send` fixes which packets are lost.  The walk is
one record per step: `SkipLostHeader`, `SkipPadding`, `WalkSequenceHeader`,
`SkipLostPayload` and `WalkBlock` are the branches of `walkRecordFrame`, `WalkPackets`
is `walkPacket` for all of them.  `IsReady` is the decoder's `decode_is_ready`, `DecodeFrame`
what the renderer makes of it.  A word is four bytes, and a record's content is its kind.
The module assumes that a packet has room for three headers, so that the first one holds
all a frame begins with; a real one has hundreds of words.  The block counts are the two
programs' own arithmetic: the parser's sum over the levels, and what the decoder counts
per band in blocks of 8 and then of 32.

**GlesUpscaler.**  `Release` is the noting of a frame in the queue and `ReleaseBuffer` the
call to the codec, which may throw; `Arrive` replaces the texture's buffer, with a
callback of its own or, over one that is not latched, without.  The drawing thread takes
callbacks and posted polls one at a time (`OnFrameAvailable`, `Poll`); a draw is
`Latch`, `Consume`, `Draw` and `PollDrawn`, between which buffers may come and the render
thread may give up.  A callback polls the fence in place of the posted poll, so
`PollFence` is one operator with three callers; a wait that fails
(`GL_WAIT_FAILED`) keeps the fence, as one that times out does.  Timestamps are the code's (the clock, or
the last one plus one), a target is the number of its frame.  Whether a draw counts as a
stall is free; what follows from it is not.

## 4. The runs

No run checks for deadlock: streams end, decoders stop, screens are destroyed and
processes end, after which nothing happens, as in the program.

| Run | Instance | Properties | Distinct states |
|---|---|---|---|
| `stream_shared` | two streams, one reconnect attempt each, fair | `SemaphoreAccounted`, `CoreServesHolder`; `OnlyOwnStartInterrupted`, `LivesAsPromised` (the refinement of `StreamLife`), `WaitingStartIsServed` | 284,773 |
| `stream_reconnect` | one stream, three attempts, two more tries of the first start, fair | `ReconnectIsDriven`; `ReconnectEnds`, `LeftStreamLetsGo` | 58,953 |
| `codec_shared` | two threads, two exceptions, one HDR change, two stoppers, a decoder that wants its SPS replayed, from `start()` on | `RecoveryIsExclusive`, `ParameterSetsComeFirst` | 2,421,924 |
| `codec_serves` | three threads, one exception, a stop, fair | `NoStaleBuffer`; `RecoveryCompletes`, `VideoResumes`, `StopCompletes` | 218,236 |
| `codec_missed` | two HDR changes, fair | `RecoveryCompletes`: refuted | |
| `parking` | four codecs, two formats, three attempts | `OneOwner`, `CodecFits`, `NoCodecLeft` | 590,040 |
| `bitrate` | 10 Mbps on a host limited to 6, two choices in the menu | `ChoiceAndLimitHold`, `BelievedBitrateIsReal`, `OffRunsAtChosen` | 655,157 |
| `computers` | two entries, two threads, two events, fair | `ReferencesBalance`, `OneThreadGoesOn`; `PinIsKept`, `StateFollowsHost`, `CertIsSaved` | 893,894 |
| `evdev` | two devices, two entries, two descriptors, one replug, two requests, one fault, fair | `ListIsAlive`, `GrabFollowsRequest`; `PluggedDeviceIsRead` | 701,814 |
| `renderer` | four frames, two contexts, one fault, fair | `PlanesAreStable`, `NothingInUseIsDestroyed`, `ReusedObjectsAreFree`, `GivenBackInOrder`; `StopEnds` | 1,117,746 |
| `framing` | frames of up to five blocks, three kinds of host, any packets lost | `OnlyWholeRecordsArePushed`, `CoarseLevelIsWhole`, `LossIsContained`, `CountsAgree` | 7,030,703 |
| `upscaler` | five frames, a ring of two, two ticks, fair | `FramesAreAccounted`, `DeadlineIsOwn`; `NewestIsDrawn` | 282,782 |

**Why the bounds are enough.**  Two streams are what it takes for one to hold, wait
for or interrupt what the other has; a third could only wait in the same line.  One
attempt per stream lets an abandoned attempt outlive its stream and meet the next;
three in a row exercise the retry timer, the countdown and late successes.  With two
streams the permit is contended for: a second stream's first start waits for it beside
an abandoned attempt of the first stream and the stop of that stream's connection.
`MaxRetries` is how often a first start is tried again: 2 in `stream_reconnect`, as in
the code, and 0 in `stream_shared`, where each further try is only one more of the
failures explored before it.  Two
exceptions let one strike while another is being recovered; with `CR_MAX_TRIES` at
1 (10 in the code) the limit and what follows it are reached.  A pacing queue of 1
or 2 is full at once.  Four codecs are the first stream's, one parked beside it (an
upscaling attempt passes it over) and one for each of two more attempts.  The
bitrates are chosen so that the host's limit lies between two rungs, the floor is
above half, and a step down runs into the limit.  For the polling, a stop, a
removal or a pairing and a new thread meet with two threads; the tries before
OFFLINE are 2 and 1 (3 and 2 in the code), which keeps their order; `MaxEvents`
(discovery, pairing, removal, change of network or of reach, lost poll, unbind) is
a budget shared by all kinds, so that each pair of events is explored, next to any
number of starts and stops of the updates within the threads there are.  The mouse
capture needs a device that is read and one that is not, two entries so that an old
one's thread is not yet gone when its device is back, and two descriptors, so that one
is handed out again.  The renderer's device has two frame contexts, as in the code; four frames
let each context come round twice; one fault is enough, since every one of them ends
the drawing.  A frame of five blocks over packets of six words has coarse and fine
levels in packets of their own, records that straddle packets (sizes 2 and 3) and one
that never fits (7); `ReadyPercent` is 50 instead of the code's 90, for with five
blocks 90 would ask for all of them.  Five frames overflow and wrap a ring of two; a
clock that may stand still gives timestamps that only the last one tells apart.  All this is
argument for the instances only: section 5 removes the bounds for what is proved.

**Fairness.**  *Streams*: threads run, requests and `LiStartConnection` end one way
or another (they have timeouts), the countdown fires, a finishing screen gets its
`onStop`; nothing is assumed of the user, the surface or the network, nor that an
attempt succeeds.  *Codec*: threads run, the display goes on giving vertical
syncs, the host goes on sending frames, the codec answers calls; nobody has to stop
it.  The liveness properties of the codec exempt a decoder that stops, that
crashed by design (tries used up), or whose render thread waits in `take()` for a
frame that only it could queue (section 6).  *Polling*: polling threads, the
pairing's thread and the network callback run, their requests and sleeps end;
nothing of the user, the network or the PC, and no fairness of locks is needed,
only that a step that stays possible is taken.  *Mouse capture*: main and the device
threads run, and a thread that has to take an entry off the list gets the lock in the
end (strong fairness: main leaves it for a second at a time).  *Renderer*: its threads
run and a GPU that neither hangs nor is lost works on; nothing is assumed of frames,
Surface or stream.  *Upscaling*: its thread runs unless a hung GPU holds it, a GPU that does not hang draws,
and what was released comes to the texture; nobody has to release, to look after the
health or to close.  *Framing* states no liveness: a walk ends because its place grows.
`StateFollowsHost` and
`CertIsSaved` are about a PC that stays watched: their hypotheses are reached in the
run (a thread in its loop for ever with the PC in or out of reach), and the mutants
break both.

**Finding.**  `codec_missed` is a run that TLC refutes: a thread that waits for a
recovery only leaves when it finds the request gone.  A new request between the end of a
recovery and that look leaves it waiting without its flag, and the next recovery never
starts, where the comment at `MediaCodecDecoderRenderer.java:1198` says that all threads
wake and work again.  Because of it `codec_serves` is bounded to one exception: within
this bound the recovery is live, beyond it it is not.  Its `StopCompletes` excepts a late
request, `LeftStreamLetsGo` a stream that is left during its first start and connects all
the same, `WaitingStartIsServed` a start that waits while there is such a stream, and the
renderer's `StopEnds` a hung GPU and a submission whose failure Granite only logs; these
are in section 6.

## 5. The proofs

`*_proofs` hold the theorems (`PyroWave_proofs` those of the renderer and of the
framing); each is a safety property of the specification, without fairness, for all
values of the constants that the module's assumption allows.

- **StreamSession** (`TypeCorrect`, `SemaphoreSafe`, `OneStreamHasTheConnection`,
  `CoreServes`, `StartsStayTheirOwn`, `ReconnectsAreDriven`, `LifeAsPromised`).  Each
  section of the module adds an invariant to those before it.
  - "The permit is free and nobody owes it, or exactly one does" is inductive once it
    is known that a thread that is not created yet holds nothing (`StartsAreFresh`:
    attempts above `attempts[s]` have not begun).  Each step either moves the debt
    from one holder to another or changes no holder.
  - Whoever owes the permit of a connection that was made has the core with its own
    callbacks, and the monitor agrees with the program counters (`CoreInv`); since the
    debtor is alone, a core that is up can only be his.
  - One screen is on at a time and only it reconnects (`ScreenInv`), so the stream that
    calls `abortStart()` is the one whose attempt is in the core, or that one was left.
  - A start reports once: the first one before any reconnect, an attempt as the stream's
    latest (`FlightInv`).  This is what makes `reconnectAttemptInFlight` exact, and with
    it each step leaves a reconnect something that carries it on (`DriveInv`).
  - The refinement: a step of a stream is local to it (`Local`), and changes its life or
    who has the slot as one action of `StreamLife` does (`LifeStep`).  Besides all of the
    above it needs that only a stream that made an attempt was told to give up
    (`AbortsAreOfAttempts`): a first start that gave its permit back and ended in the
    same step would be two steps of `StreamLife`.
- **CodecRecovery** (`RecoveryExclusive`, `BuffersBelongToCodec`, `ParameterSetsFirst`).  The invariant is
  that the flags are honest: a thread's flag is up exactly while it waits or
  recovers (`FlagsAreHonest`), that `stopping` comes before anything that breaks it
  (`StoppingComesFirst`), and the control state (`ControlOK`).  For buffers it adds
  that the recovering thread found all of them empty, and that the render thread drops
  its buffer without the codec only while the decoder stops.  For the parameter sets
  (`CsdInv`) it relates the input thread's place to what is left of its frame
  (`InputOK`) and says that, unless that thread waits or recovers and so is about to
  drop its frame, either the codec has the sets, or an IDR frame is awaited, or the
  sets are what is queued next (`ParameterSetsKnown`); only a recovery makes the codec
  forget them, and `RecoveryIsExclusive` puts the input thread away then.  All three assume
  `ChoreographerIsThere == ~FromStart \/ ~Balanced`: a recovery wanted inside
  `start()`, before the thread exists, is counted for a thread that is not there
  (section 6).
- **DecoderParking** (`CodecsHaveOneOwner`, `TakenCodecsFit`,
  `ParkingLeavesNothing`).  `IInv` adds where a codec can be in each state of a
  renderer (`HeldInPlace`); transfers of ownership (take, park, discard, release)
  are lemmas of their own.  `KInv` adds that the parking is open in a reconnect
  alone and that what is parked keeps its format.
- **LiveBitrate** (`BoundsHold`, from `ChoiceIsTheCeiling` and `LimitIsRespected`;
  `HostIsAskedFirst`, `BeliefIsReal`, `OffRunsAtTheChoice`).  `IInv` bounds the
  request under way (`SendWithinBounds`) and orders the start before all else
  (`StartComesFirst`); the operators on bitrates are bounded by lemmas.  `OffInv`
  says in addition what each queued task and request will restore.
- **ComputerPolling** (`TypeCorrect`, `ReferencesAreBalanced`, `OneThreadPolls`,
  `PinStays`).  The count is the cardinality of the pollers that hold a reference
  plus the removal's and the service's own; this is also why it is never negative, so
  types and balance are one induction.  `EntriesAreFresh`, that entries not made yet
  have no certificate, is what lets a new entry be one.  `PinStays` is proved of
  every step beside the invariant.

- **EvdevReader** (`ReaderIsTyped`, `ListedEntriesAreAlive`, `GrabsFollowRequests`).  An entry's thread
  frees it only after it has taken it off the list.  `OwnFiles` gives every allocated entry
  a descriptor of its own that is open on its device, `EntriesArePlaced` says which entries
  are on the list for each place of their thread and of `main()`, `KernelAgrees` that a
  grab belongs to an open descriptor of the device that is plugged in, and `GrabAgrees`
  how far the last request has been carried out on each entry.
- **PyroWaveRenderer** (in `PyroWave_proofs`: `PlanesStay`, `NothingInUseGoes`, `ReusedObjectsStayFree`,
  `AllIsGivenBack`).  The first rests on the order of the two timelines: values are
  signalled in the order of submission (`SignalsFollowOrder`), work is started in turn
  (`StartedInTurn`), each submission waits for the other kind's last (`PlanesFollow`),
  hence no decode runs beside a render of another frame (`NoRenderBeside`).  For what is
  destroyed or used again: the fence covers the last draw (`FenceGuards`), a frame
  context's fences cover the views it holds (`ContextsCover`), and the start and the stop
  make and give back in step with `core` and `down` (`LifeInStep`, `OrderKept`).
- **PyroWaveFraming** (in `PyroWave_proofs`: `FramingTypes`, `WholeRecordsOnly`,
  `ShownWithCoarseLevel`, `LossStaysContained`, `CountsAlwaysAgree`), for packets and
  records of any size, any number of records and any set of lost packets.
  - The host's part of the invariant is `Layout`: records lie end to end (`Tiled`), the
    coarsest level before the finer ones (`Ranked`), there is room in the last packet
    (`StartsFit`), and for each kind of host what it keeps to: packets start on records
    from the first ordinary record of a finer level on (`Packed`), never within padding
    (`Plain`), or anywhere, with a length before each group of records (`Prefixed`).  Each
    way to append a record keeps it (`AfterKeeps`, `NewPacketKeeps`, `PaddedKeeps`,
    `LengthKeeps`); where the next packet starts is a matter of remainders, with a
    divisor that is not a number, hence the lemmas about those.  `Sent` says what the
    packets are of these records.
  - The walk's part is `Walked`.  It is on a record, with everything since the last skip
    whole (`OnRecords`); what it has learnt of the host is true, for a `packed` host that
    an ordinary record of a finer level lies behind it (`AlignedRight`, which with
    `Packed` makes every later packet a safe place to go on); what it notes of the
    coarsest level is not too good (`CoarseNoted`); every block behind it is kept, or its
    loss is noted (`Accounted`), and costs no more than it must (`Contained`); without a
    loss all blocks are counted (`Counted`).  `Ended` is what is left of this afterwards.
    None of it follows from the properties alone, which say nothing of a walk half way.
  - `CountsAlwaysAgree` is arithmetic: both sides align to the same multiple of 32 with
    the same least size (`SameExtent`), a halved side is the mip level (`SameSide`), and
    the bands of a level are a product of intervals (`BandsOfLevel`).  The sum over the
    five levels is written out (`OverLevels`), for a fold takes an operator, about which
    the library's facts cannot be instantiated here.
- **GlesUpscaler** (`TypeCorrect`, `FramesStayAccounted`, `DeadlinesStayOwn`, `PollsFollowFence`).  The
  invariant is about every slot of the ring (`RingAgrees`): a slot holds a pair of
  timestamp and target that was asked for, and timestamps are not reused, so what is found under a
  timestamp is its own.  `PollFollowsFence` speaks of the thread between two messages and
  needs `FenceAgrees` within one.

**Only model-checked**: everything temporal under fairness (`ReconnectEnds`,
`LeftStreamLetsGo`, `WaitingStartIsServed`, `RecoveryCompletes`, `VideoResumes`,
`StopCompletes`, `StateFollowsHost`, `CertIsSaved`, `PluggedDeviceIsRead`, `StopEnds`,
`NewestIsDrawn`), which is out of the prover's reach.  Every safety invariant and every
action property that a run checks is stated by a theorem.  Not yet proved: the type
invariants of `CodecRecovery` and `PyroWaveRenderer`.  No recursive definition is used
in any module.

## 6. What the code does not do

Besides the finding, modelling met these; the models take the same steps, and no
property states the contrary.

- Stream: an abort between the last look and the request lets the request go out
  and the game start on the host (`NvConnection.java:377`).  `Game.stopConnection` tests
  `connecting`, which nothing ever sets (`Game.java:4235`), so leaving during the first
  start stops nothing: the start goes on, connects and keeps the static semaphore,
  although `NvConnection.java:126` says that a pending connection is interrupted and
  `Game.java:4229` that leaving ends a reconnect too.  The abort of another stream may
  interrupt such a start, and a start that waits for its semaphore waits as long as the
  host keeps the connection.  A first start that fails in the core with error 0, after a
  port test that was inconclusive or found nothing blocked, ends without a dialog: `stageFailed` returns before
  it and asks the core for another try (`Game.java:4287`), which nothing acts on.
- Codec (`MediaCodecDecoderRenderer.java`): HDR metadata that changes after the
  restarting codec was configured is lost with its request (1838); a re-creation
  that is refused leaves a null codec that `cleanup()` uses (1805);
  `handleDecoderException` throws "unexpected" when `prepareForStop` takes the
  request back in the middle (1257); the render thread blocks in `take()` on a queue
  the choreographer emptied after its `size()` (1553); the choreographer's thread is
  counted before it exists (1086); `fetchNextInputBuffer` polls without looking
  for a recovery (1630), and the five seconds after which it calls the decoder hung are
  only looked at when a stop has ended its loop, so that a hung decoder crashes the
  program then and not before (1676); a handler that read `stopping` before it was set asks for a
  recovery after `prepareForStop` took the requests back, and `stop()` then joins a thread
  that waits for ever (1249); the
  watchdog after the render loop (1595) runs only at the thread's end, though its log says
  that it flushes the codec to recover.
- Bitrate: after a lost reply `restoreChosen` may find nothing to ask for and report
  the chosen bitrate restored (`LiveBitrate.java:226`); a first step down of a
  stream that was started above the host's limit may raise the encoder, which a unit
  test acknowledges.
- Polling (`ComputerManagerService.java`): a PC removed between a poll's look at the
  record and its write is inserted again (124, whose comment says it is checked); the
  listener is tested and called in two steps (156, 763); the reference is tested
  and counted in two (530); a pairing's late `runningPolling = false` can leave the
  polling on with nobody who believes so (`PcView.java:446`); a PC removed while its
  PIN is entered is a null pointer (`PcView.java:645`); `ShortcutTrampoline.java:118`
  takes the two monitors in the opposite order; `pollNow()` is lost on a poller that
  does not wait (811), and the poller tests and uses its thread field in two steps
  (832); a certificate is only in memory until the next successful poll (645).
- Mouse capture (`evdev_reader.c`): a device that is opened while a request to release is
  being carried out may read `grabbing` without the lock and be grabbed late
  (`GrabFollowsRequest` excepts it as `crossed`); a device that another process holds at a
  second grab is dropped until the next scan; `recv()`'s -1 is compared as a `size_t`; the
  results of the first ioctls are not looked at.
- PyroWave renderer: the comment at `pyrowave_renderer.cpp:1458` says that the wait for
  the fence is bounded "so that a hung GPU cannot keep shutdown from joining", but before
  it every frame enters Granite's next frame context (`pyrowave_c.cpp:1605`), which waits
  without a bound: the join waits with it, and so does what `markBroken`'s comment promises
  (1428).  The UI thread's `prepareForStop()` returns before the renderer stops presenting,
  against its comment (`MediaCodecDecoderRenderer.java:1707`), while the core is still in
  `initialize()` or its own stop is joining.  A `vkQueueSubmit2` that fails inside Granite is
  only logged, and the render that waits for its timeline waits for ever; `shutdown()`'s
  `vkDeviceWaitIdle` has no bound either.  No property observes that wait being bounded,
  for it is not: `StopEnds` excepts it.  `framesPartial` counts a frame before the GPU's
  decode may fail, frames that are skipped are counted nowhere; after a failed
  `vkCreateSwapchainKHR` the retired swapchain is offered as the old one again; a
  failed `loadDevice` leaves a device some of whose functions may be missing.
- PyroWave framing: hosts that let ordinary records of the finer levels straddle packets
  without saying so (`pyrowaveframing.cpp:167`) are not modelled.
- Upscaling: the drops each frame comes with are counted and handed on, but
  `UpscalingPolicy` never acts on them (nothing gives its `DROPPED` reason); `close()` joins
  a thread that a hung GPU may hold in `eglSwapBuffers`, whose stall only the render
  thread's next look at its health can see (`MediaCodecDecoderRenderer.java:511`): it may
  always come, and no property says that it does.
- Elsewhere, read but not modelled: `VsyncTargeter.java:105` reads a slot that may
  have a new owner; `CachedAppAssetLoader.java:106` has two loaders of one file, one
  of which deletes what the other wrote, and drops its oldest load silently (38);
  `UsbDriverService.java:97` looks at a device a second after it came, and walks a
  list its drivers change (65); `AbstractXboxController.java:149` can be torn down
  twice; `ProfilesManager.java:113` truncates the file it rewrites;
  `PairingManager.java:253` leaves the host half paired on an exception;
  `ControllerHandler.java:3422` can have two battery chains;
  `CompanionState.java:98` and `TelemetryController.java:108` may act on a panel or
  contract that is gone; `AchievementWatcher.java:104` meets the library's check.

## 7. What is left out

*Of the modelled components*: input forwarding, overlays, picture-in-picture and
the menu of `Game`; decoder selection, SPS patching, presentation times and
statistics of the renderer; when the bitrate controller moves; which of a PC's
addresses answers, STUN, the pair state, `ApplistPoller` and a third screen in the
polling.  Time is abstract everywhere: a delay may be over at any moment, so no
property depends on how long anything takes.

The PyroWave modules leave out the statistics, the probe of a device, the present
semaphores and `queueLock` (every use of the queue is one step), and of Granite
everything but submissions and frame contexts; the upscaler's leaves out
`initialize()`, the shaders, the viewport, and the thresholds and hysteresis of
`UpscalingPolicy`, which are a choice.

*Whole components*: decoder selection (tables), pacing estimators (averages over
timestamps), audio (one thread, one comparison), the pairing's cryptography, the
host protocol's XML, discovery (an environment of the polling), input translation,
settings, statistics and screens (one thread, presentation), vendored code: most of the
C and C++ lines of the repository are openssl's and opus's headers, PyroWave's compiled
shaders and Granite's Vulkan backend, which this program only calls.
moonlight-common-c is a git submodule whose source is not in the repository: it is
modelled as external, from how the Java and JNI code uses it.  The remaining
candidates are in the plan of section 2.
