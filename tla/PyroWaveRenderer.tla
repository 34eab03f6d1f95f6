-------------------------- MODULE PyroWaveRenderer --------------------------
(***************************************************************************)
(* The native renderer of a PyroWave stream (jni/pyrowave-renderer) and the *)
(* threads around it.  moonlight-common-c's thread starts and stops it, the *)
(* video thread hands it frames through a mailbox of one, the UI thread    *)
(* stops it when the Surface goes, and its own render thread decodes,      *)
(* acquires an image, draws and presents, on the queue of PyroWaveDevice.  *)
(*                                                                         *)
(* The frames' bytes are the matter of PyroWaveFraming: here a frame may be *)
(* refused before it reaches the GPU.                                      *)
(***************************************************************************)
EXTENDS PyroWaveDevice, Sequences

CONSTANTS
    MaxFrames,          \* bound: frames handed to the renderer
    MaxOutOfDate        \* bound: swapchains that go out of date

ASSUME RendererAssumption == MaxFrames \in Nat /\ MaxOutOfDate \in Nat

VARIABLES
    made,               \* what exists and has to be given back
    core,               \* where the connection's thread is
    ui,                 \* where the UI thread is in surfaceDestroyed()
    holder,             \* who holds the Renderer: a thread, g_Renderer or nobody
    down,               \* how far shutdown() and the destructors have come
    stop,               \* m_Stop
    incoming,           \* m_Incoming.valid
    frames,             \* frames handed to submit() so far
    rt,                 \* where the render thread is
    needRecreate, broken,
    renderValue, decodeValue,
    framebuffers,       \* which framebuffers exist, by a number of their own
    fence,              \* m_FrameFence is signalled
    acquired,           \* m_AcquireSemaphore is signalled, or will be
    outOfDate           \* counter of the bound

lifeVars == <<made, core, ui, holder, down>>
mailVars == <<stop, incoming, frames>>
frameVars == <<needRecreate, broken, renderValue, decodeValue, framebuffers, outOfDate>>
syncVars == <<fence, acquired>>
vars == <<deviceVars, lifeVars, mailVars, rt, frameVars, syncVars>>

\* What initialize() makes, in its order.
Stages == <<"instance", "surface", "device", "pyrowave", "decoder", "sync", "planes",
            "pipeline", "swapchain">>
Things == {Stages[i] : i \in 1 .. Len(Stages)} \cup {"window", "thread"}

Init ==
    /\ DeviceInit
    /\ made = {"window"}
    /\ core = "init" /\ ui = "idle"
    /\ holder = "core" /\ down = "no"
    /\ stop = FALSE /\ incoming = FALSE /\ frames = 0
    /\ rt = "none"
    /\ needRecreate = FALSE /\ broken = FALSE
    /\ renderValue = 0 /\ decodeValue = 0
    /\ framebuffers = 0
    /\ fence = TRUE /\ acquired = FALSE
    /\ outOfDate = 0

-----------------------------------------------------------------------------
(* start *)

\* The stage initialize() has come to.
AtStage(s) ==
    /\ core = "init"
    /\ \E i \in 1 .. Len(Stages) :
          /\ Stages[i] = s /\ s \notin made
          /\ \A j \in 1 .. i - 1 : Stages[j] \in made

\* The last stage is followed by the thread.
Make(s) ==
    /\ AtStage(s)
    /\ IF s = "swapchain"
       THEN /\ made' = made \cup {s, "thread"}
            /\ framebuffers' = 1
            /\ rt' = "idle"
            /\ core' = "publish"
       ELSE /\ made' = made \cup {s}
            /\ UNCHANGED <<framebuffers, rt, core>>
    /\ UNCHANGED <<deviceVars, ui, holder, down, mailVars, needRecreate, broken,
                   renderValue, decodeValue, outOfDate, syncVars>>

\* A stage of several objects may fail with the first of them made, or with the
\* object made and its functions not found.  The Renderer is destroyed.
MakeFails(s) ==
    /\ AtStage(s)
    /\ \/ made' = made
       \/ s \notin {"surface", "pyrowave", "decoder"} /\ made' = made \cup {s}
    /\ core' = "failed" /\ down' = "flag"
    /\ UNCHANGED <<deviceVars, ui, holder, mailVars, rt, frameVars, syncVars>>

Publish ==
    /\ core = "publish"
    /\ core' = "up" /\ holder' = "global"
    /\ UNCHANGED <<deviceVars, made, ui, down, mailVars, rt, frameVars, syncVars>>

-----------------------------------------------------------------------------
(* stop *)

\* PyroWaveRendererStop takes the renderer out of g_Renderer, if it is there.
TakenBy(t) ==
    IF holder = "global" THEN holder' = t /\ down' = "flag"
                         ELSE UNCHANGED <<holder, down>>

\* stop() and then cleanup(), each of which stops the renderer.
CoreStops ==
    /\ \/ core = "up" /\ core' = "stop"
       \/ core = "stop" /\ holder # "core" /\ core' = "cleanup"
    /\ TakenBy("core")
    /\ UNCHANGED <<deviceVars, made, ui, mailVars, rt, frameVars, syncVars>>

CoreReturns ==
    /\ core \in {"cleanup", "failed"} /\ holder # "core"
    /\ core' = "gone"
    /\ UNCHANGED <<deviceVars, made, ui, holder, down, mailVars, rt, frameVars, syncVars>>

\* prepareForStop() from surfaceDestroyed(), at any time.
SurfaceGoes ==
    /\ ui = "idle" /\ ui' = "stop"
    /\ TakenBy("ui")
    /\ UNCHANGED <<deviceVars, made, core, mailVars, rt, frameVars, syncVars>>

UiReturns ==
    /\ ui = "stop" /\ holder # "ui" /\ ui' = "back"
    /\ UNCHANGED <<deviceVars, made, core, holder, down, mailVars, rt, frameVars, syncVars>>

\* Mutant: the render thread is not told before it is joined.
FlagNothing ==
    /\ down = "flag"
    /\ down' = "join"
    /\ UNCHANGED <<deviceVars, made, core, ui, holder, mailVars, rt, frameVars, syncVars>>

\* shutdown(), by the thread that holds the Renderer.
Flag ==
    /\ down = "flag"
    /\ stop' = TRUE
    /\ down' = "join"
    /\ UNCHANGED <<deviceVars, made, core, ui, holder, incoming, frames, rt, frameVars, syncVars>>

\* Without a device only the surface and the window remain to be given back.
Join ==
    /\ down = "join"
    /\ "thread" \in made => rt = "exited"
    /\ made' = made \ {"thread"}
    /\ down' = IF "device" \in made THEN "idle" ELSE "free"
    /\ UNCHANGED <<deviceVars, core, ui, holder, mailVars, rt, frameVars, syncVars>>

DeviceIdle ==
    /\ down = "idle"
    /\ WaitIdle
    /\ down' = "decoder"
    /\ UNCHANGED <<deviceVars, made, core, ui, holder, mailVars, rt, frameVars, syncVars>>

\* pyrowave_decoder_destroy moves the device to its next frame context.
DestroyDecoder ==
    /\ down = "decoder"
    /\ IF "decoder" \in made THEN NextContext ELSE UNCHANGED contextVars
    /\ made' = made \ {"decoder"}
    /\ down' = "free"
    /\ UNCHANGED <<batches, submits, gpuVars, swallowed, faults, core, ui, holder, mailVars,
                   rt, frameVars, syncVars>>

\* What shutdown() gives back after the decoder, in its order.
GivenBack == <<"swapchain", "pipeline", "planes", "sync", "surface", "window">>

\* Mutant: the surface is given back before its swapchain.
IsNextButSurface(x) ==
    \E i \in 1 .. Len(GivenBack) :
        GivenBack[i] = x /\ (x = "surface" \/ \A j \in 1 .. i - 1 : GivenBack[j] \notin made)

\* All that comes before the thing x is gone.
IsNext(x) ==
    \E i \in 1 .. Len(GivenBack) :
        GivenBack[i] = x /\ \A j \in 1 .. i - 1 : GivenBack[j] \notin made

\* The window is there in any case and comes last.
FreeObject(x) ==
    /\ down = "free"
    /\ x \in made /\ IsNext(x)
    /\ made' = made \ {x}
    /\ framebuffers' = IF x = "swapchain" THEN 0 ELSE framebuffers
    /\ down' = IF x = "window" THEN "context" ELSE "free"
    /\ UNCHANGED <<deviceVars, core, ui, holder, mailVars, rt, needRecreate, broken,
                   renderValue, decodeValue, outOfDate, syncVars>>

\* ~VulkanContext.  Granite's ~Device waits for all of its frame contexts.
DestroyContext ==
    /\ down = "context"
    /\ IF "pyrowave" \in made
       THEN /\ WaitIdle /\ \A c \in Ring : Passed(c)
            /\ freed' = freed \cup UNION {views[c] : c \in Ring}
            /\ views' = [c \in Ring |-> {}]
       ELSE UNCHANGED <<freed, views>>
    /\ made' = made \ {"pyrowave"}
    /\ down' = "device"
    /\ UNCHANGED <<batches, submits, gpuVars, context, timeline, fences, swallowed, faults,
                   core, ui, holder, mailVars, rt, frameVars, syncVars>>

DestroyDevice ==
    /\ down = "device"
    /\ "device" \in made => WaitIdle
    /\ made' = made \ {"device"}
    /\ down' = "instance"
    /\ UNCHANGED <<deviceVars, core, ui, holder, mailVars, rt, frameVars, syncVars>>

DestroyInstance ==
    /\ down = "instance"
    /\ made' = made \ {"instance"}
    /\ down' = "done" /\ holder' = "nobody"
    /\ UNCHANGED <<deviceVars, core, ui, mailVars, rt, frameVars, syncVars>>

-----------------------------------------------------------------------------
(* the video thread *)

\* A frame replaces one the render thread has not taken.  Without a published
\* renderer it is dropped.
Submit ==
    /\ holder = "global"
    /\ frames < MaxFrames
    /\ frames' = frames + 1
    /\ incoming' = TRUE
    /\ UNCHANGED <<deviceVars, lifeVars, stop, rt, frameVars, syncVars>>

-----------------------------------------------------------------------------
(* the render thread *)

Take ==
    /\ rt = "idle"
    /\ stop \/ incoming
    /\ IF stop THEN rt' = "exited" /\ UNCHANGED incoming
               ELSE rt' = "frame" /\ incoming' = FALSE
    /\ UNCHANGED <<deviceVars, lifeVars, stop, frames, frameVars, syncVars>>

\* A broken renderer refuses every frame; another may refuse one that lost too
\* much of it.
Refuse ==
    /\ rt = "frame"
    /\ rt' = "idle"
    /\ UNCHANGED <<deviceVars, lifeVars, mailVars, frameVars, syncVars>>

Parse ==
    /\ rt = "frame" /\ ~broken
    /\ rt' = "context"
    /\ UNCHANGED <<deviceVars, lifeVars, mailVars, frameVars, syncVars>>

\* pyrowave_decoder_decode_gpu_buffer, first the frame context ...
EnterContext ==
    /\ rt = "context"
    /\ NextContext
    /\ rt' = "decode"
    /\ UNCHANGED <<batches, submits, gpuVars, swallowed, faults, lifeVars, mailVars,
                   frameVars, syncVars>>

\* Mutant: the decode does not wait for the last render.
DecodeAtOnce ==
    /\ rt = "decode"
    /\ SubmitDecode(0, decodeValue + 1)
    /\ decodeValue' = decodeValue + 1
    /\ rt' = IF needRecreate THEN "recreate" ELSE "fence"
    /\ UNCHANGED <<lifeVars, mailVars, needRecreate, broken, renderValue, framebuffers,
                   outOfDate, syncVars>>

\* ... and then the submission, after the last render that samples the planes.
Decode ==
    /\ rt = "decode"
    /\ SubmitDecode(renderValue, decodeValue + 1)
    /\ decodeValue' = decodeValue + 1
    /\ rt' = IF needRecreate THEN "recreate" ELSE "fence"
    /\ UNCHANGED <<lifeVars, mailVars, needRecreate, broken, renderValue, framebuffers,
                   outOfDate, syncVars>>

\* The planes cannot be wrapped or the decoder cannot record its commands.
DecodeFails ==
    /\ rt = "decode"
    /\ rt' = "idle"
    /\ UNCHANGED <<deviceVars, lifeVars, mailVars, frameVars, syncVars>>

\* Mutant: the swapchain is made anew while the GPU draws on the old one.
RecreateAtOnce ==
    /\ rt = "recreate"
    /\ \/ framebuffers' = framebuffers + 1 /\ needRecreate' = FALSE /\ rt' = "fence"
       \/ framebuffers' \in {framebuffers, framebuffers + 1} /\ rt' = "idle" /\ UNCHANGED needRecreate
    /\ UNCHANGED <<deviceVars, lifeVars, mailVars, broken, renderValue, decodeValue,
                   outOfDate, syncVars>>

\* vkDeviceWaitIdle and createSwapchain, which may fail before it destroys the
\* old framebuffers or after.
Recreate ==
    /\ rt = "recreate"
    /\ WaitIdle
    /\ \/ framebuffers' = framebuffers + 1 /\ needRecreate' = FALSE /\ rt' = "fence"
       \/ framebuffers' \in {framebuffers, framebuffers + 1} /\ rt' = "idle" /\ UNCHANGED needRecreate
    /\ UNCHANGED <<deviceVars, lifeVars, mailVars, broken, renderValue, decodeValue,
                   outOfDate, syncVars>>

FenceSignalled ==
    /\ rt = "fence" /\ fence
    /\ rt' = "acquire"
    /\ UNCHANGED <<deviceVars, lifeVars, mailVars, frameVars, syncVars>>

\* Mutant: after a second the frame is drawn all the same.
FenceIgnored ==
    /\ rt = "fence" /\ ~fence /\ gpu # "lost"
    /\ rt' = "acquire"
    /\ UNCHANGED <<deviceVars, lifeVars, mailVars, frameVars, syncVars>>

\* After a second the frame is dropped.
FenceTimeout ==
    /\ rt = "fence" /\ ~fence /\ gpu # "lost"
    /\ rt' = "idle"
    /\ UNCHANGED <<deviceVars, lifeVars, mailVars, frameVars, syncVars>>

FenceLost ==
    /\ rt = "fence" /\ gpu = "lost"
    /\ rt' = "idle" /\ broken' = TRUE
    /\ UNCHANGED <<deviceVars, lifeVars, mailVars, needRecreate, renderValue, decodeValue,
                   framebuffers, outOfDate, syncVars>>

OutOfDate == outOfDate < MaxOutOfDate /\ outOfDate' = outOfDate + 1

\* An image, or none in 100 ms, a lost surface or a lost device.
Acquire ==
    /\ rt = "acquire"
    /\ \/ gpu # "lost" /\ rt' = "submit" /\ acquired' = TRUE
       \/ rt' = "idle" /\ UNCHANGED acquired
    /\ UNCHANGED <<deviceVars, lifeVars, mailVars, frameVars, fence>>

AcquireOutOfDate ==
    /\ rt = "acquire" /\ OutOfDate
    /\ rt' = "idle" /\ needRecreate' = TRUE
    /\ UNCHANGED <<deviceVars, lifeVars, mailVars, broken, renderValue, decodeValue,
                   framebuffers, syncVars>>

\* The render, and the present after it.
Draw ==
    /\ rt = "submit"
    /\ fence' = FALSE
    /\ SubmitRender(decodeValue, renderValue + 1, framebuffers)
    /\ renderValue' = renderValue + 1
    /\ \/ UNCHANGED <<needRecreate, outOfDate>>
       \/ OutOfDate /\ needRecreate' = TRUE
    /\ rt' = "idle"
    /\ UNCHANGED <<lifeVars, mailVars, broken, decodeValue, framebuffers, acquired>>

\* The fence stays reset and the semaphore signalled, so neither is used again.
DrawFails ==
    /\ rt = "submit"
    /\ IF gpu = "lost" THEN UNCHANGED faults ELSE Fault
    /\ fence' = FALSE /\ broken' = TRUE
    /\ rt' = "idle"
    /\ UNCHANGED <<batches, submits, gpuVars, contextVars, swallowed, lifeVars, mailVars,
                   needRecreate, renderValue, decodeValue, framebuffers, outOfDate, acquired>>

-----------------------------------------------------------------------------
(* the GPU, on the renderer's binary semaphore and fence *)

GpuStartsDecode == StartDecode /\ UNCHANGED <<lifeVars, mailVars, rt, frameVars, syncVars>>

\* The render also waits for its image, and unsignals the semaphore.
GpuStartsRender ==
    /\ acquired
    /\ StartRender
    /\ acquired' = FALSE
    /\ UNCHANGED <<lifeVars, mailVars, rt, frameVars, fence>>

GpuEnds == EndBatch /\ UNCHANGED <<lifeVars, mailVars, rt, frameVars, syncVars>>

GpuSignals ==
    /\ \E b \in batches :
          /\ Signal(b)
          /\ fence' = (fence \/ b.job = "render")
    /\ UNCHANGED <<lifeVars, mailVars, rt, frameVars, acquired>>

GpuFails == (GpuHangs \/ GpuLost) /\ UNCHANGED <<lifeVars, mailVars, rt, frameVars, syncVars>>

-----------------------------------------------------------------------------

Starting == Publish \/ \E s \in Things : Make(s) \/ MakeFails(s)
Stopping ==
    \/ Flag \/ Join \/ DeviceIdle \/ DestroyDecoder \/ \E x \in Things : FreeObject(x)
    \/ DestroyContext \/ DestroyDevice \/ DestroyInstance
RenderThread ==
    \/ Take \/ Refuse \/ Parse \/ EnterContext \/ Decode \/ DecodeFails \/ Recreate
    \/ FenceSignalled \/ FenceTimeout \/ FenceLost \/ Acquire \/ AcquireOutOfDate
    \/ Draw \/ DrawFails
Gpu == GpuStartsDecode \/ GpuStartsRender \/ GpuEnds \/ GpuSignals

Next ==
    \/ Starting \/ CoreStops \/ CoreReturns \/ SurfaceGoes \/ UiReturns \/ Stopping
    \/ Submit \/ RenderThread \/ Gpu \/ GpuFails

Spec == Init /\ [][Next]_vars

\* Threads run on, and a GPU that does not hang works on.  Nothing forces a
\* frame, a fault, the end of a stream or of a Surface.
FairSpec ==
    /\ Spec
    /\ WF_vars(Starting)
    /\ WF_vars(Stopping)
    /\ WF_vars(RenderThread)
    /\ WF_vars(Gpu)

-----------------------------------------------------------------------------
(* properties *)

TypeOK ==
    /\ made \subseteq Things
    /\ core \in {"init", "publish", "up", "stop", "cleanup", "failed", "gone"}
    /\ ui \in {"idle", "stop", "back"}
    /\ holder \in {"core", "global", "ui", "nobody"}
    /\ down \in {"no", "flag", "join", "idle", "decoder", "free", "context", "device",
                "instance", "done"}
    /\ rt \in {"none", "idle", "frame", "context", "decode", "recreate", "fence", "acquire",
               "submit", "exited"}
    /\ {stop, incoming, needRecreate, broken, fence, acquired, swallowed} \subseteq BOOLEAN
    /\ {frames, renderValue, decodeValue, framebuffers, outOfDate} \subseteq Nat

\* While the GPU draws a frame, the planes it samples hold the picture of that
\* frame, whole: the decode of a later one has not begun to overwrite them.
PlanesAreStable ==
    \A b \in batches : b.job = "render" /\ b.state = "running" => planes = b.need

\* Nothing the GPU or the render thread may still use has been destroyed: the
\* image views of a decode, the framebuffers, the planes and their device, when
\* a frame context comes round, the swapchain is made anew or the renderer stops.
NothingInUseIsDestroyed ==
    /\ \A b \in batches :
          /\ {"planes", "sync", "device"} \subseteq made
          /\ b.job = "decode" => b.signal \notin freed /\ "pyrowave" \in made
          /\ b.job = "render" => b.framebuffer = framebuffers /\ "pipeline" \in made
    /\ rt \notin {"none", "exited"} => made = Things

\* What the renderer has a single one of (the fence, the semaphore of the image
\* and the command buffer) is free when the render thread uses it again.
ReusedObjectsAreFree ==
    rt \in {"acquire", "submit"} =>
        /\ \A b \in batches : b.job # "render"
        /\ fence
        /\ acquired = (rt = "submit")

\* What each thing is made from.
Parents ==
    [t \in Things |->
        CASE t \in {"window", "instance"} -> {}
          [] t = "surface" -> {"window", "instance"}
          [] t = "device" -> {"instance"}
          [] t \in {"pyrowave", "sync", "planes", "pipeline"} -> {"device"}
          [] t = "decoder" -> {"pyrowave"}
          [] t = "swapchain" -> {"surface", "device"}
          [] OTHER -> {"device", "swapchain"}]

\* Wherever initialize() fails and whoever stops the renderer, everything that
\* was made is given back, nothing before what was made from it.
GivenBackInOrder ==
    /\ \A t \in made : Parents[t] \subseteq made
    /\ holder = "nobody" => made = {} /\ batches = {}

\* A thread that has begun to stop the renderer comes to an end with it, and
\* gives the window back, unless the GPU hangs or Granite has only logged a
\* submission that failed: those two nothing waits for with a bound.
Stuck == gpu = "hung" \/ swallowed
StopEnds == (core \in {"stop", "failed"}) ~> (made = {} \/ Stuck)
=============================================================================
