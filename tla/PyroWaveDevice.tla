--------------------------- MODULE PyroWaveDevice ---------------------------
(***************************************************************************)
(* The Vulkan queue that the PyroWave renderer and PyroWave's own device    *)
(* (vendored Granite) share, and the frame contexts of that device.        *)
(*                                                                         *)
(* A decode and a render are one submission each.  The GPU may start a     *)
(* submission as soon as the timelines it waits for have the values it     *)
(* asks for, whatever was submitted before it, and signals in the order of *)
(* submission.  Granite destroys nothing a submission may use: what is     *)
(* destroyed goes to the current frame context, and is freed when that     *)
(* context comes round again and the device's own timeline has the value   *)
(* of its last submission.                                                 *)
(***************************************************************************)
EXTENDS Naturals, FiniteSets

CONSTANTS
    Contexts,           \* frame contexts of the device (init_frame_contexts)
    MaxFaults           \* bound: submissions that fail, GPUs that hang or are lost

ASSUME DeviceAssumption ==
    /\ Contexts \in Nat \ {0}
    /\ MaxFaults \in Nat

VARIABLES
    batches,            \* submissions that have not signalled
    submits,            \* submissions so far, which number them
    done,               \* the value each timeline has reached
    planes,             \* the decode whose picture the planes hold, 0 while one is written
    gpu,                \* "ok", "hung" or "lost"
    context,            \* the current frame context
    timeline,           \* queue_data.current_timeline: the last value asked for
    fences,             \* per context, the value of its last submission
    views,              \* per context, the decodes whose image views it will free
    freed,              \* history: the decodes whose image views are freed
    swallowed,          \* history: Granite only logged a failed submission
    faults

contextVars == <<context, timeline, fences, views, freed>>
gpuVars == <<done, planes, gpu>>
deviceVars == <<batches, submits, gpuVars, contextVars, swallowed, faults>>

Ring == 0 .. Contexts - 1
Jobs == {"decode", "render"}
Idle == batches = {}

DeviceInit ==
    /\ batches = {} /\ submits = 0
    /\ done = [t \in {"decode", "render", "context"} |-> 0]
    /\ planes = 0
    /\ gpu = "ok"
    /\ context = 0 /\ timeline = 0
    /\ fences = [c \in Ring |-> 0]
    /\ views = [c \in Ring |-> {}]
    /\ freed = {}
    /\ swallowed = FALSE
    /\ faults = 0

Fault == faults < MaxFaults /\ faults' = faults + 1

-----------------------------------------------------------------------------
(* the queue and the GPU *)

\* A decode waits for the render that sampled the planes, a render for its decode.
Awaited(b) == IF b.job = "decode" THEN "render" ELSE "decode"

\* The barriers of a decode also order it after the decodes before it.
Ready(b) ==
    /\ b.state = "queued"
    /\ done[Awaited(b)] >= b.need
    /\ b.job = "decode" =>
          \A e \in batches : e.job = "decode" /\ e.n < b.n => e.state = "ran"

Become(b, state) == batches' = (batches \ {b}) \cup {[b EXCEPT !.state = state]}

StartDecode ==
    /\ gpu = "ok"
    /\ \E b \in batches :
          /\ b.job = "decode" /\ Ready(b)
          /\ Become(b, "running")
    /\ planes' = 0
    /\ UNCHANGED <<submits, done, gpu, contextVars, swallowed, faults>>

StartRender ==
    /\ gpu = "ok"
    /\ \E b \in batches :
          /\ b.job = "render" /\ Ready(b)
          /\ Become(b, "running")
    /\ UNCHANGED <<submits, gpuVars, contextVars, swallowed, faults>>

EndBatch ==
    /\ gpu = "ok"
    /\ \E b \in batches :
          /\ b.state = "running"
          /\ Become(b, "ran")
          /\ planes' = IF b.job = "decode" THEN b.signal ELSE planes
    /\ UNCHANGED <<submits, done, gpu, contextVars, swallowed, faults>>

\* Signals follow the order of submission.  A decode signals the renderer's
\* timeline and then the one of Granite's device.
First(b) == \A e \in batches : b.n <= e.n

Signal(b) ==
    /\ gpu = "ok"
    /\ b.state = "ran" /\ First(b)
    /\ batches' = batches \ {b}
    /\ done' = [done EXCEPT ![b.job] = b.signal,
                            !["context"] = IF b.mark = 0 THEN @ ELSE b.mark]
    /\ UNCHANGED <<submits, planes, gpu, contextVars, swallowed, faults>>

GpuHangs ==
    /\ gpu = "ok" /\ ~Idle /\ Fault
    /\ gpu' = "hung"
    /\ UNCHANGED <<batches, submits, done, planes, contextVars, swallowed>>

\* Everything a lost device waits for returns at once.
GpuLost ==
    /\ gpu # "lost" /\ Fault
    /\ gpu' = "lost"
    /\ batches' = {}
    /\ UNCHANGED <<submits, done, planes, contextVars, swallowed>>

\* vkDeviceWaitIdle returns.
WaitIdle == Idle \/ gpu = "lost"

-----------------------------------------------------------------------------
(* the frame contexts *)

Following(c) == (c + 1) % Contexts

\* PerFrame::wait(UINT64_MAX): no bound on Android, where the device has no
\* support for a post mortem.
Passed(c) == done["context"] >= fences[c] \/ gpu = "lost"

\* Device::next_frame_context
NextContext ==
    LET c == Following(context) IN
    /\ Passed(c)
    /\ context' = c
    /\ freed' = freed \cup views[c]
    /\ views' = [views EXCEPT ![c] = {}]
    /\ UNCHANGED <<timeline, fences>>

\* A submission of Granite's: the context's fence asks for its value whether or
\* not vkQueueSubmit2 succeeds, whose failure is only logged.
SubmitDecode(need, signal) ==
    LET b == [n |-> submits + 1, job |-> "decode", need |-> need, signal |-> signal,
              mark |-> timeline + 1, framebuffer |-> 0, state |-> "queued"]
    IN
    /\ timeline' = timeline + 1
    /\ fences' = [fences EXCEPT ![context] = timeline + 1]
    /\ views' = [views EXCEPT ![context] = @ \cup {signal}]
    /\ submits' = submits + 1
    /\ \/ /\ gpu # "lost"
          /\ batches' = batches \cup {b}
          /\ UNCHANGED <<swallowed, faults>>
       \/ /\ gpu # "lost" /\ Fault
          /\ swallowed' = TRUE
          /\ UNCHANGED batches
       \/ /\ gpu = "lost"
          /\ UNCHANGED <<batches, swallowed, faults>>
    /\ UNCHANGED <<gpuVars, context, freed>>

SubmitRender(need, signal, framebuffer) ==
    LET b == [n |-> submits + 1, job |-> "render", need |-> need, signal |-> signal,
              mark |-> 0, framebuffer |-> framebuffer, state |-> "queued"]
    IN
    /\ gpu # "lost"
    /\ submits' = submits + 1
    /\ batches' = batches \cup {b}
    /\ UNCHANGED <<gpuVars, contextVars, swallowed, faults>>
=============================================================================
