--------------------------- MODULE PyroWave_proofs -----------------------
(***************************************************************************)
(* Proofs about PyroWaveRenderer, for any number of frame contexts, frames, *)
(* faults and swapchains: PlanesAreStable, NothingInUseIsDestroyed,        *)
(* ReusedObjectsAreFree and GivenBackInOrder.                              *)
(*                                                                         *)
(* What makes the planes stable is a chain of two timelines over the       *)
(* submissions that are out (SignalsFollowOrder): there is one render at    *)
(* most, a decode before it signals what it waits for at the latest, and a *)
(* decode after it waits for its signal.                                   *)
(*                                                                         *)
(* Then proofs about PyroWaveFraming, for packets and records of any size, *)
(* any number of records and any loss: OnlyWholeRecordsArePushed,          *)
(* CoarseLevelIsWhole and LossIsContained.  What makes the walk resume on  *)
(* a record is how the host packs (Layout): once it has put an ordinary    *)
(* record of the finer levels into one packet, all that follow start where *)
(* a packet does.                                                          *)
(***************************************************************************)
EXTENDS PyroWaveRenderer, PyroWaveFraming, WellFoundedInduction, FiniteSetTheorems, TLAPS

Batch == [n : Nat, job : Jobs, need : Nat, signal : Nat, mark : Nat, framebuffer : Nat,
          state : {"queued", "running", "ran"}]

Types ==
    /\ batches \subseteq Batch
    /\ submits \in Nat /\ planes \in Nat /\ timeline \in Nat
    /\ done \in [{"decode", "render", "context"} -> Nat]
    /\ context \in Ring
    /\ fences \in [Ring -> Nat]
    /\ views \in [Ring -> SUBSET Nat]
    /\ renderValue \in Nat /\ decodeValue \in Nat /\ framebuffers \in Nat

IsDecode(b) == b.job = "decode"
IsRender(b) == b.job = "render"

\* A timeline has not reached what is still to be signalled, nor is it asked
\* for more than what was submitted.
ValuesAreAhead ==
    /\ done["decode"] <= decodeValue /\ done["render"] <= renderValue
    /\ \A b \in batches :
          /\ b.n <= submits
          /\ IsDecode(b) => /\ done["decode"] < b.signal /\ b.signal <= decodeValue
                            /\ b.need <= renderValue
          /\ IsRender(b) => /\ done["render"] < b.signal /\ b.signal = renderValue
                            /\ b.need <= decodeValue

SignalsFollowOrder ==
    \A b, c \in batches :
        /\ b.n = c.n => b = c
        /\ IsRender(b) /\ IsRender(c) => b = c
        /\ b.n < c.n =>
              /\ IsDecode(b) /\ IsDecode(c) => b.signal < c.signal
              /\ IsDecode(b) /\ IsRender(c) => b.signal <= c.need
              /\ IsRender(b) /\ IsDecode(c) => b.signal <= c.need

Started(b) == b.state # "queued"

\* What the GPU works on has got what it waits for.
StartedInTurn ==
    \A b \in batches : Started(b) =>
        /\ done[Awaited(b)] >= b.need
        /\ IsDecode(b) => \A e \in batches : IsDecode(e) /\ e.n < b.n => e.state = "ran"

\* The planes hold the last decode that ran, unless one has started since.
PlanesFollow ==
    /\ \A d \in batches : IsDecode(d) /\ d.state = "ran" =>
          \/ planes = d.signal
          \/ \E e \in batches : IsDecode(e) /\ d.n < e.n /\ Started(e)
    /\ \A r \in batches : IsRender(r) /\ done["decode"] >= r.need => planes = r.need
    /\ done["decode"] >= decodeValue => planes = decodeValue

\* The fence and the acquire semaphore tell whether a render is out.
FenceGuards ==
    /\ rt \in {"acquire", "submit"} => fence
    /\ rt = "submit" => acquired
    /\ acquired => rt = "submit" \/ ~fence
    /\ \A b \in batches : IsRender(b) => ~fence /\ (Started(b) => ~acquired)

\* The fence of a frame context covers the decodes whose views it holds.
ContextsCover ==
    /\ done["context"] <= timeline
    /\ freed \subseteq 0 .. decodeValue
    /\ \A c \in Ring : views[c] \subseteq 0 .. decodeValue
    /\ \A b \in batches :
          /\ IsRender(b) => b.mark = 0
          /\ IsDecode(b) =>
                /\ done["context"] < b.mark /\ b.mark <= timeline
                /\ b.signal \notin freed
                /\ \A c \in Ring : b.signal \in views[c] => b.mark <= fences[c]
                /\ \A e \in batches : IsDecode(e) /\ b.n < e.n => b.mark < e.mark

Before == {"no", "flag", "join"}
After == {"decoder", "free", "context", "device", "instance", "done"}

\* Who holds the Renderer, how far it is torn down, and what there is.
LifeInStep ==
    /\ holder = "nobody" <=> down = "done"
    /\ holder = "global" => down = "no" /\ core \notin {"init", "publish"}
    /\ core \in {"init", "publish"} => holder = "core" /\ down = "no"
    /\ core = "init" => "window" \in made /\ rt = "none" /\ {"swapchain", "thread"} \cap made = {}
    /\ rt = "none" => batches = {} /\ "thread" \notin made
    /\ rt # "none" /\ down \in Before => made = Things
    /\ rt # "none" /\ down = "idle" => made = Things \ {"thread"}
    /\ down \notin Before => rt \in {"none", "exited"} /\ "thread" \notin made
    /\ down \in After => batches = {}
    /\ down \in {"no"} \cup Before \cup After \cup {"idle"}
    /\ gpu = "lost" => batches = {}

OrderKept ==
    /\ made \subseteq Things
    /\ \A t \in made : Parents[t] \subseteq made
    /\ down = "free" => "decoder" \notin made
    /\ down = "context" => made \subseteq {"pyrowave", "device", "instance"}
    /\ down = "device" => made \subseteq {"device", "instance"}
    /\ down = "instance" => made \subseteq {"instance"}
    /\ down = "done" => made = {}

AcquiredIsBoolean == acquired \in BOOLEAN

Drawn == \A b \in batches : IsRender(b) => b.framebuffer = framebuffers

IInv ==
    /\ Types /\ ValuesAreAhead /\ SignalsFollowOrder /\ StartedInTurn /\ PlanesFollow
    /\ FenceGuards /\ ContextsCover /\ LifeInStep /\ OrderKept /\ Drawn /\ AcquiredIsBoolean

-----------------------------------------------------------------------------
(* the initial states *)

\* The set of the stages, spelled out.
LEMMA ThingsAre ==
    Things = {"instance", "surface", "device", "pyrowave", "decoder", "sync", "planes",
              "pipeline", "swapchain", "window", "thread"}
<1>1. Len(Stages) = 9
  BY DEF Stages
<1>2. \A x : x \in {Stages[i] : i \in 1 .. 9} <=>
             x \in {"instance", "surface", "device", "pyrowave", "decoder", "sync", "planes",
                    "pipeline", "swapchain"}
  <2>1. 1 .. 9 = {1, 2, 3, 4, 5, 6, 7, 8, 9}
    OBVIOUS
  <2>2. /\ Stages[1] = "instance" /\ Stages[2] = "surface" /\ Stages[3] = "device"
        /\ Stages[4] = "pyrowave" /\ Stages[5] = "decoder" /\ Stages[6] = "sync"
        /\ Stages[7] = "planes" /\ Stages[8] = "pipeline" /\ Stages[9] = "swapchain"
    BY DEF Stages
  <2>3. QED
    BY <2>1, <2>2
<1>3. QED
  BY <1>1, <1>2 DEF Things

LEMMA ParentsAre ==
    /\ Parents["window"] = {} /\ Parents["instance"] = {}
    /\ Parents["surface"] = {"window", "instance"}
    /\ Parents["device"] = {"instance"}
    /\ Parents["pyrowave"] = {"device"} /\ Parents["sync"] = {"device"}
    /\ Parents["planes"] = {"device"} /\ Parents["pipeline"] = {"device"}
    /\ Parents["decoder"] = {"pyrowave"}
    /\ Parents["swapchain"] = {"surface", "device"}
    /\ Parents["thread"] = {"device", "swapchain"}
  BY ThingsAre DEF Parents

LEMMA InitHolds == Init => IInv
<1> SUFFICES ASSUME Init PROVE IInv
  OBVIOUS
<1> USE DEF Init, DeviceInit
<1>1. Types
  BY DeviceAssumption DEF Types, Ring
<1>2. ValuesAreAhead /\ SignalsFollowOrder /\ StartedInTurn /\ PlanesFollow /\ FenceGuards /\ Drawn
  BY DEF ValuesAreAhead, SignalsFollowOrder, StartedInTurn, PlanesFollow, FenceGuards, Drawn
<1>3. ContextsCover
  BY DEF ContextsCover
<1>4. LifeInStep
  BY ThingsAre DEF LifeInStep, Before, After
<1>5. OrderKept
  BY ThingsAre, ParentsAre DEF OrderKept
<1>6. AcquiredIsBoolean
  BY Zenon DEF AcquiredIsBoolean
<1>7. QED
  BY <1>1, <1>2, <1>3, <1>4, <1>5, <1>6 DEF IInv

-----------------------------------------------------------------------------
(* the parts about the queue: what leaves it alone leaves them alone *)

QueueInv ==
    /\ Types /\ ValuesAreAhead /\ SignalsFollowOrder /\ StartedInTurn /\ PlanesFollow
    /\ ContextsCover

queueVars == <<batches, submits, done, planes, contextVars, renderValue, decodeValue>>

LEMMA QueueStays ==
    QueueInv /\ UNCHANGED queueVars /\ framebuffers' \in Nat => QueueInv'
  BY DEF QueueInv, queueVars, contextVars, Types, ValuesAreAhead, SignalsFollowOrder,
         StartedInTurn, PlanesFollow, ContextsCover, Batch, IsDecode, IsRender, Started,
         Awaited, Ring

\* A lost device leaves nothing in the queue.
LEMMA QueueEmpties ==
    /\ QueueInv /\ batches' = {} /\ framebuffers' \in Nat
    /\ UNCHANGED <<submits, done, planes, contextVars, renderValue, decodeValue>>
    => QueueInv'
  BY DEF QueueInv, contextVars, Types, ValuesAreAhead, SignalsFollowOrder,
         StartedInTurn, PlanesFollow, ContextsCover, Batch, IsDecode, IsRender, Started,
         Awaited, Ring

\* A submission that changes its state keeps all the rest.
LEMMA BecomeKeeps ==
    ASSUME NEW b \in Batch, NEW s \in {"queued", "running", "ran"}
    PROVE  LET N == [b EXCEPT !.state = s] IN
           /\ N \in Batch /\ N.n = b.n /\ N.job = b.job /\ N.need = b.need
           /\ N.signal = b.signal /\ N.mark = b.mark /\ N.framebuffer = b.framebuffer
           /\ N.state = s
  BY DEF Batch

\* Two submissions are the same or one is before the other.
LEMMA Ordered ==
    ASSUME Types, SignalsFollowOrder, NEW b \in batches, NEW c \in batches
    PROVE  /\ b.n \in Nat /\ b.signal \in Nat /\ b.need \in Nat /\ b.mark \in Nat
           /\ IsDecode(b) \/ IsRender(b)
           /\ ~(IsDecode(b) /\ IsRender(b))
           /\ b = c \/ b.n < c.n \/ c.n < b.n
<1>1. /\ b.n \in Nat /\ b.signal \in Nat /\ b.need \in Nat /\ b.mark \in Nat
      /\ c.n \in Nat /\ b.job \in Jobs
  BY DEF Types, Batch
<1>2. b.n = c.n => b = c
  BY DEF SignalsFollowOrder
<1>3. QED
  BY <1>1, <1>2 DEF Jobs, IsDecode, IsRender

\* A render whose decode has signalled and a decode the GPU works on, or may
\* begin with, exclude each other.
LEMMA NoRenderBeside ==
    ASSUME Types, ValuesAreAhead, SignalsFollowOrder,
           NEW d \in batches, IsDecode(d), done["render"] >= d.need,
           NEW r \in batches, IsRender(r), done["decode"] >= r.need
    PROVE  FALSE
<1>1. done["render"] \in Nat /\ done["decode"] \in Nat
  BY DEF Types
<1>2. d.signal \in Nat /\ d.need \in Nat /\ r.signal \in Nat /\ r.need \in Nat
  BY Ordered
<1>3. CASE d.n < r.n
  <2>1. d.signal <= r.need
    BY <1>3 DEF SignalsFollowOrder
  <2>2. done["decode"] < d.signal
    BY DEF ValuesAreAhead
  <2>3. QED
    BY <2>1, <2>2, <1>1, <1>2
<1>4. CASE r.n < d.n
  <2>1. r.signal <= d.need
    BY <1>4 DEF SignalsFollowOrder
  <2>2. done["render"] < r.signal
    BY DEF ValuesAreAhead
  <2>3. QED
    BY <2>1, <2>2, <1>1, <1>2
<1>5. QED
  BY <1>3, <1>4, Ordered

-----------------------------------------------------------------------------
(* submissions *)

LEMMA SubmitDecodeKeeps ==
    ASSUME QueueInv, SubmitDecode(renderValue, decodeValue + 1),
           decodeValue' = decodeValue + 1, UNCHANGED <<renderValue, framebuffers>>
    PROVE  QueueInv'
<1> DEFINE N == [n |-> submits + 1, job |-> "decode", need |-> renderValue,
                 signal |-> decodeValue + 1, mark |-> timeline + 1, framebuffer |-> 0,
                 state |-> "queued"]
<1>1. Types
  BY DEF QueueInv
<1>2. /\ submits \in Nat /\ timeline \in Nat /\ planes \in Nat /\ renderValue \in Nat
      /\ decodeValue \in Nat /\ framebuffers \in Nat /\ context \in Ring
      /\ done["decode"] \in Nat /\ done["render"] \in Nat /\ done["context"] \in Nat
  BY <1>1 DEF Types
<1>3. /\ batches' \subseteq batches \cup {N} /\ batches \subseteq batches'
      /\ submits' = submits + 1 /\ timeline' = timeline + 1
      /\ fences' = [fences EXCEPT ![context] = timeline + 1]
      /\ views' = [views EXCEPT ![context] = @ \cup {decodeValue + 1}]
      /\ done' = done /\ planes' = planes /\ context' = context /\ freed' = freed
  BY DEF SubmitDecode, gpuVars
<1>4. /\ N \in Batch /\ N.n = submits + 1 /\ N.need = renderValue
      /\ N.signal = decodeValue + 1 /\ N.mark = timeline + 1
      /\ IsDecode(N) /\ ~IsRender(N) /\ ~Started(N) /\ N.state = "queued"
  BY <1>2 DEF Batch, Jobs, IsDecode, IsRender, Started
<1> HIDE DEF N
<1>5. \A e \in batches' : e = N \/ e \in batches
  BY <1>3
<1>6. \A e \in batches :
         /\ e.n <= submits /\ e.n \in Nat /\ e.need \in Nat /\ e.signal \in Nat /\ e.mark \in Nat
         /\ IsDecode(e) => e.signal <= decodeValue /\ e.mark <= timeline
         /\ IsRender(e) => e.signal = renderValue /\ e.need <= decodeValue
  BY <1>1 DEF QueueInv, ValuesAreAhead, ContextsCover, Types, Batch
<1>7. Types'
  BY <1>1, <1>2, <1>3, <1>4 DEF Types, Ring
<1>8. ValuesAreAhead'
  <2>1. done["decode"] <= decodeValue /\ done["render"] <= renderValue
    BY DEF QueueInv, ValuesAreAhead
  <2>2. \A e \in batches : IsDecode(e) => done["decode"] < e.signal /\ e.need <= renderValue
    BY DEF QueueInv, ValuesAreAhead
  <2>3. \A e \in batches : IsRender(e) => done["render"] < e.signal
    BY DEF QueueInv, ValuesAreAhead
  <2>4. QED
    BY <2>1, <2>2, <2>3, <1>2, <1>3, <1>4, <1>5, <1>6 DEF ValuesAreAhead, IsDecode, IsRender
<1>9. SignalsFollowOrder'
  <2>1. SignalsFollowOrder
    BY DEF QueueInv
  <2>2. \A e \in batches : e.n < N.n /\ ~(N.n < e.n) /\ N.n # e.n
    BY <1>2, <1>4, <1>6
  <2>3. \A e \in batches : IsDecode(e) => e.signal < N.signal
    BY <1>2, <1>4, <1>6
  <2>4. \A e \in batches : IsRender(e) => e.signal <= N.need
    BY <1>2, <1>4, <1>6
  <2>5. ~(N.n < N.n)
    BY <1>2, <1>4
  <2>6. SUFFICES ASSUME NEW e \in batches', NEW f \in batches'
                 PROVE  /\ e.n = f.n => e = f
                        /\ IsRender(e) /\ IsRender(f) => e = f
                        /\ e.n < f.n =>
                              /\ IsDecode(e) /\ IsDecode(f) => e.signal < f.signal
                              /\ IsDecode(e) /\ IsRender(f) => e.signal <= f.need
                              /\ IsRender(e) /\ IsDecode(f) => e.signal <= f.need
    BY DEF SignalsFollowOrder, IsDecode, IsRender
  <2>7. CASE e = N /\ f = N
    BY <2>7, <2>5
  <2>8. CASE e = N /\ f \in batches
    BY <2>8, <2>2, <1>4
  <2>9. CASE e \in batches /\ f = N
    BY <2>9, <2>2, <2>3, <2>4, <1>4
  <2>10. CASE e \in batches /\ f \in batches
    BY <2>10, <2>1 DEF SignalsFollowOrder
  <2>11. QED
    BY <2>7, <2>8, <2>9, <2>10, <1>5
<1>10. StartedInTurn'
  <2>1. StartedInTurn
    BY DEF QueueInv
  <2>2. SUFFICES ASSUME NEW b \in batches', Started(b)
                 PROVE  /\ done[Awaited(b)] >= b.need
                        /\ IsDecode(b) => \A e \in batches' : IsDecode(e) /\ e.n < b.n => e.state = "ran"
    BY <1>3 DEF StartedInTurn, Started, Awaited, IsDecode
  <2>3. b \in batches
    BY <2>2, <1>4, <1>5
  <2>4. ~(N.n < b.n)
    BY <2>3, <1>2, <1>4, <1>6
  <2>5. QED
    BY <2>1, <2>2, <2>3, <2>4, <1>5 DEF StartedInTurn, Started
<1>11. PlanesFollow'
  <2>1. PlanesFollow
    BY DEF QueueInv
  <2>2. done["decode"] <= decodeValue
    BY DEF QueueInv, ValuesAreAhead
  <2>3. ~(done'["decode"] >= decodeValue')
    BY <2>2, <1>2, <1>3
  <2>4. \A r \in batches' : IsRender(r) /\ done'["decode"] >= r.need => planes' = r.need
    BY <2>1, <1>3, <1>4, <1>5 DEF PlanesFollow
  <2>5. ASSUME NEW d \in batches', IsDecode(d), d.state = "ran"
        PROVE  \/ planes' = d.signal
               \/ \E e \in batches' : IsDecode(e) /\ d.n < e.n /\ Started(e)
    <3>1. d \in batches
      BY <2>5, <1>4, <1>5
    <3>2. CASE planes = d.signal
      BY <3>2, <1>3
    <3>3. ASSUME NEW e \in batches, IsDecode(e), d.n < e.n, Started(e)
          PROVE  e \in batches'
      BY <3>1, <2>5, <1>3 DEF SubmitDecode, QueueInv
    <3>4. QED
      BY <2>1, <2>5, <3>1, <3>2, <3>3 DEF PlanesFollow
  <2>6. QED
    BY <2>3, <2>4, <2>5 DEF PlanesFollow, IsDecode, IsRender, Started
<1>12. ContextsCover'
  <2>1. /\ done["context"] <= timeline
        /\ freed \subseteq 0 .. decodeValue
        /\ \A c \in Ring : views[c] \subseteq 0 .. decodeValue
    BY DEF QueueInv, ContextsCover
  <2>2. done'["context"] <= timeline' /\ freed' \subseteq 0 .. decodeValue'
    BY <2>1, <1>2, <1>3
  <2>3. \A c \in Ring : views'[c] = IF c = context THEN views[c] \cup {decodeValue + 1} ELSE views[c]
    BY <1>1, <1>3 DEF Types
  <2>4. \A c \in Ring : fences'[c] = IF c = context THEN timeline + 1 ELSE fences[c]
    BY <1>1, <1>3 DEF Types
  <2>5. ASSUME NEW c \in Ring PROVE views'[c] \subseteq 0 .. decodeValue'
    <3>1. 0 .. decodeValue' = (0 .. decodeValue) \cup {decodeValue + 1}
      BY <1>2
    <3>2. views[c] \subseteq 0 .. decodeValue
      BY <2>1
    <3>3. views'[c] \subseteq views[c] \cup {decodeValue + 1}
      BY <2>3
    <3>4. QED
      BY <3>1, <3>2, <3>3
  <2>6. SUFFICES ASSUME NEW b \in batches'
                 PROVE  /\ IsRender(b) => b.mark = 0
                        /\ IsDecode(b) =>
                              /\ done'["context"] < b.mark /\ b.mark <= timeline'
                              /\ b.signal \notin freed'
                              /\ \A c \in Ring : b.signal \in views'[c] => b.mark <= fences'[c]
                              /\ \A e \in batches' : IsDecode(e) /\ b.n < e.n => b.mark < e.mark
    BY <2>2, <2>5 DEF ContextsCover, IsDecode, IsRender
  <2>7. CASE b = N
    <3>1. b.signal \notin freed' /\ done'["context"] < b.mark /\ b.mark <= timeline'
      BY <2>1, <2>7, <1>2, <1>3, <1>4
    <3>2. ASSUME NEW c \in Ring, b.signal \in views'[c]
          PROVE  b.mark <= fences'[c]
      <4>1. c = context
        <5>1. SUFFICES ASSUME c # context PROVE FALSE
          OBVIOUS
        <5>2. decodeValue + 1 \in views[c]
          BY <5>1, <3>2, <2>3, <2>7, <1>4
        <5>3. decodeValue + 1 \in 0 .. decodeValue
          BY <5>2, <2>1
        <5>4. QED
          BY <5>3, <1>2
      <4>2. QED
        BY <4>1, <2>4, <2>7, <1>2, <1>4
    <3>3. \A e \in batches' : ~(b.n < e.n)
      BY <2>7, <1>2, <1>4, <1>5, <1>6
    <3>4. QED
      BY <3>1, <3>2, <3>3, <2>7, <1>4
  <2>8. CASE b \in batches
    <3>1. CASE IsRender(b)
      BY <3>1, <2>8 DEF QueueInv, ContextsCover, IsDecode, IsRender
    <3>2. CASE IsDecode(b)
      <4>1. /\ done["context"] < b.mark /\ b.mark <= timeline /\ b.signal \notin freed
            /\ \A c \in Ring : b.signal \in views[c] => b.mark <= fences[c]
            /\ \A e \in batches : IsDecode(e) /\ b.n < e.n => b.mark < e.mark
        BY <2>8, <3>2 DEF QueueInv, ContextsCover
      <4>2. b.mark <= timeline + 1 /\ b.mark < timeline + 1 /\ b.signal # decodeValue + 1
        BY <2>8, <3>2, <1>2, <1>6
      <4>3. \A c \in Ring : b.signal \in views'[c] => b.mark <= fences'[c]
        BY <4>1, <4>2, <2>3, <2>4
      <4>4. \A e \in batches' : IsDecode(e) /\ b.n < e.n => b.mark < e.mark
        BY <4>1, <4>2, <1>4, <1>5
      <4>5. QED
        BY <3>2, <4>1, <4>2, <4>3, <4>4, <1>3 DEF IsRender, IsDecode
    <3>3. b.job \in Jobs
      BY <2>8, <1>1 DEF Types, Batch
    <3>4. QED
      BY <3>1, <3>2, <3>3 DEF Jobs, IsRender, IsDecode
  <2>9. QED
    BY <2>7, <2>8, <1>5
<1>13. QED
  BY <1>7, <1>8, <1>9, <1>10, <1>11, <1>12 DEF QueueInv

LEMMA SubmitRenderKeeps ==
    ASSUME QueueInv, SubmitRender(decodeValue, renderValue + 1, framebuffers),
           \A e \in batches : ~IsRender(e),
           renderValue' = renderValue + 1, UNCHANGED <<decodeValue, framebuffers>>
    PROVE  QueueInv'
<1> DEFINE N == [n |-> submits + 1, job |-> "render", need |-> decodeValue,
                 signal |-> renderValue + 1, mark |-> 0, framebuffer |-> framebuffers,
                 state |-> "queued"]
<1>1. Types
  BY DEF QueueInv
<1>2. /\ submits \in Nat /\ timeline \in Nat /\ planes \in Nat /\ renderValue \in Nat
      /\ decodeValue \in Nat /\ framebuffers \in Nat /\ context \in Ring
      /\ done["decode"] \in Nat /\ done["render"] \in Nat /\ done["context"] \in Nat
  BY <1>1 DEF Types
<1>3. /\ batches' = batches \cup {N}
      /\ submits' = submits + 1
      /\ UNCHANGED <<timeline, fences, views, done, planes, context, freed>>
  BY DEF SubmitRender, gpuVars, contextVars
<1>4. /\ N \in Batch /\ N.n = submits + 1 /\ N.need = decodeValue
      /\ N.signal = renderValue + 1 /\ N.mark = 0
      /\ IsRender(N) /\ ~IsDecode(N) /\ ~Started(N) /\ N.state = "queued"
  BY <1>2 DEF Batch, Jobs, IsDecode, IsRender, Started
<1> HIDE DEF N
<1>5. \A e \in batches' : e = N \/ e \in batches
  BY <1>3
<1>6. \A e \in batches :
         /\ e.n <= submits /\ e.n \in Nat /\ e.need \in Nat /\ e.signal \in Nat /\ e.mark \in Nat
         /\ ~IsRender(e)
         /\ IsDecode(e) => e.signal <= decodeValue /\ e.need <= renderValue
                           /\ done["decode"] < e.signal
  BY <1>1 DEF QueueInv, ValuesAreAhead, Types, Batch
<1>7. Types'
  BY <1>1, <1>2, <1>3, <1>4 DEF Types, Ring
<1>8. ValuesAreAhead'
  <2>1. done["decode"] <= decodeValue /\ done["render"] <= renderValue
    BY DEF QueueInv, ValuesAreAhead
  <2>2. QED
    BY <2>1, <1>2, <1>3, <1>4, <1>5, <1>6 DEF ValuesAreAhead, IsDecode, IsRender
<1>9. SignalsFollowOrder'
  <2>1. \A e \in batches : e.n < N.n /\ ~(N.n < e.n) /\ N.n # e.n
    BY <1>2, <1>4, <1>6
  <2>2. ~(N.n < N.n)
    BY <1>2, <1>4
  <2>3. SUFFICES ASSUME NEW e \in batches', NEW f \in batches'
                 PROVE  /\ e.n = f.n => e = f
                        /\ IsRender(e) /\ IsRender(f) => e = f
                        /\ e.n < f.n =>
                              /\ IsDecode(e) /\ IsDecode(f) => e.signal < f.signal
                              /\ IsDecode(e) /\ IsRender(f) => e.signal <= f.need
                              /\ IsRender(e) /\ IsDecode(f) => e.signal <= f.need
    BY DEF SignalsFollowOrder, IsDecode, IsRender
  <2>4. CASE e = N /\ f = N
    BY <2>4, <2>2
  <2>5. CASE e = N /\ f \in batches
    BY <2>5, <2>1, <1>6
  <2>6. CASE e \in batches /\ f = N
    BY <2>6, <2>1, <1>4, <1>6
  <2>7. CASE e \in batches /\ f \in batches
    BY <2>7 DEF QueueInv, SignalsFollowOrder
  <2>8. QED
    BY <2>4, <2>5, <2>6, <2>7, <1>5
<1>10. StartedInTurn'
  <2>1. SUFFICES ASSUME NEW b \in batches', Started(b)
                 PROVE  /\ done[Awaited(b)] >= b.need
                        /\ IsDecode(b) => \A e \in batches' : IsDecode(e) /\ e.n < b.n => e.state = "ran"
    BY <1>3 DEF StartedInTurn, Started, Awaited, IsDecode
  <2>2. b \in batches
    BY <2>1, <1>4, <1>5
  <2>3. QED
    BY <2>1, <2>2, <1>4, <1>5 DEF QueueInv, StartedInTurn
<1>11. PlanesFollow'
  <2>1. PlanesFollow
    BY DEF QueueInv
  <2>2. \A r \in batches' : IsRender(r) => r = N
    BY <1>5, <1>6
  <2>3. \A r \in batches' : IsRender(r) /\ done'["decode"] >= r.need => planes' = r.need
    BY <2>1, <2>2, <1>3, <1>4 DEF PlanesFollow
  <2>4. done'["decode"] >= decodeValue' => planes' = decodeValue'
    BY <2>1, <1>3 DEF PlanesFollow
  <2>5. \A d \in batches' : IsDecode(d) => d \in batches
    BY <1>4, <1>5
  <2>6. \A d \in batches' : IsDecode(d) /\ d.state = "ran" =>
          \/ planes' = d.signal
          \/ \E e \in batches' : IsDecode(e) /\ d.n < e.n /\ Started(e)
    BY <2>1, <2>5, <1>3 DEF PlanesFollow
  <2>7. QED
    BY <2>3, <2>4, <2>6 DEF PlanesFollow, IsDecode, IsRender, Started
<1>12. ContextsCover'
  <2>1. ContextsCover
    BY DEF QueueInv
  <2>2. SUFFICES ASSUME NEW b \in batches'
                 PROVE  /\ IsRender(b) => b.mark = 0
                        /\ IsDecode(b) =>
                              /\ done["context"] < b.mark /\ b.mark <= timeline
                              /\ b.signal \notin freed
                              /\ \A c \in Ring : b.signal \in views[c] => b.mark <= fences[c]
                              /\ \A e \in batches' : IsDecode(e) /\ b.n < e.n => b.mark < e.mark
    BY <2>1, <1>3 DEF ContextsCover, IsDecode, IsRender
  <2>3. \A e \in batches' : IsDecode(e) => e \in batches
    BY <1>4, <1>5
  <2>4. CASE b = N
    BY <2>4, <1>4
  <2>5. CASE b \in batches
    BY <2>1, <2>3, <2>5 DEF ContextsCover
  <2>6. QED
    BY <2>4, <2>5, <1>5
<1>13. QED
  BY <1>7, <1>8, <1>9, <1>10, <1>11, <1>12 DEF QueueInv

-----------------------------------------------------------------------------
(* the frame contexts *)

LEMMA FollowingInRing == ASSUME NEW c \in Ring PROVE Following(c) \in Ring
<1>1. c \in Nat /\ Contexts \in Nat /\ Contexts > 0
  BY DeviceAssumption DEF Ring
<1>2. (c + 1) % Contexts \in 0 .. Contexts - 1
  BY <1>1
<1>3. QED
  BY <1>2 DEF Following, Ring

\* A context that comes round frees nothing of what is still in the queue.
LEMMA NextContextKeeps ==
    ASSUME QueueInv, NextContext, gpu = "lost" => batches = {},
           UNCHANGED <<batches, submits, done, planes, renderValue, decodeValue, framebuffers>>
    PROVE  QueueInv'
<1> DEFINE c == Following(context)
<1>1. Types
  BY DEF QueueInv
<1>2. c \in Ring
  BY <1>1, FollowingInRing DEF Types
<1>3. /\ Passed(c) /\ context' = c /\ freed' = freed \cup views[c]
      /\ views' = [views EXCEPT ![c] = {}] /\ timeline' = timeline /\ fences' = fences
  BY DEF NextContext
<1> HIDE DEF c
<1>4. \A k \in Ring : views'[k] = IF k = c THEN {} ELSE views[k]
  BY <1>1, <1>2, <1>3 DEF Types
<1>5. Types'
  BY <1>1, <1>2, <1>3 DEF Types, Ring
<1>6. (ValuesAreAhead /\ SignalsFollowOrder /\ StartedInTurn /\ PlanesFollow)'
  BY DEF QueueInv, ValuesAreAhead, SignalsFollowOrder, StartedInTurn, PlanesFollow,
         IsDecode, IsRender, Started, Awaited
<1>7. ContextsCover'
  <2>1. ContextsCover
    BY DEF QueueInv
  <2>2. freed' \subseteq 0 .. decodeValue
    BY <2>1, <1>2, <1>3 DEF ContextsCover
  <2>3. \A k \in Ring : views'[k] \subseteq 0 .. decodeValue
    BY <2>1, <1>4 DEF ContextsCover
  <2>4. ASSUME NEW b \in batches, IsDecode(b)
        PROVE  b.signal \notin freed'
    <3>1. b.signal \in views[c] => b.mark <= fences[c]
      BY <2>1, <2>4, <1>2 DEF ContextsCover
    <3>2. done["context"] < b.mark
      BY <2>1, <2>4 DEF ContextsCover
    <3>3. done["context"] >= fences[c]
      BY <1>3, <2>4 DEF Passed
    <3>4. b.mark \in Nat /\ fences[c] \in Nat /\ done["context"] \in Nat
      BY <1>1, <1>2 DEF Types, Batch
    <3>5. b.signal \notin freed
      BY <2>1, <2>4 DEF ContextsCover
    <3>6. QED
      BY <3>1, <3>2, <3>3, <3>4, <3>5, <1>3
  <2>5. ASSUME NEW b \in batches, IsDecode(b), NEW k \in Ring, b.signal \in views'[k]
        PROVE  b.mark <= fences'[k]
    BY <2>1, <2>5, <1>3, <1>4 DEF ContextsCover
  <2>6. QED
    BY <2>1, <2>2, <2>3, <2>4, <2>5, <1>3 DEF ContextsCover, IsDecode, IsRender
<1>8. QED
  BY <1>5, <1>6, <1>7 DEF QueueInv

-----------------------------------------------------------------------------
(* the GPU *)

\* A submission that changes its state is still the same to the parts that do
\* not look at states.
LEMMA BecomeFrame ==
    ASSUME QueueInv, NEW b \in batches, NEW s \in {"queued", "running", "ran"}, Become(b, s),
           UNCHANGED <<submits, done, contextVars, renderValue, decodeValue, framebuffers>>,
           planes' \in Nat
    PROVE  (Types /\ ValuesAreAhead /\ SignalsFollowOrder /\ ContextsCover)'
<1> DEFINE N == [b EXCEPT !.state = s]
<1>1. Types
  BY DEF QueueInv
<1>2. /\ N \in Batch /\ N.n = b.n /\ N.job = b.job /\ N.need = b.need
      /\ N.signal = b.signal /\ N.mark = b.mark
  <2>1. b \in Batch
    BY <1>1 DEF Types
  <2> QED
    BY <2>1, BecomeKeeps
<1>3. batches' = (batches \ {b}) \cup {N}
  BY DEF Become
<1> HIDE DEF N
<1>4. UNCHANGED <<context, timeline, fences, views, freed>>
  BY DEF contextVars
\* what a submission was before
<1> DEFINE Was(e) == IF e = N THEN b ELSE e
<1>5. \A e \in batches' :
         /\ Was(e) \in batches
         /\ e.n = Was(e).n /\ e.job = Was(e).job /\ e.need = Was(e).need
         /\ e.signal = Was(e).signal /\ e.mark = Was(e).mark
  BY <1>2, <1>3
<1>6. \A e, f \in batches' : Was(e) = Was(f) => e = f
  BY <1>3
<1> HIDE DEF Was
<1>7. Types'
  BY <1>1, <1>2, <1>3, <1>4 DEF Types, Ring
<1>8. ValuesAreAhead'
  BY <1>5 DEF QueueInv, ValuesAreAhead, IsDecode, IsRender
<1>9. SignalsFollowOrder'
  <2>1. SUFFICES ASSUME NEW e \in batches', NEW f \in batches'
                 PROVE  /\ e.n = f.n => e = f
                        /\ IsRender(e) /\ IsRender(f) => e = f
                        /\ e.n < f.n =>
                              /\ IsDecode(e) /\ IsDecode(f) => e.signal < f.signal
                              /\ IsDecode(e) /\ IsRender(f) => e.signal <= f.need
                              /\ IsRender(e) /\ IsDecode(f) => e.signal <= f.need
    BY DEF SignalsFollowOrder, IsDecode, IsRender
  <2>2. /\ Was(e) \in batches /\ Was(f) \in batches
        /\ e.n = Was(e).n /\ e.job = Was(e).job /\ e.need = Was(e).need /\ e.signal = Was(e).signal
        /\ f.n = Was(f).n /\ f.job = Was(f).job /\ f.need = Was(f).need /\ f.signal = Was(f).signal
        /\ Was(e) = Was(f) => e = f
    BY <1>5, <1>6
  <2>3. QED
    BY <2>2 DEF QueueInv, SignalsFollowOrder, IsDecode, IsRender
<1>10. ContextsCover'
  <2>1. ContextsCover
    BY DEF QueueInv
  <2>2. SUFFICES ASSUME NEW e \in batches'
                 PROVE  /\ IsRender(e) => e.mark = 0
                        /\ IsDecode(e) =>
                              /\ done["context"] < e.mark /\ e.mark <= timeline
                              /\ e.signal \notin freed
                              /\ \A k \in Ring : e.signal \in views[k] => e.mark <= fences[k]
                              /\ \A f \in batches' : IsDecode(f) /\ e.n < f.n => e.mark < f.mark
    BY <2>1, <1>4 DEF ContextsCover, IsDecode, IsRender
  <2>3. /\ Was(e) \in batches
        /\ e.n = Was(e).n /\ e.job = Was(e).job /\ e.signal = Was(e).signal /\ e.mark = Was(e).mark
    BY <1>5
  <2>4. ASSUME IsDecode(e), NEW f \in batches', IsDecode(f), e.n < f.n
        PROVE  e.mark < f.mark
    <3>1. /\ Was(f) \in batches
          /\ f.n = Was(f).n /\ f.job = Was(f).job /\ f.mark = Was(f).mark
      BY <1>5
    <3>2. QED
      BY <2>1, <2>3, <2>4, <3>1 DEF ContextsCover, IsDecode
  <2>5. QED
    BY <2>1, <2>3, <2>4 DEF ContextsCover, IsDecode, IsRender
<1>11. QED
  BY <1>7, <1>8, <1>9, <1>10

LEMMA StartKeeps ==
    ASSUME QueueInv, NEW b \in batches, Ready(b), Become(b, "running"),
           planes' = IF IsDecode(b) THEN 0 ELSE planes,
           UNCHANGED <<submits, done, contextVars, renderValue, decodeValue, framebuffers>>
    PROVE  QueueInv'
<1> DEFINE N == [b EXCEPT !.state = "running"]
<1>1. Types /\ SignalsFollowOrder /\ ValuesAreAhead
  BY DEF QueueInv
<1>2. /\ N.n = b.n /\ N.job = b.job /\ N.need = b.need /\ N.signal = b.signal
      /\ N.state = "running"
  BY <1>1, BecomeKeeps DEF Types
<1>3. batches' = (batches \ {b}) \cup {N}
  BY DEF Become
<1> HIDE DEF N
<1>4. \A e \in batches' : e = N \/ (e \in batches /\ e # b)
  BY <1>3
<1>5. /\ b.state = "queued" /\ done[Awaited(b)] >= b.need
      /\ IsDecode(b) => \A e \in batches : IsDecode(e) /\ e.n < b.n => e.state = "ran"
  BY DEF Ready, IsDecode
<1>6. b.n \in Nat /\ b.signal \in Nat /\ b.need \in Nat
  BY <1>1, Ordered
<1>7. planes \in Nat /\ decodeValue \in Nat /\ done["decode"] \in Nat /\ done["render"] \in Nat
  BY <1>1 DEF Types
<1>8. (Types /\ ValuesAreAhead /\ SignalsFollowOrder /\ ContextsCover)'
  <2>1. planes' \in Nat
    BY <1>7
  <2>2. QED
    BY <2>1, BecomeFrame
\* no decode after one that is still queued has started
<1>9. ASSUME IsDecode(b), NEW e \in batches, IsDecode(e), Started(e), e # b
      PROVE  e.n < b.n
  <2>1. ~(b.n < e.n)
    BY <1>5, <1>9 DEF QueueInv, StartedInTurn
  <2>2. QED
    BY <2>1, <1>1, <1>9, Ordered
<1>10. StartedInTurn'
  <2>1. SUFFICES ASSUME NEW f \in batches', Started(f)
                 PROVE  /\ done[Awaited(f)] >= f.need
                        /\ IsDecode(f) => \A e \in batches' : IsDecode(e) /\ e.n < f.n => e.state = "ran"
    BY DEF StartedInTurn, Started, Awaited, IsDecode
  <2>2. CASE f = N
    <3>1. done[Awaited(f)] >= f.need
      BY <2>2, <1>2, <1>5 DEF Awaited
    <3>2. ASSUME IsDecode(f), NEW e \in batches', IsDecode(e), e.n < f.n
          PROVE  e.state = "ran"
      <4>1. e \in batches /\ e.n < b.n /\ IsDecode(b)
        BY <3>2, <2>2, <1>2, <1>4, <1>6 DEF IsDecode
      <4>2. QED
        BY <4>1, <3>2, <1>5
    <3>3. QED
      BY <3>1, <3>2
  <2>3. CASE f \in batches /\ f # b
    <3>1. done[Awaited(f)] >= f.need
      BY <2>1, <2>3 DEF QueueInv, StartedInTurn
    <3>2. ASSUME IsDecode(f), NEW e \in batches', IsDecode(e), e.n < f.n
          PROVE  e.state = "ran"
      <4>1. CASE e = N
        <5>1. IsDecode(b) /\ b.n < f.n
          BY <4>1, <3>2, <1>2 DEF IsDecode
        <5>2. f.n < b.n
          BY <5>1, <1>9, <2>1, <2>3, <3>2
        <5>3. f.n \in Nat
          BY <2>3, <1>1, Ordered
        <5>4. QED
          BY <5>1, <5>2, <5>3, <1>6
      <4>2. CASE e \in batches
        BY <4>2, <2>1, <2>3, <3>2 DEF QueueInv, StartedInTurn
      <4>3. QED
        BY <4>1, <4>2, <1>4
    <3>3. QED
      BY <3>1, <3>2
  <2>4. QED
    BY <2>2, <2>3, <1>4
<1>11. PlanesFollow'
  <2>1. CASE IsDecode(b)
    <3>1. ASSUME NEW d \in batches', IsDecode(d), d.state = "ran"
          PROVE  \E e \in batches' : IsDecode(e) /\ d.n < e.n /\ Started(e)
      <4>1. d \in batches /\ d # b
        BY <3>1, <1>2, <1>4
      <4>2. d.n < b.n
        BY <4>1, <3>1, <2>1, <1>9 DEF Started
      <4>3. N \in batches' /\ IsDecode(N) /\ d.n < N.n /\ Started(N)
        BY <4>2, <2>1, <1>2, <1>3 DEF IsDecode, Started
      <4>4. QED
        BY <4>3
    <3>2. ASSUME NEW r \in batches', IsRender(r), done["decode"] >= r.need
          PROVE  FALSE
      <4>1. r \in batches
        BY <3>2, <2>1, <1>2, <1>4 DEF IsRender, IsDecode
      <4>2. done["render"] >= b.need
        BY <2>1, <1>5 DEF Awaited, IsDecode
      <4>3. QED
        BY <4>1, <4>2, <3>2, <2>1, <1>1, NoRenderBeside
    <3>3. ~(done["decode"] >= decodeValue)
      <4>1. done["decode"] < b.signal /\ b.signal <= decodeValue
        BY <2>1, <1>1 DEF ValuesAreAhead
      <4>2. QED
        BY <4>1, <1>6, <1>7
    <3>4. QED
      BY <3>1, <3>2, <3>3 DEF PlanesFollow, IsDecode, IsRender, Started
  <2>2. CASE ~IsDecode(b)
    <3>1. PlanesFollow /\ planes' = planes
      BY <2>2 DEF QueueInv
    <3>2. \A d \in batches : IsDecode(d) => d \in batches'
      BY <2>2, <1>3
    <3>3. \A d \in batches' : IsDecode(d) => d \in batches
      BY <2>2, <1>2, <1>4 DEF IsDecode
    <3>4. \A r \in batches' : IsRender(r) /\ done["decode"] >= r.need => planes = r.need
      BY <3>1, <1>2, <1>4 DEF PlanesFollow, IsRender
    <3>5. \A d \in batches' : IsDecode(d) /\ d.state = "ran" =>
             \/ planes = d.signal
             \/ \E e \in batches' : IsDecode(e) /\ d.n < e.n /\ Started(e)
      BY <3>1, <3>2, <3>3 DEF PlanesFollow
    <3>6. QED
      BY <3>1, <3>4, <3>5 DEF PlanesFollow, IsDecode, IsRender, Started
  <2>3. QED
    BY <2>1, <2>2
<1>12. QED
  BY <1>8, <1>10, <1>11 DEF QueueInv

LEMMA EndKeeps ==
    ASSUME QueueInv, NEW b \in batches, b.state = "running", Become(b, "ran"),
           planes' = IF IsDecode(b) THEN b.signal ELSE planes,
           UNCHANGED <<submits, done, contextVars, renderValue, decodeValue, framebuffers>>
    PROVE  QueueInv'
<1> DEFINE N == [b EXCEPT !.state = "ran"]
<1>1. Types /\ SignalsFollowOrder /\ ValuesAreAhead
  BY DEF QueueInv
<1>2. /\ N.n = b.n /\ N.job = b.job /\ N.need = b.need /\ N.signal = b.signal
      /\ N.state = "ran"
  BY <1>1, BecomeKeeps DEF Types
<1>3. batches' = (batches \ {b}) \cup {N}
  BY DEF Become
<1> HIDE DEF N
<1>4. \A e \in batches' : e = N \/ (e \in batches /\ e # b)
  BY <1>3
<1>5. /\ done[Awaited(b)] >= b.need
      /\ IsDecode(b) => \A e \in batches : IsDecode(e) /\ e.n < b.n => e.state = "ran"
  BY DEF QueueInv, StartedInTurn, Started
<1>6. b.n \in Nat /\ b.signal \in Nat /\ b.need \in Nat
  BY <1>1, Ordered
<1>7. planes \in Nat /\ decodeValue \in Nat /\ done["decode"] \in Nat /\ done["render"] \in Nat
  BY <1>1 DEF Types
<1>8. (Types /\ ValuesAreAhead /\ SignalsFollowOrder /\ ContextsCover)'
  <2>1. planes' \in Nat
    BY <1>6, <1>7
  <2>2. QED
    BY <2>1, BecomeFrame
\* no decode after one the GPU works on has started
<1>9. ASSUME IsDecode(b), NEW e \in batches, IsDecode(e), Started(e), e # b
      PROVE  e.n < b.n
  <2>1. ~(b.n < e.n)
    BY <1>9 DEF QueueInv, StartedInTurn
  <2>2. QED
    BY <2>1, <1>1, <1>9, Ordered
<1>10. StartedInTurn'
  <2>1. SUFFICES ASSUME NEW f \in batches', Started(f)
                 PROVE  /\ done[Awaited(f)] >= f.need
                        /\ IsDecode(f) => \A e \in batches' : IsDecode(e) /\ e.n < f.n => e.state = "ran"
    BY DEF StartedInTurn, Started, Awaited, IsDecode
  <2>2. CASE f = N
    <3>1. done[Awaited(f)] >= f.need
      BY <2>2, <1>2, <1>5 DEF Awaited
    <3>2. ASSUME IsDecode(f), NEW e \in batches', IsDecode(e), e.n < f.n
          PROVE  e.state = "ran"
      BY <3>2, <2>2, <1>2, <1>4, <1>5 DEF IsDecode
    <3>3. QED
      BY <3>1, <3>2
  <2>3. CASE f \in batches /\ f # b
    BY <2>1, <2>3, <1>2, <1>4 DEF QueueInv, StartedInTurn
  <2>4. QED
    BY <2>2, <2>3, <1>4
<1>11. PlanesFollow'
  <2>1. CASE IsDecode(b)
    <3>1. ASSUME NEW d \in batches', IsDecode(d), d.state = "ran"
          PROVE  \/ planes' = d.signal
                 \/ \E e \in batches' : IsDecode(e) /\ d.n < e.n /\ Started(e)
      <4>1. CASE d = N
        BY <4>1, <2>1, <1>2
      <4>2. CASE d \in batches /\ d # b
        <5>1. d.n < b.n
          BY <4>2, <3>1, <2>1, <1>9 DEF Started
        <5>2. N \in batches' /\ IsDecode(N) /\ d.n < N.n /\ Started(N)
          BY <5>1, <2>1, <1>2, <1>3 DEF IsDecode, Started
        <5>3. QED
          BY <5>2
      <4>3. QED
        BY <4>1, <4>2, <1>4
    <3>2. ASSUME NEW r \in batches', IsRender(r), done["decode"] >= r.need
          PROVE  FALSE
      <4>1. r \in batches
        BY <3>2, <2>1, <1>2, <1>4 DEF IsRender, IsDecode
      <4>2. done["render"] >= b.need
        BY <2>1, <1>5 DEF Awaited, IsDecode
      <4>3. QED
        BY <4>1, <4>2, <3>2, <2>1, <1>1, NoRenderBeside
    <3>3. ~(done["decode"] >= decodeValue)
      <4>1. done["decode"] < b.signal /\ b.signal <= decodeValue
        BY <2>1, <1>1 DEF ValuesAreAhead
      <4>2. QED
        BY <4>1, <1>6, <1>7
    <3>4. QED
      BY <3>1, <3>2, <3>3 DEF PlanesFollow, IsDecode, IsRender, Started
  <2>2. CASE ~IsDecode(b)
    <3>1. PlanesFollow /\ planes' = planes
      BY <2>2 DEF QueueInv
    <3>2. \A d \in batches : IsDecode(d) => d \in batches'
      BY <2>2, <1>3
    <3>3. \A d \in batches' : IsDecode(d) => d \in batches
      BY <2>2, <1>2, <1>4 DEF IsDecode
    <3>4. \A r \in batches' : IsRender(r) /\ done["decode"] >= r.need => planes = r.need
      BY <3>1, <1>2, <1>4 DEF PlanesFollow, IsRender
    <3>5. \A d \in batches' : IsDecode(d) /\ d.state = "ran" =>
             \/ planes = d.signal
             \/ \E e \in batches' : IsDecode(e) /\ d.n < e.n /\ Started(e)
      BY <3>1, <3>2, <3>3 DEF PlanesFollow
    <3>6. QED
      BY <3>1, <3>4, <3>5 DEF PlanesFollow, IsDecode, IsRender, Started
  <2>3. QED
    BY <2>1, <2>2
<1>12. QED
  BY <1>8, <1>10, <1>11 DEF QueueInv

LEMMA SignalKeeps ==
    ASSUME QueueInv, NEW b \in batches, Signal(b),
           UNCHANGED <<renderValue, decodeValue, framebuffers>>
    PROVE  QueueInv'
<1>1. Types /\ SignalsFollowOrder /\ ValuesAreAhead /\ ContextsCover
  BY DEF QueueInv
<1>2. /\ b.n \in Nat /\ b.signal \in Nat /\ b.need \in Nat /\ b.mark \in Nat
      /\ IsDecode(b) \/ IsRender(b)
      /\ ~(IsDecode(b) /\ IsRender(b))
  BY <1>1, Ordered
<1>3. /\ batches' = batches \ {b} /\ b.state = "ran"
      /\ UNCHANGED <<submits, planes, context, timeline, fences, views, freed>>
      /\ \A e \in batches : b.n <= e.n
  BY DEF Signal, contextVars, First
<1>4. /\ planes \in Nat /\ decodeValue \in Nat /\ renderValue \in Nat /\ timeline \in Nat
      /\ done["decode"] \in Nat /\ done["render"] \in Nat /\ done["context"] \in Nat
  BY <1>1 DEF Types
<1>5. CASE IsDecode(b)
  <2>1. b.mark # 0
    BY <1>1, <1>2, <1>4, <1>5 DEF ContextsCover
  <2>2. done' = [done EXCEPT !["decode"] = b.signal, !["context"] = b.mark]
    BY <2>1, <1>5 DEF Signal, IsDecode
  <2>3. /\ done' \in [{"decode", "render", "context"} -> Nat]
        /\ done'["decode"] = b.signal /\ done'["render"] = done["render"]
        /\ done'["context"] = b.mark
    BY <2>2, <1>1, <1>2 DEF Types
  <2>4. b.signal <= decodeValue /\ done["decode"] < b.signal /\ b.mark <= timeline
    BY <1>1, <1>5 DEF ValuesAreAhead, ContextsCover
\* what is left comes after it
  <2>5. ASSUME NEW e \in batches'
        PROVE  /\ e \in batches /\ b.n < e.n
               /\ e.n \in Nat /\ e.signal \in Nat /\ e.need \in Nat /\ e.mark \in Nat
               /\ IsDecode(e) => b.signal < e.signal /\ b.mark < e.mark
               /\ IsRender(e) => b.signal <= e.need
    <3>1. e \in batches /\ e # b /\ b.n <= e.n
      BY <1>3
    <3>2. e.n \in Nat /\ e.signal \in Nat /\ e.need \in Nat /\ e.mark \in Nat
      BY <3>1, <1>1, Ordered
    <3>3. b.n < e.n
      <4>1. ~(e.n < b.n)
        BY <3>1, <3>2, <1>2
      <4>2. QED
        BY <4>1, <3>1, <1>1, Ordered
    <3>4. QED
      BY <3>1, <3>2, <3>3, <1>1, <1>5 DEF SignalsFollowOrder, ContextsCover
  <2>6. Types'
    BY <2>3, <1>1, <1>3 DEF Types, Ring
  <2>7. ValuesAreAhead'
    <3>1. \A e \in batches' : IsRender(e) => done'["render"] < e.signal /\ e.signal = renderValue'
      BY <2>3, <2>5, <1>1 DEF ValuesAreAhead
    <3>2. \A e \in batches' : IsDecode(e) => done'["decode"] < e.signal
      BY <2>3, <2>5
    <3>3. \A e \in batches' :
             /\ e.n <= submits'
             /\ IsDecode(e) => e.signal <= decodeValue' /\ e.need <= renderValue'
             /\ IsRender(e) => e.need <= decodeValue'
      BY <2>5, <1>1, <1>3 DEF ValuesAreAhead
    <3>4. done'["decode"] <= decodeValue' /\ done'["render"] <= renderValue'
      BY <2>3, <2>4, <1>1 DEF ValuesAreAhead
    <3>5. QED
      BY <3>1, <3>2, <3>3, <3>4 DEF ValuesAreAhead, IsDecode, IsRender
  <2>8. StartedInTurn'
    <3>1. SUFFICES ASSUME NEW f \in batches', Started(f)
                   PROVE  /\ done'[Awaited(f)] >= f.need
                          /\ IsDecode(f) => \A e \in batches' : IsDecode(e) /\ e.n < f.n => e.state = "ran"
      BY DEF StartedInTurn, Started, Awaited, IsDecode
    <3>2. done[Awaited(f)] >= f.need
      BY <3>1, <2>5 DEF QueueInv, StartedInTurn
    <3>3. done'[Awaited(f)] >= f.need
      BY <3>2, <2>3, <2>4, <2>5, <1>2, <1>4 DEF Awaited
    <3>4. QED
      BY <3>1, <3>3, <2>5 DEF QueueInv, StartedInTurn
  <2>9. PlanesFollow'
    <3>1. ASSUME NEW d \in batches', IsDecode(d), d.state = "ran"
          PROVE  \/ planes = d.signal
                 \/ \E e \in batches' : IsDecode(e) /\ d.n < e.n /\ Started(e)
      <4>1. CASE planes = d.signal
        BY <4>1
      <4>2. ASSUME NEW e \in batches, IsDecode(e), d.n < e.n, Started(e)
            PROVE  e \in batches'
        <5>1. b.n < d.n /\ d.n \in Nat /\ e.n \in Nat
          BY <2>5, <1>1, Ordered
        <5>2. e # b
          BY <5>1, <4>2, <1>2
        <5>3. QED
          BY <5>2, <1>3
      <4>3. QED
        BY <4>1, <4>2, <3>1, <2>5 DEF QueueInv, PlanesFollow
    <3>2. \/ planes = b.signal
          \/ \E e \in batches : IsDecode(e) /\ b.n < e.n /\ Started(e)
      BY <1>3, <1>5 DEF QueueInv, PlanesFollow
    <3>3. ASSUME NEW r \in batches', IsRender(r), b.signal >= r.need
          PROVE  planes = r.need
      <4>1. b.signal = r.need /\ r \in batches
        BY <3>3, <2>5, <1>2
      <4>2. ASSUME NEW e \in batches, IsDecode(e), b.n < e.n, Started(e)
            PROVE  FALSE
        <5>1. e.n \in Nat /\ e.signal \in Nat /\ e.need \in Nat /\ r.need \in Nat
              /\ r.signal \in Nat
          BY <4>1, <1>1, Ordered
        <5>2. CASE e.n < r.n
          <6>1. e.signal <= r.need /\ b.signal < e.signal
            BY <5>2, <4>1, <4>2, <3>3, <1>1, <1>5 DEF SignalsFollowOrder
          <6>2. QED
            BY <6>1, <5>1, <4>1, <1>2
        <5>3. CASE r.n < e.n
          <6>1. r.signal <= e.need
            BY <5>3, <4>1, <4>2, <3>3, <1>1 DEF SignalsFollowOrder
          <6>2. done["render"] < r.signal
            BY <4>1, <3>3, <1>1 DEF ValuesAreAhead
          <6>3. done["render"] >= e.need
            BY <4>2 DEF QueueInv, StartedInTurn, Awaited, IsDecode
          <6>4. QED
            BY <6>1, <6>2, <6>3, <5>1, <1>4
        <5>4. QED
          BY <5>2, <5>3, <4>1, <4>2, <3>3, <1>1, Ordered
      <4>3. QED
        BY <4>1, <4>2, <3>2
    <3>4. b.signal >= decodeValue => planes = decodeValue
      <4>1. SUFFICES ASSUME b.signal >= decodeValue PROVE planes = decodeValue
        OBVIOUS
      <4>2. b.signal = decodeValue
        BY <4>1, <2>4, <1>2, <1>4
      <4>3. ASSUME NEW e \in batches, IsDecode(e), b.n < e.n
            PROVE  FALSE
        <5>1. b.signal < e.signal /\ e.signal <= decodeValue
          BY <4>3, <1>1, <1>5 DEF SignalsFollowOrder, ValuesAreAhead
        <5>2. e.signal \in Nat
          BY <1>1, Ordered
        <5>3. QED
          BY <5>1, <5>2, <4>2, <1>4
      <4>4. QED
        BY <4>2, <4>3, <3>2
    <3>5. QED
      BY <3>1, <3>3, <3>4, <2>3, <1>3 DEF PlanesFollow, IsDecode, IsRender, Started
  <2>10. ContextsCover'
    <3>1. \A e \in batches' : IsDecode(e) => done'["context"] < e.mark
      BY <2>3, <2>5
    <3>2. done'["context"] <= timeline'
      BY <2>3, <2>4, <1>3
    <3>3. QED
      BY <3>1, <3>2, <2>5, <1>1, <1>3 DEF ContextsCover, IsDecode, IsRender
  <2>11. SignalsFollowOrder'
    BY <1>1, <1>3 DEF SignalsFollowOrder, IsDecode, IsRender
  <2>12. QED
    BY <2>6, <2>7, <2>8, <2>9, <2>10, <2>11 DEF QueueInv
<1>6. CASE IsRender(b)
  <2>1. b.mark = 0
    BY <1>1, <1>6 DEF ContextsCover
  <2>2. done' = [done EXCEPT !["render"] = b.signal, !["context"] = @]
    BY <2>1, <1>6 DEF Signal, IsRender
  <2>3. /\ done' \in [{"decode", "render", "context"} -> Nat]
        /\ done'["decode"] = done["decode"] /\ done'["render"] = b.signal
        /\ done'["context"] = done["context"]
    BY <2>2, <1>1, <1>2 DEF Types
  <2>4. b.signal = renderValue /\ done["render"] < b.signal
    BY <1>1, <1>6 DEF ValuesAreAhead
  <2>5. ASSUME NEW e \in batches'
        PROVE  /\ e \in batches /\ IsDecode(e) /\ ~IsRender(e)
               /\ e.n \in Nat /\ e.signal \in Nat /\ e.need \in Nat /\ e.mark \in Nat
    <3>1. e \in batches /\ e # b
      BY <1>3
    <3>2. ~IsRender(e)
      BY <3>1, <1>1, <1>6 DEF SignalsFollowOrder
    <3>3. QED
      BY <3>1, <3>2, <1>1, Ordered
  <2>6. Types'
    BY <2>3, <1>1, <1>3 DEF Types, Ring
  <2>7. ValuesAreAhead'
    <3>1. \A e \in batches' :
             /\ e.n <= submits'
             /\ done'["decode"] < e.signal /\ e.signal <= decodeValue' /\ e.need <= renderValue'
      BY <2>3, <2>5, <1>1, <1>3 DEF ValuesAreAhead
    <3>2. done'["decode"] <= decodeValue' /\ done'["render"] <= renderValue'
      BY <2>3, <2>4, <1>1, <1>4 DEF ValuesAreAhead
    <3>3. QED
      BY <3>1, <3>2, <2>5 DEF ValuesAreAhead, IsDecode, IsRender
  <2>8. StartedInTurn'
    <3>1. SUFFICES ASSUME NEW f \in batches', Started(f)
                   PROVE  /\ done'[Awaited(f)] >= f.need
                          /\ IsDecode(f) => \A e \in batches' : IsDecode(e) /\ e.n < f.n => e.state = "ran"
      BY DEF StartedInTurn, Started, Awaited, IsDecode
    <3>2. done["render"] >= f.need
      BY <3>1, <2>5 DEF QueueInv, StartedInTurn, Awaited, IsDecode
    <3>3. done'[Awaited(f)] >= f.need
      BY <3>2, <2>3, <2>4, <2>5, <1>2, <1>4 DEF Awaited, IsDecode
    <3>4. QED
      BY <3>1, <3>3, <2>5 DEF QueueInv, StartedInTurn
  <2>9. PlanesFollow'
    <3>1. \A e \in batches : IsDecode(e) => e \in batches'
      BY <1>2, <1>3, <1>6
    <3>2. PlanesFollow
      BY DEF QueueInv
    <3>3. \A d \in batches' : IsDecode(d) /\ d.state = "ran" =>
             \/ planes = d.signal
             \/ \E e \in batches' : IsDecode(e) /\ d.n < e.n /\ Started(e)
      BY <3>1, <3>2, <2>5 DEF PlanesFollow
    <3>4. done'["decode"] >= decodeValue => planes = decodeValue
      BY <3>2, <2>3 DEF PlanesFollow
    <3>5. QED
      BY <3>3, <3>4, <2>5, <1>3 DEF PlanesFollow, IsDecode, IsRender, Started
  <2>10. ContextsCover'
    BY <2>3, <2>5, <1>1, <1>3 DEF ContextsCover, IsDecode, IsRender
  <2>11. SignalsFollowOrder'
    BY <1>1, <1>3 DEF SignalsFollowOrder, IsDecode, IsRender
  <2>12. QED
    BY <2>6, <2>7, <2>8, <2>9, <2>10, <2>11 DEF QueueInv
<1>7. QED
  BY <1>2, <1>5, <1>6

-----------------------------------------------------------------------------
(* every step keeps the parts about the queue *)

\* A queue that waits for nothing, or waited for.
LEMMA IdleMeansEmpty == IInv /\ WaitIdle => batches = {}
  BY DEF IInv, LifeInStep, WaitIdle, Idle

LEMMA QueueStep == IInv /\ [Next]_vars => QueueInv'
<1> SUFFICES ASSUME IInv, [Next]_vars PROVE QueueInv'
  OBVIOUS
<1> USE DEF deviceVars, gpuVars, lifeVars, mailVars, frameVars, syncVars
<1>1. QueueInv /\ LifeInStep /\ FenceGuards
  BY DEF IInv, QueueInv
<1>2. framebuffers \in Nat
  BY <1>1 DEF QueueInv, Types
<1>3. ASSUME UNCHANGED queueVars, framebuffers' \in Nat PROVE QueueInv'
  BY <1>1, <1>3, QueueStays
<1>4. CASE UNCHANGED vars
  BY <1>2, <1>3, <1>4 DEF vars, queueVars, contextVars
<1>5. ASSUME NEW x \in Things, Make(x) \/ MakeFails(x) PROVE QueueInv'
  <2>1. UNCHANGED queueVars
    BY <1>5 DEF Make, MakeFails, queueVars, contextVars
  <2>2. framebuffers' \in Nat
    BY <1>2, <1>5 DEF Make, MakeFails
  <2>3. QED
    BY <2>1, <2>2, <1>3
<1>6. CASE Publish
  BY <1>2, <1>3, <1>6 DEF Publish, queueVars, contextVars
<1>7. CASE CoreStops
  BY <1>2, <1>3, <1>7 DEF CoreStops, queueVars, contextVars, TakenBy
<1>8. CASE CoreReturns
  BY <1>2, <1>3, <1>8 DEF CoreReturns, queueVars, contextVars
<1>9. CASE SurfaceGoes
  BY <1>2, <1>3, <1>9 DEF SurfaceGoes, queueVars, contextVars, TakenBy
<1>10. CASE UiReturns
  BY <1>2, <1>3, <1>10 DEF UiReturns, queueVars, contextVars
<1>11. CASE Flag
  BY <1>2, <1>3, <1>11 DEF Flag, queueVars, contextVars
<1>12. CASE Join
  BY <1>2, <1>3, <1>12 DEF Join, queueVars, contextVars
<1>13. CASE DeviceIdle
  BY <1>2, <1>3, <1>13 DEF DeviceIdle, queueVars, contextVars
<1>14. CASE Submit
  BY <1>2, <1>3, <1>14 DEF Submit, queueVars, contextVars
<1>15. CASE Take
  BY <1>2, <1>3, <1>15 DEF Take, queueVars, contextVars
<1>16. CASE Refuse
  BY <1>2, <1>3, <1>16 DEF Refuse, queueVars, contextVars
<1>17. CASE Parse
  BY <1>2, <1>3, <1>17 DEF Parse, queueVars, contextVars
<1>18. CASE DecodeFails
  BY <1>2, <1>3, <1>18 DEF DecodeFails, queueVars, contextVars
<1>19. CASE FenceSignalled
  BY <1>2, <1>3, <1>19 DEF FenceSignalled, queueVars, contextVars
<1>20. CASE FenceTimeout
  BY <1>2, <1>3, <1>20 DEF FenceTimeout, queueVars, contextVars
<1>21. CASE FenceLost
  BY <1>2, <1>3, <1>21 DEF FenceLost, queueVars, contextVars
<1>22. CASE Acquire
  BY <1>2, <1>3, <1>22 DEF Acquire, queueVars, contextVars
<1>23. CASE AcquireOutOfDate
  BY <1>2, <1>3, <1>23 DEF AcquireOutOfDate, queueVars, contextVars
<1>24. CASE DrawFails
  BY <1>2, <1>3, <1>24 DEF DrawFails, queueVars, contextVars
<1>25. CASE EnterContext
  BY <1>1, <1>25, NextContextKeeps DEF EnterContext, LifeInStep
<1>26. CASE DestroyDecoder
  <2>1. CASE "decoder" \in made
    BY <1>1, <1>26, <2>1, NextContextKeeps DEF DestroyDecoder, LifeInStep
  <2>2. CASE "decoder" \notin made
    BY <1>2, <1>3, <1>26, <2>2 DEF DestroyDecoder, queueVars, contextVars
  <2>3. QED
    BY <2>1, <2>2
<1>27. ASSUME NEW x \in Things, FreeObject(x) PROVE QueueInv'
  <2>1. framebuffers' \in Nat
    BY <1>2, <1>27 DEF FreeObject
  <2>2. QED
    BY <2>1, <1>3, <1>27 DEF FreeObject, queueVars, contextVars
<1>28. CASE DestroyContext
  <2>1. batches = {} /\ batches' = {}
    BY <1>1, <1>28 DEF DestroyContext, LifeInStep, After
  <2>2. UNCHANGED <<submits, done, planes, context, timeline, fences, renderValue, decodeValue,
                    framebuffers>>
    BY <1>28 DEF DestroyContext
  <2>3. /\ freed' \subseteq freed \cup UNION {views[c] : c \in Ring}
        /\ views' \in [Ring -> SUBSET Nat] /\ \A c \in Ring : views'[c] \subseteq views[c]
    BY <1>1, <1>28 DEF DestroyContext, QueueInv, Types
  <2>4. Types'
    BY <1>1, <2>1, <2>2, <2>3 DEF QueueInv, Types, Ring
  <2>5. ContextsCover'
    <3>1. freed \subseteq 0 .. decodeValue /\ \A c \in Ring : views[c] \subseteq 0 .. decodeValue
      BY <1>1 DEF QueueInv, ContextsCover
    <3>2. freed' \subseteq 0 .. decodeValue /\ \A c \in Ring : views'[c] \subseteq 0 .. decodeValue
      BY <2>3, <3>1
    <3>3. done["context"] <= timeline
      BY <1>1 DEF QueueInv, ContextsCover
    <3>4. QED
      BY <3>2, <3>3, <2>1, <2>2 DEF ContextsCover
  <2>6. (ValuesAreAhead /\ SignalsFollowOrder /\ StartedInTurn /\ PlanesFollow)'
    BY <1>1, <2>1, <2>2 DEF QueueInv, ValuesAreAhead, SignalsFollowOrder, StartedInTurn,
       PlanesFollow
  <2>7. QED
    BY <2>4, <2>5, <2>6 DEF QueueInv
<1>38. CASE DestroyDevice
  BY <1>2, <1>3, <1>38 DEF DestroyDevice, queueVars, contextVars
<1>39. CASE DestroyInstance
  BY <1>2, <1>3, <1>39 DEF DestroyInstance, queueVars, contextVars
<1>29. CASE Decode
  BY <1>1, <1>29, SubmitDecodeKeeps DEF Decode
<1>30. CASE Recreate
  BY <1>2, <1>3, <1>30 DEF Recreate, queueVars, contextVars
<1>31. CASE Draw
  <2>1. \A e \in batches : ~IsRender(e)
    BY <1>1, <1>31 DEF Draw, FenceGuards
  <2>2. QED
    BY <1>1, <1>31, <2>1, SubmitRenderKeeps DEF Draw
<1>32. CASE GpuStartsDecode
  <2>1. PICK b \in batches : b.job = "decode" /\ Ready(b) /\ Become(b, "running")
    BY <1>32 DEF GpuStartsDecode, StartDecode
  <2>2. planes' = IF IsDecode(b) THEN 0 ELSE planes
    BY <1>32, <2>1 DEF GpuStartsDecode, StartDecode, IsDecode
  <2>3. UNCHANGED <<submits, done, contextVars, renderValue, decodeValue, framebuffers>>
    BY <1>32 DEF GpuStartsDecode, StartDecode
  <2>4. QED
    BY <1>1, <2>1, <2>2, <2>3, StartKeeps
<1>33. CASE GpuStartsRender
  <2>1. PICK b \in batches : b.job = "render" /\ Ready(b) /\ Become(b, "running")
    BY <1>33 DEF GpuStartsRender, StartRender
  <2>2. planes' = IF IsDecode(b) THEN 0 ELSE planes
    BY <1>33, <2>1 DEF GpuStartsRender, StartRender, IsDecode
  <2>3. UNCHANGED <<submits, done, contextVars, renderValue, decodeValue, framebuffers>>
    BY <1>33 DEF GpuStartsRender, StartRender
  <2>4. QED
    BY <1>1, <2>1, <2>2, <2>3, StartKeeps
<1>34. CASE GpuEnds
  <2>1. PICK b \in batches :
          /\ b.state = "running" /\ Become(b, "ran")
          /\ planes' = IF b.job = "decode" THEN b.signal ELSE planes
    BY <1>34 DEF GpuEnds, EndBatch
  <2>2. UNCHANGED <<submits, done, contextVars, renderValue, decodeValue, framebuffers>>
    BY <1>34 DEF GpuEnds, EndBatch
  <2>3. QED
    BY <1>1, <2>1, <2>2, EndKeeps DEF IsDecode
<1>35. CASE GpuSignals
  BY <1>1, <1>35, SignalKeeps DEF GpuSignals
<1>36. CASE GpuFails
  <2>1. CASE GpuHangs
    BY <1>2, <1>3, <1>36, <2>1 DEF GpuFails, GpuHangs, queueVars, contextVars
  <2>2. CASE GpuLost
    BY <1>1, <1>2, <1>36, <2>2, QueueEmpties DEF GpuFails, GpuLost
  <2>3. QED
    BY <1>36, <2>1, <2>2 DEF GpuFails
<1>37. QED
  BY <1>4, <1>5, <1>6, <1>7, <1>8, <1>9, <1>10, <1>11, <1>12, <1>13, <1>14, <1>15,
     <1>16, <1>17, <1>18, <1>19, <1>20, <1>21, <1>22, <1>23, <1>24, <1>25, <1>26, <1>27,
     <1>28, <1>29, <1>30, <1>31, <1>32, <1>33, <1>34, <1>35, <1>36, <1>38, <1>39
     DEF Next, Starting, Stopping, RenderThread, Gpu

-----------------------------------------------------------------------------
(* the fence, the semaphore and the framebuffers *)

\* What the steps make of the two.
LEMMA AcquiredSteps ==
    [Next]_vars => acquired' = acquired \/ acquired' = TRUE \/ acquired' = FALSE
<1> SUFFICES ASSUME [Next]_vars
             PROVE  acquired' = acquired \/ acquired' = TRUE \/ acquired' = FALSE
  OBVIOUS
<1> USE DEF syncVars
<1>1. CASE UNCHANGED vars
  BY <1>1 DEF vars
<1>2. CASE Starting
  BY <1>2 DEF Starting, Publish, Make, MakeFails
<1>3. CASE CoreStops \/ CoreReturns \/ SurfaceGoes \/ UiReturns
  BY <1>3 DEF CoreStops, CoreReturns, SurfaceGoes, UiReturns
<1>4. CASE Stopping
  BY <1>4 DEF Stopping, Flag, Join, DeviceIdle, DestroyDecoder, FreeObject, DestroyContext,
     DestroyDevice, DestroyInstance
<1>5. CASE Submit
  BY <1>5 DEF Submit
<1>6. CASE RenderThread
  <2>1. CASE Take \/ Refuse \/ Parse \/ EnterContext \/ Decode \/ DecodeFails \/ Recreate
    BY <2>1 DEF Take, Refuse, Parse, EnterContext, Decode, DecodeFails, Recreate
  <2>2. CASE FenceSignalled \/ FenceTimeout \/ FenceLost \/ AcquireOutOfDate \/ Draw \/ DrawFails
    BY <2>2 DEF FenceSignalled, FenceTimeout, FenceLost, AcquireOutOfDate, Draw, DrawFails
  <2>3. CASE Acquire
    BY <2>3 DEF Acquire
  <2>4. QED
    BY <1>6, <2>1, <2>2, <2>3 DEF RenderThread
<1>7. CASE Gpu
  BY <1>7 DEF Gpu, GpuStartsDecode, GpuStartsRender, GpuEnds, GpuSignals
<1>8. CASE GpuFails
  BY <1>8 DEF GpuFails
<1>9. QED
  BY <1>1, <1>2, <1>3, <1>4, <1>5, <1>6, <1>7, <1>8 DEF Next

LEMMA AcquiredStep == AcquiredIsBoolean /\ [Next]_vars => AcquiredIsBoolean'
  BY AcquiredSteps, Zenon DEF AcquiredIsBoolean

\* A step that leaves the two and the queue alone, and enters neither of the
\* states of the render thread that rely on them.
LEMMA FenceStays ==
    /\ FenceGuards /\ UNCHANGED <<fence, acquired>> /\ batches' \subseteq batches
    /\ \/ rt' = rt
       \/ /\ rt \notin {"acquire", "submit"}
          /\ rt' \notin {"acquire", "submit"}
    => FenceGuards'
  BY DEF FenceGuards, IsRender, Started

LEMMA FenceStep == IInv /\ [Next]_vars => FenceGuards'
<1> SUFFICES ASSUME IInv, [Next]_vars PROVE FenceGuards'
  OBVIOUS
<1> USE DEF deviceVars, gpuVars, lifeVars, mailVars, frameVars, syncVars
<1>1. QueueInv /\ LifeInStep /\ FenceGuards
  BY DEF IInv, QueueInv
<1>2. CASE UNCHANGED vars
  BY <1>1, <1>2, FenceStays DEF vars
<1>3. ASSUME NEW x \in Things, Make(x) \/ MakeFails(x) PROVE FenceGuards'
  BY <1>1, <1>3, FenceStays DEF Make, MakeFails, AtStage, LifeInStep
<1>4. CASE Publish
  BY <1>1, <1>4, FenceStays DEF Publish
<1>5. CASE CoreStops
  BY <1>1, <1>5, FenceStays DEF CoreStops
<1>6. CASE CoreReturns
  BY <1>1, <1>6, FenceStays DEF CoreReturns
<1>7. CASE SurfaceGoes
  BY <1>1, <1>7, FenceStays DEF SurfaceGoes
<1>8. CASE UiReturns
  BY <1>1, <1>8, FenceStays DEF UiReturns
<1>9. CASE Flag
  BY <1>1, <1>9, FenceStays DEF Flag
<1>10. CASE Join
  BY <1>1, <1>10, FenceStays DEF Join
<1>11. CASE DeviceIdle
  BY <1>1, <1>11, FenceStays DEF DeviceIdle
<1>12. CASE DestroyDecoder
  BY <1>1, <1>12, FenceStays DEF DestroyDecoder
<1>13. ASSUME NEW x \in Things, FreeObject(x) PROVE FenceGuards'
  BY <1>1, <1>13, FenceStays DEF FreeObject
<1>14. CASE DestroyContext
  BY <1>1, <1>14, FenceStays DEF DestroyContext
<1>36. CASE DestroyDevice
  BY <1>1, <1>36, FenceStays DEF DestroyDevice
<1>37. CASE DestroyInstance
  BY <1>1, <1>37, FenceStays DEF DestroyInstance
<1>15. CASE Submit
  BY <1>1, <1>15, FenceStays DEF Submit
<1>16. CASE Take
  BY <1>1, <1>16, FenceStays DEF Take
<1>17. CASE Refuse
  BY <1>1, <1>17, FenceStays DEF Refuse
<1>18. CASE Parse
  BY <1>1, <1>18, FenceStays DEF Parse
<1>19. CASE EnterContext
  BY <1>1, <1>19, FenceStays DEF EnterContext
<1>20. CASE DecodeFails
  BY <1>1, <1>20, FenceStays DEF DecodeFails
<1>21. CASE Recreate
  BY <1>1, <1>21, FenceStays DEF Recreate
<1>22. CASE FenceTimeout
  BY <1>1, <1>22, FenceStays DEF FenceTimeout
<1>23. CASE FenceLost
  BY <1>1, <1>23, FenceStays DEF FenceLost
<1>24. CASE GpuFails
  BY <1>1, <1>24, FenceStays DEF GpuFails, GpuHangs, GpuLost
<1>25. CASE Decode
  <2>1. \A b \in batches' : IsRender(b) => b \in batches
    BY <1>25 DEF Decode, SubmitDecode, IsRender
  <2>2. rt = "decode" /\ rt' \in {"recreate", "fence"} /\ UNCHANGED <<fence, acquired>>
    BY <1>25 DEF Decode
  <2>3. QED
    BY <1>1, <2>1, <2>2 DEF FenceGuards, IsRender, Started
<1>26. CASE FenceSignalled
  BY <1>1, <1>26 DEF FenceSignalled, FenceGuards, IsRender, Started
<1>27. CASE Acquire
  BY <1>1, <1>27 DEF Acquire, FenceGuards, IsRender, Started
<1>28. CASE AcquireOutOfDate
  BY <1>1, <1>28 DEF AcquireOutOfDate, FenceGuards, IsRender, Started
<1>29. CASE Draw
  <2>1. ~fence' /\ rt' = "idle" /\ \A b \in batches : ~IsRender(b)
    BY <1>1, <1>29 DEF Draw, FenceGuards
  <2>2. \A b \in batches' : IsRender(b) => b.state = "queued"
    BY <1>29, <2>1 DEF Draw, SubmitRender
  <2>3. QED
    BY <2>1, <2>2 DEF FenceGuards, IsRender, Started
<1>30. CASE DrawFails
  BY <1>1, <1>30 DEF DrawFails, FenceGuards, IsRender, Started
<1>31. CASE GpuStartsDecode
  <2>1. PICK b \in batches : b.job = "decode" /\ Become(b, "running")
    BY <1>31 DEF GpuStartsDecode, StartDecode
  <2>2. b \in Batch
    BY <1>1 DEF QueueInv, Types
  <2>3. \A e \in batches' : IsRender(e) => e \in batches
    <3>1. [b EXCEPT !.state = "running"].job = b.job
      BY <2>2, BecomeKeeps
    <3>2. QED
      BY <3>1, <2>1 DEF Become, IsRender
  <2>4. QED
    BY <1>1, <1>31, <2>3 DEF GpuStartsDecode, FenceGuards, IsRender, Started
<1>32. CASE GpuStartsRender
  <2>1. PICK b \in batches : b.job = "render"
    BY <1>32 DEF GpuStartsRender, StartRender
  <2>2. ~fence /\ ~acquired' /\ fence' = fence /\ rt' = rt
    BY <1>1, <1>32, <2>1 DEF GpuStartsRender, FenceGuards, IsRender
  <2>3. rt \notin {"acquire", "submit"}
    BY <1>1, <2>2 DEF FenceGuards
  <2>4. QED
    BY <2>2, <2>3 DEF FenceGuards, IsRender, Started
<1>33. CASE GpuEnds
  <2>1. PICK b \in batches : b.state = "running" /\ Become(b, "ran")
    BY <1>33 DEF GpuEnds, EndBatch
  <2>2. b \in Batch
    BY <1>1 DEF QueueInv, Types
  <2>3. \A e \in batches' : IsRender(e) => e \in batches \/ (IsRender(b) /\ Started(b))
    <3>1. [b EXCEPT !.state = "ran"].job = b.job
      BY <2>2, BecomeKeeps
    <3>2. QED
      BY <3>1, <2>1 DEF Become, IsRender, Started
  <2>4. UNCHANGED <<fence, acquired, rt>>
    BY <1>33 DEF GpuEnds
  <2>5. QED
    BY <1>1, <2>1, <2>3, <2>4 DEF FenceGuards, IsRender, Started
<1>34. CASE GpuSignals
  <2>1. PICK b \in batches : Signal(b) /\ fence' = (fence \/ b.job = "render")
    BY <1>34 DEF GpuSignals
  <2>2. rt' = rt /\ acquired' = acquired /\ b.state = "ran" /\ batches' = batches \ {b}
    BY <1>34, <2>1 DEF GpuSignals, Signal
  <2>3. CASE IsRender(b)
    <3>1. \A e \in batches' : ~IsRender(e)
      BY <1>1, <2>2, <2>3 DEF QueueInv, SignalsFollowOrder
    <3>2. ~acquired
      BY <1>1, <2>2, <2>3 DEF FenceGuards, Started
    <3>3. fence'
      BY <2>1, <2>3 DEF IsRender
    <3>4. rt # "submit"
      BY <1>1, <3>2 DEF FenceGuards
    <3>5. QED
      BY <2>2, <3>1, <3>2, <3>3, <3>4 DEF FenceGuards, IsRender, Started
  <2>4. CASE ~IsRender(b)
    <3>1. fence' <=> fence
      BY <2>1, <2>4 DEF IsRender
    <3>2. QED
      BY <1>1, <2>2, <3>1 DEF FenceGuards, IsRender, Started
  <2>5. QED
    BY <2>3, <2>4
<1>35. QED
  BY <1>2, <1>3, <1>4, <1>5, <1>6, <1>7, <1>8, <1>9, <1>10, <1>11, <1>12, <1>13,
     <1>14, <1>15, <1>16, <1>17, <1>18, <1>19, <1>20, <1>21, <1>22, <1>23, <1>24, <1>25,
     <1>26, <1>27, <1>28, <1>29, <1>30, <1>31, <1>32, <1>33, <1>34, <1>36, <1>37
     DEF Next, Starting, Stopping, RenderThread, Gpu

-----------------------------------------------------------------------------
(* who holds the renderer, and what there is *)

\* A stage is begun when those before it are done.
LEMMA StageOrder ==
    ASSUME NEW x, AtStage(x)
    PROVE  /\ core = "init" /\ x \notin made /\ x \in Things \ {"window", "thread"}
           /\ x # "instance" => "instance" \in made
           /\ x \notin {"instance", "surface"} => "surface" \in made
           /\ x \notin {"instance", "surface", "device"} => "device" \in made
           /\ x \in {"decoder", "sync", "planes", "pipeline", "swapchain"} => "pyrowave" \in made
           /\ x = "swapchain" => {"decoder", "sync", "planes", "pipeline"} \subseteq made
<1>1. PICK i \in 1 .. 9 : /\ Stages[i] = x /\ x \notin made
                          /\ \A j \in 1 .. i - 1 : Stages[j] \in made
  BY DEF AtStage, Stages
<1>2. /\ Stages[1] = "instance" /\ Stages[2] = "surface" /\ Stages[3] = "device"
      /\ Stages[4] = "pyrowave" /\ Stages[5] = "decoder" /\ Stages[6] = "sync"
      /\ Stages[7] = "planes" /\ Stages[8] = "pipeline" /\ Stages[9] = "swapchain"
  BY DEF Stages
<1>3. core = "init"
  BY DEF AtStage
<1>4. \/ i = 1 \/ i = 2 \/ i = 3 \/ i = 4 \/ i = 5 \/ i = 6 \/ i = 7 \/ i = 8 \/ i = 9
  OBVIOUS
<1>5. QED
  BY <1>1, <1>2, <1>3, <1>4, ThingsAre

\* Nothing of what there is after a Renderer without a device is torn down.
LEMMA NoDeviceLittle ==
    OrderKept /\ "device" \notin made => made \subseteq {"instance", "surface", "window"}
<1> SUFFICES ASSUME OrderKept, "device" \notin made, NEW t \in made
             PROVE  t \in {"instance", "surface", "window"}
  OBVIOUS
<1>1. t \in Things /\ Parents[t] \subseteq made /\ "pyrowave" \notin made
  BY ParentsAre DEF OrderKept
<1>2. QED
  BY <1>1, ThingsAre, ParentsAre

\* What goes next in shutdown() goes after what is made from it.
LEMMA GivenBackNext ==
    ASSUME NEW x, IsNext(x)
    PROVE  /\ x \in {"swapchain", "pipeline", "planes", "sync", "surface", "window"}
           /\ x = "surface" => "swapchain" \notin made
           /\ x = "window" =>
                 {"swapchain", "pipeline", "planes", "sync", "surface"} \cap made = {}
<1>1. PICK i \in 1 .. 6 : GivenBack[i] = x /\ \A j \in 1 .. i - 1 : GivenBack[j] \notin made
  BY DEF IsNext, GivenBack
<1>2. /\ GivenBack[1] = "swapchain" /\ GivenBack[2] = "pipeline" /\ GivenBack[3] = "planes"
      /\ GivenBack[4] = "sync" /\ GivenBack[5] = "surface" /\ GivenBack[6] = "window"
  BY DEF GivenBack
<1>3. i = 1 \/ i = 2 \/ i = 3 \/ i = 4 \/ i = 5 \/ i = 6
  OBVIOUS
<1>4. QED
  BY <1>1, <1>2, <1>3

Torn == LifeInStep /\ OrderKept

\* A step that changes nothing of this but the render thread, which is neither
\* ended nor without a renderer.
LEMMA TornStays ==
    /\ Torn /\ UNCHANGED <<made, core, holder, down>>
    /\ \/ rt' = rt
       \/ rt \notin {"none", "exited"} /\ rt' # "none"
    /\ batches # {} \/ batches' = {} \/ rt \notin {"none", "exited"}
    /\ gpu' = "lost" => batches' = {}
    => Torn'
  BY DEF Torn, LifeInStep, OrderKept, Before, After

LEMMA TornStep == IInv /\ [Next]_vars => Torn'
<1> SUFFICES ASSUME IInv, [Next]_vars PROVE Torn'
  OBVIOUS
<1> USE DEF deviceVars, gpuVars, lifeVars, mailVars, frameVars, syncVars
<1>1. Torn
  BY DEF IInv, Torn
<1>2. CASE UNCHANGED vars
  BY <1>1, <1>2 DEF vars, Torn, LifeInStep, OrderKept
<1>3. ASSUME NEW x \in Things, Make(x) PROVE Torn'
  <2>1. AtStage(x) /\ UNCHANGED <<batches, holder, down, gpu>>
    BY <1>3 DEF Make
  <2>2. /\ core = "init" /\ holder = "core" /\ down = "no" /\ "window" \in made /\ rt = "none"
        /\ {"swapchain", "thread"} \cap made = {} /\ batches = {}
    BY <1>1, <2>1, StageOrder DEF Torn, LifeInStep
  <2>3. CASE x = "swapchain"
    <3>1. made' = made \cup {"swapchain", "thread"} /\ rt' = "idle" /\ core' = "publish"
      BY <1>3, <2>3 DEF Make
    <3>2. made' = Things
      <4>1. {"instance", "surface", "device", "pyrowave", "decoder", "sync", "planes",
             "pipeline", "window"} \subseteq made
        BY <2>1, <2>2, <2>3, StageOrder
      <4>2. made \subseteq Things
        BY <1>1 DEF Torn, OrderKept
      <4>3. QED
        BY <3>1, <4>1, <4>2, ThingsAre
    <3>3. \A t \in Things : Parents[t] \subseteq Things
      BY ThingsAre, ParentsAre
    <3>4. LifeInStep'
      BY <2>1, <2>2, <3>1, <3>2 DEF LifeInStep, Before, After
    <3>5. OrderKept'
      BY <2>1, <2>2, <3>2, <3>3 DEF OrderKept
    <3>6. QED
      BY <3>4, <3>5 DEF Torn
  <2>4. CASE x # "swapchain"
    <3>1. made' = made \cup {x} /\ rt' = rt /\ core' = core
      BY <1>3, <2>4 DEF Make
    <3>2. x \in Things \ {"window", "thread", "swapchain"} /\ Parents[x] \subseteq made
      BY <2>1, <2>2, <2>4, StageOrder, ThingsAre, ParentsAre
    <3>3. LifeInStep'
      BY <2>1, <2>2, <3>1, <3>2 DEF LifeInStep, Before, After
    <3>4. OrderKept'
      BY <1>1, <2>1, <2>2, <3>1, <3>2 DEF Torn, OrderKept
    <3>5. QED
      BY <3>3, <3>4 DEF Torn
  <2>5. QED
    BY <2>3, <2>4
<1>4. ASSUME NEW x \in Things, MakeFails(x) PROVE Torn'
  <2>1. AtStage(x) /\ UNCHANGED <<batches, holder, gpu, rt>> /\ core' = "failed" /\ down' = "flag"
    BY <1>4 DEF MakeFails
  <2>2. /\ holder = "core" /\ down = "no" /\ rt = "none" /\ batches = {} /\ "thread" \notin made
    BY <1>1, <2>1, StageOrder DEF Torn, LifeInStep
  <2>3. x # "thread" /\ Parents[x] \subseteq made
    BY <1>1, <2>1, StageOrder, ThingsAre, ParentsAre DEF Torn, LifeInStep
  <2>4. made' = made \/ made' = made \cup {x}
    BY <1>4 DEF MakeFails
  <2>5. LifeInStep'
    BY <2>1, <2>2, <2>3, <2>4 DEF LifeInStep, Before, After
  <2>6. OrderKept'
    BY <1>1, <2>1, <2>2, <2>3, <2>4 DEF Torn, OrderKept
  <2>7. QED
    BY <2>5, <2>6 DEF Torn
<1>5. CASE Publish
  BY <1>1, <1>5 DEF Publish, Torn, LifeInStep, OrderKept, Before, After
<1>6. CASE CoreStops
  BY <1>1, <1>6 DEF CoreStops, TakenBy, Torn, LifeInStep, OrderKept, Before, After
<1>7. CASE CoreReturns
  BY <1>1, <1>7 DEF CoreReturns, Torn, LifeInStep, OrderKept, Before, After
<1>8. CASE SurfaceGoes
  BY <1>1, <1>8 DEF SurfaceGoes, TakenBy, Torn, LifeInStep, OrderKept, Before, After
<1>9. CASE UiReturns
  BY <1>1, <1>9 DEF UiReturns, Torn, LifeInStep, OrderKept, Before, After
<1>10. CASE Flag
  BY <1>1, <1>10 DEF Flag, Torn, LifeInStep, OrderKept, Before, After
<1>11. CASE Join
  <2>1. /\ down = "join"
        /\ "thread" \in made => rt = "exited"
        /\ UNCHANGED <<batches, gpu, core, holder, rt>>
    BY <1>11 DEF Join
  <2>2. /\ holder # "nobody" /\ holder # "global" /\ core \notin {"init", "publish"}
        /\ rt = "none" => batches = {} /\ "thread" \notin made
        /\ rt # "none" => made = Things
        /\ gpu = "lost" => batches = {}
    BY <1>1, <2>1 DEF Torn, LifeInStep, Before
  <2>3. rt # "none" => rt = "exited"
    BY <2>1, <2>2, ThingsAre
  <2>4. CASE "device" \in made
    <3>1. down' = "idle" /\ made' = made \ {"thread"}
      BY <1>11, <2>4 DEF Join
    <3>2. LifeInStep'
      BY <2>1, <2>2, <2>3, <3>1 DEF LifeInStep, Before, After
    <3>3. \A t \in Things : "thread" \notin Parents[t]
      BY ThingsAre, ParentsAre
    <3>4. OrderKept'
      BY <1>1, <2>1, <3>1, <3>3 DEF Torn, OrderKept
    <3>5. QED
      BY <3>2, <3>4 DEF Torn
  <2>5. CASE "device" \notin made
    <3>1. down' = "free" /\ made' = made \ {"thread"}
      BY <1>11, <2>5 DEF Join
    <3>2. "decoder" \notin made
      BY <1>1, <2>5, NoDeviceLittle DEF Torn
    <3>3. rt = "none" /\ batches = {}
      BY <2>5, <2>2, ThingsAre
    <3>4. LifeInStep'
      BY <2>1, <2>2, <2>3, <3>1, <3>3 DEF LifeInStep, Before, After
    <3>5. OrderKept'
      <4>1. \A t \in Things : "thread" \notin Parents[t]
        BY ThingsAre, ParentsAre
      <4>2. QED
        BY <1>1, <3>1, <3>2, <4>1 DEF Torn, OrderKept
    <3>6. QED
      BY <3>4, <3>5 DEF Torn
  <2>6. QED
    BY <2>4, <2>5
<1>12. CASE DeviceIdle
  <2>1. batches = {}
    BY <1>12, IdleMeansEmpty DEF DeviceIdle
  <2>2. QED
    BY <1>1, <1>12, <2>1 DEF DeviceIdle, Torn, LifeInStep, OrderKept, Before, After
<1>13. CASE DestroyDecoder
  <2>1. /\ down = "decoder" /\ down' = "free" /\ made' = made \ {"decoder"}
        /\ UNCHANGED <<batches, gpu, core, holder, rt>>
    BY <1>13 DEF DestroyDecoder
  <2>2. LifeInStep'
    BY <1>1, <2>1 DEF Torn, LifeInStep, Before, After
  <2>3. \A t \in Things : "decoder" \notin Parents[t]
    BY ThingsAre, ParentsAre
  <2>4. OrderKept'
    BY <1>1, <2>1, <2>3 DEF Torn, OrderKept
  <2>5. QED
    BY <2>2, <2>4 DEF Torn
<1>14. ASSUME NEW x \in Things, FreeObject(x) PROVE Torn'
  <2>1. /\ down = "free" /\ made' = made \ {x} /\ IsNext(x)
        /\ down' = IF x = "window" THEN "context" ELSE "free"
        /\ UNCHANGED <<batches, gpu, core, holder, rt>>
    BY <1>14 DEF FreeObject
  <2>2. "thread" \notin made /\ "decoder" \notin made
    BY <1>1, <2>1 DEF Torn, LifeInStep, OrderKept, Before
  <2>3. LifeInStep'
    BY <1>1, <2>1 DEF Torn, LifeInStep, Before, After
  <2>4. \A t \in made : x \notin Parents[t]
    BY <1>1, <2>1, <2>2, GivenBackNext, ThingsAre, ParentsAre DEF Torn, OrderKept
  <2>5. x = "window" => made' \subseteq {"pyrowave", "device", "instance"}
    BY <1>1, <2>1, <2>2, GivenBackNext, ThingsAre DEF Torn, OrderKept
  <2>6. OrderKept'
    BY <1>1, <2>1, <2>2, <2>4, <2>5 DEF Torn, OrderKept
  <2>7. QED
    BY <2>3, <2>6 DEF Torn
<1>15. CASE DestroyContext
  <2>1. /\ down = "context" /\ down' = "device" /\ made' = made \ {"pyrowave"}
        /\ UNCHANGED <<batches, gpu, core, holder, rt>>
    BY <1>15 DEF DestroyContext
  <2>2. LifeInStep'
    BY <1>1, <2>1 DEF Torn, LifeInStep, Before, After
  <2>3. made' \subseteq {"device", "instance"}
    BY <1>1, <2>1 DEF Torn, OrderKept
  <2>4. OrderKept'
    BY <1>1, <2>1, <2>3, ThingsAre, ParentsAre DEF Torn, OrderKept
  <2>5. QED
    BY <2>2, <2>4 DEF Torn
<1>24. CASE DestroyDevice
  <2>1. /\ down = "device" /\ down' = "instance" /\ made' = made \ {"device"}
        /\ UNCHANGED <<batches, gpu, core, holder, rt>>
    BY <1>24 DEF DestroyDevice
  <2>2. LifeInStep'
    BY <1>1, <2>1 DEF Torn, LifeInStep, Before, After
  <2>3. made' \subseteq {"instance"}
    BY <1>1, <2>1 DEF Torn, OrderKept
  <2>4. OrderKept'
    BY <1>1, <2>1, <2>3, ThingsAre, ParentsAre DEF Torn, OrderKept
  <2>5. QED
    BY <2>2, <2>4 DEF Torn
<1>25. CASE DestroyInstance
  <2>1. /\ down = "instance" /\ down' = "done" /\ holder' = "nobody" /\ made' = {}
        /\ UNCHANGED <<batches, gpu, core, rt>>
    BY <1>1, <1>25 DEF DestroyInstance, Torn, OrderKept
  <2>2. LifeInStep'
    BY <1>1, <2>1 DEF Torn, LifeInStep, Before, After
  <2>3. OrderKept'
    BY <2>1 DEF OrderKept
  <2>4. QED
    BY <2>2, <2>3 DEF Torn
<1>16. CASE Submit
  BY <1>1, <1>16, TornStays DEF Submit, Torn, LifeInStep
<1>17. CASE Take \/ Refuse \/ Parse \/ EnterContext \/ DecodeFails \/ Recreate
  BY <1>1, <1>17, TornStays DEF Take, Refuse, Parse, EnterContext, DecodeFails, Recreate,
     Torn, LifeInStep
<1>18. CASE FenceSignalled \/ FenceTimeout \/ FenceLost \/ Acquire \/ AcquireOutOfDate \/ DrawFails
  BY <1>1, <1>18, TornStays DEF FenceSignalled, FenceTimeout, FenceLost, Acquire,
     AcquireOutOfDate, DrawFails, Torn, LifeInStep
<1>19. CASE Decode
  <2>1. gpu' = "lost" => batches' = {}
    BY <1>1, <1>19 DEF Decode, SubmitDecode, Torn, LifeInStep
  <2>2. QED
    BY <1>1, <1>19, <2>1, TornStays DEF Decode
<1>20. CASE Draw
  BY <1>1, <1>20, TornStays DEF Draw, SubmitRender
<1>21. CASE Gpu
  <2>1. batches # {} /\ gpu = "ok" /\ UNCHANGED <<gpu, made, core, holder, down, rt>>
    BY <1>21 DEF Gpu, GpuStartsDecode, GpuStartsRender, GpuEnds, GpuSignals, StartDecode,
       StartRender, EndBatch, Signal
  <2>2. QED
    BY <1>1, <2>1, TornStays
<1>22. CASE GpuFails
  BY <1>1, <1>22, TornStays DEF GpuFails, GpuHangs, GpuLost, Idle
<1>23. QED
  BY <1>2, <1>3, <1>4, <1>5, <1>6, <1>7, <1>8, <1>9, <1>10, <1>11, <1>12, <1>13,
     <1>14, <1>15, <1>16, <1>17, <1>18, <1>19, <1>20, <1>21, <1>22, <1>24, <1>25
     DEF Next, Starting, Stopping, RenderThread

\* While a render is out, the framebuffers are those it draws on.
LEMMA DrawnStep == IInv /\ [Next]_vars => Drawn'
<1> SUFFICES ASSUME IInv, [Next]_vars PROVE Drawn'
  OBVIOUS
<1> USE DEF deviceVars, gpuVars, lifeVars, mailVars, frameVars, syncVars
<1>1. Drawn /\ Types /\ LifeInStep
  BY DEF IInv
<1>2. ASSUME batches' \subseteq batches, framebuffers' = framebuffers PROVE Drawn'
  BY <1>1, <1>2 DEF Drawn, IsRender
<1>3. ASSUME batches' = {} PROVE Drawn'
  BY <1>3 DEF Drawn
<1>4. CASE UNCHANGED vars
  BY <1>2, <1>4 DEF vars
<1>5. ASSUME NEW x \in Things, Make(x) \/ MakeFails(x) PROVE Drawn'
  BY <1>1, <1>3, <1>5, StageOrder DEF Make, MakeFails, LifeInStep
<1>6. CASE Publish \/ CoreStops \/ CoreReturns \/ SurfaceGoes \/ UiReturns
  BY <1>2, <1>6 DEF Publish, CoreStops, CoreReturns, SurfaceGoes, UiReturns
<1>7. CASE \/ Flag \/ Join \/ DeviceIdle \/ DestroyDecoder \/ DestroyContext \/ DestroyDevice
           \/ DestroyInstance
  BY <1>2, <1>7 DEF Flag, Join, DeviceIdle, DestroyDecoder, DestroyContext, DestroyDevice,
     DestroyInstance
<1>8. ASSUME NEW x \in Things, FreeObject(x) PROVE Drawn'
  BY <1>1, <1>3, <1>8 DEF FreeObject, LifeInStep, After
<1>9. CASE Submit \/ Take \/ Refuse \/ Parse \/ EnterContext \/ DecodeFails
  BY <1>2, <1>9 DEF Submit, Take, Refuse, Parse, EnterContext, DecodeFails
<1>10. CASE Decode
  <2>1. \A b \in batches' : IsRender(b) => b \in batches
    BY <1>10 DEF Decode, SubmitDecode, IsRender
  <2>2. framebuffers' = framebuffers
    BY <1>10 DEF Decode
  <2>3. QED
    BY <1>1, <2>1, <2>2 DEF Drawn, IsRender
<1>11. CASE Recreate
  BY <1>3, <1>11, IdleMeansEmpty DEF Recreate
<1>12. CASE FenceSignalled \/ FenceTimeout \/ FenceLost \/ Acquire \/ AcquireOutOfDate \/ DrawFails
  BY <1>2, <1>12 DEF FenceSignalled, FenceTimeout, FenceLost, Acquire, AcquireOutOfDate, DrawFails
<1>13. CASE Draw
  BY <1>1, <1>13 DEF Draw, SubmitRender, Drawn, IsRender
<1>14. ASSUME NEW b \in batches, NEW s \in {"queued", "running", "ran"}, Become(b, s),
              framebuffers' = framebuffers
       PROVE  Drawn'
  <2>1. b \in Batch
    BY <1>1 DEF Types
  <2>2. /\ [b EXCEPT !.state = s].job = b.job
        /\ [b EXCEPT !.state = s].framebuffer = b.framebuffer
    BY <2>1, BecomeKeeps
  <2>3. QED
    BY <1>1, <1>14, <2>2 DEF Drawn, IsRender, Become
<1>15. CASE GpuStartsDecode \/ GpuStartsRender \/ GpuEnds
  BY <1>14, <1>15 DEF GpuStartsDecode, GpuStartsRender, GpuEnds, StartDecode, StartRender, EndBatch
<1>16. CASE GpuSignals \/ GpuFails
  BY <1>2, <1>16 DEF GpuSignals, GpuFails, Signal, GpuHangs, GpuLost
<1>17. QED
  BY <1>4, <1>5, <1>6, <1>7, <1>8, <1>9, <1>10, <1>11, <1>12, <1>13, <1>15, <1>16
     DEF Next, Starting, Stopping, RenderThread, Gpu

-----------------------------------------------------------------------------
(* the theorems *)

LEMMA Invariance == Spec => []IInv
<1>1. IInv /\ [Next]_vars => IInv'
  <2>1. IInv /\ [Next]_vars =>
            QueueInv' /\ FenceGuards' /\ Torn' /\ Drawn' /\ AcquiredIsBoolean'
    BY QueueStep, FenceStep, TornStep, DrawnStep, AcquiredStep DEF IInv
  <2>2. QED
    BY <2>1 DEF IInv, QueueInv, Torn
<1>2. QED
  BY <1>1, InitHolds, PTL DEF Spec

\* While the GPU draws a frame, the planes hold that frame, whole, however
\* many frames are decoded and drawn behind one another.
THEOREM PlanesStay == Spec => []PlanesAreStable
<1>1. IInv => PlanesAreStable
  BY DEF IInv, PlanesAreStable, PlanesFollow, StartedInTurn, Started, Awaited, IsRender
<1>2. QED
  BY <1>1, Invariance, PTL

\* Whatever is destroyed, by a frame context that comes round, a new swapchain
\* or a stop, is in no use.
THEOREM NothingInUseGoes == Spec => []NothingInUseIsDestroyed
<1>1. IInv => NothingInUseIsDestroyed
  <2> SUFFICES ASSUME IInv PROVE NothingInUseIsDestroyed
    OBVIOUS
  <2>1. LifeInStep /\ ContextsCover /\ Drawn
    BY DEF IInv
  <2>2. batches # {} => {"planes", "sync", "device", "pyrowave", "pipeline"} \subseteq made
    BY <2>1, ThingsAre DEF LifeInStep, Before, After
  <2>3. rt \notin {"none", "exited"} => made = Things
    BY <2>1 DEF LifeInStep
  <2>4. QED
    BY <2>1, <2>2, <2>3 DEF NothingInUseIsDestroyed, ContextsCover, Drawn, IsDecode, IsRender
<1>2. QED
  BY <1>1, Invariance, PTL

\* The fence, the semaphore and the command buffer are never used again before
\* the last render is through with them.
THEOREM ReusedObjectsStayFree == Spec => []ReusedObjectsAreFree
<1>1. IInv => ReusedObjectsAreFree
  <2> SUFFICES ASSUME IInv, rt \in {"acquire", "submit"}
               PROVE  /\ \A b \in batches : b.job # "render"
                      /\ fence
                      /\ acquired = (rt = "submit")
    BY DEF ReusedObjectsAreFree
  <2>1. FenceGuards /\ acquired \in BOOLEAN
    BY DEF IInv, AcquiredIsBoolean
  <2>2. fence /\ \A b \in batches : b.job # "render"
    BY <2>1 DEF FenceGuards, IsRender
  <2>3. acquired <=> rt = "submit"
    BY <2>1, <2>2 DEF FenceGuards
  <2>4. acquired = (rt = "submit")
    BY <2>1, <2>3, Zenon
  <2>5. QED
    BY <2>2, <2>4
<1>2. QED
  BY <1>1, Invariance, PTL

\* What was made is given back in order, wherever initialize() failed and
\* whoever stopped the renderer.
THEOREM AllIsGivenBack == Spec => []GivenBackInOrder
<1>1. IInv => GivenBackInOrder
  BY DEF IInv, GivenBackInOrder, LifeInStep, OrderKept, After
<1>2. QED
  BY <1>1, Invariance, PTL

-----------------------------------------------------------------------------
(***************************************************************************)
(* PyroWaveFraming: the least of a set, the remainders that place the ends *)
(* of packets, the layout of a frame by each kind of host, and the walk.   *)
(***************************************************************************)

\* A set of naturals has a least element, and a bounded one a greatest.
LEMMA LeastIs ==
  ASSUME NEW S \in SUBSET Nat, S # {}
  PROVE  Min(S) \in S /\ \A x \in S : Min(S) <= x
<1> DEFINE Less == {p \in Nat \X Nat : p[1] < p[2]}
<1>1. IsWellFoundedOn(Less, Nat)
  BY NatLessThanWellFounded DEF OpToRel
<1>2. \A x, y \in Nat : y < x => <<y, x>> \in Less
  OBVIOUS
<1>3. \E x \in S : \A y \in S : <<y, x>> \notin Less
  <2> HIDE DEF Less
  <2> QED
    BY <1>1, WFMin, Zenon
<1>4. \E x \in S : \A y \in S : x <= y
  <2> HIDE DEF Less
  <2>1. PICK x \in S : \A y \in S : <<y, x>> \notin Less
    BY <1>3
  <2>2. \A y \in S : ~(y < x)
    BY <1>2, <2>1
  <2>3. \A y \in S : x <= y
    BY <2>2
  <2> QED
    BY <2>3
<1> QED
  BY <1>4 DEF Min

LEMMA GreatestIs ==
  ASSUME NEW n \in Nat, NEW S \in SUBSET (0 .. n), S # {}
  PROVE  Max(S) \in S /\ \A x \in S : Max(S) >= x
<1> DEFINE T == {n - x : x \in S}
<1>1. \A x \in S : x \in 0 .. n
  OBVIOUS
<1>2. \A y \in T : y \in Nat
  BY <1>1
<1>3. T # {}
  OBVIOUS
<1>4. Min(T) \in T /\ \A y \in T : Min(T) <= y
  <2> HIDE DEF T
  <2> QED
    BY <1>2, <1>3, LeastIs
<1>5. \E x \in S : \A y \in S : x >= y
  <2>1. PICK x \in S : Min(T) = n - x
    BY <1>4
  <2>2. \A y \in S : n - y \in T
    OBVIOUS
  <2>3. \A y \in S : n - x <= n - y
    BY <1>4, <2>1, <2>2
  <2>4. \A y \in S : x >= y
    BY <1>1, <2>3
  <2> QED
    BY <2>4
<1> QED
  BY <1>5 DEF Max
\* Remainders of a divisor that is not a number.
LEMMA Multiples ==
  ASSUME NEW w \in Nat, w > 0, NEW d \in Int, w * d < w, w * d >= 0
  PROVE  d = 0
<1>1. CASE d >= 1
  <2>1. w * d >= w * 1
    BY <1>1
  <2> QED
    BY <2>1
<1>2. CASE d <= -1
  <2>1. w * d <= w * (-1)
    BY <1>2
  <2> QED
    BY <2>1
<1> QED
  BY <1>1, <1>2

LEMMA Divides ==
  ASSUME NEW x \in Nat, NEW w \in Nat, w > 0
  PROVE  x = w * (x \div w) + (x % w) /\ x \div w \in Nat /\ x % w \in 0 .. w - 1
  OBVIOUS

LEMMA MultipleStays ==
  ASSUME NEW x \in Nat, NEW w \in Nat, w > 0, x % w = 0
  PROVE  (x + w) % w = 0
<1> DEFINE q == x \div w
           p == (x + w) \div w
           r == (x + w) % w
<1>1. x = w * q /\ q \in Nat
  BY Divides
<1>2. x + w = w * p + r /\ p \in Nat /\ r \in 0 .. w - 1
  BY Divides
<1> HIDE DEF q, p, r
<1> DEFINE d == q + 1 - p
<1>3. d \in Int
  BY <1>1, <1>2
<1>4. w * d = w * q + w - w * p
  BY <1>1, <1>2
<1>5. w * d = r
  BY <1>1, <1>2, <1>4
<1>6. d = 0
  <2> HIDE DEF d
  <2> QED
    BY <1>2, <1>3, <1>5, Multiples
<1> QED
  BY <1>5, <1>6 DEF r

LEMMA RemainderIs ==
  ASSUME NEW x \in Nat, NEW w \in Nat, w > 0, x < w
  PROVE  x % w = x
  OBVIOUS

-----------------------------------------------------------------------------
(* the layout of a frame *)

Kinds == {"count", "length", "sequence", "coarse", "fine", "padding"}
Payload == {"sequence", "coarse", "fine"}
Record == [kind : Kinds, from : Nat, to : Nat]
Rec(kind, from, to) == [kind |-> kind, from |-> from, to |-> to]
Begins(R, s) == \E r \in R : r.from = s

\* Records lie end to end.
Tiled(R, n) ==
    /\ n \in Nat /\ R \subseteq Record /\ IsFiniteSet(R)
    /\ Begins(R, 0)
    /\ \A r \in R : r.from < r.to /\ r.to <= n
    /\ \A r \in R : r.to = n \/ Begins(R, r.to)
    /\ \A r, q \in R : r = q \/ r.to <= q.from \/ q.to <= r.from

Ranked(R) ==
    /\ \A r \in R : r.kind = "sequence" => r.to = r.from + HeaderWords
    /\ \A r \in R : r.kind \in {"coarse", "fine"} => r.from + HeaderWords <= r.to
    /\ \A r, q \in R : r.kind = "fine" /\ q.kind = "coarse" => q.to <= r.from

\* There is room in the last packet.
StartsFit(n, S) ==
    /\ S \subseteq 0 .. n - 1 /\ 0 \in S
    /\ n <= Max(S) + Capacity(Max(S))

OrdinaryFine(r) == r.kind = "fine" /\ ~Oversized(r.to - r.from)

Packed(R, S) ==
    /\ S = {0} \/ \E t \in S : 0 < t /\ t <= Capacity(0)
    /\ \A r \in R, s \in S : OrdinaryFine(r) /\ r.from < s => Begins(R, s)

Plain(R, S) ==
    /\ \A r \in R : r.kind \in Payload \cup {"padding"}
    /\ \A s \in S : \E r \in R : r.kind \in Payload /\ r.from <= s /\ s < r.to

Prefixed(R) ==
    /\ \A r \in R : r.kind # "padding"
    /\ \A r \in R : r.kind = "count" => r.from = 0
    /\ \E r \in R : r.kind = "length" /\ r.from = 1
    /\ \A r \in R : r.kind = "length" =>
          r.from >= 1 /\ \E q \in R : q.from = r.to /\ q.kind # "length"
    /\ \A r \in R : r.kind \in {"coarse", "fine"} => r.from > 1

Layout(h, R, n, S) ==
    /\ h \in Hosts
    /\ Tiled(R, n) /\ Ranked(R) /\ StartsFit(n, S)
    /\ h = "packed" => Packed(R, S)
    /\ h # "prefixed" => Plain(R, S)
    /\ h = "prefixed" => Prefixed(R)

LEMMA RecIs ==
  ASSUME NEW k \in Kinds, NEW a \in Nat, NEW b \in Nat
  PROVE  /\ Rec(k, a, b) \in Record
         /\ Rec(k, a, b).kind = k /\ Rec(k, a, b).from = a /\ Rec(k, a, b).to = b
  BY DEF Rec, Record

LEMMA AppendTiled ==
  ASSUME NEW R, NEW n, Tiled(R, n), NEW k \in Kinds, NEW m \in Nat, n < m
  PROVE  Tiled(R \cup {Rec(k, n, m)}, m)
<1> DEFINE e == Rec(k, n, m)
<1>1. n \in Nat
  BY DEF Tiled
<1>2. e \in Record /\ e.from = n /\ e.to = m
  BY <1>1, RecIs
<1> HIDE DEF e
<1>3. IsFiniteSet(R \cup {e})
  BY FS_AddElement DEF Tiled
<1>4. R \cup {e} \subseteq Record /\ Begins(R \cup {e}, 0)
  BY <1>2 DEF Tiled, Begins
<1>5. \A r \in R : r.from \in Nat /\ r.to \in Nat /\ r.from < r.to /\ r.to <= n
  BY DEF Tiled, Record
<1>6. \A r \in R \cup {e} : r.from < r.to /\ r.to <= m
  BY <1>1, <1>2, <1>5
<1>7. \A r \in R \cup {e} : r.to = m \/ Begins(R \cup {e}, r.to)
  <2>1. \A r \in R : r.to = n \/ Begins(R, r.to)
    BY DEF Tiled
  <2> QED
    BY <1>2, <2>1 DEF Begins
<1>8. \A r, q \in R \cup {e} : r = q \/ r.to <= q.from \/ q.to <= r.from
  <2>1. \A r, q \in R : r = q \/ r.to <= q.from \/ q.to <= r.from
    BY DEF Tiled
  <2> QED
    BY <1>2, <1>5, <2>1
<1> QED
  BY <1>3, <1>4, <1>6, <1>7, <1>8 DEF Tiled, e

LEMMA AppendRanked ==
  ASSUME NEW R, NEW n, Tiled(R, n), Ranked(R), NEW k \in Kinds, NEW m \in Nat, n < m,
         k # "sequence", k \in {"coarse", "fine"} => n + HeaderWords <= m,
         k = "coarse" => \A r \in R : r.kind # "fine"
  PROVE  Ranked(R \cup {Rec(k, n, m)})
<1> DEFINE e == Rec(k, n, m)
<1>1. n \in Nat
  BY DEF Tiled
<1>2. e.kind = k /\ e.from = n /\ e.to = m
  BY <1>1, RecIs
<1> HIDE DEF e
<1>3. \A r \in R : r.to <= n /\ r.from \in Nat /\ r.to \in Nat
  BY DEF Tiled, Record
<1>4. \A r \in R \cup {e} : r.kind = "sequence" => r.to = r.from + HeaderWords
  BY <1>2 DEF Ranked
<1>5. \A r \in R \cup {e} : r.kind \in {"coarse", "fine"} => r.from + HeaderWords <= r.to
  BY <1>2 DEF Ranked
<1>6. \A r, q \in R \cup {e} : r.kind = "fine" /\ q.kind = "coarse" => q.to <= r.from
  <2>1. \A r, q \in R : r.kind = "fine" /\ q.kind = "coarse" => q.to <= r.from
    BY DEF Ranked
  <2> QED
    BY <1>2, <1>3, <2>1
<1> QED
  BY <1>4, <1>5, <1>6 DEF Ranked, e

LEMMA CapacityIs ==
  ASSUME NEW s \in Nat
  PROVE  /\ Capacity(s) \in Nat /\ Capacity(s) <= PacketWords /\ Capacity(s) > HeaderWords
         /\ s > 0 => Capacity(s) = PacketWords
  BY FramingAssumption DEF Capacity, HeaderWords

LEMMA LastIs ==
  ASSUME NEW n \in Nat, NEW S, StartsFit(n, S)
  PROVE  Max(S) \in S /\ Max(S) \in Nat /\ \A s \in S : s \in Nat /\ s <= Max(S)
<1>1. S \in SUBSET (0 .. n) /\ S # {}
  BY DEF StartsFit
<1>2. \A s \in S : s \in Nat
  BY DEF StartsFit
<1>3. Max(S) \in S /\ \A s \in S : Max(S) >= s
  <2> QED
    BY <1>1, GreatestIs
<1> QED
  BY <1>2, <1>3

\* Where packets end in a record put at n.
LEMMA CutsAre ==
  ASSUME NEW s \in Nat, NEW n \in Nat, NEW m \in Nat, n < m, n <= s + Capacity(s)
  PROVE  /\ Cuts(s, n, m) \subseteq n .. m - 1
         /\ \A c \in Cuts(s, n, m) : c >= s + Capacity(s)
         /\ m <= s + Capacity(s) => Cuts(s, n, m) = {}
         /\ m > s + Capacity(s) => s + Capacity(s) \in Cuts(s, n, m)
<1> DEFINE full == s + Capacity(s)
<1>1. full \in Nat
  BY CapacityIs
<1>2. Cuts(s, n, m) = {c \in n .. m - 1 : c >= full /\ (c - full) % PacketWords = 0}
  BY DEF Cuts
<1> HIDE DEF full
<1>3. (full - full) % PacketWords = 0
  BY <1>1, FramingAssumption DEF HeaderWords
<1>4. m <= full => Cuts(s, n, m) = {}
  BY <1>1, <1>2
<1>5. n <= full
  BY DEF full
<1>6. m > full => full \in Cuts(s, n, m)
  BY <1>1, <1>2, <1>3, <1>5
<1> QED
  BY <1>1, <1>2, <1>4, <1>6 DEF full

\* The last of the packets has room again.
LEMMA LastCut ==
  ASSUME NEW s \in Nat, NEW n \in Nat, NEW m \in Nat, n < m, n <= s + Capacity(s),
         m > s + Capacity(s)
  PROVE  \E c \in Cuts(s, n, m) : m <= c + PacketWords
<1> DEFINE full == s + Capacity(s)
           C == Cuts(s, n, m)
<1>1. C \subseteq n .. m - 1 /\ full \in C
  BY CutsAre
<1>2. C = {c \in n .. m - 1 : c >= full /\ (c - full) % PacketWords = 0}
  BY DEF Cuts
<1>3. full \in Nat
  BY CapacityIs
<1> HIDE DEF C, full
<1>4. C \in SUBSET (0 .. m) /\ C # {}
  BY <1>1
<1>5. Max(C) \in C /\ \A c \in C : Max(C) >= c
  BY <1>4, GreatestIs
<1> DEFINE c == Max(C)
<1>6. c \in C /\ \A d \in C : c >= d
  BY <1>5
<1> HIDE DEF c
<1>7. c \in Nat /\ c >= full /\ (c - full) % PacketWords = 0
  BY <1>2, <1>6
<1>8. ((c + PacketWords) - full) % PacketWords = 0
  <2>1. PacketWords \in Nat /\ PacketWords > 0
    BY FramingAssumption DEF HeaderWords
  <2>2. c - full \in Nat /\ (c + PacketWords) - full = (c - full) + PacketWords
    BY <1>3, <1>7, <2>1
  <2>3. ((c - full) + PacketWords) % PacketWords = 0
    BY <1>7, <2>1, <2>2, MultipleStays
  <2> QED
    BY <2>2, <2>3
<1>9. m <= c + PacketWords
  <2>1. PacketWords \in Nat /\ PacketWords > 0
    BY FramingAssumption DEF HeaderWords
  <2>2. SUFFICES ASSUME c + PacketWords <= m - 1 PROVE FALSE
    BY <1>7, <2>1
  <2>3. c + PacketWords \in C
    BY <1>1, <1>2, <1>3, <1>6, <1>7, <1>8, <2>1, <2>2
  <2> QED
    BY <1>6, <1>7, <2>1, <2>3
<1> QED
  BY <1>6, <1>9 DEF C

LEMMA StartedAfter ==
  ASSUME NEW n \in Nat, NEW S, StartsFit(n, S), NEW m \in Nat, n < m
  PROVE  StartsFit(m, S \cup Cuts(Max(S), n, m))
<1> DEFINE s == Max(S)
           C == Cuts(s, n, m)
           T == S \cup C
<1>1. s \in S /\ s \in Nat /\ n <= s + Capacity(s) /\ Capacity(s) \in Nat
  BY LastIs, CapacityIs DEF StartsFit
<1>2. C \subseteq n .. m - 1 /\ (m <= s + Capacity(s) => C = {})
  BY <1>1, CutsAre
<1>3. T \subseteq 0 .. m - 1 /\ 0 \in T
  <2>1. S \subseteq 0 .. n - 1 /\ 0 \in S
    BY DEF StartsFit
  <2> HIDE DEF C
  <2> QED
    BY <1>2, <2>1
<1>4. m <= Max(T) + Capacity(Max(T))
  <2> HIDE DEF C, s
  <2>1. CASE m <= s + Capacity(s)
    <3>1. T = S
      BY <1>2, <2>1
    <3> QED
      BY <2>1, <3>1 DEF s
  <2>2. CASE m > s + Capacity(s)
    <3>2. PICK c \in C : m <= c + PacketWords
      BY <1>1, <2>2, LastCut DEF C
    <3>3. c \in Nat /\ c >= s + Capacity(s)
      BY <1>1, <1>2, CutsAre DEF C
    <3>4. c > 0
      BY <1>1, <3>3, CapacityIs DEF HeaderWords
    <3>5. Max(T) \in T /\ \A x \in T : Max(T) >= x
      <4> HIDE DEF T
      <4>1. T \in SUBSET (0 .. m) /\ T # {}
        BY <1>3
      <4> QED
        BY <4>1, GreatestIs
    <3>6. Max(T) \in Nat /\ Max(T) >= c
      BY <1>3, <3>5
    <3>7. Capacity(Max(T)) = PacketWords
      BY <3>3, <3>4, <3>6, CapacityIs
    <3> QED
      BY <3>2, <3>3, <3>6, <3>7, FramingAssumption
  <2> QED
    BY <1>1, <2>1, <2>2
<1> QED
  BY <1>3, <1>4 DEF StartsFit

\* The first packet is full, or ends where a padded packet ends.
FirstCut(S) == S = {0} \/ \E t \in S : 0 < t /\ t <= Capacity(0)

LEMMA FirstCutAfter ==
  ASSUME NEW n \in Nat, NEW S, StartsFit(n, S), FirstCut(S), NEW m \in Nat, n < m
  PROVE  FirstCut(S \cup Cuts(Max(S), n, m))
<1>1. CASE \E t \in S : 0 < t /\ t <= Capacity(0)
  BY <1>1 DEF FirstCut
<1>2. CASE S = {0}
  <2> DEFINE C == Cuts(0, n, m)
  <2>1. Max(S) = 0
    BY <1>2, LastIs
  <2>2. n <= Capacity(0) /\ Capacity(0) \in Nat /\ Capacity(0) > 0
    BY <2>1, CapacityIs DEF StartsFit, HeaderWords
  <2>3. m <= Capacity(0) => C = {}
    BY <2>2, CutsAre
  <2>4. m > Capacity(0) => Capacity(0) \in C
    BY <2>2, CutsAre
  <2> HIDE DEF C
  <2>5. CASE m <= Capacity(0)
    <3>1. S \cup C = {0}
      BY <1>2, <2>3, <2>5
    <3> QED
      BY <2>1, <3>1 DEF FirstCut, C
  <2>6. CASE m > Capacity(0)
    BY <2>1, <2>2, <2>4, <2>6 DEF FirstCut, C
  <2> QED
    BY <2>2, <2>5, <2>6
<1> QED
  BY <1>1, <1>2 DEF FirstCut

Inside(R, s) == \E r \in R : r.kind \in Payload /\ r.from <= s /\ s < r.to

LEMMA AppendPrefixed ==
  ASSUME NEW R, NEW n, Tiled(R, n), Prefixed(R), NEW k \in {"coarse", "fine"},
         NEW m \in Nat, n < m
  PROVE  Prefixed(R \cup {Rec(k, n, m)})
<1> DEFINE e == Rec(k, n, m)
<1>1. e.kind = k /\ e.from = n /\ n \in Nat
  BY RecIs DEF Kinds, Tiled
<1>2. n > 1
  <2>1. PICK r \in R : r.kind = "length" /\ r.from = 1
    BY DEF Prefixed
  <2> QED
    BY <2>1 DEF Tiled, Record
<1> HIDE DEF e
<1> QED
  BY <1>1, <1>2 DEF Prefixed, e

\* A record put after the last one.
LEMMA AfterKeeps ==
  ASSUME NEW h, NEW R, NEW n, NEW S, Layout(h, R, n, S),
         NEW k \in {"coarse", "fine"}, NEW l \in Nat, l >= HeaderWords,
         k = "coarse" => \A r \in R : r.kind # "fine",
         h = "packed" => \/ Cuts(Max(S), n, n + l) \subseteq {n}
                         \/ /\ ~OrdinaryFine(Rec(k, n, n + l))
                            /\ \A r \in R : ~OrdinaryFine(r)
  PROVE  Layout(h, R \cup {Rec(k, n, n + l)}, n + l, S \cup Cuts(Max(S), n, n + l))
<1> DEFINE m == n + l
           e == Rec(k, n, m)
           C == Cuts(Max(S), n, m)
<1>1. n \in Nat /\ m \in Nat /\ n < m /\ k \in Kinds
  BY DEF Layout, Tiled, HeaderWords, Kinds
<1>2. e.kind = k /\ e.from = n /\ e.to = m
  BY <1>1, RecIs
<1>3. C \subseteq n .. m - 1
  BY <1>1, LastIs, CutsAre DEF Layout, StartsFit
<1>4. \A s \in S : s \in Nat /\ s < n
  BY <1>1 DEF Layout, StartsFit
<1> HIDE DEF e, C, m
<1>5. Tiled(R \cup {e}, m)
  BY <1>1, AppendTiled DEF Layout, e
<1>6. Ranked(R \cup {e})
  <2>1. n + HeaderWords <= m
    BY <1>1 DEF m, HeaderWords
  <2> QED
    BY <1>1, <2>1, AppendRanked DEF Layout, e
<1>7. StartsFit(m, S \cup C)
  BY <1>1, StartedAfter DEF Layout, C
<1>8. h = "packed" => Packed(R \cup {e}, S \cup C)
  <2> SUFFICES ASSUME h = "packed" PROVE Packed(R \cup {e}, S \cup C)
    OBVIOUS
  <2>1. FirstCut(S \cup C)
    BY <1>1, FirstCutAfter DEF Layout, Packed, FirstCut, C
  <2>2. ASSUME NEW r \in R \cup {e}, NEW s \in S \cup C, OrdinaryFine(r), r.from < s
        PROVE  Begins(R \cup {e}, s)
    <3>1. CASE C \subseteq {n}
      <4>1. CASE s = n
        BY <1>2, <4>1 DEF Begins
      <4>2. CASE s \in S /\ r \in R
        BY <2>2, <4>2 DEF Layout, Packed, Begins
      <4>3. CASE s \in S /\ r = e
        BY <1>2, <1>4, <1>1, <2>2, <4>3
      <4> QED
        BY <3>1, <4>1, <4>2, <4>3
    <3>2. CASE ~OrdinaryFine(e) /\ \A q \in R : ~OrdinaryFine(q)
      BY <2>2, <3>2
    <3> QED
      BY <3>1, <3>2 DEF C, e, m
  <2> QED
    BY <2>1, <2>2 DEF Packed, FirstCut
<1>9. h # "prefixed" => Plain(R \cup {e}, S \cup C)
  <2>1. k \in Payload
    BY DEF Payload
  <2>2. \A s \in C : n <= s /\ s < m
    BY <1>1, <1>3
  <2> QED
    BY <1>2, <2>1, <2>2 DEF Layout, Plain
<1>10. h = "prefixed" => Prefixed(R \cup {e})
  BY <1>1, AppendPrefixed DEF Layout, e
<1> QED
  BY <1>5, <1>6, <1>7, <1>8, <1>9, <1>10 DEF Layout, e, C, m

RoomIn(n, S) == (Max(S) + Capacity(Max(S))) - n

\* A record that fits, or that begins a packet, is cut nowhere but at its start.
LEMMA NoCutInside ==
  ASSUME NEW n \in Nat, NEW S, StartsFit(n, S), NEW l \in Nat, 0 < l, ~Oversized(l),
         l <= RoomIn(n, S) \/ RoomIn(n, S) = 0
  PROVE  Cuts(Max(S), n, n + l) \subseteq {n}
<1> DEFINE s == Max(S)
           full == s + Capacity(s)
<1>1. s \in Nat /\ Capacity(s) \in Nat /\ n <= full
  BY LastIs, CapacityIs DEF StartsFit
<1>2. l < PacketWords /\ PacketWords \in Nat
  BY FramingAssumption DEF Oversized, HeaderWords
<1>3. n + l <= full \/ n = full
  BY <1>1 DEF RoomIn
<1>4. CASE n + l <= full
  <2> HIDE DEF s
  <2>1. Cuts(s, n, n + l) = {}
    BY <1>1, <1>4, CutsAre
  <2> QED
    BY <2>1 DEF s
<1>5. CASE n = full
  <2>1. ASSUME NEW c \in Cuts(s, n, n + l) PROVE c = n
    <3>1. c \in n .. n + l - 1 /\ (c - full) % PacketWords = 0
      BY <2>1 DEF Cuts
    <3> HIDE DEF full
    <3>2. c - full \in Nat /\ c - full < PacketWords
      BY <1>2, <1>5, <3>1
    <3>3. (c - full) % PacketWords = c - full
      BY <1>2, <3>2, RemainderIs
    <3> QED
      BY <1>5, <3>1, <3>3
  <2> QED
    BY <2>1
<1> QED
  BY <1>3, <1>4, <1>5

\* A record that begins the next packet.
LEMMA NewPacketKeeps ==
  ASSUME NEW h \in {"packed", "flagged"}, h \in Hosts, NEW R, NEW n, NEW S0, NEW n0 \in Nat,
         Tiled(R, n), Ranked(R), Plain(R, S0), h = "packed" => Packed(R, S0), StartsFit(n0, S0),
         n0 <= n, n <= Max(S0) + Capacity(Max(S0)),
         NEW k \in {"coarse", "fine"}, NEW l \in Nat, l >= HeaderWords, ~Oversized(l),
         k = "coarse" => \A r \in R : r.kind # "fine"
  PROVE  Layout(h, R \cup {Rec(k, n, n + l)}, n + l, S0 \cup {n})
<1> DEFINE m == n + l
           e == Rec(k, n, m)
           T == S0 \cup {n}
<1>1. n \in Nat /\ m \in Nat /\ n < m /\ k \in Kinds
  BY DEF Tiled, HeaderWords, Kinds
<1>2. e.kind = k /\ e.from = n /\ e.to = m
  BY <1>1, RecIs
<1>3. S0 \subseteq 0 .. n0 - 1 /\ 0 \in S0 /\ n > 0
  BY <1>1 DEF StartsFit
<1> HIDE DEF e
<1>4. Tiled(R \cup {e}, m)
  BY <1>1, AppendTiled DEF e
<1>5. Ranked(R \cup {e})
  <2>1. n + HeaderWords <= m
    BY <1>1 DEF HeaderWords
  <2> QED
    BY <1>1, <2>1, AppendRanked DEF e
<1>6. StartsFit(m, T)
  <2>1. T \in SUBSET (0 .. m) /\ T # {} /\ \A t \in T : t <= n
    BY <1>1, <1>3
  <2>2. Max(T) = n
    <3> HIDE DEF T
    <3>1. Max(T) \in T /\ \A x \in T : Max(T) >= x
      BY <1>1, <2>1, GreatestIs
    <3>2. n \in T /\ \A x \in T : x \in Nat
      BY <2>1, <1>1 DEF T
    <3>3. Max(T) \in Nat /\ Max(T) <= n
      BY <2>1, <3>1, <3>2
    <3>4. Max(T) >= n
      BY <3>1, <3>2
    <3> QED
      BY <1>1, <3>3, <3>4
  <2>3. m <= n + Capacity(n)
    <3>1. Capacity(n) = PacketWords
      BY <1>1, <1>3, CapacityIs
    <3> QED
      BY <1>1, <3>1, FramingAssumption DEF Oversized, HeaderWords
  <2>4. T \subseteq 0 .. m - 1 /\ 0 \in T
    BY <1>1, <1>3
  <2> QED
    BY <2>2, <2>3, <2>4 DEF StartsFit
<1>7. h = "packed" => Packed(R \cup {e}, T)
  <2> SUFFICES ASSUME h = "packed" PROVE Packed(R \cup {e}, T)
    OBVIOUS
  <2>1. FirstCut(T)
    <3>1. CASE \E t \in S0 : 0 < t /\ t <= Capacity(0)
      BY <3>1 DEF FirstCut
    <3>2. CASE S0 = {0}
      <4>1. Max(S0) = 0
        BY <3>2, LastIs
      <4>2. 0 < n /\ n <= Capacity(0)
        BY <1>1, <1>3, <4>1, CapacityIs
      <4> QED
        BY <4>2 DEF FirstCut
    <3> QED
      BY <3>1, <3>2 DEF Packed
  <2>2. ASSUME NEW r \in R \cup {e}, NEW s \in T, OrdinaryFine(r), r.from < s
        PROVE  Begins(R \cup {e}, s)
    <3>1. CASE s = n
      BY <1>2, <3>1 DEF Begins
    <3>2. CASE s \in S0 /\ r \in R
      BY <2>2, <3>2 DEF Packed, Begins
    <3>3. CASE s \in S0 /\ r = e
      BY <1>1, <1>2, <1>3, <2>2, <3>3
    <3> QED
      BY <3>1, <3>2, <3>3
  <2> QED
    BY <2>1, <2>2 DEF Packed, FirstCut
<1>8. Plain(R \cup {e}, T)
  <2>1. k \in Payload
    BY DEF Payload
  <2> QED
    BY <1>1, <1>2, <2>1 DEF Plain
<1> QED
  BY <1>4, <1>5, <1>6, <1>7, <1>8 DEF Layout, e

\* Padding fills the packet before.
LEMMA PaddedKeeps ==
  ASSUME NEW h \in {"packed", "flagged"},
         NEW R, NEW n, NEW S, Layout(h, R, n, S), RoomIn(n, S) >= HeaderWords,
         NEW k \in {"coarse", "fine"}, NEW l \in Nat, l >= HeaderWords, ~Oversized(l),
         k = "coarse" => \A r \in R : r.kind # "fine"
  PROVE  Layout(h,
                (R \cup {Rec("padding", n, n + RoomIn(n, S))})
                   \cup {Rec(k, n + RoomIn(n, S), (n + RoomIn(n, S)) + l)},
                (n + RoomIn(n, S)) + l, S \cup {n + RoomIn(n, S)})
<1> DEFINE m == n + RoomIn(n, S)
           e == Rec("padding", n, m)
           Q == R \cup {e}
<1>1. n \in Nat /\ "padding" \in Kinds
  BY DEF Layout, Tiled, Kinds
<1>2. Max(S) \in Nat /\ Capacity(Max(S)) \in Nat
  BY <1>1, LastIs, CapacityIs DEF Layout
<1>3. m \in Nat /\ n < m /\ m = Max(S) + Capacity(Max(S))
  BY <1>1, <1>2 DEF RoomIn, HeaderWords
<1>4. e.kind = "padding" /\ e.from = n /\ e.to = m
  BY <1>1, <1>3, RecIs
<1> HIDE DEF e, m
<1>5. Tiled(Q, m)
  BY <1>1, <1>3, AppendTiled DEF Layout, e
<1>6. Ranked(Q)
  BY <1>1, <1>3, AppendRanked DEF Layout, e
<1>7. h = "packed" => Packed(Q, S)
  BY <1>4 DEF Layout, Packed, OrdinaryFine, Begins
<1>8. Plain(Q, S)
  BY <1>4 DEF Layout, Plain
<1>9. k = "coarse" => \A r \in Q : r.kind # "fine"
  BY <1>4
<1>10. StartsFit(n, S) /\ h \in Hosts
  BY DEF Layout
<1> HIDE DEF Q
<1>11. n <= m
  BY <1>1, <1>3
<1>12. m <= Max(S) + Capacity(Max(S))
  BY <1>2, <1>3
<1> QED
  BY <1>1, <1>5, <1>6, <1>7, <1>8, <1>9, <1>10, <1>11, <1>12, NewPacketKeeps DEF Q, e, m

\* A length before the record.
LEMMA LengthKeeps ==
  ASSUME NEW R, NEW n, NEW S, Layout("prefixed", R, n, S),
         NEW k \in {"coarse", "fine"}, NEW l \in Nat, l >= HeaderWords,
         k = "coarse" => \A r \in R : r.kind # "fine"
  PROVE  Layout("prefixed",
                (R \cup {Rec("length", n, n + 1)}) \cup {Rec(k, n + 1, (n + 1) + l)},
                (n + 1) + l, S \cup Cuts(Max(S), n, (n + 1) + l))
<1> DEFINE m == n + 1
           e == Rec("length", n, m)
           Q == R \cup {e}
           t == m + l
           f == Rec(k, m, t)
<1>1. n \in Nat /\ m \in Nat /\ n < m /\ "length" \in Kinds /\ k \in Kinds /\ t \in Nat /\ m < t
  BY DEF Layout, Tiled, Kinds, HeaderWords
<1>2. e.kind = "length" /\ e.from = n /\ e.to = m
  BY <1>1, RecIs
<1>3. f.kind = k /\ f.from = m /\ f.to = t
  BY <1>1, RecIs
<1>4. n > 1
  <2>1. PICK r \in R : r.kind = "length" /\ r.from = 1
    BY DEF Layout, Prefixed
  <2> QED
    BY <2>1 DEF Layout, Tiled, Record
<1>5. m + HeaderWords <= t
  BY <1>1 DEF HeaderWords
<1> HIDE DEF e, f, m, t
<1>6. Tiled(Q, m) /\ Ranked(Q)
  BY <1>1, AppendTiled, AppendRanked DEF Layout, e
<1>7. k = "coarse" => \A r \in Q : r.kind # "fine"
  BY <1>2
<1>8. Tiled(Q \cup {f}, t) /\ Ranked(Q \cup {f})
  <2> HIDE DEF Q
  <2> QED
    BY <1>1, <1>5, <1>6, <1>7, AppendTiled, AppendRanked DEF f
<1>9. StartsFit(t, S \cup Cuts(Max(S), n, t))
  <2>1. n < t
    BY <1>1
  <2> QED
    BY <1>1, <2>1, StartedAfter DEF Layout
<1>10. Prefixed(Q \cup {f})
  <2>1. k # "length" /\ k # "padding" /\ k # "count"
    OBVIOUS
  <2>2. m > 1
    BY <1>1, <1>4
  <2>3. \A r \in Q \cup {f} : r.kind # "padding"
    BY <1>2, <1>3, <2>1 DEF Layout, Prefixed
  <2>4. \A r \in Q \cup {f} : r.kind = "count" => r.from = 0
    BY <1>2, <1>3, <2>1 DEF Layout, Prefixed
  <2>5. \E r \in Q \cup {f} : r.kind = "length" /\ r.from = 1
    BY DEF Layout, Prefixed
  <2>6. \A r \in Q \cup {f} : r.kind = "length" =>
           r.from >= 1 /\ \E q \in Q \cup {f} : q.from = r.to /\ q.kind # "length"
    <3>1. \A r \in R : r.kind = "length" =>
             r.from >= 1 /\ \E q \in R : q.from = r.to /\ q.kind # "length"
      BY DEF Layout, Prefixed
    <3> QED
      BY <1>1, <1>2, <1>3, <1>4, <2>1, <3>1
  <2>7. \A r \in Q \cup {f} : r.kind \in {"coarse", "fine"} => r.from > 1
    BY <1>2, <1>3, <2>1, <2>2 DEF Layout, Prefixed
  <2> QED
    BY <2>3, <2>4, <2>5, <2>6, <2>7 DEF Prefixed
<1> QED
  BY <1>8, <1>9, <1>10 DEF Layout, e, f, m, t

-----------------------------------------------------------------------------
(* the inductive invariant of the framing *)

Packet == [from : Nat, to : Nat, flag : BOOLEAN, lost : BOOLEAN]

Sent ==
    /\ packets \subseteq Packet
    /\ \A k \in packets : k.from \in starts /\ k.to = PacketEnd(k.from)
    /\ \A k \in packets : k.flag <=> host = "flagged" /\ StartsRecord(k.from)
    /\ \A s \in starts : \E k \in packets : k.from = s
    /\ \A k, j \in packets : k.from = j.from => k = j
    /\ critical \in {0, CriticalPackets}

\* Before the walk.
Fresh ==
    /\ pos = 0 /\ spanStart = 0 /\ aligned = FALSE /\ pastCoarseLevel = FALSE
    /\ spans = {} /\ blockRecords = 0 /\ partial = FALSE /\ coarseLevelIntact = TRUE

\* Whole records of the sequence and of blocks, all of which arrived.
Whole(from, to) ==
    /\ from < to /\ to <= size
    /\ ~Lost(from, to)
    /\ \A r \in records :
          r.from < to /\ from < r.to => from <= r.from /\ r.to <= to /\ r.kind \in Payload

SpansWhole ==
    /\ spans \subseteq [from : Nat, to : Nat]
    /\ \A s \in spans : Whole(s.from, s.to)

Kept(r) == r \in Pushed \/ (spanStart <= r.from /\ r.to <= pos)

OnRecords ==
    /\ host # "prefixed"
    /\ pos \in Nat /\ spanStart \in Nat /\ spanStart <= pos /\ pos <= size
    /\ pos = size \/ StartsRecord(pos)
    /\ spanStart < pos => Whole(spanStart, pos)
    /\ ~Lost(0, HeaderWords)

\* What was learnt of the host.
AlignedRight ==
    aligned /\ host = "packed" => \E r \in records : OrdinaryFine(r) /\ r.to <= pos

\* What was noted of the losses.
CoarseNoted ==
    /\ pastCoarseLevel \in BOOLEAN /\ coarseLevelIntact \in BOOLEAN /\ partial \in BOOLEAN
    /\ pastCoarseLevel => \A r \in records : r.kind = "coarse" => r.to <= pos
    /\ Known /\ coarseLevelIntact =>
          \A k \in packets, r \in records : k.lost /\ r.kind = "coarse" => r.to <= k.from

Noted(r) == partial /\ (r.kind = "coarse" => ~coarseLevelIntact)

Accounted == \A r \in Blocks : r.to <= pos => Kept(r) \/ Noted(r)

Contained ==
    host = "flagged" =>
        \A r \in Blocks : r.from < pos => Kept(r) \/ Lost(r.from, r.to) \/ HeaderLostBefore(r)

Counted ==
    ~AnyLost => ~partial /\ blockRecords = Cardinality({r \in Blocks : r.to <= pos})

Walked == OnRecords /\ AlignedRight /\ CoarseNoted /\ Accounted /\ Contained /\ Counted

Ended ==
    /\ partial \in BOOLEAN /\ coarseLevelIntact \in BOOLEAN
    /\ ~AnyLost => ~partial
    /\ \A r \in Blocks : r \in Pushed \/ Noted(r)
    /\ host = "flagged" =>
          \A r \in Blocks : r \in Pushed \/ Lost(r.from, r.to) \/ HeaderLostBefore(r)

Phases == {"host", "parse", "prefixed", "walk", "parsed", "rejected", "shown", "dropped"}

\* The inductive invariant.
FramingInv ==
    /\ phase \in Phases
    /\ Layout(host, records, size, starts)
    /\ phase # "host" => Sent
    /\ SpansWhole
    /\ phase \in {"host", "parse", "prefixed"} => Fresh
    /\ phase = "prefixed" => host = "prefixed" /\ ~AnyLost
    /\ phase = "walk" => Walked
    /\ phase \in {"parsed", "shown", "dropped"} => Ended
    /\ phase = "shown" => (partial => coarseLevelIntact)
    /\ ~AnyLost => phase \notin {"rejected", "dropped"}

\* What the host begins with.
LEMMA FramingBegins ==
  ASSUME FramingInit
  PROVE  FramingInv
<1>1. Max({0}) = 0 /\ Capacity(0) >= 2 * HeaderWords /\ Capacity(0) \in Nat
  <2>1. \A x \in {0} : Max({0}) >= x /\ Max({0}) \in {0}
    <3>1. {0} \in SUBSET (0 .. 0) /\ {0} # {}
      OBVIOUS
    <3> QED
      BY <3>1, GreatestIs
  <2> QED
    BY <2>1, FramingAssumption DEF Capacity, HeaderWords
<1>2. CASE host = "prefixed"
  <2> DEFINE c == Rec("count", 0, 1)
             l == Rec("length", 1, 2)
             q == Rec("sequence", 2, 4)
  <2>1. records = {c, l, q} /\ size = 4 /\ starts = {0}
    BY <1>2 DEF FramingInit, Rec, HeaderWords
  <2>2. /\ c \in Record /\ c.kind = "count" /\ c.from = 0 /\ c.to = 1
        /\ l \in Record /\ l.kind = "length" /\ l.from = 1 /\ l.to = 2
        /\ q \in Record /\ q.kind = "sequence" /\ q.from = 2 /\ q.to = 4
    BY RecIs DEF Kinds
  <2>3. IsFiniteSet({c, l, q})
    <3> HIDE DEF c, l, q
    <3>1. IsFiniteSet({c}) /\ IsFiniteSet({c} \cup {l}) /\ IsFiniteSet(({c} \cup {l}) \cup {q})
      BY FS_Singleton, FS_AddElement
    <3>2. ({c} \cup {l}) \cup {q} = {c, l, q}
      OBVIOUS
    <3> QED
      BY <3>1, <3>2
  <2> HIDE DEF c, l, q
  <2>4. Tiled(records, size)
    BY <2>1, <2>2, <2>3 DEF Tiled, Begins
  <2>5. Ranked(records)
    BY <2>1, <2>2 DEF Ranked, HeaderWords
  <2>6. StartsFit(size, starts)
    BY <1>1, <2>1 DEF StartsFit, HeaderWords
  <2>7. Prefixed(records)
    BY <2>1, <2>2 DEF Prefixed
  <2>8. Layout(host, records, size, starts)
    BY <1>2, <2>4, <2>5, <2>6, <2>7 DEF Layout, FramingInit
  <2> QED
    BY <2>8 DEF FramingInv, FramingInit, Fresh, SpansWhole, Phases
<1>3. CASE host # "prefixed"
  <2> DEFINE q == Rec("sequence", 0, 2)
  <2>1. records = {q} /\ size = 2 /\ starts = {0}
    BY <1>3 DEF FramingInit, Rec, HeaderWords
  <2>2. q \in Record /\ q.kind = "sequence" /\ q.from = 0 /\ q.to = 2
    BY RecIs DEF Kinds
  <2> HIDE DEF q
  <2>3. IsFiniteSet({q})
    BY FS_Singleton
  <2>4. Tiled(records, size)
    BY <2>1, <2>2, <2>3 DEF Tiled, Begins
  <2>5. Ranked(records)
    BY <2>1, <2>2 DEF Ranked, HeaderWords
  <2>6. StartsFit(size, starts)
    BY <1>1, <2>1 DEF StartsFit, HeaderWords
  <2>7. Packed(records, starts)
    BY <2>1, <2>2 DEF Packed, OrdinaryFine
  <2>8. Plain(records, starts)
    BY <2>1, <2>2 DEF Plain, Payload
  <2>9. Layout(host, records, size, starts)
    BY <1>3, <2>4, <2>5, <2>6, <2>7, <2>8 DEF Layout, FramingInit
  <2> QED
    BY <2>9 DEF FramingInv, FramingInit, Fresh, SpansWhole, Phases
<1> QED
  BY <1>2, <1>3

\* Each way of putting a record keeps the layout.
LEMMA PutLayout ==
  ASSUME FramingInv, Put
  PROVE  Layout(host, records', size', starts')
<1>1. PICK kind \in {"coarse", "fine"}, n \in Sizes :
          /\ InOrder(kind, n)
          /\ \/ host = "prefixed" /\ PutPrefixed(kind, n)
             \/ host \in {"packed", "flagged"} /\ ~Oversized(n) /\ PutAligned(kind, n)
             \/ /\ host = "flagged" \/ (host = "packed" /\ (Oversized(n) \/ kind = "coarse"))
                /\ PutAfter(kind, n)
  BY DEF Put
<1>2. n \in Nat /\ n >= HeaderWords
  BY FramingAssumption
<1>3. Layout(host, records, size, starts) /\ size \in Nat
  BY DEF FramingInv, Layout, Tiled
<1>4. kind = "coarse" => \A r \in records : r.kind # "fine"
  BY <1>1 DEF InOrder
<1>5. ASSUME PutAfter(kind, n),
             host = "packed" => \/ Cuts(Max(starts), size, size + n) \subseteq {size}
                                \/ /\ ~OrdinaryFine(Rec(kind, size, size + n))
                                   /\ \A r \in records : ~OrdinaryFine(r)
      PROVE  Layout(host, records', size', starts')
  <2>1. Layout(host, records \cup {Rec(kind, size, size + n)}, size + n,
               starts \cup Cuts(Max(starts), size, size + n))
    BY <1>2, <1>3, <1>4, <1>5, AfterKeeps
  <2> QED
    BY <1>5, <2>1 DEF PutAfter, Rec, LastStart
<1>6. CASE host = "prefixed" /\ PutPrefixed(kind, n)
  <2>1. CASE PutAfter(kind, n)
    BY <1>5, <1>6, <2>1
  <2>2. CASE ~PutAfter(kind, n)
    <3> DEFINE e == Rec("length", size, size + 1)
               f == Rec(kind, size + 1, (size + 1) + n)
    <3>1. /\ records' = records \cup {e, f}
          /\ size' = (size + 1) + n
          /\ starts' = starts \cup Cuts(Max(starts), size, (size + 1) + n)
      BY <1>6, <2>2 DEF PutPrefixed, LastStart, Rec
    <3> HIDE DEF e, f
    <3>2. records \cup {e, f} = (records \cup {e}) \cup {f}
      OBVIOUS
    <3>3. Layout("prefixed", (records \cup {e}) \cup {f}, (size + 1) + n,
                 starts \cup Cuts(Max(starts), size, (size + 1) + n))
      BY <1>2, <1>3, <1>4, <1>6, LengthKeeps DEF e, f
    <3> QED
      BY <1>6, <3>1, <3>2, <3>3
  <2> QED
    BY <2>1, <2>2
<1>7. CASE host \in {"packed", "flagged"} /\ ~Oversized(n) /\ PutAligned(kind, n)
  <2>1. StartsFit(size, starts) /\ Room = RoomIn(size, starts)
    <3>1. StartsFit(size, starts)
      BY <1>3 DEF Layout
    <3>2. Max(starts) \in Nat /\ Capacity(Max(starts)) \in Nat
      BY <1>3, <3>1, LastIs, CapacityIs
    <3> QED
      BY <1>3, <3>1, <3>2 DEF Room, LastStart, RoomIn
  <2>2. CASE n <= Room \/ Room = 0
    <3>1. Cuts(Max(starts), size, size + n) \subseteq {size}
      <4>1. 0 < n
        BY <1>2 DEF HeaderWords
      <4> QED
        BY <1>2, <1>3, <1>7, <2>1, <2>2, <4>1, NoCutInside
    <3>2. PutAfter(kind, n)
      BY <1>7, <2>2 DEF PutAligned
    <3> QED
      BY <1>5, <3>1, <3>2
  <2>3. CASE ~(n <= Room \/ Room = 0) /\ Room >= HeaderWords
    <3> DEFINE e == Rec("padding", size, size + Room)
               f == Rec(kind, size + Room, (size + Room) + n)
    <3>1. /\ records' = (records \cup {e}) \cup {f}
          /\ size' = (size + Room) + n
          /\ starts' = starts \cup {size + Room}
      BY <1>7, <2>3 DEF PutAligned, Rec
    <3> HIDE DEF e, f
    <3>2. Layout(host, (records \cup {e}) \cup {f}, (size + Room) + n,
                 starts \cup {size + Room})
      BY <1>2, <1>3, <1>4, <1>7, <2>1, <2>3, PaddedKeeps DEF e, f
    <3> QED
      BY <1>7, <3>1, <3>2
  <2>4. CASE ~(n <= Room \/ Room = 0) /\ ~(Room >= HeaderWords)
    <3> DEFINE f == Rec(kind, size, size + n)
    <3>1. /\ records' = (records \cup {}) \cup {f}
          /\ size' = size + n
          /\ starts' = starts \cup {size}
      BY <1>7, <2>4 DEF PutAligned, Rec
    <3> HIDE DEF f
    <3>2. records' = records \cup {f}
      BY <3>1
    <3>3. /\ Tiled(records, size) /\ Ranked(records) /\ Plain(records, starts)
          /\ host = "packed" => Packed(records, starts)
          /\ StartsFit(size, starts) /\ host \in Hosts
      BY <1>3, <1>7 DEF Layout
    <3>4. size <= Max(starts) + Capacity(Max(starts)) /\ size <= size
      BY <1>3, <3>3 DEF StartsFit
    <3>5. Layout(host, records \cup {f}, size + n, starts \cup {size})
      BY <1>2, <1>3, <1>4, <1>7, <3>3, <3>4, NewPacketKeeps DEF f
    <3> QED
      BY <1>7, <3>1, <3>2, <3>5
  <2> QED
    BY <2>2, <2>3, <2>4
<1>8. CASE /\ host = "flagged" \/ (host = "packed" /\ (Oversized(n) \/ kind = "coarse"))
           /\ PutAfter(kind, n)
  <2>1. ASSUME host = "packed"
        PROVE  /\ ~OrdinaryFine(Rec(kind, size, size + n))
               /\ \A r \in records : ~OrdinaryFine(r)
    <3>1. Rec(kind, size, size + n).kind = kind
          /\ Rec(kind, size, size + n).to - Rec(kind, size, size + n).from = n
      BY <1>2, <1>3, RecIs DEF Kinds
    <3>2. kind = "coarse" \/ (kind = "fine" /\ Oversized(n))
      BY <1>8, <2>1
    <3>3. kind = "fine" => \A r \in records : r.kind = "fine" => Oversized(r.to - r.from)
      BY <1>1, <3>2 DEF InOrder
    <3> QED
      BY <1>4, <3>1, <3>2, <3>3 DEF OrdinaryFine
  <2> QED
    BY <1>5, <1>8, <2>1
<1> QED
  BY <1>1, <1>6, <1>7, <1>8

LEMMA PutKeeps ==
  ASSUME FramingInv, Put
  PROVE  FramingInv'
<1>1. phase = "host" /\ UNCHANGED <<host, sentVars, phase, walkVars, parsedVars>>
  BY DEF Put
<1>2. Layout(host, records, size, starts)'
  BY <1>1, PutLayout
<1>3. Fresh'
  BY <1>1 DEF FramingInv, Fresh, walkVars, parsedVars
<1>4. SpansWhole'
  BY <1>3 DEF Fresh, SpansWhole
<1> QED
  BY <1>1, <1>2, <1>3, <1>4 DEF FramingInv, Phases

-----------------------------------------------------------------------------
(* the packets *)

\* A packet ends where the next starts, or with the frame.
LEMMA PacketEndIs ==
  ASSUME Layout(host, records, size, starts), NEW s \in starts
  PROVE  /\ s \in Nat /\ PacketEnd(s) \in Nat /\ s < PacketEnd(s) /\ PacketEnd(s) <= size
         /\ \A t \in starts : s < t => PacketEnd(s) <= t
<1> DEFINE T == {t \in starts : t > s} \cup {size}
<1>1. starts \subseteq 0 .. size - 1 /\ size \in Nat
  BY DEF Layout, StartsFit, Tiled
<1>2. \A t \in T : t \in Nat /\ s < t /\ t <= size
  BY <1>1
<1>3. T \in SUBSET Nat /\ T # {}
  BY <1>2
<1>4. size \in T /\ \A t \in starts : s < t => t \in T
  BY <1>1
<1>5. PacketEnd(s) = Min(T)
  BY DEF PacketEnd
<1> HIDE DEF T
<1>6. Min(T) \in T /\ \A t \in T : Min(T) <= t
  BY <1>3, LeastIs
<1>7. s \in Nat
  BY <1>1
<1>8. PacketEnd(s) \in Nat /\ s < PacketEnd(s) /\ PacketEnd(s) <= size
  BY <1>2, <1>5, <1>6
<1>9. \A t \in starts : s < t => PacketEnd(s) <= t
  BY <1>4, <1>5, <1>6
<1> QED
  BY <1>7, <1>8, <1>9

LEMMA SendKeeps ==
  ASSUME FramingInv, Send
  PROVE  FramingInv'
<1>1. /\ phase = "host" /\ phase' = "parse"
      /\ UNCHANGED <<hostVars, walkVars, parsedVars>>
      /\ critical' \in {0, CriticalPackets}
  BY DEF Send
<1>2. PICK lost \in SUBSET starts :
         packets' = {[from |-> s, to |-> PacketEnd(s), lost |-> s \in lost,
                      flag |-> host = "flagged" /\ StartsRecord(s)] : s \in starts}
  BY DEF Send
<1>3. Layout(host, records, size, starts) /\ Layout(host, records, size, starts)'
  BY <1>1 DEF FramingInv, hostVars
<1>4. \A s : PacketEnd(s)' = PacketEnd(s)
  BY <1>1 DEF PacketEnd, hostVars
<1>5. \A s : StartsRecord(s)' <=> StartsRecord(s)
  BY <1>1 DEF StartsRecord, hostVars
<1>6. \A s \in starts : s \in Nat /\ PacketEnd(s) \in Nat
  BY <1>3, PacketEndIs
<1>7. CriticalPackets' = CriticalPackets
  BY <1>1, <1>4 DEF CriticalPackets, hostVars
<1>8. host' = host /\ starts' = starts
  BY <1>1 DEF hostVars
<1>9. Sent'
  <2> DEFINE P(s) == [from |-> s, to |-> PacketEnd(s), lost |-> s \in lost,
                      flag |-> host = "flagged" /\ StartsRecord(s)]
  <2>a. ASSUME NEW s \in starts
        PROVE  /\ P(s) \in Packet /\ P(s).from = s /\ P(s).to = PacketEnd(s)
               /\ P(s).flag <=> host = "flagged" /\ StartsRecord(s)
    <3>1. (s \in lost) \in BOOLEAN /\ (host = "flagged" /\ StartsRecord(s)) \in BOOLEAN
      OBVIOUS
    <3>2. P(s) \in Packet
      BY <1>6, <3>1 DEF Packet
    <3> QED
      BY <3>2
  <2>b. packets' = {P(s) : s \in starts}
    BY <1>2
  <2> HIDE DEF P
  <2>c. \A k \in packets' : \E s \in starts : k = P(s)
    BY <2>b
  <2>1. packets' \subseteq Packet
    BY <2>a, <2>c
  <2>2. \A k \in packets' :
           /\ k.from \in starts /\ k.to = PacketEnd(k.from)
           /\ k.flag <=> host = "flagged" /\ StartsRecord(k.from)
    BY <2>a, <2>c
  <2>3. \A s \in starts : \E k \in packets' : k.from = s
    BY <2>a, <2>b
  <2>4. \A k, j \in packets' : k.from = j.from => k = j
    BY <2>a, <2>c
  <2>5. \A k \in packets' : k.from \in starts' /\ k.to = PacketEnd(k.from)'
    BY <1>4, <1>8, <2>2
  <2>6. \A k \in packets' : k.flag <=> host' = "flagged" /\ StartsRecord(k.from)'
    BY <1>5, <1>8, <2>2
  <2>7. critical' \in {0, CriticalPackets'}
    BY <1>1, <1>7
  <2> QED
    BY <1>8, <2>1, <2>3, <2>4, <2>5, <2>6, <2>7 DEF Sent
<1>10. Fresh'
  BY <1>1 DEF FramingInv, Fresh, walkVars, parsedVars
<1>11. SpansWhole'
  BY <1>10 DEF Fresh, SpansWhole
<1> QED
  BY <1>1, <1>3, <1>9, <1>10, <1>11 DEF FramingInv, Phases

LEMMA FirstPacketIs ==
  ASSUME Layout(host, records, size, starts), Sent
  PROVE  /\ FirstPacket \in packets /\ FirstPacket.from = 0
         /\ RecordStartsFlagged <=> host = "flagged"
<1>1. \E k \in packets : k.from = 0
  BY DEF Sent, Layout, StartsFit
<1>2. FirstPacket \in packets /\ FirstPacket.from = 0
  BY <1>1 DEF FirstPacket
<1>3. StartsRecord(0)
  BY DEF Layout, Tiled, StartsRecord, Begins
<1> QED
  BY <1>2, <1>3 DEF Sent, RecordStartsFlagged

\* A loss beside a first packet that arrived means two packets.
LEMMA PacketsFinite ==
  ASSUME Layout(host, records, size, starts), Sent
  PROVE  IsFiniteSet(packets) /\ IsFiniteSet(starts)
<1>1. IsFiniteSet(starts)
  <2>1. size \in Nat /\ starts \in SUBSET (0 .. size - 1)
    BY DEF Layout, Tiled, StartsFit
  <2>2. IsFiniteSet(0 .. size - 1)
    BY <2>1, FS_Interval
  <2> QED
    BY <2>1, <2>2, FS_Subset
<1> DEFINE f == [k \in packets |-> k.from]
<1>2. f \in Injection(packets, starts)
  BY DEF Sent, Injection, IsInjective
<1> QED
  BY <1>1, <1>2, FS_Injection

LEMMA TwoPackets ==
  ASSUME Layout(host, records, size, starts), Sent, AnyLost, ~Lost(0, HeaderWords)
  PROVE  Cardinality(packets) >= 2 /\ ~FirstPacket.lost
<1>1. FirstPacket \in packets /\ FirstPacket.from = 0
  BY FirstPacketIs
<1>2. 0 < FirstPacket.to
  BY <1>1, PacketEndIs DEF Sent
<1>3. ~FirstPacket.lost
  BY <1>1, <1>2 DEF Lost, HeaderWords
<1>4. PICK k \in packets : k.lost
  BY DEF AnyLost
<1>5. k # FirstPacket
  BY <1>3, <1>4
<1>6. Cardinality({k, FirstPacket}) = 2
  <2>1. IsFiniteSet({k}) /\ Cardinality({k}) = 1
    BY FS_Singleton
  <2>2. Cardinality({k} \cup {FirstPacket}) = 2
    BY <1>5, <2>1, FS_AddElement
  <2>3. {k, FirstPacket} = {k} \cup {FirstPacket}
    OBVIOUS
  <2> QED
    BY <2>2, <2>3
<1>7. Cardinality({k, FirstPacket}) <= Cardinality(packets)
  <2>1. {k, FirstPacket} \in SUBSET packets
    BY <1>1
  <2> QED
    BY <2>1, PacketsFinite, FS_Subset
<1>8. Cardinality(packets) \in Nat
  BY PacketsFinite, FS_CardinalityType
<1> QED
  BY <1>3, <1>6, <1>7, <1>8

\* Every packet up to the end of the coarsest level holds some of it, or the header.
LEMMA CriticalHold ==
  ASSUME Layout(host, records, size, starts), Sent, host # "prefixed",
         Known, NEW k \in packets, NEW r \in records, r.kind = "coarse", k.from < r.to
  PROVE  Cardinality({j \in packets : j.from < k.from}) < critical
<1> DEFINE Crit == {s \in starts : \E q \in records : /\ q.kind \in {"sequence", "coarse"}
                                                      /\ s < q.to /\ q.from < PacketEnd(s)}
           Early == {s \in starts : s < k.from}
           P == {j \in packets : j.from < k.from}
<1>1. critical = Cardinality(Crit)
  BY DEF Sent, Known, CriticalPackets
<1>2. k.from \in starts
  BY DEF Sent
<1>3. \A s \in starts : s \in Nat
  BY PacketEndIs
<1>4. ASSUME NEW s \in starts, s <= k.from PROVE s \in Crit
  <2>1. PICK q \in records : q.kind \in Payload /\ q.from <= s /\ s < q.to
    BY DEF Layout, Plain
  <2>2. q.from \in Nat /\ q.to \in Nat /\ r.from \in Nat /\ r.to \in Nat
    BY DEF Layout, Tiled, Record
  <2>3. q.kind # "fine"
    <3>1. q.kind = "fine" => r.to <= q.from
      BY DEF Layout, Ranked
    <3> QED
      BY <1>2, <1>3, <1>4, <2>1, <2>2, <3>1
  <2>4. q.from < PacketEnd(s)
    <3>1. s < PacketEnd(s) /\ PacketEnd(s) \in Nat
      BY PacketEndIs
    <3> QED
      BY <1>3, <2>1, <2>2, <3>1
  <2> QED
    BY <2>1, <2>3, <2>4 DEF Payload
<1>5. Early \cup {k.from} \subseteq Crit
  BY <1>2, <1>3, <1>4
<1>6. IsFiniteSet(Early) /\ IsFiniteSet(Crit)
  <2>1. Early \in SUBSET starts /\ Crit \in SUBSET starts
    OBVIOUS
  <2> HIDE DEF Early, Crit
  <2> QED
    BY <2>1, PacketsFinite, FS_Subset
<1>7. k.from \notin Early
  BY <1>2, <1>3
<1>8. Cardinality(P) <= Cardinality(Early)
  <2> DEFINE f == [j \in P |-> j.from]
  <2>1. f \in Injection(P, Early)
    BY DEF Sent, Injection, IsInjective
  <2> HIDE DEF f, P, Early
  <2> QED
    BY <1>6, <2>1, FS_Injection
<1> HIDE DEF Crit, Early
<1>9. Cardinality(Early \cup {k.from}) = Cardinality(Early) + 1
      /\ IsFiniteSet(Early \cup {k.from})
  BY <1>6, <1>7, FS_AddElement
<1>10. Cardinality(Early \cup {k.from}) <= Cardinality(Crit)
  BY <1>5, <1>6, FS_Subset
<1>11. IsFiniteSet(P)
  BY PacketsFinite, FS_Subset
<1> HIDE DEF P
<1>12. Cardinality(Early) \in Nat /\ Cardinality(Crit) \in Nat /\ Cardinality(P) \in Nat
  BY <1>6, <1>11, FS_CardinalityType
<1>13. Cardinality(P) < critical
  BY <1>1, <1>8, <1>9, <1>10, <1>12
<1> QED
  BY <1>13 DEF P

-----------------------------------------------------------------------------
(* what is left of a frame is parsed *)

\* The frame that was sent and what of it is lost stay as they are.
LEMMA FrameStays ==
  ASSUME UNCHANGED <<hostVars, sentVars>>
  PROVE  /\ Layout(host, records, size, starts)' <=> Layout(host, records, size, starts)
         /\ Sent' <=> Sent
         /\ AnyLost' <=> AnyLost
         /\ Blocks' = Blocks /\ records' = records /\ size' = size /\ host' = host
         /\ packets' = packets /\ (Known' <=> Known)
         /\ \A s : StartsRecord(s)' <=> StartsRecord(s)
         /\ \A a, b : Lost(a, b)' <=> Lost(a, b)
         /\ \A a, b : Whole(a, b)' <=> Whole(a, b)
         /\ \A r : HeaderLostBefore(r)' <=> HeaderLostBefore(r)
<1>1. /\ host' = host /\ records' = records /\ size' = size /\ starts' = starts
      /\ packets' = packets /\ critical' = critical
  BY DEF hostVars, sentVars
<1>2. Layout(host, records, size, starts)' <=> Layout(host, records, size, starts)
  BY <1>1
<1>3. \A s : StartsRecord(s)' <=> StartsRecord(s)
  BY <1>1 DEF StartsRecord
<1>4. \A s : PacketEnd(s)' = PacketEnd(s)
  BY <1>1 DEF PacketEnd
<1>5. CriticalPackets' = CriticalPackets
  BY <1>1, <1>4 DEF CriticalPackets
<1>6. Sent' <=> Sent
  BY <1>1, <1>3, <1>4, <1>5 DEF Sent
<1>7. Blocks' = Blocks /\ (AnyLost' <=> AnyLost) /\ (Known' <=> Known)
  BY <1>1 DEF Blocks, AnyLost, Known
<1>8. \A a, b : Lost(a, b)' <=> Lost(a, b)
  BY <1>1 DEF Lost
<1>9. \A a, b : Whole(a, b)' <=> Whole(a, b)
  BY <1>1, <1>8 DEF Whole
<1>10. \A r : HeaderLostBefore(r)' <=> HeaderLostBefore(r)
  BY <1>1, <1>8 DEF HeaderLostBefore
<1> QED
  BY <1>1, <1>2, <1>3, <1>6, <1>7, <1>8, <1>9, <1>10

LEMMA ParseKeeps ==
  ASSUME FramingInv, ParseFrame
  PROVE  FramingInv'
<1>1. phase = "parse" /\ UNCHANGED <<hostVars, sentVars>>
  BY DEF ParseFrame
<1>2. Layout(host, records, size, starts) /\ Sent /\ Fresh
  BY <1>1 DEF FramingInv
<1>3. Layout(host, records, size, starts)' /\ Sent'
  BY <1>1, <1>2, FrameStays
<1>4. spans' = {}
  BY <1>2 DEF ParseFrame, Fresh, parsedVars
<1>5. SpansWhole'
  BY <1>4 DEF SpansWhole
<1>6. \A a, b : Lost(a, b) => AnyLost
  BY DEF Lost, AnyLost
<1>7. CASE Lost(0, HeaderWords) \/ (host = "prefixed" /\ AnyLost)
  <2>1. phase' = "rejected" /\ AnyLost /\ AnyLost'
    BY <1>1, <1>6, <1>7, FrameStays DEF ParseFrame
  <2> QED
    BY <1>3, <1>5, <2>1 DEF FramingInv, Phases
<1>8. CASE ~(Lost(0, HeaderWords) \/ (host = "prefixed" /\ AnyLost)) /\ host = "prefixed"
  <2>1. phase' = "prefixed" /\ UNCHANGED <<parsedVars, walkVars>>
    BY <1>8 DEF ParseFrame
  <2>2. ~AnyLost' /\ host' = "prefixed"
    BY <1>1, <1>8, FrameStays
  <2>3. Fresh'
    BY <1>2, <2>1 DEF Fresh, parsedVars, walkVars
  <2> QED
    BY <1>3, <1>5, <2>1, <2>2, <2>3 DEF FramingInv, Phases
<1>9. CASE ~Lost(0, HeaderWords) /\ host # "prefixed"
  <2>1. /\ phase' = "walk" /\ UNCHANGED <<spans, blockRecords, partial, walkVars>>
        /\ coarseLevelIntact' =
              (Known => \A k \in packets :
                  Cardinality({j \in packets : j.from < k.from}) < critical => ~k.lost)
    BY <1>9 DEF ParseFrame
  <2>2. /\ pos' = 0 /\ spanStart' = 0 /\ aligned' = FALSE /\ pastCoarseLevel' = FALSE
        /\ blockRecords' = 0 /\ partial' = FALSE
    BY <1>2, <2>1 DEF Fresh, walkVars
  <2>3. size \in Nat /\ StartsRecord(0) /\ \A r \in records : r.from \in Nat /\ r.to \in Nat /\ r.from < r.to
    BY <1>2 DEF Layout, Tiled, StartsRecord, Begins, Record
  <2>4. OnRecords'
    <3>1. ~Lost(0, HeaderWords)' /\ host' # "prefixed" /\ StartsRecord(0)' /\ size' \in Nat
      BY <1>1, <1>9, <2>3, FrameStays DEF HeaderWords
    <3> QED
      BY <2>2, <3>1 DEF OnRecords, HeaderWords
  <2>5. AlignedRight'
    BY <2>2 DEF AlignedRight
  <2>6. CoarseNoted'
    <3>1. coarseLevelIntact' \in BOOLEAN
      BY <2>1
    <3>2. ASSUME Known, coarseLevelIntact', NEW k \in packets, NEW r \in records,
                 k.lost, r.kind = "coarse"
          PROVE  r.to <= k.from
      <4>1. ~(Cardinality({j \in packets : j.from < k.from}) < critical)
        BY <2>1, <3>2
      <4>2. ~(k.from < r.to)
        BY <1>2, <1>9, <3>2, <4>1, CriticalHold
      <4>3. k.from \in Nat
        BY <1>2 DEF Sent, Packet
      <4> QED
        BY <2>3, <4>2, <4>3
    <3>3. (Known' <=> Known) /\ packets' = packets /\ records' = records
      BY <1>1, FrameStays
    <3> QED
      BY <2>2, <3>1, <3>2, <3>3 DEF CoarseNoted
  <2>7. Blocks' = Blocks /\ \A r \in Blocks : ~(r.to <= 0) /\ ~(r.from < 0)
    BY <1>1, <2>3, FrameStays DEF Blocks
  <2>8. Accounted'
    BY <2>2, <2>7 DEF Accounted
  <2>9. Contained'
    BY <2>2, <2>7 DEF Contained
  <2>10. Counted'
    <3>1. {r \in Blocks : r.to <= 0} = {}
      BY <2>7
    <3>2. {r \in Blocks' : r.to <= pos'} = {}
      BY <2>2, <2>7, <3>1
    <3> QED
      BY <2>2, <3>2, FS_EmptySet DEF Counted
  <2> QED
    BY <1>3, <1>5, <2>1, <2>4, <2>5, <2>6, <2>8, <2>9, <2>10 DEF FramingInv, Phases, Walked
<1> QED
  BY <1>7, <1>8, <1>9

\* What lies between two lengths.
LEMMA BetweenLengths ==
  ASSUME Layout(host, records, size, starts), host = "prefixed", ~AnyLost,
         NEW l \in records, l.kind = "length"
  PROVE  LET e == Min({t.from : t \in {u \in records : u.kind = "length" /\ u.from > l.from}}
                         \cup {size})
         IN  /\ e \in Nat /\ Whole(l.to, e)
             /\ \A u \in records : u.kind = "length" /\ u.from > l.from => e <= u.from
             /\ e = size \/ \E u \in records : u.kind = "length" /\ u.from = e /\ u.from > l.from
<1> DEFINE T == {t.from : t \in {u \in records : u.kind = "length" /\ u.from > l.from}} \cup {size}
           e == Min(T)
<1>1. size \in Nat /\ \A r \in records : r \in Record /\ r.from \in Nat /\ r.to \in Nat
                                         /\ r.from < r.to /\ r.to <= size
  BY DEF Layout, Tiled, Record
<1>2. \A r, q \in records : r = q \/ r.to <= q.from \/ q.to <= r.from
  BY DEF Layout, Tiled
<1>3. \A t \in T : t \in Nat /\ (t = size \/ \E u \in records : u.kind = "length" /\ u.from > l.from /\ u.from = t)
  BY <1>1
<1>4. size \in T /\ \A u \in records : u.kind = "length" /\ u.from > l.from => u.from \in T
  OBVIOUS
<1> HIDE DEF T
<1>5. e \in T /\ \A t \in T : e <= t
  <2>1. T \in SUBSET Nat /\ T # {}
    BY <1>3, <1>4
  <2> QED
    BY <2>1, LeastIs
<1> HIDE DEF e
<1>6. e \in Nat /\ (e = size \/ \E u \in records : u.kind = "length" /\ u.from > l.from /\ u.from = e)
  BY <1>3, <1>5
<1>7. \A u \in records : u.kind = "length" /\ u.from > l.from => e <= u.from
  BY <1>4, <1>5
<1>8. l.from >= 1 /\ \E q \in records : q.from = l.to /\ q.kind # "length"
  BY DEF Layout, Prefixed
<1>9. l.to <= e
  BY <1>1, <1>2, <1>6
<1>10. l.to < e
  <2>1. PICK q \in records : q.from = l.to /\ q.kind # "length"
    BY <1>8
  <2>2. CASE e = size
    BY <1>1, <2>1, <2>2
  <2>3. CASE \E u \in records : u.kind = "length" /\ u.from > l.from /\ u.from = e
    <3>1. PICK u \in records : u.kind = "length" /\ u.from > l.from /\ u.from = e
      BY <2>3
    <3>2. u # q
      BY <2>1, <3>1
    <3> QED
      BY <1>1, <1>2, <1>9, <2>1, <3>1, <3>2
  <2> QED
    BY <1>6, <2>2, <2>3
<1>11. e <= size
  BY <1>1, <1>6
<1>12. ~Lost(l.to, e)
  BY DEF Lost, AnyLost
<1>13. ASSUME NEW r \in records, r.from < e, l.to < r.to
       PROVE  l.to <= r.from /\ r.to <= e /\ r.kind \in Payload
  <2>1. r # l /\ l.to <= r.from
    BY <1>1, <1>2, <1>13
  <2>2. r.from > l.from
    BY <1>1, <2>1
  <2>3. r.kind # "length"
    BY <1>1, <1>6, <1>7, <1>13, <2>2
  <2>4. r.to <= e
    <3>1. CASE e = size
      BY <1>1, <3>1
    <3>2. CASE \E u \in records : u.kind = "length" /\ u.from > l.from /\ u.from = e
      <4>1. PICK u \in records : u.kind = "length" /\ u.from > l.from /\ u.from = e
        BY <3>2
      <4>2. u # r
        BY <2>3, <4>1
      <4> QED
        BY <1>1, <1>2, <1>13, <4>1, <4>2
    <3> QED
      BY <1>6, <3>1, <3>2
  <2>5. r.kind # "count" /\ r.kind # "padding" /\ r.kind \in Kinds
    <3>1. r.kind = "count" => r.from = 0
      BY DEF Layout, Prefixed
    <3>2. r.from > 0
      BY <1>1, <2>2
    <3> QED
      BY <1>1, <3>1, <3>2 DEF Layout, Prefixed, Record
  <2> QED
    BY <2>1, <2>3, <2>4, <2>5 DEF Kinds, Payload
<1>14. Whole(l.to, e)
  BY <1>10, <1>11, <1>12, <1>13 DEF Whole
<1> QED
  BY <1>6, <1>7, <1>14 DEF e, T

\* A block follows some length, with none between them.
LEMMA LengthBefore ==
  ASSUME Layout(host, records, size, starts), host = "prefixed", NEW r \in Blocks
  PROVE  \E l \in records :
            /\ l.kind = "length" /\ l.to <= r.from
            /\ \A u \in records : u.kind = "length" /\ u.from > l.from => r.to <= u.from
<1> DEFINE T == {u.from : u \in {v \in records : v.kind = "length" /\ v.from < r.from}}
<1>1. size \in Nat /\ \A q \in records : q.from \in Nat /\ q.to \in Nat /\ q.from < q.to /\ q.to <= size
  BY DEF Layout, Tiled, Record
<1>2. \A q, u \in records : u = q \/ u.to <= q.from \/ q.to <= u.from
  BY DEF Layout, Tiled
<1>3. r \in records /\ r.kind \in {"coarse", "fine"}
  BY DEF Blocks
<1>4. T \in SUBSET (0 .. size) /\ T # {}
  <2>1. \A t \in T : t \in 0 .. size
    BY <1>1
  <2>2. r.from > 1
    BY <1>3 DEF Layout, Prefixed
  <2>3. PICK l \in records : l.kind = "length" /\ l.from = 1
    BY DEF Layout, Prefixed
  <2>4. l.from \in T
    BY <2>2, <2>3
  <2> QED
    BY <2>1, <2>4
<1>5. \A t \in T : \E u \in records : u.kind = "length" /\ u.from < r.from /\ u.from = t
  OBVIOUS
<1>6. \A u \in records : u.kind = "length" /\ u.from < r.from => u.from \in T
  OBVIOUS
<1> HIDE DEF T
<1>7. Max(T) \in T /\ \A t \in T : Max(T) >= t
  BY <1>1, <1>4, GreatestIs
<1>8. PICK l \in records : l.kind = "length" /\ l.from < r.from /\ l.from = Max(T)
  BY <1>5, <1>7
<1>9. l.to <= r.from
  BY <1>1, <1>2, <1>3, <1>8
<1>10. ASSUME NEW u \in records, u.kind = "length", u.from > l.from
       PROVE  r.to <= u.from
  <2>1. ~(u.from < r.from)
    BY <1>1, <1>6, <1>7, <1>8, <1>10
  <2>2. u # r
    BY <1>3, <1>10
  <2> QED
    BY <1>1, <1>2, <1>3, <2>1, <2>2
<1> QED
  BY <1>8, <1>9, <1>10

LEMMA WalkPacketsKeeps ==
  ASSUME FramingInv, WalkPackets
  PROVE  FramingInv'
<1>1. /\ phase = "prefixed" /\ phase' = "parsed"
      /\ UNCHANGED <<hostVars, sentVars, walkVars, partial, coarseLevelIntact>>
  BY DEF WalkPackets
<1>2. /\ Layout(host, records, size, starts) /\ Sent /\ Fresh
      /\ host = "prefixed" /\ ~AnyLost
  BY <1>1 DEF FramingInv
<1>3. /\ Layout(host, records, size, starts)' /\ Sent' /\ ~AnyLost' /\ host' = "prefixed"
      /\ Blocks' = Blocks /\ records' = records
      /\ \A a, b : Whole(a, b)' <=> Whole(a, b)
  BY <1>1, <1>2, FrameStays
<1> DEFINE Lengths == {u \in records : u.kind = "length"}
           E(l) == Min({t.from : t \in {u \in records : u.kind = "length" /\ u.from > l.from}}
                          \cup {size})
<1>4. spans' = {Span(l.to, E(l)) : l \in Lengths}
  BY DEF WalkPackets
<1>5. ASSUME NEW l \in Lengths
      PROVE  /\ E(l) \in Nat /\ Whole(l.to, E(l)) /\ l.to \in Nat /\ l \in records
             /\ E(l) = size \/ \E u \in records : u.kind = "length" /\ u.from = E(l) /\ u.from > l.from
  BY <1>2, BetweenLengths DEF Layout, Tiled, Record
<1> HIDE DEF E
<1>6. \A s \in spans' : s \in [from : Nat, to : Nat] /\ Whole(s.from, s.to)
  BY <1>4, <1>5 DEF Span
<1>7. SpansWhole'
  BY <1>3, <1>6 DEF SpansWhole
<1>8. ASSUME NEW r \in Blocks PROVE r \in Pushed'
  <2>1. PICK l \in records :
            /\ l.kind = "length" /\ l.to <= r.from
            /\ \A u \in records : u.kind = "length" /\ u.from > l.from => r.to <= u.from
    BY <1>2, LengthBefore
  <2>2. r.to <= size
    BY <1>2 DEF Blocks, Layout, Tiled
  <2>3. r.to <= E(l)
    BY <1>5, <2>1, <2>2
  <2>4. Span(l.to, E(l)) \in spans'
    BY <1>4, <2>1
  <2>5. In(r, Span(l.to, E(l)))
    BY <2>1, <2>3 DEF In, Span
  <2> QED
    BY <1>3, <2>4, <2>5 DEF Pushed
<1>9. Ended'
  <2>1. partial' = FALSE /\ coarseLevelIntact' = TRUE
    BY <1>1, <1>2 DEF Fresh
  <2> QED
    BY <1>3, <1>8, <2>1 DEF Ended
<1> QED
  BY <1>1, <1>3, <1>7, <1>9 DEF FramingInv, Phases

-----------------------------------------------------------------------------
(* the walk *)

\* What the steps of the walk start from.
Walks ==
    /\ Layout(host, records, size, starts) /\ Sent /\ SpansWhole /\ Walked
    /\ phase = "walk"

LEMMA RecordsAre ==
  ASSUME Layout(host, records, size, starts)
  PROVE  /\ size \in Nat
         /\ \A r \in records : /\ r.from \in Nat /\ r.to \in Nat /\ r.from < r.to /\ r.to <= size
                               /\ r.to = size \/ StartsRecord(r.to)
         /\ \A r, q \in records : r = q \/ r.to <= q.from \/ q.to <= r.from
  BY DEF Layout, Tiled, Record, StartsRecord, Begins

\* The record at pos is the only one between pos and its end.
LEMMA RecordAt ==
  ASSUME Layout(host, records, size, starts), NEW r \in records
  PROVE  \A q \in records : /\ q.to <= r.to => q = r \/ q.to <= r.from
                            /\ q.from < r.to => q = r \/ q.to <= r.from
                            /\ q.from < r.from => q.to <= r.from
  BY RecordsAre

\* The walk goes on elsewhere: what it kept is a span.
LEMMA SkipIs ==
  ASSUME Walks, NEW next \in Nat, SkipTo(next), UNCHANGED <<hostVars, sentVars>>
  PROVE  /\ SpansWhole' /\ pos' = next /\ spanStart' = next
         /\ \A r \in Blocks : Kept(r) => r \in Pushed'
<1>1. /\ spans' = IF pos > spanStart THEN spans \cup {Span(spanStart, pos)} ELSE spans
      /\ pos' = next /\ spanStart' = next
  BY DEF SkipTo
<1>2. /\ pos \in Nat /\ spanStart \in Nat /\ (spanStart < pos => Whole(spanStart, pos))
      /\ spans \subseteq [from : Nat, to : Nat] /\ \A s \in spans : Whole(s.from, s.to)
  BY DEF Walks, Walked, OnRecords, SpansWhole
<1>3. Blocks' = Blocks /\ \A a, b : Whole(a, b)' <=> Whole(a, b)
  BY FrameStays
<1>4. /\ Span(spanStart, pos) \in [from : Nat, to : Nat]
      /\ Span(spanStart, pos).from = spanStart /\ Span(spanStart, pos).to = pos
  BY <1>2 DEF Span
<1>5. \A s \in spans' : s \in [from : Nat, to : Nat] /\ Whole(s.from, s.to)
  <2>1. CASE pos > spanStart
    BY <1>1, <1>2, <1>4, <2>1
  <2>2. CASE ~(pos > spanStart)
    BY <1>1, <1>2, <2>2
  <2> QED
    BY <2>1, <2>2
<1>6. SpansWhole'
  BY <1>3, <1>5 DEF SpansWhole
<1>7. ASSUME NEW r \in Blocks, Kept(r) PROVE r \in Pushed'
  <2>1. CASE r \in Pushed
    BY <1>1, <1>3, <2>1 DEF Pushed
  <2>2. CASE spanStart <= r.from /\ r.to <= pos
    <3>1. r.from \in Nat /\ r.to \in Nat /\ r.from < r.to
      BY RecordsAre DEF Walks, Blocks
    <3>2. pos > spanStart
      BY <1>2, <2>2, <3>1
    <3>3. Span(spanStart, pos) \in spans'
      BY <1>1, <3>2
    <3>4. In(r, Span(spanStart, pos))
      BY <1>4, <2>2 DEF In
    <3> QED
      BY <1>3, <3>3, <3>4 DEF Pushed
  <2> QED
    BY <1>7, <2>1, <2>2 DEF Kept
<1> QED
  BY <1>1, <1>6, <1>7

\* Where the walk goes on after a lost header.
LEMMA NextStartIs ==
  ASSUME Layout(host, records, size, starts), Sent, NEW p \in Nat, p < size, NEW b \in BOOLEAN
  PROVE  /\ NextReceivedStart(p, b) \in Nat
         /\ p < NextReceivedStart(p, b) /\ NextReceivedStart(p, b) <= size
         /\ \/ NextReceivedStart(p, b) = size
            \/ \E k \in packets : k.from = NextReceivedStart(p, b) /\ (k.flag \/ ~b)
         /\ \A k \in packets : p < k.from /\ k.from < NextReceivedStart(p, b) =>
                                  k.lost \/ (b /\ ~k.flag)
<1> DEFINE T == {k.from : k \in {j \in packets : /\ j.from > p /\ ~j.lost
                                                 /\ j.flag \/ ~b}} \cup {size}
           e == Min(T)
<1>1. size \in Nat /\ \A k \in packets : k.from \in Nat /\ k.from < size
  <2>1. \A k \in packets : k.from \in starts
    BY DEF Sent
  <2>2. size \in Nat /\ starts \subseteq 0 .. size - 1
    BY DEF Layout, StartsFit, Tiled
  <2>3. \A s \in starts : s \in Nat /\ s < size
    BY <2>2
  <2> QED
    BY <2>1, <2>2, <2>3
<1>2. \A t \in T : /\ t \in Nat /\ p < t /\ t <= size
                   /\ t = size \/ \E k \in packets : k.from = t /\ (k.flag \/ ~b)
  BY <1>1
<1>3. size \in T /\ \A k \in packets : k.from > p /\ ~k.lost /\ (k.flag \/ ~b) => k.from \in T
  OBVIOUS
<1>4. NextReceivedStart(p, b) = e
  BY DEF NextReceivedStart
<1> HIDE DEF T
<1>5. e \in T /\ \A t \in T : e <= t
  <2>1. T \in SUBSET Nat /\ T # {}
    BY <1>2, <1>3
  <2> QED
    BY <2>1, LeastIs
<1> HIDE DEF e
<1>6. \A k \in packets : p < k.from /\ k.from < e => k.lost \/ (b /\ ~k.flag)
  BY <1>1, <1>2, <1>3, <1>5
<1> QED
  BY <1>2, <1>4, <1>5, <1>6

LEMMA ResumesOnRecord ==
  ASSUME Walks, pos < size, NEW next,
         next = IF RecordStartsFlagged \/ aligned
                THEN NextReceivedStart(pos, RecordStartsFlagged) ELSE size
  PROVE  /\ next \in Nat /\ pos < next /\ next <= size /\ (next = size \/ StartsRecord(next))
         /\ host = "flagged" =>
               \A k \in packets : pos < k.from /\ k.from < next => k.lost \/ ~k.flag
<1>1. /\ Layout(host, records, size, starts) /\ Sent /\ pos \in Nat /\ size \in Nat
      /\ host # "prefixed" /\ host \in Hosts /\ AlignedRight
  BY DEF Walks, Walked, OnRecords, Layout, Tiled
<1>2. RecordStartsFlagged <=> host = "flagged"
  BY <1>1, FirstPacketIs
<1>3. CASE host = "flagged"
  <2>1. next = NextReceivedStart(pos, TRUE)
    <3>1. RecordStartsFlagged = TRUE
      <4>1. RecordStartsFlagged \in BOOLEAN
        BY <1>1, FirstPacketIs DEF RecordStartsFlagged, Sent, Packet
      <4> QED
        BY <1>2, <1>3, <4>1
    <3> QED
      BY <3>1
  <2>2. \/ next = size
        \/ \E k \in packets : k.from = next /\ k.flag
    BY <1>1, <2>1, NextStartIs
  <2>3. next = size \/ StartsRecord(next)
    BY <1>1, <2>2 DEF Sent
  <2>4. next \in Nat /\ pos < next /\ next <= size
    BY <1>1, <2>1, NextStartIs
  <2>5. \A k \in packets : pos < k.from /\ k.from < next => k.lost \/ ~k.flag
    BY <1>1, <2>1, NextStartIs
  <2> QED
    BY <2>3, <2>4, <2>5
<1>4. CASE host # "flagged" /\ aligned
  <2>1. next = NextReceivedStart(pos, FALSE)
    <3>1. RecordStartsFlagged = FALSE
      <4>1. RecordStartsFlagged \in BOOLEAN
        BY <1>1, FirstPacketIs DEF RecordStartsFlagged, Sent, Packet
      <4> QED
        BY <1>2, <1>4, <4>1
    <3> QED
      BY <1>4, <3>1
  <2>2. host = "packed"
    BY <1>1, <1>4, FramingAssumption
  <2>3. PICK r \in records : OrdinaryFine(r) /\ r.to <= pos
    BY <1>1, <1>4, <2>2 DEF AlignedRight
  <2>4. next \in Nat /\ pos < next /\ next <= size
    BY <1>1, <2>1, NextStartIs
  <2>5. next = size \/ next \in starts
    <3>1. next = size \/ \E k \in packets : k.from = next
      BY <1>1, <2>1, NextStartIs
    <3> QED
      BY <1>1, <3>1 DEF Sent
  <2>6. r.from < next
    BY <1>1, <2>3, <2>4, RecordsAre
  <2>7. next = size \/ StartsRecord(next)
    BY <1>1, <2>2, <2>3, <2>5, <2>6 DEF Layout, Packed, StartsRecord, Begins
  <2> QED
    BY <1>4, <2>4, <2>7
<1>5. CASE host # "flagged" /\ ~aligned
  BY <1>1, <1>2, <1>5
<1> QED
  BY <1>3, <1>4, <1>5

LEMMA WalkGoesOn ==
  ASSUME FramingInv, phase = "walk", UNCHANGED <<hostVars, sentVars, phase>>, SpansWhole', Walked'
  PROVE  FramingInv'
<1>1. Layout(host, records, size, starts)' /\ Sent' /\ phase' = "walk"
  BY FrameStays DEF FramingInv
<1> QED
  BY <1>1 DEF FramingInv, Phases

LEMMA HeaderIs ==
  ASSUME Walks, pos < size
  PROVE  /\ Min({pos + HeaderWords, size}) \in Nat /\ Min({pos + HeaderWords, size}) <= pos + HeaderWords
         /\ pos + HeaderWords <= size => Min({pos + HeaderWords, size}) = pos + HeaderWords
<1> DEFINE T == {pos + HeaderWords, size}
<1>1. pos \in Nat /\ size \in Nat
  BY RecordsAre DEF Walks, Walked, OnRecords
<1>2. T \in SUBSET Nat /\ T # {}
  BY <1>1 DEF HeaderWords
<1>3. Min(T) \in T /\ \A t \in T : Min(T) <= t
  <2> HIDE DEF T
  <2> QED
    BY <1>2, LeastIs
<1> QED
  BY <1>1, <1>3 DEF HeaderWords

LEMMA LostMeansAny ==
  ASSUME NEW a, NEW b, Lost(a, b)
  PROVE  AnyLost
  BY DEF Lost, AnyLost

\* What is noted stays noted.
LEMMA NoteLossIs ==
  ASSUME Walks, NEW past \in BOOLEAN, NoteLoss(past)
  PROVE  /\ partial' = TRUE /\ coarseLevelIntact' \in BOOLEAN
         /\ coarseLevelIntact' => coarseLevelIntact /\ (past \/ Known)
         /\ \A r : Noted(r) => Noted(r)'
  BY DEF NoteLoss, Noted, Walks, Walked, CoarseNoted

LEMMA SkipStaysOnRecords ==
  ASSUME Walks, UNCHANGED <<hostVars, sentVars>>, NEW next \in Nat, SkipTo(next),
         next <= size, next = size \/ StartsRecord(next)
  PROVE  OnRecords'
<1>1. pos' = next /\ spanStart' = next
  BY DEF SkipTo
<1>2. /\ size' = size /\ records' = records /\ host' = host /\ packets' = packets
      /\ (~Lost(0, 2)' <=> ~Lost(0, 2))
  BY FrameStays
<1>3. host # "prefixed" /\ ~Lost(0, 2)
  BY DEF Walks, Walked, OnRecords, HeaderWords
<1>4. pos' = size' \/ StartsRecord(pos)'
  BY <1>1, <1>2 DEF StartsRecord
<1>5. ~(spanStart' < pos')
  BY <1>1
<1>6. ~Lost(0, HeaderWords)'
  BY <1>2, <1>3 DEF HeaderWords
<1> QED
  BY <1>1, <1>2, <1>3, <1>4, <1>5, <1>6 DEF OnRecords

\* A step over the rest of a record or of several.
LEMMA SkipAccounts ==
  ASSUME Walks, UNCHANGED <<hostVars, sentVars>>, NEW next \in Nat, SkipTo(next),
         \A r : Noted(r) => Noted(r)',
         \A r \in Blocks : r.to <= next /\ ~(r.to <= pos) => Noted(r)'
  PROVE  Accounted'
<1>1. Blocks' = Blocks /\ pos' = next /\ \A r \in Blocks : Kept(r) => r \in Pushed'
  BY FrameStays, SkipIs
<1>2. ASSUME NEW r \in Blocks, r.to <= next PROVE Kept(r)' \/ Noted(r)'
  <2>1. CASE r.to <= pos
    <3>1. Kept(r) \/ Noted(r)
      BY <2>1 DEF Walks, Walked, Accounted
    <3> QED
      BY <1>1, <3>1 DEF Kept
  <2>2. CASE ~(r.to <= pos)
    BY <1>2, <2>2
  <2> QED
    BY <2>1, <2>2
<1> QED
  BY <1>1, <1>2 DEF Accounted

LEMMA SkipContains ==
  ASSUME Walks, UNCHANGED <<hostVars, sentVars>>, NEW next \in Nat, SkipTo(next),
         host = "flagged" =>
            \A r \in Blocks : r.from < next /\ ~(r.from < pos) =>
                                 Lost(r.from, r.to) \/ HeaderLostBefore(r)
  PROVE  Contained'
<1>1. /\ Blocks' = Blocks /\ host' = host /\ pos' = next
      /\ \A r \in Blocks : Kept(r) => r \in Pushed'
      /\ \A a, b : Lost(a, b)' <=> Lost(a, b)
      /\ \A r : HeaderLostBefore(r)' <=> HeaderLostBefore(r)
  BY FrameStays, SkipIs
<1>2. ASSUME host = "flagged", NEW r \in Blocks, r.from < next
      PROVE  Kept(r)' \/ Lost(r.from, r.to) \/ HeaderLostBefore(r)
  <2>1. CASE r.from < pos
    <3>1. Kept(r) \/ Lost(r.from, r.to) \/ HeaderLostBefore(r)
      BY <1>2, <2>1 DEF Walks, Walked, Contained
    <3> QED
      BY <1>1, <3>1 DEF Kept
  <2>2. CASE ~(r.from < pos)
    BY <1>2, <2>2
  <2> QED
    BY <2>1, <2>2
<1>3. \A r \in Blocks : Lost(r.from, r.to)' <=> Lost(r.from, r.to)
  BY <1>1
<1> QED
  BY <1>1, <1>2, <1>3 DEF Contained

LEMMA SkipLostHeaderKeeps ==
  ASSUME FramingInv, SkipLostHeader
  PROVE  FramingInv'
<1> DEFINE next == IF RecordStartsFlagged \/ aligned
                   THEN NextReceivedStart(pos, RecordStartsFlagged) ELSE size
<1>1. /\ phase = "walk" /\ pos < size /\ HeaderIsLost
      /\ NoteLoss(pastCoarseLevel) /\ SkipTo(next)
      /\ UNCHANGED <<hostVars, sentVars, phase, aligned, pastCoarseLevel, blockRecords>>
  BY DEF SkipLostHeader, Walking
<1>2. Walks
  BY <1>1 DEF FramingInv, Walks
<1>3. /\ next \in Nat /\ pos < next /\ next <= size /\ (next = size \/ StartsRecord(next))
      /\ host = "flagged" =>
            \A k \in packets : pos < k.from /\ k.from < next => k.lost \/ ~k.flag
  BY <1>1, <1>2, ResumesOnRecord
<1> HIDE DEF next
<1>4. /\ SpansWhole' /\ pos' = next /\ spanStart' = next
  BY <1>1, <1>2, <1>3, SkipIs
<1>5. /\ Layout(host, records, size, starts) /\ OnRecords /\ AlignedRight /\ CoarseNoted
      /\ pos \in Nat /\ size \in Nat /\ Sent
  BY <1>2, RecordsAre DEF Walks, Walked, OnRecords
<1>6. /\ partial' = TRUE /\ coarseLevelIntact' \in BOOLEAN
      /\ coarseLevelIntact' => coarseLevelIntact /\ (pastCoarseLevel \/ Known)
      /\ \A r : Noted(r) => Noted(r)'
  BY <1>1, <1>2, <1>5, NoteLossIs DEF CoarseNoted
<1>7. PICK p \in records : p.from = pos
  BY <1>1, <1>5 DEF OnRecords, StartsRecord
<1>8. PICK k \in packets : k.lost /\ k.from < Min({pos + HeaderWords, size}) /\ pos < k.to
  BY <1>1 DEF HeaderIsLost, Lost
<1>9. k.from \in Nat /\ k.from < pos + HeaderWords
  <2>1. k.from \in Nat
    BY <1>5 DEF Sent, Packet
  <2> QED
    BY <1>1, <1>2, <1>5, <1>8, <2>1, HeaderIs DEF HeaderWords
<1>10. AnyLost /\ AnyLost'
  BY <1>1, <1>8, FrameStays DEF AnyLost
<1>11. OnRecords'
  BY <1>1, <1>2, <1>3, SkipStaysOnRecords
<1>12. AlignedRight'
  <2>1. ASSUME aligned, host = "packed" PROVE \E r \in records : OrdinaryFine(r) /\ r.to <= next
    <3>1. PICK r \in records : OrdinaryFine(r) /\ r.to <= pos
      BY <1>5, <2>1 DEF AlignedRight
    <3>2. r.to <= next
      BY <1>3, <1>5, <3>1, RecordsAre
    <3> QED
      BY <3>1, <3>2
  <2> QED
    BY <1>1, <1>4, <2>1, FrameStays DEF AlignedRight
<1>13. CoarseNoted'
  <2>1. pastCoarseLevel => \A r \in records : r.kind = "coarse" => r.to <= next
    BY <1>3, <1>5, RecordsAre DEF CoarseNoted
  <2> QED
    BY <1>1, <1>4, <1>5, <1>6, <2>1, FrameStays DEF CoarseNoted
<1>14. ASSUME NEW r \in Blocks, ~(r.from < pos) \/ ~(r.to <= pos)
       PROVE  /\ r \in records /\ r.from \in Nat /\ r.to \in Nat
              /\ pos <= r.from /\ pos + HeaderWords <= r.to
  <2>1. r \in records /\ r.kind \in {"coarse", "fine"}
    BY DEF Blocks
  <2>2. r.from \in Nat /\ r.to \in Nat /\ r.from + HeaderWords <= r.to
    BY <1>5, <2>1, RecordsAre DEF Layout, Ranked
  <2>3. pos <= r.from
    BY <1>5, <1>7, <1>14, <2>1, <2>2, RecordsAre
  <2> QED
    BY <1>5, <2>1, <2>2, <2>3 DEF HeaderWords
<1>15. ASSUME NEW r \in Blocks, ~(r.to <= pos) PROVE Noted(r)'
  <2>1. ASSUME r.kind = "coarse", coarseLevelIntact' PROVE FALSE
    <3>1. coarseLevelIntact /\ (pastCoarseLevel \/ Known)
      BY <1>6, <2>1
    <3>2. r \in records /\ r.to \in Nat /\ pos + HeaderWords <= r.to
      BY <1>14, <1>15
    <3>3. ~pastCoarseLevel
      BY <1>5, <1>15, <2>1, <3>2 DEF CoarseNoted
    <3>4. r.to <= k.from
      BY <1>5, <1>8, <2>1, <3>1, <3>2, <3>3 DEF CoarseNoted
    <3> QED
      BY <1>5, <1>9, <3>2, <3>4 DEF HeaderWords
  <2> QED
    BY <1>6, <2>1 DEF Noted
<1>16. Accounted'
  BY <1>1, <1>2, <1>3, <1>6, <1>15, SkipAccounts
<1>17. ASSUME host = "flagged", NEW r \in Blocks, r.from < next, ~(r.from < pos)
       PROVE  HeaderLostBefore(r)
  <2>1. pos <= r.from /\ r.from \in Nat
    BY <1>14, <1>17
  <2>2. Lost(p.from, p.from + HeaderWords)
    BY <1>1, <1>5, <1>7, <1>8, <1>9 DEF Lost
  <2>3. ASSUME NEW j \in packets, p.from < j.from, j.from <= r.from PROVE j.lost \/ ~j.flag
    <3>1. j.from \in Nat
      BY <1>5 DEF Sent, Packet
    <3>2. pos < j.from /\ j.from < next
      BY <1>3, <1>5, <1>7, <1>17, <2>1, <2>3, <3>1
    <3> QED
      BY <1>3, <1>17, <3>2
  <2> QED
    BY <1>7, <2>1, <2>2, <2>3 DEF HeaderLostBefore
<1>18. Contained'
  BY <1>1, <1>2, <1>3, <1>17, SkipContains
<1>19. Counted'
  BY <1>10 DEF Counted
<1> QED
  BY <1>1, <1>4, <1>11, <1>12, <1>13, <1>16, <1>18, <1>19, WalkGoesOn DEF Walked

LEMMA SkipPaddingKeeps ==
  ASSUME FramingInv, SkipPadding
  PROVE  FramingInv'
<1>1. PICK r \in records : r.from = pos /\ r.kind = "padding" /\ SkipTo(r.to)
  BY DEF SkipPadding
<1>2. /\ phase = "walk" /\ pos < size
      /\ UNCHANGED <<hostVars, sentVars, phase, aligned, pastCoarseLevel, blockRecords, partial,
                     coarseLevelIntact>>
  BY DEF SkipPadding, Walking
<1>3. Walks
  BY <1>2 DEF FramingInv, Walks
<1> DEFINE next == r.to
<1>4. /\ Layout(host, records, size, starts) /\ AlignedRight /\ CoarseNoted /\ Counted
      /\ pos \in Nat /\ size \in Nat
  BY <1>3, RecordsAre DEF Walks, Walked, OnRecords
<1>5. next \in Nat /\ pos < next /\ next <= size /\ (next = size \/ StartsRecord(next))
  BY <1>1, <1>4, RecordsAre
<1>6. \A q \in Blocks : /\ q \in records /\ q # r /\ q.to \in Nat /\ q.from \in Nat
                        /\ q.to <= next => q.to <= pos
                        /\ q.from < next => q.from < pos
  <2> SUFFICES ASSUME NEW q \in Blocks
               PROVE  /\ q \in records /\ q # r /\ q.to \in Nat /\ q.from \in Nat
                      /\ q.to <= next => q.to <= pos
                      /\ q.from < next => q.from < pos
    OBVIOUS
  <2>1. q \in records /\ q # r
    BY <1>1 DEF Blocks
  <2>2. q.from \in Nat /\ q.to \in Nat /\ q.from < q.to
    BY <1>4, <2>1, RecordsAre
  <2>3. (q.to <= next => q.to <= pos) /\ (q.from < next => q.to <= pos)
    BY <1>1, <1>4, <2>1, RecordAt
  <2> QED
    BY <1>4, <2>1, <2>2, <2>3
<1> HIDE DEF next
<1>7. SkipTo(next)
  BY <1>1 DEF next
<1>8. SpansWhole' /\ pos' = next /\ spanStart' = next
  BY <1>2, <1>3, <1>5, <1>7, SkipIs
<1>9. OnRecords'
  BY <1>2, <1>3, <1>5, <1>7, SkipStaysOnRecords
<1>10. AlignedRight'
  <2>1. ASSUME NEW q \in records, q.to <= pos PROVE q.to <= next
    BY <1>4, <1>5, <2>1, RecordsAre
  <2> QED
    BY <1>2, <1>4, <1>8, <2>1, FrameStays DEF AlignedRight
<1>11. CoarseNoted'
  <2>1. ASSUME NEW q \in records, q.to <= pos PROVE q.to <= next
    BY <1>4, <1>5, <2>1, RecordsAre
  <2> QED
    BY <1>2, <1>4, <1>8, <2>1, FrameStays DEF CoarseNoted
<1>12. Accounted'
  <2>1. \A q : Noted(q) => Noted(q)'
    BY <1>2 DEF Noted
  <2> QED
    BY <1>2, <1>3, <1>5, <1>6, <1>7, <2>1, SkipAccounts
<1>13. Contained'
  BY <1>2, <1>3, <1>5, <1>6, <1>7, SkipContains
<1>14. Counted'
  <2>1. \A q \in Blocks : q.to <= next <=> q.to <= pos
    BY <1>4, <1>5, <1>6
  <2>2. {q \in Blocks : q.to <= next} = {q \in Blocks : q.to <= pos}
    BY <2>1
  <2>3. {q \in Blocks' : q.to <= pos'} = {q \in Blocks : q.to <= pos}
    BY <1>2, <1>8, <2>2, FrameStays
  <2> QED
    BY <1>2, <1>4, <2>3, FrameStays DEF Counted
<1> QED
  BY <1>2, <1>8, <1>9, <1>10, <1>11, <1>12, <1>13, <1>14, WalkGoesOn DEF Walked

LEMMA SkipLostPayloadKeeps ==
  ASSUME FramingInv, SkipLostPayload
  PROVE  FramingInv'
<1>1. PICK r \in Blocks : /\ r.from = pos /\ Lost(r.from, r.to)
                          /\ pastCoarseLevel' = Past(r)
                          /\ NoteLoss(Past(r))
                          /\ SkipTo(r.to)
  BY DEF SkipLostPayload
<1>2. /\ phase = "walk" /\ pos < size /\ aligned' = FALSE
      /\ UNCHANGED <<hostVars, sentVars, phase, blockRecords>>
  BY DEF SkipLostPayload, Walking
<1>3. Walks
  BY <1>2 DEF FramingInv, Walks
<1> DEFINE next == r.to
<1>4. /\ Layout(host, records, size, starts) /\ CoarseNoted /\ Sent
      /\ pos \in Nat /\ size \in Nat /\ r \in records /\ r.kind \in {"coarse", "fine"}
  BY <1>3, RecordsAre DEF Walks, Walked, OnRecords, Blocks
<1>5. next \in Nat /\ pos < next /\ next <= size /\ (next = size \/ StartsRecord(next))
  BY <1>1, <1>4, RecordsAre
<1>6. Past(r) \in BOOLEAN
  BY <1>4 DEF Past, CoarseNoted
<1>7. /\ partial' = TRUE /\ coarseLevelIntact' \in BOOLEAN
      /\ coarseLevelIntact' => coarseLevelIntact /\ (Past(r) \/ Known)
      /\ \A q : Noted(q) => Noted(q)'
  BY <1>1, <1>3, <1>6, NoteLossIs
<1>8. \A q \in records : /\ q.to <= next => q = r \/ q.to <= pos
                         /\ q.from < next => q = r \/ q.to <= pos
  BY <1>1, <1>4, RecordAt
<1> HIDE DEF next
<1>9. SkipTo(next)
  BY <1>1 DEF next
<1>10. SpansWhole' /\ pos' = next /\ spanStart' = next
  BY <1>2, <1>3, <1>5, <1>9, SkipIs
<1>11. OnRecords'
  BY <1>2, <1>3, <1>5, <1>9, SkipStaysOnRecords
<1>12. AlignedRight'
  BY <1>2 DEF AlignedRight
<1>13. CoarseNoted'
  <2>1. ASSUME Past(r), NEW q \in records, q.kind = "coarse" PROVE q.to <= next
    <3>1. CASE pastCoarseLevel
      <4>1. q.to <= pos /\ q.to \in Nat
        BY <1>4, <2>1, <3>1, RecordsAre DEF CoarseNoted
      <4> QED
        BY <1>4, <1>5, <4>1
    <3>2. CASE r.kind = "fine"
      <4>1. q.to <= r.from /\ q.to \in Nat
        BY <1>4, <2>1, <3>2, RecordsAre DEF Layout, Ranked
      <4> QED
        BY <1>1, <1>4, <1>5, <4>1
    <3> QED
      BY <2>1, <3>1, <3>2 DEF Past
  <2>2. Known' <=> Known
    BY <1>2, FrameStays
  <2>3. packets' = packets /\ records' = records
    BY <1>2, FrameStays
  <2> QED
    BY <1>1, <1>4, <1>6, <1>7, <1>10, <2>1, <2>2, <2>3 DEF CoarseNoted
<1>14. Noted(r)'
  <2>1. ASSUME r.kind = "coarse", coarseLevelIntact' PROVE FALSE
    <3>1. coarseLevelIntact /\ (Past(r) \/ Known)
      BY <1>7, <2>1
    <3>2. r.to \in Nat /\ ~(r.to <= pos)
      BY <1>4, <1>5 DEF next
    <3>3. ~pastCoarseLevel
      BY <1>4, <2>1, <3>2 DEF CoarseNoted
    <3>4. Known
      BY <2>1, <3>1, <3>3 DEF Past
    <3>5. PICK k \in packets : k.lost /\ k.from < r.to
      BY <1>1 DEF Lost
    <3>6. r.to <= k.from
      BY <1>4, <2>1, <3>1, <3>4, <3>5 DEF CoarseNoted
    <3>7. k.from \in Nat
      BY <1>4 DEF Sent, Packet
    <3> QED
      BY <3>2, <3>5, <3>6, <3>7
  <2> QED
    BY <1>7, <2>1 DEF Noted
<1>15. Accounted'
  <2>1. ASSUME NEW q \in Blocks, q.to <= next, ~(q.to <= pos) PROVE Noted(q)'
    <3>1. q = r
      BY <1>8, <2>1 DEF Blocks
    <3> QED
      BY <1>14, <3>1
  <2> QED
    BY <1>2, <1>3, <1>5, <1>7, <1>9, <2>1, SkipAccounts
<1>16. Contained'
  <2>1. ASSUME NEW q \in Blocks, q.from < next, ~(q.from < pos) PROVE Lost(q.from, q.to)
    <3>1. q \in records /\ q.from \in Nat /\ q.to \in Nat /\ q.from < q.to
      BY <1>4, RecordsAre DEF Blocks
    <3>2. q = r
      BY <1>4, <1>8, <2>1, <3>1
    <3> QED
      BY <1>1, <3>2
  <2> QED
    BY <1>2, <1>3, <1>5, <1>9, <2>1, SkipContains
<1>17. Counted'
  BY <1>1, <1>2, LostMeansAny, FrameStays DEF Counted
<1> QED
  BY <1>2, <1>10, <1>11, <1>12, <1>13, <1>15, <1>16, <1>17, WalkGoesOn DEF Walked

\* A record that arrived joins those before it.
LEMMA WholeGrows ==
  ASSUME Walks, NEW r \in records, r.from = pos, r.kind \in Payload, ~Lost(r.from, r.to)
  PROVE  Whole(spanStart, r.to)
<1>1. /\ Layout(host, records, size, starts) /\ Sent
      /\ pos \in Nat /\ spanStart \in Nat /\ spanStart <= pos
      /\ spanStart < pos => Whole(spanStart, pos)
  BY DEF Walks, Walked, OnRecords
<1>2. /\ size \in Nat /\ r.to \in Nat /\ pos < r.to /\ r.to <= size
      /\ \A q \in records : q.from \in Nat /\ q.to \in Nat /\ q.from < q.to
  BY <1>1, RecordsAre
<1>3. ASSUME NEW k \in packets, k.lost, k.from < r.to, spanStart < k.to PROVE FALSE
  <2>1. k.from \in Nat /\ k.to \in Nat /\ k.from < k.to
    <3>1. k.from \in starts /\ k.to = PacketEnd(k.from)
      BY <1>1 DEF Sent
    <3> QED
      BY <1>1, <3>1, PacketEndIs
  <2>2. CASE pos < k.to
    BY <1>3, <2>2 DEF Lost
  <2>3. CASE k.to <= pos
    <3>1. spanStart < pos /\ k.from < pos
      BY <1>1, <1>3, <2>1, <2>3
    <3>2. ~Lost(spanStart, pos)
      BY <1>1, <3>1 DEF Whole
    <3> QED
      BY <1>3, <3>1, <3>2 DEF Lost
  <2> QED
    BY <1>1, <2>1, <2>2, <2>3
<1>4. ASSUME NEW q \in records, q.from < r.to, spanStart < q.to
      PROVE  spanStart <= q.from /\ q.to <= r.to /\ q.kind \in Payload
  <2>1. CASE q = r
    BY <1>1, <1>2, <2>1
  <2>2. CASE q.to <= pos
    <3>1. spanStart < pos /\ q.from < pos
      BY <1>1, <1>2, <1>4, <2>2
    <3>2. spanStart <= q.from /\ q.to <= pos /\ q.kind \in Payload
      BY <1>1, <1>4, <3>1 DEF Whole
    <3> QED
      BY <1>1, <1>2, <3>2
  <2>3. q = r \/ q.to <= r.from
    BY <1>1, <1>4, RecordAt
  <2> QED
    BY <2>1, <2>2, <2>3
<1>5. spanStart < r.to
  BY <1>1, <1>2
<1> QED
  BY <1>2, <1>3, <1>4, <1>5 DEF Whole, Lost

\* The walk reads a record that arrived.
LEMMA ReadOn ==
  ASSUME Walks, UNCHANGED <<hostVars, sentVars, spanStart, spans, partial, coarseLevelIntact>>,
         NEW r \in records, r.from = pos, r.kind \in Payload, ~Lost(r.from, r.to), pos' = r.to
  PROVE  SpansWhole' /\ OnRecords' /\ Accounted' /\ Contained'
<1>1. /\ Layout(host, records, size, starts) /\ OnRecords /\ Accounted /\ Contained /\ SpansWhole
      /\ pos \in Nat /\ spanStart \in Nat /\ spanStart <= pos
  BY DEF Walks, Walked, OnRecords
<1>2. /\ size \in Nat /\ r.to \in Nat /\ pos < r.to /\ r.to <= size
      /\ r.to = size \/ StartsRecord(r.to)
  BY <1>1, RecordsAre
<1>3. /\ spanStart' = spanStart /\ spans' = spans /\ partial' = partial
      /\ coarseLevelIntact' = coarseLevelIntact
      /\ Blocks' = Blocks /\ records' = records /\ size' = size /\ host' = host
      /\ \A a, b : Lost(a, b)' <=> Lost(a, b)
      /\ \A a, b : Whole(a, b)' <=> Whole(a, b)
      /\ \A q : HeaderLostBefore(q)' <=> HeaderLostBefore(q)
      /\ (~Lost(0, 2)' <=> ~Lost(0, 2))
  BY FrameStays
<1>4. SpansWhole'
  BY <1>1, <1>3 DEF SpansWhole
<1>5. OnRecords'
  <2>1. Whole(spanStart, r.to)
    BY WholeGrows
  <2>2. Whole(spanStart, r.to)'
    BY <1>3, <2>1
  <2>3. Whole(spanStart, pos)'
    BY <2>2 DEF Whole, Lost
  <2>4. pos' = size' \/ StartsRecord(pos)'
    BY <1>2, <1>3 DEF StartsRecord
  <2>5. ~Lost(0, HeaderWords)' /\ host' # "prefixed"
    BY <1>1, <1>3 DEF OnRecords, HeaderWords
  <2>6. spanStart' <= pos' /\ pos' <= size' /\ pos' \in Nat /\ spanStart' \in Nat
    BY <1>1, <1>2, <1>3
  <2> QED
    BY <2>3, <2>4, <2>5, <2>6 DEF OnRecords
<1>6. ASSUME NEW q \in Blocks PROVE (Kept(q) => Kept(q)') /\ (Noted(q) => Noted(q)')
  <2>1. q.from \in Nat /\ q.to \in Nat
    BY <1>1, RecordsAre DEF Blocks
  <2>2. q \in Pushed => q \in Pushed'
    BY <1>3 DEF Pushed
  <2>3. q.to <= pos => q.to <= pos'
    BY <1>1, <1>2, <2>1
  <2> QED
    BY <1>3, <2>2, <2>3 DEF Kept, Noted
<1>7. r \in Blocks => Kept(r)'
  <2>1. spanStart' <= r.from /\ r.to <= pos'
    BY <1>1, <1>2, <1>3
  <2> QED
    BY <2>1 DEF Kept
<1>8. \A q \in records : /\ q.to <= r.to => q = r \/ q.to <= pos
                         /\ q.from < r.to => q = r \/ q.to <= pos
  BY <1>1, RecordAt
<1>9. Accounted'
  <2>1. ASSUME NEW q \in Blocks, q.to <= r.to PROVE Kept(q)' \/ Noted(q)'
    <3>1. q = r \/ q.to <= pos
      BY <1>8, <2>1 DEF Blocks
    <3> QED
      BY <1>1, <1>6, <1>7, <3>1 DEF Accounted
  <2> QED
    BY <1>3, <2>1 DEF Accounted
<1>10. Contained'
  <2>1. ASSUME host = "flagged", NEW q \in Blocks, q.from < r.to
        PROVE  Kept(q)' \/ Lost(q.from, q.to)' \/ HeaderLostBefore(q)'
    <3>1. q = r \/ q.from < pos
      <4>1. q = r \/ q.to <= pos
        BY <1>8, <2>1 DEF Blocks
      <4>2. q.from \in Nat /\ q.to \in Nat /\ q.from < q.to
        BY <1>1, RecordsAre DEF Blocks
      <4> QED
        BY <1>1, <4>1, <4>2
    <3> QED
      BY <1>1, <1>3, <1>6, <1>7, <2>1, <3>1 DEF Contained
  <2> QED
    BY <1>3, <2>1 DEF Contained
<1> QED
  BY <1>4, <1>5, <1>9, <1>10

LEMMA WalkSequenceHeaderKeeps ==
  ASSUME FramingInv, WalkSequenceHeader
  PROVE  FramingInv'
<1>1. PICK r \in records : r.from = pos /\ r.kind = "sequence" /\ pos' = r.to
  BY DEF WalkSequenceHeader
<1>2. /\ phase = "walk" /\ pos < size /\ ~HeaderIsLost
      /\ UNCHANGED <<hostVars, sentVars, phase, spanStart, aligned, pastCoarseLevel, parsedVars>>
      /\ UNCHANGED <<spans, blockRecords, partial, coarseLevelIntact>>
  BY DEF WalkSequenceHeader, Walking, parsedVars
<1>3. Walks
  BY <1>2 DEF FramingInv, Walks
<1>4. /\ Layout(host, records, size, starts) /\ AlignedRight /\ CoarseNoted /\ Counted
      /\ pos \in Nat /\ size \in Nat
      /\ r.to \in Nat /\ pos < r.to /\ r.to <= size /\ r.to = pos + HeaderWords
  BY <1>1, <1>3, RecordsAre DEF Walks, Walked, OnRecords, Layout, Ranked
<1>5. ~Lost(r.from, r.to)
  <2>1. Min({pos + HeaderWords, size}) = r.to
    BY <1>2, <1>3, <1>4, HeaderIs
  <2> QED
    BY <1>1, <1>2, <2>1 DEF HeaderIsLost
<1>6. SpansWhole' /\ OnRecords' /\ Accounted' /\ Contained'
  BY <1>1, <1>2, <1>3, <1>5, ReadOn DEF Payload
<1>7. ASSUME NEW q \in records, q.to <= pos PROVE q.to <= r.to
  BY <1>4, <1>7, RecordsAre
<1>8. AlignedRight'
  BY <1>1, <1>2, <1>4, <1>7, FrameStays DEF AlignedRight
<1>9. CoarseNoted'
  BY <1>1, <1>2, <1>4, <1>7, FrameStays DEF CoarseNoted
<1>10. Counted'
  <2>1. \A q \in Blocks : q.to <= r.to <=> q.to <= pos
    <3> SUFFICES ASSUME NEW q \in Blocks, q.to <= r.to PROVE q.to <= pos
      BY <1>7 DEF Blocks
    <3>1. q \in records /\ q # r
      BY <1>1 DEF Blocks
    <3> QED
      BY <1>1, <1>4, <3>1, RecordAt
  <2>2. {q \in Blocks' : q.to <= pos'} = {q \in Blocks : q.to <= pos}
    BY <1>1, <1>2, <2>1, FrameStays
  <2> QED
    BY <1>2, <1>4, <2>2, FrameStays DEF Counted
<1> QED
  BY <1>2, <1>6, <1>8, <1>9, <1>10, WalkGoesOn DEF Walked

\* An ordinary record within its packet is no longer than the first packet.
LEMMA AlignedMeansOrdinary ==
  ASSUME Layout(host, records, size, starts), Sent, host = "packed",
         AnyLost, ~Lost(0, HeaderWords), NEW n \in Nat, Ordinary(n)
  PROVE  ~Oversized(n)
<1>1. n + HeaderWords <= FirstPacket.to + HeaderWords
  BY TwoPackets DEF Ordinary
<1>2. FirstPacket \in packets /\ FirstPacket.from = 0 /\ 0 \in starts
  BY FirstPacketIs DEF Layout, StartsFit
<1>3. FirstPacket.to = PacketEnd(0)
  BY <1>2 DEF Sent
<1>4. PICK t \in starts : 0 < t /\ t <= Capacity(0)
  <2>1. ~(starts = {0})
    <3> SUFFICES ASSUME starts = {0} PROVE FALSE
      OBVIOUS
    <3>1. PICK k \in packets : k.lost
      BY DEF AnyLost
    <3>2. k.from = 0
      BY <3>1 DEF Sent
    <3>3. k = FirstPacket
      BY <1>2, <3>2 DEF Sent
    <3> QED
      BY <3>1, <3>3, TwoPackets
  <2> QED
    BY <2>1 DEF Layout, Packed
<1>5. PacketEnd(0) <= t /\ PacketEnd(0) \in Nat /\ t \in Nat
  BY <1>2, <1>4, PacketEndIs
<1>6. Capacity(0) + HeaderWords = PacketWords /\ Capacity(0) \in Nat
  BY FramingAssumption DEF Capacity, HeaderWords
<1>7. n <= Capacity(0)
  BY <1>1, <1>3, <1>4, <1>5, <1>6 DEF HeaderWords
<1> QED
  BY <1>6, <1>7, FramingAssumption DEF Oversized, HeaderWords

LEMMA WalkBlockKeeps ==
  ASSUME FramingInv, WalkBlock
  PROVE  FramingInv'
<1>1. PICK r \in Blocks :
         /\ r.from = pos /\ ~Lost(r.from, r.to)
         /\ pastCoarseLevel' = Past(r)
         /\ aligned' = /\ AnyLost /\ Ordinary(r.to - r.from)
                       /\ r.kind = "fine" /\ WithinOnePacket(r.from, r.to)
         /\ pos' = r.to
  BY DEF WalkBlock
<1>2. /\ phase = "walk" /\ blockRecords' = blockRecords + 1
      /\ UNCHANGED <<hostVars, sentVars, phase, spanStart, spans, partial, coarseLevelIntact>>
  BY DEF WalkBlock, Walking
<1>3. Walks
  BY <1>2 DEF FramingInv, Walks
<1>4. /\ Layout(host, records, size, starts) /\ Sent /\ CoarseNoted /\ Counted /\ ~Lost(0, HeaderWords)
      /\ pos \in Nat /\ size \in Nat /\ r \in records /\ r.kind \in {"coarse", "fine"}
  BY <1>1, <1>3, RecordsAre DEF Walks, Walked, OnRecords, Blocks
<1>5. r.to \in Nat /\ pos < r.to /\ r.to <= size
  BY <1>1, <1>4, RecordsAre
<1>6. SpansWhole' /\ OnRecords' /\ Accounted' /\ Contained'
  BY <1>1, <1>2, <1>3, <1>4, ReadOn DEF Payload
<1>7. AlignedRight'
  <2>1. ASSUME aligned', host = "packed" PROVE OrdinaryFine(r)
    <3>1. AnyLost /\ Ordinary(r.to - r.from) /\ r.kind = "fine"
      BY <1>1, <2>1
    <3>2. r.to - r.from \in Nat
      BY <1>1, <1>4, <1>5
    <3> QED
      BY <1>4, <2>1, <3>1, <3>2, AlignedMeansOrdinary DEF OrdinaryFine
  <2>2. r.to <= pos'
    BY <1>1, <1>5
  <2> QED
    BY <1>2, <1>4, <2>1, <2>2, FrameStays DEF AlignedRight
<1>8. CoarseNoted'
  <2>1. ASSUME Past(r), NEW q \in records, q.kind = "coarse" PROVE q.to <= r.to
    <3>1. CASE pastCoarseLevel
      <4>1. q.to <= pos /\ q.to \in Nat
        BY <1>4, <2>1, <3>1, RecordsAre DEF CoarseNoted
      <4> QED
        BY <1>4, <1>5, <4>1
    <3>2. CASE r.kind = "fine"
      <4>1. q.to <= r.from /\ q.to \in Nat
        BY <1>4, <2>1, <3>2, RecordsAre DEF Layout, Ranked
      <4> QED
        BY <1>1, <1>4, <1>5, <4>1
    <3> QED
      BY <2>1, <3>1, <3>2 DEF Past
  <2>2. Past(r) \in BOOLEAN
    BY <1>4 DEF Past, CoarseNoted
  <2>3. (Known' <=> Known) /\ packets' = packets /\ records' = records
    BY <1>2, FrameStays
  <2> QED
    BY <1>1, <1>2, <1>4, <2>1, <2>2, <2>3 DEF CoarseNoted
<1>9. Counted'
  <2> DEFINE S == {q \in Blocks : q.to <= pos}
  <2>1. r \notin S
    BY <1>4, <1>5
  <2>2. {q \in Blocks : q.to <= r.to} = S \cup {r}
    <3>1. ASSUME NEW q \in Blocks, q.to <= r.to PROVE q = r \/ q.to <= pos
      BY <1>1, <1>4, <3>1, RecordAt DEF Blocks
    <3>2. ASSUME NEW q \in Blocks, q.to <= pos PROVE q.to <= r.to
      BY <1>4, <1>5, <3>2, RecordsAre DEF Blocks
    <3>3. r.to <= r.to
      BY <1>5
    <3> QED
      BY <1>1, <3>1, <3>2, <3>3
  <2>3. IsFiniteSet(S)
    <3>1. S \in SUBSET records
      BY DEF Blocks
    <3>2. IsFiniteSet(records)
      BY <1>4 DEF Layout, Tiled
    <3> HIDE DEF S
    <3> QED
      BY <3>1, <3>2, FS_Subset
  <2>4. {q \in Blocks' : q.to <= pos'} = S \cup {r}
    BY <1>1, <1>2, <2>2, FrameStays
  <2>5. ~AnyLost => ~partial /\ blockRecords = Cardinality(S)
    BY <1>4 DEF Counted
  <2> HIDE DEF S
  <2>6. Cardinality(S \cup {r}) = Cardinality(S) + 1
    BY <2>1, <2>3, FS_AddElement
  <2> QED
    BY <1>2, <2>4, <2>5, <2>6, FrameStays DEF Counted
<1> QED
  BY <1>2, <1>6, <1>7, <1>8, <1>9, WalkGoesOn DEF Walked

LEMMA EndWalkKeeps ==
  ASSUME FramingInv, EndWalk
  PROVE  FramingInv'
<1>1. /\ phase = "walk" /\ pos >= size /\ SkipTo(pos)
      /\ phase' = IF partial \/ blockRecords = AnnouncedBlocks THEN "parsed" ELSE "rejected"
      /\ UNCHANGED <<hostVars, sentVars, aligned, pastCoarseLevel, blockRecords, partial,
                     coarseLevelIntact>>
  BY DEF EndWalk
<1>2. Walks
  BY <1>1 DEF FramingInv, Walks
<1>3. /\ Layout(host, records, size, starts) /\ Sent /\ CoarseNoted /\ Counted
      /\ Accounted /\ Contained /\ pos \in Nat /\ pos = size
  BY <1>1, <1>2, RecordsAre DEF Walks, Walked, OnRecords
<1>4. SpansWhole' /\ \A r \in Blocks : Kept(r) => r \in Pushed'
  BY <1>1, <1>2, <1>3, SkipIs
<1>5. /\ Layout(host, records, size, starts)' /\ Sent' /\ Blocks' = Blocks /\ host' = host
      /\ (AnyLost' <=> AnyLost)
      /\ \A a, b : Lost(a, b)' <=> Lost(a, b)
      /\ \A r : HeaderLostBefore(r)' <=> HeaderLostBefore(r)
  BY <1>1, <1>3, FrameStays
<1>6. \A r \in Blocks : r.to <= pos /\ r.from < pos
  <2> SUFFICES ASSUME NEW r \in Blocks PROVE r.to <= pos /\ r.from < pos
    OBVIOUS
  <2>1. r.from \in Nat /\ r.to \in Nat /\ r.from < r.to /\ r.to <= size
    BY <1>3, RecordsAre DEF Blocks
  <2> QED
    BY <1>3, <2>1
<1>7. Ended'
  <2>1. \A r \in Blocks : r \in Pushed' \/ Noted(r)'
    BY <1>1, <1>3, <1>4, <1>6 DEF Accounted, Noted
  <2>2. host = "flagged" =>
           \A r \in Blocks : r \in Pushed' \/ Lost(r.from, r.to) \/ HeaderLostBefore(r)
    BY <1>3, <1>4, <1>6 DEF Contained
  <2>3. \A r \in Blocks : (Lost(r.from, r.to)' <=> Lost(r.from, r.to))
    BY <1>5
  <2>4. partial' \in BOOLEAN /\ coarseLevelIntact' \in BOOLEAN /\ (~AnyLost' => ~partial')
    BY <1>1, <1>3, <1>5 DEF CoarseNoted, Counted
  <2> QED
    BY <1>5, <2>1, <2>2, <2>3, <2>4 DEF Ended
<1>8. ~AnyLost' => phase' = "parsed"
  <2>1. {r \in Blocks : r.to <= pos} = Blocks
    BY <1>6
  <2> QED
    BY <1>1, <1>3, <1>5, <2>1 DEF Counted, AnnouncedBlocks
<1>9. phase' \in {"parsed", "rejected"}
  BY <1>1
<1> QED
  BY <1>4, <1>5, <1>7, <1>8, <1>9 DEF FramingInv, Phases

LEMMA DecodeFrameKeeps ==
  ASSUME FramingInv, DecodeFrame
  PROVE  FramingInv'
<1>1. /\ phase = "parsed"
      /\ phase' = IF IsReady /\ (partial => coarseLevelIntact) THEN "shown" ELSE "dropped"
      /\ UNCHANGED <<hostVars, sentVars, walkVars, parsedVars>>
  BY DEF DecodeFrame
<1>2. Layout(host, records, size, starts) /\ Sent /\ SpansWhole /\ Ended
  BY <1>1 DEF FramingInv
<1>3. /\ Layout(host, records, size, starts)' /\ Sent' /\ Blocks' = Blocks /\ host' = host
      /\ records' = records
      /\ (AnyLost' <=> AnyLost)
      /\ \A a, b : Lost(a, b)' <=> Lost(a, b)
      /\ \A a, b : Whole(a, b)' <=> Whole(a, b)
      /\ \A r : HeaderLostBefore(r)' <=> HeaderLostBefore(r)
  BY <1>1, <1>2, FrameStays
<1>4. /\ spans' = spans /\ partial' = partial /\ coarseLevelIntact' = coarseLevelIntact
  BY <1>1 DEF parsedVars
<1>5. SpansWhole'
  BY <1>2, <1>3, <1>4 DEF SpansWhole
<1>6. Pushed' = Pushed
  BY <1>3, <1>4 DEF Pushed
<1>7. Ended'
  <2>1. \A r \in Blocks : (Lost(r.from, r.to)' <=> Lost(r.from, r.to)) /\ (Noted(r)' <=> Noted(r))
    BY <1>3, <1>4 DEF Noted
  <2> QED
    BY <1>2, <1>3, <1>4, <1>6, <2>1 DEF Ended
<1>8. ~AnyLost => phase' = "shown"
  <2> SUFFICES ASSUME ~AnyLost PROVE IsReady /\ ~partial
    BY <1>1
  <2>1. ~partial
    BY <1>2 DEF Ended
  <2>2. Blocks \subseteq Pushed
    BY <1>2, <2>1 DEF Ended, Noted
  <2>3. Pushed = Blocks
    BY <2>2 DEF Pushed
  <2>4. Cardinality(Blocks) \in Nat
    <3>1. IsFiniteSet(records) /\ Blocks \in SUBSET records
      BY <1>2 DEF Layout, Tiled, Blocks
    <3> QED
      BY <3>1, FS_Subset, FS_CardinalityType
  <2> QED
    BY <2>1, <2>3, <2>4 DEF IsReady, AnnouncedBlocks
<1>9. phase' \in {"shown", "dropped"} /\ (phase' = "shown" => (partial' => coarseLevelIntact'))
  BY <1>1, <1>4
<1> QED
  BY <1>3, <1>5, <1>7, <1>8, <1>9 DEF FramingInv, Phases

LEMMA FramingStutters ==
  ASSUME FramingInv, UNCHANGED framingVars
  PROVE  FramingInv'
<1>1. UNCHANGED <<hostVars, sentVars>> /\ phase' = phase
      /\ pos' = pos /\ spanStart' = spanStart /\ aligned' = aligned
      /\ pastCoarseLevel' = pastCoarseLevel
      /\ spans' = spans /\ blockRecords' = blockRecords /\ partial' = partial
      /\ coarseLevelIntact' = coarseLevelIntact
  BY DEF framingVars, walkVars, parsedVars
<1>2. /\ Layout(host, records, size, starts)' <=> Layout(host, records, size, starts)
      /\ Sent' <=> Sent
      /\ AnyLost' <=> AnyLost
      /\ Blocks' = Blocks /\ records' = records /\ size' = size /\ host' = host
      /\ packets' = packets /\ (Known' <=> Known)
      /\ \A a, b : Lost(a, b)' <=> Lost(a, b)
      /\ \A a, b : Whole(a, b)' <=> Whole(a, b)
      /\ \A r : HeaderLostBefore(r)' <=> HeaderLostBefore(r)
  BY <1>1, FrameStays
<1>3. Pushed' = Pushed
  BY <1>1, <1>2 DEF Pushed
<1>4. \A r : (Kept(r)' <=> Kept(r)) /\ (Noted(r)' <=> Noted(r))
  BY <1>1, <1>3 DEF Kept, Noted
<1>5. \A r : Lost(r.from, r.to)' <=> Lost(r.from, r.to)
  BY <1>2
<1>6. SpansWhole' <=> SpansWhole
  BY <1>1, <1>2 DEF SpansWhole
<1>7. Fresh' <=> Fresh
  BY <1>1 DEF Fresh
<1>8. OnRecords' <=> OnRecords
  <2>1. StartsRecord(pos)' <=> StartsRecord(pos)
    BY <1>1, <1>2 DEF StartsRecord
  <2>2. Whole(spanStart, pos)' <=> Whole(spanStart, pos)
    BY <1>1, <1>2 DEF Whole, Lost
  <2>3. Lost(0, HeaderWords)' <=> Lost(0, HeaderWords)
    BY <1>2 DEF HeaderWords, Lost
  <2> QED
    BY <1>1, <1>2, <2>1, <2>2, <2>3 DEF OnRecords
<1>9. Walked' <=> Walked
  BY <1>1, <1>2, <1>4, <1>5, <1>8 DEF Walked, AlignedRight, CoarseNoted, Accounted, Contained,
     Counted
<1>10. Ended' <=> Ended
  BY <1>1, <1>2, <1>3, <1>4, <1>5 DEF Ended
<1> QED
  BY <1>1, <1>2, <1>6, <1>7, <1>9, <1>10 DEF FramingInv

\* Every step keeps the invariant.
LEMMA FramingInvariance == FramingSpec => []FramingInv
<1>1. FramingInit => FramingInv
  BY FramingBegins
<1>2. FramingInv /\ [FramingNext]_framingVars => FramingInv'
  BY PutKeeps, SendKeeps, ParseKeeps, WalkPacketsKeeps, SkipLostHeaderKeeps, SkipPaddingKeeps,
     WalkSequenceHeaderKeeps, SkipLostPayloadKeeps, WalkBlockKeeps, EndWalkKeeps,
     DecodeFrameKeeps, FramingStutters DEF FramingNext
<1> QED
  BY <1>1, <1>2, PTL DEF FramingSpec

\* Whatever is lost, with packets and records of any size: the walk reads headers
\* where records start, and hands over records in one piece.
THEOREM WholeRecordsOnly == FramingSpec => []OnlyWholeRecordsArePushed
<1>1. FramingInv => OnlyWholeRecordsArePushed
  <2> SUFFICES ASSUME FramingInv PROVE OnlyWholeRecordsArePushed
    OBVIOUS
  <2>1. phase = "walk" => pos = size \/ StartsRecord(pos)
    BY DEF FramingInv, Walked, OnRecords
  <2>2. \A s \in spans : Whole(s.from, s.to)
    BY DEF FramingInv, SpansWhole
  <2> QED
    BY <2>1, <2>2 DEF OnlyWholeRecordsArePushed, Whole, In, Payload
<1> QED
  BY <1>1, FramingInvariance, PTL

\* A frame that is shown has every block of its coarsest level.
THEOREM ShownWithCoarseLevel == FramingSpec => []CoarseLevelIsWhole
<1>1. FramingInv => CoarseLevelIsWhole
  <2> SUFFICES ASSUME FramingInv, phase = "shown", NEW r \in Blocks, r.kind = "coarse"
               PROVE  r \in Pushed
    BY DEF CoarseLevelIsWhole
  <2>1. Ended /\ (partial => coarseLevelIntact)
    BY DEF FramingInv
  <2> QED
    BY <2>1 DEF Ended, Noted
<1> QED
  BY <1>1, FramingInvariance, PTL

\* A frame without a loss is shown; with flagged packets a loss costs what it touched
\* and what lies before the next packet that starts with a record.
THEOREM LossStaysContained == FramingSpec => []LossIsContained
<1>1. FramingInv => LossIsContained
  BY DEF FramingInv, LossIsContained, Ended
<1> QED
  BY <1>1, FramingInvariance, PTL
\* A step of the walk leaves only what it learnt of the host and its count to look at.
LEMMA WalkTypes ==
  ASSUME FramingInv', phase' = "walk", aligned' \in BOOLEAN, blockRecords' \in Nat
  PROVE  FramingTypeOK'
<1>1. /\ pos' \in Nat /\ spanStart' \in Nat /\ pastCoarseLevel' \in BOOLEAN
      /\ partial' \in BOOLEAN /\ coarseLevelIntact' \in BOOLEAN
  BY DEF FramingInv, Walked, OnRecords, CoarseNoted
<1>2. size' \in Nat
  BY DEF FramingInv, Layout, Tiled
<1> QED
  BY <1>1, <1>2 DEF FramingTypeOK

\* Every variable that the parser counts or compares with keeps its type.
THEOREM FramingTypes == FramingSpec => []FramingTypeOK
<1> USE DEF FramingTypeOK
<1>1. FramingInit => FramingTypeOK
  <2> SUFFICES ASSUME FramingInit PROVE FramingTypeOK
    OBVIOUS
  <2>1. size \in Nat
    BY FramingBegins DEF FramingInv, Layout, Tiled
  <2> QED
    BY <2>1 DEF FramingInit
<1>2. ASSUME FramingInv, FramingInv', FramingTypeOK, [FramingNext]_framingVars
      PROVE  FramingTypeOK'
  <2>0. size' \in Nat /\ phase' \in Phases
    BY <1>2 DEF FramingInv, Layout, Tiled
  <2>1. CASE Put \/ Send \/ UNCHANGED framingVars
    BY <1>2, <2>0, <2>1 DEF Put, Send, framingVars, walkVars, parsedVars, Phases
  <2>2. CASE ParseFrame
    <3>1. UNCHANGED <<walkVars, spans, blockRecords, partial>>
      BY <2>2 DEF ParseFrame, parsedVars
    <3>2. coarseLevelIntact' \in BOOLEAN
      BY <1>2, <2>2 DEF ParseFrame, parsedVars
    <3> QED
      BY <1>2, <2>0, <3>1, <3>2 DEF walkVars, Phases
  <2>3. CASE WalkPackets
    <3>1. Ended' /\ phase' = "parsed"
      BY <1>2, <2>3 DEF WalkPackets, FramingInv
    <3>2. UNCHANGED <<walkVars, partial, coarseLevelIntact>>
          /\ blockRecords' = Cardinality(Blocks)
      BY <2>3 DEF WalkPackets
    <3>3. IsFiniteSet(Blocks)
      <4>1. IsFiniteSet(records)
        BY <1>2 DEF FramingInv, Layout, Tiled
      <4>2. Blocks \subseteq records
        BY DEF Blocks
      <4> QED
        BY <4>1, <4>2, FS_Subset
    <3>4. blockRecords' \in Nat
      BY <3>2, <3>3, FS_CardinalityType
    <3> QED
      BY <1>2, <2>0, <3>1, <3>2, <3>4 DEF walkVars
  <2>4. CASE SkipLostHeader \/ SkipPadding \/ WalkSequenceHeader
    <3>1. phase' = "walk" /\ aligned' = aligned /\ blockRecords' = blockRecords
      BY <2>4 DEF SkipLostHeader, SkipPadding, WalkSequenceHeader, Walking, parsedVars
    <3>2. aligned \in BOOLEAN /\ blockRecords \in Nat
      BY <1>2
    <3> QED
      BY <1>2, <3>1, <3>2, WalkTypes
  <2>5. CASE SkipLostPayload
    <3>1. phase' = "walk" /\ aligned' = FALSE /\ blockRecords' = blockRecords
      BY <2>5 DEF SkipLostPayload, Walking
    <3>2. blockRecords \in Nat
      BY <1>2
    <3> QED
      BY <1>2, <3>1, <3>2, WalkTypes
  <2>6. CASE WalkBlock
    <3>1. phase' = "walk" /\ aligned' \in BOOLEAN /\ blockRecords' = blockRecords + 1
      BY <2>6 DEF WalkBlock, Walking
    <3>2. blockRecords' \in Nat
      BY <1>2, <3>1
    <3> QED
      BY <1>2, <3>1, <3>2, WalkTypes
  <2>7. CASE EndWalk
    <3>1. /\ pos' = pos /\ spanStart' = pos
          /\ UNCHANGED <<aligned, pastCoarseLevel, blockRecords, partial, coarseLevelIntact>>
      BY <2>7 DEF EndWalk, SkipTo
    <3> QED
      BY <1>2, <2>0, <3>1 DEF Phases
  <2>8. CASE DecodeFrame
    <3>1. UNCHANGED <<walkVars, parsedVars>>
      BY <2>8 DEF DecodeFrame
    <3> QED
      BY <1>2, <2>0, <3>1 DEF walkVars, parsedVars, Phases
  <2> QED
    BY <1>2, <2>1, <2>2, <2>3, <2>4, <2>5, <2>6, <2>7, <2>8 DEF FramingNext
<1> HIDE DEF FramingTypeOK
<1> QED
  BY <1>1, <1>2, FramingInvariance, PTL DEF FramingSpec

-----------------------------------------------------------------------------
(* block counts *)

LEMMA LargerOf ==
  ASSUME NEW a \in Nat, NEW b \in Nat
  PROVE  Max({a, b}) = IF a >= b THEN a ELSE b
<1>1. \A m \in {a, b} : (\A x \in {a, b} : m >= x) => m = IF a >= b THEN a ELSE b
  OBVIOUS
<1>2. \E m \in {a, b} : \A x \in {a, b} : m >= x
  OBVIOUS
<1>3. Max({a, b}) \in {a, b} /\ \A x \in {a, b} : Max({a, b}) >= x
  <2> DEFINE M == CHOOSE m \in {a, b} : \A x \in {a, b} : m >= x
  <2>1. M \in {a, b} /\ \A x \in {a, b} : M >= x
    BY <1>2
  <2> QED
    BY <2>1 DEF Max
<1> QED
  BY <1>1, <1>3

\* What the levels divide by.
LEMMA PowersOfTwo ==
  /\ 2 ^ 0 = 1 /\ 2 ^ 1 = 2 /\ 2 ^ 2 = 4 /\ 2 ^ 3 = 8 /\ 2 ^ 4 = 16
  /\ 2 ^ (0 + 1) = 2 /\ 2 ^ (1 + 1) = 4 /\ 2 ^ (2 + 1) = 8 /\ 2 ^ (3 + 1) = 16
  /\ 2 ^ (4 + 1) = 32 /\ 2 ^ Levels = 32
  BY DEF Levels

\* Parser and decoder align a side of the picture alike, to no less than 128.
LEMMA SameExtent ==
  ASSUME NEW n \in Nat
  PROVE  /\ AlignedExtent(n) \in Nat /\ AlignedExtent(n) >= 128
         /\ Max({Align(n), 4 * 2 ^ Levels}) = AlignedExtent(n)
<1> DEFINE q == (n + 31) \div 32
<1>1. q \in Nat
  OBVIOUS
<1>2. CeilDiv(n, BlockSize) * BlockSize = q * 32
  BY DEF CeilDiv, BlockSize
<1>3. Align(n) = q * 32 /\ 4 * 2 ^ Levels = 128
  BY PowersOfTwo DEF Align
<1> HIDE DEF q
<1>4. q * 32 \in Nat
  BY <1>1
<1>5. Max({q * 32, 128}) \in Nat /\ Max({q * 32, 128}) >= 128
  BY <1>4, LargerOf
<1> QED
  BY <1>2, <1>3, <1>5 DEF AlignedExtent

\* The side of a band of the parser is a mip level of the decoder's.
LEMMA SameSide ==
  ASSUME NEW n \in Nat, NEW level \in 0 .. Levels - 1
  PROVE  /\ CeilDiv(AlignedExtent(n) \div 2 ^ (level + 1), BlockSize)
               = Blocks32(Mip(n, level))
         /\ Blocks32(Mip(n, level)) \in Nat
<1> DEFINE e == AlignedExtent(n)
<1>1. e \in Nat /\ e >= 128 /\ Mip(n, level) = Max({(e \div 2) \div 2 ^ level, 1})
  BY SameExtent DEF Mip
<1> HIDE DEF e
<1>2. level \in {0, 1, 2, 3, 4}
  BY DEF Levels
<1>3. /\ (e \div 2) \div 2 ^ level = e \div 2 ^ (level + 1)
      /\ e \div 2 ^ (level + 1) \in Nat /\ e \div 2 ^ (level + 1) >= 1
  <2>1. CASE level = 0
    BY <1>1, <2>1, PowersOfTwo
  <2>2. CASE level = 1
    BY <1>1, <2>2, PowersOfTwo
  <2>3. CASE level = 2
    BY <1>1, <2>3, PowersOfTwo
  <2>4. CASE level = 3
    BY <1>1, <2>4, PowersOfTwo
  <2>5. CASE level = 4
    BY <1>1, <2>5, PowersOfTwo
  <2> QED
    BY <1>2, <2>1, <2>2, <2>3, <2>4, <2>5
<1> DEFINE m == e \div 2 ^ (level + 1)
<1>4. Mip(n, level) = m
  <2>1. m \in Nat /\ m >= 1 /\ Mip(n, level) = Max({m, 1})
    BY <1>1, <1>3
  <2> HIDE DEF m
  <2> QED
    BY <2>1, LargerOf
<1>5. CeilDiv(e \div 2 ^ (level + 1), BlockSize) = CeilDiv(m, 32)
  BY DEF BlockSize
<1>6. m \in Nat
  BY <1>3
<1> HIDE DEF m
<1>7. CeilDiv(m, 32) = Blocks32(m) /\ Blocks32(m) \in Nat
  BY <1>6 DEF CeilDiv, Blocks32
<1> QED
  BY <1>4, <1>5, <1>7 DEF e

LEMMA SameBand ==
  ASSUME NEW g \in (Nat \ {0}) \X (Nat \ {0}), NEW level \in 0 .. Levels - 1
  PROVE  PerBand(g, level) = BandBlocks(g, level) /\ BandBlocks(g, level) \in Nat
<1>1. g[1] \in Nat /\ g[2] \in Nat
  OBVIOUS
<1> DEFINE w == Blocks32(Mip(g[1], level))
           h == Blocks32(Mip(g[2], level))
<1>2. /\ CeilDiv(AlignedExtent(g[1]) \div 2 ^ (level + 1), BlockSize) = w /\ w \in Nat
      /\ CeilDiv(AlignedExtent(g[2]) \div 2 ^ (level + 1), BlockSize) = h /\ h \in Nat
  BY <1>1, SameSide
<1>3. PerBand(g, level) = w * h
  BY <1>2 DEF PerBand
<1>4. BandBlocks(g, level) = w * h
  BY DEF BandBlocks
<1> HIDE DEF w, h
<1>5. w * h \in Nat
  BY <1>2
<1> QED
  BY <1>3, <1>4, <1>5

\* The decoder has a band for each component of a level that has one, the lowest
\* band at the coarsest level only.
LEMMA BandsOfLevel ==
  ASSUME NEW chroma444 \in BOOLEAN, NEW level \in 0 .. Levels - 1
  PROVE  Cardinality({b \in Bands(chroma444) : b.level = level})
            = (IF level = Levels - 1 THEN 4 ELSE 3) * (IF level = 0 /\ ~chroma444 THEN 1 ELSE 3)
<1> DEFINE lastComponent == IF level = 0 /\ ~chroma444 THEN 0 ELSE 2
           firstBand == IF level = Levels - 1 THEN 0 ELSE 1
           C == 0 .. lastComponent
           B == firstBand .. 3
           T == {b \in Bands(chroma444) : b.level = level}
           band(p) == [level |-> level, component |-> p[1], band |-> p[2]]
           f == [p \in B \X C |-> band(<<p[2], p[1]>>)]
<1>1. IsFiniteSet(C) /\ Cardinality(C) = IF level = 0 /\ ~chroma444 THEN 1 ELSE 3
  <2>1. lastComponent \in {0, 2}
    OBVIOUS
  <2> HIDE DEF lastComponent
  <2>2. IsFiniteSet(C) /\ Cardinality(C) = lastComponent - 0 + 1
    BY <2>1, FS_Interval
  <2> QED
    BY <2>2 DEF lastComponent
<1>2. IsFiniteSet(B) /\ Cardinality(B) = IF level = Levels - 1 THEN 4 ELSE 3
  <2>1. firstBand \in {0, 1}
    OBVIOUS
  <2> HIDE DEF firstBand
  <2>2. IsFiniteSet(B) /\ Cardinality(B) = 3 - firstBand + 1
    BY <2>1, FS_Interval
  <2> QED
    BY <2>2 DEF firstBand
<1>3. IsFiniteSet(B \X C) /\ Cardinality(B \X C) = Cardinality(B) * Cardinality(C)
  <2> HIDE DEF B, C
  <2> QED
    BY <1>1, <1>2, FS_Product
<1>4. \A p \in B \X C : f[p] \in T
  BY DEF Bands
<1>5. \A p, q \in B \X C : f[p] = f[q] => p = q
  <2> SUFFICES ASSUME NEW p \in B \X C, NEW q \in B \X C, f[p] = f[q] PROVE p = q
    OBVIOUS
  <2>1. f[p].component = p[2] /\ f[p].band = p[1] /\ f[q].component = q[2] /\ f[q].band = q[1]
    OBVIOUS
  <2> QED
    BY <2>1
<1>6. \A b \in T : \E p \in B \X C : f[p] = b
  <2> SUFFICES ASSUME NEW b \in T PROVE \E p \in B \X C : f[p] = b
    OBVIOUS
  <2>1. /\ b \in [level : 0 .. Levels - 1, component : 0 .. 2, band : 0 .. 3]
        /\ b.level = level
        /\ b.band = 0 => level = Levels - 1
        /\ level = 0 /\ ~chroma444 => b.component = 0
    BY DEF Bands
  <2>2. b = band(<<b.component, b.band>>)
    BY <2>1
  <2>3. b.band \in B /\ b.component \in C
    BY <2>1
  <2>4. <<b.band, b.component>> \in B \X C
    BY <2>3
  <2>5. f[<<b.band, b.component>>] = b
    BY <2>2, <2>4
  <2> QED
    BY <2>4, <2>5
<1>7. ExistsBijection(B \X C, T)
  <2> HIDE DEF B, C, T, f
  <2>1. f \in Bijection(B \X C, T)
    <3>1. f \in [B \X C -> T]
      BY <1>4 DEF f
    <3> QED
      BY <3>1, <1>5, <1>6 DEF Bijection, Injection, Surjection, IsInjective
  <2> QED
    BY <2>1 DEF ExistsBijection
<1>8. Cardinality(T) = Cardinality(B) * Cardinality(C)
  <2> HIDE DEF B, C, T
  <2> QED
    BY <1>3, <1>7, FS_Bijection
<1>9. Cardinality(T) = (IF level = Levels - 1 THEN 4 ELSE 3)
                          * (IF level = 0 /\ ~chroma444 THEN 1 ELSE 3)
  <2> HIDE DEF T, B, C
  <2> QED
    BY <1>1, <1>2, <1>8
<1> QED
  BY <1>9

LEMMA SameMaxBlockCount ==
  ASSUME NEW g \in (Nat \ {0}) \X (Nat \ {0}), NEW chroma444 \in BOOLEAN
  PROVE  MaxBlockCount(g, chroma444) = DecoderBlocks(g, Bands(chroma444))
<1>1. \A level \in 0 .. Levels - 1 :
         PerBand(g, level) * (IF level = Levels - 1 THEN 4 ELSE 3)
                           * (IF level = 0 /\ ~chroma444 THEN 1 ELSE 3)
            = BandBlocks(g, level) * Cardinality({b \in Bands(chroma444) : b.level = level})
  <2> SUFFICES ASSUME NEW level \in 0 .. Levels - 1
               PROVE  PerBand(g, level) * (IF level = Levels - 1 THEN 4 ELSE 3)
                                        * (IF level = 0 /\ ~chroma444 THEN 1 ELSE 3)
                         = BandBlocks(g, level)
                              * Cardinality({b \in Bands(chroma444) : b.level = level})
    OBVIOUS
  <2> DEFINE x == BandBlocks(g, level)
             i == IF level = Levels - 1 THEN 4 ELSE 3
             j == IF level = 0 /\ ~chroma444 THEN 1 ELSE 3
  <2>1. PerBand(g, level) = x /\ x \in Nat
    BY SameBand
  <2>2. Cardinality({b \in Bands(chroma444) : b.level = level}) = i * j
    BY BandsOfLevel
  <2>3. i \in {3, 4} /\ j \in {1, 3}
    OBVIOUS
  <2> HIDE DEF x, i, j
  <2>4. x * i * j = x * (i * j)
    BY <2>1, <2>3
  <2> QED
    BY <2>1, <2>2, <2>4 DEF x, i, j
<1> QED
  BY <1>1, Zenon DEF MaxBlockCount, DecoderBlocks

LEMMA SameCoarseBlockCount ==
  ASSUME NEW g \in (Nat \ {0}) \X (Nat \ {0}), NEW chroma444 \in BOOLEAN
  PROVE  CoarseBlockCount(g)
            = DecoderBlocks(g, {b \in Bands(chroma444) : b.level = Levels - 1})
<1> DEFINE K == {b \in Bands(chroma444) : b.level = Levels - 1}
           count(level) == BandBlocks(g, level) * Cardinality({b \in K : b.level = level})
<1>1. \A level \in 0 .. Levels - 1 : BandBlocks(g, level) \in Nat
  BY SameBand
<1>2. \A level \in 0 .. Levels - 1 : level # Levels - 1 => count(level) = 0
  <2> SUFFICES ASSUME NEW level \in 0 .. Levels - 1, level # Levels - 1 PROVE count(level) = 0
    OBVIOUS
  <2>1. {b \in K : b.level = level} = {}
    OBVIOUS
  <2>2. Cardinality({b \in K : b.level = level}) = 0
    BY <2>1, FS_EmptySet
  <2> QED
    BY <1>1, <2>2
<1>3. count(Levels - 1) = CoarseBlockCount(g) /\ CoarseBlockCount(g) \in Nat
  <2>1. Levels - 1 \in 0 .. Levels - 1 /\ Levels - 1 # 0
    BY DEF Levels
  <2>2. {b \in K : b.level = Levels - 1} = K
    OBVIOUS
  <2>3. Cardinality(K) = 4 * 3
    BY <2>1, BandsOfLevel
  <2>4. PerBand(g, Levels - 1) = BandBlocks(g, Levels - 1) /\ BandBlocks(g, Levels - 1) \in Nat
    BY <2>1, SameBand
  <2> HIDE DEF K
  <2>5. CoarseBlockCount(g) = BandBlocks(g, Levels - 1) * 4 * 3
    BY <2>4 DEF CoarseBlockCount
  <2> QED
    BY <2>2, <2>3, <2>4, <2>5
<1>4. count(0) = 0 /\ count(1) = 0 /\ count(2) = 0 /\ count(3) = 0
      /\ count(4) = CoarseBlockCount(g)
  <2> HIDE DEF count
  <2> QED
    BY <1>2, <1>3 DEF Levels
<1>5. DecoderBlocks(g, K) = OverLevels([level \in 0 .. Levels - 1 |-> count(level)])
  BY DEF DecoderBlocks
<1>6. OverLevels([level \in 0 .. Levels - 1 |-> count(level)]) = CoarseBlockCount(g)
  <2> HIDE DEF count
  <2> QED
    BY <1>3, <1>4 DEF OverLevels, Levels
<1> QED
  BY <1>5, <1>6

\* Parser and decoder count the same blocks for pictures of every size, with and
\* without full chroma.
THEOREM CountsAlwaysAgree == FramingSpec => []CountsAgree
<1>1. BlockCountsAgree
  <2> SUFFICES ASSUME NEW g \in Geometries, NEW chroma444 \in BOOLEAN
               PROVE  /\ CoarseBlockCount(g)
                            = DecoderBlocks(g, {b \in Bands(chroma444) : b.level = Levels - 1})
                      /\ MaxBlockCount(g, chroma444) = DecoderBlocks(g, Bands(chroma444))
    BY DEF BlockCountsAgree
  <2>1. g \in (Nat \ {0}) \X (Nat \ {0})
    BY FramingAssumption
  <2> QED
    BY <2>1, SameMaxBlockCount, SameCoarseBlockCount
<1>2. CountsAgree
  BY <1>1 DEF CountsAgree
<1> QED
  BY <1>2, PTL
=============================================================================
