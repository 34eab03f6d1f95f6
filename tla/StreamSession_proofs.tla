------------------------ MODULE StreamSession_proofs ------------------------
(***************************************************************************)
(* Proofs about StreamSession, for any number of streams and of reconnect  *)
(* attempts.  In this order: the variables keep their types; every permit  *)
(* of the connection semaphore is accounted for, so one stream at a time   *)
(* has the core; the core serves whoever owes the permit; no stream        *)
(* interrupts the start of another; a reconnect always has something that  *)
(* carries it on; and all of it together implements StreamLife.  Each      *)
(* section opens with the invariant it adds to those before it.            *)
(***************************************************************************)
EXTENDS StreamSession, TLAPS

-----------------------------------------------------------------------------
(* Types *)

LEMMA TypeInit == Init => TypeOK
<1>1. 0 \in 0..MaxAttempts /\ 0 \in 0..MaxRetries
  BY StreamSessionAssumption
<1> SUFFICES ASSUME Init PROVE TypeOK
  OBVIOUS
<1>2. startPc \in [Starts -> StartPcs]
  BY DEF Init, StartPcs
<1>3. stopPc \in [StopKinds \X Streams -> StopPcs]
  BY DEF Init, StopPcs
<1>4. posted \subseteq Runnables /\ ending \subseteq Starts
  BY DEF Init
<1> QED
  BY <1>1, <1>2, <1>3, <1>4 DEF Init, TypeOK

LEMMA FirstStartIsAStart == \A s \in Streams : <<s, 0>> \in Starts
  BY StreamSessionAssumption DEF Starts

\* A start goes on, or fails and tells Game.
StartTypes ==
    /\ startPc \in [Starts -> StartPcs] /\ tryCount \in [Streams -> 0 .. MaxRetries]
    /\ posted \subseteq Runnables

LEMMA TypeGoto ==
    ASSUME TypeOK, NEW t \in Starts, NEW pc \in StartPcs, Goto(t, pc)
    PROVE  startPc' \in [Starts -> StartPcs]
BY DEF TypeOK, Goto

LEMMA TypeStageFailed ==
    ASSUME TypeOK, NEW t \in Starts, NEW final \in BOOLEAN
    PROVE  /\ FailureOf(t, final) \in Runnables
           /\ StageFailed(t, final) => StartTypes'
<1>1. FailureOf(t, final) \in Runnables
  BY DEF FailureOf, Runnables
<1>2. ASSUME StageFailed(t, final) PROVE StartTypes'
  <2>1. startPc' \in [Starts -> StartPcs]
    BY <1>2, TypeGoto DEF StageFailed, StartPcs
  <2> QED
    BY <1>1, <1>2, <2>1 DEF StageFailed, StartTypes, TypeOK
<1> QED
  BY <1>1, <1>2

LEMMA TypeHostUnreachable ==
    ASSUME TypeOK, NEW t \in Starts, HostUnreachable(t)
    PROVE  StartTypes'
<1>1. CASE StageFailed(t, FALSE)
  BY <1>1, TypeStageFailed
<1>2. CASE /\ tryCount[t[1]] < MaxRetries
           /\ tryCount' = [tryCount EXCEPT ![t[1]] = @ + 1]
           /\ Goto(t, "probe") /\ UNCHANGED posted
  <2>1. t[1] \in Streams
    BY DEF Starts
  <2>2. tryCount' \in [Streams -> 0 .. MaxRetries]
    <3>1. tryCount[t[1]] + 1 \in 0 .. MaxRetries
      BY <1>2, <2>1, StreamSessionAssumption DEF TypeOK
    <3> QED
      BY <1>2, <3>1 DEF TypeOK
  <2>3. startPc' \in [Starts -> StartPcs]
    BY <1>2, TypeGoto DEF StartPcs
  <2> QED
    BY <1>2, <2>2, <2>3 DEF StartTypes, TypeOK
<1> QED
  BY <1>1, <1>2 DEF HostUnreachable

LEMMA TypeGoesOn ==
    ASSUME TypeOK, NEW t \in Starts, NEW pc \in StartPcs, Goto(t, pc),
           UNCHANGED <<tryCount, posted>>
    PROVE  StartTypes'
BY TypeGoto DEF StartTypes, TypeOK

LEMMA TypeStartThread ==
    ASSUME TypeOK, NEW t \in Starts, StartThread(t)
    PROVE  TypeOK'
\* where the start fails, or goes on, and nothing else moves
<1>1. ASSUME Probe(t) \/ CheckBeforeLaunch(t) \/ LaunchAnswered(t) \/ CheckBeforeAcquire(t)
      PROVE  TypeOK'
  <2>1. \/ HostUnreachable(t) \/ HostRefuses(t) \/ StageFailed(t, FALSE)
        \/ \E pc \in StartPcs : Goto(t, pc) /\ UNCHANGED <<tryCount, posted>>
    BY <1>1 DEF Probe, CheckBeforeLaunch, LaunchAnswered, CheckBeforeAcquire, StartPcs
  <2>2. StartTypes'
    BY <2>1, TypeHostUnreachable, TypeStageFailed, TypeGoesOn DEF HostRefuses
  <2>3. UNCHANGED <<connectionAllowed, coreVars, interrupted, stopPc, startAborted, gameVars>>
    BY <1>1 DEF Probe, CheckBeforeLaunch, LaunchAnswered, CheckBeforeAcquire
  <2> QED
    BY <2>2, <2>3 DEF StartTypes, TypeOK, coreVars, gameVars, reconnectVars, screenVars
<1>2. CASE SendLaunch(t)
  <2>1. StartTypes'
    BY <1>2, TypeGoesOn DEF SendLaunch, StartPcs
  <2> QED
    BY <1>2, <2>1 DEF SendLaunch, StartTypes, TypeOK, coreVars, gameVars, reconnectVars,
       screenVars
<1>3. CASE Acquire(t)
  <2>1. StartTypes'
    BY <1>3, TypeGoesOn DEF Acquire, StartPcs
  <2>2. connectionAllowed' \in Nat
    BY <1>3 DEF Acquire, TypeOK
  <2> QED
    BY <1>3, <2>1, <2>2 DEF Acquire, StartTypes, TypeOK, coreVars, gameVars, reconnectVars,
       screenVars
<1>4. CASE CheckAfterAcquire(t)
  <2>1. StartTypes'
    BY <1>4, TypeGoesOn, TypeStageFailed DEF CheckAfterAcquire, StartPcs
  <2>2. connectionAllowed' \in Nat
    <3>1. connectionAllowed \in Nat
      BY DEF TypeOK
    <3>2. connectionAllowed' \in {connectionAllowed, connectionAllowed + 1}
      BY <1>4 DEF CheckAfterAcquire
    <3>3. connectionAllowed + 1 \in Nat
      BY <3>1
    <3> QED
      BY <3>1, <3>2, <3>3
  <2> QED
    BY <1>4, <2>1, <2>2 DEF CheckAfterAcquire, StartTypes, TypeOK, coreVars, gameVars,
       reconnectVars, screenVars
<1>5. CASE EnterCore(t)
  <2>1. StartTypes'
    BY <1>5, TypeGoesOn DEF EnterCore, StartPcs
  <2> QED
    BY <1>5, <2>1 DEF EnterCore, StartTypes, TypeOK, gameVars, reconnectVars, screenVars
<1>6. CASE CoreStarted(t)
  <2>1. posted' \subseteq Runnables
    BY <1>6 DEF CoreStarted, Runnables, TypeOK
  <2>2. startPc' \in [Starts -> StartPcs]
    BY <1>6, TypeGoto DEF CoreStarted, StartPcs
  <2> QED
    BY <1>6, <2>1, <2>2 DEF CoreStarted, TypeOK, gameVars, reconnectVars, screenVars
<1>7. CASE CoreStartFails(t)
  <2>1. posted' \subseteq Runnables
    BY <1>7, TypeStageFailed DEF CoreStartFails, TypeOK
  <2>2. startPc' \in [Starts -> StartPcs]
    BY <1>7, TypeGoto DEF CoreStartFails, StartPcs
  <2> QED
    BY <1>7, <2>1, <2>2 DEF CoreStartFails, TypeOK, gameVars, reconnectVars, screenVars
<1>8. CASE LeaveCore(t)
  <2>1. startPc' \in [Starts -> StartPcs] /\ connectionAllowed' \in Nat
    BY <1>8, TypeGoto DEF LeaveCore, StartPcs, TypeOK
  <2> QED
    BY <1>8, <2>1 DEF LeaveCore, TypeOK, gameVars, reconnectVars, screenVars
<1> QED
  BY <1>1, <1>2, <1>3, <1>4, <1>5, <1>6, <1>7, <1>8 DEF StartThread

LEMMA TypeStopThread ==
    ASSUME TypeOK, NEW x \in StopKinds \X Streams, StopThread(x)
    PROVE  TypeOK'
<1> USE DEF TypeOK, StopPcs, coreVars, gameVars, reconnectVars, screenVars
<1>1. CASE StopInterrupts(x)
  BY <1>1 DEF StopInterrupts
<1>2. CASE StopCore(x)
  BY <1>2 DEF StopCore
<1>3. CASE StopReleases(x)
  <2>1. <<"deadStopped", <<x[2], 0>>>> \in Runnables
    BY FirstStartIsAStart DEF Runnables
  <2>2. connectionAllowed' \in Nat
    BY <1>3 DEF StopReleases
  <2>3. posted' \subseteq Runnables
    BY <1>3, <2>1 DEF StopReleases
  <2>4. stopPc' \in [StopKinds \X Streams -> StopPcs]
    BY <1>3 DEF StopReleases
  <2> QED
    BY <1>3, <2>2, <2>3, <2>4 DEF StopReleases
<1> QED
  BY <1>1, <1>2, <1>3 DEF StopThread

\* The parts of Game's methods that end a reconnect or a connection.
LEMMA TypeDropConnection ==
    ASSUME TypeOK, NEW s \in Streams, DropConnection(s)
    PROVE  /\ connected' \in [Streams -> BOOLEAN]
           /\ stopPc' \in [StopKinds \X Streams -> StopPcs]
  BY DEF TypeOK, DropConnection, SpawnStop, StopPcs, StopKinds

LEMMA TypeEndReconnect ==
    ASSUME TypeOK, NEW s \in Streams, NEW b \in BOOLEAN
    PROVE  /\ StopTimers(s) => /\ tick' \in [Streams -> BOOLEAN]
                               /\ retry' \in [Streams -> BOOLEAN]
           /\ AbandonReconnect(s, b) => /\ reconnecting' \in [Streams -> BOOLEAN]
                                        /\ startAborted' \in [Streams -> BOOLEAN]
                                        /\ interrupted' \in BOOLEAN
  BY DEF TypeOK, StopTimers, AbandonReconnect

LEMMA TypeStopConnection ==
    ASSUME TypeOK, NEW s \in Streams, StopConnection(s)
    PROVE  /\ connected' \in [Streams -> BOOLEAN]
           /\ stopPc' \in [StopKinds \X Streams -> StopPcs]
           /\ tick' \in [Streams -> BOOLEAN]
           /\ retry' \in [Streams -> BOOLEAN]
           /\ reconnecting' \in [Streams -> BOOLEAN]
           /\ startAborted' \in [Streams -> BOOLEAN]
           /\ interrupted' \in BOOLEAN
<1>1. reconnectAttemptInFlight[s] \in BOOLEAN
  BY DEF TypeOK
<1> QED
  BY <1>1, TypeDropConnection, TypeEndReconnect
     DEF StopConnection, EndReconnect, TypeOK

LEMMA TypeGiveUpReconnect ==
    ASSUME TypeOK, NEW s \in Streams, NEW b \in BOOLEAN, GiveUpReconnect(s, b)
    PROVE  /\ connected' \in [Streams -> BOOLEAN]
           /\ stopPc' \in [StopKinds \X Streams -> StopPcs]
           /\ tick' \in [Streams -> BOOLEAN]
           /\ retry' \in [Streams -> BOOLEAN]
           /\ reconnecting' \in [Streams -> BOOLEAN]
           /\ startAborted' \in [Streams -> BOOLEAN]
           /\ interrupted' \in BOOLEAN
           /\ displayedFailureDialog' \in [Streams -> BOOLEAN]
<1>1. displayedFailureDialog' \in [Streams -> BOOLEAN]
  BY DEF GiveUpReconnect, TypeOK
<1> QED
  BY <1>1, TypeDropConnection, TypeEndReconnect
     DEF GiveUpReconnect, EndReconnect, TypeOK

LEMMA TypeScreen ==
    ASSUME TypeOK, NEW s \in Streams, Screen(s)
    PROVE  TypeOK'
<1> USE DEF TypeOK, coreVars, gameVars, threadVars, reconnectVars, screenVars
<1>1. CASE SurfaceAvailable(s)
  BY <1>1 DEF SurfaceAvailable
<1>2. CASE FirstStart(s)
  BY <1>2, FirstStartIsAStart DEF FirstStart, StartConnection, Goto, StartPcs
<1>3. CASE SurfaceDestroyed(s)
  BY <1>3, TypeStopConnection DEF SurfaceDestroyed
<1>4. CASE DismissDialog(s)
  BY <1>4 DEF DismissDialog
<1>5. CASE OnStop(s)
  BY <1>5, TypeStopConnection DEF OnStop
<1> QED
  BY <1>1, <1>2, <1>3, <1>4, <1>5 DEF Screen

LEMMA TypePosted ==
    ASSUME TypeOK, NEW t \in Starts, Posted(t)
    PROVE  TypeOK'
<1> USE DEF TypeOK, Take, coreVars, gameVars, threadVars, reconnectVars,
        screenVars
<1>0. t[1] \in Streams
  BY DEF Starts
<1>1. CASE OnStarted(t)
  BY <1>1, <1>0 DEF OnStarted
<1>2. CASE OnStartedAgain(t)
  <2>1. /\ reconnectAttemptInFlight' \in [Streams -> BOOLEAN]
        /\ connected' \in [Streams -> BOOLEAN]
        /\ posted' \subseteq Runnables
    BY <1>2, <1>0 DEF OnStartedAgain
  <2>2. stopPc' \in [StopKinds \X Streams -> StopPcs]
    BY <1>2, <1>0 DEF OnStartedAgain, SpawnStop, StopPcs, StopKinds
  <2>3. /\ tick' \in [Streams -> BOOLEAN] /\ retry' \in [Streams -> BOOLEAN]
        /\ reconnecting' \in [Streams -> BOOLEAN]
        /\ startAborted' \in [Streams -> BOOLEAN] /\ interrupted' \in BOOLEAN
    BY <1>2, <1>0, TypeEndReconnect DEF OnStartedAgain, EndReconnect
  <2> QED
    BY <1>2, <2>1, <2>2, <2>3 DEF OnStartedAgain
<1>3. CASE OnStartFailed(t)
  BY <1>3, <1>0 DEF OnStartFailed
<1>4. CASE OnAttemptFailed(t)
  <2>1. CASE Take("attemptFailed", t)
    BY <1>4, <1>0, <2>1 DEF OnAttemptFailed
  <2>2. CASE Take("attemptRefused", t) /\ reconnecting[t[1]]
    BY <1>4, <1>0, <2>2, TypeGiveUpReconnect DEF OnAttemptFailed
  <2>3. CASE Take("attemptRefused", t) /\ ~reconnecting[t[1]]
    BY <1>4, <1>0, <2>3 DEF OnAttemptFailed
  <2> QED
    BY <1>4, <2>1, <2>2, <2>3 DEF OnAttemptFailed
<1>5. CASE OnDeadStopped(t)
  BY <1>5, <1>0 DEF OnDeadStopped
<1>6. CASE OnTerminated(t)
  <2>1. CASE MaybeStartReconnect(t[1])
    BY <1>6, <1>0, <2>1
       DEF OnTerminated, MaybeStartReconnect, SpawnStop, StopPcs, StopKinds
  <2>2. CASE ShowConnectionEnd(t[1]) /\ displayedFailureDialog[t[1]]
    BY <1>6, <1>0, <2>2 DEF OnTerminated, ShowConnectionEnd, StopTimers
  <2>3. CASE ShowConnectionEnd(t[1]) /\ ~displayedFailureDialog[t[1]]
    <3>1. PICK graceful \in BOOLEAN :
             finishing' = [finishing EXCEPT ![t[1]] = @ \/ graceful]
      BY <2>3 DEF ShowConnectionEnd
    <3>2. finishing' \in [Streams -> BOOLEAN]
      BY <1>0, <3>1
    <3>3. displayedFailureDialog' \in [Streams -> BOOLEAN]
      BY <1>0, <2>3 DEF ShowConnectionEnd
    <3>4. (reconnecting[t[1]] /\ reconnectAttemptInFlight[t[1]]) \in BOOLEAN
      OBVIOUS
    <3> QED
      BY <1>6, <1>0, <2>3, <3>2, <3>3, <3>4, TypeDropConnection,
         TypeEndReconnect DEF OnTerminated, ShowConnectionEnd
  <2> QED
    BY <1>6, <2>1, <2>2, <2>3 DEF OnTerminated
<1> QED
  BY <1>1, <1>2, <1>3, <1>4, <1>5, <1>6 DEF Posted

LEMMA TypeTimer ==
    ASSUME TypeOK, NEW s \in Streams, Timer(s)
    PROVE  TypeOK'
<1> USE DEF TypeOK, coreVars, gameVars, threadVars, reconnectVars, screenVars
<1>1. CASE AttemptTimer(s)
  <2> DEFINE idle == ~reconnecting[s] \/ ~deadConnectionStopped[s]
                       \/ reconnectAttemptInFlight[s]
  <2>1. CASE idle
    BY <1>1, <2>1 DEF AttemptTimer
  <2>2. CASE ~idle /\ ~surface[s]
    BY <1>1, <2>2, TypeGiveUpReconnect DEF AttemptTimer
  <2>3. CASE ~idle /\ surface[s]
    <3>1. /\ attempts[s] + 1 \in 0 .. MaxAttempts
          /\ <<s, attempts[s] + 1>> \in Starts
          /\ <<s, attempts[s] + 1>>[1] = s
      BY <1>1, StreamSessionAssumption DEF AttemptTimer, Starts
    <3>2. /\ startPc' \in [Starts -> StartPcs]
          /\ startAborted' \in [Streams -> BOOLEAN]
      BY <1>1, <2>3, <3>1
         DEF AttemptTimer, StartConnection, Goto, StartPcs
    <3>3. /\ attempts' = [attempts EXCEPT ![s] = attempts[s] + 1]
          /\ reconnectAttemptInFlight' =
               [reconnectAttemptInFlight EXCEPT ![s] = TRUE]
          /\ retry' = [retry EXCEPT ![s] = FALSE]
      BY <1>1, <2>3 DEF AttemptTimer
    <3>4. /\ attempts' \in [Streams -> 0 .. MaxAttempts]
          /\ reconnectAttemptInFlight' \in [Streams -> BOOLEAN]
          /\ retry' \in [Streams -> BOOLEAN]
      BY <3>1, <3>3
    <3> QED
      BY <1>1, <2>3, <3>2, <3>4 DEF AttemptTimer
  <2> QED
    BY <2>1, <2>2, <2>3
<1>2. CASE WindowOver(s)
  BY <1>2, TypeGiveUpReconnect DEF WindowOver
<1> QED
  BY <1>1, <1>2 DEF Timer

LEMMA TypeCoreEvents ==
    ASSUME TypeOK,
           Terminates \/ \E t \in Starts : PostTerminated(t)
    PROVE  TypeOK'
<1> USE DEF TypeOK, coreVars, gameVars, threadVars, reconnectVars, screenVars
<1>1. CASE Terminates
  BY <1>1 DEF Terminates
<1>2. ASSUME NEW t \in Starts, PostTerminated(t) PROVE TypeOK'
  BY <1>2 DEF PostTerminated, Runnables
<1> QED
  BY <1>1, <1>2

\* The variables keep their types.
THEOREM TypeCorrect == Spec => []TypeOK
<1>1. TypeOK /\ [Next]_vars => TypeOK'
  <2> SUFFICES ASSUME TypeOK, [Next]_vars PROVE TypeOK'
    OBVIOUS
  <2>1. CASE UNCHANGED vars
    BY <2>1 DEF TypeOK, vars, coreVars, threadVars, gameVars, reconnectVars,
       screenVars
  <2>2. ASSUME NEW t \in Starts,
               StartThread(t) \/ Posted(t) \/ PostTerminated(t)
        PROVE  TypeOK'
    BY <2>2, TypeStartThread, TypePosted, TypeCoreEvents
  <2>3. ASSUME NEW x \in StopKinds \X Streams, StopThread(x) PROVE TypeOK'
    BY <2>3, TypeStopThread
  <2>4. ASSUME NEW s \in Streams, Screen(s) \/ Timer(s) PROVE TypeOK'
    BY <2>4, TypeScreen, TypeTimer
  <2>5. CASE Terminates
    BY <2>5, TypeCoreEvents
  <2> QED
    BY <2>1, <2>2, <2>3, <2>4, <2>5 DEF Next
<1> QED
  BY <1>1, TypeInit, PTL DEF Spec

-----------------------------------------------------------------------------
(* A start thread runs once: until its stream comes to it, it is nowhere,   *)
(* so starting it takes no permit away from a start that holds one.         *)

StartsAreFresh ==
    \A s \in Streams :
        /\ phase[s] # "attempted" => startPc[<<s, 0>>] = "none"
        /\ \A k \in 1 .. MaxAttempts :
              k > attempts[s] => startPc[<<s, k>>] = "none"

\* The threads that are under way, and all steps that start none.
LEMMA FreshKept ==
    ASSUME StartsAreFresh, TypeOK, attempts' = attempts,
           \A s \in Streams : phase'[s] # "attempted" => phase[s] # "attempted",
           \A t \in Starts : startPc[t] = "none" => startPc'[t] = "none"
    PROVE  StartsAreFresh'
<1>1. \A s \in Streams : \A k \in 1 .. MaxAttempts : <<s, k>> \in Starts
  BY StreamSessionAssumption DEF Starts
<1> QED
  BY <1>1, FirstStartIsAStart DEF StartsAreFresh

LEMMA FreshNext ==
    ASSUME TypeOK, StartsAreFresh, [Next]_vars
    PROVE  StartsAreFresh'
<1>1. ASSUME NEW t \in Starts, StartThread(t) PROVE StartsAreFresh'
  <2>1. attempts' = attempts /\ phase' = phase
    BY <1>1 DEF StartThread, Probe, CheckBeforeLaunch, SendLaunch,
       LaunchAnswered, CheckBeforeAcquire, Acquire, CheckAfterAcquire,
       EnterCore, CoreStarted, CoreStartFails, LeaveCore, gameVars,
       screenVars, reconnectVars
  <2>2. startPc[t] # "none"
    BY <1>1 DEF StartThread, Probe, CheckBeforeLaunch, SendLaunch,
       LaunchAnswered, CheckBeforeAcquire, Acquire, CheckAfterAcquire,
       EnterCore, CoreStarted, CoreStartFails, LeaveCore
  <2>3. \E pc \in StartPcs : startPc' = [startPc EXCEPT ![t] = pc]
    BY <1>1 DEF StartThread, Probe, CheckBeforeLaunch, SendLaunch,
       LaunchAnswered, CheckBeforeAcquire, Acquire, CheckAfterAcquire,
       EnterCore, CoreStarted, CoreStartFails, LeaveCore, HostUnreachable,
       HostRefuses, StageFailed, Goto, StartPcs
  <2>4. \A u \in Starts : startPc[u] = "none" => startPc'[u] = "none"
    BY <2>2, <2>3 DEF TypeOK
  <2> QED
    BY <2>1, <2>4, FreshKept
<1>2. ASSUME NEW t \in Starts, Posted(t) \/ PostTerminated(t)
      PROVE  StartsAreFresh'
  <2>1. attempts' = attempts /\ phase' = phase /\ startPc' = startPc
    BY <1>2 DEF Posted, PostTerminated, OnStarted, OnStartedAgain,
       OnStartFailed, OnAttemptFailed, OnDeadStopped, OnTerminated, gameVars,
       screenVars, reconnectVars, threadVars
  <2> QED
    BY <2>1, FreshKept
<1>3. ASSUME NEW x \in StopKinds \X Streams, StopThread(x)
      PROVE  StartsAreFresh'
  <2>1. attempts' = attempts /\ phase' = phase /\ startPc' = startPc
    BY <1>3 DEF StopThread, StopInterrupts, StopCore, StopReleases, gameVars,
       screenVars, reconnectVars
  <2> QED
    BY <2>1, FreshKept
<1>4. ASSUME NEW s \in Streams, FirstStart(s) PROVE StartsAreFresh'
  <2>1. /\ attempts' = attempts
        /\ phase' = [phase EXCEPT ![s] = "attempted"]
        /\ \/ startPc' = startPc
           \/ startPc' = [startPc EXCEPT ![<<s, 0>>] = "probe"]
    BY <1>4 DEF FirstStart, StartConnection, Goto, reconnectVars
  <2>2. \A o \in Streams :
            phase'[o] # "attempted" => o # s /\ phase[o] # "attempted"
    BY <2>1 DEF TypeOK
  <2>3. \A t \in Starts : t # <<s, 0>> => startPc'[t] = startPc[t]
    BY <2>1, FirstStartIsAStart DEF TypeOK
  <2>4. \A o \in Streams : \A k \in 1 .. MaxAttempts :
            <<o, k>> \in Starts /\ <<o, k>> # <<s, 0>>
    BY StreamSessionAssumption DEF Starts
  <2> QED
    BY <2>1, <2>2, <2>3, <2>4, FirstStartIsAStart DEF StartsAreFresh
<1>5. ASSUME NEW s \in Streams, Screen(s), ~FirstStart(s)
      PROVE  StartsAreFresh'
  <2>1. attempts' = attempts /\ startPc' = startPc
    BY <1>5 DEF Screen, SurfaceAvailable, SurfaceDestroyed, DismissDialog,
       OnStop, reconnectVars, threadVars
  <2>2. \A o \in Streams : phase'[o] # "attempted" => phase[o] # "attempted"
    BY <1>5 DEF Screen, SurfaceAvailable, SurfaceDestroyed, DismissDialog,
       OnStop, TypeOK
  <2> QED
    BY <2>1, <2>2, FreshKept
<1>6. ASSUME NEW s \in Streams, Timer(s) PROVE StartsAreFresh'
  <2>1. phase' = phase
    BY <1>6 DEF Timer, AttemptTimer, WindowOver, screenVars
  <2>2. CASE attempts' = attempts /\ startPc' = startPc
    BY <2>1, <2>2, FreshKept
  <2>3. CASE /\ attempts[s] < MaxAttempts
             /\ attempts' = [attempts EXCEPT ![s] = @ + 1]
             /\ startPc' = [startPc EXCEPT ![<<s, attempts[s] + 1>>] = "probe"]
    <3>1. \A t \in Starts :
              t # <<s, attempts[s] + 1>> => startPc'[t] = startPc[t]
      BY <2>3 DEF TypeOK
    <3>2. \A o \in Streams : \A k \in 1 .. MaxAttempts :
              /\ <<o, k>> \in Starts
              /\ k > attempts'[o] =>
                    k > attempts[o] /\ <<o, k>> # <<s, attempts[s] + 1>>
      BY <2>3, StreamSessionAssumption DEF Starts, TypeOK
    <3>3. \A o \in Streams : <<o, 0>> # <<s, attempts[s] + 1>>
      BY StreamSessionAssumption DEF TypeOK
    <3> QED
      BY <2>1, <3>1, <3>2, <3>3, FirstStartIsAStart DEF StartsAreFresh
  <2> QED
    BY <1>6, <2>2, <2>3 DEF Timer, AttemptTimer, WindowOver, StartConnection,
       Goto
<1>7. CASE Terminates \/ UNCHANGED vars
  <2>1. attempts' = attempts /\ phase' = phase /\ startPc' = startPc
    BY <1>7 DEF Terminates, vars, gameVars, screenVars, reconnectVars,
       threadVars
  <2> QED
    BY <2>1, FreshKept
<1> QED
  BY <1>1, <1>2, <1>3, <1>4, <1>5, <1>6, <1>7 DEF Next

LEMMA FreshInvariant == Spec => []StartsAreFresh
<1>1. Init => StartsAreFresh
  <2>1. \A s \in Streams : \A k \in 1 .. MaxAttempts : <<s, k>> \in Starts
    BY StreamSessionAssumption DEF Starts
  <2>2. Init => \A t \in Starts : startPc[t] = "none"
    BY DEF Init
  <2> QED
    BY <2>1, <2>2, FirstStartIsAStart DEF StartsAreFresh
<1>2. TypeOK /\ StartsAreFresh /\ [Next]_vars => StartsAreFresh'
  BY FreshNext
<1> QED
  BY <1>1, <1>2, TypeCorrect, PTL DEF Spec

-----------------------------------------------------------------------------
(* The semaphore.  An action leaves the holders alone, or replaces the one *)
(* that owes the permit by another, or takes or returns the permit.        *)

LEMMA SameHolders ==
    ASSUME \A t \in Starts : StartHolds(t)' <=> StartHolds(t),
           \A r \in Runnables : ReportHolds(r)' <=> ReportHolds(r),
           connected' = connected,
           \A x \in StopKinds \X Streams : StopHolds(x)' <=> StopHolds(x)
    PROVE  Holders' = Holders
  BY DEF Holders

\* Whoever owes the permit is the only one, and the permit is out.
LEMMA OnlyHolder ==
    ASSUME SemaphoreAccounted, NEW h \in Holders
    PROVE  connectionAllowed = 0 /\ Holders = {h}
  BY DEF SemaphoreAccounted

\* Where one owes the permit, nobody else of any kind does.
LEMMA HolderIsAlone ==
    ASSUME SemaphoreAccounted, NEW h \in Holders
    PROVE  /\ \A u \in Starts : StartHolds(u) => <<"start", u>> = h
           /\ \A r \in Runnables : ReportHolds(r) => <<"report", r>> = h
           /\ \A s \in Streams : connected[s] => <<"stream", s>> = h
           /\ \A x \in StopKinds \X Streams : StopHolds(x) => <<"stop", x>> = h
<1>1. Holders = {h}
  BY OnlyHolder
<1>2. \A u \in Starts : StartHolds(u) => <<"start", u>> \in Holders
  BY DEF Holders
<1>3. \A r \in Runnables : ReportHolds(r) => <<"report", r>> \in Holders
  BY DEF Holders
<1>4. \A s \in Streams : connected[s] => <<"stream", s>> \in Holders
  BY DEF Holders
<1>5. \A x \in StopKinds \X Streams : StopHolds(x) => <<"stop", x>> \in Holders
  BY DEF Holders
<1> QED
  BY <1>1, <1>2, <1>3, <1>4, <1>5

\* A start that has the permit is the only one.
LEMMA StartIsAlone ==
    ASSUME SemaphoreAccounted, NEW t \in Starts, StartHolds(t)
    PROVE  /\ \A u \in Starts : StartHolds(u) => u = t
           /\ \A r \in Runnables : ~ReportHolds(r)
           /\ \A s \in Streams : ~connected[s]
           /\ \A x \in StopKinds \X Streams : ~StopHolds(x)
<1>1. <<"start", t>> \in Holders
  BY DEF Holders
<1>2. <<"start", t>>[1] = "start" /\ <<"start", t>>[2] = t
  OBVIOUS
<1> QED
  BY <1>1, <1>2, HolderIsAlone

LEMMA FailureIsNoReport ==
    ASSUME NEW t \in Starts, NEW final \in BOOLEAN
    PROVE  FailureOf(t, final)[1] \notin {"started", "startedAgain"}
  BY DEF FailureOf

\* Before a start takes the semaphore, and where it fails without it, it
\* moves among the program counters that owe nothing.
LEMMA SemaphoreQuietStart ==
    ASSUME TypeOK, SemaphoreAccounted, NEW t \in Starts,
           \/ Probe(t) \/ CheckBeforeLaunch(t) \/ SendLaunch(t)
           \/ LaunchAnswered(t) \/ CheckBeforeAcquire(t)
    PROVE  SemaphoreAccounted'
<1>1. /\ connectionAllowed' = connectionAllowed
      /\ connected' = connected
      /\ stopPc' = stopPc
      /\ startPc[t] \notin HoldingStart
  BY DEF Probe, CheckBeforeLaunch, SendLaunch, LaunchAnswered,
     CheckBeforeAcquire, gameVars, HoldingStart
<1>2. \E pc \in StartPcs \ HoldingStart : startPc' = [startPc EXCEPT ![t] = pc]
  BY DEF Probe, CheckBeforeLaunch, SendLaunch, LaunchAnswered,
     CheckBeforeAcquire, HostUnreachable, HostRefuses, StageFailed, Goto,
     HoldingStart, StartPcs
<1>3. \/ posted' = posted
      \/ \E final \in BOOLEAN : posted' = posted \cup {FailureOf(t, final)}
  BY DEF Probe, CheckBeforeLaunch, SendLaunch, LaunchAnswered,
     CheckBeforeAcquire, HostUnreachable, HostRefuses, StageFailed
<1>4. \A u \in Starts : StartHolds(u)' <=> StartHolds(u)
  BY <1>1, <1>2 DEF StartHolds, HoldingStart, TypeOK
<1>5. \A r \in Runnables : ReportHolds(r)' <=> ReportHolds(r)
  BY <1>3, FailureIsNoReport DEF ReportHolds
<1>6. Holders' = Holders
  BY <1>1, <1>4, <1>5, SameHolders DEF StopHolds
<1> QED
  BY <1>1, <1>6 DEF SemaphoreAccounted

LEMMA SemaphoreAcquire ==
    ASSUME TypeOK, SemaphoreAccounted, NEW t \in Starts, Acquire(t)
    PROVE  SemaphoreAccounted'
<1>1. Holders = {} /\ connectionAllowed = 1
  BY DEF SemaphoreAccounted, Acquire
<1>2. Holders' = {<<"start", t>>}
  BY <1>1 DEF Holders, StartHolds, ReportHolds, StopHolds, HoldingStart,
     Acquire, TypeOK, Goto, gameVars
<1> QED
  BY <1>1, <1>2 DEF SemaphoreAccounted, Acquire

\* A start that holds the permit keeps it until it reports success (the
\* report then owes it) or fails (it is returned).
LEMMA SemaphoreHoldingStart ==
    ASSUME TypeOK, SemaphoreAccounted, NEW t \in Starts,
           \/ CheckAfterAcquire(t) \/ EnterCore(t) \/ CoreStarted(t)
           \/ CoreStartFails(t) \/ LeaveCore(t)
    PROVE  SemaphoreAccounted'
<1> DEFINE same == Holders' = Holders /\ connectionAllowed' = connectionAllowed
<1>0. same => SemaphoreAccounted'
  BY DEF SemaphoreAccounted
<1>1. startPc[t] # "returning" =>
          connectionAllowed = 0 /\ Holders = {<<"start", t>>}
  <2>1. startPc[t] # "returning" => StartHolds(t)
    BY DEF CheckAfterAcquire, EnterCore, CoreStarted, CoreStartFails,
       LeaveCore, StartHolds, HoldingStart
  <2> QED
    BY <2>1, OnlyHolder DEF Holders
<1>2. CASE CheckAfterAcquire(t)
  <2>1. CASE startAborted[t[1]]
    <3>2. /\ startPc' = [startPc EXCEPT ![t] = "done"]
          /\ posted' = posted \cup {FailureOf(t, FALSE)}
          /\ connected' = connected
          /\ stopPc' = stopPc
      BY <1>2, <2>1 DEF CheckAfterAcquire, StageFailed, Goto, gameVars
    <3>3. \A r \in Runnables : ReportHolds(r)' <=> ReportHolds(r)
      BY <3>2, FailureIsNoReport DEF ReportHolds
    <3>4. \A u \in Starts : StartHolds(u)' <=> StartHolds(u) /\ u # t
      BY <3>2 DEF StartHolds, HoldingStart, TypeOK
    <3>5. \A x \in StopKinds \X Streams : StopHolds(x)' <=> StopHolds(x)
      BY <3>2 DEF StopHolds
    <3>6. startPc[t] # "returning"
      BY <1>2 DEF CheckAfterAcquire
    <3>1. Holders' = {}
      BY <1>1, <3>2, <3>3, <3>4, <3>5, <3>6 DEF Holders
    <3> QED
      BY <1>1, <1>2, <2>1, <3>1
         DEF CheckAfterAcquire, SemaphoreAccounted
  <2>2. CASE ~startAborted[t[1]]
    <3>1. same
      BY <1>2, <2>2, SameHolders
         DEF CheckAfterAcquire, Goto, StartHolds, ReportHolds, StopHolds,
             HoldingStart, TypeOK, gameVars
    <3> QED
      BY <1>0, <3>1
  <2> QED
    BY <2>1, <2>2
<1>3. CASE EnterCore(t)
  <2>1. same
    BY <1>3, SameHolders
       DEF EnterCore, Goto, StartHolds, ReportHolds, StopHolds, HoldingStart,
           TypeOK, gameVars
  <2> QED
    BY <1>0, <2>1
<1>4. CASE CoreStarted(t)
  <2>1. PICK what \in {"started", "startedAgain"} :
            posted' = posted \cup {<<what, t>>}
    BY <1>4 DEF CoreStarted
  <2>2. <<what, t>> \in Runnables
    BY DEF Runnables
  <2>3. /\ StartHolds(t) /\ connectionAllowed = 0
        /\ startPc' = [startPc EXCEPT ![t] = "returning"]
        /\ connectionAllowed' = connectionAllowed
        /\ connected' = connected /\ stopPc' = stopPc
    BY <1>1, <1>4 DEF CoreStarted, Goto, StartHolds, HoldingStart, gameVars
  <2>4. \A u \in Starts : ~StartHolds(u)'
    BY <2>3, StartIsAlone DEF StartHolds, HoldingStart, TypeOK
  <2>5. \A r \in Runnables : ReportHolds(r)' <=> r = <<what, t>>
    BY <2>1, <2>2, <2>3, StartIsAlone DEF ReportHolds
  <2>6. /\ \A s \in Streams : ~connected'[s]
        /\ \A x \in StopKinds \X Streams : ~StopHolds(x)'
    BY <2>3, StartIsAlone DEF StopHolds
  <2>7. Holders' = {<<"report", <<what, t>>>>}
    BY <2>2, <2>4, <2>5, <2>6 DEF Holders
  <2> QED
    BY <2>3, <2>7 DEF SemaphoreAccounted
<1>5. CASE CoreStartFails(t)
  <2>1. \A r \in Runnables : ReportHolds(r)' <=> ReportHolds(r)
    BY <1>5, FailureIsNoReport DEF CoreStartFails, ReportHolds
  <2>2. \A u \in Starts : StartHolds(u)' <=> StartHolds(u)
    BY <1>5 DEF CoreStartFails, Goto, StartHolds, HoldingStart, TypeOK
  <2>3. same
    BY <1>5, <2>1, <2>2, SameHolders DEF CoreStartFails, StopHolds, gameVars
  <2> QED
    BY <1>0, <2>3
<1>6. CASE LeaveCore(t) /\ startPc[t] = "coreFailed"
  <2>1. Holders' = {}
    BY <1>1, <1>6
       DEF LeaveCore, Goto, Holders, StartHolds, ReportHolds, StopHolds,
           HoldingStart, TypeOK, gameVars
  <2> QED
    BY <1>1, <1>6, <2>1 DEF LeaveCore, SemaphoreAccounted
<1>7. CASE LeaveCore(t) /\ startPc[t] # "coreFailed"
  <2>1. same
    BY <1>7, SameHolders
       DEF LeaveCore, Goto, StartHolds, ReportHolds, StopHolds, HoldingStart,
           TypeOK, gameVars
  <2> QED
    BY <1>0, <2>1
<1> QED
  BY <1>2, <1>3, <1>4, <1>5, <1>6, <1>7

LEMMA SemaphoreStopThread ==
    ASSUME TypeOK, SemaphoreAccounted, NEW x \in StopKinds \X Streams,
           StopThread(x)
    PROVE  SemaphoreAccounted'
<1>1. connectionAllowed = 0 /\ Holders = {<<"stop", x>>}
  <2>1. StopHolds(x)
    BY DEF StopThread, StopInterrupts, StopCore, StopReleases, StopHolds
  <2> QED
    BY <2>1, OnlyHolder DEF Holders
<1>2. CASE StopInterrupts(x) \/ StopCore(x)
  <2>1. Holders' = Holders /\ connectionAllowed' = connectionAllowed
    BY <1>2, SameHolders
       DEF StopInterrupts, StopCore, StartHolds, ReportHolds, StopHolds,
           TypeOK, gameVars
  <2> QED
    BY <2>1 DEF SemaphoreAccounted
<1>3. CASE StopReleases(x)
  <2>1. Holders' = {}
    BY <1>1, <1>3
       DEF StopReleases, Holders, StartHolds, ReportHolds, StopHolds, TypeOK,
           gameVars
  <2> QED
    BY <1>1, <1>3, <2>1 DEF StopReleases, SemaphoreAccounted
<1> QED
  BY <1>2, <1>3 DEF StopThread

-----------------------------------------------------------------------------
(* The semaphore and the UI thread *)

\* Ending a connection hands its permit over to the thread that stops it.
LEMMA SemaphoreDrop ==
    ASSUME TypeOK, SemaphoreAccounted, NEW s \in Streams, DropConnection(s),
           connectionAllowed' = connectionAllowed, startPc' = startPc,
           \A r \in Runnables : ReportHolds(r)' <=> ReportHolds(r)
    PROVE  SemaphoreAccounted'
<1>1. \A t \in Starts : StartHolds(t)' <=> StartHolds(t)
  BY DEF StartHolds
<1>2. CASE connected[s]
  <2>1. connectionAllowed = 0 /\ Holders = {<<"stream", s>>}
    BY <1>2, OnlyHolder DEF Holders
  <2>2. /\ connected' = [connected EXCEPT ![s] = FALSE]
        /\ stopPc' = [stopPc EXCEPT ![<<"leave", s>>] = "interrupt"]
    BY <1>2 DEF DropConnection, SpawnStop
  <2>3. <<"leave", s>> \in StopKinds \X Streams
    BY DEF StopKinds
  <2>4. \A x \in StopKinds \X Streams :
            StopHolds(x)' <=> StopHolds(x) \/ x = <<"leave", s>>
    BY <2>2, <2>3 DEF StopHolds, TypeOK
  <2>5. \A u \in Streams : connected'[u] <=> connected[u] /\ u # s
    BY <2>2 DEF TypeOK
  <2>6. Holders' = {<<"stop", <<"leave", s>>>>}
    BY <1>1, <2>1, <2>3, <2>4, <2>5 DEF Holders
  <2> QED
    BY <2>1, <2>6 DEF SemaphoreAccounted
<1>3. CASE ~connected[s]
  <2>1. connected' = connected /\ stopPc' = stopPc
    BY <1>3 DEF DropConnection, connecting, TypeOK
  <2>2. Holders' = Holders
    BY <1>1, <2>1, SameHolders DEF StopHolds
  <2> QED
    BY <2>2 DEF SemaphoreAccounted
<1> QED
  BY <1>2, <1>3

\* Steps of the UI thread that touch no holder.
LEMMA SemaphoreUntouched ==
    ASSUME TypeOK, SemaphoreAccounted,
           connectionAllowed' = connectionAllowed, stopPc' = stopPc,
           connected' = connected,
           \A t \in Starts : StartHolds(t)' <=> StartHolds(t),
           \A r \in Runnables : ReportHolds(r)' <=> ReportHolds(r)
    PROVE  SemaphoreAccounted'
<1>1. Holders' = Holders
  BY SameHolders DEF StopHolds
<1> QED
  BY <1>1 DEF SemaphoreAccounted

LEMMA SemaphoreGiveUp ==
    ASSUME TypeOK, SemaphoreAccounted, NEW s \in Streams,
           NEW inFlight \in BOOLEAN, GiveUpReconnect(s, inFlight),
           connectionAllowed' = connectionAllowed, startPc' = startPc,
           \A r \in Runnables : ReportHolds(r)' <=> ReportHolds(r)
    PROVE  SemaphoreAccounted'
<1>1. CASE displayedFailureDialog[s]
  BY <1>1, SemaphoreUntouched DEF GiveUpReconnect, StartHolds
<1>2. CASE ~displayedFailureDialog[s]
  BY <1>2, SemaphoreDrop DEF GiveUpReconnect
<1> QED
  BY <1>1, <1>2

\* A report of success is handed to the stream, or to the thread that stops
\* what nobody wants any more; the end of a connection hands it to a stop.
LEMMA SemaphorePosted ==
    ASSUME TypeOK, SemaphoreAccounted, NEW t \in Starts, Posted(t)
    PROVE  SemaphoreAccounted'
<1> DEFINE s == t[1]
<1>0. s \in Streams
  BY DEF Starts
<1> HIDE DEF s
<1>1. connectionAllowed' = connectionAllowed
  BY DEF Posted, OnStarted, OnStartedAgain, OnStartFailed, OnAttemptFailed,
     OnDeadStopped, OnTerminated
<1>2. ASSUME NEW what \in {"startFailed", "attemptFailed", "attemptRefused",
                           "deadStopped", "terminated"},
             Take(what, t)
      PROVE  \A r \in Runnables : ReportHolds(r)' <=> ReportHolds(r)
  BY <1>2 DEF Take, ReportHolds
<1>3. ASSUME NEW what \in {"started", "startedAgain"}, Take(what, t)
      PROVE  /\ connectionAllowed = 0
             /\ Holders = {<<"report", <<what, t>>>>}
             /\ \A r \in Runnables :
                  ReportHolds(r)' <=> ReportHolds(r) /\ r # <<what, t>>
  <2>1. <<what, t>> \in Runnables
    BY DEF Runnables
  <2>2. ReportHolds(<<what, t>>)
    BY <1>3 DEF Take, ReportHolds
  <2>3. <<"report", <<what, t>>>> \in Holders
    BY <2>1, <2>2 DEF Holders
  <2>4. \A r \in Runnables :
            ReportHolds(r)' <=> ReportHolds(r) /\ r # <<what, t>>
    BY <1>3 DEF Take, ReportHolds
  <2> QED
    BY <2>3, <2>4, OnlyHolder
<1>4. CASE OnStarted(t)
  <2>1. /\ startPc' = startPc
        /\ stopPc' = stopPc
        /\ connected' = [connected EXCEPT ![s] = TRUE]
    BY <1>4 DEF OnStarted, threadVars, s
  <2>2. \A u \in Streams : connected'[u] <=> connected[u] \/ u = s
    BY <1>0, <2>1 DEF TypeOK
  <2>3. Take("started", t)
    BY <1>4 DEF OnStarted
  <2>4. Holders' = {<<"stream", s>>}
    BY <1>0, <1>3, <2>1, <2>2, <2>3 DEF Holders, StartHolds, StopHolds
  <2> QED
    BY <1>1, <1>3, <2>3, <2>4 DEF SemaphoreAccounted
<1>5. CASE OnStartedAgain(t)
  <2>1. Take("startedAgain", t) /\ startPc' = startPc
    BY <1>5 DEF OnStartedAgain
  <2>2. CASE reconnecting[s]
    <3>1. /\ stopPc' = stopPc
          /\ connected' = [connected EXCEPT ![s] = TRUE]
      BY <1>5, <2>2 DEF OnStartedAgain, s
    <3>2. \A u \in Streams : connected'[u] <=> connected[u] \/ u = s
      BY <1>0, <3>1 DEF TypeOK
    <3>3. Holders' = {<<"stream", s>>}
      BY <1>0, <1>3, <2>1, <3>1, <3>2 DEF Holders, StartHolds, StopHolds
    <3> QED
      BY <1>1, <1>3, <2>1, <3>3 DEF SemaphoreAccounted
  <2>3. CASE ~reconnecting[s]
    <3>1. /\ connected' = connected
          /\ stopPc' = [stopPc EXCEPT ![<<"late", s>>] = "interrupt"]
      BY <1>5, <2>3 DEF OnStartedAgain, SpawnStop, s
    <3>2. <<"late", s>> \in StopKinds \X Streams
      BY <1>0 DEF StopKinds
    <3>3. \A x \in StopKinds \X Streams :
              StopHolds(x)' <=> StopHolds(x) \/ x = <<"late", s>>
      BY <3>1, <3>2 DEF StopHolds, TypeOK
    <3>4. Holders' = {<<"stop", <<"late", s>>>>}
      BY <1>3, <2>1, <3>1, <3>2, <3>3 DEF Holders, StartHolds
    <3> QED
      BY <1>1, <1>3, <2>1, <3>4 DEF SemaphoreAccounted
  <2> QED
    BY <2>2, <2>3
<1>6. CASE OnStartFailed(t) \/ OnDeadStopped(t)
  <2>1. /\ connected' = connected
        /\ stopPc' = stopPc
        /\ startPc' = startPc
        /\ \E what \in {"startFailed", "deadStopped"} : Take(what, t)
    BY <1>6 DEF OnStartFailed, OnDeadStopped, threadVars
  <2>2. \A r \in Runnables : ReportHolds(r)' <=> ReportHolds(r)
    BY <1>2, <2>1
  <2> QED
    BY <1>1, <2>1, <2>2, SemaphoreUntouched DEF StartHolds
<1>7. CASE OnAttemptFailed(t)
  <2>1. /\ startPc' = startPc
        /\ \/ /\ Take("attemptFailed", t)
              /\ connected' = connected
              /\ stopPc' = stopPc
           \/ /\ Take("attemptRefused", t)
              /\ \/ GiveUpReconnect(s, FALSE)
                 \/ connected' = connected /\ stopPc' = stopPc
    BY <1>7 DEF OnAttemptFailed, s
  <2>2. \A r \in Runnables : ReportHolds(r)' <=> ReportHolds(r)
    BY <1>2, <2>1
  <2>3. CASE GiveUpReconnect(s, FALSE)
    BY <1>0, <1>1, <2>1, <2>2, <2>3, SemaphoreGiveUp
  <2>4. CASE connected' = connected /\ stopPc' = stopPc
    BY <1>1, <2>1, <2>2, <2>4, SemaphoreUntouched DEF StartHolds
  <2> QED
    BY <2>1, <2>3, <2>4
<1>8. CASE OnTerminated(t)
  <2>1. startPc' = startPc /\ Take("terminated", t)
    BY <1>8 DEF OnTerminated
  <2>2. \A r \in Runnables : ReportHolds(r)' <=> ReportHolds(r)
    BY <1>2, <2>1
  <2>3. CASE MaybeStartReconnect(s)
    <3>1. /\ connected[s]
          /\ connected' = [connected EXCEPT ![s] = FALSE]
          /\ stopPc' = [stopPc EXCEPT ![<<"dead", s>>] = "interrupt"]
      BY <2>3 DEF MaybeStartReconnect, SpawnStop
    <3>2. connectionAllowed = 0 /\ Holders = {<<"stream", s>>}
      BY <1>0, <3>1, OnlyHolder DEF Holders
    <3>3. <<"dead", s>> \in StopKinds \X Streams
      BY <1>0 DEF StopKinds
    <3>4. \A x \in StopKinds \X Streams :
              StopHolds(x)' <=> StopHolds(x) \/ x = <<"dead", s>>
      BY <3>1, <3>3 DEF StopHolds, TypeOK
    <3>5. \A u \in Streams : connected'[u] <=> connected[u] /\ u # s
      BY <3>1 DEF TypeOK
    <3>6. Holders' = {<<"stop", <<"dead", s>>>>}
      BY <2>1, <2>2, <3>2, <3>3, <3>4, <3>5 DEF Holders, StartHolds
    <3> QED
      BY <1>1, <3>2, <3>6 DEF SemaphoreAccounted
  <2>4. CASE ShowConnectionEnd(s)
    <3>1. CASE displayedFailureDialog[s]
      BY <1>1, <2>1, <2>2, <2>4, <3>1, SemaphoreUntouched
         DEF ShowConnectionEnd, StartHolds
    <3>2. CASE ~displayedFailureDialog[s]
      <4>1. DropConnection(s)
        BY <2>4, <3>2 DEF ShowConnectionEnd
      <4> QED
        BY <1>0, <1>1, <2>1, <2>2, <4>1, SemaphoreDrop
    <3> QED
      BY <3>1, <3>2
  <2> QED
    BY <1>8, <2>3, <2>4 DEF OnTerminated, s
<1> QED
  BY <1>4, <1>5, <1>6, <1>7, <1>8 DEF Posted

LEMMA SemaphoreScreen ==
    ASSUME TypeOK, StartsAreFresh, SemaphoreAccounted, NEW s \in Streams, Screen(s)
    PROVE  SemaphoreAccounted'
<1>1. connectionAllowed' = connectionAllowed /\ posted' = posted
  BY DEF Screen, SurfaceAvailable, FirstStart, SurfaceDestroyed,
     DismissDialog, OnStop
<1>2. \A r \in Runnables : ReportHolds(r)' <=> ReportHolds(r)
  BY <1>1 DEF ReportHolds
<1>3. CASE SurfaceAvailable(s) \/ DismissDialog(s)
  BY <1>1, <1>2, <1>3, SemaphoreUntouched
     DEF SurfaceAvailable, DismissDialog, threadVars, StartHolds
<1>4. CASE FirstStart(s)
  <2>1. connected' = connected /\ stopPc' = stopPc
    BY <1>4 DEF FirstStart
  <2>2. startPc' = startPc \/ startPc' = [startPc EXCEPT ![<<s, 0>>] = "probe"]
    BY <1>4 DEF FirstStart, StartConnection, Goto
  <2>3. startPc[<<s, 0>>] = "none"
    BY <1>4 DEF FirstStart, StartsAreFresh
  <2>4. \A t \in Starts : StartHolds(t)' <=> StartHolds(t)
    BY <2>2, <2>3 DEF StartHolds, HoldingStart, TypeOK
  <2> QED
    BY <1>1, <1>2, <2>1, <2>4, SemaphoreUntouched
<1>5. CASE SurfaceDestroyed(s)
  <2>1. startPc' = startPc
    BY <1>5 DEF SurfaceDestroyed
  <2>2. \/ DropConnection(s)
        \/ connected' = connected /\ stopPc' = stopPc
    BY <1>5 DEF SurfaceDestroyed, StopConnection
  <2> QED
    BY <1>1, <1>2, <2>1, <2>2, SemaphoreUntouched, SemaphoreDrop
       DEF StartHolds
<1>6. CASE OnStop(s)
  BY <1>1, <1>2, <1>6, SemaphoreDrop DEF OnStop, StopConnection
<1> QED
  BY <1>3, <1>4, <1>5, <1>6 DEF Screen

LEMMA SemaphoreTimer ==
    ASSUME TypeOK, StartsAreFresh, SemaphoreAccounted, NEW s \in Streams,
           Timer(s)
    PROVE  SemaphoreAccounted'
<1>1. connectionAllowed' = connectionAllowed /\ posted' = posted
  BY DEF Timer, AttemptTimer, WindowOver
<1>2. \A r \in Runnables : ReportHolds(r)' <=> ReportHolds(r)
  BY <1>1 DEF ReportHolds
<1>3. CASE /\ startPc' = startPc
           /\ \E inFlight \in BOOLEAN : GiveUpReconnect(s, inFlight)
  BY <1>1, <1>2, <1>3, SemaphoreGiveUp
<1>4. CASE /\ startPc' = startPc
           /\ connected' = connected
           /\ stopPc' = stopPc
  BY <1>1, <1>2, <1>4, SemaphoreUntouched DEF StartHolds
<1>5. CASE /\ attempts[s] < MaxAttempts
           /\ startPc' = [startPc EXCEPT ![<<s, attempts[s] + 1>>] = "probe"]
           /\ connected' = connected
           /\ stopPc' = stopPc
  <2>1. attempts[s] + 1 \in 1 .. MaxAttempts /\ attempts[s] + 1 > attempts[s]
    BY <1>5, StreamSessionAssumption DEF TypeOK
  <2>2. startPc[<<s, attempts[s] + 1>>] = "none"
    BY <2>1 DEF StartsAreFresh
  <2>3. \A t \in Starts : StartHolds(t)' <=> StartHolds(t)
    BY <1>5, <2>2 DEF StartHolds, HoldingStart, TypeOK
  <2> QED
    BY <1>1, <1>2, <1>5, <2>3, SemaphoreUntouched
<1>6. reconnectAttemptInFlight[s] \in BOOLEAN
  BY DEF TypeOK
<1> QED
  BY <1>3, <1>4, <1>5, <1>6 DEF Timer, AttemptTimer, WindowOver,
     StartConnection, Goto

LEMMA SemaphoreCoreEvents ==
    ASSUME TypeOK, SemaphoreAccounted,
           Terminates \/ \E t \in Starts : PostTerminated(t)
    PROVE  SemaphoreAccounted'
<1>1. /\ connectionAllowed' = connectionAllowed
      /\ startPc' = startPc
      /\ stopPc' = stopPc
      /\ connected' = connected
  BY DEF Terminates, PostTerminated, gameVars, threadVars
<1>2. \/ posted' = posted
      \/ \E t \in Starts : posted' = posted \cup {<<"terminated", t>>}
  BY DEF Terminates, PostTerminated
<1>3. \A r \in Runnables : ReportHolds(r)' <=> ReportHolds(r)
  BY <1>2 DEF ReportHolds
<1> QED
  BY <1>1, <1>3, SemaphoreUntouched DEF StartHolds

LEMMA SemaphoreInit == Init => SemaphoreAccounted
<1> SUFFICES ASSUME Init PROVE SemaphoreAccounted
  OBVIOUS
<1>1. Holders = {}
  BY DEF Init, Holders, StartHolds, HoldingStart, ReportHolds, StopHolds
<1> QED
  BY <1>1 DEF Init, SemaphoreAccounted

\* Every permit of NvConnection's static semaphore is accounted for, however
\* many streams follow each other and however often they reconnect.
THEOREM SemaphoreSafe == Spec => []SemaphoreAccounted
<1>1. TypeOK /\ StartsAreFresh /\ SemaphoreAccounted /\ [Next]_vars
        => SemaphoreAccounted'
  <2> SUFFICES ASSUME TypeOK, StartsAreFresh, SemaphoreAccounted, [Next]_vars
               PROVE  SemaphoreAccounted'
    OBVIOUS
  <2>1. CASE UNCHANGED vars
    BY <2>1, SemaphoreUntouched DEF vars, threadVars, gameVars, StartHolds,
       ReportHolds
  <2>2. ASSUME NEW t \in Starts, StartThread(t) PROVE SemaphoreAccounted'
    BY <2>2, SemaphoreQuietStart, SemaphoreAcquire, SemaphoreHoldingStart
       DEF StartThread
  <2>3. ASSUME NEW t \in Starts, Posted(t) PROVE SemaphoreAccounted'
    BY <2>3, SemaphorePosted
  <2>4. ASSUME NEW x \in StopKinds \X Streams, StopThread(x)
        PROVE  SemaphoreAccounted'
    BY <2>4, SemaphoreStopThread
  <2>5. ASSUME NEW s \in Streams, Screen(s) PROVE SemaphoreAccounted'
    BY <2>5, SemaphoreScreen
  <2>6. ASSUME NEW s \in Streams, Timer(s) PROVE SemaphoreAccounted'
    BY <2>6, SemaphoreTimer
  <2>7. CASE Terminates \/ \E t \in Starts : PostTerminated(t)
    BY <2>7, SemaphoreCoreEvents
  <2> QED
    BY <2>1, <2>2, <2>3, <2>4, <2>5, <2>6, <2>7 DEF Next
<1> QED
  BY <1>1, TypeCorrect, FreshInvariant, SemaphoreInit, PTL DEF Spec

\* One stream at a time has the connection: no two streams are connected, and
\* none is connected while a start of another is past the semaphore.
THEOREM OneStreamHasTheConnection ==
    Spec => [](\A s, o \in Streams :
                  connected[s] /\ s # o =>
                      /\ ~connected[o]
                      /\ \A k \in 0 .. MaxAttempts : ~StartHolds(<<o, k>>))
<1> DEFINE Exclusive ==
        \A s, o \in Streams :
            connected[s] /\ s # o =>
                /\ ~connected[o]
                /\ \A k \in 0 .. MaxAttempts : ~StartHolds(<<o, k>>)
<1>1. SemaphoreAccounted => Exclusive
  <2> SUFFICES ASSUME SemaphoreAccounted,
                      NEW s \in Streams, NEW o \in Streams,
                      connected[s], s # o
               PROVE  /\ ~connected[o]
                      /\ \A k \in 0 .. MaxAttempts : ~StartHolds(<<o, k>>)
    OBVIOUS
  <2>1. Holders = {<<"stream", s>>}
    <3>1. <<"stream", s>> \in Holders
      BY DEF Holders
    <3> QED
      BY <3>1, OnlyHolder
  <2>2. ~connected[o]
    <3>1. connected[o] => <<"stream", o>> \in Holders
      BY DEF Holders
    <3>2. <<"stream", o>> # <<"stream", s>>
      OBVIOUS
    <3> QED
      BY <2>1, <3>1, <3>2
  <2>3. ASSUME NEW k \in 0 .. MaxAttempts PROVE ~StartHolds(<<o, k>>)
    <3>1. <<o, k>> \in Starts
      BY DEF Starts
    <3>2. StartHolds(<<o, k>>) => <<"start", <<o, k>>>> \in Holders
      BY <3>1 DEF Holders
    <3>3. <<"start", <<o, k>>>> # <<"stream", s>>
      OBVIOUS
    <3> QED
      BY <2>1, <3>2, <3>3
  <2> QED
    BY <2>2, <2>3
<1> QED
  BY <1>1, SemaphoreSafe, PTL

-----------------------------------------------------------------------------
(* The core.  It is up only for the one who owes the permit, with the       *)
(* callbacks of that stream installed, and it starts only under the monitor. *)

InCore == {"core", "coreFailed", "returning"}

MonitorAgrees == \A t \in Starts : startPc[t] \in InCore <=> monitor = t

StartInCore ==
    /\ core = "starting" <=> \E t \in Starts : startPc[t] = "core"
    /\ \A t \in Starts : startPc[t] = "core" => bridge = t

\* Whoever owes the permit of a connection that was made has the core.
ReportHasCore == \A r \in Runnables : ReportHolds(r) => core = "up" /\ bridge = r[2]
StreamHasCore ==
    \A s \in Streams : connected[s] => core = "up" /\ bridge \in Starts /\ bridge[1] = s
StopHasCore ==
    \A x \in StopKinds \X Streams :
        /\ stopPc[x] \in {"interrupt", "locking"} =>
              core = "up" /\ bridge \in Starts /\ bridge[1] = x[2]
        /\ stopPc[x] = "releasing" => core = "idle"

\* A connection that is up is owed by somebody.
UpIsOwed ==
    core = "up" =>
        \/ \E r \in Runnables : ReportHolds(r)
        \/ \E s \in Streams : connected[s]
        \/ \E x \in StopKinds \X Streams : StopHolds(x)

CoreInv ==
    /\ MonitorAgrees /\ StartInCore
    /\ ReportHasCore /\ StreamHasCore /\ StopHasCore /\ UpIsOwed

LEMMA CoreInvServes ==
    ASSUME TypeOK, CoreInv
    PROVE  CoreServesHolder
<1>1. ASSUME NEW t \in Starts, startPc[t] \in InCore PROVE monitor = t
  BY <1>1 DEF CoreInv, MonitorAgrees
<1>2. ASSUME core = "starting"
      PROVE  monitor = bridge /\ startPc[bridge] = "core"
  BY <1>1, <1>2 DEF CoreInv, StartInCore, InCore
<1>3. ASSUME core = "up"
      PROVE  \/ \E r \in posted : ReportHolds(r) /\ r[2] = bridge
             \/ connected[bridge[1]]
             \/ \E why \in StopKinds : StopHolds(<<why, bridge[1]>>)
  <2>1. CASE \E r \in Runnables : ReportHolds(r)
    BY <2>1 DEF CoreInv, ReportHasCore, ReportHolds
  <2>2. CASE \E s \in Streams : connected[s]
    BY <2>2 DEF CoreInv, StreamHasCore
  <2>3. ASSUME NEW x \in StopKinds \X Streams, StopHolds(x)
        PROVE  \E why \in StopKinds : StopHolds(<<why, bridge[1]>>)
    <3>1. stopPc[x] \in {"interrupt", "locking", "releasing"}
      BY <2>3 DEF StopHolds, TypeOK, StopPcs
    <3>2. bridge[1] = x[2]
      BY <1>3, <3>1 DEF CoreInv, StopHasCore
    <3>3. x = <<x[1], bridge[1]>> /\ x[1] \in StopKinds
      BY <3>2
    <3> QED
      BY <2>3, <3>3
  <2> QED
    BY <1>3, <2>1, <2>2, <2>3 DEF CoreInv, UpIsOwed
<1>4. ASSUME NEW s \in Streams, connected[s] PROVE core = "up" /\ bridge[1] = s
  BY <1>4 DEF CoreInv, StreamHasCore
<1> QED
  BY <1>1, <1>2, <1>3, <1>4 DEF CoreServesHolder, CoreInv, StartInCore, InCore

\* Steps that touch neither the core nor anyone who owes the permit for it.
LEMMA CoreUntouched ==
    ASSUME TypeOK, CoreInv,
           core' = core, monitor' = monitor, bridge' = bridge,
           stopPc' = stopPc, connected' = connected,
           \A t \in Starts :
              startPc'[t] = startPc[t] \/ {startPc[t], startPc'[t]} \cap InCore = {},
           \A r \in Runnables : ReportHolds(r)' <=> ReportHolds(r)
    PROVE  CoreInv'
<1>1. \A t \in Starts : /\ startPc'[t] \in InCore <=> startPc[t] \in InCore
                        /\ startPc'[t] = "core" <=> startPc[t] = "core"
  BY DEF InCore
<1>2. MonitorAgrees' /\ StartInCore'
  BY <1>1 DEF CoreInv, MonitorAgrees, StartInCore
<1>3. ReportHasCore' /\ StreamHasCore' /\ StopHasCore'
  BY DEF CoreInv, ReportHasCore, StreamHasCore, StopHasCore
<1>4. UpIsOwed'
  BY DEF CoreInv, UpIsOwed, StopHolds
<1> QED
  BY <1>2, <1>3, <1>4 DEF CoreInv

LEMMA CoreQuietStart ==
    ASSUME TypeOK, CoreInv, NEW t \in Starts,
           \/ Probe(t) \/ CheckBeforeLaunch(t) \/ SendLaunch(t)
           \/ LaunchAnswered(t) \/ CheckBeforeAcquire(t) \/ Acquire(t)
           \/ CheckAfterAcquire(t)
    PROVE  CoreInv'
<1>1. /\ core' = core /\ monitor' = monitor /\ bridge' = bridge
      /\ stopPc' = stopPc /\ connected' = connected
      /\ startPc[t] \notin InCore
  BY DEF Probe, CheckBeforeLaunch, SendLaunch, LaunchAnswered, CheckBeforeAcquire,
     Acquire, CheckAfterAcquire, coreVars, gameVars, InCore
<1>2. \E pc \in StartPcs \ InCore : startPc' = [startPc EXCEPT ![t] = pc]
  BY DEF Probe, CheckBeforeLaunch, SendLaunch, LaunchAnswered, CheckBeforeAcquire,
     Acquire, CheckAfterAcquire, HostUnreachable, HostRefuses, StageFailed, Goto,
     StartPcs, InCore
<1>3. \/ posted' = posted
      \/ \E final \in BOOLEAN : posted' = posted \cup {FailureOf(t, final)}
  BY DEF Probe, CheckBeforeLaunch, SendLaunch, LaunchAnswered, CheckBeforeAcquire,
     Acquire, CheckAfterAcquire, HostUnreachable, HostRefuses, StageFailed
<1>4. \A r \in Runnables : ReportHolds(r)' <=> ReportHolds(r)
  BY <1>3, FailureIsNoReport DEF ReportHolds
<1>5. \A u \in Starts :
          startPc'[u] = startPc[u] \/ {startPc[u], startPc'[u]} \cap InCore = {}
  BY <1>1, <1>2 DEF TypeOK
<1> QED
  BY <1>1, <1>4, <1>5, CoreUntouched

LEMMA CoreStarting ==
    ASSUME TypeOK, SemaphoreAccounted, CoreInv, NEW t \in Starts,
           EnterCore(t) \/ CoreStarted(t) \/ CoreStartFails(t) \/ LeaveCore(t)
    PROVE  CoreInv'
<1>0. stopPc' = stopPc /\ connected' = connected /\ startPc[t] # "none"
  BY DEF EnterCore, CoreStarted, CoreStartFails, LeaveCore, gameVars
<1>1. CASE EnterCore(t)
  <2>1. /\ startPc' = [startPc EXCEPT ![t] = "core"]
        /\ core' = "starting" /\ monitor' = t /\ bridge' = t /\ posted' = posted
        /\ monitor = NoStart /\ StartHolds(t)
    BY <1>1 DEF EnterCore, Goto, StartHolds, HoldingStart
  <2>2. \A u \in Starts : startPc[u] \notin InCore
    BY <2>1, StreamSessionAssumption DEF CoreInv, MonitorAgrees
  <2>3. \A u \in Starts : startPc'[u] \in InCore <=> u = t
    BY <2>1, <2>2 DEF TypeOK, InCore
  <2>4. \A u \in Starts : startPc'[u] = "core" <=> u = t
    BY <2>1, <2>2 DEF TypeOK, InCore
  <2>5. MonitorAgrees' /\ StartInCore'
    BY <2>1, <2>3, <2>4 DEF MonitorAgrees, StartInCore
  <2>6. /\ \A r \in Runnables : ~ReportHolds(r)'
        /\ \A s \in Streams : ~connected'[s]
        /\ \A x \in StopKinds \X Streams : stopPc'[x] = "idle"
    BY <1>0, <2>1, StartIsAlone DEF ReportHolds, StopHolds
  <2> QED
    BY <2>1, <2>5, <2>6
       DEF CoreInv, ReportHasCore, StreamHasCore, StopHasCore, UpIsOwed
<1>2. ASSUME startPc[t] = "core"
      PROVE  /\ monitor = t /\ bridge = t
             /\ \A u \in Starts : startPc[u] \in InCore <=> u = t
             /\ \A r \in Runnables : ~ReportHolds(r)
             /\ \A s \in Streams : ~connected[s]
             /\ \A x \in StopKinds \X Streams : stopPc[x] = "idle"
  BY <1>2, StartIsAlone
     DEF CoreInv, MonitorAgrees, StartInCore, InCore, StopHolds, StartHolds, HoldingStart
<1>3. CASE CoreStarted(t)
  <2>1. PICK what \in {"started", "startedAgain"} : posted' = posted \cup {<<what, t>>}
    BY <1>3 DEF CoreStarted
  <2>2. /\ startPc' = [startPc EXCEPT ![t] = "returning"] /\ startPc[t] = "core"
        /\ core' = "up" /\ monitor' = monitor /\ bridge' = bridge
    BY <1>3 DEF CoreStarted, Goto
  <2>3. \A u \in Starts : /\ startPc'[u] \in InCore <=> u = t
                          /\ startPc'[u] # "core"
    BY <1>2, <2>2 DEF TypeOK, InCore
  <2>4. MonitorAgrees' /\ StartInCore'
    BY <1>2, <2>2, <2>3 DEF MonitorAgrees, StartInCore
  <2>5. \A r \in Runnables : ReportHolds(r)' <=> r = <<what, t>>
    BY <1>2, <2>1, <2>2 DEF ReportHolds
  <2>6. <<what, t>> \in Runnables
    BY DEF Runnables
  <2> QED
    BY <1>0, <1>2, <2>2, <2>4, <2>5, <2>6
       DEF CoreInv, ReportHasCore, StreamHasCore, StopHasCore, UpIsOwed
<1>4. CASE CoreStartFails(t)
  <2>1. \A r \in Runnables : ReportHolds(r)' => ReportHolds(r)
    BY <1>4, FailureIsNoReport DEF CoreStartFails, ReportHolds
  <2>2. /\ startPc' = [startPc EXCEPT ![t] = "coreFailed"] /\ startPc[t] = "core"
        /\ core' = "idle" /\ monitor' = monitor /\ bridge' = bridge
    BY <1>4 DEF CoreStartFails, Goto
  <2>3. \A u \in Starts : /\ startPc'[u] \in InCore <=> u = t
                          /\ startPc'[u] # "core"
    BY <1>2, <2>2 DEF TypeOK, InCore
  <2>4. MonitorAgrees' /\ StartInCore'
    BY <1>2, <2>2, <2>3 DEF MonitorAgrees, StartInCore
  <2>5. \A r \in Runnables : ~ReportHolds(r)'
    BY <1>2, <2>1, <2>2
  <2> QED
    BY <1>0, <1>2, <2>2, <2>4, <2>5
       DEF CoreInv, ReportHasCore, StreamHasCore, StopHasCore, UpIsOwed
<1>5. CASE LeaveCore(t)
  <2>1. /\ startPc' = [startPc EXCEPT ![t] = "done"]
        /\ startPc[t] \in InCore /\ startPc[t] # "core"
        /\ core' = core /\ monitor' = NoStart /\ bridge' = bridge /\ posted' = posted
    BY <1>5 DEF LeaveCore, Goto, InCore
  <2>2. monitor = t /\ \A u \in Starts : startPc[u] \in InCore <=> u = t
    BY <2>1 DEF CoreInv, MonitorAgrees
  <2>3. \A u \in Starts : startPc'[u] \notin InCore /\ startPc[u] # "core"
    BY <2>1, <2>2 DEF TypeOK, InCore
  <2>4. MonitorAgrees' /\ StartInCore'
    BY <2>1, <2>3, StreamSessionAssumption
       DEF CoreInv, MonitorAgrees, StartInCore, InCore
  <2>5. \A r \in Runnables : ReportHolds(r)' <=> ReportHolds(r)
    BY <2>1 DEF ReportHolds
  <2> QED
    BY <1>0, <2>1, <2>4, <2>5
       DEF CoreInv, ReportHasCore, StreamHasCore, StopHasCore, UpIsOwed, StopHolds
<1> QED
  BY <1>1, <1>3, <1>4, <1>5

LEMMA CoreStopThread ==
    ASSUME TypeOK, SemaphoreAccounted, CoreInv, NEW x \in StopKinds \X Streams,
           StopThread(x)
    PROVE  CoreInv'
<1>1. /\ connected' = connected /\ startPc' = startPc /\ monitor' = monitor
      /\ StopHolds(x)
      /\ \A r \in Runnables : ReportHolds(r)' <=> ReportHolds(r)
  BY DEF StopThread, StopInterrupts, StopCore, StopReleases, gameVars, coreVars,
     StopHolds, ReportHolds
<1>2. /\ \A t \in Starts : ~StartHolds(t)
      /\ \A r \in Runnables : ~ReportHolds(r)
      /\ \A s \in Streams : ~connected[s]
      /\ \A y \in StopKinds \X Streams : StopHolds(y) => y = x
  <2>1. <<"stop", x>> \in Holders
    BY <1>1 DEF Holders
  <2> QED
    BY <2>1, HolderIsAlone
<1>3. \A t \in Starts : startPc[t] # "core"
  BY <1>2 DEF StartHolds, HoldingStart
<1>4. \A y \in StopKinds \X Streams : y # x => stopPc[y] = "idle"
  BY <1>2 DEF StopHolds
<1>5. core # "starting"
  BY <1>3 DEF CoreInv, StartInCore
<1>6. core' # "starting"
  BY <1>5 DEF StopThread, StopInterrupts, StopCore, StopReleases, coreVars
<1>7. MonitorAgrees' /\ StartInCore'
  BY <1>1, <1>3, <1>6 DEF CoreInv, MonitorAgrees, StartInCore
<1>8. CASE StopInterrupts(x)
  <2>1. /\ core' = core /\ bridge' = bridge /\ stopPc[x] = "interrupt"
        /\ stopPc' = [stopPc EXCEPT ![x] = "locking"]
    BY <1>8 DEF StopInterrupts, coreVars
  <2>2. \A y \in StopKinds \X Streams :
            stopPc'[y] = IF y = x THEN "locking" ELSE "idle"
    BY <1>4, <2>1 DEF TypeOK
  <2> QED
    BY <1>1, <1>2, <1>7, <2>1, <2>2
       DEF CoreInv, ReportHasCore, StreamHasCore, StopHasCore, UpIsOwed, StopHolds
<1>9. CASE StopCore(x)
  <2>1. core' = "idle" /\ stopPc' = [stopPc EXCEPT ![x] = "releasing"]
    BY <1>9 DEF StopCore
  <2>2. \A y \in StopKinds \X Streams :
            stopPc'[y] = IF y = x THEN "releasing" ELSE "idle"
    BY <1>4, <2>1 DEF TypeOK
  <2> QED
    BY <1>1, <1>2, <1>7, <2>1, <2>2
       DEF CoreInv, ReportHasCore, StreamHasCore, StopHasCore, UpIsOwed
<1>10. CASE StopReleases(x)
  <2>1. /\ core' = core /\ stopPc[x] = "releasing"
        /\ stopPc' = [stopPc EXCEPT ![x] = "idle"]
    BY <1>10 DEF StopReleases, coreVars
  <2>2. core = "idle"
    BY <2>1 DEF CoreInv, StopHasCore
  <2>3. \A y \in StopKinds \X Streams : stopPc'[y] = "idle"
    BY <1>4, <2>1 DEF TypeOK
  <2> QED
    BY <1>1, <1>2, <1>7, <2>1, <2>2, <2>3
       DEF CoreInv, ReportHasCore, StreamHasCore, StopHasCore, UpIsOwed
<1> QED
  BY <1>8, <1>9, <1>10 DEF StopThread

\* What the UI thread does leaves the core, the monitor and the bridge alone.
SameCore == core' = core /\ monitor' = monitor /\ bridge' = bridge

\* A connection is handed over to the thread that stops it, and the core with it.
LEMMA CoreHandedToStop ==
    ASSUME TypeOK, CoreInv, NEW s \in Streams, NEW why \in StopKinds, connected[s],
           SameCore, startPc' = startPc,
           connected' = [connected EXCEPT ![s] = FALSE], SpawnStop(why, s),
           \A r \in Runnables : ReportHolds(r)' <=> ReportHolds(r)
    PROVE  CoreInv'
<1>1. <<why, s>> \in StopKinds \X Streams /\ <<why, s>>[2] = s
  OBVIOUS
<1>2. core = "up" /\ bridge \in Starts /\ bridge[1] = s
  BY DEF CoreInv, StreamHasCore
<1>3. \A x \in StopKinds \X Streams :
          stopPc'[x] = IF x = <<why, s>> THEN "interrupt" ELSE stopPc[x]
  BY <1>1 DEF SpawnStop, TypeOK
<1>4. \A o \in Streams : connected'[o] => connected[o]
  BY DEF TypeOK
<1>5. MonitorAgrees' /\ StartInCore'
  BY DEF CoreInv, MonitorAgrees, StartInCore, SameCore
<1>6. ReportHasCore' /\ StreamHasCore'
  BY <1>4 DEF CoreInv, ReportHasCore, StreamHasCore, SameCore
<1>7. StopHasCore'
  BY <1>1, <1>2, <1>3 DEF CoreInv, StopHasCore, SameCore
<1>8. UpIsOwed'
  BY <1>1, <1>3 DEF UpIsOwed, StopHolds
<1> QED
  BY <1>5, <1>6, <1>7, <1>8 DEF CoreInv

LEMMA CoreDrop ==
    ASSUME TypeOK, CoreInv, NEW s \in Streams, DropConnection(s),
           SameCore, startPc' = startPc,
           \A r \in Runnables : ReportHolds(r)' <=> ReportHolds(r)
    PROVE  CoreInv'
<1>1. CASE connected[s]
  BY <1>1, CoreHandedToStop DEF DropConnection, StopKinds
<1>2. CASE ~connected[s]
  <2>1. connected' = connected /\ stopPc' = stopPc
    BY <1>2 DEF DropConnection, connecting, TypeOK
  <2> QED
    BY <2>1, CoreUntouched DEF SameCore
<1> QED
  BY <1>1, <1>2

LEMMA CoreGiveUp ==
    ASSUME TypeOK, CoreInv, NEW s \in Streams, NEW inFlight \in BOOLEAN,
           GiveUpReconnect(s, inFlight), SameCore, startPc' = startPc,
           \A r \in Runnables : ReportHolds(r)' <=> ReportHolds(r)
    PROVE  CoreInv'
<1>1. CASE displayedFailureDialog[s]
  BY <1>1, CoreUntouched DEF GiveUpReconnect, SameCore
<1>2. CASE ~displayedFailureDialog[s]
  BY <1>2, CoreDrop DEF GiveUpReconnect
<1> QED
  BY <1>1, <1>2

\* A report of success had the core, and hands it to its stream or to the stop of it.
LEMMA CoreReported ==
    ASSUME TypeOK, SemaphoreAccounted, CoreInv, NEW t \in Starts,
           OnStarted(t) \/ OnStartedAgain(t)
    PROVE  CoreInv'
<1> DEFINE s == t[1]
<1>0. s \in Streams
  BY DEF Starts
<1>1. PICK what \in {"started", "startedAgain"} : Take(what, t)
  BY DEF OnStarted, OnStartedAgain
<1>2. <<what, t>> \in Runnables /\ ReportHolds(<<what, t>>) /\ <<what, t>>[2] = t
  BY <1>1 DEF Runnables, Take, ReportHolds
<1>3. core = "up" /\ bridge = t
  BY <1>2 DEF CoreInv, ReportHasCore
<1>4. /\ \A r \in Runnables : ReportHolds(r) => r = <<what, t>>
      /\ \A o \in Streams : ~connected[o]
      /\ \A x \in StopKinds \X Streams : ~StopHolds(x)
  <2>1. <<"report", <<what, t>>>> \in Holders
    BY <1>2 DEF Holders
  <2> QED
    BY <2>1, HolderIsAlone
<1>5. \A r \in Runnables : ~ReportHolds(r)'
  BY <1>1, <1>4 DEF Take, ReportHolds
<1>6. SameCore /\ startPc' = startPc
  BY DEF OnStarted, OnStartedAgain, SameCore, coreVars, threadVars
<1>7. MonitorAgrees' /\ StartInCore'
  BY <1>6 DEF CoreInv, MonitorAgrees, StartInCore, SameCore
<1>8. CASE stopPc' = stopPc /\ connected' = [connected EXCEPT ![s] = TRUE]
  <2>1. \A o \in Streams : connected'[o] <=> o = s
    BY <1>0, <1>4, <1>8 DEF TypeOK
  <2>2. \A x \in StopKinds \X Streams : stopPc'[x] = "idle"
    BY <1>4, <1>8 DEF StopHolds
  <2> QED
    BY <1>0, <1>3, <1>5, <1>6, <1>7, <2>1, <2>2
       DEF CoreInv, ReportHasCore, StreamHasCore, StopHasCore, UpIsOwed, SameCore
<1>9. CASE connected' = connected /\ SpawnStop("late", s)
  <2>1. <<"late", s>> \in StopKinds \X Streams /\ <<"late", s>>[2] = s
    BY <1>0 DEF StopKinds
  <2>2. \A x \in StopKinds \X Streams :
            stopPc'[x] = IF x = <<"late", s>> THEN "interrupt" ELSE "idle"
    BY <1>4, <1>9, <2>1 DEF SpawnStop, StopHolds, TypeOK
  <2> QED
    BY <1>3, <1>4, <1>5, <1>6, <1>7, <1>9, <2>1, <2>2
       DEF CoreInv, ReportHasCore, StreamHasCore, StopHasCore, UpIsOwed, SameCore,
           StopHolds
<1> QED
  BY <1>8, <1>9 DEF OnStarted, OnStartedAgain, threadVars

LEMMA CorePosted ==
    ASSUME TypeOK, SemaphoreAccounted, CoreInv, NEW t \in Starts, Posted(t)
    PROVE  CoreInv'
<1> DEFINE s == t[1]
<1>0. s \in Streams
  BY DEF Starts
<1> HIDE DEF s
<1>1. CASE OnStarted(t) \/ OnStartedAgain(t)
  BY <1>1, CoreReported
<1>2. CASE OnStartFailed(t) \/ OnAttemptFailed(t) \/ OnDeadStopped(t) \/ OnTerminated(t)
  <2>1. SameCore /\ startPc' = startPc
    BY <1>2 DEF OnStartFailed, OnAttemptFailed, OnDeadStopped, OnTerminated, SameCore,
       coreVars, threadVars
  <2>2. \E what \in {"startFailed", "attemptFailed", "attemptRefused", "deadStopped",
                     "terminated"} : Take(what, t)
    BY <1>2 DEF OnStartFailed, OnAttemptFailed, OnDeadStopped, OnTerminated
  <2>3. \A r \in Runnables : ReportHolds(r)' <=> ReportHolds(r)
    BY <2>2 DEF Take, ReportHolds
  <2>4. CASE connected' = connected /\ stopPc' = stopPc
    BY <2>1, <2>3, <2>4, CoreUntouched DEF SameCore
  <2>5. CASE GiveUpReconnect(s, FALSE)
    BY <1>0, <2>1, <2>3, <2>5, CoreGiveUp
  <2>6. CASE DropConnection(s)
    BY <1>0, <2>1, <2>3, <2>6, CoreDrop
  <2>7. CASE MaybeStartReconnect(s)
    BY <1>0, <2>1, <2>3, <2>7, CoreHandedToStop DEF MaybeStartReconnect, StopKinds
  <2> QED
    BY <1>2, <2>4, <2>5, <2>6, <2>7
       DEF OnStartFailed, OnAttemptFailed, OnDeadStopped, OnTerminated,
           ShowConnectionEnd, threadVars, s
<1> QED
  BY <1>1, <1>2 DEF Posted

LEMMA CoreScreen ==
    ASSUME TypeOK, StartsAreFresh, CoreInv, NEW s \in Streams, Screen(s) \/ Timer(s)
    PROVE  CoreInv'
<1>1. SameCore /\ posted' = posted
  BY DEF Screen, Timer, SurfaceAvailable, FirstStart, SurfaceDestroyed, DismissDialog,
     OnStop, AttemptTimer, WindowOver, SameCore, coreVars
<1>2. \A r \in Runnables : ReportHolds(r)' <=> ReportHolds(r)
  BY <1>1 DEF ReportHolds
<1>3. CASE startPc' = startPc /\ connected' = connected /\ stopPc' = stopPc
  BY <1>1, <1>2, <1>3, CoreUntouched DEF SameCore
<1>4. CASE startPc' = startPc /\ DropConnection(s)
  BY <1>1, <1>2, <1>4, CoreDrop
<1>5. CASE startPc' = startPc /\ \E inFlight \in BOOLEAN : GiveUpReconnect(s, inFlight)
  BY <1>1, <1>2, <1>5, CoreGiveUp
<1>6. ASSUME NEW t \in Starts, startPc[t] = "none",
             startPc' = [startPc EXCEPT ![t] = "probe"],
             connected' = connected, stopPc' = stopPc
      PROVE  CoreInv'
  <2>1. \A u \in Starts :
            startPc'[u] = startPc[u] \/ {startPc[u], startPc'[u]} \cap InCore = {}
    BY <1>6 DEF TypeOK, InCore
  <2> QED
    BY <1>1, <1>2, <1>6, <2>1, CoreUntouched DEF SameCore
<1>7. CASE SurfaceAvailable(s) \/ DismissDialog(s)
  BY <1>3, <1>7 DEF SurfaceAvailable, DismissDialog, threadVars
<1>8. CASE FirstStart(s)
  <2>1. startPc[<<s, 0>>] = "none"
    BY <1>8 DEF FirstStart, StartsAreFresh
  <2> QED
    BY <1>3, <1>6, <1>8, <2>1, FirstStartIsAStart DEF FirstStart, StartConnection, Goto
<1>9. CASE SurfaceDestroyed(s) \/ OnStop(s)
  BY <1>3, <1>4, <1>9 DEF SurfaceDestroyed, OnStop, StopConnection
<1>10. CASE AttemptTimer(s)
  <2>1. attempts[s] < MaxAttempts
    BY <1>10 DEF AttemptTimer
  <2>2. attempts[s] + 1 \in 1 .. MaxAttempts /\ attempts[s] + 1 > attempts[s]
    BY <2>1, StreamSessionAssumption DEF TypeOK
  <2>3. startPc[<<s, attempts[s] + 1>>] = "none" /\ <<s, attempts[s] + 1>> \in Starts
    <3>1. startPc[<<s, attempts[s] + 1>>] = "none"
      BY <2>2 DEF StartsAreFresh
    <3>2. <<s, attempts[s] + 1>> \in Starts
      BY <2>2, StreamSessionAssumption DEF Starts
    <3> QED
      BY <3>1, <3>2
  <2>4. \/ startPc' = startPc /\ connected' = connected /\ stopPc' = stopPc
        \/ startPc' = startPc /\ GiveUpReconnect(s, FALSE)
        \/ /\ startPc' = [startPc EXCEPT ![<<s, attempts[s] + 1>>] = "probe"]
           /\ connected' = connected /\ stopPc' = stopPc
    BY <1>10 DEF AttemptTimer, StartConnection, Goto
  <2> QED
    BY <1>3, <1>5, <1>6, <2>3, <2>4
<1>11. CASE WindowOver(s)
  <2>1. reconnectAttemptInFlight[s] \in BOOLEAN
    BY DEF TypeOK
  <2> QED
    BY <1>3, <1>5, <1>11, <2>1 DEF WindowOver
<1> QED
  BY <1>7, <1>8, <1>9, <1>10, <1>11 DEF Screen, Timer

LEMMA CoreEvents ==
    ASSUME TypeOK, CoreInv, Terminates \/ \E t \in Starts : PostTerminated(t)
    PROVE  CoreInv'
<1>1. SameCore /\ startPc' = startPc /\ stopPc' = stopPc /\ connected' = connected
  BY DEF Terminates, PostTerminated, gameVars, threadVars, SameCore
<1>2. \/ posted' = posted
      \/ \E t \in Starts : posted' = posted \cup {<<"terminated", t>>}
  BY DEF Terminates, PostTerminated
<1>3. \A r \in Runnables : ReportHolds(r)' <=> ReportHolds(r)
  BY <1>2 DEF ReportHolds
<1> QED
  BY <1>1, <1>3, CoreUntouched DEF SameCore

LEMMA CoreInvariant == Spec => []CoreInv
<1>1. Init => CoreInv
  BY StreamSessionAssumption
     DEF Init, CoreInv, MonitorAgrees, StartInCore, ReportHasCore, StreamHasCore,
         StopHasCore, UpIsOwed, ReportHolds, InCore
<1>2. TypeOK /\ StartsAreFresh /\ SemaphoreAccounted /\ CoreInv /\ [Next]_vars
        => CoreInv'
  <2> SUFFICES ASSUME TypeOK, StartsAreFresh, SemaphoreAccounted, CoreInv, [Next]_vars
               PROVE  CoreInv'
    OBVIOUS
  <2>1. CASE UNCHANGED vars
    BY <2>1, CoreUntouched DEF vars, coreVars, threadVars, gameVars, ReportHolds
  <2>2. ASSUME NEW t \in Starts, StartThread(t) PROVE CoreInv'
    BY <2>2, CoreQuietStart, CoreStarting DEF StartThread
  <2>3. ASSUME NEW t \in Starts, Posted(t) PROVE CoreInv'
    BY <2>3, CorePosted
  <2>4. ASSUME NEW x \in StopKinds \X Streams, StopThread(x) PROVE CoreInv'
    BY <2>4, CoreStopThread
  <2>5. ASSUME NEW s \in Streams, Screen(s) \/ Timer(s) PROVE CoreInv'
    BY <2>5, CoreScreen
  <2>6. CASE Terminates \/ \E t \in Starts : PostTerminated(t)
    BY <2>6, CoreEvents
  <2> QED
    BY <2>1, <2>2, <2>3, <2>4, <2>5, <2>6 DEF Next
<1> QED
  BY <1>1, <1>2, TypeCorrect, FreshInvariant, SemaphoreSafe, PTL DEF Spec

\* The native core starts for one start at a time and is up only for the stream
\* that owes the permit, whose callbacks are the ones installed: its input goes to
\* its own host.
THEOREM CoreServes == Spec => []CoreServesHolder
<1>1. TypeOK /\ CoreInv => CoreServesHolder
  BY CoreInvServes
<1> QED
  BY <1>1, TypeCorrect, CoreInvariant, PTL

-----------------------------------------------------------------------------
(* The screens.  One of them is on at a time; only it starts, reconnects and *)
(* aborts, and what an earlier one left behind belongs to a screen that was  *)
(* left.                                                                     *)

ReconnectsOnScreen ==
    \A s \in Streams : reconnecting[s] => phase[s] = "attempted" /\ ~stopped[s]
StartsFromScreen == \A t \in Starts : startPc[t] # "none" => phase[t[1]] = "attempted"
OneScreen ==
    \A s, o \in Streams :
        s # o => phase[s] = "waiting" \/ stopped[s] \/ phase[o] = "waiting" \/ stopped[o]
StoppedFinish == \A s \in Streams : stopped[s] => finishing[s]
BridgeWasStarted == \A t \in Starts : bridge = t => startPc[t] # "none"

ScreenInv ==
    /\ ReconnectsOnScreen /\ StartsFromScreen /\ OneScreen
    /\ StoppedFinish /\ BridgeWasStarted

\* Steps that change no phase, end no screen and start no reconnect.
LEMMA ScreenKept ==
    ASSUME ScreenInv, phase' = phase, stopped' = stopped,
           \A s \in Streams : finishing[s] => finishing'[s],
           \A s \in Streams : reconnecting'[s] => reconnecting[s],
           \A t \in Starts : startPc'[t] = "none" <=> startPc[t] = "none",
           \A t \in Starts : bridge' = t => bridge = t \/ startPc[t] # "none"
    PROVE  ScreenInv'
<1>1. ReconnectsOnScreen'
  BY DEF ScreenInv, ReconnectsOnScreen
<1>2. StartsFromScreen'
  BY DEF ScreenInv, StartsFromScreen
<1>3. OneScreen' /\ StoppedFinish'
  BY DEF ScreenInv, OneScreen, StoppedFinish
<1>4. BridgeWasStarted'
  BY DEF ScreenInv, BridgeWasStarted
<1> QED
  BY <1>1, <1>2, <1>3, <1>4 DEF ScreenInv

LEMMA ScreenStartThread ==
    ASSUME TypeOK, ScreenInv, NEW t \in Starts, StartThread(t)
    PROVE  ScreenInv'
<1>1. /\ phase' = phase /\ stopped' = stopped /\ finishing' = finishing
      /\ reconnecting' = reconnecting
  BY DEF StartThread, Probe, CheckBeforeLaunch, SendLaunch, LaunchAnswered,
     CheckBeforeAcquire, Acquire, CheckAfterAcquire, EnterCore, CoreStarted,
     CoreStartFails, LeaveCore, gameVars, screenVars, reconnectVars
<1>2. startPc[t] # "none" /\ (bridge' = bridge \/ bridge' = t)
  BY DEF StartThread, Probe, CheckBeforeLaunch, SendLaunch, LaunchAnswered,
     CheckBeforeAcquire, Acquire, CheckAfterAcquire, EnterCore, CoreStarted,
     CoreStartFails, LeaveCore, coreVars
<1>3. \E pc \in StartPcs \ {"none"} : startPc' = [startPc EXCEPT ![t] = pc]
  BY DEF StartThread, Probe, CheckBeforeLaunch, SendLaunch, LaunchAnswered,
     CheckBeforeAcquire, Acquire, CheckAfterAcquire, EnterCore, CoreStarted,
     CoreStartFails, LeaveCore, HostUnreachable, HostRefuses, StageFailed, Goto, StartPcs
<1>4. \A u \in Starts : startPc'[u] = "none" <=> startPc[u] = "none"
  BY <1>2, <1>3 DEF TypeOK
<1> QED
  BY <1>1, <1>2, <1>4, ScreenKept

LEMMA ScreenStopThread ==
    ASSUME ScreenInv, NEW x \in StopKinds \X Streams, StopThread(x)
    PROVE  ScreenInv'
<1>1. /\ phase' = phase /\ stopped' = stopped /\ finishing' = finishing
      /\ reconnecting' = reconnecting /\ startPc' = startPc
      /\ bridge' = bridge \/ bridge' = NoStart
  BY DEF StopThread, StopInterrupts, StopCore, StopReleases, gameVars, screenVars,
     reconnectVars, coreVars
<1>2. \A t \in Starts : bridge' = t => bridge = t
  BY <1>1, StreamSessionAssumption
<1> QED
  BY <1>1, <1>2, ScreenKept

\* A stream that is connected has its screen, or had it.
LEMMA ConnectedWasStarted ==
    ASSUME CoreInv, ScreenInv, NEW s \in Streams, connected[s]
    PROVE  phase[s] = "attempted"
  BY DEF CoreInv, StreamHasCore, ScreenInv, BridgeWasStarted, StartsFromScreen

LEMMA ScreenPosted ==
    ASSUME TypeOK, CoreInv, ScreenInv, NEW t \in Starts, Posted(t)
    PROVE  ScreenInv'
<1> DEFINE s == t[1]
<1>0. s \in Streams
  BY DEF Starts
<1> HIDE DEF s
<1>1. /\ phase' = phase /\ stopped' = stopped /\ startPc' = startPc /\ bridge' = bridge
  BY DEF Posted, OnStarted, OnStartedAgain, OnStartFailed, OnAttemptFailed, OnDeadStopped,
     OnTerminated, screenVars, coreVars, threadVars
<1>2. CASE reconnecting' = reconnecting /\ finishing' = finishing
  BY <1>1, <1>2, ScreenKept
<1>3. ASSUME reconnecting' = [reconnecting EXCEPT ![s] = FALSE],
             finishing' = finishing \/ \E b \in BOOLEAN :
                 finishing' = [finishing EXCEPT ![s] = @ \/ b]
      PROVE  ScreenInv'
  <2>1. \A o \in Streams : finishing[o] => finishing'[o]
    BY <1>0, <1>3 DEF TypeOK
  <2>2. \A o \in Streams : reconnecting'[o] => reconnecting[o]
    BY <1>0, <1>3 DEF TypeOK
  <2> QED
    BY <1>1, <2>1, <2>2, ScreenKept
<1>4. CASE MaybeStartReconnect(s)
  <2>1. connected[s] /\ ~finishing[s] /\ finishing' = finishing
    BY <1>4 DEF MaybeStartReconnect
  <2>2. phase[s] = "attempted" /\ ~stopped[s]
    BY <1>0, <2>1, ConnectedWasStarted DEF ScreenInv, StoppedFinish
  <2>3. \A o \in Streams : reconnecting'[o] => reconnecting[o] \/ o = s
    BY <1>4 DEF MaybeStartReconnect, TypeOK
  <2>4. ReconnectsOnScreen'
    BY <1>1, <2>2, <2>3 DEF ScreenInv, ReconnectsOnScreen
  <2> QED
    BY <1>1, <2>1, <2>4
       DEF ScreenInv, StartsFromScreen, OneScreen, StoppedFinish, BridgeWasStarted
<1>5. CASE OnStarted(t) \/ OnStartFailed(t) \/ OnDeadStopped(t)
  BY <1>2, <1>5 DEF OnStarted, OnStartFailed, OnDeadStopped, screenVars, reconnectVars
<1>6. CASE OnStartedAgain(t)
  BY <1>2, <1>3, <1>6
     DEF OnStartedAgain, screenVars, EndReconnect, AbandonReconnect, s
<1>7. CASE OnAttemptFailed(t)
  BY <1>2, <1>3, <1>7
     DEF OnAttemptFailed, screenVars, GiveUpReconnect, EndReconnect, AbandonReconnect, s
<1>8. CASE OnTerminated(t)
  <2>1. CASE ShowConnectionEnd(s)
    BY <1>2, <1>3, <2>1 DEF ShowConnectionEnd, AbandonReconnect
  <2> QED
    BY <1>4, <1>8, <2>1 DEF OnTerminated, s
<1> QED
  BY <1>5, <1>6, <1>7, <1>8 DEF Posted

LEMMA ScreenScreen ==
    ASSUME TypeOK, ScreenInv, NEW s \in Streams, Screen(s)
    PROVE  ScreenInv'
<1>1. bridge' = bridge
  BY DEF Screen, SurfaceAvailable, FirstStart, SurfaceDestroyed, DismissDialog, OnStop,
     coreVars
<1>2. ASSUME StopConnection(s)
      PROVE  \A o \in Streams : reconnecting'[o] => reconnecting[o] /\ o # s
  BY <1>2 DEF StopConnection, EndReconnect, AbandonReconnect, TypeOK
<1>3. CASE SurfaceAvailable(s)
  <2>1. /\ stopped' = stopped /\ finishing' = finishing /\ startPc' = startPc
        /\ reconnecting' = reconnecting
        /\ \A o \in Streams \ {s} : stopped[o] \/ phase[o] = "waiting"
        /\ phase' = [phase EXCEPT ![s] = IF @ = "waiting" THEN "measuring" ELSE @]
    BY <1>3 DEF SurfaceAvailable, threadVars, reconnectVars
  <2>2. \A o \in Streams : /\ o # s => phase'[o] = phase[o]
                           /\ phase[o] = "attempted" => phase'[o] = "attempted"
    BY <2>1 DEF TypeOK
  <2>3. OneScreen'
    BY <2>1, <2>2 DEF OneScreen
  <2>4. StartsFromScreen'
    BY <2>1, <2>2 DEF ScreenInv, StartsFromScreen, Starts
  <2> QED
    BY <1>1, <2>1, <2>2, <2>3, <2>4
       DEF ScreenInv, ReconnectsOnScreen, StoppedFinish, BridgeWasStarted
<1>4. CASE FirstStart(s)
  <2>1. /\ stopped' = stopped /\ finishing' = finishing /\ reconnecting' = reconnecting
        /\ phase[s] = "measuring" /\ phase' = [phase EXCEPT ![s] = "attempted"]
        /\ startPc' = startPc \/ startPc' = [startPc EXCEPT ![<<s, 0>>] = "probe"]
    BY <1>4 DEF FirstStart, StartConnection, Goto, reconnectVars
  <2>2. \A o \in Streams : phase'[o] = IF o = s THEN "attempted" ELSE phase[o]
    BY <2>1 DEF TypeOK
  <2>3. \A t \in Starts : /\ startPc'[t] # "none" => startPc[t] # "none" \/ t = <<s, 0>>
                          /\ startPc[t] # "none" => startPc'[t] # "none"
    BY <2>1, FirstStartIsAStart DEF TypeOK
  <2>4. StartsFromScreen' /\ BridgeWasStarted'
    BY <1>1, <2>2, <2>3 DEF ScreenInv, StartsFromScreen, BridgeWasStarted, Starts
  <2>5. OneScreen'
    BY <2>1, <2>2 DEF ScreenInv, OneScreen
  <2> QED
    BY <2>1, <2>2, <2>4, <2>5 DEF ScreenInv, ReconnectsOnScreen, StoppedFinish
<1>5. CASE SurfaceDestroyed(s)
  <2>1. /\ stopped' = stopped /\ finishing' = finishing /\ startPc' = startPc
        /\ phase' = [phase EXCEPT ![s] = IF @ = "measuring" THEN "waiting" ELSE @]
        /\ StopConnection(s) \/ reconnecting' = reconnecting
    BY <1>5 DEF SurfaceDestroyed
  <2>2. \A o \in Streams : reconnecting'[o] => reconnecting[o]
    BY <1>2, <2>1
  <2>3. \A o \in Streams : /\ phase[o] = "attempted" => phase'[o] = "attempted"
                           /\ phase[o] = "waiting" => phase'[o] = "waiting"
    BY <2>1 DEF TypeOK
  <2>4. StartsFromScreen'
    BY <2>1, <2>3 DEF ScreenInv, StartsFromScreen, Starts
  <2>5. OneScreen'
    BY <2>1, <2>3 DEF ScreenInv, OneScreen
  <2> QED
    BY <1>1, <2>1, <2>2, <2>3, <2>4, <2>5
       DEF ScreenInv, ReconnectsOnScreen, StoppedFinish, BridgeWasStarted
<1>6. CASE DismissDialog(s)
  <2>1. /\ stopped' = stopped /\ phase' = phase /\ startPc' = startPc
        /\ reconnecting' = reconnecting /\ finishing' = [finishing EXCEPT ![s] = TRUE]
    BY <1>6 DEF DismissDialog, threadVars, reconnectVars
  <2>2. \A o \in Streams : finishing[o] => finishing'[o]
    BY <2>1 DEF TypeOK
  <2> QED
    BY <1>1, <2>1, <2>2, ScreenKept
<1>7. CASE OnStop(s)
  <2>1. /\ phase' = phase /\ startPc' = startPc /\ StopConnection(s)
        /\ stopped' = [stopped EXCEPT ![s] = TRUE]
        /\ finishing' = [finishing EXCEPT ![s] = TRUE]
    BY <1>7 DEF OnStop
  <2>2. \A o \in Streams : /\ stopped'[o] <=> stopped[o] \/ o = s
                           /\ finishing'[o] <=> finishing[o] \/ o = s
    BY <2>1 DEF TypeOK
  <2>3. ReconnectsOnScreen'
    BY <1>2, <2>1, <2>2 DEF ScreenInv, ReconnectsOnScreen
  <2>4. OneScreen' /\ StoppedFinish'
    BY <2>1, <2>2 DEF ScreenInv, OneScreen, StoppedFinish
  <2> QED
    BY <1>1, <2>1, <2>3, <2>4 DEF ScreenInv, StartsFromScreen, BridgeWasStarted
<1> QED
  BY <1>3, <1>4, <1>5, <1>6, <1>7 DEF Screen

LEMMA ScreenTimer ==
    ASSUME TypeOK, ScreenInv, NEW s \in Streams, Timer(s)
    PROVE  ScreenInv'
<1>1. bridge' = bridge /\ phase' = phase /\ stopped' = stopped /\ finishing' = finishing
  BY DEF Timer, AttemptTimer, WindowOver, coreVars, screenVars
<1>2. \A o \in Streams : reconnecting'[o] => reconnecting[o]
  BY DEF Timer, AttemptTimer, WindowOver, GiveUpReconnect, EndReconnect,
     AbandonReconnect, TypeOK
<1>3. CASE startPc' = startPc
  BY <1>1, <1>2, <1>3, ScreenKept
<1>4. CASE /\ reconnecting[s]
           /\ startPc' = [startPc EXCEPT ![<<s, attempts[s] + 1>>] = "probe"]
  <2>1. \A t \in Starts :
            /\ startPc'[t] # "none" => startPc[t] # "none" \/ t = <<s, attempts[s] + 1>>
            /\ startPc[t] # "none" => startPc'[t] # "none"
    BY <1>4 DEF TypeOK
  <2>2. phase[s] = "attempted"
    BY <1>4 DEF ScreenInv, ReconnectsOnScreen
  <2>3. StartsFromScreen' /\ BridgeWasStarted'
    BY <1>1, <2>1, <2>2 DEF ScreenInv, StartsFromScreen, BridgeWasStarted, Starts
  <2> QED
    BY <1>1, <1>2, <2>3 DEF ScreenInv, ReconnectsOnScreen, OneScreen, StoppedFinish
<1> QED
  BY <1>3, <1>4 DEF Timer, AttemptTimer, WindowOver, StartConnection, Goto

LEMMA ScreenInvariant == Spec => []ScreenInv
<1>1. Init => ScreenInv
  <2>1. Init => \A t \in Starts : startPc[t] = "none"
    BY DEF Init
  <2> QED
    BY <2>1, StreamSessionAssumption
       DEF Init, ScreenInv, ReconnectsOnScreen, StartsFromScreen, OneScreen,
           StoppedFinish, BridgeWasStarted
<1>2. TypeOK /\ CoreInv /\ ScreenInv /\ [Next]_vars => ScreenInv'
  <2> SUFFICES ASSUME TypeOK, CoreInv, ScreenInv, [Next]_vars PROVE ScreenInv'
    OBVIOUS
  <2>1. CASE UNCHANGED vars \/ Terminates \/ \E t \in Starts : PostTerminated(t)
    <3>1. /\ phase' = phase /\ stopped' = stopped /\ finishing' = finishing
          /\ reconnecting' = reconnecting /\ startPc' = startPc /\ bridge' = bridge
      BY <2>1 DEF vars, Terminates, PostTerminated, gameVars, screenVars, reconnectVars,
         threadVars, coreVars
    <3> QED
      BY <3>1, ScreenKept
  <2>2. ASSUME NEW t \in Starts, StartThread(t) \/ Posted(t) PROVE ScreenInv'
    BY <2>2, ScreenStartThread, ScreenPosted
  <2>3. ASSUME NEW x \in StopKinds \X Streams, StopThread(x) PROVE ScreenInv'
    BY <2>3, ScreenStopThread
  <2>4. ASSUME NEW s \in Streams, Screen(s) \/ Timer(s) PROVE ScreenInv'
    BY <2>4, ScreenScreen, ScreenTimer
  <2> QED
    BY <2>1, <2>2, <2>3, <2>4 DEF Next
<1> QED
  BY <1>1, <1>2, TypeCorrect, CoreInvariant, PTL DEF Spec

\* The core is interrupted by a stop, or by a stream that ends its reconnect and
\* tells its attempt to give up.
LEMMA WhoInterrupts ==
    ASSUME TypeOK, [Next]_vars, ~interrupted, interrupted'
    PROVE  \/ \E x \in StopKinds \X Streams : StopHolds(x)
           \/ \E s \in Streams : reconnecting[s] /\ startAborted'[s]
<1>1. ASSUME NEW s \in Streams, NEW b \in BOOLEAN, AbandonReconnect(s, b)
      PROVE  b /\ startAborted'[s]
  BY <1>1 DEF AbandonReconnect, TypeOK
<1>2. ASSUME NEW t \in Starts, StartThread(t) \/ PostTerminated(t) PROVE FALSE
  BY <1>2 DEF StartThread, Probe, CheckBeforeLaunch, SendLaunch, LaunchAnswered,
     CheckBeforeAcquire, Acquire, CheckAfterAcquire, EnterCore, CoreStarted,
     CoreStartFails, LeaveCore, PostTerminated
<1>3. ASSUME NEW x \in StopKinds \X Streams, StopThread(x) PROVE StopHolds(x)
  BY <1>3 DEF StopThread, StopInterrupts, StopCore, StopReleases, StopHolds
<1>4. ASSUME NEW t \in Starts, Posted(t)
      PROVE  reconnecting[t[1]] /\ startAborted'[t[1]]
  <2>1. t[1] \in Streams
    BY DEF Starts
  <2>2. ASSUME AbandonReconnect(t[1], FALSE) PROVE FALSE
    BY <2>1, <2>2, <1>1
  <2>3. CASE OnStarted(t) \/ OnStartFailed(t) \/ OnDeadStopped(t)
    BY <2>3 DEF OnStarted, OnStartFailed, OnDeadStopped
  <2>4. CASE OnStartedAgain(t) \/ OnAttemptFailed(t)
    BY <2>2, <2>4 DEF OnStartedAgain, OnAttemptFailed, GiveUpReconnect, EndReconnect
  <2>5. CASE OnTerminated(t)
    <3>1. AbandonReconnect(t[1], reconnecting[t[1]] /\ reconnectAttemptInFlight[t[1]])
      BY <2>5 DEF OnTerminated, MaybeStartReconnect, ShowConnectionEnd
    <3>2. (reconnecting[t[1]] /\ reconnectAttemptInFlight[t[1]]) \in BOOLEAN
      OBVIOUS
    <3> QED
      BY <2>1, <3>1, <3>2, <1>1
  <2> QED
    BY <1>4, <2>3, <2>4, <2>5 DEF Posted
<1>5. ASSUME NEW s \in Streams, Screen(s) \/ Timer(s)
      PROVE  reconnecting[s] /\ startAborted'[s]
  <2>1. reconnectAttemptInFlight[s] \in BOOLEAN
    BY DEF TypeOK
  <2>2. ASSUME AbandonReconnect(s, FALSE) PROVE FALSE
    BY <2>2, <1>1
  <2>3. ASSUME AbandonReconnect(s, reconnectAttemptInFlight[s])
        PROVE  startAborted'[s]
    BY <2>1, <2>3, <1>1
  <2>4. CASE Screen(s)
    BY <2>3, <2>4 DEF Screen, SurfaceAvailable, FirstStart, SurfaceDestroyed,
       DismissDialog, OnStop, StopConnection, EndReconnect
  <2>5. CASE Timer(s)
    BY <2>2, <2>3, <2>5 DEF Timer, AttemptTimer, WindowOver, GiveUpReconnect, EndReconnect
  <2> QED
    BY <1>5, <2>4, <2>5
<1>6. ~UNCHANGED vars /\ ~Terminates
  BY DEF vars, Terminates
<1> QED
  BY <1>2, <1>3, <1>4, <1>5, <1>6 DEF Next, Starts

\* LiInterruptConnection() is global, and abortStart() and stop() call it outside the
\* monitor; still no stream interrupts the start of another that was not left.
THEOREM StartsStayTheirOwn == Spec => OnlyOwnStartInterrupted
<1> DEFINE Own ==
        core = "starting" /\ ~interrupted /\ interrupted' =>
            \/ startAborted'[bridge[1]]
            \/ stopped[bridge[1]]
            \/ \E why \in StopKinds : stopPc[<<why, bridge[1]>>] = "interrupt"
<1>1. TypeOK /\ SemaphoreAccounted /\ CoreInv /\ ScreenInv /\ [Next]_vars => Own
  <2> SUFFICES ASSUME TypeOK, SemaphoreAccounted, CoreInv, ScreenInv, [Next]_vars,
                      core = "starting", ~interrupted, interrupted'
               PROVE  startAborted'[bridge[1]] \/ stopped[bridge[1]]
    OBVIOUS
  <2>1. PICK t \in Starts : startPc[t] = "core" /\ bridge = t
    BY DEF CoreInv, StartInCore
  <2>2. \A x \in StopKinds \X Streams : ~StopHolds(x)
    BY <2>1, StartIsAlone DEF StartHolds, HoldingStart
  <2>3. PICK s \in Streams : reconnecting[s] /\ startAborted'[s]
    BY <2>2, WhoInterrupts
  <2>4. phase[s] = "attempted" /\ ~stopped[s]
    BY <2>3 DEF ScreenInv, ReconnectsOnScreen
  <2>5. t[1] \in Streams /\ phase[t[1]] = "attempted"
    BY <2>1 DEF ScreenInv, StartsFromScreen, Starts
  <2>6. t[1] # s => stopped[t[1]]
    BY <2>4, <2>5 DEF ScreenInv, OneScreen
  <2> QED
    BY <2>1, <2>3, <2>6
<1>2. TypeOK /\ SemaphoreAccounted /\ CoreInv /\ ScreenInv /\ [Next]_vars => [Own]_vars
  BY <1>1
<1> QED
  BY <1>2, TypeCorrect, SemaphoreSafe, CoreInvariant, ScreenInvariant, PTL
     DEF Spec, OnlyOwnStartInterrupted

-----------------------------------------------------------------------------
(* Attempts and their reports.  A stream's starts follow one another: the   *)
(* first one reports before any reconnect, an attempt is the stream's last  *)
(* one, runs or has one report posted, and the flag is up meanwhile.        *)

FirstReports == {"started", "startFailed"}
Running(t) == startPc[t] \in Unreported
NeverConnected(s) == attempts[s] = 0 /\ ~connected[s] /\ ~reconnecting[s]

RunsInFlight ==
    \A t \in Starts : Running(t) /\ t[2] # 0 =>
        t[2] = attempts[t[1]] /\ reconnectAttemptInFlight[t[1]]
ReportsInFlight ==
    \A t \in Starts : \A what \in AttemptReports : <<what, t>> \in posted =>
        /\ t[2] # 0 /\ t[2] = attempts[t[1]] /\ reconnectAttemptInFlight[t[1]]
        /\ ~Running(t)
OneReport ==
    \A t \in Starts : \A v, w \in AttemptReports :
        <<v, t>> \in posted /\ <<w, t>> \in posted => v = w
FlightHasAttempt ==
    \A s \in Streams : reconnectAttemptInFlight[s] =>
        /\ attempts[s] # 0
        /\ \/ Running(<<s, attempts[s]>>)
           \/ \E what \in AttemptReports : <<what, <<s, attempts[s]>>>> \in posted
FirstRunsFirst ==
    \A t \in Starts :
        t[2] = 0 /\ (startPc[t] = "none" \/ Running(t)) => NeverConnected(t[1])
FirstReportsFirst ==
    \A t \in Starts : \A what \in FirstReports : <<what, t>> \in posted =>
        t[2] = 0 /\ NeverConnected(t[1]) /\ startPc[t] # "none" /\ ~Running(t)
OneFirstReport ==
    \A t \in Starts : \A v, w \in FirstReports :
        <<v, t>> \in posted /\ <<w, t>> \in posted => v = w

FlightInv ==
    /\ RunsInFlight /\ ReportsInFlight /\ OneReport /\ FlightHasAttempt
    /\ FirstRunsFirst /\ FirstReportsFirst /\ OneFirstReport

LEMMA AttemptIsAStart ==
    ASSUME TypeOK, NEW s \in Streams
    PROVE  <<s, attempts[s]>> \in Starts
  BY DEF TypeOK, Starts

LEMMA FlightIsExact ==
    ASSUME TypeOK, FlightInv
    PROVE  InFlightIsExact
<1> SUFFICES ASSUME NEW s \in Streams
             PROVE  reconnectAttemptInFlight[s] <=>
                        \E k \in 1 .. MaxAttempts :
                            \/ startPc[<<s, k>>] \in Unreported
                            \/ \E what \in AttemptReports : <<what, <<s, k>>>> \in posted
  BY DEF InFlightIsExact
<1>1. ASSUME reconnectAttemptInFlight[s]
      PROVE  \E k \in 1 .. MaxAttempts :
                \/ startPc[<<s, k>>] \in Unreported
                \/ \E what \in AttemptReports : <<what, <<s, k>>>> \in posted
  <2>1. attempts[s] # 0 /\ attempts[s] \in 0 .. MaxAttempts
    BY <1>1 DEF FlightInv, FlightHasAttempt, TypeOK
  <2>2. attempts[s] \in 1 .. MaxAttempts
    BY <2>1, StreamSessionAssumption
  <2> QED
    BY <1>1, <2>2 DEF FlightInv, FlightHasAttempt, Running
<1>2. ASSUME NEW k \in 1 .. MaxAttempts,
             \/ startPc[<<s, k>>] \in Unreported
             \/ \E what \in AttemptReports : <<what, <<s, k>>>> \in posted
      PROVE  reconnectAttemptInFlight[s]
  <2>1. <<s, k>> \in Starts /\ <<s, k>>[1] = s /\ <<s, k>>[2] = k /\ k # 0
    BY StreamSessionAssumption DEF Starts
  <2> QED
    BY <1>2, <2>1 DEF FlightInv, RunsInFlight, ReportsInFlight, Running
<1> QED
  BY <1>1, <1>2

\* Steps that neither start a start nor let one report.
LEMMA FlightKept ==
    ASSUME TypeOK, FlightInv, attempts' = attempts,
           reconnectAttemptInFlight' = reconnectAttemptInFlight,
           \A s \in Streams : NeverConnected(s) => NeverConnected(s)',
           \A t \in Starts : /\ Running(t)' <=> Running(t)
                             /\ startPc'[t] = "none" <=> startPc[t] = "none"
                             /\ \A what \in AttemptReports \cup FirstReports :
                                   <<what, t>> \in posted' <=> <<what, t>> \in posted
    PROVE  FlightInv'
<1>1. RunsInFlight' /\ ReportsInFlight' /\ OneReport'
  BY DEF FlightInv, RunsInFlight, ReportsInFlight, OneReport
<1>2. FlightHasAttempt'
  <2> SUFFICES ASSUME NEW s \in Streams, reconnectAttemptInFlight[s]
               PROVE  /\ attempts[s] # 0
                      /\ \/ Running(<<s, attempts[s]>>)'
                         \/ \E what \in AttemptReports :
                               <<what, <<s, attempts[s]>>>> \in posted'
    BY DEF FlightHasAttempt
  <2>1. <<s, attempts[s]>> \in Starts
    BY AttemptIsAStart
  <2> QED
    BY <2>1 DEF FlightInv, FlightHasAttempt
<1>3. \A t \in Starts : t[1] \in Streams
  BY DEF Starts
<1>4. FirstRunsFirst' /\ FirstReportsFirst'
  BY <1>3 DEF FlightInv, FirstRunsFirst, FirstReportsFirst
<1>5. OneFirstReport'
  BY DEF FlightInv, OneFirstReport
<1> QED
  BY <1>1, <1>2, <1>4, <1>5 DEF FlightInv

\* A start reports, as an attempt if the flag is up.
LEMMA FlightReport ==
    ASSUME TypeOK, FlightInv, NEW t \in Starts, Running(t),
           NEW pc \in StartPcs \ Unreported, pc # "none",
           startPc' = [startPc EXCEPT ![t] = pc],
           NEW what \in IF reconnectAttemptInFlight[t[1]]
                        THEN AttemptReports ELSE FirstReports,
           posted' = posted \cup {<<what, t>>},
           attempts' = attempts, connected' = connected, reconnecting' = reconnecting,
           reconnectAttemptInFlight' = reconnectAttemptInFlight
    PROVE  FlightInv'
<1>1. t[1] \in Streams /\ t = <<t[1], t[2]>>
  BY DEF Starts
<1>2. \A u \in Starts : /\ Running(u)' <=> Running(u) /\ u # t
                        /\ startPc'[u] = "none" <=> startPc[u] = "none"
  BY DEF TypeOK, Running, Unreported
<1>3. \A s \in Streams : NeverConnected(s)' <=> NeverConnected(s)
  BY DEF NeverConnected
<1>4. \A u \in Starts : \A w \in AttemptReports \cup FirstReports :
          <<w, u>> \in posted' <=> <<w, u>> \in posted \/ (u = t /\ w = what)
  OBVIOUS
<1>5. AttemptReports \cap FirstReports = {}
  BY DEF AttemptReports, FirstReports
<1>6. /\ \A w \in AttemptReports : <<w, t>> \notin posted
      /\ \A w \in FirstReports : <<w, t>> \notin posted
  BY DEF FlightInv, ReportsInFlight, FirstReportsFirst
<1>7. CASE t[2] = 0
  <2>1. NeverConnected(t[1])
    BY <1>7 DEF FlightInv, FirstRunsFirst
  <2>2. ~reconnectAttemptInFlight[t[1]] /\ what \in FirstReports
    BY <1>1, <2>1 DEF FlightInv, FlightHasAttempt, NeverConnected
  <2>3. \A u \in Starts : \A w \in AttemptReports :
            <<w, u>> \in posted' <=> <<w, u>> \in posted
    BY <1>4, <1>5, <2>2
  <2>4. RunsInFlight'
    BY <1>2 DEF FlightInv, RunsInFlight
  <2>5. ReportsInFlight' /\ OneReport'
    BY <1>2, <2>3 DEF FlightInv, ReportsInFlight, OneReport
  <2>6. FlightHasAttempt'
    <3>1. \A s \in Streams : attempts[s] # 0 => <<s, attempts[s]>> # t
      BY <1>7
    <3> QED
      BY <1>2, <2>3, <3>1, AttemptIsAStart DEF FlightInv, FlightHasAttempt
  <2>7. FirstRunsFirst'
    BY <1>2, <1>3 DEF FlightInv, FirstRunsFirst, Starts
  <2>8. FirstReportsFirst'
    <3> SUFFICES ASSUME NEW u \in Starts, NEW w \in FirstReports, <<w, u>> \in posted'
                 PROVE  /\ u[2] = 0 /\ NeverConnected(u[1])'
                        /\ startPc'[u] # "none" /\ ~Running(u)'
      BY DEF FirstReportsFirst
    <3>1. u[1] \in Streams
      BY DEF Starts
    <3>2. startPc[t] # "none"
      BY DEF Running, Unreported
    <3>3. u[2] = 0 /\ NeverConnected(u[1]) /\ startPc[u] # "none"
      BY <1>4, <1>7, <2>1, <3>2 DEF FlightInv, FirstReportsFirst
    <3>4. ~Running(u) \/ u = t
      BY <1>4 DEF FlightInv, FirstReportsFirst
    <3> QED
      BY <1>2, <1>3, <3>1, <3>3, <3>4
  <2>9. OneFirstReport'
    BY <1>4, <1>6 DEF FlightInv, OneFirstReport
  <2> QED
    BY <2>4, <2>5, <2>6, <2>7, <2>8, <2>9 DEF FlightInv
<1>8. CASE t[2] # 0
  <2>1. t[2] = attempts[t[1]] /\ reconnectAttemptInFlight[t[1]] /\ what \in AttemptReports
    BY <1>8 DEF FlightInv, RunsInFlight
  <2>2. \A u \in Starts : \A w \in FirstReports :
            <<w, u>> \in posted' <=> <<w, u>> \in posted
    BY <1>4, <1>5, <2>1
  <2>3. RunsInFlight'
    BY <1>2 DEF FlightInv, RunsInFlight
  <2>4. ReportsInFlight'
    BY <1>2, <1>4, <1>8, <2>1 DEF FlightInv, ReportsInFlight
  <2>5. OneReport'
    BY <1>4, <1>6 DEF FlightInv, OneReport
  <2>6. FlightHasAttempt'
    <3> SUFFICES ASSUME NEW s \in Streams, reconnectAttemptInFlight[s]
                 PROVE  /\ attempts[s] # 0
                        /\ \/ Running(<<s, attempts[s]>>)'
                           \/ \E w \in AttemptReports :
                                 <<w, <<s, attempts[s]>>>> \in posted'
      BY DEF FlightHasAttempt
    <3>1. <<s, attempts[s]>> \in Starts
      BY AttemptIsAStart
    <3>2. CASE <<s, attempts[s]>> = t
      BY <1>8, <2>1, <3>2
    <3>3. CASE <<s, attempts[s]>> # t
      BY <1>2, <3>1, <3>3 DEF FlightInv, FlightHasAttempt
    <3> QED
      BY <3>2, <3>3
  <2>7. FirstRunsFirst'
    BY <1>2, <1>3 DEF FlightInv, FirstRunsFirst, Starts
  <2>8. FirstReportsFirst' /\ OneFirstReport'
    BY <1>2, <1>3, <2>2 DEF FlightInv, FirstReportsFirst, OneFirstReport, Starts
  <2> QED
    BY <2>3, <2>4, <2>5, <2>6, <2>7, <2>8 DEF FlightInv
<1> QED
  BY <1>7, <1>8

\* The first start is made.
LEMMA FlightFirstStart ==
    ASSUME TypeOK, FlightInv, NEW s \in Streams, startPc[<<s, 0>>] = "none",
           startPc' = [startPc EXCEPT ![<<s, 0>>] = "probe"], posted' = posted,
           attempts' = attempts, connected' = connected, reconnecting' = reconnecting,
           reconnectAttemptInFlight' = reconnectAttemptInFlight
    PROVE  FlightInv'
<1> DEFINE t == <<s, 0>>
<1>1. t \in Starts /\ t[1] = s /\ t[2] = 0
  BY FirstStartIsAStart
<1> HIDE DEF t
<1>2. \A u \in Starts : /\ Running(u)' <=> Running(u) \/ u = t
                        /\ startPc'[u] = "none" <=> startPc[u] = "none" /\ u # t
  BY <1>1 DEF TypeOK, Running, Unreported, t
<1>3. \A o \in Streams : NeverConnected(o)' <=> NeverConnected(o)
  BY DEF NeverConnected
<1>4. startPc[t] = "none" /\ ~Running(t)
  BY DEF Running, Unreported, t
<1>5. RunsInFlight' /\ OneReport' /\ OneFirstReport'
  BY <1>1, <1>2 DEF FlightInv, RunsInFlight, OneReport, OneFirstReport
<1>6. ReportsInFlight'
  BY <1>1, <1>2 DEF FlightInv, ReportsInFlight
<1>7. FlightHasAttempt'
  <2> SUFFICES ASSUME NEW o \in Streams, reconnectAttemptInFlight[o]
               PROVE  /\ attempts[o] # 0
                      /\ \/ Running(<<o, attempts[o]>>)'
                         \/ \E what \in AttemptReports :
                               <<what, <<o, attempts[o]>>>> \in posted
    BY DEF FlightHasAttempt
  <2>1. <<o, attempts[o]>> \in Starts
    BY AttemptIsAStart
  <2> QED
    BY <1>2, <2>1 DEF FlightInv, FlightHasAttempt
<1>8. FirstRunsFirst'
  BY <1>1, <1>2, <1>3, <1>4 DEF FlightInv, FirstRunsFirst, Starts
<1>9. FirstReportsFirst'
  BY <1>2, <1>3, <1>4 DEF FlightInv, FirstReportsFirst, Starts
<1> QED
  BY <1>5, <1>6, <1>7, <1>8, <1>9 DEF FlightInv

\* The next attempt of a reconnect is made.
LEMMA FlightAttempt ==
    ASSUME TypeOK, StartsAreFresh, FlightInv, NEW s \in Streams, attempts[s] < MaxAttempts,
           reconnecting[s], ~reconnectAttemptInFlight[s],
           startPc' = [startPc EXCEPT ![<<s, attempts[s] + 1>>] = "probe"],
           attempts' = [attempts EXCEPT ![s] = @ + 1],
           reconnectAttemptInFlight' = [reconnectAttemptInFlight EXCEPT ![s] = TRUE],
           posted' = posted, connected' = connected, reconnecting' = reconnecting
    PROVE  FlightInv'
<1> DEFINE t == <<s, attempts[s] + 1>>
<1>1. t \in Starts /\ t[1] = s /\ t[2] = attempts[s] + 1 /\ t[2] # 0
  BY StreamSessionAssumption DEF TypeOK, Starts
<1>2. startPc[t] = "none"
  <2>1. attempts[s] + 1 \in 1 .. MaxAttempts /\ attempts[s] + 1 > attempts[s]
    BY StreamSessionAssumption DEF TypeOK
  <2> QED
    BY <2>1 DEF StartsAreFresh
<1> HIDE DEF t
<1>3. \A u \in Starts : /\ Running(u)' <=> Running(u) \/ u = t
                        /\ startPc'[u] = "none" <=> startPc[u] = "none" /\ u # t
  BY <1>1 DEF TypeOK, Running, Unreported, t
<1>4. \A o \in Streams : /\ NeverConnected(o) => o # s
                         /\ NeverConnected(o) => NeverConnected(o)'
  BY DEF NeverConnected, TypeOK
<1>5. \A o \in Streams :
          /\ o # s => /\ attempts'[o] = attempts[o]
                      /\ reconnectAttemptInFlight'[o] = reconnectAttemptInFlight[o]
          /\ o = s => attempts'[o] = t[2] /\ reconnectAttemptInFlight'[o]
  BY <1>1 DEF TypeOK
<1>6. \A u \in Starts : /\ u[1] \in Streams /\ u = <<u[1], u[2]>>
                        /\ u[1] = s /\ Running(u) => u[2] = 0
                        /\ u[1] = s => \A what \in AttemptReports : <<what, u>> \notin posted
  <2>1. \A u \in Starts : u[1] \in Streams /\ u = <<u[1], u[2]>>
    BY DEF Starts
  <2>2. \A u \in Starts : u[1] = s /\ Running(u) => u[2] = 0
    BY DEF FlightInv, RunsInFlight
  <2>3. \A u \in Starts : u[1] = s => \A what \in AttemptReports : <<what, u>> \notin posted
    BY DEF FlightInv, ReportsInFlight
  <2> QED
    BY <2>1, <2>2, <2>3
<1>7. RunsInFlight'
  <2>1. ASSUME NEW u \in Starts, u[2] # 0, Running(u)'
        PROVE  reconnectAttemptInFlight'[u[1]] /\ u[2] = attempts'[u[1]]
    <3>1. CASE u = t
      BY <1>1, <1>5, <3>1
    <3>2. CASE u # t
      <4>1. Running(u) /\ u[1] \in Streams /\ u[1] # s
        BY <1>3, <1>6, <2>1, <3>2
      <4> QED
        BY <1>5, <2>1, <4>1 DEF FlightInv, RunsInFlight
    <3> QED
      BY <3>1, <3>2
  <2> QED
    BY <2>1 DEF RunsInFlight
<1>8. ReportsInFlight' /\ OneReport' /\ OneFirstReport'
  BY <1>1, <1>3, <1>5, <1>6 DEF FlightInv, ReportsInFlight, OneReport, OneFirstReport
<1>9. FlightHasAttempt'
  <2>1. ASSUME NEW o \in Streams, reconnectAttemptInFlight[o], o # s
        PROVE  /\ attempts[o] # 0
               /\ \/ startPc'[<<o, attempts[o]>>] \in Unreported
                  \/ \E what \in AttemptReports :
                        <<what, <<o, attempts[o]>>>> \in posted
    <3>1. <<o, attempts[o]>> \in Starts
      BY AttemptIsAStart
    <3> QED
      BY <1>3, <2>1, <3>1 DEF FlightInv, FlightHasAttempt, Running
  <2>2. startPc'[<<s, t[2]>>] \in Unreported /\ t[2] # 0
    <3>1. startPc'[t] \in Unreported /\ t = <<s, t[2]>>
      BY <1>1, <1>3 DEF Running, Starts
    <3> QED
      BY <1>1, <3>1
  <2> SUFFICES ASSUME NEW o \in Streams, reconnectAttemptInFlight'[o]
               PROVE  /\ attempts'[o] # 0
                      /\ \/ startPc'[<<o, attempts'[o]>>] \in Unreported
                         \/ \E what \in AttemptReports :
                               <<what, <<o, attempts'[o]>>>> \in posted
    BY DEF FlightHasAttempt, Running
  <2>3. CASE o = s
    BY <1>5, <2>2, <2>3
  <2>4. CASE o # s
    <3>1. reconnectAttemptInFlight[o] /\ attempts'[o] = attempts[o]
      BY <1>5, <2>4
    <3> QED
      BY <2>1, <2>4, <3>1
  <2> QED
    BY <2>3, <2>4
<1>10. FirstRunsFirst'
  BY <1>1, <1>3, <1>4, <1>6 DEF FlightInv, FirstRunsFirst
<1>11. FirstReportsFirst'
  BY <1>1, <1>3, <1>4, <1>6 DEF FlightInv, FirstReportsFirst
<1> QED
  BY <1>7, <1>8, <1>9, <1>10, <1>11 DEF FlightInv

\* The UI thread deals with the report of an attempt.
LEMMA FlightAttemptReported ==
    ASSUME TypeOK, FlightInv, NEW t \in Starts, NEW what \in AttemptReports,
           <<what, t>> \in posted, posted' = posted \ {<<what, t>>},
           startPc' = startPc, attempts' = attempts,
           reconnectAttemptInFlight' =
             [reconnectAttemptInFlight EXCEPT ![t[1]] = FALSE],
           \A o \in Streams : o # t[1] => /\ connected'[o] = connected[o]
                                          /\ reconnecting'[o] = reconnecting[o]
    PROVE  FlightInv'
<1> DEFINE s == t[1]
<1>1. s \in Streams /\ t = <<s, t[2]>>
  BY DEF Starts
<1>2. t[2] # 0 /\ t[2] = attempts[s] /\ ~Running(t)
  BY DEF FlightInv, ReportsInFlight
<1> HIDE DEF s
<1>3. \A o \in Streams : reconnectAttemptInFlight'[o] <=>
                            reconnectAttemptInFlight[o] /\ o # s
  BY DEF TypeOK, s
<1>4. \A u \in Starts : /\ u[1] \in Streams /\ u = <<u[1], u[2]>>
                        /\ Running(u)' <=> Running(u)
  BY DEF Running, Starts
<1>5. \A u \in Starts : \A w \in AttemptReports \cup FirstReports :
          <<w, u>> \in posted' <=> <<w, u>> \in posted /\ ~(w = what /\ u = t)
  OBVIOUS
<1>6. \A o \in Streams : /\ NeverConnected(o) => o # s
                         /\ NeverConnected(o) => NeverConnected(o)'
  BY <1>2 DEF NeverConnected, s
<1>7. RunsInFlight'
  <2> SUFFICES ASSUME NEW u \in Starts, Running(u), u[2] # 0
               PROVE  u[2] = attempts[u[1]] /\ reconnectAttemptInFlight'[u[1]]
    BY <1>4 DEF RunsInFlight
  <2>1. u[2] = attempts[u[1]] /\ reconnectAttemptInFlight[u[1]]
    BY DEF FlightInv, RunsInFlight
  <2>2. u[1] # s
    BY <1>1, <1>2, <1>4, <2>1
  <2> QED
    BY <1>3, <1>4, <2>1, <2>2
<1>8. ReportsInFlight'
  <2> SUFFICES ASSUME NEW u \in Starts, NEW w \in AttemptReports, <<w, u>> \in posted'
               PROVE  /\ u[2] # 0 /\ u[2] = attempts[u[1]]
                      /\ reconnectAttemptInFlight'[u[1]] /\ ~Running(u)
    BY <1>4 DEF ReportsInFlight
  <2>1. /\ u[2] # 0 /\ u[2] = attempts[u[1]]
        /\ reconnectAttemptInFlight[u[1]] /\ ~Running(u)
    BY <1>5 DEF FlightInv, ReportsInFlight
  <2>2. u # t
    BY <1>5 DEF FlightInv, OneReport
  <2>3. u[1] # s
    BY <1>1, <1>2, <1>4, <2>1, <2>2
  <2> QED
    BY <1>3, <1>4, <2>1, <2>3
<1>9. OneReport' /\ OneFirstReport'
  BY <1>5 DEF FlightInv, OneReport, OneFirstReport
<1>10. FlightHasAttempt'
  <2> SUFFICES ASSUME NEW o \in Streams, reconnectAttemptInFlight[o], o # s
               PROVE  /\ attempts[o] # 0
                      /\ \/ Running(<<o, attempts[o]>>)'
                         \/ \E w \in AttemptReports :
                               <<w, <<o, attempts[o]>>>> \in posted'
    BY <1>3 DEF FlightHasAttempt
  <2>1. <<o, attempts[o]>> \in Starts /\ <<o, attempts[o]>> # t
    BY AttemptIsAStart DEF s
  <2> QED
    BY <1>4, <1>5, <2>1 DEF FlightInv, FlightHasAttempt
<1>11. FirstRunsFirst' /\ FirstReportsFirst'
  BY <1>4, <1>5, <1>6 DEF FlightInv, FirstRunsFirst, FirstReportsFirst
<1> QED
  BY <1>7, <1>8, <1>9, <1>10, <1>11 DEF FlightInv

\* ... of the first start.
LEMMA FlightFirstReported ==
    ASSUME TypeOK, FlightInv, NEW t \in Starts, NEW what \in FirstReports,
           <<what, t>> \in posted, posted' = posted \ {<<what, t>>},
           startPc' = startPc, attempts' = attempts, reconnecting' = reconnecting,
           reconnectAttemptInFlight' = reconnectAttemptInFlight,
           \A o \in Streams : o # t[1] => connected'[o] = connected[o]
    PROVE  FlightInv'
<1> DEFINE s == t[1]
<1>1. s \in Streams /\ t = <<s, 0>> /\ startPc[t] # "none" /\ ~Running(t)
  BY DEF Starts, FlightInv, FirstReportsFirst
<1> HIDE DEF s
<1>2. \A u \in Starts : /\ u[1] \in Streams /\ u = <<u[1], u[2]>>
                        /\ Running(u)' <=> Running(u)
  BY DEF Running, Starts
<1>3. \A u \in Starts : \A w \in AttemptReports \cup FirstReports :
          <<w, u>> \in posted' <=> <<w, u>> \in posted /\ ~(w = what /\ u = t)
  OBVIOUS
<1>4. AttemptReports \cap FirstReports = {}
  BY DEF AttemptReports, FirstReports
<1>5. \A o \in Streams : o # s => (NeverConnected(o) => NeverConnected(o)')
  BY DEF NeverConnected, s
<1>6. RunsInFlight' /\ ReportsInFlight' /\ OneReport' /\ OneFirstReport'
  BY <1>2, <1>3 DEF FlightInv, RunsInFlight, ReportsInFlight, OneReport, OneFirstReport
<1>7. FlightHasAttempt'
  <2> SUFFICES ASSUME NEW o \in Streams, reconnectAttemptInFlight[o]
               PROVE  /\ attempts[o] # 0
                      /\ \/ Running(<<o, attempts[o]>>)'
                         \/ \E w \in AttemptReports :
                               <<w, <<o, attempts[o]>>>> \in posted'
    BY DEF FlightHasAttempt
  <2>1. <<o, attempts[o]>> \in Starts
    BY AttemptIsAStart
  <2> QED
    BY <1>2, <1>3, <1>4, <2>1 DEF FlightInv, FlightHasAttempt
<1>8. FirstRunsFirst'
  <2> SUFFICES ASSUME NEW u \in Starts, u[2] = 0, startPc[u] = "none" \/ Running(u)
               PROVE  NeverConnected(u[1])'
    BY <1>2 DEF FirstRunsFirst
  <2>1. u[1] # s /\ NeverConnected(u[1])
    BY <1>1, <1>2 DEF FlightInv, FirstRunsFirst
  <2> QED
    BY <1>2, <1>5, <2>1
<1>9. FirstReportsFirst'
  <2> SUFFICES ASSUME NEW u \in Starts, NEW w \in FirstReports, <<w, u>> \in posted'
               PROVE  /\ u[2] = 0 /\ NeverConnected(u[1])'
                      /\ startPc[u] # "none" /\ ~Running(u)
    BY <1>2 DEF FirstReportsFirst
  <2>1. /\ u[2] = 0 /\ NeverConnected(u[1])
        /\ startPc[u] # "none" /\ ~Running(u)
    BY <1>3 DEF FlightInv, FirstReportsFirst
  <2>2. u # t
    BY <1>3 DEF FlightInv, OneFirstReport
  <2> QED
    BY <1>1, <1>2, <1>5, <2>1, <2>2
<1> QED
  BY <1>6, <1>7, <1>8, <1>9 DEF FlightInv

\* A first start ends without a report.
LEMMA FlightSilent ==
    ASSUME TypeOK, FlightInv, NEW t \in Starts, Running(t),
           ~reconnectAttemptInFlight[t[1]],
           NEW pc \in StartPcs \ Unreported, pc # "none",
           startPc' = [startPc EXCEPT ![t] = pc], posted' = posted,
           attempts' = attempts, connected' = connected, reconnecting' = reconnecting,
           reconnectAttemptInFlight' = reconnectAttemptInFlight
    PROVE  FlightInv'
<1>1. \A u \in Starts : /\ Running(u)' <=> Running(u) /\ u # t
                        /\ startPc'[u] = "none" <=> startPc[u] = "none"
                        /\ u[1] \in Streams
  BY DEF Running, TypeOK, Unreported, Starts
<1>2. \A s \in Streams : NeverConnected(s)' <=> NeverConnected(s)
  BY DEF NeverConnected
<1>3. RunsInFlight' /\ ReportsInFlight' /\ OneReport' /\ OneFirstReport'
  BY <1>1 DEF FlightInv, RunsInFlight, ReportsInFlight, OneReport, OneFirstReport
<1>4. FlightHasAttempt'
  <2> SUFFICES ASSUME NEW s \in Streams, reconnectAttemptInFlight[s]
               PROVE  /\ attempts[s] # 0
                      /\ \/ Running(<<s, attempts[s]>>)'
                         \/ \E what \in AttemptReports :
                               <<what, <<s, attempts[s]>>>> \in posted
    BY DEF FlightHasAttempt
  <2>1. <<s, attempts[s]>> \in Starts /\ <<s, attempts[s]>> # t
    BY AttemptIsAStart
  <2> QED
    BY <1>1, <2>1 DEF FlightInv, FlightHasAttempt
<1>5. FirstRunsFirst' /\ FirstReportsFirst'
  BY <1>1, <1>2 DEF FlightInv, FirstRunsFirst, FirstReportsFirst
<1> QED
  BY <1>3, <1>4, <1>5 DEF FlightInv

LEMMA FailureReports ==
    ASSUME NEW t \in Starts, NEW final \in BOOLEAN
    PROVE  \E what \in IF reconnectAttemptInFlight[t[1]]
                       THEN AttemptReports ELSE FirstReports :
               FailureOf(t, final) = <<what, t>>
  BY DEF FailureOf, AttemptReports, FirstReports

LEMMA FlightStartThread ==
    ASSUME TypeOK, FlightInv, NEW t \in Starts, StartThread(t)
    PROVE  FlightInv'
<1>1. /\ attempts' = attempts /\ connected' = connected /\ reconnecting' = reconnecting
      /\ reconnectAttemptInFlight' = reconnectAttemptInFlight
  BY DEF StartThread, Probe, CheckBeforeLaunch, SendLaunch, LaunchAnswered,
     CheckBeforeAcquire, Acquire, CheckAfterAcquire, EnterCore, CoreStarted,
     CoreStartFails, LeaveCore, gameVars, reconnectVars
<1>2. ASSUME NEW pc \in StartPcs, startPc' = [startPc EXCEPT ![t] = pc],
             pc # "none", startPc[t] # "none", pc \in Unreported <=> Running(t),
             posted' = posted
      PROVE  FlightInv'
  <2>1. \A u \in Starts : /\ Running(u)' <=> Running(u)
                          /\ startPc'[u] = "none" <=> startPc[u] = "none"
    BY <1>2 DEF TypeOK, Running
  <2>2. \A s \in Streams : NeverConnected(s) => NeverConnected(s)'
    BY <1>1 DEF NeverConnected
  <2> QED
    BY <1>1, <1>2, <2>1, <2>2, FlightKept
<1>3. ASSUME Running(t),
             \/ \E final \in BOOLEAN : StageFailed(t, final)
             \/ CoreStarted(t)
             \/ CoreStartFails(t) /\ \E final \in BOOLEAN :
                    posted' = posted \cup {FailureOf(t, final)}
      PROVE  FlightInv'
  <2>1. PICK pc \in {"done", "returning", "coreFailed"} :
            startPc' = [startPc EXCEPT ![t] = pc]
    BY <1>3 DEF StageFailed, CoreStarted, CoreStartFails, Goto
  <2>2. pc \in StartPcs \ Unreported /\ pc # "none"
    BY DEF StartPcs, Unreported
  <2>3. PICK what \in IF reconnectAttemptInFlight[t[1]]
                      THEN AttemptReports ELSE FirstReports :
            posted' = posted \cup {<<what, t>>}
    <3>1. CASE \E final \in BOOLEAN : posted' = posted \cup {FailureOf(t, final)}
      BY <3>1, FailureReports
    <3>2. CASE CoreStarted(t)
      BY <3>2 DEF CoreStarted, AttemptReports, FirstReports
    <3> QED
      BY <1>3, <3>1, <3>2 DEF StageFailed, CoreStartFails
  <2> QED
    BY <1>1, <1>3, <2>1, <2>2, <2>3, FlightReport
<1>4. ASSUME NEW pc \in Unreported, startPc' = [startPc EXCEPT ![t] = pc],
             startPc[t] \in Unreported, posted' = posted
      PROVE  FlightInv'
  <2>1. pc \in StartPcs /\ pc # "none" /\ startPc[t] # "none"
    BY <1>4 DEF StartPcs, Unreported
  <2> QED
    BY <1>2, <1>4, <2>1 DEF Running
<1>5. ASSUME HostUnreachable(t), Running(t)
      PROVE  FlightInv'
  <2>1. CASE StageFailed(t, FALSE)
    BY <1>3, <1>5, <2>1
  <2>2. CASE startPc' = [startPc EXCEPT ![t] = "probe"] /\ posted' = posted
    BY <1>4, <1>5, <2>2 DEF Running, Unreported
  <2> QED
    BY <1>5, <2>1, <2>2 DEF HostUnreachable, Goto
<1>6. CASE Probe(t)
  <2>1. Running(t)
    BY <1>6 DEF Probe, Running, Unreported
  <2>2. CASE startPc' = [startPc EXCEPT ![t] = "probed"] /\ posted' = posted
    BY <1>4, <2>1, <2>2 DEF Running, Unreported
  <2> QED
    BY <1>3, <1>5, <1>6, <2>1, <2>2 DEF Probe, HostRefuses, Goto
<1>7. CASE CheckBeforeLaunch(t)
  <2>1. Running(t)
    BY <1>7 DEF CheckBeforeLaunch, Running, Unreported
  <2>2. CASE startPc' = [startPc EXCEPT ![t] = "checked"] /\ posted' = posted
    BY <1>4, <2>1, <2>2 DEF Running, Unreported
  <2> QED
    BY <1>5, <1>7, <2>1, <2>2 DEF CheckBeforeLaunch, Goto
<1>8. CASE LaunchAnswered(t)
  <2>1. Running(t)
    BY <1>8 DEF LaunchAnswered, Running, Unreported
  <2>2. CASE startPc' = [startPc EXCEPT ![t] = "launched"] /\ posted' = posted
    BY <1>4, <2>1, <2>2 DEF Running, Unreported
  <2> QED
    BY <1>3, <1>5, <1>8, <2>1, <2>2 DEF LaunchAnswered, HostRefuses, Goto
<1>9. CASE CheckBeforeAcquire(t) \/ CheckAfterAcquire(t)
  <2>1. Running(t)
    BY <1>9 DEF CheckBeforeAcquire, CheckAfterAcquire, Running, Unreported
  <2>2. CASE /\ \E pc \in {"acquiring", "locking"} : startPc' = [startPc EXCEPT ![t] = pc]
             /\ posted' = posted
    BY <1>4, <2>1, <2>2 DEF Running, Unreported
  <2>3. CASE StageFailed(t, FALSE)
    BY <1>3, <2>1, <2>3
  <2> QED
    BY <1>9, <2>2, <2>3 DEF CheckBeforeAcquire, CheckAfterAcquire, Goto
<1>10. CASE SendLaunch(t) \/ Acquire(t) \/ EnterCore(t)
  <2>1. PICK pc \in {"launching", "acquired", "core"} :
            startPc' = [startPc EXCEPT ![t] = pc] /\ posted' = posted
    BY <1>10 DEF SendLaunch, Acquire, EnterCore, Goto
  <2>2. startPc[t] \in Unreported /\ pc \in Unreported
    BY <1>10 DEF SendLaunch, Acquire, EnterCore, Unreported
  <2> QED
    BY <1>4, <2>1, <2>2
<1>11. CASE LeaveCore(t)
  <2>1. startPc' = [startPc EXCEPT ![t] = "done"] /\ posted' = posted
    BY <1>11 DEF LeaveCore, Goto
  <2>2. /\ startPc[t] # "none" /\ ~Running(t) /\ "done" \in StartPcs
        /\ "done" \notin Unreported
    BY <1>11 DEF LeaveCore, Running, Unreported, StartPcs
  <2> QED
    BY <1>2, <2>1, <2>2
<1>12. CASE CoreStarted(t) \/ CoreStartFails(t)
  <2>1. Running(t)
    BY <1>12 DEF CoreStarted, CoreStartFails, Running, Unreported
  <2>2. CASE CoreStartFails(t) /\ ~reconnectAttemptInFlight[t[1]] /\ posted' = posted
    <3>1. /\ startPc' = [startPc EXCEPT ![t] = "coreFailed"]
          /\ "coreFailed" \in StartPcs \ Unreported
      BY <2>2 DEF CoreStartFails, Goto, StartPcs, Unreported
    <3> QED
      BY <1>1, <2>1, <2>2, <3>1, FlightSilent
  <2> QED
    BY <1>3, <1>12, <2>1, <2>2 DEF CoreStartFails
<1> QED
  BY <1>6, <1>7, <1>8, <1>9, <1>10, <1>11, <1>12 DEF StartThread

\* Steps that leave the start threads, their reports and the flag alone.
LEMMA FlightUntouched ==
    ASSUME TypeOK, FlightInv, startPc' = startPc, attempts' = attempts,
           reconnectAttemptInFlight' = reconnectAttemptInFlight,
           \A s \in Streams : NeverConnected(s) => NeverConnected(s)',
           \/ posted' = posted
           \/ \E what \in {"terminated", "deadStopped"} : \E t \in Starts :
                 posted' = posted \cup {<<what, t>>} \/ posted' = posted \ {<<what, t>>}
    PROVE  FlightInv'
<1>1. \A t \in Starts : \A what \in AttemptReports \cup FirstReports :
          <<what, t>> \in posted' <=> <<what, t>> \in posted
  BY DEF AttemptReports, FirstReports
<1> QED
  BY <1>1, FlightKept DEF Running

LEMMA FlightStopThread ==
    ASSUME TypeOK, FlightInv, NEW x \in StopKinds \X Streams, StopThread(x)
    PROVE  FlightInv'
<1>1. /\ startPc' = startPc /\ attempts' = attempts /\ connected' = connected
      /\ reconnecting' = reconnecting
      /\ reconnectAttemptInFlight' = reconnectAttemptInFlight
  BY DEF StopThread, StopInterrupts, StopCore, StopReleases, gameVars, reconnectVars
<1>2. <<x[2], 0>> \in Starts
  BY FirstStartIsAStart
<1>3. posted' = posted \/ posted' = posted \cup {<<"deadStopped", <<x[2], 0>>>>}
  BY DEF StopThread, StopInterrupts, StopCore, StopReleases
<1>4. \A s \in Streams : NeverConnected(s) => NeverConnected(s)'
  BY <1>1 DEF NeverConnected
<1> QED
  BY <1>1, <1>2, <1>3, <1>4, FlightUntouched

LEMMA FlightPosted ==
    ASSUME TypeOK, FlightInv, NEW t \in Starts, Posted(t)
    PROVE  FlightInv'
<1> DEFINE s == t[1]
<1>0. s \in Streams
  BY DEF Starts
<1> HIDE DEF s
<1>1. startPc' = startPc /\ attempts' = attempts
  BY DEF Posted, OnStarted, OnStartedAgain, OnStartFailed, OnAttemptFailed, OnDeadStopped,
     OnTerminated, threadVars, reconnectVars
<1>2. CASE OnStarted(t) \/ OnStartFailed(t)
  <2>1. /\ reconnecting' = reconnecting
        /\ reconnectAttemptInFlight' = reconnectAttemptInFlight
        /\ connected' = connected \/ connected' = [connected EXCEPT ![t[1]] = TRUE]
    BY <1>2 DEF OnStarted, OnStartFailed, reconnectVars
  <2>2. PICK what \in FirstReports :
            <<what, t>> \in posted /\ posted' = posted \ {<<what, t>>}
    BY <1>2 DEF OnStarted, OnStartFailed, Take, FirstReports
  <2>3. \A o \in Streams : o # t[1] => connected'[o] = connected[o]
    BY <2>1 DEF TypeOK
  <2> QED
    BY <1>1, <2>1, <2>2, <2>3, FlightFirstReported
<1>3. CASE OnStartedAgain(t) \/ OnAttemptFailed(t)
  <2>1. PICK what \in AttemptReports :
            <<what, t>> \in posted /\ posted' = posted \ {<<what, t>>}
    BY <1>3 DEF OnStartedAgain, OnAttemptFailed, Take, AttemptReports
  <2>2. reconnectAttemptInFlight' = [reconnectAttemptInFlight EXCEPT ![t[1]] = FALSE]
    BY <1>3 DEF OnStartedAgain, OnAttemptFailed
  <2>3. /\ reconnecting' = reconnecting
           \/ reconnecting' = [reconnecting EXCEPT ![t[1]] = FALSE]
        /\ \/ connected' = connected
           \/ \E b \in BOOLEAN : connected' = [connected EXCEPT ![t[1]] = b]
    BY <1>3 DEF OnStartedAgain, OnAttemptFailed, GiveUpReconnect, EndReconnect,
       AbandonReconnect, DropConnection
  <2>4. \A o \in Streams : o # t[1] => /\ connected'[o] = connected[o]
                                       /\ reconnecting'[o] = reconnecting[o]
    BY <2>3 DEF TypeOK
  <2> QED
    BY <1>1, <2>1, <2>2, <2>4, FlightAttemptReported
<1>4. CASE OnDeadStopped(t) \/ OnTerminated(t)
  <2>1. PICK what \in {"terminated", "deadStopped"} : posted' = posted \ {<<what, t>>}
    BY <1>4 DEF OnDeadStopped, OnTerminated, Take
  <2>2. reconnectAttemptInFlight' = reconnectAttemptInFlight
    BY <1>4 DEF OnDeadStopped, OnTerminated
  <2>3. \/ reconnecting' = reconnecting /\ connected' = connected
        \/ /\ connected[s]
           /\ reconnecting' = [reconnecting EXCEPT ![s] = TRUE]
           /\ connected' = [connected EXCEPT ![s] = FALSE]
        \/ /\ reconnecting' = [reconnecting EXCEPT ![s] = FALSE]
           /\ connected' = [connected EXCEPT ![s] = FALSE]
    BY <1>4 DEF OnDeadStopped, OnTerminated, MaybeStartReconnect, ShowConnectionEnd,
       AbandonReconnect, DropConnection, s
  <2>4. \A o \in Streams : NeverConnected(o) => NeverConnected(o)'
    BY <1>0, <1>1, <2>3 DEF NeverConnected, TypeOK
  <2> QED
    BY <1>1, <2>1, <2>2, <2>4, FlightUntouched
<1> QED
  BY <1>2, <1>3, <1>4 DEF Posted

LEMMA FlightScreen ==
    ASSUME TypeOK, StartsAreFresh, FlightInv, NEW s \in Streams, Screen(s)
    PROVE  FlightInv'
<1>1. /\ attempts' = attempts /\ posted' = posted
      /\ reconnectAttemptInFlight' = reconnectAttemptInFlight
  BY DEF Screen, SurfaceAvailable, FirstStart, SurfaceDestroyed, DismissDialog, OnStop,
     reconnectVars
<1>2. \/ connected' = connected /\ reconnecting' = reconnecting
      \/ StopConnection(s)
  BY DEF Screen, SurfaceAvailable, FirstStart, SurfaceDestroyed, DismissDialog, OnStop,
     reconnectVars
<1>3. \A o \in Streams : NeverConnected(o) => NeverConnected(o)'
  BY <1>1, <1>2
     DEF NeverConnected, StopConnection, DropConnection, EndReconnect, AbandonReconnect, TypeOK
<1>4. CASE startPc' = startPc
  BY <1>1, <1>3, <1>4, FlightUntouched
<1>5. CASE FirstStart(s)
  <2>1. startPc[<<s, 0>>] = "none" /\ connected' = connected /\ reconnecting' = reconnecting
    BY <1>5 DEF FirstStart, StartsAreFresh, reconnectVars
  <2>2. startPc' = startPc \/ startPc' = [startPc EXCEPT ![<<s, 0>>] = "probe"]
    BY <1>5 DEF FirstStart, StartConnection, Goto
  <2> QED
    BY <1>1, <1>4, <2>1, <2>2, FlightFirstStart
<1> QED
  BY <1>4, <1>5
     DEF Screen, SurfaceAvailable, SurfaceDestroyed, DismissDialog, OnStop, threadVars

\* A reconnect runs for a stream that is not connected and shows no dialog; the
\* countdown is on, and while no attempt is under way the next one is coming.
Driven(s) ==
    /\ connected[s] => ~reconnectAttemptInFlight[s]
    /\ reconnecting[s] =>
          /\ ~displayedFailureDialog[s]
          /\ tick[s] /\ ~connected[s]
          /\ IF deadConnectionStopped[s]
             THEN retry[s] \/ reconnectAttemptInFlight[s]
             ELSE DeadStopUnderWay(s) /\ ~reconnectAttemptInFlight[s]

DriveInv == \A s \in Streams : Driven(s)

\* What a step must do to a stream for it to stay driven.
StaysDriven(s) ==
    /\ connected'[s] => connected[s]
    /\ reconnecting'[s] => reconnecting[s]
    /\ reconnectAttemptInFlight'[s] = reconnectAttemptInFlight[s]
    /\ displayedFailureDialog'[s] = displayedFailureDialog[s] \/ ~reconnecting[s]
    /\ tick'[s] = tick[s] \/ ~reconnecting'[s]
    /\ deadConnectionStopped'[s] = deadConnectionStopped[s]
    /\ retry'[s] = retry[s] \/ ~reconnecting'[s]
    /\ DeadStopUnderWay(s) => DeadStopUnderWay(s)'

LEMMA StaysDrivenStays ==
    ASSUME NEW s \in Streams, Driven(s), StaysDriven(s)
    PROVE  Driven(s)'
  BY DEF Driven, StaysDriven

LEMMA NotReconnectingIsDriven ==
    ASSUME NEW s \in Streams, ~reconnecting'[s],
           connected'[s] => ~reconnectAttemptInFlight'[s]
    PROVE  Driven(s)'
  BY DEF Driven

\* Steps that leave Game's reconnect and the dead connection's stop alone.
LEMMA DriveUntouched ==
    ASSUME DriveInv, connected' = connected, UNCHANGED reconnectVars,
           displayedFailureDialog' = displayedFailureDialog,
           \A s \in Streams : DeadStopUnderWay(s) => DeadStopUnderWay(s)'
    PROVE  DriveInv'
  BY DEF DriveInv, Driven, reconnectVars

LEMMA DriveStartThread ==
    ASSUME DriveInv, NEW t \in Starts, StartThread(t) \/ PostTerminated(t)
    PROVE  DriveInv'
<1>1. UNCHANGED gameVars /\ stopPc' = stopPc
  BY DEF StartThread, Probe, CheckBeforeLaunch, SendLaunch, LaunchAnswered,
     CheckBeforeAcquire, Acquire, CheckAfterAcquire, EnterCore, CoreStarted,
     CoreStartFails, LeaveCore, PostTerminated, threadVars
<1>2. \/ posted' = posted \/ \E r : posted' = posted \cup {r}
  BY DEF StartThread, Probe, CheckBeforeLaunch, SendLaunch, LaunchAnswered,
     CheckBeforeAcquire, Acquire, CheckAfterAcquire, EnterCore, CoreStarted,
     CoreStartFails, LeaveCore, PostTerminated, HostUnreachable, HostRefuses, StageFailed
<1>3. \A s \in Streams : DeadStopUnderWay(s) => DeadStopUnderWay(s)'
  BY <1>1, <1>2 DEF DeadStopUnderWay
<1> QED
  BY <1>1, <1>3, DriveUntouched DEF gameVars

LEMMA DriveStopThread ==
    ASSUME TypeOK, DriveInv, NEW x \in StopKinds \X Streams, StopThread(x)
    PROVE  DriveInv'
<1>1. UNCHANGED gameVars
  BY DEF StopThread, StopInterrupts, StopCore, StopReleases
<1>2. ASSUME NEW s \in Streams, DeadStopUnderWay(s) PROVE DeadStopUnderWay(s)'
  <2>1. <<"dead", s>> \in StopKinds \X Streams
    BY DEF StopKinds
  <2>2. CASE StopReleases(x)
    <3>1. CASE x = <<"dead", s>>
      BY <2>2, <3>1 DEF StopReleases, DeadStopUnderWay
    <3>2. CASE x # <<"dead", s>>
      BY <1>2, <2>1, <2>2, <3>2 DEF StopReleases, DeadStopUnderWay, TypeOK
    <3> QED
      BY <3>1, <3>2
  <2>3. CASE StopInterrupts(x) \/ StopCore(x)
    BY <1>2, <2>1, <2>3 DEF StopInterrupts, StopCore, DeadStopUnderWay, TypeOK
  <2> QED
    BY <2>2, <2>3 DEF StopThread
<1> QED
  BY <1>1, <1>2, DriveUntouched DEF gameVars

LEMMA DriveStopConnection ==
    ASSUME TypeOK, NEW s \in Streams, StopConnection(s)
    PROVE  /\ ~reconnecting'[s] /\ ~connected'[s]
           /\ \A o \in Streams : o # s =>
                 /\ reconnecting'[o] = reconnecting[o] /\ connected'[o] = connected[o]
                 /\ tick'[o] = tick[o] /\ retry'[o] = retry[o]
                 /\ stopPc'[<<"dead", o>>] = stopPc[<<"dead", o>>]
<1>1. \A o \in Streams : <<"dead", o>> \in StopKinds \X Streams
  BY DEF StopKinds
<1> QED
  BY <1>1 DEF StopConnection, DropConnection, SpawnStop, EndReconnect, StopTimers,
     AbandonReconnect, TypeOK

LEMMA DriveGiveUp ==
    ASSUME TypeOK, NEW s \in Streams, Driven(s), NEW b \in BOOLEAN, reconnecting[s],
           GiveUpReconnect(s, b)
    PROVE  /\ ~reconnecting'[s] /\ ~connected'[s]
           /\ \A o \in Streams : o # s =>
                 /\ reconnecting'[o] = reconnecting[o] /\ connected'[o] = connected[o]
                 /\ tick'[o] = tick[o] /\ retry'[o] = retry[o]
                 /\ displayedFailureDialog'[o] = displayedFailureDialog[o]
                 /\ stopPc'[<<"dead", o>>] = stopPc[<<"dead", o>>]
<1>1. \A o \in Streams : <<"dead", o>> \in StopKinds \X Streams
  BY DEF StopKinds
<1> QED
  BY <1>1 DEF Driven, GiveUpReconnect, DropConnection, SpawnStop, EndReconnect, StopTimers,
     AbandonReconnect, TypeOK

\* A step of one stream leaves the others as driven as they were.
LEMMA DriveOne ==
    ASSUME DriveInv, NEW s \in Streams, Driven(s)',
           \A o \in Streams : o # s => StaysDriven(o)
    PROVE  DriveInv'
<1>1. ASSUME NEW o \in Streams, o # s PROVE Driven(o)'
  BY <1>1, StaysDrivenStays DEF DriveInv
<1> QED
  BY <1>1 DEF DriveInv

\* A function of the streams that changes for one stream only.
SameElsewhere(f, g, s) == \A o \in Streams : o # s => g[o] = f[o]
StopsElsewhere(s) == \A x \in StopKinds \X Streams : x[2] # s => stopPc'[x] = stopPc[x]

LEMMA EndIsOwn ==
    ASSUME TypeOK, NEW s \in Streams
    PROVE  /\ \A why \in StopKinds : SpawnStop(why, s) => StopsElsewhere(s)
           /\ DropConnection(s) =>
                 SameElsewhere(connected, connected', s) /\ StopsElsewhere(s)
           /\ StopTimers(s) =>
                 SameElsewhere(tick, tick', s) /\ SameElsewhere(retry, retry', s)
           /\ \A b \in BOOLEAN : AbandonReconnect(s, b) =>
                 SameElsewhere(reconnecting, reconnecting', s)
<1>1. ASSUME NEW why \in StopKinds, SpawnStop(why, s) PROVE StopsElsewhere(s)
  <2>1. SUFFICES ASSUME NEW x \in StopKinds \X Streams, x[2] # s
                 PROVE  stopPc'[x] = stopPc[x]
    BY DEF StopsElsewhere
  <2>2. x # <<why, s>>
    BY <2>1
  <2> QED
    BY <1>1, <2>2 DEF SpawnStop, TypeOK
<1>2. ASSUME DropConnection(s)
      PROVE  SameElsewhere(connected, connected', s) /\ StopsElsewhere(s)
  <2>1. stopPc' = stopPc \/ SpawnStop("leave", s)
    BY <1>2 DEF DropConnection
  <2>2. StopsElsewhere(s)
    BY <1>1, <2>1 DEF StopsElsewhere, StopKinds
  <2>3. connected' = [connected EXCEPT ![s] = FALSE]
    BY <1>2 DEF DropConnection
  <2> QED
    BY <2>2, <2>3 DEF SameElsewhere, TypeOK
<1>3. StopTimers(s) => SameElsewhere(tick, tick', s) /\ SameElsewhere(retry, retry', s)
  BY DEF StopTimers, SameElsewhere, TypeOK
<1>4. \A b \in BOOLEAN : AbandonReconnect(s, b) => SameElsewhere(reconnecting, reconnecting', s)
  BY DEF AbandonReconnect, SameElsewhere, TypeOK
<1> QED
  BY <1>1, <1>2, <1>3, <1>4

\* What the UI thread does with a report is about the stream that is reported on.
LEMMA PostedIsOwn ==
    ASSUME TypeOK, NEW t \in Starts, Posted(t)
    PROVE  /\ StopsElsewhere(t[1])
           /\ SameElsewhere(connected, connected', t[1])
           /\ SameElsewhere(reconnecting, reconnecting', t[1])
           /\ SameElsewhere(displayedFailureDialog, displayedFailureDialog', t[1])
           /\ SameElsewhere(reconnectAttemptInFlight, reconnectAttemptInFlight', t[1])
           /\ SameElsewhere(tick, tick', t[1]) /\ SameElsewhere(retry, retry', t[1])
           /\ SameElsewhere(deadConnectionStopped, deadConnectionStopped', t[1])
<1> DEFINE s == t[1]
<1>0. s \in Streams
  BY DEF Starts
<1> HIDE DEF s
<1> USE DEF threadVars, reconnectVars
<1>1. CASE OnStarted(t)
  <2>1. /\ connected' = [connected EXCEPT ![s] = TRUE]
        /\ UNCHANGED <<stopPc, displayedFailureDialog, reconnecting, tick, retry,
                       reconnectAttemptInFlight, deadConnectionStopped>>
    BY <1>1 DEF OnStarted, s
  <2> QED
    BY <2>1 DEF SameElsewhere, StopsElsewhere, TypeOK, s
<1>2. CASE OnStartedAgain(t)
  <2>1. /\ reconnectAttemptInFlight' = [reconnectAttemptInFlight EXCEPT ![s] = FALSE]
        /\ UNCHANGED <<displayedFailureDialog, deadConnectionStopped>>
    BY <1>2 DEF OnStartedAgain, s
  <2>2. CASE EndReconnect(s, FALSE) /\ connected' = [connected EXCEPT ![s] = TRUE]
             /\ UNCHANGED stopPc
    <3>1. /\ SameElsewhere(tick, tick', s) /\ SameElsewhere(retry, retry', s)
          /\ SameElsewhere(reconnecting, reconnecting', s)
      BY <1>0, <2>2, EndIsOwn DEF EndReconnect
    <3> QED
      BY <2>1, <2>2, <3>1 DEF SameElsewhere, StopsElsewhere, TypeOK, s
  <2>3. CASE SpawnStop("late", s) /\ UNCHANGED <<connected, reconnecting, tick, retry>>
    <3>1. StopsElsewhere(s)
      BY <1>0, <2>3, EndIsOwn DEF StopKinds
    <3> QED
      BY <2>1, <2>3, <3>1 DEF SameElsewhere, TypeOK, s
  <2> QED
    BY <1>2, <2>2, <2>3 DEF OnStartedAgain, s
<1>3. CASE OnStartFailed(t)
  <2>1. /\ displayedFailureDialog' = [displayedFailureDialog EXCEPT ![s] = TRUE]
        /\ UNCHANGED <<stopPc, connected, reconnecting, tick, retry,
                       reconnectAttemptInFlight, deadConnectionStopped>>
    BY <1>3 DEF OnStartFailed, s
  <2> QED
    BY <2>1 DEF SameElsewhere, StopsElsewhere, TypeOK, s
<1>4. CASE OnAttemptFailed(t)
  <2>1. /\ reconnectAttemptInFlight' = [reconnectAttemptInFlight EXCEPT ![s] = FALSE]
        /\ UNCHANGED deadConnectionStopped
    BY <1>4 DEF OnAttemptFailed, s
  <2>2. CASE GiveUpReconnect(s, FALSE)
    <3>1. /\ SameElsewhere(tick, tick', s) /\ SameElsewhere(retry, retry', s)
          /\ SameElsewhere(reconnecting, reconnecting', s)
      BY <1>0, <2>2, EndIsOwn DEF GiveUpReconnect, EndReconnect
    <3>2. SameElsewhere(connected, connected', s) /\ StopsElsewhere(s)
      BY <1>0, <2>2, EndIsOwn DEF GiveUpReconnect, SameElsewhere, StopsElsewhere
    <3>3. displayedFailureDialog' = [displayedFailureDialog EXCEPT ![s] = TRUE]
      BY <2>2 DEF GiveUpReconnect
    <3> QED
      BY <2>1, <3>1, <3>2, <3>3 DEF SameElsewhere, TypeOK, s
  <2>3. CASE /\ \/ retry' = retry
                \/ retry' = [retry EXCEPT ![s] = retry[s] \/ reconnecting[s]]
             /\ UNCHANGED <<reconnecting, tick, displayedFailureDialog, connected, stopPc>>
    BY <2>1, <2>3 DEF SameElsewhere, StopsElsewhere, TypeOK, s
  <2> QED
    BY <1>4, <2>2, <2>3 DEF OnAttemptFailed, s
<1>5. CASE OnDeadStopped(t)
  <2>1. /\ deadConnectionStopped' = [deadConnectionStopped EXCEPT ![s] = TRUE]
        /\ retry' = [retry EXCEPT ![s] = retry[s] \/ reconnecting[s]]
        /\ UNCHANGED <<stopPc, connected, reconnecting, tick, displayedFailureDialog,
                       reconnectAttemptInFlight>>
    BY <1>5 DEF OnDeadStopped, s
  <2> QED
    BY <2>1 DEF SameElsewhere, StopsElsewhere, TypeOK, s
<1>6. CASE OnTerminated(t)
  <2>1. reconnectAttemptInFlight' = reconnectAttemptInFlight
    BY <1>6 DEF OnTerminated
  <2>2. CASE MaybeStartReconnect(s)
    <3>1. /\ reconnecting' = [reconnecting EXCEPT ![s] = TRUE]
          /\ deadConnectionStopped' = [deadConnectionStopped EXCEPT ![s] = FALSE]
          /\ connected' = [connected EXCEPT ![s] = FALSE]
          /\ tick' = [tick EXCEPT ![s] = TRUE]
          /\ SpawnStop("dead", s) /\ UNCHANGED <<retry, displayedFailureDialog>>
      BY <2>2 DEF MaybeStartReconnect
    <3>2. StopsElsewhere(s)
      BY <1>0, <3>1, EndIsOwn DEF StopKinds
    <3> QED
      BY <2>1, <3>1, <3>2 DEF SameElsewhere, TypeOK, s
  <2>3. CASE ShowConnectionEnd(s)
    <3>1. /\ StopTimers(s)
          /\ displayedFailureDialog' = [displayedFailureDialog EXCEPT ![s] = TRUE]
          /\ UNCHANGED deadConnectionStopped
      BY <2>3 DEF ShowConnectionEnd
    <3>2. \/ UNCHANGED <<connected, stopPc, reconnecting>>
          \/ /\ DropConnection(s)
             /\ AbandonReconnect(s, reconnecting[s] /\ reconnectAttemptInFlight[s])
      BY <2>3 DEF ShowConnectionEnd
    <3>3. SameElsewhere(connected, connected', s) /\ StopsElsewhere(s)
      BY <1>0, <3>2, EndIsOwn DEF SameElsewhere, StopsElsewhere
    <3>4. SameElsewhere(reconnecting, reconnecting', s)
      <4>1. (reconnecting[s] /\ reconnectAttemptInFlight[s]) \in BOOLEAN
        OBVIOUS
      <4> QED
        BY <1>0, <3>2, <4>1, EndIsOwn DEF SameElsewhere
    <3>5. SameElsewhere(tick, tick', s) /\ SameElsewhere(retry, retry', s)
      BY <1>0, <3>1, EndIsOwn
    <3> QED
      BY <2>1, <3>1, <3>3, <3>4, <3>5 DEF SameElsewhere, TypeOK, s
  <2> QED
    BY <1>6, <2>2, <2>3 DEF OnTerminated, s
<1> QED
  BY <1>1, <1>2, <1>3, <1>4, <1>5, <1>6 DEF Posted, s

LEMMA DrivePosted ==
    ASSUME TypeOK, FlightInv, DriveInv, NEW t \in Starts, Posted(t)
    PROVE  DriveInv'
<1> DEFINE s == t[1]
<1>0. s \in Streams /\ Driven(s)
  BY DEF Starts, DriveInv
<1>1. PICK what \in {"started", "startedAgain", "terminated", "startFailed",
                     "attemptFailed", "attemptRefused", "deadStopped"} :
          /\ <<what, t>> \in posted /\ posted' = posted \ {<<what, t>>}
          /\ what = "deadStopped" <=> OnDeadStopped(t)
          /\ what \in FirstReports <=> OnStarted(t) \/ OnStartFailed(t)
          /\ what = "attemptFailed" => OnAttemptFailed(t)
  BY DEF Posted, OnStarted, OnStartedAgain, OnStartFailed, OnAttemptFailed, OnDeadStopped,
     OnTerminated, Take, FirstReports
<1> HIDE DEF s
<1>2. \A o \in Streams : <<"dead", o>> \in StopKinds \X Streams
  BY DEF StopKinds
<1>3. ASSUME NEW o \in Streams, o # s PROVE StaysDriven(o)
  <2>1. <<"deadStopped", <<o, 0>>>> \in posted
            => <<"deadStopped", <<o, 0>>>> \in posted'
    BY <1>1, <1>3 DEF s
  <2>2. /\ stopPc'[<<"dead", o>>] = stopPc[<<"dead", o>>]
        /\ connected'[o] = connected[o] /\ reconnecting'[o] = reconnecting[o]
        /\ displayedFailureDialog'[o] = displayedFailureDialog[o]
        /\ reconnectAttemptInFlight'[o] = reconnectAttemptInFlight[o]
        /\ tick'[o] = tick[o] /\ retry'[o] = retry[o]
        /\ deadConnectionStopped'[o] = deadConnectionStopped[o]
    BY <1>2, <1>3, PostedIsOwn DEF SameElsewhere, StopsElsewhere, s
  <2> QED
    BY <2>1, <2>2 DEF StaysDriven, DeadStopUnderWay
<1>4. CASE OnStarted(t) \/ OnStartFailed(t)
  <2>1. NeverConnected(s)
    BY <1>1, <1>4 DEF FlightInv, FirstReportsFirst, s
  <2>2. ~reconnecting[s] /\ ~reconnectAttemptInFlight[s]
    BY <1>0, <2>1 DEF FlightInv, FlightHasAttempt, NeverConnected
  <2>3. UNCHANGED reconnectVars
    BY <1>4 DEF OnStarted, OnStartFailed
  <2> QED
    BY <1>0, <1>3, <2>2, <2>3, NotReconnectingIsDriven, DriveOne DEF reconnectVars
<1>5. CASE OnStartedAgain(t)
  <2>1. ~reconnectAttemptInFlight'[s] /\ ~reconnecting'[s]
    BY <1>0, <1>5 DEF OnStartedAgain, EndReconnect, AbandonReconnect, TypeOK, s
  <2> QED
    BY <1>0, <1>3, <2>1, NotReconnectingIsDriven, DriveOne
<1>6. CASE OnAttemptFailed(t)
  <2>1. ~reconnectAttemptInFlight'[s]
    BY <1>0, <1>6 DEF OnAttemptFailed, TypeOK, s
  <2>2. CASE ~reconnecting'[s]
    BY <1>0, <1>3, <2>1, <2>2, NotReconnectingIsDriven, DriveOne
  <2>3. CASE reconnecting'[s]
    <3>1. /\ reconnecting[s] /\ retry'[s]
          /\ <<what, t>> # <<"deadStopped", <<s, 0>>>>
          /\ tick' = tick /\ connected' = connected /\ stopPc' = stopPc
          /\ displayedFailureDialog' = displayedFailureDialog
          /\ deadConnectionStopped' = deadConnectionStopped
      <4>1. CASE /\ retry' = [retry EXCEPT ![s] = @ \/ reconnecting[s]]
                 /\ UNCHANGED <<reconnecting, tick, startAborted, interrupted,
                                displayedFailureDialog, connected, stopPc>>
                 /\ <<"attemptFailed", t>> \in posted
                 /\ posted' = posted \ {<<"attemptFailed", t>>}
        <5>1. what = "attemptFailed"
          BY <1>1, <4>1
        <5> QED
          BY <1>0, <1>6, <2>3, <4>1, <5>1 DEF OnAttemptFailed, TypeOK
      <4>2. CASE IF reconnecting[s] THEN GiveUpReconnect(s, FALSE)
                 ELSE UNCHANGED reconnecting
        BY <1>0, <2>3, <4>2 DEF GiveUpReconnect, EndReconnect, AbandonReconnect, TypeOK
      <4> QED
        BY <1>6, <4>1, <4>2 DEF OnAttemptFailed, Take, s
    <3>2. DeadStopUnderWay(s) => DeadStopUnderWay(s)'
      BY <1>1, <3>1 DEF DeadStopUnderWay
    <3>3. Driven(s)'
      BY <1>0, <2>1, <2>3, <3>1, <3>2 DEF Driven
    <3> QED
      BY <1>0, <1>3, <3>3, DriveOne
  <2> QED
    BY <2>2, <2>3
<1>7. CASE OnDeadStopped(t)
  <2>1. /\ connected' = connected /\ reconnecting' = reconnecting /\ tick' = tick
        /\ reconnectAttemptInFlight' = reconnectAttemptInFlight
        /\ displayedFailureDialog' = displayedFailureDialog
        /\ deadConnectionStopped'[s] /\ retry'[s] = (retry[s] \/ reconnecting[s])
    BY <1>0, <1>7 DEF OnDeadStopped, TypeOK, s
  <2>2. Driven(s)'
    BY <1>0, <2>1 DEF Driven
  <2> QED
    BY <1>0, <1>3, <2>2, DriveOne
<1>8. CASE OnTerminated(t)
  <2>0. reconnectAttemptInFlight' = reconnectAttemptInFlight
    BY <1>8 DEF OnTerminated
  <2>1. CASE MaybeStartReconnect(s)
    <3>1. /\ connected[s] /\ ~displayedFailureDialog[s]
          /\ displayedFailureDialog' = displayedFailureDialog
          /\ ~connected'[s] /\ tick'[s] /\ ~deadConnectionStopped'[s]
          /\ stopPc'[<<"dead", s>>] = "interrupt"
      BY <1>0, <1>2, <2>1 DEF MaybeStartReconnect, SpawnStop, TypeOK
    <3>2. Driven(s)'
      BY <1>0, <2>0, <3>1 DEF Driven, DeadStopUnderWay
    <3> QED
      BY <1>0, <1>3, <3>2, DriveOne
  <2>2. CASE ShowConnectionEnd(s)
    <3>1. ~reconnecting'[s] /\ (connected'[s] => connected[s])
      BY <1>0, <2>2
         DEF ShowConnectionEnd, DropConnection, AbandonReconnect, Driven, TypeOK
    <3>2. connected'[s] => ~reconnectAttemptInFlight'[s]
      BY <1>0, <2>0, <3>1 DEF Driven
    <3> QED
      BY <1>0, <1>3, <3>1, <3>2, NotReconnectingIsDriven, DriveOne
  <2> QED
    BY <1>8, <2>1, <2>2 DEF OnTerminated, s
<1> QED
  BY <1>4, <1>5, <1>6, <1>7, <1>8 DEF Posted

LEMMA DriveScreen ==
    ASSUME TypeOK, DriveInv, NEW s \in Streams, Screen(s)
    PROVE  DriveInv'
<1>1. posted' = posted
  BY DEF Screen, SurfaceAvailable, FirstStart, SurfaceDestroyed, DismissDialog, OnStop
<1>2. /\ deadConnectionStopped' = deadConnectionStopped
      /\ reconnectAttemptInFlight' = reconnectAttemptInFlight
      /\ \A o \in Streams : o # s =>
            displayedFailureDialog'[o] = displayedFailureDialog[o]
  BY DEF Screen, SurfaceAvailable, FirstStart, SurfaceDestroyed, DismissDialog, OnStop,
     reconnectVars, TypeOK
<1>3. CASE StopConnection(s)
  <2>1. ~reconnecting'[s] /\ ~connected'[s]
    BY <1>3, DriveStopConnection
  <2>2. ASSUME NEW o \in Streams, o # s PROVE StaysDriven(o)
    BY <1>1, <1>2, <1>3, <2>2, DriveStopConnection DEF StaysDriven, DeadStopUnderWay
  <2> QED
    BY <2>1, <2>2, NotReconnectingIsDriven, DriveOne
<1>4. CASE /\ UNCHANGED <<connected, stopPc, reconnecting, tick, retry>>
           /\ displayedFailureDialog' = displayedFailureDialog
  BY <1>1, <1>2, <1>4, DriveUntouched DEF reconnectVars, DeadStopUnderWay, Screen,
     SurfaceAvailable, FirstStart, SurfaceDestroyed, DismissDialog, OnStop
<1> QED
  BY <1>3, <1>4 DEF Screen, SurfaceAvailable, FirstStart, SurfaceDestroyed, DismissDialog,
     OnStop, reconnectVars, threadVars

LEMMA DriveTimer ==
    ASSUME TypeOK, DriveInv, NEW s \in Streams, Timer(s)
    PROVE  DriveInv'
<1>0. /\ Driven(s) /\ posted' = posted /\ deadConnectionStopped' = deadConnectionStopped
      /\ \A o \in Streams : o # s =>
            reconnectAttemptInFlight'[o] = reconnectAttemptInFlight[o]
  BY DEF DriveInv, Timer, AttemptTimer, WindowOver, TypeOK
<1>1. ASSUME NEW b \in BOOLEAN, GiveUpReconnect(s, b), reconnecting[s] PROVE DriveInv'
  <2>1. ~reconnecting'[s] /\ ~connected'[s]
    BY <1>0, <1>1, DriveGiveUp
  <2>2. ASSUME NEW o \in Streams, o # s PROVE StaysDriven(o)
    BY <1>0, <1>1, <2>2, DriveGiveUp DEF StaysDriven, DeadStopUnderWay
  <2> QED
    BY <2>1, <2>2, NotReconnectingIsDriven, DriveOne
<1>2. ASSUME UNCHANGED <<reconnecting, displayedFailureDialog, connected, stopPc>>,
             tick' = tick \/ (tick' = [tick EXCEPT ![s] = FALSE] /\ ~reconnecting[s]),
             retry' = retry \/ retry' = [retry EXCEPT ![s] = FALSE],
             Driven(s)'
      PROVE  DriveInv'
  <2>1. ASSUME NEW o \in Streams, o # s PROVE StaysDriven(o)
    BY <1>0, <1>2, <2>1 DEF StaysDriven, DeadStopUnderWay, TypeOK
  <2> QED
    BY <1>2, <2>1, DriveOne
<1>3. CASE AttemptTimer(s)
  <2>1. CASE \/ ~reconnecting[s] \/ ~deadConnectionStopped[s]
             \/ reconnectAttemptInFlight[s]
    <3>1. /\ UNCHANGED <<reconnecting, displayedFailureDialog, connected, stopPc, tick,
                         reconnectAttemptInFlight>>
          /\ retry' = [retry EXCEPT ![s] = FALSE]
      BY <1>3, <2>1 DEF AttemptTimer
    <3>2. Driven(s)'
      BY <1>0, <2>1, <3>1 DEF Driven, DeadStopUnderWay
    <3> QED
      BY <1>2, <3>1, <3>2
  <2>2. CASE ~surface[s] /\ reconnecting[s] /\ GiveUpReconnect(s, FALSE)
    BY <1>1, <2>2
  <2>3. CASE /\ reconnecting[s] /\ deadConnectionStopped[s]
             /\ UNCHANGED <<reconnecting, displayedFailureDialog, connected, stopPc, tick>>
             /\ retry' = [retry EXCEPT ![s] = FALSE]
             /\ reconnectAttemptInFlight' =
                  [reconnectAttemptInFlight EXCEPT ![s] = TRUE]
    <3>1. Driven(s)'
      BY <1>0, <2>3 DEF Driven, TypeOK
    <3> QED
      BY <1>2, <2>3, <3>1
  <2> QED
    BY <1>3, <2>1, <2>2, <2>3 DEF AttemptTimer
<1>4. CASE WindowOver(s)
  <2>1. CASE reconnecting[s]
    <3>1. reconnectAttemptInFlight[s] \in BOOLEAN
      BY DEF TypeOK
    <3> QED
      BY <1>1, <1>4, <2>1, <3>1 DEF WindowOver
  <2>2. CASE ~reconnecting[s]
    <3>1. /\ UNCHANGED <<reconnecting, displayedFailureDialog, connected, stopPc, retry,
                         reconnectAttemptInFlight>>
          /\ tick' = [tick EXCEPT ![s] = FALSE]
      BY <1>4, <2>2 DEF WindowOver
    <3>2. Driven(s)'
      BY <1>0, <2>2, <3>1 DEF Driven
    <3> QED
      BY <1>2, <2>2, <3>1, <3>2
  <2> QED
    BY <2>1, <2>2
<1> QED
  BY <1>3, <1>4 DEF Timer

LEMMA FlightTimer ==
    ASSUME TypeOK, StartsAreFresh, FlightInv, NEW s \in Streams, Timer(s)
    PROVE  FlightInv'
<1>1. posted' = posted
  BY DEF Timer, AttemptTimer, WindowOver
<1>2. ASSUME NEW o \in Streams, attempts' = attempts, NeverConnected(o)
      PROVE  NeverConnected(o)'
  BY <1>2 DEF Timer, AttemptTimer, WindowOver, NeverConnected, GiveUpReconnect,
     EndReconnect, AbandonReconnect, DropConnection, TypeOK
<1>3. CASE /\ startPc' = startPc /\ attempts' = attempts
           /\ reconnectAttemptInFlight' = reconnectAttemptInFlight
  BY <1>1, <1>2, <1>3, FlightUntouched
<1>4. CASE /\ attempts[s] < MaxAttempts /\ reconnecting[s] /\ ~reconnectAttemptInFlight[s]
           /\ startPc' = [startPc EXCEPT ![<<s, attempts[s] + 1>>] = "probe"]
           /\ attempts' = [attempts EXCEPT ![s] = @ + 1]
           /\ reconnectAttemptInFlight' =
                [reconnectAttemptInFlight EXCEPT ![s] = TRUE]
           /\ connected' = connected /\ reconnecting' = reconnecting
  BY <1>1, <1>4, FlightAttempt
<1> QED
  BY <1>3, <1>4 DEF Timer, AttemptTimer, WindowOver, StartConnection, Goto

LEMMA FlightInvariant == Spec => []FlightInv
<1>1. Init => FlightInv
  <2>1. Init => \A t \in Starts : startPc[t] = "none" /\ t[1] \in Streams
    BY DEF Init, Starts
  <2> QED
    BY <2>1 DEF Init, FlightInv, RunsInFlight, ReportsInFlight, OneReport, FlightHasAttempt,
       FirstRunsFirst, FirstReportsFirst, OneFirstReport, Running, Unreported, NeverConnected
<1>2. TypeOK /\ StartsAreFresh /\ FlightInv /\ [Next]_vars => FlightInv'
  <2> SUFFICES ASSUME TypeOK, StartsAreFresh, FlightInv, [Next]_vars PROVE FlightInv'
    OBVIOUS
  <2>1. CASE UNCHANGED vars \/ Terminates \/ \E t \in Starts : PostTerminated(t)
    <3>1. /\ startPc' = startPc /\ attempts' = attempts /\ connected' = connected
          /\ reconnecting' = reconnecting
          /\ reconnectAttemptInFlight' = reconnectAttemptInFlight
          /\ \/ posted' = posted
             \/ \E t \in Starts : posted' = posted \cup {<<"terminated", t>>}
      BY <2>1 DEF vars, Terminates, PostTerminated, gameVars, reconnectVars, threadVars
    <3>2. \A s \in Streams : NeverConnected(s) => NeverConnected(s)'
      BY <3>1 DEF NeverConnected
    <3> QED
      BY <3>1, <3>2, FlightUntouched
  <2>2. ASSUME NEW t \in Starts, StartThread(t) \/ Posted(t) PROVE FlightInv'
    BY <2>2, FlightStartThread, FlightPosted
  <2>3. ASSUME NEW x \in StopKinds \X Streams, StopThread(x) PROVE FlightInv'
    BY <2>3, FlightStopThread
  <2>4. ASSUME NEW s \in Streams, Screen(s) \/ Timer(s) PROVE FlightInv'
    BY <2>4, FlightScreen, FlightTimer
  <2> QED
    BY <2>1, <2>2, <2>3, <2>4 DEF Next
<1> QED
  BY <1>1, <1>2, TypeCorrect, FreshInvariant, PTL DEF Spec

LEMMA DriveInvariant == Spec => []DriveInv
<1>1. Init => DriveInv
  BY DEF Init, DriveInv, Driven
<1>2. TypeOK /\ FlightInv /\ DriveInv /\ [Next]_vars => DriveInv'
  <2> SUFFICES ASSUME TypeOK, FlightInv, DriveInv, [Next]_vars PROVE DriveInv'
    OBVIOUS
  <2>1. CASE UNCHANGED vars \/ Terminates
    <3>1. UNCHANGED gameVars /\ stopPc' = stopPc /\ posted' = posted
      BY <2>1 DEF vars, Terminates, threadVars, gameVars
    <3> QED
      BY <3>1, DriveUntouched DEF gameVars, DeadStopUnderWay
  <2>2. ASSUME NEW t \in Starts, StartThread(t) \/ Posted(t) \/ PostTerminated(t)
        PROVE  DriveInv'
    BY <2>2, DriveStartThread, DrivePosted
  <2>3. ASSUME NEW x \in StopKinds \X Streams, StopThread(x) PROVE DriveInv'
    BY <2>3, DriveStopThread
  <2>4. ASSUME NEW s \in Streams, Screen(s) \/ Timer(s) PROVE DriveInv'
    BY <2>4, DriveScreen, DriveTimer
  <2> QED
    BY <2>1, <2>2, <2>3, <2>4 DEF Next
<1> QED
  BY <1>1, <1>2, TypeCorrect, FlightInvariant, PTL DEF Spec

\* A reconnect always has something that carries it on, runs beside no live
\* connection, and reconnectAttemptInFlight, which one thread writes and another
\* reads, is up exactly while an attempt or its report is on its way.
THEOREM ReconnectsAreDriven == Spec => []ReconnectIsDriven
<1>1. TypeOK /\ FlightInv /\ DriveInv => ReconnectIsDriven
  BY FlightIsExact DEF ReconnectIsDriven, DriveInv, Driven
<1> QED
  BY <1>1, TypeCorrect, FlightInvariant, DriveInvariant, PTL

-----------------------------------------------------------------------------
(* What the stream promises.  A step of a stream changes only what that     *)
(* stream is seen to be, or who has the slot, and only as StreamLife does.  *)

\* Only a stream that has made an attempt was ever told to give up.
AbortsAreOfAttempts == \A s \in Streams : startAborted[s] => attempts[s] # 0

LEMMA AbortInvariant == Spec => []AbortsAreOfAttempts
<1>1. Init => AbortsAreOfAttempts
  BY DEF Init, AbortsAreOfAttempts
<1>2. TypeOK /\ FlightInv /\ AbortsAreOfAttempts /\ [Next]_vars => AbortsAreOfAttempts'
  <2> SUFFICES ASSUME TypeOK, FlightInv, AbortsAreOfAttempts, [Next]_vars
               PROVE  AbortsAreOfAttempts'
    OBVIOUS
  <2>1. CASE startAborted' = startAborted /\ attempts' = attempts
    BY <2>1 DEF AbortsAreOfAttempts
  <2>2. ASSUME NEW s \in Streams, NEW b \in BOOLEAN, b => reconnectAttemptInFlight[s],
               AbandonReconnect(s, b), attempts' = attempts
        PROVE  AbortsAreOfAttempts'
    <3>1. \A o \in Streams : startAborted'[o] => startAborted[o] \/ reconnectAttemptInFlight[o]
      BY <2>2 DEF AbandonReconnect, TypeOK
    <3> QED
      BY <2>2, <3>1 DEF AbortsAreOfAttempts, FlightInv, FlightHasAttempt
  <2>3. \A s \in Streams : reconnectAttemptInFlight[s] \in BOOLEAN
    BY DEF TypeOK
  <2>4. ASSUME NEW t \in Starts, StartThread(t) \/ PostTerminated(t) PROVE AbortsAreOfAttempts'
    BY <2>1, <2>4 DEF StartThread, Probe, CheckBeforeLaunch, SendLaunch, LaunchAnswered,
       CheckBeforeAcquire, Acquire, CheckAfterAcquire, EnterCore, CoreStarted,
       CoreStartFails, LeaveCore, PostTerminated, gameVars, reconnectVars
  <2>5. ASSUME NEW x \in StopKinds \X Streams, StopThread(x) PROVE AbortsAreOfAttempts'
    BY <2>1, <2>5 DEF StopThread, StopInterrupts, StopCore, StopReleases, gameVars,
       reconnectVars
  <2>6. ASSUME NEW t \in Starts, Posted(t) PROVE AbortsAreOfAttempts'
    <3>0. t[1] \in Streams /\ attempts' = attempts
      BY <2>6 DEF Starts, Posted, OnStarted, OnStartedAgain, OnStartFailed,
         OnAttemptFailed, OnDeadStopped, OnTerminated, reconnectVars
    <3>1. \/ startAborted' = startAborted
          \/ AbandonReconnect(t[1], FALSE)
          \/ AbandonReconnect(t[1], reconnecting[t[1]] /\ reconnectAttemptInFlight[t[1]])
      BY <2>6 DEF Posted, OnStarted, OnStartedAgain, OnStartFailed, OnAttemptFailed,
         OnDeadStopped, OnTerminated, GiveUpReconnect, EndReconnect,
         MaybeStartReconnect, ShowConnectionEnd
    <3>2. (reconnecting[t[1]] /\ reconnectAttemptInFlight[t[1]]) \in BOOLEAN
      OBVIOUS
    <3> QED
      BY <2>1, <2>2, <3>0, <3>1, <3>2
  <2>7. ASSUME NEW s \in Streams, Screen(s) \/ WindowOver(s) PROVE AbortsAreOfAttempts'
    <3>1. attempts' = attempts
      BY <2>7 DEF Screen, SurfaceAvailable, FirstStart, SurfaceDestroyed, DismissDialog,
         OnStop, WindowOver, reconnectVars
    <3>2. \/ startAborted' = startAborted
          \/ startAborted' = [startAborted EXCEPT ![s] = FALSE]
          \/ AbandonReconnect(s, reconnectAttemptInFlight[s])
      BY <2>7 DEF Screen, SurfaceAvailable, FirstStart, SurfaceDestroyed, DismissDialog,
         OnStop, WindowOver, StartConnection, StopConnection, GiveUpReconnect, EndReconnect
    <3>3. CASE startAborted' = [startAborted EXCEPT ![s] = FALSE]
      BY <3>1, <3>3 DEF AbortsAreOfAttempts, TypeOK
    <3> QED
      BY <2>1, <2>2, <2>3, <3>1, <3>2, <3>3
  <2>8. ASSUME NEW s \in Streams, AttemptTimer(s) PROVE AbortsAreOfAttempts'
    <3>1. CASE attempts' = attempts /\ AbandonReconnect(s, FALSE)
      BY <2>2, <3>1
    <3>2. CASE /\ attempts' = [attempts EXCEPT ![s] = @ + 1]
               /\ startAborted' = [startAborted EXCEPT ![s] = FALSE]
      BY <3>2 DEF AbortsAreOfAttempts, TypeOK
    <3> QED
      BY <2>1, <2>8, <3>1, <3>2 DEF AttemptTimer, StartConnection, GiveUpReconnect, EndReconnect
  <2>9. CASE UNCHANGED vars \/ Terminates
    BY <2>1, <2>9 DEF vars, Terminates, gameVars, reconnectVars
  <2> QED
    BY <2>4, <2>5, <2>6, <2>7, <2>8, <2>9 DEF Next, Timer
<1> QED
  BY <1>1, <1>2, TypeCorrect, FlightInvariant, PTL DEF Spec

\* The stream has the slot: it, its start, its report or its stop owes the permit.
Has(s) ==
    \/ \E t \in Starts : t[1] = s /\ StartHolds(t)
    \/ \E r \in Runnables : r[2][1] = s /\ ReportHolds(r)
    \/ connected[s]
    \/ \E x \in StopKinds \X Streams : x[2] = s /\ StopHolds(x)

SlotExact ==
    /\ \A s \in Streams : SlotOwner = s <=> Has(s)
    /\ SlotOwner = NoStart <=> \A s \in Streams : ~Has(s)

LEMMA HasIsHolding ==
    ASSUME TypeOK, CoreInv, NEW s \in Streams
    PROVE  HoldsNothing(s) <=> ~Has(s)
<1>1. ASSUME HoldsNothing(s), Has(s) PROVE FALSE
  <2>1. ASSUME NEW t \in Starts, t[1] = s, StartHolds(t) PROVE FALSE
    <3>1. t[2] \in 0 .. MaxAttempts /\ t = <<s, t[2]>>
      BY <2>1 DEF Starts
    <3> QED
      BY <1>1, <2>1, <3>1 DEF HoldsNothing
  <2>2. ASSUME NEW r \in Runnables, r[2][1] = s, ReportHolds(r) PROVE FALSE
    BY <1>1, <2>2 DEF HoldsNothing, ReportHolds
  <2>3. ASSUME NEW x \in StopKinds \X Streams, x[2] = s, StopHolds(x) PROVE FALSE
    <3>1. x[1] \in StopKinds /\ x = <<x[1], s>>
      BY <2>3
    <3> QED
      BY <1>1, <2>3, <3>1 DEF HoldsNothing
  <2> QED
    BY <1>1, <2>1, <2>2, <2>3 DEF Has, HoldsNothing
<1>2. ASSUME ~Has(s) PROVE HoldsNothing(s)
  <2>1. \A k \in 0 .. MaxAttempts : ~StartHolds(<<s, k>>)
    <3>1. \A k \in 0 .. MaxAttempts : <<s, k>> \in Starts /\ <<s, k>>[1] = s
      BY DEF Starts
    <3> QED
      BY <1>2, <3>1 DEF Has
  <2>2. \A r \in posted : r[2][1] = s => ~ReportHolds(r)
    BY <1>2 DEF Has, TypeOK
  <2>3. \A why \in StopKinds : ~StopHolds(<<why, s>>)
    <3>1. \A why \in StopKinds : <<why, s>> \in StopKinds \X Streams /\ <<why, s>>[2] = s
      OBVIOUS
    <3> QED
      BY <1>2, <3>1 DEF Has
  <2>4. core = "up" => bridge[1] # s
    <3> SUFFICES ASSUME core = "up", bridge[1] = s PROVE FALSE
      OBVIOUS
    <3>1. \/ \E r \in posted : ReportHolds(r) /\ r[2] = bridge
          \/ connected[s]
          \/ \E why \in StopKinds : StopHolds(<<why, s>>)
      BY CoreInvServes DEF CoreServesHolder
    <3> QED
      BY <1>2, <2>2, <2>3, <3>1 DEF Has
  <2> QED
    BY <1>2, <2>1, <2>2, <2>3, <2>4 DEF HoldsNothing, Has
<1> QED
  BY <1>1, <1>2

LEMMA OneHas ==
    ASSUME SemaphoreAccounted, NEW s \in Streams, NEW o \in Streams, Has(s), Has(o)
    PROVE  s = o
<1> DEFINE Of(h) == IF h[1] = "start" THEN h[2][1] ELSE IF h[1] = "report" THEN h[2][2][1]
                    ELSE IF h[1] = "stream" THEN h[2] ELSE h[2][2]
<1>1. ASSUME NEW u \in Streams, Has(u) PROVE \E h \in Holders : Of(h) = u
  <2>1. ASSUME NEW t \in Starts, t[1] = u, StartHolds(t) PROVE \E h \in Holders : Of(h) = u
    <3>1. <<"start", t>> \in Holders /\ Of(<<"start", t>>) = u
      BY <2>1 DEF Holders
    <3> QED
      BY <3>1
  <2>2. ASSUME NEW r \in Runnables, r[2][1] = u, ReportHolds(r)
        PROVE  \E h \in Holders : Of(h) = u
    <3>1. <<"report", r>> \in Holders /\ Of(<<"report", r>>) = u
      BY <2>2 DEF Holders
    <3> QED
      BY <3>1
  <2>3. ASSUME connected[u] PROVE \E h \in Holders : Of(h) = u
    <3>1. <<"stream", u>> \in Holders /\ Of(<<"stream", u>>) = u
      BY <2>3 DEF Holders
    <3> QED
      BY <3>1
  <2>4. ASSUME NEW x \in StopKinds \X Streams, x[2] = u, StopHolds(x)
        PROVE  \E h \in Holders : Of(h) = u
    <3>1. <<"stop", x>> \in Holders /\ Of(<<"stop", x>>) = u
      BY <2>4 DEF Holders
    <3> QED
      BY <3>1
  <2> QED
    BY <1>1, <2>1, <2>2, <2>3, <2>4 DEF Has
<1>2. \A h, g \in Holders : h = g
  BY OnlyHolder
<1> QED
  BY <1>1, <1>2

LEMMA SlotInvariant == Spec => []SlotExact
<1>1. TypeOK /\ SemaphoreAccounted /\ CoreInv => SlotExact
  <2> SUFFICES ASSUME TypeOK, SemaphoreAccounted, CoreInv PROVE SlotExact
    OBVIOUS
  <2>1. \A s \in Streams : HoldsNothing(s) <=> ~Has(s)
    BY HasIsHolding
  <2>2. \A s, o \in Streams : Has(s) /\ Has(o) => s = o
    BY OneHas
  <2>3. CASE \A s \in Streams : ~Has(s)
    BY <2>1, <2>3, StreamSessionAssumption DEF SlotOwner, SlotExact
  <2>4. CASE \E s \in Streams : Has(s)
    <3>1. SlotOwner = CHOOSE s \in Streams : ~HoldsNothing(s)
      BY <2>1, <2>4 DEF SlotOwner
    <3>2. SlotOwner \in Streams /\ Has(SlotOwner)
      BY <2>1, <2>4, <3>1
    <3> QED
      BY <2>2, <2>4, <3>2, StreamSessionAssumption DEF SlotExact
  <2> QED
    BY <2>3, <2>4
<1> QED
  BY <1>1, TypeCorrect, SemaphoreSafe, CoreInvariant, PTL

\* A step of stream s alone.
Local(s) ==
    /\ \A t \in Starts : t[1] # s => startPc'[t] = startPc[t]
    /\ \A r \in Runnables : r[2][1] # s => (r \in posted' <=> r \in posted)
    /\ \A o \in Streams : o # s => /\ connected'[o] = connected[o]
                                   /\ reconnecting'[o] = reconnecting[o]
    /\ \A x \in StopKinds \X Streams : x[2] # s => stopPc'[x] = stopPc[x]

\* ... and what it may do to it.
LifeStep(s) ==
    \/ StreamLifeOf(s)' = StreamLifeOf(s) /\ (Has(s)' <=> Has(s))
    \/ StreamLifeOf(s)' = StreamLifeOf(s) /\ ~Has(s) /\ Has(s)'
    \/ /\ StreamLifeOf(s)' = StreamLifeOf(s) /\ StreamLifeOf(s) # "live"
       /\ Has(s) /\ ~Has(s)'
    \/ /\ StreamLifeOf(s) \in {"starting", "reconnecting"} /\ StreamLifeOf(s)' = "live"
       /\ Has(s) /\ Has(s)'
    \/ /\ StreamLifeOf(s) = "live" /\ StreamLifeOf(s)' = "reconnecting"
       /\ Has(s)' <=> Has(s)
    \/ /\ StreamLifeOf(s) # "over" /\ StreamLifeOf(s)' = "over"
       /\ Has(s)' <=> Has(s)

LEMMA LocalOthers ==
    ASSUME NEW s \in Streams, NEW o \in Streams, o # s, Local(s)
    PROVE  /\ Has(o)' <=> Has(o)
           /\ StreamLifeOf(o)' = StreamLifeOf(o)
<1>1. \A t \in Starts : t[1] = o => (StartHolds(t)' <=> StartHolds(t))
  BY DEF Local, StartHolds
<1>2. \A r \in Runnables : r[2][1] = o => (ReportHolds(r)' <=> ReportHolds(r))
  BY DEF Local, ReportHolds
<1>3. \A x \in StopKinds \X Streams : x[2] = o => (StopHolds(x)' <=> StopHolds(x))
  BY DEF Local, StopHolds
<1>4. connected'[o] = connected[o] /\ reconnecting'[o] = reconnecting[o]
  BY DEF Local
<1>5. startPc'[<<o, 0>>] = startPc[<<o, 0>>]
  BY FirstStartIsAStart DEF Local
<1>6. <<"started", <<o, 0>>>> \in posted' <=> <<"started", <<o, 0>>>> \in posted
  <2>1. <<"started", <<o, 0>>>> \in Runnables
    BY FirstStartIsAStart DEF Runnables
  <2> QED
    BY <2>1 DEF Local
<1> QED
  BY <1>1, <1>2, <1>3, <1>4, <1>5, <1>6 DEF Has, StreamLifeOf

LEMMA LocalLife ==
    ASSUME SlotExact, SlotExact', NEW s \in Streams, Local(s), LifeStep(s)
    PROVE  [Life!LifeNext]_(Life!lifeVars)
<1>1. \A o \in Streams : o # s => /\ Has(o)' <=> Has(o)
                                  /\ StreamLifeOf(o)' = StreamLifeOf(o)
  BY LocalOthers
<1>2. ASSUME Has(s)' <=> Has(s) PROVE SlotOwner' = SlotOwner
  <2>1. \A o \in Streams : Has(o)' <=> Has(o)
    BY <1>1, <1>2
  <2>2. CASE \E o \in Streams : Has(o)
    BY <2>1, <2>2 DEF SlotExact
  <2>3. CASE \A o \in Streams : ~Has(o)
    BY <2>1, <2>3 DEF SlotExact
  <2> QED
    BY <2>2, <2>3
<1>3. ASSUME StreamLifeOf(s)' = StreamLifeOf(s)
      PROVE  [o \in Streams |-> StreamLifeOf(o)]' = [o \in Streams |-> StreamLifeOf(o)]
  BY <1>1, <1>3
<1>4. [o \in Streams |-> StreamLifeOf(o)]'
        = [[o \in Streams |-> StreamLifeOf(o)] EXCEPT ![s] = StreamLifeOf(s)']
  BY <1>1
<1>5. CASE StreamLifeOf(s)' = StreamLifeOf(s) /\ (Has(s)' <=> Has(s))
  BY <1>2, <1>3, <1>5 DEF Life!lifeVars
<1>6. CASE StreamLifeOf(s)' = StreamLifeOf(s) /\ ~Has(s) /\ Has(s)'
  <2>1. SlotOwner' = s
    BY <1>6 DEF SlotExact
  <2>2. \A o \in Streams : ~Has(o)
    BY <1>1, <1>6, <2>1 DEF SlotExact
  <2> QED
    BY <1>3, <1>6, <2>1, <2>2 DEF SlotExact, Life!LifeNext, Life!TakeSlot
<1>7. CASE /\ StreamLifeOf(s)' = StreamLifeOf(s) /\ StreamLifeOf(s) # "live"
           /\ Has(s) /\ ~Has(s)'
  <2>1. SlotOwner = s
    BY <1>7 DEF SlotExact
  <2>2. \A o \in Streams : ~Has(o)'
    BY <1>1, <1>7, <2>1 DEF SlotExact
  <2> QED
    BY <1>3, <1>7, <2>1, <2>2 DEF SlotExact, Life!LifeNext, Life!FreeSlot
<1>8. CASE /\ StreamLifeOf(s) \in {"starting", "reconnecting"}
           /\ StreamLifeOf(s)' = "live" /\ Has(s) /\ Has(s)'
  <2>1. SlotOwner = s
    BY <1>8 DEF SlotExact
  <2> QED
    BY <1>2, <1>4, <1>8, <2>1 DEF Life!LifeNext, Life!GoLive
<1>9. CASE /\ StreamLifeOf(s) = "live" /\ StreamLifeOf(s)' = "reconnecting"
           /\ Has(s)' <=> Has(s)
  BY <1>2, <1>4, <1>9 DEF Life!LifeNext, Life!DropOut
<1>10. CASE /\ StreamLifeOf(s) # "over" /\ StreamLifeOf(s)' = "over"
            /\ Has(s)' <=> Has(s)
  BY <1>2, <1>4, <1>10 DEF Life!LifeNext, Life!EndForGood
<1> QED
  BY <1>5, <1>6, <1>7, <1>8, <1>9, <1>10 DEF LifeStep

FirstPending(s) ==
    \/ startPc[<<s, 0>>] \in Unreported \cup {"none"}
    \/ <<"started", <<s, 0>>>> \in posted

LEMMA PendingNeverConnected ==
    ASSUME FlightInv, NEW s \in Streams, FirstPending(s)
    PROVE  NeverConnected(s) /\ ~reconnectAttemptInFlight[s]
<1>1. <<s, 0>> \in Starts /\ <<s, 0>>[1] = s /\ <<s, 0>>[2] = 0
  BY FirstStartIsAStart
<1>2. NeverConnected(s)
  BY <1>1 DEF FirstPending, FlightInv, FirstRunsFirst, FirstReportsFirst, Running, FirstReports
<1> QED
  BY <1>2 DEF FlightInv, FlightHasAttempt, NeverConnected

\* Start threads: the stream takes the slot, gives it back, or fails to start.
LEMMA StartIsLocal ==
    ASSUME TypeOK, FlightInv, NEW t \in Starts, StartThread(t)
    PROVE  /\ t[1] \in Streams /\ Local(t[1])
           /\ connected' = connected /\ reconnecting' = reconnecting /\ stopPc' = stopPc
           /\ \/ posted' = posted
              \/ /\ Running(t)
                 /\ \E what \in IF reconnectAttemptInFlight[t[1]]
                                THEN AttemptReports ELSE FirstReports :
                       posted' = posted \cup {<<what, t>>}
<1>1. /\ t[1] \in Streams /\ connected' = connected /\ reconnecting' = reconnecting
      /\ stopPc' = stopPc
  BY DEF StartThread, Probe, CheckBeforeLaunch, SendLaunch, LaunchAnswered,
     CheckBeforeAcquire, Acquire, CheckAfterAcquire, EnterCore, CoreStarted,
     CoreStartFails, LeaveCore, gameVars, reconnectVars, Starts
<1>2. \E pc \in StartPcs : startPc' = [startPc EXCEPT ![t] = pc]
  BY DEF StartThread, Probe, CheckBeforeLaunch, SendLaunch, LaunchAnswered,
     CheckBeforeAcquire, Acquire, CheckAfterAcquire, EnterCore, CoreStarted,
     CoreStartFails, LeaveCore, HostUnreachable, HostRefuses, StageFailed, Goto, StartPcs
<1>3. \/ posted' = posted
      \/ /\ Running(t)
         /\ \/ \E final \in BOOLEAN : posted' = posted \cup {FailureOf(t, final)}
            \/ CoreStarted(t)
  BY DEF StartThread, Probe, CheckBeforeLaunch, SendLaunch, LaunchAnswered,
     CheckBeforeAcquire, Acquire, CheckAfterAcquire, EnterCore, CoreStarted,
     CoreStartFails, LeaveCore, HostUnreachable, HostRefuses, StageFailed, Running, Unreported
<1>4. \/ posted' = posted
      \/ /\ Running(t)
         /\ \E what \in IF reconnectAttemptInFlight[t[1]]
                        THEN AttemptReports ELSE FirstReports :
               posted' = posted \cup {<<what, t>>}
  <2>1. CASE CoreStarted(t)
    BY <1>3, <2>1 DEF CoreStarted, AttemptReports, FirstReports
  <2>2. ASSUME NEW final \in BOOLEAN, posted' = posted \cup {FailureOf(t, final)}
        PROVE  \E what \in IF reconnectAttemptInFlight[t[1]]
                           THEN AttemptReports ELSE FirstReports :
                   posted' = posted \cup {<<what, t>>}
    BY <2>2, FailureReports
  <2> QED
    BY <1>3, <2>1, <2>2
<1>5. \A u \in Starts : u[1] # t[1] => startPc'[u] = startPc[u]
  BY <1>2 DEF TypeOK
<1>6. \A r \in Runnables : r[2][1] # t[1] => (r \in posted' <=> r \in posted)
  BY <1>4
<1> QED
  BY <1>1, <1>4, <1>5, <1>6 DEF Local

\* What a start thread does to what its stream is seen to be.
LEMMA StartLife ==
    ASSUME TypeOK, FlightInv, NEW t \in Starts, StartThread(t)
    PROVE  \/ StreamLifeOf(t[1])' = StreamLifeOf(t[1])
           \/ /\ StreamLifeOf(t[1]) = "starting" /\ StreamLifeOf(t[1])' = "over"
              /\ t[2] = 0 /\ Running(t) /\ (posted' # posted \/ CoreStartFails(t))
<1> DEFINE s == t[1]
<1>1. /\ s \in Streams /\ Local(s)
      /\ connected' = connected /\ reconnecting' = reconnecting
  BY StartIsLocal
<1>2. t = <<s, t[2]>> /\ t[2] \in 0 .. MaxAttempts
  BY DEF Starts
<1>3. PICK pc \in StartPcs : startPc' = [startPc EXCEPT ![t] = pc]
  BY DEF StartThread, Probe, CheckBeforeLaunch, SendLaunch, LaunchAnswered,
     CheckBeforeAcquire, Acquire, CheckAfterAcquire, EnterCore, CoreStarted,
     CoreStartFails, LeaveCore, HostUnreachable, HostRefuses, StageFailed, Goto, StartPcs
<1> HIDE DEF s
<1>4. CASE t[2] # 0
  <2>1. startPc'[<<s, 0>>] = startPc[<<s, 0>>]
    BY <1>1, <1>2, <1>3, <1>4, FirstStartIsAStart DEF TypeOK
  <2>2. <<"started", <<s, 0>>>> \in posted' <=> <<"started", <<s, 0>>>> \in posted
    <3>1. t # <<s, 0>>
      BY <1>4
    <3> QED
      BY <3>1, StartIsLocal
  <2> QED
    BY <1>1, <2>1, <2>2 DEF StreamLifeOf, s
<1>5. CASE t[2] = 0
  <2>1. t = <<s, 0>> /\ startPc'[t] = pc
    BY <1>2, <1>3, <1>5 DEF TypeOK
  <2>2. CASE Running(t)
    <3>1. FirstPending(s) /\ NeverConnected(s)
      BY <1>1, <2>1, <2>2, PendingNeverConnected DEF FirstPending, Running
    <3>2. StreamLifeOf(s) = "starting"
      BY <3>1 DEF StreamLifeOf, FirstPending, NeverConnected
    <3>3. StreamLifeOf(s)' \in {"starting", "over"}
      BY <1>1, <3>1 DEF StreamLifeOf, NeverConnected
    <3>4. ASSUME posted' = posted, ~CoreStartFails(t) PROVE pc \in Unreported
      <4>1. \A what \in AttemptReports \cup FirstReports : <<what, t>> \notin posted
        BY <2>2 DEF FlightInv, ReportsInFlight, FirstReportsFirst
      <4>2. \A final \in BOOLEAN : ~StageFailed(t, final)
        BY <3>4, <4>1, FailureReports DEF StageFailed
      <4>3. ~CoreStarted(t)
        BY <3>4, <4>1 DEF CoreStarted, AttemptReports, FirstReports
      <4>4. ~LeaveCore(t)
        BY <2>2 DEF LeaveCore, Running, Unreported
      <4>5. startPc'[t] \in Unreported
        BY <3>4, <4>2, <4>3, <4>4 DEF StartThread, Probe, CheckBeforeLaunch, SendLaunch,
           LaunchAnswered, CheckBeforeAcquire, Acquire, CheckAfterAcquire, EnterCore,
           HostUnreachable, HostRefuses, Goto, Unreported, TypeOK
      <4> QED
        BY <2>1, <4>5
    <3>5. posted' = posted /\ ~CoreStartFails(t) => StreamLifeOf(s)' = "starting"
      BY <1>1, <2>1, <3>1, <3>4 DEF StreamLifeOf, NeverConnected
    <3> QED
      BY <1>5, <2>2, <3>2, <3>3, <3>5 DEF s
  <2>3. CASE ~Running(t)
    <3>1. posted' = posted
      BY <2>3, StartIsLocal
    <3>2. LeaveCore(t)
      BY <2>3 DEF StartThread, Probe, CheckBeforeLaunch, SendLaunch,
         LaunchAnswered, CheckBeforeAcquire, Acquire, CheckAfterAcquire, EnterCore,
         CoreStarted, CoreStartFails, Running, Unreported
    <3>3. /\ startPc[t] \notin Unreported \cup {"none"}
          /\ startPc'[t] \notin Unreported \cup {"none"}
      BY <3>2 DEF LeaveCore, Goto, TypeOK, Unreported
    <3> QED
      BY <1>1, <2>1, <3>1, <3>3 DEF StreamLifeOf, s
  <2> QED
    BY <2>2, <2>3
<1> QED
  BY <1>4, <1>5

\* Whether the stream has the slot, when it has another start, report or stop.
LEMMA HasByStart ==
    ASSUME TypeOK, NEW t \in Starts, NEW pc \in StartPcs,
           startPc' = [startPc EXCEPT ![t] = pc],
           connected' = connected, stopPc' = stopPc,
           \A r \in Runnables : ReportHolds(r)' <=> ReportHolds(r)
    PROVE  /\ pc \in HoldingStart => Has(t[1])'
           /\ (pc \in HoldingStart <=> StartHolds(t)) => (Has(t[1])' <=> Has(t[1]))
<1>1. \A u \in Starts : u # t => (StartHolds(u)' <=> StartHolds(u))
  BY DEF StartHolds, TypeOK
<1>2. StartHolds(t)' <=> pc \in HoldingStart
  BY DEF StartHolds, TypeOK
<1>3. \A x \in StopKinds \X Streams : StopHolds(x)' <=> StopHolds(x)
  BY DEF StopHolds
<1> QED
  BY <1>1, <1>2, <1>3 DEF Has

\* The only owner of the permit gives it back.
LEMMA StartGivesBack ==
    ASSUME TypeOK, SemaphoreAccounted, NEW t \in Starts, StartHolds(t),
           NEW pc \in StartPcs \ HoldingStart, startPc' = [startPc EXCEPT ![t] = pc],
           connected' = connected, stopPc' = stopPc,
           \A r \in Runnables : ReportHolds(r)' <=> ReportHolds(r)
    PROVE  Has(t[1]) /\ ~Has(t[1])' /\ ~connected[t[1]]
<1>1. /\ \A u \in Starts : StartHolds(u) => u = t
      /\ \A r \in Runnables : ~ReportHolds(r)
      /\ \A s \in Streams : ~connected[s]
      /\ \A x \in StopKinds \X Streams : ~StopHolds(x)
  BY StartIsAlone
<1>2. \A u \in Starts : ~StartHolds(u)'
  BY <1>1 DEF StartHolds, TypeOK
<1>3. t[1] \in Streams
  BY DEF Starts
<1> QED
  BY <1>1, <1>2, <1>3 DEF Has, StopHolds

LEMMA LifeStartThread ==
    ASSUME TypeOK, SemaphoreAccounted, CoreInv, FlightInv, AbortsAreOfAttempts,
           NEW t \in Starts, StartThread(t)
    PROVE  Local(t[1]) /\ LifeStep(t[1])
<1>1. /\ t[1] \in Streams /\ Local(t[1])
      /\ connected' = connected /\ stopPc' = stopPc
  BY StartIsLocal
<1>2. ASSUME Has(t[1])' <=> Has(t[1]) PROVE LifeStep(t[1])
  BY <1>2, StartLife DEF LifeStep
<1>3. CASE ~CoreStarted(t)
  <2>1. \A r \in Runnables : ReportHolds(r)' <=> ReportHolds(r)
    <3>1. \/ posted' = posted
          \/ \E final \in BOOLEAN : posted' = posted \cup {FailureOf(t, final)}
      BY <1>3 DEF StartThread, Probe, CheckBeforeLaunch, SendLaunch, LaunchAnswered,
         CheckBeforeAcquire, Acquire, CheckAfterAcquire, EnterCore,
         CoreStartFails, LeaveCore, HostUnreachable, HostRefuses, StageFailed
    <3> QED
      BY <3>1, FailureIsNoReport DEF ReportHolds
  <2>2. CASE Acquire(t)
    <3>1. startPc' = [startPc EXCEPT ![t] = "acquired"] /\ posted' = posted
      BY <2>2 DEF Acquire, Goto
    <3>2. "acquired" \in HoldingStart /\ "acquired" \in StartPcs
      BY DEF HoldingStart, StartPcs
    <3>3. Has(t[1])'
      BY <1>1, <2>1, <3>1, <3>2, HasByStart
    <3>4. StreamLifeOf(t[1])' = StreamLifeOf(t[1])
      BY <2>2, <3>1, StartLife DEF Acquire, CoreStartFails
    <3> QED
      BY <1>1, <1>2, <3>3, <3>4 DEF LifeStep
  <2>3. ASSUME StartHolds(t), startPc' = [startPc EXCEPT ![t] = "done"],
               StreamLifeOf(t[1])' = StreamLifeOf(t[1])
        PROVE  LifeStep(t[1])
    <3>1. "done" \in StartPcs \ HoldingStart
      BY DEF HoldingStart, StartPcs
    <3>2. Has(t[1]) /\ ~Has(t[1])' /\ ~connected[t[1]]
      BY <1>1, <2>1, <2>3, <3>1, StartGivesBack
    <3>3. StreamLifeOf(t[1]) # "live"
      BY <3>2 DEF StreamLifeOf
    <3> QED
      BY <2>3, <3>2, <3>3 DEF LifeStep
  <2>4. CASE CheckAfterAcquire(t)
    <3>1. StartHolds(t) /\ Running(t)
      BY <2>4 DEF CheckAfterAcquire, StartHolds, HoldingStart, Running, Unreported
    <3>2. CASE startAborted[t[1]]
      <4>1. t[2] # 0
        BY <1>1, <3>1, <3>2
           DEF AbortsAreOfAttempts, FlightInv, FirstRunsFirst, NeverConnected
      <4>2. startPc' = [startPc EXCEPT ![t] = "done"]
        BY <2>4, <3>2 DEF CheckAfterAcquire, StageFailed, Goto
      <4> QED
        BY <1>1, <2>3, <3>1, <4>1, <4>2, StartLife
    <3>3. CASE ~startAborted[t[1]]
      <4>1. startPc' = [startPc EXCEPT ![t] = "locking"]
        BY <2>4, <3>3 DEF CheckAfterAcquire, Goto
      <4>2. "locking" \in HoldingStart /\ "locking" \in StartPcs
        BY DEF HoldingStart, StartPcs
      <4> QED
        BY <1>1, <1>2, <2>1, <3>1, <4>1, <4>2, HasByStart
    <3> QED
      BY <3>2, <3>3
  <2>5. CASE LeaveCore(t)
    <3>1. startPc' = [startPc EXCEPT ![t] = "done"] /\ posted' = posted
      BY <2>5 DEF LeaveCore, Goto
    <3>2. "done" \in StartPcs /\ "done" \notin HoldingStart
      BY DEF HoldingStart, StartPcs
    <3>3. CASE StartHolds(t)
      BY <1>1, <2>3, <2>5, <3>1, <3>3, StartLife DEF LeaveCore, CoreStartFails
    <3>4. CASE ~StartHolds(t)
      BY <1>1, <1>2, <2>1, <3>1, <3>2, <3>4, HasByStart
    <3> QED
      BY <3>3, <3>4
  <2>6. CASE EnterCore(t) \/ CoreStartFails(t)
    <3>1. PICK pc \in {"core", "coreFailed"} : startPc' = [startPc EXCEPT ![t] = pc]
      BY <2>6 DEF EnterCore, CoreStartFails, Goto
    <3>2. pc \in HoldingStart /\ pc \in StartPcs /\ StartHolds(t)
      BY <2>6 DEF EnterCore, CoreStartFails, HoldingStart, StartPcs, StartHolds
    <3> QED
      BY <1>1, <1>2, <2>1, <3>1, <3>2, HasByStart
  <2>7. CASE \/ Probe(t) \/ CheckBeforeLaunch(t) \/ SendLaunch(t) \/ LaunchAnswered(t)
             \/ CheckBeforeAcquire(t)
    <3>1. PICK pc \in StartPcs \ HoldingStart : startPc' = [startPc EXCEPT ![t] = pc]
      BY <2>7 DEF Probe, CheckBeforeLaunch, SendLaunch, LaunchAnswered,
         CheckBeforeAcquire, HostUnreachable, HostRefuses, StageFailed, Goto,
         StartPcs, HoldingStart
    <3>2. ~StartHolds(t)
      BY <2>7 DEF Probe, CheckBeforeLaunch, SendLaunch, LaunchAnswered,
         CheckBeforeAcquire, StartHolds, HoldingStart
    <3> QED
      BY <1>1, <1>2, <2>1, <3>1, <3>2, HasByStart
  <2> QED
    BY <1>3, <2>2, <2>4, <2>5, <2>6, <2>7 DEF StartThread
<1>4. CASE CoreStarted(t)
  <2>1. PICK what \in {"started", "startedAgain"} : posted' = posted \cup {<<what, t>>}
    BY <1>4 DEF CoreStarted
  <2>2. Has(t[1])
    <3>1. StartHolds(t)
      BY <1>4 DEF CoreStarted, StartHolds, HoldingStart
    <3> QED
      BY <1>1, <3>1 DEF Has
  <2>3. Has(t[1])'
    <3>1. <<what, t>> \in Runnables
      BY DEF Runnables
    <3>2. ReportHolds(<<what, t>>)' /\ <<what, t>>[2][1] = t[1]
      BY <2>1 DEF ReportHolds
    <3> QED
      BY <3>1, <3>2 DEF Has
  <2> QED
    BY <1>1, <1>2, <2>2, <2>3
<1> QED
  BY <1>1, <1>3, <1>4

LEMMA LifeStopThread ==
    ASSUME TypeOK, SemaphoreAccounted, NEW x \in StopKinds \X Streams, StopThread(x)
    PROVE  x[2] \in Streams /\ Local(x[2]) /\ LifeStep(x[2])
<1>1. /\ startPc' = startPc /\ connected' = connected /\ reconnecting' = reconnecting
      /\ posted' = posted \/ posted' = posted \cup {<<"deadStopped", <<x[2], 0>>>>}
      /\ \E pc \in StopPcs : stopPc' = [stopPc EXCEPT ![x] = pc]
      /\ StopHolds(x) /\ x[2] \in Streams
  BY DEF StopThread, StopInterrupts, StopCore, StopReleases, gameVars, reconnectVars,
     StopPcs, StopHolds
<1>2. Local(x[2])
  BY <1>1 DEF Local, TypeOK
<1>3. StreamLifeOf(x[2])' = StreamLifeOf(x[2])
  BY <1>1 DEF StreamLifeOf
<1>4. Has(x[2])
  BY <1>1 DEF Has
<1>5. ~connected[x[2]]
  <2>1. <<"stop", x>> \in Holders /\ <<"stream", x[2]>> # <<"stop", x>>
    BY <1>1 DEF Holders
  <2> QED
    BY <1>1, <2>1, HolderIsAlone
<1>6. StreamLifeOf(x[2]) # "live"
  BY <1>5 DEF StreamLifeOf
<1> QED
  BY <1>1, <1>2, <1>3, <1>4, <1>6 DEF LifeStep

\* The stream's connection, if any, goes to a stop, and its reconnect is over.
LEMMA LeaveLife ==
    ASSUME TypeOK, FlightInv, NEW s \in Streams, DropConnection(s), ~reconnecting'[s],
           startPc' = startPc,
           \A r \in Runnables : ReportHolds(r)' <=> ReportHolds(r)
    PROVE  LifeStep(s)
<1>0. <<"started", <<s, 0>>>> \in posted' <=> <<"started", <<s, 0>>>> \in posted
  <2>1. <<"started", <<s, 0>>>> \in Runnables
    BY FirstStartIsAStart DEF Runnables
  <2> QED
    BY <2>1 DEF ReportHolds
<1>1. ~connected'[s]
  BY DEF DropConnection, TypeOK
<1>2. Has(s)' <=> Has(s)
  <2>1. CASE connected[s]
    <3>1. <<"leave", s>> \in StopKinds \X Streams /\ <<"leave", s>>[2] = s
      BY DEF StopKinds
    <3>2. StopHolds(<<"leave", s>>)'
      BY <2>1, <3>1 DEF DropConnection, SpawnStop, StopHolds, TypeOK
    <3> QED
      BY <2>1, <3>1, <3>2 DEF Has
  <2>2. CASE ~connected[s]
    <3>1. stopPc' = stopPc
      BY <2>2 DEF DropConnection, connecting
    <3> QED
      BY <1>1, <2>2, <3>1 DEF Has, StartHolds, StopHolds
  <2> QED
    BY <2>1, <2>2
<1>3. CASE connected[s] \/ reconnecting[s]
  <2>1. ~FirstPending(s)
    BY <1>3, PendingNeverConnected DEF NeverConnected
  <2>2. StreamLifeOf(s)' = "over" /\ StreamLifeOf(s) # "over"
    BY <1>0, <1>1, <1>3, <2>1 DEF StreamLifeOf, FirstPending
  <2> QED
    BY <1>2, <2>2 DEF LifeStep
<1>4. CASE ~connected[s] /\ ~reconnecting[s]
  BY <1>0, <1>1, <1>2, <1>4 DEF LifeStep, StreamLifeOf
<1> QED
  BY <1>3, <1>4

\* Nothing is seen of a step that touches neither the threads, nor a success on its
\* way to the UI thread, nor the two flags the life of a stream is told by.
LEMMA SameLife ==
    ASSUME NEW s \in Streams, startPc' = startPc, stopPc' = stopPc,
           connected' = connected, reconnecting' = reconnecting,
           \A r \in Runnables : ReportHolds(r)' <=> ReportHolds(r)
    PROVE  LifeStep(s)
<1>1. <<"started", <<s, 0>>>> \in posted' <=> <<"started", <<s, 0>>>> \in posted
  <2>1. <<"started", <<s, 0>>>> \in Runnables
    BY FirstStartIsAStart DEF Runnables
  <2> QED
    BY <2>1 DEF ReportHolds
<1>2. StreamLifeOf(s)' = StreamLifeOf(s)
  BY <1>1 DEF StreamLifeOf
<1>3. Has(s)' <=> Has(s)
  BY DEF Has, StartHolds, StopHolds
<1> QED
  BY <1>2, <1>3 DEF LifeStep

LEMMA LifePosted ==
    ASSUME TypeOK, FlightInv, DriveInv, NEW t \in Starts, Posted(t)
    PROVE  t[1] \in Streams /\ Local(t[1]) /\ LifeStep(t[1])
<1> DEFINE s == t[1]
<1>0. s \in Streams /\ Driven(s) /\ startPc' = startPc
  BY DEF Starts, DriveInv, Posted, OnStarted, OnStartedAgain, OnStartFailed,
     OnAttemptFailed, OnDeadStopped, OnTerminated, threadVars
<1>1. PICK what \in {"started", "startedAgain", "terminated", "startFailed",
                     "attemptFailed", "attemptRefused", "deadStopped"} :
          /\ <<what, t>> \in posted /\ posted' = posted \ {<<what, t>>}
          /\ what \in {"started", "startedAgain"} <=> OnStarted(t) \/ OnStartedAgain(t)
  BY DEF Posted, OnStarted, OnStartedAgain, OnStartFailed, OnAttemptFailed, OnDeadStopped,
     OnTerminated, Take
<1> HIDE DEF s
<1>2. \A o \in Streams : \A why \in StopKinds : <<why, o>> \in StopKinds \X Streams
  OBVIOUS
<1>3. Local(s)
  <2>1. \A r \in Runnables : r[2][1] # s => (r \in posted' <=> r \in posted)
    BY <1>1 DEF s
  <2>2. \A o \in Streams : o # s => /\ connected'[o] = connected[o]
                                    /\ reconnecting'[o] = reconnecting[o]
    BY PostedIsOwn DEF SameElsewhere, s
  <2>3. \A x \in StopKinds \X Streams : x[2] # s => stopPc'[x] = stopPc[x]
    BY PostedIsOwn DEF StopsElsewhere, s
  <2> QED
    BY <1>0, <2>1, <2>2, <2>3 DEF Local
<1>4. CASE what \in {"started", "startedAgain"}
  <2>1. Has(s)
    <3>1. <<what, t>> \in Runnables /\ ReportHolds(<<what, t>>)
      BY <1>1, <1>4 DEF Runnables, ReportHolds
    <3>2. <<what, t>>[2][1] = s
      BY DEF s
    <3> QED
      BY <3>1, <3>2 DEF Has
  <2>2. CASE OnStarted(t)
    <3>1. /\ <<"started", t>> \in posted
          /\ connected' = [connected EXCEPT ![s] = TRUE]
      BY <2>2 DEF OnStarted, Take, s
    <3>2. t[2] = 0 /\ NeverConnected(s)
      BY <3>1 DEF FlightInv, FirstReportsFirst, FirstReports, s
    <3>3. t = <<s, 0>>
      BY <3>2 DEF s, Starts
    <3>4. StreamLifeOf(s) = "starting"
      BY <3>1, <3>2, <3>3 DEF StreamLifeOf, NeverConnected
    <3>5. connected'[s]
      BY <1>0, <3>1 DEF TypeOK
    <3>6. StreamLifeOf(s)' = "live" /\ Has(s)'
      BY <3>5 DEF StreamLifeOf, Has
    <3> QED
      BY <1>0, <1>3, <2>1, <3>4, <3>6 DEF LifeStep, s
  <2>3. CASE OnStartedAgain(t) /\ reconnecting[s]
    <3>1. connected'[s] /\ ~connected[s]
      BY <1>0, <2>3 DEF OnStartedAgain, TypeOK, Driven, s
    <3>2. StreamLifeOf(s) = "reconnecting" /\ StreamLifeOf(s)' = "live" /\ Has(s)'
      BY <2>3, <3>1 DEF StreamLifeOf, Has
    <3> QED
      BY <1>0, <1>3, <2>1, <3>2 DEF LifeStep, s
  <2>4. CASE OnStartedAgain(t) /\ ~reconnecting[s]
    <3>1. /\ connected' = connected /\ reconnecting' = reconnecting /\ SpawnStop("late", s)
          /\ posted' = posted \ {<<"startedAgain", t>>}
      BY <2>4 DEF OnStartedAgain, Take, s
    <3>2. StreamLifeOf(s)' = StreamLifeOf(s)
      BY <1>0, <3>1 DEF StreamLifeOf
    <3>3. <<"late", s>> \in StopKinds \X Streams /\ <<"late", s>>[2] = s
      BY <1>0 DEF StopKinds
    <3>4. StopHolds(<<"late", s>>)'
      BY <3>1, <3>3 DEF SpawnStop, StopHolds, TypeOK
    <3>5. Has(s)'
      BY <3>3, <3>4 DEF Has
    <3> QED
      BY <1>0, <1>3, <2>1, <3>2, <3>5 DEF LifeStep, s
  <2> QED
    BY <1>1, <1>4, <2>2, <2>3, <2>4
<1>5. CASE what \notin {"started", "startedAgain"}
  <2>0. \A r \in Runnables : ReportHolds(r)' <=> ReportHolds(r)
    BY <1>1, <1>5 DEF ReportHolds
  <2>1. CASE UNCHANGED <<connected, reconnecting, stopPc>>
    <3>1. LifeStep(s)
      BY <1>0, <2>0, <2>1, SameLife
    <3> QED
      BY <1>0, <1>3, <3>1 DEF s
  <2>2. CASE DropConnection(s) /\ ~reconnecting'[s]
    <3>1. LifeStep(s)
      BY <1>0, <2>0, <2>2, LeaveLife
    <3> QED
      BY <1>0, <1>3, <3>1 DEF s
  <2>3. CASE OnStartFailed(t) \/ OnDeadStopped(t)
    BY <2>1, <2>3 DEF OnStartFailed, OnDeadStopped, threadVars, reconnectVars
  <2>4. CASE OnAttemptFailed(t)
    <3>1. CASE reconnecting[s] /\ GiveUpReconnect(s, FALSE)
      <4>1. DropConnection(s) /\ ~reconnecting'[s]
        BY <1>0, <3>1 DEF GiveUpReconnect, EndReconnect, AbandonReconnect, Driven, TypeOK
      <4> QED
        BY <2>2, <4>1
    <3> QED
      BY <2>1, <2>4, <3>1 DEF OnAttemptFailed, s
  <2>5. CASE OnTerminated(t)
    <3>1. CASE MaybeStartReconnect(s)
      <4>1. connected[s] /\ ~connected'[s] /\ reconnecting'[s] /\ SpawnStop("dead", s)
        BY <1>0, <3>1 DEF MaybeStartReconnect, TypeOK
      <4>2. <<"dead", s>> \in StopKinds \X Streams /\ <<"dead", s>>[2] = s
        BY <1>0 DEF StopKinds
      <4>3. StopHolds(<<"dead", s>>)'
        BY <4>1, <4>2 DEF SpawnStop, StopHolds, TypeOK
      <4>4. Has(s) /\ Has(s)'
        BY <4>1, <4>2, <4>3 DEF Has
      <4>5. StreamLifeOf(s) = "live" /\ StreamLifeOf(s)' = "reconnecting"
        BY <4>1 DEF StreamLifeOf
      <4> QED
        BY <1>0, <1>3, <4>4, <4>5 DEF LifeStep, s
    <3>2. CASE ShowConnectionEnd(s)
      <4>1. CASE displayedFailureDialog[s]
        BY <2>1, <3>2, <4>1 DEF ShowConnectionEnd
      <4>2. CASE ~displayedFailureDialog[s]
        <5>1. DropConnection(s) /\ ~reconnecting'[s]
          BY <1>0, <3>2, <4>2 DEF ShowConnectionEnd, AbandonReconnect, TypeOK
        <5> QED
          BY <2>2, <5>1
      <4> QED
        BY <4>1, <4>2
    <3> QED
      BY <2>5, <3>1, <3>2 DEF OnTerminated, s
  <2> QED
    BY <1>1, <1>5, <2>3, <2>4, <2>5 DEF Posted
<1> QED
  BY <1>4, <1>5

\* Any other step of the UI thread: the connection is dropped, or nothing is seen.
LEMMA LifeUi ==
    ASSUME TypeOK, StartsAreFresh, FlightInv, DriveInv, NEW s \in Streams,
           Screen(s) \/ Timer(s)
    PROVE  Local(s) /\ LifeStep(s)
<1>1. /\ posted' = posted
      /\ \A r \in Runnables : ReportHolds(r)' <=> ReportHolds(r)
  BY DEF ReportHolds, Screen, SurfaceAvailable, FirstStart, SurfaceDestroyed, DismissDialog,
     OnStop, Timer, AttemptTimer, WindowOver
<1>2. CASE UNCHANGED <<startPc, connected, reconnecting, stopPc>>
  BY <1>1, <1>2, SameLife DEF Local
<1>3. ASSUME startPc' = startPc, DropConnection(s), ~reconnecting'[s],
             \A o \in Streams : o # s => reconnecting'[o] = reconnecting[o]
      PROVE  Local(s) /\ LifeStep(s)
  <2>1. Local(s)
    BY <1>1, <1>3 DEF Local, DropConnection, SpawnStop, TypeOK
  <2> QED
    BY <1>1, <1>3, <2>1, LeaveLife
<1>4. ASSUME StopConnection(s), startPc' = startPc PROVE Local(s) /\ LifeStep(s)
  <2>1. DropConnection(s)
    BY <1>4 DEF StopConnection
  <2> QED
    BY <1>3, <1>4, <2>1, DriveStopConnection
<1>5. ASSUME NEW b \in BOOLEAN, GiveUpReconnect(s, b), reconnecting[s], startPc' = startPc
      PROVE  Local(s) /\ LifeStep(s)
  <2>1. Driven(s)
    BY DEF DriveInv
  <2>2. DropConnection(s)
    BY <1>5, <2>1 DEF GiveUpReconnect, Driven
  <2> QED
    BY <1>3, <1>5, <2>1, <2>2, DriveGiveUp
<1>6. ASSUME NEW t \in Starts, t[1] = s, startPc[t] = "none", t # <<s, 0>> \/ FirstStart(s),
             startPc' = [startPc EXCEPT ![t] = "probe"],
             UNCHANGED <<connected, reconnecting, stopPc>>
      PROVE  Local(s) /\ LifeStep(s)
  <2>1. Local(s)
    BY <1>1, <1>6 DEF Local, TypeOK
  <2>2. Has(s)' <=> Has(s)
    <3>1. "probe" \in StartPcs \ HoldingStart /\ ~StartHolds(t)
      BY <1>6 DEF StartPcs, HoldingStart, StartHolds
    <3> QED
      BY <1>1, <1>6, <3>1, HasByStart
  <2>3. startPc'[<<s, 0>>] \in Unreported \cup {"none"}
            <=> startPc[<<s, 0>>] \in Unreported \cup {"none"}
    BY <1>6, FirstStartIsAStart DEF TypeOK, Unreported
  <2>4. StreamLifeOf(s)' = StreamLifeOf(s)
    BY <1>1, <1>6, <2>3 DEF StreamLifeOf
  <2> QED
    BY <2>1, <2>2, <2>4 DEF LifeStep
<1>7. CASE SurfaceAvailable(s) \/ DismissDialog(s)
  BY <1>2, <1>7 DEF SurfaceAvailable, DismissDialog, threadVars, reconnectVars
<1>8. CASE SurfaceDestroyed(s) \/ OnStop(s)
  BY <1>2, <1>4, <1>8 DEF SurfaceDestroyed, OnStop
<1>9. CASE FirstStart(s)
  <2>1. UNCHANGED <<connected, reconnecting, stopPc>> /\ startPc[<<s, 0>>] = "none"
    BY <1>9 DEF FirstStart, StartsAreFresh, reconnectVars
  <2>2. startPc' = startPc \/ startPc' = [startPc EXCEPT ![<<s, 0>>] = "probe"]
    BY <1>9 DEF FirstStart, StartConnection, Goto
  <2> QED
    BY <1>2, <1>6, <1>9, <2>1, <2>2, FirstStartIsAStart
<1>10. CASE AttemptTimer(s)
  <2>1. CASE reconnecting[s] /\ GiveUpReconnect(s, FALSE) /\ startPc' = startPc
    BY <1>5, <2>1
  <2>2. CASE /\ attempts[s] < MaxAttempts
             /\ startPc' = [startPc EXCEPT ![<<s, attempts[s] + 1>>] = "probe"]
             /\ UNCHANGED <<connected, reconnecting, stopPc>>
    <3>1. attempts[s] + 1 \in 1 .. MaxAttempts /\ attempts[s] + 1 > attempts[s]
      BY <2>2, StreamSessionAssumption DEF TypeOK
    <3>2. <<s, attempts[s] + 1>> \in Starts /\ <<s, attempts[s] + 1>> # <<s, 0>>
      BY <3>1, StreamSessionAssumption DEF Starts
    <3>3. startPc[<<s, attempts[s] + 1>>] = "none"
      BY <3>1 DEF StartsAreFresh
    <3> QED
      BY <1>6, <2>2, <3>2, <3>3
  <2> QED
    BY <1>2, <1>10, <2>1, <2>2 DEF AttemptTimer, StartConnection, Goto
<1>11. CASE WindowOver(s)
  <2>1. reconnectAttemptInFlight[s] \in BOOLEAN
    BY DEF TypeOK
  <2> QED
    BY <1>2, <1>5, <1>11, <2>1 DEF WindowOver
<1> QED
  BY <1>7, <1>8, <1>9, <1>10, <1>11 DEF Screen, Timer

\* Seen from outside, and whatever the threads, aborts and timers do, a stream starts,
\* is live only with the slot, may reconnect, and once it is over stays over.
THEOREM LifeAsPromised == Spec => LivesAsPromised
<1>1. Init => Life!LifeInit
  <2> SUFFICES ASSUME Init PROVE Life!LifeInit
    OBVIOUS
  <2>1. \A t \in Starts : startPc[t] = "none"
    BY DEF Init
  <2>2. \A s \in Streams : StreamLifeOf(s) = "starting"
    BY <2>1, FirstStartIsAStart DEF Init, StreamLifeOf
  <2>3. \A s \in Streams : HoldsNothing(s)
    <3>1. \A s \in Streams : \A k \in 0 .. MaxAttempts : <<s, k>> \in Starts
      BY DEF Starts
    <3>2. \A s \in Streams : \A why \in StopKinds : <<why, s>> \in StopKinds \X Streams
      OBVIOUS
    <3> QED
      BY <2>1, <3>1, <3>2 DEF Init, HoldsNothing, StartHolds, HoldingStart, StopHolds
  <2> QED
    BY <2>2, <2>3 DEF Life!LifeInit, SlotOwner
<1>2. TypeOK /\ StartsAreFresh /\ SemaphoreAccounted /\ CoreInv /\ FlightInv /\ DriveInv
        /\ AbortsAreOfAttempts /\ SlotExact /\ SlotExact' /\ [Next]_vars
          => [Life!LifeNext]_(Life!lifeVars)
  <2> SUFFICES ASSUME TypeOK, StartsAreFresh, SemaphoreAccounted, CoreInv, FlightInv, DriveInv,
                      AbortsAreOfAttempts, SlotExact, SlotExact', [Next]_vars
               PROVE  [Life!LifeNext]_(Life!lifeVars)
    OBVIOUS
  <2>1. ASSUME NEW t \in Starts, StartThread(t) PROVE [Life!LifeNext]_(Life!lifeVars)
    BY <2>1, StartIsLocal, LifeStartThread, LocalLife
  <2>2. ASSUME NEW t \in Starts, Posted(t) PROVE [Life!LifeNext]_(Life!lifeVars)
    BY <2>2, LifePosted, LocalLife
  <2>3. ASSUME NEW x \in StopKinds \X Streams, StopThread(x)
        PROVE  [Life!LifeNext]_(Life!lifeVars)
    BY <2>3, LifeStopThread, LocalLife
  <2>4. ASSUME NEW s \in Streams, Screen(s) \/ Timer(s)
        PROVE  [Life!LifeNext]_(Life!lifeVars)
    BY <2>4, LifeUi, LocalLife
  <2>5. CASE UNCHANGED vars \/ Terminates \/ \E t \in Starts : PostTerminated(t)
    <3>1. /\ startPc' = startPc /\ stopPc' = stopPc /\ connected' = connected
          /\ reconnecting' = reconnecting
          /\ \/ posted' = posted
             \/ \E t \in Starts : posted' = posted \cup {<<"terminated", t>>}
      BY <2>5 DEF vars, Terminates, PostTerminated, gameVars, reconnectVars, threadVars
    <3>2. \A r \in Runnables : ReportHolds(r)' <=> ReportHolds(r)
      BY <3>1 DEF ReportHolds
    <3>3. \A s \in Streams : /\ Has(s)' <=> Has(s)
                             /\ StreamLifeOf(s)' = StreamLifeOf(s)
      BY <3>1, <3>2 DEF Has, StreamLifeOf, StartHolds, StopHolds
    <3>4. SlotOwner' = SlotOwner
      <4>1. CASE \E s \in Streams : Has(s)
        BY <3>3, <4>1 DEF SlotExact
      <4>2. CASE \A s \in Streams : ~Has(s)
        BY <3>3, <4>2 DEF SlotExact
      <4> QED
        BY <4>1, <4>2
    <3> QED
      BY <3>3, <3>4 DEF Life!lifeVars
  <2> QED
    BY <2>1, <2>2, <2>3, <2>4, <2>5 DEF Next
<1> QED
  BY <1>1, <1>2, TypeCorrect, FreshInvariant, SemaphoreSafe, CoreInvariant, FlightInvariant,
     DriveInvariant, AbortInvariant, SlotInvariant, PTL
     DEF Spec, LivesAsPromised, Life!LifeSpec
=============================================================================
