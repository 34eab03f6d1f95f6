------------------------ MODULE CodecRecovery_proofs ------------------------
(***************************************************************************)
(* That a codec is recovered by one thread alone, while the others wait    *)
(* for it, that buffers never outlive their codec, and that a codec gets   *)
(* its parameter sets before a frame: for any bounds, any pacing and any   *)
(* threads that may fail, once all threads have started.                   *)
(*                                                                         *)
(* The inductive invariant says what a flag in `quiesced' is worth: its    *)
(* owner waits or recovers, and the request it came for is still open.     *)
(***************************************************************************)
EXTENDS CodecRecovery, TLAPS

\* The choreographer thread runs before the first recovery is wanted, or there
\* is none.  A recovery wanted earlier counts that thread as quiesced, which it is
\* not: it may go on to hold a buffer while a later recovery stops the codec.
ChoreographerIsThere == ~FromStart \/ ~Balanced

ControlOK ==
    /\ codecRecoveryType \in {"none", "restart", "reset"}
    /\ quiesced \subseteq Threads
    /\ stopping \in BOOLEAN
    /\ pc \in [Threads -> Pcs]
    /\ prepare \in [Stoppers -> {"no", "marked", "interrupted", "cleared",
                                 "done"}]

\* Only prepareForStop interrupts the render thread and takes back a request,
\* and it first sets stopping.
StoppingComesFirst ==
    /\ renderInterrupted => stopping
    /\ \A p \in Stoppers : prepare[p] # "no" => stopping

FlagsAreHonest ==
    stopping \/
        /\ \A t \in quiesced :
               pc[t] \in {"absent", "waiting"} \cup RecoveringPcs
        /\ quiesced # {} => codecRecoveryType # "none"
        /\ \A t \in Threads : pc[t] = "enter" => codecRecoveryType # "none"
        /\ \A t \in Threads : pc[t] \in RecoveringPcs =>
               /\ quiesced = Threads
               /\ \A u \in Threads \ {t} : pc[u] \notin RecoveringPcs

IInv == /\ ControlOK
        /\ pc["choreographer"] # "unborn"
        /\ StoppingComesFirst
        /\ FlagsAreHonest

LEMMA InitIInv == ASSUME ChoreographerIsThere PROVE Init => IInv
<1> SUFFICES ASSUME Init PROVE IInv
  OBVIOUS
<1> USE CodecRecoveryAssumption DEF ChoreographerIsThere
<1>1. /\ codecRecoveryType = "none"
      /\ quiesced = {}
      /\ stopping = FALSE
      /\ renderInterrupted = FALSE
      /\ prepare = [p \in Stoppers |-> "no"]
  BY DEF Init
<1>2. pc = [t \in Threads |->
                CASE t = "choreographer" /\ ~Balanced -> "absent"
                  [] t = "render" \/ ~FromStart -> "top"
                  [] OTHER -> "unborn"]
  BY DEF Init
<1>3. \A t \in Threads : pc[t] \in {"absent", "top", "unborn"}
  BY <1>2 DEF Threads
<1>4. pc \in [Threads -> Pcs]
  BY <1>2, <1>3 DEF Pcs
<1>5. pc["choreographer"] # "unborn"
  BY <1>2 DEF Threads
<1>6. ControlOK
  BY <1>1, <1>4 DEF ControlOK
<1>7. FlagsAreHonest
  BY <1>1, <1>3 DEF FlagsAreHonest, RecoveringPcs
<1>8. StoppingComesFirst
  BY <1>1 DEF StoppingComesFirst
<1> QED
  BY <1>5, <1>6, <1>7, <1>8 DEF IInv

\* A thread that moves between places of its own, away from the recovery, and
\* at most asks for one.
LEMMA QuietMove ==
    ASSUME IInv, NEW t \in Threads, NEW label \in Pcs,
           pc[t] \notin {"absent", "waiting"} \cup RecoveringPcs,
           label \notin {"unborn", "enter"} \cup RecoveringPcs,
           pc' = [pc EXCEPT ![t] = label],
           codecRecoveryType' \in {"none", "restart", "reset"},
           codecRecoveryType # "none" => codecRecoveryType' # "none",
           UNCHANGED <<quiesced, stopping, prepare>>,
           renderInterrupted' => renderInterrupted
    PROVE  IInv'
<1>1. ControlOK'
  BY DEF IInv, ControlOK
<1>2. pc'["choreographer"] # "unborn"
  BY DEF IInv, ControlOK, Threads
<1>3. StoppingComesFirst'
  BY DEF IInv, StoppingComesFirst
<1>4. \A u \in Threads : u # t => pc'[u] = pc[u]
  BY DEF IInv, ControlOK
<1>5. pc'[t] = label
  BY DEF IInv, ControlOK
<1>6. CASE stopping
  BY <1>1, <1>2, <1>3, <1>6 DEF IInv, FlagsAreHonest
<1>7. CASE ~stopping
  <2>1. t \notin quiesced
    BY <1>7 DEF IInv, FlagsAreHonest
  <2>2. \A u \in quiesced' :
            pc'[u] \in {"absent", "waiting"} \cup RecoveringPcs
    BY <2>1, <1>4, <1>7 DEF IInv, ControlOK, FlagsAreHonest
  <2>3. \A u \in Threads : pc'[u] = "enter" => codecRecoveryType' # "none"
    BY <1>4, <1>5, <1>7 DEF IInv, FlagsAreHonest
  <2>4. \A u \in Threads : pc'[u] \in RecoveringPcs =>
            /\ quiesced' = Threads
            /\ \A v \in Threads \ {u} : pc'[v] \notin RecoveringPcs
    BY <1>4, <1>5, <1>7 DEF IInv, FlagsAreHonest
  <2>5. FlagsAreHonest'
    BY <2>2, <2>3, <2>4, <1>7 DEF IInv, FlagsAreHonest
  <2> QED
    BY <1>1, <1>2, <1>3, <2>5 DEF IInv
<1> QED
  BY <1>6, <1>7 DEF IInv, ControlOK

\* A step that moves no thread: requests are made, stopping is set.
LEMMA NoMove ==
    ASSUME IInv, UNCHANGED <<quiesced, pc>>,
           ControlOK', StoppingComesFirst',
           stopping => stopping',
           ~stopping' /\ codecRecoveryType # "none"
               => codecRecoveryType' # "none"
    PROVE  IInv'
BY DEF IInv, ControlOK, FlagsAreHonest

\* From doCodecRecoveryIfRequired a thread goes on to no place where it could
\* disturb a recovery.
LEMMA ReturnsGoto ==
    ASSUME ControlOK, NEW t \in Threads, NEW r \in BOOLEAN, Returns(t, r)
    PROVE  \E label \in {"top", "codec", "gone"} :
               pc' = [pc EXCEPT ![t] = label]
BY DEF Returns, InputReturns, CallSucceeds, Goto, Threads

LEMMA WantRecoveryIInv ==
    ASSUME IInv, NEW t \in Threads, WantRecovery(t) PROVE IInv'
<1>1. /\ pc[t] \in {"wantRestart", "wantReset"}
      /\ UNCHANGED <<quiesced, stopping, prepare, renderInterrupted>>
  BY DEF WantRecovery, stopVars, renderVars
<1>2. /\ codecRecoveryType' \in {"none", "restart", "reset"}
      /\ codecRecoveryType # "none" => codecRecoveryType' # "none"
  BY DEF WantRecovery, Exhausted, IInv, ControlOK
<1>3. PICK label \in {"upscaling", "check", "promoteRestart", "promoteReset"} :
          pc' = [pc EXCEPT ![t] = label]
  BY DEF WantRecovery, Exhausted, Goto, AfterCall
<1> QED
  BY <1>1, <1>2, <1>3, QuietMove DEF Pcs, RecoveringPcs, FailedPcs

LEMMA PromoteRecoveryIInv ==
    ASSUME IInv, NEW t \in Threads, PromoteRecovery(t) PROVE IInv'
<1>1. /\ pc[t] \in {"promoteRestart", "promoteReset"}
      /\ UNCHANGED <<quiesced, stopping, prepare, renderInterrupted>>
  BY DEF PromoteRecovery, stopVars, renderVars
<1>2. /\ codecRecoveryType' \in {"none", "restart", "reset"}
      /\ codecRecoveryType # "none" => codecRecoveryType' # "none"
  BY DEF PromoteRecovery, IInv, ControlOK
<1>3. PICK label \in {"upscaling", "check"} : pc' = [pc EXCEPT ![t] = label]
  BY DEF PromoteRecovery, Goto, AfterCall
<1> QED
  BY <1>1, <1>2, <1>3, QuietMove DEF Pcs, RecoveringPcs, FailedPcs

LEMMA CheckIInv == ASSUME IInv, NEW t \in Threads, Check(t) PROVE IInv'
<1>1. /\ pc[t] = "check"
      /\ UNCHANGED <<codecRecoveryType, quiesced, stopping, prepare,
                     renderInterrupted>>
  BY DEF Check, recoveryVars, stopVars, renderVars
<1>2. CASE codecRecoveryType = "none"
  <2>1. Returns(t, FALSE)
    BY <1>2 DEF Check
  <2>2. PICK label \in {"top", "codec", "gone"} :
            pc' = [pc EXCEPT ![t] = label]
    BY <2>1, ReturnsGoto DEF IInv
  <2>3. codecRecoveryType' \in {"none", "restart", "reset"}
    BY <1>1 DEF IInv, ControlOK
  <2> QED
    BY <1>1, <2>2, <2>3, QuietMove DEF Pcs, RecoveringPcs, FailedPcs
<1>3. CASE codecRecoveryType # "none"
  <2>1. pc' = [pc EXCEPT ![t] = "enter"]
    BY <1>3 DEF Check, Goto
  <2>2. /\ pc'[t] = "enter"
        /\ \A u \in Threads : u # t => pc'[u] = pc[u]
    BY <2>1 DEF IInv, ControlOK
  <2>3. ControlOK'
    BY <1>1, <2>1 DEF IInv, ControlOK, Pcs
  <2>4. pc'["choreographer"] # "unborn"
    BY <2>2 DEF IInv, Threads
  <2>5. StoppingComesFirst'
    BY <1>1 DEF IInv, StoppingComesFirst
  <2>6. stopping \/ t \notin quiesced
    BY <1>1 DEF IInv, FlagsAreHonest, RecoveringPcs
  <2>7. FlagsAreHonest'
    BY <1>1, <1>3, <2>2, <2>6 DEF IInv, ControlOK, FlagsAreHonest, RecoveringPcs
  <2> QED
    BY <2>3, <2>4, <2>5, <2>7 DEF IInv
<1> QED
  BY <1>2, <1>3

\* The thread joins those that wait; its flag stands for an open request.
LEMMA EnterToWaitIInv ==
    ASSUME IInv, NEW t \in Threads, EnterToWait(t) PROVE IInv'
<1>1. /\ pc[t] = "enter"
      /\ MonitorFree
      /\ quiesced' = QuiescedWith(t)
      /\ UNCHANGED <<codecRecoveryType, stopping, prepare, renderInterrupted>>
  BY DEF EnterToWait, stopVars, renderVars
<1>2. PICK label \in {"top", "codec", "gone", "waiting"} :
          /\ pc' = [pc EXCEPT ![t] = label]
          /\ codecRecoveryType # "none" => label = "waiting"
  <2>1. CASE codecRecoveryType = "none"
    BY <2>1, ReturnsGoto DEF EnterToWait, IInv
  <2>2. CASE codecRecoveryType # "none"
    BY <2>2 DEF EnterToWait, Goto
  <2> QED
    BY <2>1, <2>2
<1>3. /\ pc'[t] = label
      /\ \A u \in Threads : u # t => pc'[u] = pc[u]
  BY <1>2 DEF IInv, ControlOK
<1>4. quiesced' \subseteq Threads
  BY <1>1 DEF IInv, ControlOK, QuiescedWith, Threads
<1>5. ControlOK'
  BY <1>1, <1>2, <1>4 DEF IInv, ControlOK, Pcs
<1>6. pc'["choreographer"] # "unborn"
  BY <1>3 DEF IInv, Threads
<1>7. StoppingComesFirst'
  BY <1>1 DEF IInv, StoppingComesFirst
<1>8. ASSUME ~stopping PROVE FlagsAreHonest'
  <2>1. codecRecoveryType # "none" /\ label = "waiting"
    BY <1>1, <1>2, <1>8 DEF IInv, FlagsAreHonest
  <2>2. \A u \in quiesced' : u = t \/ u \in quiesced \/ pc[u] = "absent"
    BY <1>1 DEF IInv, QuiescedWith, NoChoreographerThread
  <2>3. \A u \in quiesced' :
            pc'[u] \in {"absent", "waiting"} \cup RecoveringPcs
    BY <1>3, <1>4, <1>8, <2>1, <2>2 DEF IInv, FlagsAreHonest
  <2>4. \A u \in Threads : pc'[u] \notin RecoveringPcs
    BY <1>1, <1>3, <2>1 DEF MonitorFree, RecoveringPcs
  <2> QED
    BY <1>1, <2>1, <2>3, <2>4 DEF FlagsAreHonest
<1> QED
  BY <1>1, <1>5, <1>6, <1>7, <1>8 DEF IInv, FlagsAreHonest

\* Only a decoder that is stopping has lost the request by then.
LEMMA EnterForNothingIInv ==
    ASSUME IInv, NEW t \in Threads, EnterForNothing(t) PROVE IInv'
<1>1. /\ pc[t] = "enter"
      /\ codecRecoveryType = "none"
      /\ quiesced' = {}
      /\ Returns(t, TRUE)
      /\ UNCHANGED <<codecRecoveryType, stopping, prepare, renderInterrupted>>
  BY DEF EnterForNothing, stopVars, renderVars
<1>2. PICK label \in {"top", "codec", "gone"} :
          pc' = [pc EXCEPT ![t] = label]
  BY <1>1, ReturnsGoto DEF IInv
<1>3. stopping
  BY <1>1 DEF IInv, FlagsAreHonest
<1>4. ControlOK'
  BY <1>1, <1>2 DEF IInv, ControlOK, Pcs
<1>5. pc'["choreographer"] # "unborn"
  BY <1>2 DEF IInv, ControlOK, Threads
<1> QED
  BY <1>1, <1>3, <1>4, <1>5 DEF IInv, StoppingComesFirst, FlagsAreHonest

\* With all the flags set, every other thread waits for this recovery.
LEMMA EnterToRecoverIInv ==
    ASSUME IInv, NEW t \in Threads, EnterToRecover(t) PROVE IInv'
<1>1. /\ pc[t] = "enter"
      /\ MonitorFree
      /\ QuiescedWith(t) = Threads
      /\ codecRecoveryType # "none"
      /\ quiesced' = Threads
      /\ pc' = [pc EXCEPT ![t] = codecRecoveryType]
      /\ UNCHANGED <<codecRecoveryType, stopping, prepare, renderInterrupted>>
  BY DEF EnterToRecover, stopVars, renderVars, Goto
<1>2. codecRecoveryType \in {"restart", "reset"}
  BY <1>1 DEF IInv, ControlOK
<1>3. /\ pc'[t] = codecRecoveryType
      /\ \A u \in Threads : u # t => pc'[u] = pc[u]
  BY <1>1 DEF IInv, ControlOK
<1>4. ControlOK'
  BY <1>1, <1>2 DEF IInv, ControlOK, Pcs, RecoveringPcs
<1>5. pc'["choreographer"] # "unborn"
  BY <1>2, <1>3 DEF IInv, Threads
<1>6. StoppingComesFirst'
  BY <1>1 DEF IInv, StoppingComesFirst
<1>7. ASSUME ~stopping PROVE FlagsAreHonest'
  <2>1. \A u \in Threads : u = t \/ u \in quiesced \/ pc[u] = "absent"
    BY <1>1 DEF IInv, QuiescedWith, NoChoreographerThread
  <2>2. \A u \in Threads \ {t} : pc[u] \in {"absent", "waiting"}
    BY <1>1, <1>7, <2>1 DEF IInv, FlagsAreHonest, MonitorFree
  <2>3. \A u \in Threads :
            pc'[u] \in {"absent", "waiting"} \cup RecoveringPcs
    BY <1>2, <1>3, <2>2 DEF RecoveringPcs
  <2>4. \A u \in Threads : pc'[u] \in RecoveringPcs => u = t
    BY <1>3, <2>2 DEF RecoveringPcs
  <2>5. \A u \in Threads : pc'[u] # "enter"
    BY <2>3 DEF RecoveringPcs
  <2> QED
    BY <1>1, <2>3, <2>4, <2>5 DEF FlagsAreHonest
<1> QED
  BY <1>1, <1>4, <1>5, <1>6, <1>7 DEF IInv, FlagsAreHonest

\* The recovering thread goes on to its next try, or to the end of it.
LEMMA RecoveringMove ==
    ASSUME IInv, NEW t \in Threads, NEW label \in RecoveringPcs,
           pc[t] \in RecoveringPcs,
           pc' = [pc EXCEPT ![t] = label],
           codecRecoveryType' \in {codecRecoveryType, "reset"},
           stopping' \in BOOLEAN, stopping => stopping',
           UNCHANGED <<quiesced, prepare, renderInterrupted>>
    PROVE  IInv'
<1>1. /\ pc'[t] = label
      /\ \A u \in Threads : u # t => pc'[u] = pc[u]
  BY DEF IInv, ControlOK
<1>2. ControlOK'
  BY DEF IInv, ControlOK, Pcs
<1>3. pc'["choreographer"] # "unborn"
  BY <1>1 DEF IInv, Threads, RecoveringPcs
<1>4. StoppingComesFirst'
  BY DEF IInv, StoppingComesFirst
<1>5. ASSUME ~stopping' PROVE FlagsAreHonest'
  <2>1. /\ quiesced = Threads
        /\ codecRecoveryType # "none"
        /\ \A u \in Threads \ {t} : pc[u] \in {"absent", "waiting"}
    BY <1>5 DEF IInv, ControlOK, FlagsAreHonest
  <2>2. codecRecoveryType' # "none"
    BY <2>1
  <2>3. \A u \in Threads :
            pc'[u] \in {"absent", "waiting"} \cup RecoveringPcs
    BY <1>1, <2>1
  <2>4. \A u \in Threads : pc'[u] \in RecoveringPcs => u = t
    BY <1>1, <2>1 DEF RecoveringPcs
  <2> QED
    BY <2>1, <2>2, <2>3, <2>4 DEF FlagsAreHonest
<1> QED
  BY <1>2, <1>3, <1>4, <1>5 DEF IInv, FlagsAreHonest

LEMMA TriesIInv ==
    ASSUME IInv, NEW t \in Threads,
           \/ Configured(t)
           \/ SurfaceInvalid(t)
           \/ RecoveryFails(t)
    PROVE  IInv'
<1>1. CASE Configured(t)
  <2>1. /\ pc[t] \in RecoveringPcs
        /\ pc' = [pc EXCEPT ![t] = "finish"]
        /\ UNCHANGED <<codecRecoveryType, quiesced, stopping, prepare,
                       renderInterrupted>>
    BY <1>1 DEF Configured, Goto, RecoveringPcs, recoveryVars, stopVars,
                renderVars
  <2> QED
    BY <2>1, RecoveringMove DEF IInv, ControlOK, RecoveringPcs
<1>2. CASE SurfaceInvalid(t)
  <2>1. /\ pc[t] \in RecoveringPcs
        /\ pc' = [pc EXCEPT ![t] = "finish"]
        /\ stopping' = TRUE
        /\ UNCHANGED <<codecRecoveryType, quiesced, prepare,
                       renderInterrupted>>
    BY <1>2 DEF SurfaceInvalid, Goto, RecoveringPcs, recoveryVars, stopVars,
                renderVars
  <2> QED
    BY <2>1, RecoveringMove DEF RecoveringPcs
<1>3. CASE RecoveryFails(t)
  <2>1. /\ pc[t] \in RecoveringPcs
        /\ codecRecoveryType' = "reset"
        /\ UNCHANGED <<quiesced, stopping, prepare, renderInterrupted>>
    BY <1>3 DEF RecoveryFails, RecoveringPcs, stopVars, renderVars
  <2>2. PICK label \in RecoveringPcs : pc' = [pc EXCEPT ![t] = label]
    <3>1. CASE pc[t] = "recreate"
      <4>1. pc' = pc
        BY <1>3, <3>1 DEF RecoveryFails
      <4>2. pc' = [pc EXCEPT ![t] = "recreate"]
        BY <4>1, <3>1 DEF IInv, ControlOK
      <4> QED
        BY <4>2 DEF RecoveringPcs
    <3>2. CASE pc[t] # "recreate"
      BY <1>3, <3>2 DEF RecoveryFails, Goto, RecoveringPcs
    <3> QED
      BY <3>1, <3>2
  <2> QED
    BY <2>1, <2>2, RecoveringMove DEF IInv, ControlOK
<1> QED
  BY <1>1, <1>2, <1>3

\* No other thread is on its way into the monitor: all of them wait.
LEMMA FinishIInv == ASSUME IInv, NEW t \in Threads, Finish(t) PROVE IInv'
<1>1. /\ pc[t] \in RecoveringPcs
      /\ codecRecoveryType' = "none"
      /\ quiesced' = {}
      /\ Returns(t, TRUE)
      /\ UNCHANGED <<stopping, prepare, renderInterrupted>>
  BY DEF Finish, RecoveringPcs, stopVars, renderVars
<1>2. PICK label \in {"top", "codec", "gone"} :
          pc' = [pc EXCEPT ![t] = label]
  BY <1>1, ReturnsGoto DEF IInv
<1>3. /\ pc'[t] = label
      /\ \A u \in Threads : u # t => pc'[u] = pc[u]
  BY <1>2 DEF IInv, ControlOK
<1>4. ControlOK'
  BY <1>1, <1>2 DEF IInv, ControlOK, Pcs
<1>5. pc'["choreographer"] # "unborn"
  BY <1>3 DEF IInv, Threads
<1>6. StoppingComesFirst'
  BY <1>1 DEF IInv, StoppingComesFirst
<1>7. ASSUME ~stopping PROVE FlagsAreHonest'
  <2>1. \A u \in Threads \ {t} : pc[u] \in {"absent", "waiting"}
    BY <1>1, <1>7 DEF IInv, FlagsAreHonest
  <2>2. \A u \in Threads : pc'[u] \notin {"enter"} \cup RecoveringPcs
    BY <1>3, <2>1 DEF RecoveringPcs
  <2> QED
    BY <1>1, <2>2 DEF FlagsAreHonest
<1> QED
  BY <1>1, <1>4, <1>5, <1>6, <1>7 DEF IInv, FlagsAreHonest

\* A thread wakes because its flag no longer stands, or the decoder stops.
LEMMA WakeIInv ==
    ASSUME IInv, NEW t \in Threads, pc[t] = "waiting", Returns(t, TRUE),
           codecRecoveryType = "none" \/ stopping,
           UNCHANGED <<codecRecoveryType, quiesced, stopping, prepare,
                       renderInterrupted>>
    PROVE  IInv'
<1>1. PICK label \in {"top", "codec", "gone"} :
          pc' = [pc EXCEPT ![t] = label]
  BY ReturnsGoto DEF IInv
<1>2. /\ pc'[t] = label
      /\ \A u \in Threads : u # t => pc'[u] = pc[u]
  BY <1>1 DEF IInv, ControlOK
<1>3. ControlOK'
  BY <1>1 DEF IInv, ControlOK, Pcs
<1>4. pc'["choreographer"] # "unborn"
  BY <1>2 DEF IInv, Threads
<1>5. StoppingComesFirst'
  BY DEF IInv, StoppingComesFirst
<1>6. ASSUME ~stopping PROVE FlagsAreHonest'
  <2>1. quiesced = {}
    BY <1>6 DEF IInv, FlagsAreHonest
  <2>2. \A u \in Threads : pc'[u] \notin {"enter"} \cup RecoveringPcs
    BY <1>2, <1>6, <2>1 DEF IInv, FlagsAreHonest, RecoveringPcs
  <2> QED
    BY <2>1, <2>2 DEF FlagsAreHonest
<1> QED
  BY <1>3, <1>4, <1>5, <1>6 DEF IInv, FlagsAreHonest

LEMMA RecoveryIInv ==
    ASSUME IInv, NEW t \in Threads, Recovery(t) PROVE IInv'
<1>1. CASE Wake(t)
  <2>1. /\ pc[t] = "waiting"
        /\ Returns(t, TRUE)
        /\ codecRecoveryType = "none"
        /\ UNCHANGED <<codecRecoveryType, quiesced, stopping, prepare,
                       renderInterrupted>>
    BY <1>1 DEF Wake, recoveryVars, stopVars, renderVars
  <2> QED
    BY <2>1, WakeIInv
<1>2. CASE ~Wake(t)
  BY <1>2, WantRecoveryIInv, PromoteRecoveryIInv, CheckIInv, EnterToWaitIInv,
     EnterForNothingIInv, EnterToRecoverIInv, TriesIInv, FinishIInv
     DEF Recovery
<1> QED
  BY <1>1, <1>2

LEMMA ThrowsGoto ==
    ASSUME NEW t \in Threads, Throws(t)
    PROVE  \E label \in {"upscaling", "check", "wantRestart", "wantReset"} :
               pc' = [pc EXCEPT ![t] = label]
BY DEF Throws, Goto, AfterCall

LEMMA InputIInv == ASSUME IInv, InputThread PROVE IInv'
<1> DEFINE Labels == {"top", "codec", "check", "upscaling", "wantRestart",
                      "wantReset", "gone"}
<1>1. ASSUME FrameArrives \/ BufferAtHand \/ FetchBuffer \/ QueueBuffer
             \/ InputLeaves
      PROVE  IInv'
  <2>1. /\ pc["input"] \in {"top", "codec"}
        /\ UNCHANGED <<codecRecoveryType, quiesced, stopping, prepare,
                       renderInterrupted>>
    BY <1>1 DEF FrameArrives, BufferAtHand, FetchBuffer, QueueBuffer,
                InputLeaves, recoveryVars, stopVars, renderVars
  <2>2. PICK label \in Labels : pc' = [pc EXCEPT !["input"] = label]
    <3>1. CASE FrameArrives
      BY <3>1 DEF FrameArrives, Goto
    <3>2. CASE BufferAtHand
      BY <3>2 DEF BufferAtHand, CallSucceeds, Goto
    <3>3. CASE FetchBuffer
      BY <3>3, ThrowsGoto DEF FetchBuffer, Goto, Threads
    <3>4. CASE QueueBuffer
      BY <3>4, ThrowsGoto DEF QueueBuffer, Goto, Threads
    <3>5. CASE InputLeaves
      BY <3>5 DEF InputLeaves, Goto
    <3> QED
      BY <1>1, <3>1, <3>2, <3>3, <3>4, <3>5
  <2>3. codecRecoveryType' \in {"none", "restart", "reset"}
    BY <2>1 DEF IInv, ControlOK
  <2> QED
    BY <2>1, <2>2, <2>3, QuietMove DEF Pcs, RecoveringPcs, FailedPcs, Threads
<1>2. CASE Recovery("input")
  BY <1>2, RecoveryIInv DEF Threads
<1> QED
  BY <1>1, <1>2 DEF InputThread

LEMMA RenderIInv == ASSUME IInv, RenderThread PROVE IInv'
<1> DEFINE Labels == {"top", "codec", "taking", "closing", "check",
                      "upscaling", "wantRestart", "wantReset", "gone"}
<1>1. ASSUME RenderLoops \/ Dequeue \/ TakeOldest \/ TakeInterrupted
             \/ CheckUpscaling \/ RenderEnds
      PROVE  IInv'
  <2>1. /\ pc["render"] \in {"top", "codec", "taking", "upscaling", "closing"}
        /\ UNCHANGED <<quiesced, stopping, prepare>>
        /\ renderInterrupted' => renderInterrupted
    BY <1>1 DEF RenderLoops, Dequeue, TakeOldest, TakeInterrupted,
                CheckUpscaling, RenderEnds, recoveryVars, stopVars, renderVars
  <2>2. PICK label \in Labels : pc' = [pc EXCEPT !["render"] = label]
    <3>1. CASE RenderLoops
      BY <3>1 DEF RenderLoops, Goto
    <3>2. CASE Dequeue
      BY <3>2, ThrowsGoto DEF Dequeue, Goto, Threads
    <3>3. CASE TakeOldest
      BY <3>3, ThrowsGoto DEF TakeOldest, Goto, Threads
    <3>4. CASE TakeInterrupted
      BY <3>4 DEF TakeInterrupted, Goto
    <3>5. CASE CheckUpscaling
      BY <3>5 DEF CheckUpscaling, Goto
    <3>6. CASE RenderEnds
      BY <3>6 DEF RenderEnds, Goto
    <3> QED
      BY <1>1, <3>1, <3>2, <3>3, <3>4, <3>5, <3>6
  <2>3. /\ codecRecoveryType' \in {"none", "restart", "reset"}
        /\ codecRecoveryType # "none" => codecRecoveryType' # "none"
    BY <1>1 DEF RenderLoops, Dequeue, TakeOldest, TakeInterrupted,
                CheckUpscaling, RenderEnds, recoveryVars, IInv, ControlOK
  <2> QED
    BY <2>1, <2>2, <2>3, QuietMove DEF Pcs, RecoveringPcs, FailedPcs, Threads
<1>2. CASE WaitInterrupted
  <2>1. /\ pc["render"] = "waiting"
        /\ renderInterrupted
        /\ Returns("render", TRUE)
        /\ UNCHANGED <<codecRecoveryType, quiesced, stopping, prepare,
                       renderInterrupted>>
    BY <1>2 DEF WaitInterrupted, recoveryVars, stopVars, renderVars
  <2> QED
    BY <2>1, WakeIInv DEF IInv, StoppingComesFirst, Threads
<1>3. CASE Recovery("render")
  BY <1>3, RecoveryIInv DEF Threads
<1> QED
  BY <1>1, <1>2, <1>3 DEF RenderThread

LEMMA ChoreographerIInv == ASSUME IInv, ChoreographerThread PROVE IInv'
<1> DEFINE Labels == {"holding", "check", "upscaling", "wantRestart",
                      "wantReset", "gone"}
<1>1. ASSUME DoFrame \/ Present \/ ChoreographerQuits PROVE IInv'
  <2>1. /\ pc["choreographer"] \in {"top", "holding"}
        /\ UNCHANGED <<codecRecoveryType, quiesced, stopping, prepare,
                       renderInterrupted>>
    BY <1>1 DEF DoFrame, Present, ChoreographerQuits, recoveryVars, stopVars,
                renderVars
  <2>2. PICK label \in Labels : pc' = [pc EXCEPT !["choreographer"] = label]
    BY <1>1, ThrowsGoto
       DEF DoFrame, Present, ChoreographerQuits, Goto, Threads
  <2>3. codecRecoveryType' \in {"none", "restart", "reset"}
    BY <2>1 DEF IInv, ControlOK
  <2> QED
    BY <2>1, <2>2, <2>3, QuietMove DEF Pcs, RecoveringPcs, FailedPcs, Threads
<1>2. CASE PreferNewer
  <2>1. UNCHANGED <<codecRecoveryType, quiesced, pc, stopping, prepare,
                    renderInterrupted>>
    BY <1>2 DEF PreferNewer, recoveryVars, stopVars, renderVars
  <2>2. ControlOK' /\ StoppingComesFirst'
    BY <2>1 DEF IInv, ControlOK, StoppingComesFirst
  <2> QED
    BY <2>1, <2>2, NoMove
<1>3. CASE Recovery("choreographer")
  BY <1>3, RecoveryIInv DEF Threads
<1> QED
  BY <1>1, <1>2, <1>3 DEF ChoreographerThread

LEMMA StartsIInv ==
    ASSUME IInv, StartChoreographer \/ StartInput PROVE IInv'
<1>1. StartInput
  BY DEF IInv, StartChoreographer
<1>2. /\ pc["input"] = "unborn"
      /\ pc' = [pc EXCEPT !["input"] = "top"]
      /\ UNCHANGED <<codecRecoveryType, quiesced, stopping, prepare,
                     renderInterrupted>>
  BY <1>1 DEF StartInput, Goto, recoveryVars, stopVars, renderVars
<1>3. codecRecoveryType' \in {"none", "restart", "reset"}
  BY <1>2 DEF IInv, ControlOK
<1> QED
  BY <1>2, <1>3, QuietMove DEF Pcs, RecoveringPcs, Threads

\* stopping is set before anything that relies on it is done.
LEMMA StopIInv ==
    ASSUME IInv, NEW p \in Stoppers, PrepareMarks(p) \/ Prepares(p)
    PROVE  IInv'
<1>1. UNCHANGED <<quiesced, pc>>
  BY DEF PrepareMarks, Prepares, PrepareInterrupts, PrepareClears,
         PreparePostsQuit, recoveryVars
<1>2. /\ stopping'
      /\ stopping' \in BOOLEAN
  BY DEF PrepareMarks, Prepares, PrepareInterrupts, PrepareClears,
         PreparePostsQuit, IInv, StoppingComesFirst, ControlOK
<1>3. codecRecoveryType' \in {"none", "restart", "reset"}
  BY DEF PrepareMarks, Prepares, PrepareInterrupts, PrepareClears,
         PreparePostsQuit, IInv, ControlOK, recoveryVars
<1>4. \E label \in {"marked", "interrupted", "cleared", "done"} :
          prepare' = [prepare EXCEPT ![p] = label]
  BY DEF PrepareMarks, Prepares, PrepareInterrupts, PrepareClears,
         PreparePostsQuit
<1>5. ControlOK'
  BY <1>1, <1>2, <1>3, <1>4 DEF IInv, ControlOK
<1>6. StoppingComesFirst'
  BY <1>2 DEF StoppingComesFirst
<1> QED
  BY <1>1, <1>2, <1>5, <1>6, NoMove

LEMMA OthersIInv ==
    ASSUME IInv, Cleanup \/ SetHdrMode \/ HdrWantsRestart \/ UNCHANGED vars
    PROVE  IInv'
<1>1. UNCHANGED <<quiesced, pc, stopping, prepare, renderInterrupted>>
  BY DEF Cleanup, SetHdrMode, HdrWantsRestart, vars, recoveryVars, stopVars,
         renderVars
<1>2. /\ codecRecoveryType' \in {"none", "restart", "reset"}
      /\ codecRecoveryType # "none" => codecRecoveryType' # "none"
  BY DEF Cleanup, SetHdrMode, HdrWantsRestart, vars, recoveryVars, IInv,
         ControlOK
<1>3. ControlOK' /\ StoppingComesFirst'
  BY <1>1, <1>2 DEF IInv, ControlOK, StoppingComesFirst
<1> QED
  BY <1>1, <1>2, <1>3, NoMove

LEMMA NextIInv == IInv /\ [Next]_vars => IInv'
<1> SUFFICES ASSUME IInv, [Next]_vars PROVE IInv'
  OBVIOUS
<1>1. CASE InputThread
  BY <1>1, InputIInv
<1>2. CASE RenderThread
  BY <1>2, RenderIInv
<1>3. CASE ChoreographerThread
  BY <1>3, ChoreographerIInv
<1>4. CASE StartChoreographer \/ StartInput
  BY <1>4, StartsIInv
<1>5. CASE \E p \in Stoppers : PrepareMarks(p) \/ Prepares(p)
  BY <1>5, StopIInv
<1>6. CASE Cleanup \/ SetHdrMode \/ HdrWantsRestart \/ UNCHANGED vars
  BY <1>6, OthersIInv
<1> QED
  BY <1>1, <1>2, <1>3, <1>4, <1>5, <1>6 DEF Next

LEMMA ExclusiveFromIInv == IInv => RecoveryIsExclusive
<1> SUFFICES ASSUME IInv, ~stopping,
                    NEW t \in Threads, pc[t] \in RecoveringPcs,
                    NEW u \in Threads \ {t}
             PROVE  pc[u] \in {"waiting", "absent"}
  BY DEF RecoveryIsExclusive
<1>1. quiesced = Threads /\ pc[u] \notin RecoveringPcs
  BY DEF IInv, FlagsAreHonest
<1> QED
  BY <1>1 DEF IInv, FlagsAreHonest

\* A codec is recovered only while every other thread that calls it waits:
\* doCodecRecoveryIfRequired keeps its promise to quiesce them all, whatever
\* is asked of the codec meanwhile, provided that no recovery is wanted before
\* start() has started the choreographer thread.
THEOREM RecoveryExclusive ==
    ASSUME ChoreographerIsThere PROVE Spec => []RecoveryIsExclusive
<1>1. Init => IInv
  BY InitIInv
<1>2. IInv /\ [Next]_vars => IInv'
  BY NextIInv
<1>3. IInv => RecoveryIsExclusive
  BY ExclusiveFromIInv
<1> QED
  BY <1>1, <1>2, <1>3, PTL DEF Spec

(***************************************************************************)
(* Buffers.  A buffer of the old codec could only survive its recovery in  *)
(* the hand of a thread, and all threads but one wait: the one recovering  *)
(* has cleared what it and the render thread had.                          *)
(***************************************************************************)
BuffersAreFresh ==
    stopping \/
        /\ nextInputBuffer \in {"none", "fresh"}
        /\ inHand \in {"none", "fresh"}
        /\ outputBufferQueue \in Seq({"fresh"})
        /\ inHand # "none" => pc["choreographer"] = "holding"
        /\ \A t \in Threads : pc[t] \in RecoveringPcs =>
               nextInputBuffer = "none" /\ outputBufferQueue = <<>>
        /\ pc["render"] # "closing"

BufferInv == IInv /\ RecoveryIsExclusive /\ BuffersAreFresh

LEMMA InitFresh == Init => BuffersAreFresh
BY DEF Init, BuffersAreFresh, Threads, RecoveringPcs

LEMMA StoppingStays == IInv /\ [Next]_vars /\ stopping => stopping'
<1> SUFFICES ASSUME [Next]_vars, stopping, IInv PROVE stopping'
  OBVIOUS
<1>1. ASSUME NEW t \in Threads, Recovery(t) PROVE stopping'
  BY <1>1 DEF Recovery, WantRecovery, PromoteRecovery, Check, EnterToWait,
              EnterForNothing, EnterToRecover, Configured, SurfaceInvalid,
              RecoveryFails, Finish, Wake
<1>2. CASE InputThread
  BY <1>1, <1>2 DEF InputThread, FrameArrives, BufferAtHand, FetchBuffer,
                    QueueBuffer, InputLeaves, Threads
<1>3. CASE RenderThread
  BY <1>1, <1>3 DEF RenderThread, RenderLoops, Dequeue, TakeOldest,
                    TakeInterrupted, CheckUpscaling, WaitInterrupted,
                    RenderEnds, Threads
<1>4. CASE ChoreographerThread
  BY <1>1, <1>4 DEF ChoreographerThread, DoFrame, PreferNewer, Present,
                    ChoreographerQuits, Threads
<1>5. CASE \/ StartChoreographer
           \/ StartInput
           \/ \E p \in Stoppers : PrepareMarks(p) \/ Prepares(p)
           \/ Cleanup
           \/ SetHdrMode
           \/ HdrWantsRestart
           \/ UNCHANGED vars
  BY <1>5 DEF StartChoreographer, StartInput, PrepareMarks, Prepares,
              PrepareInterrupts, PrepareClears, PreparePostsQuit, Cleanup,
              SetHdrMode, HdrWantsRestart, vars
<1> QED
  BY <1>2, <1>3, <1>4, <1>5 DEF Next

\* A thread without a frame in hand moves on and leaves the buffers alone.
LEMMA MoveKeepsFresh ==
    ASSUME BufferInv, ~stopping, NEW t \in Threads, NEW label \in Pcs,
           pc' = [pc EXCEPT ![t] = label],
           pc[t] # "holding", label # "closing",
           label \notin RecoveringPcs \/ pc[t] \in RecoveringPcs,
           UNCHANGED bufferVars
    PROVE  BuffersAreFresh'
<1>1. \A u \in Threads : pc'[u] \in RecoveringPcs => pc[u] \in RecoveringPcs
  BY DEF BufferInv, IInv, ControlOK
<1>2. pc["choreographer"] = "holding" => pc'["choreographer"] = "holding"
  BY DEF BufferInv, IInv, ControlOK, Threads
<1>3. pc'["render"] # "closing"
  BY DEF BufferInv, BuffersAreFresh, IInv, ControlOK, Threads
<1> QED
  BY <1>1, <1>2, <1>3 DEF BufferInv, BuffersAreFresh, bufferVars

LEMMA RecoveryFresh ==
    ASSUME BufferInv, ~stopping, NEW t \in Threads, Recovery(t)
    PROVE  BuffersAreFresh'
<1> USE DEF BufferInv
<1>1. ASSUME WantRecovery(t) \/ PromoteRecovery(t) PROVE BuffersAreFresh'
  <2>1. /\ pc[t] \notin {"holding"} \cup RecoveringPcs
        /\ UNCHANGED bufferVars
    BY <1>1 DEF WantRecovery, PromoteRecovery, RecoveringPcs
  <2>2. PICK label \in {"upscaling", "check", "promoteRestart",
                        "promoteReset"} : pc' = [pc EXCEPT ![t] = label]
    BY <1>1 DEF WantRecovery, PromoteRecovery, Exhausted, Goto, AfterCall
  <2> QED
    BY <2>1, <2>2, MoveKeepsFresh DEF Pcs, FailedPcs, RecoveringPcs
<1>2. ASSUME Check(t) \/ EnterToWait(t) \/ Finish(t) \/ Wake(t)
      PROVE  BuffersAreFresh'
  <2>1. /\ pc[t] # "holding"
        /\ UNCHANGED bufferVars
    BY <1>2 DEF Check, EnterToWait, Finish, Wake
  <2>2. PICK label \in {"top", "codec", "gone", "enter", "waiting"} :
            pc' = [pc EXCEPT ![t] = label]
    BY <1>2, ReturnsGoto DEF Check, EnterToWait, Finish, Wake, Goto, IInv
  <2> QED
    BY <2>1, <2>2, MoveKeepsFresh DEF Pcs, RecoveringPcs
<1>3. CASE EnterForNothing(t)
  BY <1>3 DEF EnterForNothing, IInv, FlagsAreHonest
<1>4. CASE EnterToRecover(t)
  <2>1. /\ pc[t] = "enter"
        /\ QuiescedWith(t) = Threads
        /\ MonitorFree
        /\ nextInputBuffer' = "none"
        /\ outputBufferQueue' = <<>>
        /\ UNCHANGED <<inHand, stopping>>
    BY <1>4 DEF EnterToRecover
  <2>2. \A u \in Threads \ {t} : pc[u] \in {"absent", "waiting"}
    BY <2>1 DEF IInv, FlagsAreHonest, MonitorFree, QuiescedWith,
                NoChoreographerThread
  <2>3. inHand = "none"
    BY <2>1, <2>2 DEF BuffersAreFresh, Threads
  <2>4. pc'["render"] # "closing"
    BY <1>4 DEF EnterToRecover, Goto, IInv, ControlOK, BuffersAreFresh, Threads
  <2> QED
    BY <2>1, <2>3, <2>4 DEF BuffersAreFresh
<1>5. CASE Configured(t)
  <2>1. /\ pc[t] \in RecoveringPcs
        /\ nextInputBuffer' = Stale(nextInputBuffer)
        /\ inHand' = Stale(inHand)
        /\ outputBufferQueue' = [i \in DOMAIN outputBufferQueue |-> "stale"]
    BY <1>5 DEF Configured, ConfigureAndStart, InvalidateBuffers, RecoveringPcs
  <2>2. \A u \in Threads \ {t} : pc[u] \in {"absent", "waiting"}
    BY <2>1 DEF RecoveryIsExclusive
  <2>3. nextInputBuffer = "none" /\ outputBufferQueue = <<>>
    BY <2>1 DEF BuffersAreFresh
  <2>4. inHand = "none"
    BY <2>1, <2>2 DEF BuffersAreFresh, Threads, RecoveringPcs
  <2>5. nextInputBuffer' = "none" /\ inHand' = "none"
    BY <2>1, <2>3, <2>4 DEF Stale
  <2>6. outputBufferQueue' = <<>>
    BY <2>1, <2>3
  <2>7. pc'["render"] # "closing"
    BY <1>5 DEF Configured, Goto, IInv, ControlOK, BuffersAreFresh, Threads
  <2> QED
    BY <2>5, <2>6, <2>7 DEF BuffersAreFresh
<1>6. CASE SurfaceInvalid(t)
  BY <1>6 DEF SurfaceInvalid, BuffersAreFresh
<1>7. CASE RecoveryFails(t)
  <2>1. /\ pc[t] \in {"restart", "reset", "recreate"}
        /\ UNCHANGED bufferVars
    BY <1>7 DEF RecoveryFails
  <2>2. PICK label \in {"reset", "recreate"} : pc' = [pc EXCEPT ![t] = label]
    <3>1. CASE pc[t] = "recreate"
      BY <1>7, <3>1 DEF RecoveryFails, IInv, ControlOK
    <3>2. CASE pc[t] # "recreate"
      BY <1>7, <3>2 DEF RecoveryFails, Goto
    <3> QED
      BY <3>1, <3>2
  <2> QED
    BY <2>1, <2>2, MoveKeepsFresh DEF Pcs, RecoveringPcs
<1> QED
  BY <1>1, <1>2, <1>3, <1>4, <1>5, <1>6, <1>7 DEF Recovery

LEMMA InputFresh ==
    ASSUME BufferInv, ~stopping, InputThread PROVE BuffersAreFresh'
<1> USE DEF BufferInv
<1>1. ASSUME FrameArrives \/ BufferAtHand \/ InputLeaves
      PROVE  BuffersAreFresh'
  <2>1. /\ pc["input"] \in {"top", "codec"}
        /\ UNCHANGED bufferVars
    BY <1>1 DEF FrameArrives, BufferAtHand, InputLeaves
  <2>2. PICK label \in {"top", "codec", "gone"} :
            pc' = [pc EXCEPT !["input"] = label]
    BY <1>1 DEF FrameArrives, BufferAtHand, InputLeaves, CallSucceeds, Goto
  <2> QED
    BY <2>1, <2>2, MoveKeepsFresh DEF Pcs, RecoveringPcs, Threads
<1>2. ASSUME FetchBuffer \/ QueueBuffer PROVE BuffersAreFresh'
  <2>1. /\ pc["input"] = "codec"
        /\ nextInputBuffer' \in {nextInputBuffer, "fresh", "none"}
        /\ UNCHANGED <<outputBufferQueue, inHand, stopping>>
    BY <1>2 DEF FetchBuffer, QueueBuffer
  <2>2. PICK label \in {"check", "upscaling", "wantRestart", "wantReset"} :
            pc' = [pc EXCEPT !["input"] = label]
    BY <1>2, ThrowsGoto DEF FetchBuffer, QueueBuffer, Goto, Threads
  <2>3. \A u \in Threads : pc[u] \notin RecoveringPcs
    BY <2>1 DEF RecoveryIsExclusive, RecoveringPcs, Threads
  <2>4. /\ \A u \in Threads : pc'[u] \notin RecoveringPcs
        /\ pc'["choreographer"] = pc["choreographer"]
        /\ pc'["render"] = pc["render"]
    BY <2>2, <2>3 DEF IInv, ControlOK, RecoveringPcs, Threads
  <2> QED
    BY <2>1, <2>4 DEF BuffersAreFresh
<1>3. CASE Recovery("input")
  BY <1>3, RecoveryFresh DEF Threads
<1> QED
  BY <1>1, <1>2, <1>3 DEF InputThread

LEMMA RenderFresh ==
    ASSUME BufferInv, ~stopping, RenderThread PROVE BuffersAreFresh'
<1> USE DEF BufferInv
<1>1. ASSUME \/ RenderLoops
             \/ TakeInterrupted
             \/ CheckUpscaling
             \/ WaitInterrupted
      PROVE  BuffersAreFresh'
  <2>1. /\ pc["render"] # "holding"
        /\ UNCHANGED bufferVars
    BY <1>1 DEF RenderLoops, TakeInterrupted, CheckUpscaling, WaitInterrupted
  <2>2. PICK label \in {"top", "codec", "upscaling", "check", "gone"} :
            pc' = [pc EXCEPT !["render"] = label]
    BY <1>1, ReturnsGoto
       DEF RenderLoops, TakeInterrupted, CheckUpscaling, WaitInterrupted,
           Goto, IInv, Threads
  <2> QED
    BY <2>1, <2>2, MoveKeepsFresh DEF Pcs, RecoveringPcs, Threads
<1>2. ASSUME Dequeue \/ TakeOldest PROVE BuffersAreFresh'
  <2>1. /\ pc["render"] \in {"codec", "taking"}
        /\ UNCHANGED <<nextInputBuffer, inHand, stopping>>
    BY <1>2 DEF Dequeue, TakeOldest
  <2>2. PICK label \in {"taking", "upscaling", "check", "wantRestart",
                        "wantReset"} : pc' = [pc EXCEPT !["render"] = label]
    <3>1. CASE Dequeue
      BY <3>1, ThrowsGoto DEF Dequeue, Goto, Threads
    <3>2. CASE TakeOldest
      BY <3>2, ThrowsGoto DEF TakeOldest, Goto, Threads
    <3> QED
      BY <1>2, <3>1, <3>2
  <2>3. outputBufferQueue \in Seq({"fresh"})
    BY DEF BuffersAreFresh
  <2>4. outputBufferQueue' \in Seq({"fresh"})
    <3>1. CASE Dequeue
      BY <2>3, <3>1 DEF Dequeue
    <3>2. CASE TakeOldest
      <4>1. Tail(outputBufferQueue) \in Seq({"fresh"})
        BY <2>3, <3>2 DEF TakeOldest
      <4> QED
        BY <3>2, <4>1 DEF TakeOldest
    <3> QED
      BY <1>2, <3>1, <3>2
  <2>5. \A u \in Threads : pc[u] \notin RecoveringPcs
    BY <2>1 DEF RecoveryIsExclusive, RecoveringPcs, Threads
  <2>6. /\ \A u \in Threads : pc'[u] \notin RecoveringPcs
        /\ pc'["choreographer"] = pc["choreographer"]
        /\ pc'["render"] # "closing"
    BY <2>2, <2>5 DEF IInv, ControlOK, RecoveringPcs, Threads
  <2> QED
    BY <2>1, <2>4, <2>6 DEF BuffersAreFresh
<1>3. CASE RenderEnds
  BY <1>3 DEF RenderEnds, BuffersAreFresh
<1>4. CASE Recovery("render")
  BY <1>4, RecoveryFresh DEF Threads
<1> QED
  BY <1>1, <1>2, <1>3, <1>4 DEF RenderThread

LEMMA ChoreographerFresh ==
    ASSUME BufferInv, ~stopping, ChoreographerThread PROVE BuffersAreFresh'
<1> USE DEF BufferInv
<1>1. ASSUME DoFrame \/ PreferNewer \/ Present PROVE BuffersAreFresh'
  <2>1. /\ pc["choreographer"] \in {"top", "holding"}
        /\ UNCHANGED <<nextInputBuffer, stopping>>
    BY <1>1 DEF DoFrame, PreferNewer, Present
  <2>2. outputBufferQueue \in Seq({"fresh"}) /\ inHand \in {"none", "fresh"}
    BY DEF BuffersAreFresh
  <2>3. /\ outputBufferQueue' \in Seq({"fresh"})
        /\ inHand' \in {"none", "fresh"}
    <3>1. CASE outputBufferQueue # <<>>
      <4>1. /\ Head(outputBufferQueue) \in {"fresh"}
            /\ Tail(outputBufferQueue) \in Seq({"fresh"})
        BY <2>2, <3>1
      <4> QED
        BY <1>1, <2>2, <4>1 DEF DoFrame, PreferNewer, Present
    <3>2. CASE outputBufferQueue = <<>>
      BY <1>1, <2>2, <3>2 DEF DoFrame, PreferNewer, Present
    <3> QED
      BY <3>1, <3>2
  <2>4. \A u \in Threads : pc[u] \notin RecoveringPcs
    BY <2>1 DEF RecoveryIsExclusive, RecoveringPcs, Threads
  <2>5. PICK label \in {"holding", "check", "upscaling", "wantRestart",
                        "wantReset"} :
            /\ pc' = [pc EXCEPT !["choreographer"] = label]
            /\ inHand' # "none" => label = "holding"
    <3>1. CASE DoFrame
      <4>1. inHand # "none" => pc["choreographer"] = "holding"
        BY DEF BuffersAreFresh
      <4> QED
        BY <3>1, <4>1 DEF DoFrame, Goto
    <3>2. CASE PreferNewer
      BY <3>2 DEF PreferNewer, IInv, ControlOK
    <3>3. CASE Present
      BY <3>3, ThrowsGoto DEF Present, Goto, Threads
    <3> QED
      BY <1>1, <3>1, <3>2, <3>3
  <2>6. /\ \A u \in Threads : pc'[u] \notin RecoveringPcs
        /\ pc'["choreographer"] = label
        /\ pc'["render"] = pc["render"]
    BY <2>4, <2>5 DEF IInv, ControlOK, RecoveringPcs, Threads
  <2> QED
    BY <2>1, <2>3, <2>5, <2>6 DEF BuffersAreFresh
<1>2. CASE ChoreographerQuits
  <2>1. /\ pc["choreographer"] = "top"
        /\ pc' = [pc EXCEPT !["choreographer"] = "gone"]
        /\ UNCHANGED bufferVars
    BY <1>2 DEF ChoreographerQuits, Goto
  <2> QED
    BY <2>1, MoveKeepsFresh DEF Pcs, RecoveringPcs, Threads
<1>3. CASE Recovery("choreographer")
  BY <1>3, RecoveryFresh DEF Threads
<1> QED
  BY <1>1, <1>2, <1>3 DEF ChoreographerThread

LEMMA OthersFresh ==
    ASSUME BufferInv, ~stopping,
           \/ StartChoreographer
           \/ StartInput
           \/ \E p \in Stoppers : PrepareMarks(p) \/ Prepares(p)
           \/ Cleanup
           \/ SetHdrMode
           \/ HdrWantsRestart
           \/ UNCHANGED vars
    PROVE  BuffersAreFresh'
<1>1. UNCHANGED bufferVars
  BY DEF StartChoreographer, StartInput, PrepareMarks, Prepares,
         PrepareInterrupts, PrepareClears, PreparePostsQuit, Cleanup,
         SetHdrMode, HdrWantsRestart, vars
<1>2. CASE StartInput
  <2>1. pc["input"] = "unborn" /\ pc' = [pc EXCEPT !["input"] = "top"]
    BY <1>2 DEF StartInput, Goto
  <2> QED
    BY <1>1, <2>1, MoveKeepsFresh DEF Pcs, RecoveringPcs, Threads
<1>3. CASE ~StartInput
  <2>1. UNCHANGED pc
    BY <1>3 DEF StartChoreographer, PrepareMarks, Prepares, BufferInv, IInv,
                PrepareInterrupts, PrepareClears, PreparePostsQuit, Cleanup,
                SetHdrMode, HdrWantsRestart, vars
  <2> QED
    BY <1>1, <2>1 DEF BufferInv, BuffersAreFresh, bufferVars
<1> QED
  BY <1>2, <1>3

LEMMA NextFresh == BufferInv /\ [Next]_vars => BufferInv'
<1> SUFFICES ASSUME BufferInv, [Next]_vars PROVE BufferInv'
  OBVIOUS
<1>1. IInv' /\ RecoveryIsExclusive'
  <2>1. IInv'
    BY NextIInv DEF BufferInv
  <2>2. IInv' => RecoveryIsExclusive'
    BY ExclusiveFromIInv, PTL
  <2> QED
    BY <2>1, <2>2
<1>2. CASE stopping
  <2>1. stopping'
    BY <1>2, StoppingStays DEF BufferInv
  <2> QED
    BY <1>1, <2>1 DEF BufferInv, BuffersAreFresh
<1>3. CASE ~stopping
  BY <1>1, <1>3, InputFresh, RenderFresh, ChoreographerFresh, OthersFresh
     DEF Next, BufferInv
<1> QED
  BY <1>2, <1>3

LEMMA FreshNotStale == BufferInv => NoStaleBuffer
<1> SUFFICES ASSUME BufferInv, ~stopping
             PROVE  /\ nextInputBuffer # "stale"
                    /\ inHand # "stale"
                    /\ \A i \in DOMAIN outputBufferQueue :
                           outputBufferQueue[i] # "stale"
  BY DEF NoStaleBuffer
<1>1. outputBufferQueue \in Seq({"fresh"})
  BY DEF BufferInv, BuffersAreFresh
<1>2. \A i \in DOMAIN outputBufferQueue : outputBufferQueue[i] = "fresh"
  BY <1>1
<1> QED
  BY <1>2 DEF BufferInv, BuffersAreFresh

\* No thread ever queues to, or releases, a buffer index that belongs to a
\* codec from before a restart, a reset or a re-creation.
THEOREM BuffersBelongToCodec ==
    ASSUME ChoreographerIsThere PROVE Spec => []NoStaleBuffer
<1>1. Init => BufferInv
  BY InitIInv, InitFresh, ExclusiveFromIInv DEF BufferInv
<1>2. BufferInv /\ [Next]_vars => BufferInv'
  BY NextFresh
<1>3. BufferInv => NoStaleBuffer
  BY FreshNotStale
<1> QED
  BY <1>1, <1>2, <1>3, PTL DEF Spec

(***************************************************************************)
(* Parameter sets.  A recovery makes the codec forget them, and it can     *)
(* only do so while the input thread waits for it or performs it: that     *)
(* thread then drops its frame, and asks for an IDR frame.                 *)
(***************************************************************************)
\* Where the input thread has no frame to queue.
BetweenFrames == {"unborn", "top", "gone"}

\* A frame is being queued exactly while the thread is not between two, and
\* while none is awaited.
InputOK ==
    /\ todo \in {<<>>, <<"frame">>, <<"csd", "frame">>, <<"sps", "frame">>}
    /\ pc["input"] \in BetweenFrames <=> todo = <<>>
    /\ todo # <<>> => ~awaitingIdr

\* The input thread is about to learn of a recovery.
InputIsAway == pc["input"] \in {"absent", "waiting"} \cup RecoveringPcs

ParameterSetsKnown ==
    \/ stopping \/ InputIsAway \/ awaitingIdr
    \/ submittedCsd \/ todo = <<"csd", "frame">>

CsdInv == IInv /\ RecoveryIsExclusive /\ InputOK /\ ParameterSetsKnown

LEMMA InitCsd == Init => InputOK /\ ParameterSetsKnown
BY DEF Init, InputOK, BetweenFrames, ParameterSetsKnown, Threads

LEMMA TodoFacts ==
    /\ <<"frame">> # <<>> /\ Len(<<"frame">>) = 1
    /\ Head(<<"frame">>) = "frame" /\ Tail(<<"frame">>) = <<>>
    /\ \A what \in {"csd", "sps"} :
          /\ <<what, "frame">> # <<>> /\ <<what, "frame">> # <<"frame">>
          /\ Len(<<what, "frame">>) = 2
          /\ Head(<<what, "frame">>) = what /\ Tail(<<what, "frame">>) = <<"frame">>
    /\ <<"sps", "frame">> # <<"csd", "frame">>
OBVIOUS

\* The input thread is where it was, or has moved on within its frame.
LEMMA InputKeepsCsd ==
    ASSUME CsdInv, stopping => stopping',
           UNCHANGED <<todo, submittedCsd, awaitingIdr>>,
           \/ pc'["input"] = pc["input"]
           \/ /\ ~InputIsAway
              /\ pc["input"] \in BetweenFrames <=> pc'["input"] \in BetweenFrames
           \/ pc["input"] \in RecoveringPcs /\ pc'["input"] \in RecoveringPcs
    PROVE  InputOK' /\ ParameterSetsKnown'
BY DEF CsdInv, InputOK, BetweenFrames, ParameterSetsKnown, InputIsAway,
       RecoveringPcs

\* What was queued counts, and what is left of the frame can be queued.
LEMMA CallSucceedsCsd ==
    ASSUME CsdInv, stopping => stopping', CallSucceeds,
           pc["input"] \in {"codec", "check"}
    PROVE  InputOK' /\ ParameterSetsKnown'
<1>1. todo \in {<<"frame">>, <<"csd", "frame">>, <<"sps", "frame">>}
  BY DEF CsdInv, InputOK, BetweenFrames
<1>2. UNCHANGED awaitingIdr /\ ~awaitingIdr
  BY <1>1, TodoFacts DEF CallSucceeds, CsdInv, InputOK
<1>3. ~InputIsAway
  BY DEF InputIsAway, RecoveringPcs
<1>4. CASE step # "prefetch"
  <2>1. /\ UNCHANGED todo
        /\ submittedCsd => submittedCsd'
        /\ pc' = [pc EXCEPT !["input"] = "codec"]
    BY <1>4 DEF CallSucceeds, Goto
  <2>2. pc'["input"] = "codec"
    BY <2>1 DEF CsdInv, IInv, ControlOK, Threads
  <2> QED
    BY <1>1, <1>2, <1>3, <2>1, <2>2, TodoFacts
       DEF CsdInv, InputOK, BetweenFrames, ParameterSetsKnown
<1>5. CASE step = "prefetch" /\ todo \in {<<"csd", "frame">>, <<"sps", "frame">>}
  <2>1. /\ todo' \in {<<"frame">>, <<"sps", "frame">>}
        /\ submittedCsd \/ todo = <<"csd", "frame">> => submittedCsd'
    BY <1>5, TodoFacts DEF CallSucceeds
  <2>2. Len(todo) # 1
    BY <1>5, TodoFacts
  <2>3. pc' = [pc EXCEPT !["input"] = "codec"]
    BY <2>2 DEF CallSucceeds, Goto
  <2>4. pc'["input"] = "codec"
    BY <2>3 DEF CsdInv, IInv, ControlOK, Threads
  <2> QED
    BY <1>2, <1>3, <2>1, <2>4, TodoFacts
       DEF CsdInv, InputOK, BetweenFrames, ParameterSetsKnown
<1>6. CASE step = "prefetch" /\ todo = <<"frame">>
  <2>1. /\ todo' = <<>>
        /\ submittedCsd => submittedCsd'
        /\ pc' = [pc EXCEPT !["input"] = "top"]
    BY <1>6, TodoFacts DEF CallSucceeds, Goto
  <2>2. pc'["input"] = "top"
    BY <2>1 DEF CsdInv, IInv, ControlOK, Threads
  <2> QED
    BY <1>2, <1>3, <1>6, <2>1, <2>2, TodoFacts
       DEF CsdInv, InputOK, BetweenFrames, ParameterSetsKnown
<1> QED
  BY <1>1, <1>4, <1>5, <1>6

\* A thread returns from doCodecRecoveryIfRequired: the input thread has
\* learnt of the recovery, or there was none while it was looking.
LEMMA ReturnsCsd ==
    ASSUME CsdInv, stopping => stopping', NEW t \in Threads,
           NEW recovered \in BOOLEAN, Returns(t, recovered),
           ~recovered => pc[t] = "check"
    PROVE  InputOK' /\ ParameterSetsKnown'
<1>1. CASE t # "input"
  <2>1. UNCHANGED <<todo, submittedCsd, awaitingIdr>>
    BY <1>1 DEF Returns, inputVars, streamVars
  <2>2. pc'["input"] = pc["input"]
    BY <1>1 DEF Returns, Goto, CsdInv, IInv, ControlOK, Threads
  <2> QED
    BY <2>1, <2>2, InputKeepsCsd
<1>2. CASE t = "input" /\ (recovered \/ ~callOk)
  <2>1. /\ todo' = <<>>
        /\ awaitingIdr' = TRUE
        /\ pc' = [pc EXCEPT !["input"] = "top"]
    BY <1>2 DEF Returns, InputReturns, Goto
  <2>2. pc'["input"] = "top"
    BY <2>1 DEF CsdInv, IInv, ControlOK, Threads
  <2> QED
    BY <2>1, <2>2 DEF InputOK, BetweenFrames, ParameterSetsKnown
<1>3. CASE t = "input" /\ ~(recovered \/ ~callOk)
  BY <1>3, CallSucceedsCsd DEF Returns, InputReturns
<1> QED
  BY <1>1, <1>2, <1>3

\* A thread moves, and nothing but its place changes of what matters here.
LEMMA MoveKeepsCsd ==
    ASSUME CsdInv, stopping => stopping', NEW t \in Threads, NEW label \in Pcs,
           pc' = [pc EXCEPT ![t] = label],
           UNCHANGED <<todo, submittedCsd, awaitingIdr>>,
           \/ t # "input"
           \/ /\ pc[t] \notin {"absent", "waiting"} \cup RecoveringPcs
              /\ pc[t] \in BetweenFrames <=> label \in BetweenFrames
           \/ pc[t] \in RecoveringPcs /\ label \in RecoveringPcs
    PROVE  InputOK' /\ ParameterSetsKnown'
<1>1. pc'["input"] = IF t = "input" THEN label ELSE pc["input"]
  BY DEF CsdInv, IInv, ControlOK, Threads
<1>2. CASE t # "input"
  BY <1>1, <1>2, InputKeepsCsd
<1>3. CASE t = "input"
  BY <1>1, <1>3, InputKeepsCsd DEF InputIsAway
<1> QED
  BY <1>2, <1>3

\* The codec forgets its parameter sets, and the input thread is away.
LEMMA ConfiguredCsd ==
    ASSUME CsdInv, NEW t \in Threads, Configured(t)
    PROVE  InputOK' /\ ParameterSetsKnown'
<1>1. /\ pc[t] \in RecoveringPcs
      /\ pc' = [pc EXCEPT ![t] = "finish"]
      /\ UNCHANGED <<todo, awaitingIdr, stopping>>
  BY DEF Configured, ConfigureAndStart, Goto, RecoveringPcs, inputVars
<1>2. pc'["input"] = IF t = "input" THEN "finish" ELSE pc["input"]
  BY <1>1 DEF CsdInv, IInv, ControlOK, Threads
<1>3. InputOK'
  BY <1>1, <1>2 DEF CsdInv, InputOK, BetweenFrames, RecoveringPcs
<1>4. ASSUME ~stopping PROVE InputIsAway'
  <2>1. t # "input" => pc["input"] \in {"waiting", "absent"}
    BY <1>1, <1>4 DEF CsdInv, RecoveryIsExclusive, Threads
  <2> QED
    BY <1>2, <2>1 DEF InputIsAway, RecoveringPcs
<1> QED
  BY <1>1, <1>3, <1>4 DEF ParameterSetsKnown

LEMMA RecoveryCsd ==
    ASSUME CsdInv, stopping => stopping', NEW t \in Threads,
           Recovery(t)
    PROVE  InputOK' /\ ParameterSetsKnown'
<1>1. CASE WantRecovery(t) \/ PromoteRecovery(t)
  <2>1. /\ pc[t] \in FailedPcs
        /\ UNCHANGED <<todo, submittedCsd, awaitingIdr>>
    BY <1>1 DEF WantRecovery, PromoteRecovery, FailedPcs, inputVars, streamVars
  <2>2. PICK label \in {"upscaling", "check", "promoteRestart",
                        "promoteReset"} : pc' = [pc EXCEPT ![t] = label]
    BY <1>1 DEF WantRecovery, PromoteRecovery, Exhausted, Goto, AfterCall
  <2> QED
    BY <2>1, <2>2, MoveKeepsCsd
       DEF Pcs, FailedPcs, RecoveringPcs, BetweenFrames
<1>2. CASE Check(t)
  <2>1. CASE codecRecoveryType = "none"
    BY <1>2, <2>1, ReturnsCsd DEF Check
  <2>2. CASE codecRecoveryType # "none"
    <3>1. /\ pc[t] = "check"
          /\ pc' = [pc EXCEPT ![t] = "enter"]
          /\ UNCHANGED <<todo, submittedCsd, awaitingIdr>>
      BY <1>2, <2>2 DEF Check, Goto, inputVars, streamVars
    <3> QED
      BY <3>1, MoveKeepsCsd DEF Pcs, RecoveringPcs, BetweenFrames
  <2> QED
    BY <2>1, <2>2
<1>3. CASE EnterToWait(t)
  <2>1. CASE codecRecoveryType = "none"
    BY <1>3, <2>1, ReturnsCsd DEF EnterToWait
  <2>2. CASE codecRecoveryType # "none"
    <3>1. /\ pc[t] = "enter"
          /\ pc' = [pc EXCEPT ![t] = "waiting"]
          /\ UNCHANGED <<todo, submittedCsd, awaitingIdr>>
      BY <1>3, <2>2 DEF EnterToWait, Goto, inputVars, streamVars
    <3> QED
      BY <3>1, MoveKeepsCsd DEF Pcs, RecoveringPcs, BetweenFrames
  <2> QED
    BY <2>1, <2>2
<1>4. CASE EnterToRecover(t)
  <2>1. /\ pc[t] = "enter"
        /\ pc' = [pc EXCEPT ![t] = codecRecoveryType]
        /\ codecRecoveryType \in {"restart", "reset"}
        /\ UNCHANGED <<todo, submittedCsd, awaitingIdr>>
    BY <1>4 DEF EnterToRecover, Goto, inputVars, streamVars, CsdInv, IInv,
                ControlOK
  <2> QED
    BY <2>1, MoveKeepsCsd DEF Pcs, RecoveringPcs, BetweenFrames
<1>5. CASE EnterForNothing(t) \/ Finish(t) \/ Wake(t)
  BY <1>5, ReturnsCsd DEF EnterForNothing, Finish, Wake
<1>6. CASE Configured(t)
  BY <1>6, ConfiguredCsd
<1>7. CASE SurfaceInvalid(t) \/ RecoveryFails(t)
  <2>1. /\ pc[t] \in RecoveringPcs
        /\ UNCHANGED <<todo, submittedCsd, awaitingIdr>>
    BY <1>7 DEF SurfaceInvalid, RecoveryFails, RecoveringPcs, inputVars,
                streamVars
  <2>2. CASE UNCHANGED pc
    BY <2>1, <2>2, InputKeepsCsd
  <2>3. CASE ~UNCHANGED pc
    <3>1. PICK label \in RecoveringPcs : pc' = [pc EXCEPT ![t] = label]
      BY <1>7, <2>3 DEF SurfaceInvalid, RecoveryFails, Goto, RecoveringPcs
    <3> QED
      BY <2>1, <3>1, MoveKeepsCsd DEF Pcs
  <2> QED
    BY <2>2, <2>3
<1> QED
  BY <1>1, <1>2, <1>3, <1>4, <1>5, <1>6, <1>7 DEF Recovery

\* A frame that follows no lost one can do without parameter sets only if the
\* codec has them.
LEMMA FrameArrivesCsd ==
    ASSUME CsdInv, FrameArrives
    PROVE  InputOK' /\ ParameterSetsKnown'
<1>1. /\ pc["input"] = "top"
      /\ ~stopping
      /\ awaitingIdr' = FALSE
      /\ UNCHANGED submittedCsd
  BY DEF FrameArrives
<1>2. pc'["input"] = "codec"
  BY DEF FrameArrives, Goto, CsdInv, IInv, ControlOK, Threads
<1>3. ~InputIsAway
  BY <1>1 DEF InputIsAway, RecoveringPcs
<1>4. PICK kind \in {"idr", "p"} :
          /\ awaitingIdr => kind = "idr"
          /\ todo' \in IF kind = "p" THEN {<<"frame">>}
                       ELSE IF submittedCsd
                            THEN {<<"frame">>, <<"csd", "frame">>}
                       ELSE {<<"csd", "frame">>}
  BY DEF FrameArrives
<1>5. todo' \in {<<"frame">>, <<"csd", "frame">>}
  BY <1>4
<1>6. InputOK'
  BY <1>1, <1>2, <1>5, TodoFacts DEF InputOK, BetweenFrames
<1>7. ASSUME todo' = <<"frame">> PROVE submittedCsd
  <2>1. CASE kind = "idr"
    BY <1>4, <1>7, <2>1, TodoFacts
  <2>2. CASE kind = "p"
    <3>1. ~awaitingIdr
      BY <1>4, <2>2
    <3>2. todo # <<"csd", "frame">>
      BY <1>1, TodoFacts DEF CsdInv, InputOK, BetweenFrames
    <3> QED
      BY <1>1, <1>3, <3>1, <3>2 DEF CsdInv, ParameterSetsKnown
  <2> QED
    BY <2>1, <2>2
<1> QED
  BY <1>1, <1>5, <1>6, <1>7 DEF ParameterSetsKnown

LEMMA InputCsd ==
    ASSUME CsdInv, stopping => stopping', InputThread
    PROVE  InputOK' /\ ParameterSetsKnown'
<1>1. CASE FrameArrives
  BY <1>1, FrameArrivesCsd
<1>2. CASE BufferAtHand
  BY <1>2, CallSucceedsCsd DEF BufferAtHand
<1>3. CASE FetchBuffer \/ QueueBuffer
  <2>1. /\ pc["input"] = "codec"
        /\ UNCHANGED <<todo, submittedCsd, awaitingIdr>>
    BY <1>3 DEF FetchBuffer, QueueBuffer, streamVars
  <2>2. PICK label \in {"upscaling", "check", "wantRestart", "wantReset"} :
            pc' = [pc EXCEPT !["input"] = label]
    BY <1>3, ThrowsGoto DEF FetchBuffer, QueueBuffer, Goto, Threads
  <2> QED
    BY <2>1, <2>2, MoveKeepsCsd
       DEF Pcs, FailedPcs, RecoveringPcs, BetweenFrames, Threads
<1>4. CASE InputLeaves
  <2>1. /\ pc["input"] = "top"
        /\ pc' = [pc EXCEPT !["input"] = "gone"]
        /\ UNCHANGED <<todo, submittedCsd, awaitingIdr>>
    BY <1>4 DEF InputLeaves, Goto, inputVars, streamVars
  <2> QED
    BY <2>1, MoveKeepsCsd DEF Pcs, RecoveringPcs, BetweenFrames, Threads
<1>5. CASE Recovery("input")
  BY <1>5, RecoveryCsd DEF Threads
<1> QED
  BY <1>1, <1>2, <1>3, <1>4, <1>5 DEF InputThread

\* The other threads do not touch the frame outside of a recovery.
LEMMA OthersCsd ==
    ASSUME CsdInv, stopping => stopping',
           \/ RenderThread
           \/ ChoreographerThread
           \/ StartChoreographer
           \/ StartInput
           \/ \E p \in Stoppers : PrepareMarks(p) \/ Prepares(p)
           \/ Cleanup
           \/ SetHdrMode
           \/ HdrWantsRestart
           \/ UNCHANGED vars
    PROVE  InputOK' /\ ParameterSetsKnown'
<1>1. CASE Recovery("render") \/ Recovery("choreographer")
  BY <1>1, RecoveryCsd DEF Threads
<1>2. CASE WaitInterrupted
  BY <1>2, ReturnsCsd DEF WaitInterrupted, Threads
<1>3. CASE \/ RenderLoops \/ Dequeue \/ TakeOldest \/ TakeInterrupted
           \/ CheckUpscaling \/ RenderEnds
  <2>1. UNCHANGED <<todo, submittedCsd, awaitingIdr>>
    BY <1>3 DEF RenderLoops, Dequeue, TakeOldest, TakeInterrupted,
                CheckUpscaling, RenderEnds, inputVars, streamVars
  <2>2. \E label : pc' = [pc EXCEPT !["render"] = label]
    BY <1>3, ThrowsGoto DEF RenderLoops, Dequeue, TakeOldest, TakeInterrupted,
                            CheckUpscaling, RenderEnds, Goto, Threads
  <2>3. pc'["input"] = pc["input"]
    BY <2>2 DEF CsdInv, IInv, ControlOK, Threads
  <2> QED
    BY <2>1, <2>3, InputKeepsCsd
<1>4. CASE DoFrame \/ PreferNewer \/ Present \/ ChoreographerQuits
  <2>1. UNCHANGED <<todo, submittedCsd, awaitingIdr>>
    BY <1>4 DEF DoFrame, PreferNewer, Present, ChoreographerQuits, inputVars,
                streamVars
  <2>2. UNCHANGED pc \/ \E label : pc' = [pc EXCEPT !["choreographer"] = label]
    BY <1>4, ThrowsGoto DEF DoFrame, PreferNewer, Present, ChoreographerQuits,
                            Goto, Threads
  <2>3. pc'["input"] = pc["input"]
    BY <2>2 DEF CsdInv, IInv, ControlOK, Threads
  <2> QED
    BY <2>1, <2>3, InputKeepsCsd
<1>5. CASE StartInput
  <2>1. /\ pc["input"] = "unborn"
        /\ pc' = [pc EXCEPT !["input"] = "top"]
        /\ UNCHANGED <<todo, submittedCsd, awaitingIdr>>
    BY <1>5 DEF StartInput, Goto, inputVars, streamVars
  <2> QED
    BY <2>1, MoveKeepsCsd DEF Pcs, RecoveringPcs, BetweenFrames, Threads
<1>6. CASE \/ StartChoreographer
           \/ \E p \in Stoppers : PrepareMarks(p) \/ Prepares(p)
           \/ Cleanup
           \/ SetHdrMode
           \/ HdrWantsRestart
           \/ UNCHANGED vars
  <2>1. UNCHANGED <<pc, todo, submittedCsd, awaitingIdr>>
    BY <1>6 DEF StartChoreographer, PrepareMarks, Prepares, PrepareInterrupts,
                PrepareClears, PreparePostsQuit, Cleanup, SetHdrMode,
                HdrWantsRestart, vars, inputVars, streamVars, CsdInv, IInv
  <2> QED
    BY <2>1, InputKeepsCsd
<1> QED
  BY <1>1, <1>2, <1>3, <1>4, <1>5, <1>6 DEF RenderThread, ChoreographerThread

LEMMA NextCsd == CsdInv /\ [Next]_vars => CsdInv'
<1> SUFFICES ASSUME CsdInv, [Next]_vars PROVE CsdInv'
  OBVIOUS
<1>1. IInv' /\ RecoveryIsExclusive'
  <2>1. IInv'
    BY NextIInv DEF CsdInv
  <2>2. IInv' => RecoveryIsExclusive'
    BY ExclusiveFromIInv, PTL
  <2> QED
    BY <2>1, <2>2
<1>2. stopping => stopping'
  BY StoppingStays DEF CsdInv
<1>3. InputOK' /\ ParameterSetsKnown'
  BY <1>2, InputCsd, OthersCsd DEF Next
<1> QED
  BY <1>1, <1>3 DEF CsdInv

\* A frame is never queued to a codec that lacks its parameter sets: not after
\* the start, nor after any recovery, whichever thread performed it and
\* wherever the input thread was when it was asked for.
THEOREM ParameterSetsFirst ==
    ASSUME ChoreographerIsThere PROVE Spec => []ParameterSetsComeFirst
<1>1. Init => CsdInv
  BY InitIInv, InitCsd, ExclusiveFromIInv DEF CsdInv
<1>2. CsdInv /\ [Next]_vars => CsdInv'
  BY NextCsd
<1>3. CsdInv => ParameterSetsComeFirst
  <2> SUFFICES ASSUME CsdInv, ~stopping, pc["input"] = "codec",
                      todo \in {<<"frame">>, <<"sps", "frame">>}
               PROVE  submittedCsd
    BY DEF ParameterSetsComeFirst
  <2> QED
    BY TodoFacts
       DEF CsdInv, InputOK, ParameterSetsKnown, InputIsAway, RecoveringPcs
<1> QED
  BY <1>1, <1>2, <1>3, PTL DEF Spec
=============================================================================
