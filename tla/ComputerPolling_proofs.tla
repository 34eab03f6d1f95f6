----------------------- MODULE ComputerPolling_proofs -----------------------
(***************************************************************************)
(* That the references to the database balance, that no second thread      *)
(* polls the PC and that a pinned certificate stays: for any number of     *)
(* threads, entries, adders and events.                                    *)
(*                                                                         *)
(* The count is never negative because it is the number of those who hold  *)
(* a reference, so the types and the balance are one induction.            *)
(***************************************************************************)
EXTENDS ComputerPolling, FiniteSetTheorems, TLAPS

\* What is made later is fresh, so that a new entry cannot take a certificate away.
EntriesAreFresh ==
    /\ pollingTuple <= tuples
    /\ \A tu \in Tuples : tu > tuples => computer[tu].cert = FALSE

IInv == TypeOK /\ ReferencesBalance /\ OneThreadGoesOn /\ EntriesAreFresh

-----------------------------------------------------------------------------
(* Counting *)

LEMMA PollersAreFinite == IsFiniteSet(Pollers)
<1>1. IsFiniteSet(1 .. MaxThreads)
  BY ComputerPollingAssumption, FS_Interval
<1> QED
  BY <1>1, ComputerPollingAssumption, FS_Union DEF Pollers, PollThreads

LEMMA CountedIsFinite == IsFiniteSet(Counted) /\ Cardinality(Counted) \in Nat
BY PollersAreFinite, FS_Subset, FS_CardinalityType DEF Counted

LEMMA CountedIsFiniteNext == IsFiniteSet(Counted') /\ Cardinality(Counted') \in Nat
BY PollersAreFinite, FS_Subset, FS_CardinalityType DEF Counted

Holding == {"asking", "reading", "writing", "notify"}

\* p goes from one step to another, and with or without a reference all the time.
LEMMA CountStays ==
    ASSUME \A p \in Pollers : pc'[p] \in Holding <=> pc[p] \in Holding
    PROVE  Counted' = Counted
BY DEF Counted, Holding

LEMMA CountGrows ==
    ASSUME NEW p \in Pollers, pc[p] \notin Holding, pc'[p] \in Holding,
           \A q \in Pollers \ {p} : pc'[q] = pc[q]
    PROVE  Cardinality(Counted') = Cardinality(Counted) + 1
<1>1. Counted' = Counted \cup {p} /\ p \notin Counted
  BY DEF Counted, Holding
<1> QED
  BY <1>1, CountedIsFinite, FS_AddElement

LEMMA CountShrinks ==
    ASSUME NEW p \in Pollers, pc[p] \in Holding, pc'[p] \notin Holding,
           \A q \in Pollers \ {p} : pc'[q] = pc[q]
    PROVE  Cardinality(Counted') = Cardinality(Counted) - 1
<1>1. Counted' = Counted \ {p} /\ p \in Counted
  BY DEF Counted, Holding
<1> QED
  BY <1>1, CountedIsFinite, FS_RemoveElement

-----------------------------------------------------------------------------
(* The balance *)

\* Nobody takes or releases a reference, and the UI thread none of its own.
LEMMA BalanceStays ==
    ASSUME ReferencesBalance, UNCHANGED <<dbRefCount, dbClosed>>,
           Counted' = Counted,
           uiPc' = uiPc \/ {uiPc, uiPc'} \cap {"removing", "over"} = {}
    PROVE  ReferencesBalance'
BY DEF ReferencesBalance

LEMMA PollerTakes ==
    ASSUME ReferencesBalance, NEW p \in Pollers, pc[p] = "count",
           pc' = [pc EXCEPT ![p] = "asking"], TypeOK,
           dbRefCount' = dbRefCount + 1, UNCHANGED <<dbClosed, uiPc>>
    PROVE  ReferencesBalance' /\ dbRefCount' \in Nat
<1>1. Cardinality(Counted') = Cardinality(Counted) + 1
  BY CountGrows DEF TypeOK, Holding
<1> QED
  BY <1>1, CountedIsFinite DEF ReferencesBalance, TypeOK

LEMMA PollerReleases ==
    ASSUME ReferencesBalance, NEW p \in Pollers, pc[p] \in Holding, NEW to,
           to \notin Holding, pc' = [pc EXCEPT ![p] = to], TypeOK,
           ReleaseReference, UNCHANGED uiPc
    PROVE  ReferencesBalance' /\ dbRefCount' \in Nat /\ dbClosed' \in BOOLEAN
<1>1. Cardinality(Counted') = Cardinality(Counted) - 1
  BY CountShrinks DEF TypeOK
<1>2. Cardinality(Counted) \in Nat /\ Cardinality(Counted') \in Nat
  BY CountedIsFinite, CountedIsFiniteNext
<1>3. dbRefCount' = Cardinality(Counted')
                      + (IF uiPc' = "removing" THEN 1 ELSE 0)
                      + (IF uiPc' = "over" THEN 0 ELSE 1)
  BY <1>1, <1>2 DEF ReferencesBalance, ReleaseReference
<1>4. dbRefCount = 1 => uiPc = "over"
  BY <1>1, <1>2 DEF ReferencesBalance
<1>5. dbClosed' => uiPc' = "over"
  BY <1>4, Zenon DEF ReferencesBalance, ReleaseReference
<1>6. dbRefCount' = 0 => dbRefCount = 1
  BY DEF ReleaseReference, TypeOK
<1>7. dbRefCount' = 0 => dbClosed'
  BY <1>6, Zenon DEF ReleaseReference
<1>8. dbClosed' \in BOOLEAN
  BY Zenon DEF ReleaseReference
<1> QED
  BY <1>2, <1>3, <1>5, <1>7, <1>8 DEF ReferencesBalance

-----------------------------------------------------------------------------
(* Details, entries and threads *)

CertsKept == \A tu \in Tuples : computer[tu].cert => computer'[tu].cert

LEMMA DetailsAre ==
    /\ Polled \in Details /\ Polled.cert = FALSE
    /\ \A b \in BOOLEAN : Fresh(b) \in Details /\ Fresh(b).cert = b
BY DEF Polled, Details, Fresh

LEMMA UpdatedIs ==
    ASSUME NEW c \in Details, NEW d \in Details
    PROVE  Updated(c, d) \in Details /\ Updated(c, d).cert = (c.cert \/ d.cert)
<1>1. d.cert \in BOOLEAN /\ c.cert \in BOOLEAN
  BY DEF Details
<1> DEFINE b == c.cert \/ d.cert
<1>2. b \in BOOLEAN
  BY <1>1
<1> HIDE DEF b
<1>3. [d EXCEPT !.cert = b] \in Details /\ [d EXCEPT !.cert = b].cert = b
  BY <1>2 DEF Details
<1> QED
  BY <1>3, Zenon DEF Updated, b

\* The details of one poller or entry change, and its certificate does not.
LEMMA DetailsChange ==
    ASSUME TypeOK, EntriesAreFresh, UNCHANGED <<pollingTuple, tuples>>,
           NEW o \in Tuples \cup Adders, NEW d \in Details,
           computer' = [computer EXCEPT ![o] = d],
           d.cert = computer[o].cert \/ o \in Adders
    PROVE  /\ computer' \in [Tuples \cup Adders -> Details]
           /\ EntriesAreFresh'
           /\ CertsKept
<1>1. computer' \in [Tuples \cup Adders -> Details]
  BY DEF TypeOK
<1>2. \A tu \in Tuples : computer'[tu].cert = computer[tu].cert
  BY ComputerPollingAssumption DEF TypeOK
<1>3. EntriesAreFresh'
  BY <1>2 DEF EntriesAreFresh
<1> QED
  BY <1>1, <1>2, <1>3 DEF CertsKept

LEMMA DetailsStay ==
    ASSUME TypeOK, EntriesAreFresh, UNCHANGED <<pollingTuple, tuples, computer>>
    PROVE  EntriesAreFresh' /\ CertsKept
BY DEF EntriesAreFresh, CertsKept

\* No thread is made, and none interrupted.
LEMMA ThreadsStay ==
    ASSUME OneThreadGoesOn, UNCHANGED <<pollingTuple, thread, of, interrupted>>,
           \A k \in PollThreads : pc'[k] \notin {"unborn", "gone"}
                                    => pc[k] \notin {"unborn", "gone"}
    PROVE  OneThreadGoesOn'
BY DEF OneThreadGoesOn, Live

LEMMA PollerStays ==
    ASSUME OneThreadGoesOn, TypeOK, UNCHANGED <<pollingTuple, thread, of, interrupted>>,
           NEW p \in Pollers, NEW to, pc' = [pc EXCEPT ![p] = to],
           p \in PollThreads => pc[p] \notin {"unborn", "gone"}
    PROVE  OneThreadGoesOn'
BY ThreadsStay DEF TypeOK

\* The entry's thread is interrupted: nobody goes on.
LEMMA ThreadStops ==
    ASSUME OneThreadGoesOn, TypeOK, StopThread, UNCHANGED <<of, pc>>
    PROVE  /\ OneThreadGoesOn'
           /\ thread' \in [Tuples -> PollThreads \cup {Nobody}]
           /\ interrupted' \in [PollThreads -> BOOLEAN]
<1>1. \A k \in PollThreads : ~Live(k)'
  <2>1. CASE pollingTuple = Nobody
    BY <2>1 DEF OneThreadGoesOn, Live, StopThread, TypeOK, Tuples, Nobody
  <2>2. CASE pollingTuple # Nobody
    <3>1. \A k \in PollThreads :
            ~interrupted'[k] => ~interrupted[k] /\ k # thread[pollingTuple]
      BY <2>2, Zenon DEF StopThread, InterruptThread
    <3> QED
      BY <3>1, Zenon DEF OneThreadGoesOn, Live
  <2> QED
    BY <2>1, <2>2
<1>2. thread' \in [Tuples -> PollThreads \cup {Nobody}]
  BY DEF TypeOK, StopThread, InterruptThread
<1>3. interrupted' \in [PollThreads -> BOOLEAN]
  BY DEF TypeOK, StopThread, InterruptThread
<1> QED
  BY <1>1, <1>2, <1>3 DEF OneThreadGoesOn

\* The entry, which had no thread, gets one.
LEMMA ThreadStarts ==
    ASSUME OneThreadGoesOn, TypeOK, NEW tu \in Tuples, NEW k \in PollThreads,
           NewThread(tu, k), UNCHANGED interrupted,
           pollingTuple' = tu,
           pollingTuple = Nobody \/ (pollingTuple = tu /\ thread[tu] = Nobody),
           \A j \in PollThreads \ {k} : pc'[j] = pc[j]
    PROVE  /\ OneThreadGoesOn'
           /\ thread' \in [Tuples -> PollThreads \cup {Nobody}]
           /\ of' \in [PollThreads -> Tuples]
<1>1. \A j \in PollThreads : ~Live(j)
  BY DEF OneThreadGoesOn, Live, TypeOK, Tuples, Nobody, PollThreads
<1>2. \A j \in PollThreads : Live(j)' => j = k
  BY <1>1 DEF Live
<1>3. of'[k] = tu /\ thread'[tu] = k
  BY DEF NewThread, TypeOK
<1>4. thread' \in [Tuples -> PollThreads \cup {Nobody}]
  BY DEF NewThread, TypeOK
<1>5. of' \in [PollThreads -> Tuples]
  BY DEF NewThread, TypeOK
<1> QED
  BY <1>2, <1>3, <1>4, <1>5 DEF OneThreadGoesOn

-----------------------------------------------------------------------------
(* The first state, and every step *)

LEMMA FirstState == Init => IInv
<1> SUFFICES ASSUME Init PROVE IInv
  OBVIOUS
<1> USE ComputerPollingAssumption
<1>1. 1 \in Tuples /\ pollingTuple \in Tuples \cup {Nobody} /\ tuples \in 0 .. MaxTuples
  BY DEF Init, Tuples, Nobody
<1>2. \A o \in Tuples \cup Adders :
        /\ computer[o] \in Details
        /\ computer[o].cert = (o = pollingTuple /\ db = "pinned")
  BY DetailsAre DEF Init
<1>3. computer \in [Tuples \cup Adders -> Details]
  BY <1>2 DEF Init
<1>4. TypeOK
  <2>1. db \in {"gone", "plain", "pinned"} /\ 0 \in 0 .. OFFLINE_POLL_TRIES
    BY DEF Init
  <2>2. /\ pc \in [Pollers -> InPoll \cup {"unborn", "loop", "lock", "adding", "gone"}]
        /\ tries \in [Pollers -> {0, INITIAL_POLL_TRIES, OFFLINE_POLL_TRIES}]
        /\ existing \in [Pollers -> {"gone", "plain", "pinned"}]
    BY DEF Init
  <2>3. /\ thread \in [Tuples -> PollThreads \cup {Nobody}]
        /\ of \in [PollThreads -> Tuples]
        /\ interrupted \in [PollThreads -> BOOLEAN]
        /\ offlineCount \in [PollThreads -> 0 .. OFFLINE_POLL_TRIES]
    BY <1>1, <2>1 DEF Init
  <2>4. /\ pollingActive \in BOOLEAN /\ listener \in BOOLEAN /\ dbClosed \in BOOLEAN
        /\ destroyed \in BOOLEAN /\ crashed \in BOOLEAN
        /\ runningPolling \in BOOLEAN /\ reachable \in BOOLEAN
    BY Zenon DEF Init
  <2>5. /\ dbRefCount \in Nat /\ events \in 0 .. MaxEvents
        /\ screen = "none" /\ uiPc = "idle" /\ pairPc = "idle" /\ netPc = "idle"
    BY DEF Init
  <2> QED
    BY <1>1, <1>3, <2>1, <2>2, <2>3, <2>4, <2>5 DEF TypeOK
<1>5. Counted = {}
  BY DEF Init, Counted
<1>6. Cardinality(Counted) = 0
  BY <1>5, FS_EmptySet
<1>7. ReferencesBalance
  BY <1>6 DEF Init, ReferencesBalance
<1>8. OneThreadGoesOn
  BY DEF Init, OneThreadGoesOn, Live, Pollers
<1>9. EntriesAreFresh
  <2>1. pollingTuple <= tuples
    BY <1>1 DEF Init, Nobody
  <2>2. \A tu \in Tuples : tu > tuples => tu # pollingTuple
    BY DEF Init, Tuples, Nobody
  <2> QED
    BY <2>1, <2>2, <1>2 DEF EntriesAreFresh
<1> QED
  BY <1>4, <1>7, <1>8, <1>9 DEF IInv

\* What a return from runPoll() comes to.
LEMMA ReturnIs ==
    ASSUME TypeOK, NEW p \in Pollers, NEW modified \in BOOLEAN, Return(p, modified)
    PROVE  /\ \E to \in {"loop", "adding", "unborn"} : pc' = [pc EXCEPT ![p] = to]
           /\ offlineCount' \in [PollThreads -> 0 .. OFFLINE_POLL_TRIES]
<1>1. CASE p \in Adders
  BY <1>1 DEF Return, Goto, TypeOK
<1>2. CASE p \notin Adders
  <2>1. p \in PollThreads
    BY <1>2 DEF Pollers
  <2>2. pc' = [pc EXCEPT ![p] = "loop"]
    BY <1>2 DEF Return, Goto
  <2>3. offlineCount[p] \in 0 .. OFFLINE_POLL_TRIES
    BY <2>1 DEF TypeOK
  <2> DEFINE n == IF modified THEN 0
                  ELSE IF offlineCount[p] < OFFLINE_POLL_TRIES THEN offlineCount[p] + 1
                  ELSE offlineCount[p]
  <2>4. n \in 0 .. OFFLINE_POLL_TRIES
    BY <2>3, ComputerPollingAssumption
  <2>5. offlineCount' = [offlineCount EXCEPT ![p] = n]
    BY <1>2 DEF Return
  <2> HIDE DEF n
  <2>6. offlineCount' \in [PollThreads -> 0 .. OFFLINE_POLL_TRIES]
    BY <2>1, <2>4, <2>5 DEF TypeOK
  <2> QED
    BY <2>2, <2>6
<1> QED
  BY <1>1, <1>2

LEMMA ForgetPollIs ==
    ASSUME TypeOK, NEW p \in Pollers, ForgetPoll(p)
    PROVE  /\ tries' \in [Pollers -> {0, INITIAL_POLL_TRIES, OFFLINE_POLL_TRIES}]
           /\ existing' \in [Pollers -> {"gone", "plain", "pinned"}]
BY DEF ForgetPoll, TypeOK

LEMMA ObjectIs ==
    ASSUME TypeOK, NEW p \in Pollers
    PROVE  Object(p) \in Tuples \cup Adders /\ computer[Object(p)] \in Details
BY DEF Object, TypeOK, Pollers

LEMMA ThreadsArePollers == \A k \in PollThreads : k \in Pollers /\ k \notin Adders
BY ComputerPollingAssumption DEF Pollers

LEMMA LoopStep ==
    ASSUME IInv, NEW k \in PollThreads, Loop(k) PROVE IInv' /\ CertsKept
<1> USE DEF serviceVars, dbVars, pollerVars, pollVars, uiVars, worldVars, otherVars
<1>t. TypeOK'
  BY ThreadsArePollers, ComputerPollingAssumption DEF IInv, TypeOK, InPoll, Loop, Goto
<1>1. Counted' = Counted
  BY CountStays, ThreadsArePollers DEF IInv, TypeOK, Loop, Goto, Holding
<1>r. ReferencesBalance'
  BY <1>1, BalanceStays DEF IInv, Loop
<1>o. OneThreadGoesOn'
  BY ThreadsStay DEF IInv, TypeOK, Loop, Goto, Pollers
<1>e. EntriesAreFresh' /\ CertsKept
  BY DetailsStay DEF IInv, Loop
<1> QED
  BY <1>t, <1>r, <1>o, <1>e DEF IInv

LEMMA LockStep ==
    ASSUME IInv, NEW p \in Pollers, Lock(p) PROVE IInv' /\ CertsKept
<1> USE DEF serviceVars, dbVars, pollerVars, pollVars, uiVars, worldVars, otherVars
<1>1. \E to \in {"loop", "adding", "unborn", "count"} : pc' = [pc EXCEPT ![p] = to]
  BY ReturnIs DEF IInv, Lock, Goto
<1>2. offlineCount' \in [PollThreads -> 0 .. OFFLINE_POLL_TRIES]
  BY ReturnIs DEF IInv, Lock, TypeOK
<1>p. pc' \in [Pollers -> InPoll \cup {"unborn", "loop", "lock", "adding", "gone"}]
  BY <1>1 DEF IInv, TypeOK, InPoll
<1>t. TypeOK'
  BY <1>p, <1>2 DEF IInv, TypeOK, Lock
<1>3. Counted' = Counted
  BY <1>1, CountStays DEF IInv, TypeOK, Lock, Holding
<1>r. ReferencesBalance'
  BY <1>3, BalanceStays DEF IInv, Lock
<1>o. OneThreadGoesOn'
  BY <1>1, PollerStays DEF IInv, Lock
<1>e. EntriesAreFresh' /\ CertsKept
  BY DetailsStay DEF IInv, Lock
<1> QED
  BY <1>t, <1>r, <1>o, <1>e DEF IInv

LEMMA CountStep ==
    ASSUME IInv, NEW p \in Pollers, Count(p) PROVE IInv' /\ CertsKept
<1> USE DEF serviceVars, dbVars, pollerVars, pollVars, uiVars, worldVars, otherVars
<1>r. ReferencesBalance' /\ dbRefCount' \in Nat
  BY PollerTakes DEF IInv, Count, Goto
<1>t. TypeOK'
  BY <1>r, ComputerPollingAssumption DEF IInv, TypeOK, InPoll, Count, Goto
<1>o. OneThreadGoesOn'
  BY PollerStays DEF IInv, Count, Goto
<1>e. EntriesAreFresh' /\ CertsKept
  BY DetailsStay DEF IInv, Count
<1> QED
  BY <1>t, <1>r, <1>o, <1>e DEF IInv

LEMMA PollInterruptedStep ==
    ASSUME IInv, NEW k \in PollThreads, PollInterrupted(k) PROVE IInv' /\ CertsKept
<1> USE DEF serviceVars, dbVars, pollerVars, pollVars, uiVars, worldVars, otherVars
<1>1. /\ tries' \in [Pollers -> {0, INITIAL_POLL_TRIES, OFFLINE_POLL_TRIES}]
      /\ existing' \in [Pollers -> {"gone", "plain", "pinned"}]
  BY ForgetPollIs, ThreadsArePollers DEF IInv, PollInterrupted
<1>p. pc' \in [Pollers -> InPoll \cup {"unborn", "loop", "lock", "adding", "gone"}]
  BY DEF IInv, TypeOK, PollInterrupted, Goto
<1>c. offlineCount' \in [PollThreads -> 0 .. OFFLINE_POLL_TRIES]
  BY ComputerPollingAssumption DEF IInv, TypeOK, PollInterrupted
<1>2. k \in Pollers /\ pc[k] \in Holding /\ "gone" \notin Holding
  BY ThreadsArePollers DEF PollInterrupted, Holding
<1>r. ReferencesBalance' /\ dbRefCount' \in Nat /\ dbClosed' \in BOOLEAN
  BY <1>2, PollerReleases DEF IInv, PollInterrupted, Goto
<1>t. TypeOK'
  BY <1>r, <1>1, <1>p, <1>c DEF IInv, TypeOK, PollInterrupted
<1>o. OneThreadGoesOn'
  BY PollerStays, ThreadsArePollers DEF IInv, PollInterrupted, Goto
<1>e. EntriesAreFresh' /\ CertsKept
  BY DetailsStay DEF IInv, PollInterrupted
<1> QED
  BY <1>t, <1>r, <1>o, <1>e DEF IInv

LEMMA StateChanges ==
    ASSUME TypeOK, EntriesAreFresh, UNCHANGED <<pollingTuple, tuples>>,
           NEW o \in Tuples \cup Adders, NEW state \in {"unknown", "online", "offline"},
           computer' = [computer EXCEPT ![o].state = state]
    PROVE  /\ computer' \in [Tuples \cup Adders -> Details]
           /\ EntriesAreFresh'
           /\ CertsKept
<1> DEFINE d == [computer[o] EXCEPT !.state = state]
<1>1. computer[o] \in Details
  BY DEF TypeOK
<1>2. d \in Details /\ d.cert = computer[o].cert
  BY <1>1 DEF Details
<1>3. computer' = [computer EXCEPT ![o] = d]
  OBVIOUS
<1> HIDE DEF d
<1> QED
  BY <1>2, <1>3, DetailsChange

Labels == InPoll \cup {"unborn", "loop", "lock", "adding", "gone"}

LEMMA PcIs ==
    ASSUME TypeOK, NEW p \in Pollers, NEW to \in Labels, pc' = [pc EXCEPT ![p] = to]
    PROVE  pc' \in [Pollers -> Labels]
BY DEF TypeOK, Labels

LEMMA EventsAre ==
    ASSUME TypeOK, Happens \/ UNCHANGED events PROVE events' \in 0 .. MaxEvents
BY ComputerPollingAssumption DEF TypeOK, Happens

LEMMA PollAnsweredStep ==
    ASSUME IInv, NEW p \in Pollers, PollAnswered(p) PROVE IInv' /\ CertsKept
<1> USE DEF serviceVars, dbVars, pollerVars, pollVars, uiVars, worldVars, otherVars
<1> DEFINE o == Object(p)
           d == Updated(computer[o], Polled)
<1>1. o \in Tuples \cup Adders /\ computer[o] \in Details
  BY ObjectIs DEF IInv
<1>2. d \in Details /\ d.cert = computer[o].cert
  <2>1. d \in Details /\ d.cert = (computer[o].cert \/ FALSE)
    BY <1>1, UpdatedIs, DetailsAre
  <2>2. computer[o].cert \in BOOLEAN
    BY <1>1 DEF Details
  <2> QED
    BY <2>1, <2>2
<1>3. computer' = [computer EXCEPT ![o] = d]
  BY DEF PollAnswered
<1> HIDE DEF o, d
<1>4. computer' \in [Tuples \cup Adders -> Details] /\ EntriesAreFresh' /\ CertsKept
  BY <1>1, <1>2, <1>3, DetailsChange DEF IInv, PollAnswered
<1>5. pc' \in [Pollers -> Labels]
  BY PcIs DEF IInv, PollAnswered, Goto, Labels, InPoll
<1>6. TypeOK'
  BY <1>4, <1>5 DEF IInv, TypeOK, PollAnswered, Labels
<1>7. Counted' = Counted
  BY CountStays DEF IInv, TypeOK, PollAnswered, Goto, Holding
<1>8. ReferencesBalance'
  BY <1>7, BalanceStays DEF IInv, PollAnswered
<1>9. OneThreadGoesOn'
  BY PollerStays DEF IInv, PollAnswered, Goto
<1> QED
  BY <1>4, <1>6, <1>8, <1>9 DEF IInv

LEMMA PollFailsStep ==
    ASSUME IInv, NEW p \in Pollers, PollFails(p) PROVE IInv' /\ CertsKept
<1> USE DEF serviceVars, dbVars, pollerVars, pollVars, uiVars, worldVars, otherVars
<1>1. events' \in 0 .. MaxEvents
  BY EventsAre DEF IInv, PollFails
<1>2. /\ tries' \in [Pollers -> {0, INITIAL_POLL_TRIES, OFFLINE_POLL_TRIES}]
      /\ existing' \in [Pollers -> {"gone", "plain", "pinned"}]
  BY ForgetPollIs DEF IInv, PollFails
<1>3. CASE p \in PollThreads /\ offlineCount[p] < tries[p]
  <2>1. ReleaseReference /\ Return(p, FALSE) /\ UNCHANGED computer
    BY <1>3 DEF PollFails
  <2>2. PICK to \in {"loop", "adding", "unborn"} : pc' = [pc EXCEPT ![p] = to]
    BY <2>1, ReturnIs DEF IInv
  <2>3. offlineCount' \in [PollThreads -> 0 .. OFFLINE_POLL_TRIES]
    BY <2>1, ReturnIs DEF IInv
  <2>4. pc' \in [Pollers -> Labels]
    BY <2>2, PcIs DEF IInv, Labels
  <2>5. ReferencesBalance' /\ dbRefCount' \in Nat /\ dbClosed' \in BOOLEAN
    BY <2>1, <2>2, PollerReleases DEF IInv, PollFails, Holding
  <2>6. TypeOK'
    BY <1>1, <1>2, <2>1, <2>3, <2>4, <2>5 DEF IInv, TypeOK, PollFails, Labels
  <2>7. OneThreadGoesOn'
    BY <2>2, PollerStays DEF IInv, PollFails
  <2>8. EntriesAreFresh' /\ CertsKept
    BY <2>1, DetailsStay DEF IInv, PollFails
  <2> QED
    BY <2>5, <2>6, <2>7, <2>8 DEF IInv
<1>4. CASE ~(p \in PollThreads /\ offlineCount[p] < tries[p])
  <2>1. /\ computer' = [computer EXCEPT ![Object(p)].state = "offline"]
        /\ pc' = [pc EXCEPT ![p] = "reading"]
        /\ UNCHANGED <<dbRefCount, dbClosed, offlineCount>>
    BY <1>4 DEF PollFails, Goto
  <2>2. computer' \in [Tuples \cup Adders -> Details] /\ EntriesAreFresh' /\ CertsKept
    BY <2>1, StateChanges, ObjectIs DEF IInv, PollFails
  <2>3. pc' \in [Pollers -> Labels]
    BY <2>1, PcIs DEF IInv, Labels, InPoll
  <2>4. TypeOK'
    BY <1>1, <1>2, <2>1, <2>2, <2>3 DEF IInv, TypeOK, PollFails, Labels
  <2>5. Counted' = Counted
    BY <2>1, CountStays DEF IInv, TypeOK, PollFails, Holding
  <2>6. ReferencesBalance'
    BY <2>1, <2>5, BalanceStays DEF IInv, PollFails
  <2>7. OneThreadGoesOn'
    BY <2>1, PollerStays DEF IInv, PollFails
  <2> QED
    BY <2>2, <2>4, <2>6, <2>7 DEF IInv
<1> QED
  BY <1>3, <1>4

LEMMA ReadDatabaseStep ==
    ASSUME IInv, NEW p \in Pollers, ReadDatabase(p) PROVE IInv' /\ CertsKept
<1> USE DEF serviceVars, dbVars, pollerVars, pollVars, uiVars, worldVars, otherVars
<1>1. EntriesAreFresh' /\ CertsKept
  BY DetailsStay DEF IInv, ReadDatabase
<1>2. CASE computer[Object(p)].state # "online"
  <2>1. /\ pc' = [pc EXCEPT ![p] = "notify"]
        /\ UNCHANGED <<dbVars, pollVars, offlineCount, crashed>>
    BY <1>2 DEF ReadDatabase, Goto
  <2>2. pc' \in [Pollers -> Labels]
    BY <2>1, PcIs DEF IInv, Labels, InPoll
  <2>3. TypeOK'
    BY <2>1, <2>2 DEF IInv, TypeOK, ReadDatabase, Labels
  <2>4. Counted' = Counted
    BY <2>1, CountStays DEF IInv, TypeOK, ReadDatabase, Holding
  <2>5. ReferencesBalance'
    BY <2>1, <2>4, BalanceStays DEF IInv, ReadDatabase
  <2>6. OneThreadGoesOn'
    BY <2>1, PollerStays DEF IInv, ReadDatabase
  <2> QED
    BY <1>1, <2>3, <2>5, <2>6 DEF IInv
<1>3. CASE computer[Object(p)].state = "online" /\ dbClosed
  <2>1. crashed' = TRUE /\ UNCHANGED <<dbVars, pollVars, offlineCount, pc>>
    BY <1>3 DEF ReadDatabase
  <2>2. TypeOK'
    BY <2>1 DEF IInv, TypeOK, ReadDatabase
  <2>3. ReferencesBalance'
    BY <2>1 DEF IInv, ReadDatabase, ReferencesBalance, Counted
  <2>4. OneThreadGoesOn'
    BY <2>1, ThreadsStay DEF IInv, ReadDatabase
  <2> QED
    BY <1>1, <2>2, <2>3, <2>4 DEF IInv
<1>4. CASE /\ computer[Object(p)].state = "online" /\ ~dbClosed
           /\ p \in PollThreads /\ db = "gone"
  <2>1. ReleaseReference /\ Return(p, FALSE) /\ ForgetPoll(p) /\ UNCHANGED <<db, crashed>>
    BY <1>4 DEF ReadDatabase
  <2>2. PICK to \in {"loop", "adding", "unborn"} : pc' = [pc EXCEPT ![p] = to]
    BY <2>1, ReturnIs DEF IInv
  <2>3. offlineCount' \in [PollThreads -> 0 .. OFFLINE_POLL_TRIES]
    BY <2>1, ReturnIs DEF IInv
  <2>4. /\ tries' \in [Pollers -> {0, INITIAL_POLL_TRIES, OFFLINE_POLL_TRIES}]
        /\ existing' \in [Pollers -> {"gone", "plain", "pinned"}]
    BY <2>1, ForgetPollIs DEF IInv
  <2>5. pc' \in [Pollers -> Labels]
    BY <2>2, PcIs DEF IInv, Labels
  <2>6. ReferencesBalance' /\ dbRefCount' \in Nat /\ dbClosed' \in BOOLEAN
    BY <2>1, <2>2, PollerReleases DEF IInv, ReadDatabase, Holding
  <2>7. TypeOK'
    BY <2>1, <2>3, <2>4, <2>5, <2>6 DEF IInv, TypeOK, ReadDatabase, Labels
  <2>8. OneThreadGoesOn'
    BY <2>2, PollerStays DEF IInv, ReadDatabase
  <2> QED
    BY <1>1, <2>6, <2>7, <2>8 DEF IInv
<1>5. CASE /\ computer[Object(p)].state = "online" /\ ~dbClosed
           /\ ~(p \in PollThreads /\ db = "gone")
  <2>1. /\ existing' = [existing EXCEPT ![p] = db]
        /\ pc' = [pc EXCEPT ![p] = "writing"]
        /\ UNCHANGED <<dbVars, tries, offlineCount, crashed>>
    BY <1>5 DEF ReadDatabase, Goto
  <2>2. pc' \in [Pollers -> Labels]
    BY <2>1, PcIs DEF IInv, Labels, InPoll
  <2>3. existing' \in [Pollers -> {"gone", "plain", "pinned"}]
    BY <2>1 DEF IInv, TypeOK
  <2>4. TypeOK'
    BY <2>1, <2>2, <2>3 DEF IInv, TypeOK, ReadDatabase, Labels
  <2>5. Counted' = Counted
    BY <2>1, CountStays DEF IInv, TypeOK, ReadDatabase, Holding
  <2>6. ReferencesBalance'
    BY <2>1, <2>5, BalanceStays DEF IInv, ReadDatabase
  <2>7. OneThreadGoesOn'
    BY <2>1, PollerStays DEF IInv, ReadDatabase
  <2> QED
    BY <1>1, <2>4, <2>6, <2>7 DEF IInv
<1> QED
  BY <1>2, <1>3, <1>4, <1>5

LEMMA WriteDatabaseStep ==
    ASSUME IInv, NEW p \in Pollers, WriteDatabase(p) PROVE IInv' /\ CertsKept
<1> USE DEF serviceVars, dbVars, pollerVars, pollVars, uiVars, worldVars, otherVars
<1>1. EntriesAreFresh' /\ CertsKept
  BY DetailsStay DEF IInv, WriteDatabase
<1>2. /\ tries' \in [Pollers -> {0, INITIAL_POLL_TRIES, OFFLINE_POLL_TRIES}]
      /\ existing' \in [Pollers -> {"gone", "plain", "pinned"}]
  BY ForgetPollIs DEF IInv, WriteDatabase
<1>3. CASE dbClosed
  <2>1. crashed' = TRUE /\ UNCHANGED <<db, pc>>
    BY <1>3 DEF WriteDatabase
  <2>2. TypeOK'
    BY <1>2, <2>1 DEF IInv, TypeOK, WriteDatabase
  <2>3. ReferencesBalance'
    BY <2>1 DEF IInv, WriteDatabase, ReferencesBalance, Counted
  <2>4. OneThreadGoesOn'
    BY <2>1, ThreadsStay DEF IInv, WriteDatabase
  <2> QED
    BY <1>1, <2>2, <2>3, <2>4 DEF IInv
<1>4. CASE ~dbClosed
  <2>1. /\ pc' = [pc EXCEPT ![p] = "notify"] /\ UNCHANGED crashed
        /\ db' \in {"gone", "plain", "pinned"}
    BY <1>4 DEF WriteDatabase, Goto
  <2>2. pc' \in [Pollers -> Labels]
    BY <2>1, PcIs DEF IInv, Labels, InPoll
  <2>3. TypeOK'
    BY <1>2, <2>1, <2>2 DEF IInv, TypeOK, WriteDatabase, Labels
  <2>4. Counted' = Counted
    BY <2>1, CountStays DEF IInv, TypeOK, WriteDatabase, Holding
  <2>5. ReferencesBalance'
    BY <2>4, BalanceStays DEF IInv, WriteDatabase
  <2>6. OneThreadGoesOn'
    BY <2>1, PollerStays DEF IInv, WriteDatabase
  <2> QED
    BY <1>1, <2>3, <2>5, <2>6 DEF IInv
<1> QED
  BY <1>3, <1>4

LEMMA NotifyStep ==
    ASSUME IInv, NEW p \in Pollers, Notify(p) PROVE IInv' /\ CertsKept
<1> USE DEF serviceVars, dbVars, pollerVars, pollVars, uiVars, worldVars, otherVars
<1>1. EntriesAreFresh' /\ CertsKept
  BY DetailsStay DEF IInv, Notify
<1>2. CASE ReleaseReference /\ Return(p, TRUE) /\ ForgetPoll(p) /\ UNCHANGED crashed
  <2>1. PICK to \in {"loop", "adding", "unborn"} : pc' = [pc EXCEPT ![p] = to]
    BY <1>2, ReturnIs DEF IInv
  <2>2. offlineCount' \in [PollThreads -> 0 .. OFFLINE_POLL_TRIES]
    BY <1>2, ReturnIs DEF IInv
  <2>3. /\ tries' \in [Pollers -> {0, INITIAL_POLL_TRIES, OFFLINE_POLL_TRIES}]
        /\ existing' \in [Pollers -> {"gone", "plain", "pinned"}]
    BY <1>2, ForgetPollIs DEF IInv
  <2>4. pc' \in [Pollers -> Labels]
    BY <2>1, PcIs DEF IInv, Labels
  <2>5. ReferencesBalance' /\ dbRefCount' \in Nat /\ dbClosed' \in BOOLEAN
    BY <1>2, <2>1, PollerReleases DEF IInv, Notify, Holding
  <2>6. TypeOK'
    BY <1>2, <2>2, <2>3, <2>4, <2>5 DEF IInv, TypeOK, Notify, Labels
  <2>7. OneThreadGoesOn'
    BY <2>1, PollerStays DEF IInv, Notify
  <2> QED
    BY <1>1, <2>5, <2>6, <2>7 DEF IInv
<1>3. CASE crashed' = TRUE /\ UNCHANGED <<dbRefCount, dbClosed, pc, offlineCount, pollVars>>
  <2>1. TypeOK'
    BY <1>3 DEF IInv, TypeOK, Notify
  <2>2. ReferencesBalance'
    BY <1>3 DEF IInv, Notify, ReferencesBalance, Counted
  <2>3. OneThreadGoesOn'
    BY <1>3, ThreadsStay DEF IInv, Notify
  <2> QED
    BY <1>1, <2>1, <2>2, <2>3 DEF IInv
<1> QED
  BY <1>2, <1>3 DEF Notify

LEMMA FindStep ==
    ASSUME IInv, NEW a \in Adders, Find(a) PROVE IInv' /\ CertsKept
<1> USE DEF serviceVars, dbVars, pollerVars, pollVars, uiVars, worldVars, otherVars
<1>1. a \in Pollers /\ a \notin PollThreads /\ a \in Tuples \cup Adders
  BY ComputerPollingAssumption DEF Pollers
<1> DEFINE pinned == pollingTuple # Nobody /\ computer[pollingTuple].cert
           d == [Polled EXCEPT !.cert = pinned]
<1>2. pinned \in BOOLEAN
  <2>1. pollingTuple # Nobody => computer[pollingTuple].cert \in BOOLEAN
    BY DEF IInv, TypeOK, Details
  <2> QED
    BY <2>1
<1>3. computer' = [computer EXCEPT ![a] = d]
  BY DEF Find
<1> HIDE DEF pinned
<1>4. d \in Details
  BY <1>2, DetailsAre DEF Details
<1> HIDE DEF d
<1>5. computer' \in [Tuples \cup Adders -> Details] /\ EntriesAreFresh' /\ CertsKept
  BY <1>1, <1>3, <1>4, DetailsChange DEF IInv, Find
<1>6. events' \in 0 .. MaxEvents
  BY EventsAre DEF IInv, Find
<1>7. pc' \in [Pollers -> Labels]
  BY <1>1, PcIs DEF IInv, Find, Goto, Labels, InPoll
<1>8. TypeOK'
  BY <1>5, <1>6, <1>7 DEF IInv, TypeOK, Find, Labels
<1>9. Counted' = Counted
  BY <1>1, CountStays DEF IInv, TypeOK, Find, Goto, Holding
<1>10. ReferencesBalance'
  BY <1>9, BalanceStays DEF IInv, Find
<1>11. OneThreadGoesOn'
  BY <1>1, PollerStays DEF IInv, Find, Goto
<1> QED
  BY <1>5, <1>8, <1>10, <1>11 DEF IInv

\* What addTuple() makes of the entry it takes the details into.
LEMMA TakeInIs ==
    ASSUME IInv, NEW a \in Adders, NEW tu \in Tuples, TakeIn(a, tu)
    PROVE  /\ computer' \in [Tuples \cup Adders -> Details]
           /\ pollingTuple' \in Tuples \cup {Nobody} /\ tuples' \in 0 .. MaxTuples
           /\ EntriesAreFresh' /\ CertsKept
<1>1. a \notin Tuples /\ a # tu
  BY ComputerPollingAssumption
<1>2. computer[tu] \in Details /\ computer[a] \in Details
  BY DEF IInv, TypeOK
<1>3. /\ tu = IF pollingTuple # Nobody THEN pollingTuple ELSE tuples + 1
      /\ pollingTuple' = tu
      /\ tuples' = IF pollingTuple # Nobody THEN tuples ELSE tuples + 1
  BY DEF TakeIn
<1> DEFINE c == IF pollingTuple # Nobody THEN Updated(computer[tu], computer[a])
                ELSE computer[a]
<1>4. c \in Details
  BY <1>2, UpdatedIs
<1>5. computer[tu].cert => c.cert
  <2>1. CASE pollingTuple # Nobody
    <3>1. c.cert = (computer[tu].cert \/ computer[a].cert)
      BY <2>1, <1>2, UpdatedIs
    <3> QED
      BY <3>1, Zenon
  <2>2. CASE pollingTuple = Nobody
    <3>1. computer[tu].cert = FALSE
      BY <2>2, <1>3 DEF IInv, EntriesAreFresh, TypeOK
    <3> QED
      BY <3>1, Zenon
  <2> QED
    BY <2>1, <2>2
<1>6. computer' = [computer EXCEPT ![tu] = c, ![a] = Fresh(FALSE)]
  BY DEF TakeIn
<1> HIDE DEF c
<1>7. computer' \in [Tuples \cup Adders -> Details]
  BY <1>4, <1>6, DetailsAre DEF IInv, TypeOK
<1>8. computer'[tu] = c /\ \A u \in Tuples \ {tu} : computer'[u] = computer[u]
  BY <1>1, <1>6 DEF IInv, TypeOK
<1>9. CertsKept
  BY <1>5, <1>8, Zenon DEF CertsKept
<1>10. pollingTuple' \in Tuples \cup {Nobody} /\ tuples' \in 0 .. MaxTuples
  BY <1>3 DEF IInv, TypeOK, Tuples
<1>11. tuples <= tuples' /\ tu <= tuples'
  BY <1>3 DEF IInv, TypeOK, EntriesAreFresh
<1>12. EntriesAreFresh'
  <2>1. \A u \in Tuples : u > tuples' => u # tu /\ u > tuples
    BY <1>10, <1>11 DEF IInv, TypeOK, Tuples
  <2> QED
    BY <1>3, <1>8, <1>11, <2>1 DEF IInv, EntriesAreFresh
<1> QED
  BY <1>7, <1>9, <1>10, <1>12

LEMMA AddTupleStep ==
    ASSUME IInv, NEW a \in Adders, AddTuple(a) PROVE IInv' /\ CertsKept
<1> USE DEF serviceVars, dbVars, pollerVars, pollVars, uiVars, worldVars, otherVars
<1>1. a \in Pollers /\ a \notin PollThreads
  BY ComputerPollingAssumption DEF Pollers
<1>2. PICK tu \in Tuples :
         /\ TakeIn(a, tu)
         /\ IF pollingActive /\ thread[tu] = Nobody
            THEN \E k \in PollThreads : /\ NewThread(tu, k)
                                        /\ pc' = [pc EXCEPT ![a] = "unborn", ![k] = "loop"]
            ELSE Goto(a, "unborn") /\ UNCHANGED <<thread, of>>
  BY DEF AddTuple
<1>3. /\ computer' \in [Tuples \cup Adders -> Details]
      /\ pollingTuple' \in Tuples \cup {Nobody} /\ tuples' \in 0 .. MaxTuples
      /\ EntriesAreFresh' /\ CertsKept
  BY <1>2, TakeInIs
<1>4. pollingTuple' = tu /\ (pollingTuple = Nobody \/ pollingTuple = tu)
  BY <1>2 DEF TakeIn
<1>5. CASE pollingActive /\ thread[tu] = Nobody
  <2>1. PICK k \in PollThreads : /\ NewThread(tu, k)
                                 /\ pc' = [pc EXCEPT ![a] = "unborn", ![k] = "loop"]
    BY <1>2, <1>5
  <2>2. k \in Pollers /\ k # a
    BY <1>1 DEF Pollers
  <2>3. pc[a] = "adding" /\ pc[k] = "unborn"
    BY <2>1 DEF AddTuple, NewThread
  <2>4. /\ OneThreadGoesOn'
        /\ thread' \in [Tuples -> PollThreads \cup {Nobody}]
        /\ of' \in [PollThreads -> Tuples]
    <3>1. \A j \in PollThreads \ {k} : pc'[j] = pc[j]
      BY <1>1, <2>1 DEF IInv, TypeOK, Pollers
    <3> QED
      BY <1>4, <1>5, <2>1, <3>1, ThreadStarts DEF IInv, AddTuple
  <2>5. pc' \in [Pollers -> Labels]
    BY <2>1 DEF IInv, TypeOK, Labels
  <2>6. TypeOK'
    BY <1>3, <2>4, <2>5 DEF IInv, TypeOK, AddTuple, Labels
  <2>7. Counted' = Counted
    BY <1>1, <2>1, <2>2, <2>3, CountStays DEF IInv, TypeOK, Holding
  <2>8. ReferencesBalance'
    BY <2>7, BalanceStays DEF IInv, AddTuple
  <2> QED
    BY <1>3, <2>4, <2>6, <2>8 DEF IInv
<1>6. CASE ~(pollingActive /\ thread[tu] = Nobody)
  <2>1. pc' = [pc EXCEPT ![a] = "unborn"] /\ UNCHANGED <<thread, of>>
    BY <1>2, <1>6 DEF Goto
  <2>2. pc' \in [Pollers -> Labels]
    BY <1>1, <2>1, PcIs DEF IInv, Labels
  <2>3. TypeOK'
    BY <1>3, <2>1, <2>2 DEF IInv, TypeOK, AddTuple, Labels
  <2>4. Counted' = Counted
    BY <1>1, <2>1, CountStays DEF IInv, TypeOK, AddTuple, Holding
  <2>5. ReferencesBalance'
    BY <2>4, BalanceStays DEF IInv, AddTuple
  <2>6. \A k \in PollThreads : pc'[k] = pc[k]
    BY <1>1, <2>1 DEF IInv, TypeOK, Pollers
  <2>7. \A k \in PollThreads : Live(k)' <=> Live(k)
    BY <2>6 DEF Live, AddTuple
  <2>8. \A k \in PollThreads : Live(k) => pollingTuple # Nobody
    BY DEF IInv, OneThreadGoesOn, TypeOK, Tuples, Nobody
  <2>9. OneThreadGoesOn'
    BY <1>4, <2>1, <2>7, <2>8 DEF IInv, OneThreadGoesOn
  <2> QED
    BY <1>3, <2>3, <2>5, <2>9 DEF IInv
<1> QED
  BY <1>5, <1>6

-----------------------------------------------------------------------------
(* The steps of the UI thread *)

\* One that touches neither the entry's details nor its thread.
LEMMA StartUpdatesStep ==
    ASSUME IInv, NEW front \in {"pc", "app"}, StartUpdates(front) PROVE IInv' /\ CertsKept
<1> USE DEF serviceVars, dbVars, pollerVars, pollVars, uiVars, worldVars, otherVars
<1>1. TypeOK'
  BY DEF IInv, TypeOK, StartUpdates
<1>2. ReferencesBalance'
  BY BalanceStays DEF IInv, StartUpdates, Counted
<1>3. OneThreadGoesOn'
  BY ThreadsStay DEF IInv, StartUpdates
<1>4. EntriesAreFresh' /\ CertsKept
  BY DetailsStay DEF IInv, StartUpdates
<1> QED
  BY <1>1, <1>2, <1>3, <1>4 DEF IInv

LEMMA StartThreadsStep == ASSUME IInv, StartThreads PROVE IInv' /\ CertsKept
<1> USE DEF serviceVars, dbVars, pollerVars, pollVars, uiVars, worldVars, otherVars
<1>1. CASE pollingTuple = Nobody
  <2>1. UNCHANGED <<computer, thread, of, pc>>
    BY <1>1 DEF StartThreads
  <2>2. TypeOK'
    BY <2>1 DEF IInv, TypeOK, StartThreads
  <2>3. ReferencesBalance'
    BY <2>1, BalanceStays DEF IInv, StartThreads, Counted
  <2>4. OneThreadGoesOn'
    BY <2>1, ThreadsStay DEF IInv, StartThreads
  <2>5. EntriesAreFresh' /\ CertsKept
    BY <2>1, DetailsStay DEF IInv, StartThreads
  <2> QED
    BY <2>2, <2>3, <2>4, <2>5 DEF IInv
<1>2. CASE pollingTuple # Nobody
  <2>1. pollingTuple \in Tuples
    BY <1>2 DEF IInv, TypeOK
  <2>2. PICK state \in {"unknown", computer[pollingTuple].state} :
           computer' = [computer EXCEPT ![pollingTuple].state = state]
    BY <1>2 DEF StartThreads
  <2>3. state \in {"unknown", "online", "offline"}
    BY <2>1 DEF IInv, TypeOK, Details
  <2>4. computer' \in [Tuples \cup Adders -> Details] /\ EntriesAreFresh' /\ CertsKept
    BY <2>1, <2>2, <2>3, StateChanges DEF IInv, StartThreads
  <2>5. CASE thread[pollingTuple] = Nobody
    <3>1. PICK k \in PollThreads :
             NewThread(pollingTuple, k) /\ pc' = [pc EXCEPT ![k] = "loop"]
      BY <1>2, <2>5 DEF StartThreads, Goto
    <3>2. k \in Pollers /\ pc[k] = "unborn"
      BY <3>1 DEF Pollers, NewThread
    <3>3. \A j \in PollThreads \ {k} : pc'[j] = pc[j]
      BY <3>1 DEF IInv, TypeOK, Pollers
    <3>4. /\ OneThreadGoesOn'
          /\ thread' \in [Tuples -> PollThreads \cup {Nobody}]
          /\ of' \in [PollThreads -> Tuples]
      BY <2>1, <2>5, <3>1, <3>3, ThreadStarts DEF IInv, StartThreads
    <3>5. pc' \in [Pollers -> Labels]
      BY <3>1, <3>2, PcIs DEF IInv, Labels
    <3>6. TypeOK'
      BY <2>4, <3>4, <3>5 DEF IInv, TypeOK, StartThreads, Labels
    <3>7. Counted' = Counted
      BY <3>1, <3>2, CountStays DEF IInv, TypeOK, Holding
    <3>8. ReferencesBalance'
      BY <3>7, BalanceStays DEF IInv, StartThreads
    <3> QED
      BY <2>4, <3>4, <3>6, <3>8 DEF IInv
  <2>6. CASE thread[pollingTuple] # Nobody
    <3>1. UNCHANGED <<thread, of, pc>>
      BY <1>2, <2>6 DEF StartThreads
    <3>2. TypeOK'
      BY <2>4, <3>1 DEF IInv, TypeOK, StartThreads
    <3>3. ReferencesBalance'
      BY <3>1, BalanceStays DEF IInv, StartThreads, Counted
    <3>4. OneThreadGoesOn'
      BY <3>1, ThreadsStay DEF IInv, StartThreads
    <3> QED
      BY <2>4, <3>2, <3>3, <3>4 DEF IInv
  <2> QED
    BY <2>5, <2>6
<1> QED
  BY <1>1, <1>2

LEMMA StopUpdatesStep ==
    ASSUME IInv, NEW left \in BOOLEAN, StopUpdates(left) PROVE IInv' /\ CertsKept
<1> USE DEF serviceVars, dbVars, pollerVars, pollVars, uiVars, worldVars, otherVars
<1>1. /\ screen' \in {"pc", "app", "none"}
      /\ uiPc' \in {"idle", "stopping"} /\ uiPc = "idle"
      /\ pollingActive' \in BOOLEAN
  BY DEF IInv, TypeOK, StopUpdates
<1>2. TypeOK'
  BY <1>1 DEF IInv, TypeOK, StopUpdates
<1>3. ReferencesBalance'
  BY <1>1, BalanceStays DEF IInv, StopUpdates, Counted
<1>4. OneThreadGoesOn'
  BY ThreadsStay DEF IInv, StopUpdates
<1>5. EntriesAreFresh' /\ CertsKept
  BY DetailsStay DEF IInv, StopUpdates
<1> QED
  BY <1>2, <1>3, <1>4, <1>5 DEF IInv

LEMMA StopThreadsStep == ASSUME IInv, StopThreads PROVE IInv' /\ CertsKept
<1> USE DEF serviceVars, dbVars, pollerVars, pollVars, uiVars, worldVars, otherVars
<1>1. /\ OneThreadGoesOn'
      /\ thread' \in [Tuples -> PollThreads \cup {Nobody}]
      /\ interrupted' \in [PollThreads -> BOOLEAN]
  BY ThreadStops DEF IInv, StopThreads
<1>2. uiPc = "stopping" /\ uiPc' \in {"idle", "destroying"}
  BY DEF StopThreads
<1>b. listener' \in BOOLEAN /\ runningPolling' \in BOOLEAN
  BY DEF StopThreads
<1>3. TypeOK'
  BY <1>1, <1>2, <1>b DEF IInv, TypeOK, StopThreads
<1>4. ReferencesBalance'
  BY <1>2, BalanceStays DEF IInv, StopThreads, Counted
<1>5. EntriesAreFresh' /\ CertsKept
  BY DetailsStay DEF IInv, StopThreads
<1> QED
  BY <1>1, <1>3, <1>4, <1>5 DEF IInv

LEMMA UnbindStep == ASSUME IInv, Unbind PROVE IInv' /\ CertsKept
<1> USE DEF serviceVars, dbVars, pollerVars, pollVars, uiVars, worldVars, otherVars
<1>1. events' \in 0 .. MaxEvents
  BY EventsAre DEF IInv, Unbind
<1>a. /\ destroyed' \in BOOLEAN /\ pollingActive' \in BOOLEAN
      /\ uiPc' \in {"idle", "starting", "stopping", "destroying", "removing", "over"}
  BY DEF Unbind
<1>2. TypeOK'
  BY <1>1, <1>a DEF IInv, TypeOK, Unbind
<1>3. ReferencesBalance'
  BY BalanceStays DEF IInv, Unbind, Counted
<1>4. OneThreadGoesOn'
  BY ThreadsStay DEF IInv, Unbind
<1>5. EntriesAreFresh' /\ CertsKept
  BY DetailsStay DEF IInv, Unbind
<1> QED
  BY <1>2, <1>3, <1>4, <1>5 DEF IInv

LEMMA DestroyStep == ASSUME IInv, Destroy PROVE IInv' /\ CertsKept
<1> USE DEF serviceVars, dbVars, pollerVars, pollVars, uiVars, worldVars, otherVars
<1>1. Counted' = Counted
  BY DEF Destroy, Counted
<1>2. /\ uiPc = "destroying" /\ uiPc' = "over"
      /\ dbRefCount = Cardinality(Counted) + 1 /\ dbRefCount' = dbRefCount - 1
  BY CountedIsFinite DEF IInv, Destroy, ReferencesBalance, ReleaseReference
<1>3. dbRefCount' = Cardinality(Counted') /\ dbRefCount' \in Nat
  BY <1>1, <1>2, CountedIsFinite
<1>4. dbRefCount' = 0 => dbRefCount = 1
  BY <1>2, CountedIsFinite
<1>5. dbRefCount' = 0 => dbClosed'
  BY <1>4, Zenon DEF Destroy, ReleaseReference
<1>6. dbClosed' \in BOOLEAN
  BY Zenon DEF Destroy, ReleaseReference
<1>7. ReferencesBalance'
  BY <1>2, <1>3, <1>5, CountedIsFiniteNext DEF ReferencesBalance
<1>8. TypeOK'
  BY <1>3, <1>6 DEF IInv, TypeOK, Destroy
<1>9. OneThreadGoesOn'
  BY ThreadsStay DEF IInv, Destroy
<1>10. EntriesAreFresh' /\ CertsKept
  BY DetailsStay DEF IInv, Destroy
<1> QED
  BY <1>7, <1>8, <1>9, <1>10 DEF IInv

LEMMA RemoveRecordStep == ASSUME IInv, RemoveRecord PROVE IInv' /\ CertsKept
<1> USE DEF serviceVars, dbVars, pollerVars, pollVars, uiVars, worldVars, otherVars
<1>1. Counted' = Counted
  BY DEF RemoveRecord, Counted
<1>2. ReferencesBalance'
  BY <1>1, CountedIsFinite DEF IInv, RemoveRecord, ReferencesBalance
<1>3. events' \in 0 .. MaxEvents
  BY EventsAre DEF IInv, RemoveRecord
<1>4. TypeOK'
  BY <1>3 DEF IInv, TypeOK, RemoveRecord
<1>5. OneThreadGoesOn'
  BY ThreadsStay DEF IInv, RemoveRecord
<1>6. EntriesAreFresh' /\ CertsKept
  BY DetailsStay DEF IInv, RemoveRecord
<1> QED
  BY <1>2, <1>4, <1>5, <1>6 DEF IInv

LEMMA RemoveTupleStep == ASSUME IInv, RemoveTuple PROVE IInv' /\ CertsKept
<1> USE DEF serviceVars, dbVars, pollerVars, pollVars, uiVars, worldVars, otherVars
<1>1. Counted' = Counted
  BY DEF RemoveTuple, Counted
<1>2. /\ uiPc = "removing" /\ uiPc' = "idle"
      /\ dbRefCount = Cardinality(Counted) + 2 /\ dbRefCount' = dbRefCount - 1
  BY CountedIsFinite DEF IInv, RemoveTuple, ReferencesBalance, ReleaseReference
<1>3. dbRefCount' = Cardinality(Counted') + 1 /\ dbRefCount' \in Nat /\ dbRefCount' # 0
  BY <1>1, <1>2, CountedIsFinite
<1>4. dbRefCount # 1
  BY <1>2, CountedIsFinite
<1>5. ~dbClosed' /\ dbClosed' \in BOOLEAN
  <2>1. ~dbClosed
    BY <1>2 DEF IInv, ReferencesBalance
  <2>2. dbClosed' = (dbClosed \/ dbRefCount = 1)
    BY Zenon DEF RemoveTuple, ReleaseReference
  <2> QED
    BY <1>4, <2>1, <2>2, Zenon
<1>6. ReferencesBalance'
  BY <1>2, <1>3, <1>5, CountedIsFiniteNext DEF ReferencesBalance
<1>7. \A k \in PollThreads : ~Live(k)'
  <2>1. CASE pollingTuple = Nobody
    BY <2>1 DEF IInv, OneThreadGoesOn, Live, RemoveTuple, StopThread, TypeOK, Tuples, Nobody
  <2>2. CASE pollingTuple # Nobody
    <3>1. \A k \in PollThreads :
            ~interrupted'[k] => ~interrupted[k] /\ k # thread[pollingTuple]
      BY <2>2, Zenon DEF RemoveTuple, StopThread, InterruptThread
    <3> QED
      BY <3>1, Zenon DEF IInv, OneThreadGoesOn, Live, RemoveTuple
  <2> QED
    BY <2>1, <2>2
<1>8. /\ thread' \in [Tuples -> PollThreads \cup {Nobody}]
      /\ interrupted' \in [PollThreads -> BOOLEAN]
  BY ThreadStops DEF IInv, RemoveTuple
<1>9. TypeOK'
  BY <1>3, <1>5, <1>8 DEF IInv, TypeOK, RemoveTuple
<1>10. OneThreadGoesOn'
  BY <1>7 DEF OneThreadGoesOn
<1>11. EntriesAreFresh' /\ CertsKept
  BY DEF IInv, TypeOK, EntriesAreFresh, CertsKept, RemoveTuple, Nobody
<1> QED
  BY <1>6, <1>9, <1>10, <1>11 DEF IInv

-----------------------------------------------------------------------------
(* The thread that pairs *)

LEMMA PairStep == ASSUME IInv, Pair PROVE IInv' /\ CertsKept
<1> USE DEF serviceVars, dbVars, pollerVars, pollVars, uiVars, worldVars, otherVars
<1>1. events' \in 0 .. MaxEvents
  BY EventsAre DEF IInv, Pair
<1>2. pollingActive' \in BOOLEAN
  BY DEF IInv, TypeOK, Pair
<1>3. pairPc' \in {"stopping", "pairing"} /\ UNCHANGED <<netPc, crashed>>
  BY DEF Pair, PairGoto
<1>4. TypeOK'
  BY <1>1, <1>2, <1>3 DEF IInv, TypeOK, Pair
<1>5. ReferencesBalance'
  BY BalanceStays DEF IInv, Pair, Counted
<1>6. OneThreadGoesOn'
  BY ThreadsStay DEF IInv, Pair
<1>7. EntriesAreFresh' /\ CertsKept
  BY DetailsStay DEF IInv, Pair
<1> QED
  BY <1>4, <1>5, <1>6, <1>7 DEF IInv

LEMMA PairStopsStep == ASSUME IInv, PairStops PROVE IInv' /\ CertsKept
<1> USE DEF serviceVars, dbVars, pollerVars, pollVars, uiVars, worldVars, otherVars
<1>1. /\ OneThreadGoesOn'
      /\ thread' \in [Tuples -> PollThreads \cup {Nobody}]
      /\ interrupted' \in [PollThreads -> BOOLEAN]
  BY ThreadStops DEF IInv, PairStops
<1>b. listener' \in BOOLEAN /\ pairPc' = "waiting" /\ UNCHANGED <<netPc, crashed>>
  BY DEF PairStops, PairGoto
<1>2. TypeOK'
  BY <1>1, <1>b DEF IInv, TypeOK, PairStops
<1>3. ReferencesBalance'
  BY BalanceStays DEF IInv, PairStops, Counted
<1>4. EntriesAreFresh' /\ CertsKept
  BY DetailsStay DEF IInv, PairStops
<1> QED
  BY <1>1, <1>2, <1>3, <1>4 DEF IInv

\* Steps that only move the thread on.
LEMMA PairMoves ==
    ASSUME IInv,
           UNCHANGED <<serviceVars, computer, dbVars, pollerVars, screen, uiPc,
                       destroyed, worldVars, netPc>>,
           runningPolling' \in BOOLEAN, crashed' \in BOOLEAN,
           pairPc' \in {"idle", "pairing", "pinned", "invalidating"}
    PROVE  IInv' /\ CertsKept
<1> USE DEF serviceVars, dbVars, pollerVars, pollVars, uiVars, worldVars, otherVars
<1>1. TypeOK'
  BY DEF IInv, TypeOK
<1>2. ReferencesBalance'
  BY BalanceStays DEF IInv, Counted
<1>3. OneThreadGoesOn'
  BY ThreadsStay DEF IInv
<1>4. EntriesAreFresh' /\ CertsKept
  BY DetailsStay DEF IInv
<1> QED
  BY <1>1, <1>2, <1>3, <1>4 DEF IInv

LEMMA PairWaitsStep == ASSUME IInv, PairWaits PROVE IInv' /\ CertsKept
<1>1. /\ UNCHANGED <<serviceVars, computer, dbVars, pollerVars, screen, uiPc,
                     destroyed, worldVars, netPc>>
      /\ pairPc' \in {"idle", "pairing", "pinned", "invalidating"}
  BY DEF PairWaits, PairGoto
<1>2. runningPolling' \in BOOLEAN /\ crashed' \in BOOLEAN
  BY DEF IInv, TypeOK, PairWaits, PairGoto
<1> QED
  BY <1>1, <1>2, PairMoves

LEMMA PairingFailsStep == ASSUME IInv, PairingFails PROVE IInv' /\ CertsKept
<1>1. /\ UNCHANGED <<serviceVars, computer, dbVars, pollerVars, screen, uiPc,
                     destroyed, worldVars, netPc>>
      /\ pairPc' \in {"idle", "pairing", "pinned", "invalidating"}
  BY DEF PairingFails, PairGoto, uiVars
<1>2. runningPolling' \in BOOLEAN /\ crashed' \in BOOLEAN
  BY DEF IInv, TypeOK, PairingFails, PairGoto, uiVars
<1> QED
  BY <1>1, <1>2, PairMoves

LEMMA InvalidateStep == ASSUME IInv, Invalidate PROVE IInv' /\ CertsKept
<1>1. /\ UNCHANGED <<serviceVars, computer, dbVars, pollerVars, screen, uiPc,
                     destroyed, worldVars, netPc>>
      /\ pairPc' \in {"idle", "pairing", "pinned", "invalidating"}
  BY DEF Invalidate, PairGoto, uiVars
<1>2. runningPolling' \in BOOLEAN /\ crashed' \in BOOLEAN
  BY DEF IInv, TypeOK, Invalidate, PairGoto, uiVars
<1> QED
  BY <1>1, <1>2, PairMoves

\* Only the entry's details change, and in these not the certificate.
LEMMA DetailsOnly ==
    ASSUME IInv,
           UNCHANGED <<serviceVars, dbVars, pollerVars, uiVars, reachable, crashed>>,
           computer' \in [Tuples \cup Adders -> Details], EntriesAreFresh', CertsKept,
           events' \in 0 .. MaxEvents, netPc' \in {"idle", "calling"},
           pairPc' \in {"idle", "stopping", "waiting", "pairing", "pinned",
                        "invalidating"}
    PROVE  IInv' /\ CertsKept
<1> USE DEF serviceVars, dbVars, pollerVars, pollVars, uiVars, worldVars, otherVars
<1>1. TypeOK'
  BY DEF IInv, TypeOK
<1>2. ReferencesBalance'
  BY BalanceStays DEF IInv, Counted
<1>3. OneThreadGoesOn'
  BY ThreadsStay DEF IInv
<1> QED
  BY <1>1, <1>2, <1>3 DEF IInv

LEMMA PinStep == ASSUME IInv, Pin PROVE IInv' /\ CertsKept
<1>1. CASE pollingTuple = Nobody
  <2>1. /\ UNCHANGED <<serviceVars, computer, dbVars, pollerVars, screen, uiPc,
                       destroyed, worldVars, netPc>>
        /\ pairPc' = "pairing"
    BY <1>1 DEF Pin, uiVars
  <2>2. runningPolling' \in BOOLEAN /\ crashed' \in BOOLEAN
    BY <1>1 DEF IInv, TypeOK, Pin, uiVars
  <2> QED
    BY <2>1, <2>2, PairMoves
<1>2. CASE pollingTuple # Nobody
  <2> DEFINE tu == pollingTuple
             d == [computer[tu] EXCEPT !.cert = TRUE]
  <2>1. tu \in Tuples /\ tu <= tuples /\ tu' = tu /\ tuples' = tuples
    BY <1>2 DEF IInv, TypeOK, EntriesAreFresh, Pin, serviceVars
  <2>2. computer[tu] \in Details
    BY <2>1 DEF IInv, TypeOK
  <2>3. d \in Details /\ d.cert = TRUE
    BY <2>2 DEF Details
  <2>4. computer' = [computer EXCEPT ![tu] = d]
    BY <1>2 DEF Pin
  <2> HIDE DEF d
  <2>5. computer' \in [Tuples \cup Adders -> Details]
    BY <2>1, <2>3, <2>4 DEF IInv, TypeOK
  <2>6. \A u \in Tuples : computer'[u] = IF u = tu THEN d ELSE computer[u]
    BY <2>4 DEF IInv, TypeOK
  <2>7. CertsKept
    BY <2>3, <2>6 DEF CertsKept
  <2>8. EntriesAreFresh'
    BY <2>1, <2>6 DEF IInv, TypeOK, EntriesAreFresh, Tuples
  <2>9. /\ events' \in 0 .. MaxEvents /\ netPc' \in {"idle", "calling"}
        /\ pairPc' = "pinned"
        /\ UNCHANGED <<serviceVars, dbVars, pollerVars, uiVars, reachable, crashed>>
    BY <1>2 DEF IInv, TypeOK, Pin, PairGoto, worldVars
  <2> QED
    BY <2>5, <2>7, <2>8, <2>9, DetailsOnly
<1> QED
  BY <1>1, <1>2

\* The entry is told a state.
LEMMA EntryTold ==
    ASSUME IInv, NEW state \in {"unknown", "online", "offline"},
           UNCHANGED <<pollingTuple, tuples>>,
           computer' = [computer EXCEPT ![pollingTuple].state = state]
    PROVE  /\ computer' \in [Tuples \cup Adders -> Details]
           /\ EntriesAreFresh'
           /\ CertsKept
<1>1. CASE pollingTuple = Nobody
  <2>1. \A tu \in Tuples : computer'[tu] = computer[tu]
    BY <1>1 DEF IInv, TypeOK, Tuples, Nobody
  <2>2. computer' \in [Tuples \cup Adders -> Details]
    BY DEF IInv, TypeOK, Details
  <2> QED
    BY <2>1, <2>2 DEF IInv, EntriesAreFresh, CertsKept
<1>2. CASE pollingTuple # Nobody
  <2> DEFINE o == pollingTuple
             d == [computer[o] EXCEPT !.state = state]
  <2>1. o \in Tuples \cup Adders /\ computer[o] \in Details
    BY <1>2 DEF IInv, TypeOK
  <2>2. d \in Details /\ d.cert = computer[o].cert
    BY <2>1 DEF Details
  <2>3. computer[o].cert \in BOOLEAN
    BY <2>1 DEF Details
  <2>4. computer' = [computer EXCEPT ![o] = d]
    OBVIOUS
  <2>5. o \notin Adders
    BY <1>2, ComputerPollingAssumption DEF IInv, TypeOK
  <2> HIDE DEF d
  <2> QED
    BY <2>1, <2>2, <2>3, <2>4, <2>5, DetailsChange DEF IInv
<1> QED
  BY <1>1, <1>2

LEMMA InvalidatedStep == ASSUME IInv, Invalidated PROVE IInv' /\ CertsKept
<1>1. computer' \in [Tuples \cup Adders -> Details] /\ EntriesAreFresh' /\ CertsKept
  BY EntryTold DEF Invalidated, serviceVars
<1>2. /\ events' \in 0 .. MaxEvents /\ netPc' \in {"idle", "calling"}
      /\ pairPc' = "idle"
      /\ UNCHANGED <<serviceVars, dbVars, pollerVars, uiVars, reachable, crashed>>
  BY DEF IInv, TypeOK, Invalidated, PairGoto, worldVars
<1> QED
  BY <1>1, <1>2, DetailsOnly

-----------------------------------------------------------------------------
(* The network callback and the PC *)

LEMMA NetworkChangesStep == ASSUME IInv, NetworkChanges PROVE IInv' /\ CertsKept
<1>1. computer' \in [Tuples \cup Adders -> Details] /\ EntriesAreFresh' /\ CertsKept
  BY EntryTold DEF NetworkChanges, serviceVars
<1>2. events' \in 0 .. MaxEvents
  BY EventsAre DEF IInv, NetworkChanges
<1>3. /\ netPc' \in {"idle", "calling"}
      /\ pairPc' \in {"idle", "stopping", "waiting", "pairing", "pinned",
                      "invalidating"}
      /\ UNCHANGED <<serviceVars, dbVars, pollerVars, uiVars, reachable, crashed>>
  BY DEF IInv, TypeOK, NetworkChanges
<1> QED
  BY <1>1, <1>2, <1>3, DetailsOnly

LEMMA NetworkCallsStep == ASSUME IInv, NetworkCalls PROVE IInv' /\ CertsKept
<1> USE DEF serviceVars, dbVars, pollerVars, pollVars, uiVars, worldVars, otherVars
<1>1. netPc' \in {"idle", "calling"} /\ crashed' \in BOOLEAN
  BY DEF IInv, TypeOK, NetworkCalls
<1>2. TypeOK'
  BY <1>1 DEF IInv, TypeOK, NetworkCalls
<1>3. ReferencesBalance'
  BY BalanceStays DEF IInv, NetworkCalls, Counted
<1>4. OneThreadGoesOn'
  BY ThreadsStay DEF IInv, NetworkCalls
<1>5. EntriesAreFresh' /\ CertsKept
  BY DetailsStay DEF IInv, NetworkCalls
<1> QED
  BY <1>2, <1>3, <1>4, <1>5 DEF IInv

LEMMA ReachChangesStep == ASSUME IInv, ReachChanges PROVE IInv' /\ CertsKept
<1> USE DEF serviceVars, dbVars, pollerVars, pollVars, uiVars, worldVars, otherVars
<1>1. events' \in 0 .. MaxEvents
  BY EventsAre DEF IInv, ReachChanges
<1>2. reachable' \in BOOLEAN
  BY DEF ReachChanges
<1>3. TypeOK'
  BY <1>1, <1>2 DEF IInv, TypeOK, ReachChanges
<1>4. ReferencesBalance'
  BY BalanceStays DEF IInv, ReachChanges, Counted
<1>5. OneThreadGoesOn'
  BY ThreadsStay DEF IInv, ReachChanges
<1>6. EntriesAreFresh' /\ CertsKept
  BY DetailsStay DEF IInv, ReachChanges
<1> QED
  BY <1>3, <1>4, <1>5, <1>6 DEF IInv

-----------------------------------------------------------------------------
(* All of it *)

LEMMA PollStep ==
    ASSUME IInv, NEW p \in Pollers, Poll(p) PROVE IInv' /\ CertsKept
BY LockStep, CountStep, PollAnsweredStep, PollFailsStep, ReadDatabaseStep,
   WriteDatabaseStep, NotifyStep DEF Poll

LEMMA EveryStep == ASSUME IInv, Next PROVE IInv' /\ CertsKept
<1>1. ASSUME NEW k \in PollThreads, PollThread(k) PROVE IInv' /\ CertsKept
  BY <1>1, LoopStep, PollStep, PollInterruptedStep, ThreadsArePollers
  DEF PollThread
<1>2. ASSUME NEW a \in Adders, Adder(a) PROVE IInv' /\ CertsKept
  BY <1>2, FindStep, PollStep, AddTupleStep DEF Adder, Pollers
<1>3. CASE UI
  BY <1>3, StartUpdatesStep, StartThreadsStep, StopUpdatesStep, StopThreadsStep,
     UnbindStep, DestroyStep, RemoveRecordStep, RemoveTupleStep DEF UI
<1>4. CASE Pair \/ PairSteps
  BY <1>4, PairStep, PairStopsStep, PairWaitsStep, PairingFailsStep, PinStep,
     InvalidateStep, InvalidatedStep DEF PairSteps
<1>5. CASE World
  BY <1>5, NetworkChangesStep, NetworkCallsStep, ReachChangesStep DEF World
<1> QED
  BY <1>1, <1>2, <1>3, <1>4, <1>5 DEF Next

LEMMA NextIInv == IInv /\ [Next]_vars => IInv' /\ CertsKept
<1> SUFFICES ASSUME IInv, [Next]_vars PROVE IInv' /\ CertsKept
  OBVIOUS
<1>1. CASE Next
  BY <1>1, EveryStep
<1>2. CASE UNCHANGED vars
  <2> USE <1>2 DEF vars, serviceVars, dbVars, pollerVars, pollVars, uiVars,
                   worldVars, otherVars
  <2>1. TypeOK'
    BY DEF IInv, TypeOK
  <2>2. ReferencesBalance'
    BY BalanceStays DEF IInv, Counted
  <2>3. OneThreadGoesOn'
    BY ThreadsStay DEF IInv
  <2>4. EntriesAreFresh' /\ CertsKept
    BY DetailsStay DEF IInv
  <2> QED
    BY <2>1, <2>2, <2>3, <2>4 DEF IInv
<1> QED
  BY <1>1, <1>2

\* Every variable has its type in every state: in particular dbRefCount is never
\* negative, however the polls, a removal and onDestroy() cross.
THEOREM TypeCorrect == Spec => []TypeOK
<1>1. IInv => TypeOK
  BY DEF IInv
<1> QED
  BY <1>1, FirstState, NextIInv, PTL DEF Spec

\* The references to the database are those of the polls under way, of a removal
\* and of the service; it is not closed before the service is gone, and is
\* when the last of them goes.
THEOREM ReferencesAreBalanced == Spec => []ReferencesBalance
<1>1. IInv => ReferencesBalance
  BY DEF IInv
<1> QED
  BY <1>1, FirstState, NextIInv, PTL DEF Spec

\* No two threads go on polling the PC, and none for an entry that is not its own
\* any more.
THEOREM OneThreadPolls == Spec => []OneThreadGoesOn
<1>1. IInv => OneThreadGoesOn
  BY DEF IInv
<1> QED
  BY <1>1, FirstState, NextIInv, PTL DEF Spec

\* No step of anybody takes a pinned certificate out of an entry.
THEOREM PinStays == Spec => PinIsKept
<1>1. IInv /\ [Next]_vars => [\A tu \in Tuples : computer[tu].cert => computer'[tu].cert]_vars
  BY NextIInv DEF CertsKept
<1> QED
  BY <1>1, FirstState, NextIInv, PTL DEF Spec, PinIsKept
=============================================================================
