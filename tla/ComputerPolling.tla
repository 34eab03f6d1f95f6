--------------------------- MODULE ComputerPolling ---------------------------
(***************************************************************************)
(* How one PC is watched (ComputerManagerService): the entry the service   *)
(* keeps for it, the thread that polls it, its record in the database, and *)
(* the others who touch the three while a poll is under way: the screen    *)
(* that starts and stops the polling or removes the PC (PcView, AppView),  *)
(* the thread that pairs with it (PcView.doPair), threads that add it      *)
(* (mDNS discovery, AddComputerManually) and the network callback.         *)
(*                                                                         *)
(* Two monitors take part.  networkLock is that of the entry: a polling    *)
(* thread holds it for a whole poll.  pollingTuples guards the entry and   *)
(* its thread, but not what the entry says of the PC.  A poll's request to *)
(* the up to four addresses of the PC is one step that is answered or not. *)
(* Time is abstract: a sleep is over at any moment.                        *)
(***************************************************************************)
EXTENDS Integers, FiniteSets

CONSTANTS
    MaxThreads,         \* bound: polling threads ever created for the PC
    MaxTuples,          \* bound: entries ever created for the PC
    Adders,             \* threads that find the PC and add it
    InitialRecords,     \* what the database may hold of the PC at first
    OFFLINE_POLL_TRIES,
    INITIAL_POLL_TRIES,
    MaxEvents           \* bound: things that happen to the PC and the service, of
                        \* any kind, besides the starting and stopping of updates

PollThreads == 1 .. MaxThreads
Tuples == 1 .. MaxTuples
Pollers == PollThreads \cup Adders
Nobody == 0             \* null, of an entry and of a thread

ASSUME ComputerPollingAssumption ==
    /\ MaxThreads \in Nat /\ MaxTuples \in Nat \ {0}
    /\ IsFiniteSet(Adders)
    /\ Adders \cap (PollThreads \cup Tuples) = {}
    /\ InitialRecords \subseteq {"gone", "plain", "pinned"}
    /\ OFFLINE_POLL_TRIES \in Nat
    /\ INITIAL_POLL_TRIES \in 0 .. OFFLINE_POLL_TRIES
    /\ MaxEvents \in Nat

VARIABLES
    (* ComputerManagerService *)
    pollingTuple,       \* the PC's entry in pollingTuples
    tuples,             \* entries created so far
    thread,             \* of each entry: tuple.thread
    computer,           \* what each entry, or adder, knows: ComputerDetails
    pollingActive,
    listener,           \* is there one?
    dbRefCount,
    dbClosed,
    destroyed,          \* onDestroy() has run
    crashed,            \* an exception nobody caught has ended the process
    (* its pollers: the polling threads, and the adders in their runPoll() *)
    pc,
    of,                 \* the entry of each polling thread
    interrupted,
    offlineCount,
    tries,              \* pollTriesBeforeOffline of the poll under way
    existing,           \* what the poll under way read from the database
    (* the database *)
    db,                 \* the PC's record: "gone", "plain" or "pinned" with its certificate
    (* the other threads *)
    screen,             \* who is in front: "pc", "app" or "none"
    uiPc,
    runningPolling,
    pairPc,
    netPc,
    (* the PC and the network *)
    reachable,
    events              \* that have happened so far

serviceVars == <<pollingTuple, tuples, thread, pollingActive, listener>>
dbVars == <<dbRefCount, dbClosed, db>>
pollVars == <<tries, existing>>
pollerVars == <<pc, of, interrupted, offlineCount, pollVars>>
uiVars == <<screen, uiPc, runningPolling, destroyed>>
worldVars == <<reachable, events>>
otherVars == <<pairPc, netPc, crashed>>
vars == <<serviceVars, computer, dbVars, pollerVars, uiVars, worldVars,
          otherVars>>

Details == [state : {"unknown", "online", "offline"}, cert : BOOLEAN]
Fresh(pinned) == [state |-> "unknown", cert |-> pinned]

\* onCreate() has read the database; the screen is about to bind.
Init ==
    /\ db \in InitialRecords
    /\ pollingTuple = IF db = "gone" THEN Nobody ELSE 1
    /\ tuples = pollingTuple
    /\ thread = [tu \in Tuples |-> Nobody]
    /\ computer = [o \in Tuples \cup Adders |-> Fresh(o = pollingTuple /\ db = "pinned")]
    /\ pollingActive = FALSE
    /\ listener = FALSE
    /\ dbRefCount = 1
    /\ dbClosed = FALSE
    /\ destroyed = FALSE
    /\ pc = [p \in Pollers |-> "unborn"]
    /\ of = [k \in PollThreads |-> 1]
    /\ interrupted = [k \in PollThreads |-> FALSE]
    /\ offlineCount = [k \in PollThreads |-> 0]
    /\ tries = [p \in Pollers |-> 0]
    /\ existing = [p \in Pollers |-> "gone"]
    /\ screen = "none"
    /\ uiPc = "idle"
    /\ runningPolling = FALSE
    /\ pairPc = "idle"
    /\ netPc = "idle"
    /\ reachable \in BOOLEAN
    /\ events = 0
    /\ crashed = FALSE

-----------------------------------------------------------------------------
(* What the steps are made of *)

Goto(p, label) == pc' = [pc EXCEPT ![p] = label]

\* Something happens, within the bound.
Happens == events < MaxEvents /\ events' = events + 1

\* What the poller p fills in: its entry's details, or an adder's own.
Object(p) == IF p \in Adders THEN p ELSE of[p]

\* ComputerDetails.update(): a certificate is kept when the new details have none.
Updated(c, d) == [d EXCEPT !.cert = c.cert \/ d.cert]

\* What a poll finds out: never the certificate.
Polled == [state |-> "online", cert |-> FALSE]

\* synchronized (pollingTuples) can be entered: the thread that pairs and the
\* network callback hold it over several steps, everybody else for one.
TuplesFree == pairPc # "invalidating" /\ netPc # "calling"

\* The pcs of a polling thread inside synchronized (tuple.networkLock).
InPoll == {"count", "asking", "reading", "writing", "notify"}
NetworkLockFree(tu) == \A k \in PollThreads : of[k] = tu => pc[k] \notin InPoll

\* activePolls is not 0.
PollsActive == \E p \in Pollers : pc[p] = "asking"

\* Someone is about to set the listener to null.
ListenerGoing == uiPc = "stopping" \/ pairPc = "stopping"

\* The k-th polling thread is created, for the entry tu, after those before it.
\* Where it starts, and its creator goes on, is for the caller to say.
NewThread(tu, k) ==
    /\ pc[k] = "unborn"
    /\ \A j \in PollThreads : j < k => pc[j] # "unborn"
    /\ thread' = [thread EXCEPT ![tu] = k]
    /\ of' = [of EXCEPT ![k] = tu]

\* The entry's thread is interrupted and forgotten.
InterruptThread(tu) ==
    /\ interrupted' = [k \in PollThreads |-> interrupted[k] \/ k = thread[tu]]
    /\ thread' = [thread EXCEPT ![tu] = Nobody]

ReleaseReference ==
    /\ dbRefCount' = dbRefCount - 1
    /\ dbClosed' = (dbClosed \/ dbRefCount = 1)

\* The local variables of a poll that is over mean nothing any more.
ForgetPoll(p) ==
    /\ tries' = [tries EXCEPT ![p] = 0]
    /\ existing' = [existing EXCEPT ![p] = "gone"]

\* runPoll() returns.  An adder goes on if the PC is online.  A polling thread
\* counts what did not come to anything (up to where it makes no more
\* difference) and sleeps: that is over at any moment, and an interrupt ends
\* it and the thread, as the loop's own test would.
Return(p, modified) ==
    IF p \in Adders
    THEN /\ Goto(p, IF computer[p].state = "online" THEN "adding" ELSE "unborn")
         /\ UNCHANGED offlineCount
    ELSE /\ Goto(p, "loop")
         /\ offlineCount' =
              [offlineCount EXCEPT ![p] =
                 IF modified THEN 0
                 ELSE IF @ < OFFLINE_POLL_TRIES THEN @ + 1 ELSE @]

-----------------------------------------------------------------------------
(* A polling thread: its loop *)

\* The conditions of the while.
Loop(k) ==
    /\ pc[k] = "loop"
    /\ IF ~interrupted[k] /\ pollingActive /\ thread[of[k]] = k
       THEN Goto(k, "lock") /\ UNCHANGED offlineCount
       ELSE Goto(k, "gone") /\ offlineCount' = [offlineCount EXCEPT ![k] = 0]
    /\ UNCHANGED <<serviceVars, computer, dbVars, of, interrupted, pollVars,
                   uiVars, otherVars, worldVars>>

-----------------------------------------------------------------------------
(* runPoll(), of a polling thread or an adder *)

\* A polling thread enters networkLock.  getLocalDatabaseReference() reads the
\* count ...
Lock(p) ==
    /\ pc[p] = "lock"
    /\ p \in PollThreads => NetworkLockFree(of[p])
    /\ IF dbRefCount = 0
       THEN Return(p, FALSE)
       ELSE Goto(p, "count") /\ UNCHANGED offlineCount
    /\ UNCHANGED <<serviceVars, computer, dbVars, of, interrupted, pollVars,
                   uiVars, otherVars, worldVars>>

\* ... and increments it later.  The poll goes out.
Count(p) ==
    /\ pc[p] = "count"
    /\ dbRefCount' = dbRefCount + 1
    /\ tries' = [tries EXCEPT ![p] =
                   IF computer[Object(p)].state = "unknown"
                   THEN INITIAL_POLL_TRIES ELSE OFFLINE_POLL_TRIES]
    /\ Goto(p, "asking")
    /\ UNCHANGED <<serviceVars, computer, dbClosed, db, of, interrupted,
                   offlineCount, existing, uiVars, otherVars, worldVars>>

\* parallelPollPc() waits when the interrupt is there: the thread ends.
PollInterrupted(k) ==
    /\ pc[k] = "asking"
    /\ interrupted[k]
    /\ ReleaseReference
    /\ ForgetPoll(k)
    /\ Goto(k, "gone")
    /\ offlineCount' = [offlineCount EXCEPT ![k] = 0]
    /\ UNCHANGED <<serviceVars, computer, db, of, interrupted, uiVars,
                   otherVars, worldVars>>

\* Mutant: the details found replace those there were.
PollReplaces(p) ==
    /\ pc[p] = "asking"
    /\ reachable
    /\ computer' = [computer EXCEPT ![Object(p)] = Polled]
    /\ Goto(p, "reading")
    /\ UNCHANGED <<serviceVars, dbVars, of, interrupted, offlineCount,
                   pollVars, uiVars, otherVars, worldVars>>

\* One of the addresses answers, and the details take in what it says.
PollAnswered(p) ==
    /\ pc[p] = "asking"
    /\ reachable
    /\ computer' = [computer EXCEPT ![Object(p)] = Updated(@, Polled)]
    /\ Goto(p, "reading")
    /\ UNCHANGED <<serviceVars, dbVars, of, interrupted, offlineCount,
                   pollVars, uiVars, otherVars, worldVars>>

\* Mutant: a failed poll does not count.
PollFailsUncounted(p) ==
    /\ pc[p] = "asking"
    /\ IF reachable THEN Happens ELSE UNCHANGED events
    /\ ForgetPoll(p)
    /\ IF p \in PollThreads /\ offlineCount[p] < tries[p]
       THEN /\ ReleaseReference
            /\ Goto(p, "loop")
            /\ UNCHANGED computer
       ELSE /\ computer' = [computer EXCEPT ![Object(p)].state = "offline"]
            /\ Goto(p, "reading")
            /\ UNCHANGED <<dbRefCount, dbClosed>>
    /\ UNCHANGED <<serviceVars, db, of, interrupted, offlineCount, uiVars,
                   otherVars, reachable>>

\* None does.  The PC is only offline after some tries, those of the state it
\* was in when this poll began; an adder does not try again.
PollFails(p) ==
    /\ pc[p] = "asking"
    /\ IF reachable THEN Happens ELSE UNCHANGED events
    /\ ForgetPoll(p)
    /\ IF p \in PollThreads /\ offlineCount[p] < tries[p]
       THEN /\ ReleaseReference
            /\ Return(p, FALSE)
            /\ UNCHANGED computer
       ELSE /\ computer' = [computer EXCEPT ![Object(p)].state = "offline"]
            /\ Goto(p, "reading")
            /\ UNCHANGED <<dbRefCount, dbClosed, offlineCount>>
    /\ UNCHANGED <<serviceVars, db, of, interrupted, uiVars, otherVars,
                   reachable>>

\* Mutant: a poll of a PC that was removed returns with its reference.
ReadDatabaseKeepingReference(p) ==
    /\ pc[p] = "reading"
    /\ ~dbClosed
    /\ IF computer[Object(p)].state # "online"
       THEN Goto(p, "notify") /\ UNCHANGED <<pollVars, offlineCount>>
       ELSE IF p \in PollThreads /\ db = "gone"
       THEN Return(p, FALSE) /\ ForgetPoll(p)
       ELSE /\ existing' = [existing EXCEPT ![p] = db]
            /\ Goto(p, "writing")
            /\ UNCHANGED <<tries, offlineCount>>
    /\ UNCHANGED <<serviceVars, computer, dbVars, of, interrupted, uiVars,
                   otherVars, worldVars>>

\* "Check if it's in the database because it could have been removed after this
\* was issued", for a PC that is still online.
ReadDatabase(p) ==
    /\ pc[p] = "reading"
    /\ IF computer[Object(p)].state # "online"
       THEN /\ Goto(p, "notify")
            /\ UNCHANGED <<dbVars, pollVars, offlineCount, crashed>>
       ELSE IF dbClosed
       THEN /\ crashed' = TRUE
            /\ UNCHANGED <<dbVars, pollVars, offlineCount, pc>>
       ELSE IF p \in PollThreads /\ db = "gone"
       THEN /\ ReleaseReference
            /\ Return(p, FALSE)
            /\ ForgetPoll(p)
            /\ UNCHANGED <<db, crashed>>
       ELSE /\ existing' = [existing EXCEPT ![p] = db]
            /\ Goto(p, "writing")
            /\ UNCHANGED <<dbVars, tries, offlineCount, crashed>>
    /\ UNCHANGED <<serviceVars, computer, of, interrupted, uiVars, pairPc,
                   netPc, worldVars>>

\* Mutant: what the details know is not combined with the record.
WriteDatabaseUncombined(p) ==
    /\ pc[p] = "writing"
    /\ db' = IF existing[p] = "gone" THEN "plain" ELSE existing[p]
    /\ Goto(p, "notify")
    /\ ForgetPoll(p)
    /\ UNCHANGED <<serviceVars, computer, dbRefCount, dbClosed, of,
                   interrupted, offlineCount, uiVars, otherVars, worldVars>>

\* The record read, updated with the details, or these alone where there was
\* none, is written back whatever has become of it meanwhile.
WriteDatabase(p) ==
    /\ pc[p] = "writing"
    /\ IF dbClosed
       THEN crashed' = TRUE /\ UNCHANGED <<db, pc>>
       ELSE /\ db' = IF existing[p] = "pinned" \/ computer[Object(p)].cert
                     THEN "pinned" ELSE "plain"
            /\ Goto(p, "notify")
            /\ UNCHANGED crashed
    /\ ForgetPoll(p)
    /\ UNCHANGED <<serviceVars, computer, dbRefCount, dbClosed, of,
                   interrupted, offlineCount, uiVars, pairPc, netPc, worldVars>>

\* The listener hears of it, unless it is a new PC that did not answer.  It is
\* tested and called in two steps: one that goes between them is a null pointer.
Notify(p) ==
    /\ pc[p] = "notify"
    /\ \/ /\ ReleaseReference
          /\ Return(p, TRUE)
          /\ ForgetPoll(p)
          /\ UNCHANGED crashed
       \/ /\ listener /\ ListenerGoing
          /\ p \in Adders => computer[p].state = "online"
          /\ crashed' = TRUE
          /\ UNCHANGED <<dbRefCount, dbClosed, pc, offlineCount, pollVars>>
    /\ UNCHANGED <<serviceVars, computer, db, of, interrupted, uiVars, pairPc,
                   netPc, worldVars>>

-----------------------------------------------------------------------------
(* addComputerBlocking(): the rest of an adder *)

\* The PC announces itself, or its address was typed in, and answers: the
\* adder has its details, with the certificate pinned for it if it is known
\* here, and polls it again.
Find(a) ==
    /\ pc[a] = "unborn"
    /\ ~destroyed
    /\ reachable
    /\ TuplesFree
    /\ computer' = [computer EXCEPT ![a] =
                      [Polled EXCEPT !.cert = /\ pollingTuple # Nobody
                                              /\ computer[pollingTuple].cert]]
    /\ Goto(a, "lock")
    /\ Happens
    /\ UNCHANGED <<serviceVars, dbVars, of, interrupted, offlineCount,
                   pollVars, uiVars, otherVars, reachable>>

\* addTuple(): the PC's entry takes the adder's details in, or there is a new one.
TakeIn(a, tu) ==
    /\ tu = IF pollingTuple # Nobody THEN pollingTuple ELSE tuples + 1
    /\ pollingTuple' = tu
    /\ tuples' = IF pollingTuple # Nobody THEN tuples ELSE tuples + 1
    /\ computer' = [computer EXCEPT
                      ![tu] = IF pollingTuple # Nobody THEN Updated(@, computer[a])
                              ELSE computer[a],
                      ![a] = Fresh(FALSE)]

\* Mutant: the entry gets a thread even if it has one.
AddTupleSpawning(a) ==
    /\ pc[a] = "adding"
    /\ TuplesFree
    /\ \E tu \in Tuples :
         /\ TakeIn(a, tu)
         /\ IF pollingActive
            THEN \E k \in PollThreads : /\ NewThread(tu, k)
                                        /\ pc' = [pc EXCEPT ![a] = "unborn", ![k] = "loop"]
            ELSE Goto(a, "unborn") /\ UNCHANGED <<thread, of>>
    /\ UNCHANGED <<pollingActive, listener, dbVars, interrupted, offlineCount,
                   pollVars, uiVars, otherVars, worldVars>>

\* It gets a thread if there is polling and it has none.
AddTuple(a) ==
    /\ pc[a] = "adding"
    /\ TuplesFree
    /\ \E tu \in Tuples :
         /\ TakeIn(a, tu)
         /\ IF pollingActive /\ thread[tu] = Nobody
            THEN \E k \in PollThreads : /\ NewThread(tu, k)
                                        /\ pc' = [pc EXCEPT ![a] = "unborn", ![k] = "loop"]
            ELSE Goto(a, "unborn") /\ UNCHANGED <<thread, of>>
    /\ UNCHANGED <<pollingActive, listener, dbVars, interrupted, offlineCount,
                   pollVars, uiVars, otherVars, worldVars>>

-----------------------------------------------------------------------------
(* startPolling() and stopPolling(), in steps, and who calls them.  The UI  *)
(* thread does one thing at a time.                                         *)

\* PcView.onResume(), onContextMenuClosed() or the end of a pairing, when it
\* is not polling already; AppView.onResume() whenever it comes.
StartUpdates(front) ==
    /\ uiPc = "idle"
    /\ ~destroyed
    /\ front \in {"pc", "app"}
    /\ screen \in {"none", front}
    /\ screen = front => front = "pc"
    /\ front = "pc" => ~runningPolling
    /\ screen' = front
    /\ pollingActive' = TRUE
    /\ listener' = TRUE
    /\ uiPc' = "starting"
    /\ UNCHANGED <<pollingTuple, tuples, thread, computer, dbVars, pollerVars,
                   runningPolling, destroyed, otherVars, worldVars>>

\* The loop of startPolling(): a state that is too old is forgotten, and an
\* entry without a thread gets one.
StartThreads ==
    /\ uiPc = "starting"
    /\ TuplesFree
    /\ uiPc' = "idle"
    /\ runningPolling' = (runningPolling \/ screen = "pc")
    /\ IF pollingTuple = Nobody
       THEN UNCHANGED <<computer, thread, of, pc>>
       ELSE /\ \E state \in {"unknown", computer[pollingTuple].state} :
                  computer' = [computer EXCEPT ![pollingTuple].state = state]
            /\ IF thread[pollingTuple] = Nobody
               THEN \E k \in PollThreads :
                        NewThread(pollingTuple, k) /\ Goto(k, "loop")
               ELSE UNCHANGED <<thread, of, pc>>
    /\ UNCHANGED <<pollingTuple, tuples, pollingActive, listener, dbVars,
                   interrupted, offlineCount, pollVars, screen, destroyed,
                   otherVars, worldVars>>

\* The screen is left, or PcView opens a context menu: PcView stops what it
\* believes to be running, AppView whatever is.
StopUpdates(left) ==
    /\ uiPc = "idle"
    /\ screen # "none"
    /\ left \/ screen = "pc"
    /\ screen' = IF left THEN "none" ELSE screen
    /\ IF screen = "app" \/ runningPolling
       THEN pollingActive' = FALSE /\ uiPc' = "stopping"
       ELSE left /\ UNCHANGED <<pollingActive, uiPc>>
    /\ UNCHANGED <<pollingTuple, tuples, thread, listener, computer, dbVars,
                   pollerVars, runningPolling, destroyed, otherVars, worldVars>>

\* The rest of onUnbind(), up to the listener's removal: the entry's thread is
\* interrupted and forgotten.
StopThread ==
    /\ TuplesFree
    /\ IF pollingTuple # Nobody THEN InterruptThread(pollingTuple)
       ELSE UNCHANGED <<interrupted, thread>>

StopThreads ==
    /\ uiPc = "stopping"
    /\ StopThread
    /\ listener' = FALSE
    /\ runningPolling' = FALSE
    /\ uiPc' = IF destroyed THEN "destroying" ELSE "idle"
    /\ UNCHANGED <<pollingTuple, tuples, pollingActive, computer, dbVars, pc,
                   of, offlineCount, pollVars, screen, destroyed, otherVars,
                   worldVars>>

\* The system unbinds and destroys the service: onUnbind(), then onDestroy().
Unbind ==
    /\ uiPc = "idle"
    /\ screen = "none"
    /\ ~destroyed
    /\ destroyed' = TRUE
    /\ pollingActive' = FALSE
    /\ uiPc' = "stopping"
    /\ Happens
    /\ UNCHANGED <<pollingTuple, tuples, thread, listener, computer, dbVars,
                   pollerVars, screen, runningPolling, otherVars, reachable>>

\* onDestroy(): "Remove the initial DB reference".
Destroy ==
    /\ uiPc = "destroying"
    /\ ReleaseReference
    /\ uiPc' = "over"
    /\ UNCHANGED <<serviceVars, computer, db, pollerVars, screen,
                   runningPolling, destroyed, otherVars, worldVars>>

\* removeComputer(), from PcView's menu: the record goes first ...
RemoveRecord ==
    /\ uiPc = "idle"
    /\ screen = "pc"
    /\ pollingTuple # Nobody
    /\ dbRefCount' = dbRefCount + 1
    /\ db' = "gone"
    /\ uiPc' = "removing"
    /\ Happens
    /\ UNCHANGED <<serviceVars, computer, dbClosed, pollerVars, screen,
                   runningPolling, destroyed, otherVars, reachable>>

\* ... and the entry with its thread after it.
RemoveTuple ==
    /\ uiPc = "removing"
    /\ StopThread
    /\ pollingTuple' = Nobody
    /\ ReleaseReference
    /\ uiPc' = "idle"
    /\ UNCHANGED <<tuples, pollingActive, listener, computer, db, pc, of,
                   offlineCount, pollVars, screen, runningPolling, destroyed,
                   otherVars, worldVars>>

-----------------------------------------------------------------------------
(* The thread of PcView.doPair() *)

PairGoto(label) == pairPc' = label /\ UNCHANGED <<netPc, crashed>>

\* It begins with stopComputerUpdates(true), as the UI thread has it.
Pair ==
    /\ pairPc = "idle"
    /\ uiPc = "idle"
    /\ screen = "pc"
    /\ pollingTuple # Nobody
    /\ computer[pollingTuple].state # "offline"
    /\ IF runningPolling
       THEN pollingActive' = FALSE /\ PairGoto("stopping")
       ELSE PairGoto("pairing") /\ UNCHANGED pollingActive
    /\ Happens
    /\ UNCHANGED <<pollingTuple, tuples, thread, listener, computer, dbVars,
                   pollerVars, uiVars, reachable>>

PairStops ==
    /\ pairPc = "stopping"
    /\ StopThread
    /\ listener' = FALSE
    /\ PairGoto("waiting")
    /\ UNCHANGED <<pollingTuple, tuples, pollingActive, computer, dbVars, pc,
                   of, offlineCount, pollVars, uiVars, worldVars>>

\* waitForPollingStopped()
PairWaits ==
    /\ pairPc = "waiting"
    /\ ~PollsActive
    /\ runningPolling' = FALSE
    /\ PairGoto("pairing")
    /\ UNCHANGED <<serviceVars, computer, dbVars, pollerVars, screen, uiPc,
                   destroyed, worldVars>>

\* It comes to nothing, or the user enters the PIN at the PC, whose certificate
\* is pinned "for later HTTPS use" in the entry it still has.
PairingFails ==
    /\ pairPc = "pairing"
    /\ PairGoto("idle")
    /\ UNCHANGED <<serviceVars, computer, dbVars, pollerVars, uiVars, worldVars>>

Pin ==
    /\ pairPc = "pairing"
    /\ reachable
    /\ TuplesFree
    /\ IF pollingTuple = Nobody
       THEN crashed' = TRUE /\ UNCHANGED <<computer, pairPc, netPc>>
       ELSE /\ computer' = [computer EXCEPT ![pollingTuple].cert = TRUE]
            /\ PairGoto("pinned")
    /\ UNCHANGED <<serviceVars, dbVars, pollerVars, uiVars, worldVars>>

\* invalidateStateForComputer() enters pollingTuples ...
Invalidate ==
    /\ pairPc = "pinned"
    /\ TuplesFree
    /\ PairGoto(IF pollingTuple = Nobody THEN "idle" ELSE "invalidating")
    /\ UNCHANGED <<serviceVars, computer, dbVars, pollerVars, uiVars, worldVars>>

\* ... and holds it until it has the networkLock too.
Invalidated ==
    /\ pairPc = "invalidating"
    /\ NetworkLockFree(pollingTuple)
    /\ computer' = [computer EXCEPT ![pollingTuple].state = "unknown"]
    /\ PairGoto("idle")
    /\ UNCHANGED <<serviceVars, dbVars, pollerVars, uiVars, worldVars>>

-----------------------------------------------------------------------------
(* The network callback, and the PC *)

\* A network comes, or the last one goes, and with it the entry's state.
NetworkChanges ==
    /\ netPc = "idle"
    /\ TuplesFree
    /\ ~destroyed
    /\ pollingTuple # Nobody
    /\ Happens
    /\ \E state \in {"unknown", "offline"} :
           computer' = [computer EXCEPT ![pollingTuple].state = state]
    /\ netPc' = IF listener THEN "calling" ELSE "idle"
    /\ UNCHANGED <<serviceVars, dbVars, pollerVars, uiVars, pairPc, crashed,
                   reachable>>

NetworkCalls ==
    /\ netPc = "calling"
    /\ IF listener THEN netPc' = "idle" /\ UNCHANGED crashed
       ELSE crashed' = TRUE /\ UNCHANGED netPc
    /\ UNCHANGED <<serviceVars, computer, dbVars, pollerVars, uiVars, pairPc,
                   worldVars>>

\* The PC is switched on or off, or moves into or out of reach.
ReachChanges ==
    /\ Happens
    /\ reachable' = ~reachable
    /\ UNCHANGED <<serviceVars, computer, dbVars, pollerVars, uiVars,
                   otherVars>>

-----------------------------------------------------------------------------
(* The system *)

Poll(p) == \/ Lock(p) \/ Count(p)
           \/ PollAnswered(p) \/ PollFails(p)
           \/ ReadDatabase(p) \/ WriteDatabase(p)
           \/ Notify(p)

PollThread(k) == Loop(k) \/ Poll(k) \/ PollInterrupted(k)

Adder(a) == Find(a) \/ Poll(a) \/ AddTuple(a)

UI == \/ \E front \in {"pc", "app"} : StartUpdates(front)
      \/ StartThreads
      \/ \E left \in BOOLEAN : StopUpdates(left)
      \/ StopThreads
      \/ Unbind \/ Destroy
      \/ RemoveRecord \/ RemoveTuple

PairSteps == PairStops \/ PairWaits \/ PairingFails \/ Pin \/ Invalidate \/ Invalidated

World == NetworkChanges \/ NetworkCalls \/ ReachChanges

Next ==
    /\ ~crashed
    /\ \/ \E k \in PollThreads : PollThread(k)
       \/ \E a \in Adders : Adder(a)
       \/ UI
       \/ Pair \/ PairSteps
       \/ World

Spec == Init /\ [][Next]_vars

\* Threads run, requests end and sleeps too.  Nothing is assumed of the user, the
\* network or the PC, nor of who gets a lock that several wait for.
Fairness ==
    /\ \A k \in PollThreads : WF_vars(~crashed /\ PollThread(k))
    /\ WF_vars(~crashed /\ PairSteps)
    /\ WF_vars(~crashed /\ NetworkCalls)

FairSpec == Spec /\ Fairness

-----------------------------------------------------------------------------
(* What it promises *)

\* Every variable has its type; the reference count is never negative.
TypeOK ==
    /\ pollingTuple \in Tuples \cup {Nobody}
    /\ tuples \in 0 .. MaxTuples
    /\ thread \in [Tuples -> PollThreads \cup {Nobody}]
    /\ computer \in [Tuples \cup Adders -> Details]
    /\ pollingActive \in BOOLEAN
    /\ listener \in BOOLEAN
    /\ dbRefCount \in Nat
    /\ dbClosed \in BOOLEAN
    /\ destroyed \in BOOLEAN
    /\ crashed \in BOOLEAN
    /\ pc \in [Pollers -> InPoll \cup {"unborn", "loop", "lock", "adding", "gone"}]
    /\ of \in [PollThreads -> Tuples]
    /\ interrupted \in [PollThreads -> BOOLEAN]
    /\ offlineCount \in [PollThreads -> 0 .. OFFLINE_POLL_TRIES]
    /\ tries \in [Pollers -> {0, INITIAL_POLL_TRIES, OFFLINE_POLL_TRIES}]
    /\ existing \in [Pollers -> {"gone", "plain", "pinned"}]
    /\ db \in {"gone", "plain", "pinned"}
    /\ screen \in {"pc", "app", "none"}
    /\ uiPc \in {"idle", "starting", "stopping", "destroying", "removing", "over"}
    /\ runningPolling \in BOOLEAN
    /\ pairPc \in {"idle", "stopping", "waiting", "pairing", "pinned",
                   "invalidating"}
    /\ netPc \in {"idle", "calling"}
    /\ reachable \in BOOLEAN
    /\ events \in 0 .. MaxEvents

\* Whoever has counted a reference in dbRefCount and not released it yet.
Counted == {p \in Pollers : pc[p] \in {"asking", "reading", "writing", "notify"}}

\* Every way out of a poll and of a removal releases the one reference it took:
\* the count is that of the polls, the removal and the service itself, and the
\* database is open while the service is there and closed when all have gone.
ReferencesBalance ==
    /\ dbRefCount = Cardinality(Counted)
                      + (IF uiPc = "removing" THEN 1 ELSE 0)
                      + (IF uiPc = "over" THEN 0 ELSE 1)
    /\ dbClosed => uiPc = "over"
    /\ dbRefCount = 0 => dbClosed

\* A thread that could go on polling.
Live(k) == pc[k] \notin {"unborn", "gone"} /\ ~interrupted[k]

\* A polling thread that nobody has interrupted is the one its entry knows, and
\* its entry is the one the service has of the PC: whichever of starting,
\* stopping, adding, removing and pairing cross, no second thread polls the PC
\* and none polls for an entry that was thrown away.
OneThreadGoesOn ==
    \A k \in PollThreads :
        Live(k) => pollingTuple = of[k] /\ thread[of[k]] = k

\* The certificate pinned in an entry stays: no poll sent before the pairing, no
\* discovery and no answer that comes without one takes it away.
PinIsKept ==
    [][\A tu \in Tuples : computer[tu].cert => computer'[tu].cert]_vars

\* Polling goes on for the PC.
Watched == ~crashed /\ pollingActive /\ \E k \in PollThreads : Live(k)
TakenFor(state) == pollingTuple # Nobody /\ computer[pollingTuple].state = state
Pinned == pollingTuple # Nobody /\ computer[pollingTuple].cert

\* While the PC is polled, it is taken for what it is: online when it stays in
\* reach, and offline when it does not.
StateFollowsHost ==
    /\ <>[](Watched /\ reachable) => []<>TakenFor("online")
    /\ <>[](Watched /\ ~reachable) => []<>TakenFor("offline")

\* A pinned certificate gets into the database, if the PC has a record there and
\* answers: nothing that was read before the pairing is written after it for good.
CertIsSaved ==
    <>[](Watched /\ reachable /\ Pinned /\ db # "gone") => <>[](db = "pinned")
=============================================================================
