---------------------------- MODULE EvdevReader ----------------------------
(***************************************************************************)
(* The root helper that reads mice and keyboards for the app               *)
(* (jni/evdev_reader): a process whose main thread enumerates /dev/input   *)
(* and answers the app's grab requests, with one thread for each device it *)
(* reads.  The threads and main share a linked list of heap entries under  *)
(* DeviceListLock, and the flag "grabbing" under no lock at all.           *)
(*                                                                         *)
(* The kernel is part of the model: descriptors are numbers that it hands  *)
(* out again once they are closed, a device that is unplugged and plugged  *)
(* in again under its old name is another device, and only one descriptor  *)
(* at a time holds the grab of a device.                                   *)
(***************************************************************************)
EXTENDS Naturals, Sequences

CONSTANTS
    Devices,            \* names under /dev/input
    Pollable,           \* those that are a mouse or a keyboard, and no gamepad
    Removable,          \* those that are plugged in and unplugged
    Entries,            \* addresses malloc() can return
    NoEntry,            \* NULL
    NoDevice,           \* no name
    MaxFd,              \* bound: descriptors open at a time
    MaxPlugs,           \* bound: devices plugged in after the start
    MaxRequests,        \* bound: requests of the app
    MaxFaults           \* bound: calls that fail although the device is there

Fds == 1 .. MaxFd
NoFd == 0
NoFile == [dev |-> NoDevice, plug |-> 0]    \* what a closed descriptor is open on

ASSUME EvdevReaderAssumption ==
    /\ Pollable \subseteq Devices /\ Removable \subseteq Devices
    /\ NoEntry \notin Entries
    /\ NoDevice \notin Devices
    /\ MaxFd \in Nat /\ MaxPlugs \in Nat /\ MaxRequests \in Nat /\ MaxFaults \in Nat

VARIABLES
    (* main() *)
    mainPc,             \* where main() is
    todo,               \* names that the directory scan has yet to return
    name,               \* the name startPollForDevice() was given
    new,                \* the entry startPollForDevice() is filling in
    walk,               \* entries a request has yet to be carried out on
    grabbing,
    (* the entries and their threads *)
    list,               \* those reachable from DeviceListHead
    pc,                 \* of the thread; "free" once the entry is freed
    fd, devName,        \* the fields of an entry
    (* the kernel *)
    plugged,            \* what is plugged in under a name, 0 for nothing
    nextPlug,           \* the next device that is plugged in
    file,               \* what a descriptor is open on
    holder,             \* the descriptor that has grabbed the device
    (* the app *)
    inbox,              \* requests in the socket
    closed,             \* the app's end: "no", "closed" or "reset"
    sent, faults,       \* counters of the bounds
    crossed             \* history: entries whose grab crossed the last request

mainVars == <<mainPc, todo, name, new, walk, grabbing>>
entryVars == <<list, pc, fd, devName>>
plugVars == <<plugged, nextPlug>>
kernelVars == <<plugVars, file, holder>>
appVars == <<inbox, closed, sent>>
vars == <<mainVars, entryVars, kernelVars, appVars, faults, crossed>>

Init ==
    /\ mainPc = "connect"
    /\ todo = {} /\ name = NoDevice /\ new = NoEntry /\ walk = {}
    /\ grabbing = TRUE
    /\ list = {}
    /\ pc = [e \in Entries |-> "free"]
    /\ fd = [e \in Entries |-> NoFd]
    /\ devName = [e \in Entries |-> NoDevice]
    /\ plugged \in [Devices -> {0, 1}] /\ \A d \in Devices \ Removable : plugged[d] = 1
    /\ nextPlug = 2
    /\ file = [f \in Fds |-> NoFile]
    /\ holder = [d \in Devices |-> NoFd]
    /\ inbox = << >> /\ closed = "no" /\ sent = 0
    /\ faults = 0
    /\ crossed = {}

\* The device a descriptor was opened on is still plugged in.
Live(f) ==
    /\ f \in Fds /\ file[f] # NoFile
    /\ file[f].plug = plugged[file[f].dev]

Holds(f) == Live(f) /\ holder[file[f].dev] = f

\* ioctl(f, EVIOCGRAB, 1): EBUSY when any descriptor has the grab already.
CanGrab(f) == Live(f) /\ holder[file[f].dev] = NoFd
Grab(f) == holder' = [holder EXCEPT ![file[f].dev] = f]

\* ioctl(f, EVIOCGRAB, 0), and the end of a descriptor: only its own grab.
Ungrab(f) == holder' = [d \in Devices |-> IF Holds(f) /\ file[f].dev = d
                                          THEN NoFd ELSE holder[d]]
Close(f) == file' = [file EXCEPT ![f] = NoFile] /\ Ungrab(f)

\* main() is in a section under DeviceListLock.
Locked == mainPc \in {"open", "check", "create", "insert", "walk"}

Fault == faults < MaxFaults /\ faults' = faults + 1

\* The process ends, and its threads, heap and descriptors with it.
Exit ==
    /\ mainPc' = "exited"
    /\ todo' = {} /\ name' = NoDevice /\ new' = NoEntry /\ walk' = {}
    /\ list' = {}
    /\ pc' = [e \in Entries |-> "free"]
    /\ fd' = [e \in Entries |-> NoFd]
    /\ devName' = [e \in Entries |-> NoDevice]
    /\ file' = [f \in Fds |-> NoFile]
    /\ holder' = [d \in Devices |-> NoFd]
    /\ crossed' = {}
    /\ UNCHANGED <<grabbing, plugVars, appVars>>

-----------------------------------------------------------------------------
(* main(): the devices *)

\* opendir() and what readdir() will return.
Scan ==
    /\ mainPc' = "enumerate"
    /\ todo' = {d \in Devices : plugged[d] # 0}

Connect ==
    /\ mainPc = "connect"
    /\ \/ Scan /\ UNCHANGED <<name, new, walk, grabbing, entryVars,
                              kernelVars, appVars, faults, crossed>>
       \/ Exit /\ Fault

\* One name of the scan: the lock is taken, and a name on the list is skipped.
Dedupe ==
    /\ mainPc = "enumerate"
    /\ \E d \in todo :
          /\ todo' = todo \ {d}
          /\ IF \E e \in list : devName[e] = d
             THEN UNCHANGED <<mainPc, name>>
             ELSE mainPc' = "open" /\ name' = d
    /\ UNCHANGED <<new, walk, grabbing, entryVars, kernelVars, appVars, faults,
                   crossed>>

\* open() and malloc(), of the lowest descriptor and of any free address.
Open ==
    /\ mainPc = "open" /\ plugged[name] # 0
    /\ \E f \in Fds, e \in Entries :
          /\ file[f] = NoFile /\ \A g \in 1 .. f - 1 : file[g] # NoFile
          /\ pc[e] = "free"
          /\ file' = [file EXCEPT ![f] = [dev |-> name, plug |-> plugged[name]]]
          /\ pc' = [pc EXCEPT ![e] = "filled"]
          /\ fd' = [fd EXCEPT ![e] = f]
          /\ devName' = [devName EXCEPT ![e] = name]
          /\ new' = e
    /\ mainPc' = "check"
    /\ UNCHANGED <<todo, name, walk, grabbing, list, plugVars, holder, appVars,
                   faults, crossed>>

\* Either fails, and what was opened is closed.
OpenFails ==
    /\ mainPc = "open"
    /\ \/ plugged[name] = 0 /\ UNCHANGED faults
       \/ (\A f \in Fds : file[f] # NoFile) /\ UNCHANGED faults
       \/ (\A e \in Entries : pc[e] # "free") /\ UNCHANGED faults
       \/ Fault
    /\ mainPc' = "enumerate" /\ name' = NoDevice
    /\ UNCHANGED <<todo, new, walk, grabbing, entryVars, kernelVars, appVars,
                   crossed>>

Free(e) ==
    /\ pc' = [pc EXCEPT ![e] = "free"]
    /\ fd' = [fd EXCEPT ![e] = NoFd]
    /\ devName' = [devName EXCEPT ![e] = NoDevice]

\* free() and close() of the entry that was to be polled.
GiveUp ==
    /\ Free(new)
    /\ Close(fd[new])
    /\ new' = NoEntry
    /\ mainPc' = "enumerate" /\ name' = NoDevice
    /\ UNCHANGED <<todo, walk, grabbing, list, plugVars, appVars, crossed>>

\* precheckDeviceForPolling() does not look at the result of its ioctl(), so
\* that it reads whatever is on the stack for a device that is gone.
Precheck ==
    /\ mainPc = "check"
    /\ \/ /\ name \in Pollable \/ ~Live(fd[new])
          /\ mainPc' = "create"
          /\ UNCHANGED <<todo, name, new, walk, grabbing, entryVars, kernelVars,
                         appVars, crossed>>
       \/ (name \notin Pollable \/ ~Live(fd[new])) /\ GiveUp
    /\ UNCHANGED faults

\* pthread_create(): the thread runs before its entry is on the list.
CreateThread ==
    /\ mainPc = "create"
    /\ pc' = [pc EXCEPT ![new] = "start"]
    /\ mainPc' = "insert"
    /\ UNCHANGED <<todo, name, new, walk, grabbing, list, fd, devName,
                   kernelVars, appVars, faults, crossed>>

CreateFails == mainPc = "create" /\ GiveUp /\ Fault

Insert ==
    /\ mainPc = "insert"
    /\ list' = list \cup {new}
    /\ new' = NoEntry
    /\ mainPc' = "enumerate" /\ name' = NoDevice
    /\ UNCHANGED <<todo, walk, grabbing, pc, fd, devName, kernelVars,
                   appVars, faults, crossed>>

Enumerated ==
    /\ mainPc = "enumerate" /\ todo = {}
    /\ mainPc' = "wait"
    /\ UNCHANGED <<todo, name, new, walk, grabbing, entryVars, kernelVars,
                   appVars, faults, crossed>>

-----------------------------------------------------------------------------
(* main(): the requests *)

\* A second without a request; a directory that cannot be read is passed over.
Timeout ==
    /\ mainPc = "wait" /\ inbox = << >> /\ closed = "no"
    /\ \/ Scan /\ UNCHANGED faults
       \/ Fault /\ UNCHANGED <<mainPc, todo>>
    /\ UNCHANGED <<name, new, walk, grabbing, entryVars, kernelVars, appVars,
                   crossed>>

\* The flag and the walk over the list are one section under the lock.
Carry(regrab) ==
    /\ grabbing' = regrab
    /\ walk' = list
    /\ mainPc' = "walk"
    /\ UNCHANGED <<todo, name, new, entryVars, kernelVars, faults, crossed>>

Receive ==
    /\ mainPc = "wait" /\ inbox # << >>
    /\ Carry(Head(inbox) = "regrab")
    /\ inbox' = Tail(inbox)
    /\ UNCHANGED <<closed, sent>>

\* recv() fails once with ECONNRESET.  Its -1 is compared with a size, as an
\* unsigned number, and passes for a full read: requestId is what it happens
\* to be.
ReceiveFails ==
    /\ mainPc = "wait" /\ inbox = << >> /\ closed = "reset"
    /\ \/ \E regrab \in BOOLEAN :
             Carry(regrab) /\ closed' = "closed" /\ UNCHANGED <<inbox, sent>>
       \/ Exit /\ UNCHANGED faults

ReceiveEnd ==
    /\ mainPc = "wait" /\ inbox = << >> /\ closed = "closed"
    /\ Exit
    /\ UNCHANGED faults

\* ioctl(EVIOCGRAB) on one entry of the list; nothing looks at its result.
CarryOut(e) ==
    /\ mainPc = "walk" /\ e \in walk
    /\ walk' = walk \ {e}
    /\ IF grabbing
       THEN /\ IF CanGrab(fd[e]) THEN Grab(fd[e]) ELSE UNCHANGED holder
            /\ crossed' = IF CanGrab(fd[e]) \/ Holds(fd[e])
                          THEN crossed \ {e} ELSE crossed \cup {e}
       ELSE Ungrab(fd[e]) /\ crossed' = crossed \ {e}
    /\ UNCHANGED <<mainPc, todo, name, new, grabbing, entryVars, plugVars, file,
                   appVars, faults>>

CarriedOut ==
    /\ mainPc = "walk" /\ walk = {}
    /\ mainPc' = "wait"
    /\ UNCHANGED <<todo, name, new, walk, grabbing, entryVars, kernelVars,
                   appVars, faults, crossed>>

-----------------------------------------------------------------------------
(* pollThreadFunc() *)

Goto(e, label) == pc' = [pc EXCEPT ![e] = label]

\* The flag is read under no lock, and used in the next step.
Start(e) ==
    /\ pc[e] = "start"
    /\ Goto(e, IF grabbing THEN "grab" ELSE "poll")
    /\ UNCHANGED <<mainVars, list, fd, devName, kernelVars, appVars, faults,
                   crossed>>

\* Mutant: the thread goes on polling a device that it could not grab.
GrabDeviceOrNot(e) ==
    /\ pc[e] = "grab"
    /\ Goto(e, "poll")
    /\ IF CanGrab(fd[e]) THEN Grab(fd[e]) ELSE UNCHANGED holder
    /\ crossed' = IF grabbing THEN crossed ELSE crossed \cup {e}
    /\ UNCHANGED <<mainVars, list, fd, devName, plugVars, file, appVars, faults>>

GrabDevice(e) ==
    /\ pc[e] = "grab"
    /\ \/ /\ CanGrab(fd[e]) /\ Grab(fd[e])
          /\ Goto(e, "poll")
          /\ crossed' = IF grabbing THEN crossed ELSE crossed \cup {e}
          /\ UNCHANGED faults
       \/ /\ ~CanGrab(fd[e])
          /\ Goto(e, "remove")
          /\ UNCHANGED <<holder, crossed, faults>>
    /\ UNCHANGED <<mainVars, list, fd, devName, plugVars, file, appVars>>

\* poll() and read() of an event of the device.
ReadEvent(e) ==
    /\ pc[e] = "poll" /\ Live(fd[e])
    /\ Goto(e, "got")
    /\ UNCHANGED <<mainVars, list, fd, devName, kernelVars, appVars, faults,
                   crossed>>

\* outputEvdevData(), when the flag is set by now.  A send() to an app that
\* is gone raises SIGPIPE.
Output(e) ==
    /\ pc[e] = "got"
    /\ \/ /\ Goto(e, "poll")
          /\ UNCHANGED <<mainVars, list, fd, devName, kernelVars, appVars,
                         faults, crossed>>
       \/ grabbing /\ closed # "no" /\ Exit /\ UNCHANGED faults

PollFails(e) ==
    /\ pc[e] = "poll" /\ ~Live(fd[e])
    /\ Goto(e, "remove")
    /\ UNCHANGED <<mainVars, list, fd, devName, kernelVars, appVars, faults,
                   crossed>>

\* So it may for a device that is there.
PollBreaks(e) ==
    /\ pc[e] = "poll" /\ Fault
    /\ Goto(e, "remove")
    /\ UNCHANGED <<mainVars, list, fd, devName, kernelVars, appVars, crossed>>

\* Mutant: the entry is taken off the list without the lock.
RemoveUnlocked(e) ==
    /\ pc[e] = "remove"
    /\ list' = list \ {e}
    /\ Goto(e, "ungrab")
    /\ UNCHANGED <<mainVars, fd, devName, kernelVars, appVars, faults, crossed>>

\* The search assumes that the list holds an entry: it reads ->next of the head.
Remove(e) ==
    /\ pc[e] = "remove" /\ ~Locked
    /\ list' = list \ {e}
    /\ Goto(e, "ungrab")
    /\ UNCHANGED <<mainVars, fd, devName, kernelVars, appVars, faults, crossed>>

UngrabDevice(e) ==
    /\ pc[e] = "ungrab"
    /\ Ungrab(fd[e])
    /\ Goto(e, "close")
    /\ UNCHANGED <<mainVars, list, fd, devName, plugVars, file, appVars, faults,
                   crossed>>

\* Mutant: the descriptor is never closed.
CloseDeviceLeaking(e) ==
    /\ pc[e] = "close"
    /\ Free(e)
    /\ crossed' = crossed \ {e}
    /\ UNCHANGED <<mainVars, list, kernelVars, appVars, faults>>

CloseDevice(e) ==
    /\ pc[e] = "close"
    /\ Close(fd[e])
    /\ Free(e)
    /\ crossed' = crossed \ {e}
    /\ UNCHANGED <<mainVars, list, plugVars, appVars, faults>>

-----------------------------------------------------------------------------
(* The app and the devices *)

Request ==
    /\ closed = "no" /\ sent < MaxRequests /\ mainPc # "exited"
    /\ \E r \in {"ungrab", "regrab"} : inbox' = Append(inbox, r)
    /\ sent' = sent + 1
    /\ UNCHANGED <<mainVars, entryVars, kernelVars, closed, faults, crossed>>

\* A close with events unread resets the connection.
Disconnect ==
    /\ closed = "no" /\ mainPc # "exited"
    /\ closed' \in {"closed", "reset"}
    /\ UNCHANGED <<mainVars, entryVars, kernelVars, inbox, sent, faults, crossed>>

Plug(d) ==
    /\ plugged[d] = 0 /\ nextPlug <= MaxPlugs + 1
    /\ plugged' = [plugged EXCEPT ![d] = nextPlug]
    /\ nextPlug' = nextPlug + 1
    /\ UNCHANGED <<mainVars, entryVars, file, holder, appVars, faults, crossed>>

Unplug(d) ==
    /\ plugged[d] # 0
    /\ plugged' = [plugged EXCEPT ![d] = 0]
    /\ holder' = [holder EXCEPT ![d] = NoFd]
    /\ UNCHANGED <<mainVars, entryVars, nextPlug, file, appVars, faults, crossed>>

-----------------------------------------------------------------------------
Main ==
    \/ Connect \/ Dedupe \/ Open \/ OpenFails \/ Precheck \/ CreateThread
    \/ CreateFails \/ Insert \/ Enumerated
    \/ Timeout \/ Receive \/ ReceiveFails \/ ReceiveEnd \/ CarriedOut
    \/ \E e \in Entries : CarryOut(e)

\* What a thread goes through without waiting for an event.
Thread(e) ==
    \/ Start(e) \/ GrabDevice(e) \/ Output(e) \/ PollFails(e) \/ Remove(e)
    \/ UngrabDevice(e) \/ CloseDevice(e)

World ==
    \/ Request \/ Disconnect
    \/ \E d \in Removable : Plug(d) \/ Unplug(d)
    \/ \E e \in Entries : ReadEvent(e) \/ PollBreaks(e)

Next == Main \/ World \/ \E e \in Entries : Thread(e)

Spec == Init /\ [][Next]_vars

\* The scheduler runs main() and every thread, and the second of poll() passes.
\* A thread that waits for the lock gets it: main() is without it a second at
\* a time.
FairSpec ==
    /\ Spec
    /\ WF_vars(Main)
    /\ \A e \in Entries : WF_vars(Thread(e)) /\ SF_vars(Remove(e))

-----------------------------------------------------------------------------
(* Properties *)

TypeOK ==
    /\ mainPc \in {"connect", "enumerate", "open", "check", "create", "insert",
                   "wait", "walk", "exited"}
    /\ todo \subseteq Devices /\ name \in Devices \cup {NoDevice}
    /\ new \in Entries \cup {NoEntry} /\ walk \subseteq Entries
    /\ grabbing \in BOOLEAN
    /\ list \subseteq Entries
    /\ pc \in [Entries -> {"free", "filled", "start", "grab", "poll", "got",
                           "remove", "ungrab", "close"}]
    /\ fd \in [Entries -> Fds \cup {NoFd}]
    /\ devName \in [Entries -> Devices \cup {NoDevice}]
    /\ plugged \in [Devices -> 0 .. MaxPlugs + 1] /\ nextPlug \in 2 .. MaxPlugs + 2
    /\ file \in [Fds -> [dev : Devices, plug : Nat] \cup {NoFile}]
    /\ holder \in [Devices -> Fds \cup {NoFd}]
    /\ inbox \in Seq({"ungrab", "regrab"}) /\ closed \in {"no", "closed", "reset"}
    /\ sent \in 0 .. MaxRequests /\ faults \in 0 .. MaxFaults
    /\ crossed \subseteq Entries

\* What is reachable from the list can be used: main() and the threads look at
\* an entry of the list only while it is allocated, its descriptor is open on
\* the device whose name it has, and no other entry has that descriptor or
\* that name.  Removing an entry finds it on the list, which is therefore not
\* empty (cleanup of pollThreadFunc(), startPollForDevice(), main()).
ListIsAlive ==
    /\ \A e \in list :
          /\ pc[e] \in {"start", "grab", "poll", "got", "remove"}
          /\ fd[e] \in Fds /\ file[fd[e]] # NoFile
          /\ file[fd[e]].dev = devName[e]
          /\ \A other \in list \ {e} :
                fd[other] # fd[e] /\ devName[other] # devName[e]
    /\ \A e \in Entries : pc[e] = "remove" => e \in list \cup {new}
    /\ walk \subseteq list

\* Once the app's last request has been carried out, a device that is being
\* read is grabbed exactly when that request said so.  The exceptions are the
\* entries that grabbed their device after the flag they had read was cleared,
\* and those a request met while another descriptor still had the grab; they
\* last until the next request, and no other path leads to one.
GrabFollowsRequest ==
    mainPc # "walk" =>
        \A e \in list \ crossed :
            pc[e] \in {"poll", "got"} /\ Live(fd[e]) => (Holds(fd[e]) <=> grabbing)

\* A mouse or keyboard that stays plugged in is read in the end, although its
\* name may still be on the list for the device that was unplugged, its grab
\* may fail, and its calls may; the process has ended otherwise
\* (enumerateDevices() once a second, Dedupe).
PluggedDeviceIsRead ==
    \A d \in Pollable :
        []<>(\/ mainPc = "exited" \/ plugged[d] = 0
             \/ \E e \in list : /\ devName[e] = d /\ Live(fd[e])
                                /\ pc[e] \in {"poll", "got"})
=============================================================================
