------------------------- MODULE EvdevReader_proofs -------------------------
(***************************************************************************)
(* That the list of devices never reaches freed memory or a closed         *)
(* descriptor, and that the grab follows the app's requests: for any       *)
(* number of devices, entries, descriptors, requests and faults.           *)
(*                                                                         *)
(* ListIsAlive alone is not inductive: an entry is filled in before it is  *)
(* on the list, its thread runs before it is on the list, and an entry is  *)
(* off the list before its descriptor is closed.  OwnFiles and             *)
(* EntriesArePlaced say what holds of an entry in all of those stages, and *)
(* KernelAgrees that the kernel gives a grab to nobody but an open         *)
(* descriptor of that device.                                              *)
(***************************************************************************)
EXTENDS EvdevReader, TLAPS

Reading == {"start", "grab", "poll", "got"}

\* Every allocated entry has a descriptor of its own, open on its device.
OwnFiles ==
    \A e \in Entries : pc[e] # "free" =>
        /\ fd[e] \in Fds /\ devName[e] \in Devices
        /\ file[fd[e]] # NoFile /\ file[fd[e]].dev = devName[e]
        /\ \A other \in Entries \ {e} : pc[other] # "free" => fd[other] # fd[e]

\* It is on the list, about to be put there by main(), or on its way out.
EntriesArePlaced ==
    /\ \A e \in Entries : pc[e] = "filled" => e = new
    /\ \A e \in Entries : pc[e] \in Reading \cup {"remove"} => e \in list \cup {new}
    /\ \A e \in list : pc[e] \in Reading \cup {"remove"}

\* What main() has in hand while it holds the lock.
MainAgrees ==
    /\ walk \subseteq list /\ (walk # {} => mainPc = "walk")
    /\ mainPc \in {"open", "check", "create", "insert"} =>
          name \in Devices /\ \A e \in list : devName[e] # name
    /\ mainPc \in {"check", "create", "insert"} <=> new # NoEntry
    /\ new # NoEntry =>
          /\ new \in Entries \ list /\ devName[new] = name
          /\ IF mainPc = "insert" THEN pc[new] \in Reading \cup {"remove"}
                                  ELSE pc[new] = "filled"

NamesDiffer == \A e, other \in list : e # other => devName[e] # devName[other]

\* The kernel gives a grab to an open descriptor of the device that is plugged
\* in, and no device that was unplugged comes back.
KernelAgrees ==
    /\ \A d \in Devices : plugged[d] < nextPlug
    /\ \A f \in Fds : file[f] # NoFile => file[f].plug \in 1 .. nextPlug - 1
    /\ \A d \in Devices : holder[d] # NoFd =>
          plugged[d] # 0 /\ file[holder[d]] = [dev |-> d, plug |-> plugged[d]]

\* The entries the current request has been carried out on, and those before
\* they poll: a grab they have already is one the last request asked for.
GrabAgrees ==
    /\ crossed \subseteq {e \in Entries : pc[e] \notin {"free", "filled"}}
    /\ \A e \in Entries \ (crossed \cup walk) :
          /\ pc[e] \in {"poll", "got"} /\ Live(fd[e]) => (Holds(fd[e]) <=> grabbing)
          /\ pc[e] \in {"start", "grab"} /\ Holds(fd[e]) => grabbing
    /\ \A e \in Entries : pc[e] = "filled" => ~Holds(fd[e])

IInv ==
    /\ TypeOK /\ OwnFiles /\ EntriesArePlaced /\ MainAgrees /\ NamesDiffer
    /\ KernelAgrees /\ GrabAgrees

LEMMA IInvImpliesGrabFollows == IInv => GrabFollowsRequest
BY DEF IInv, GrabAgrees, MainAgrees, GrabFollowsRequest, TypeOK

LEMMA IInvImpliesListIsAlive == IInv => ListIsAlive
BY DEF IInv, OwnFiles, EntriesArePlaced, MainAgrees, NamesDiffer, ListIsAlive, Reading,
       TypeOK

LEMMA InitEstablishes == Init => IInv
<1> SUFFICES ASSUME Init PROVE IInv
  OBVIOUS
<1>1. TypeOK
  BY EvdevReaderAssumption DEF Init, TypeOK
<1>2. KernelAgrees /\ GrabAgrees
  BY <1>1 DEF Init, TypeOK, KernelAgrees, GrabAgrees, Holds, Live, NoFd, Fds
<1> QED
  BY <1>1, <1>2 DEF Init, IInv, OwnFiles, EntriesArePlaced, MainAgrees, NamesDiffer, Reading
-----------------------------------------------------------------------------
(* What the kernel's descriptors are after a step *)

\* A step that leaves the descriptors and the kernel alone.
LEMMA KernelStays ==
    ASSUME UNCHANGED <<fd, plugged, file, holder>>, NEW e \in Entries
    PROVE  (Live(fd[e])' <=> Live(fd[e])) /\ (Holds(fd[e])' <=> Holds(fd[e]))
BY DEF Live, Holds

LEMMA LiveStays ==
    ASSUME UNCHANGED <<file, plugged, fd>>, NEW x \in Entries
    PROVE  Live(fd[x])' <=> Live(fd[x])
BY DEF Live

\* A holder is a descriptor of the device it has grabbed.
LEMMA GrabType ==
    ASSUME TypeOK, NEW f \in Fds, CanGrab(f), Grab(f)
    PROVE  /\ file[f].dev \in Devices
           /\ holder' = [holder EXCEPT ![file[f].dev] = f]
           /\ holder' \in [Devices -> Fds \cup {NoFd}]
<1>1. file[f] \in [dev : Devices, plug : Nat]
  BY DEF TypeOK, CanGrab, Live
<1> QED
  BY <1>1 DEF TypeOK, Grab

LEMMA UngrabType ==
    ASSUME TypeOK, NEW f, Ungrab(f)
    PROVE  holder' \in [Devices -> Fds \cup {NoFd}]
BY DEF Ungrab, TypeOK

\* What the holders of grabs are after a grab, and after it is given up.
LEMMA GrabMoves ==
    ASSUME IInv, NEW e \in Entries, pc[e] # "free", CanGrab(fd[e]), Grab(fd[e]),
           UNCHANGED <<file, plugged, fd>>
    PROVE  /\ Holds(fd[e])'
           /\ \A x \in Entries \ {e} :
                 pc[x] # "free" => (Holds(fd[x])' <=> Holds(fd[x]))
<1>1. fd[e] \in Fds /\ file[fd[e]].dev \in Devices
  BY GrabType DEF IInv, OwnFiles
<1>2. Holds(fd[e])'
  BY <1>1 DEF IInv, TypeOK, CanGrab, Grab, Holds, Live
<1>3. ASSUME NEW x \in Entries \ {e}, pc[x] # "free"
      PROVE  Holds(fd[x])' <=> Holds(fd[x])
  <2>1. fd[x] \in Fds /\ fd[x] # fd[e] /\ fd[x] # NoFd
    BY <1>3 DEF IInv, OwnFiles, Fds, NoFd
  <2>2. holder[file[fd[e]].dev] = NoFd
    BY DEF CanGrab
  <2> QED
    BY <1>1, <2>1, <2>2 DEF IInv, TypeOK, Grab, Holds, Live
<1> QED
  BY <1>2, <1>3

LEMMA UngrabMoves ==
    ASSUME IInv, NEW e \in Entries, pc[e] # "free", Ungrab(fd[e]),
           UNCHANGED <<file, plugged, fd>>
    PROVE  /\ ~Holds(fd[e])'
           /\ \A x \in Entries \ {e} :
                 pc[x] # "free" => (Holds(fd[x])' <=> Holds(fd[x]))
<1>1. fd[e] \in Fds /\ fd[e] # NoFd
  BY DEF IInv, OwnFiles, Fds, NoFd
<1>2. ~Holds(fd[e])'
  <2> SUFFICES ASSUME Live(fd[e]) PROVE holder'[file[fd[e]].dev] # fd[e]
    BY DEF Holds, Live
  <2>1. file[fd[e]].dev \in Devices
    BY <1>1 DEF IInv, TypeOK, Live
  <2> QED
    BY <1>1, <2>1 DEF Ungrab, Holds, IInv, TypeOK
<1>3. ASSUME NEW x \in Entries \ {e}, pc[x] # "free"
      PROVE  Holds(fd[x])' <=> Holds(fd[x])
  <2>1. fd[x] \in Fds /\ fd[x] # fd[e] /\ fd[x] # NoFd
    BY <1>3 DEF IInv, OwnFiles, Fds, NoFd
  <2>2. CASE ~Live(fd[x])
    BY <2>2 DEF Holds, Live
  <2>3. CASE Live(fd[x])
    <3>1. file[fd[x]].dev \in Devices
      BY <2>1, <2>3 DEF IInv, TypeOK, Live
    <3>2. Live(fd[x])'
      BY <2>3 DEF Live
    <3> QED
      BY <2>1, <2>3, <3>1, <3>2 DEF Ungrab, Holds
  <2> QED
    BY <2>2, <2>3
<1> QED
  BY <1>2, <1>3

\* The kernel's rules survive a grab, and the end of one.
LEMMA GrabAllowed ==
    ASSUME IInv, NEW f \in Fds, CanGrab(f), Grab(f), UNCHANGED <<plugVars, file>>
    PROVE  KernelAgrees'
<1>1. /\ file[f].dev \in Devices
      /\ holder' = [holder EXCEPT ![file[f].dev] = f]
  BY GrabType DEF IInv
<1>2. file[f] = [dev |-> file[f].dev, plug |-> plugged[file[f].dev]]
  BY DEF IInv, TypeOK, CanGrab, Live
<1>3. plugged[file[f].dev] # 0
  BY DEF IInv, TypeOK, KernelAgrees, CanGrab, Live
<1> QED
  BY <1>1, <1>2, <1>3 DEF IInv, TypeOK, KernelAgrees, plugVars

LEMMA UngrabAllowed ==
    ASSUME IInv, NEW f, Ungrab(f), UNCHANGED <<plugVars, file>>
    PROVE  KernelAgrees'
<1>1. \A d \in Devices : holder'[d] # NoFd => holder'[d] = holder[d]
  BY DEF Ungrab
<1> QED
  BY <1>1 DEF IInv, KernelAgrees, plugVars

\* close() of a descriptor takes its grab with it.
LEMMA CloseAllowed ==
    ASSUME IInv, NEW f \in Fds, Close(f), UNCHANGED plugVars
    PROVE  KernelAgrees'
<1>1. \A g \in Fds : file'[g] # NoFile => file'[g] = file[g]
  BY DEF Close, IInv, TypeOK
<1>2. ASSUME NEW d \in Devices, holder'[d] # NoFd
      PROVE  holder'[d] = holder[d] /\ holder[d] # f /\ holder[d] \in Fds
  <2>1. holder'[d] = holder[d] /\ holder[d] \in Fds
    BY <1>2 DEF Close, Ungrab, IInv, TypeOK
  <2>2. ASSUME holder[d] = f PROVE FALSE
    <3>1. plugged[d] # 0 /\ file[f] = [dev |-> d, plug |-> plugged[d]]
      BY <1>2, <2>1, <2>2 DEF IInv, KernelAgrees
    <3>2. file[f] # NoFile /\ file[f].dev = d /\ file[f].plug = plugged[d]
      BY <3>1 DEF NoFile
    <3>3. Holds(f) /\ file[f].dev = d
      BY <2>2, <3>2 DEF Holds, Live
    <3> QED
      BY <1>2, <3>3 DEF Close, Ungrab
  <2> QED
    BY <2>1, <2>2
<1>3. \A d \in Devices : holder'[d] # NoFd =>
         plugged[d] # 0 /\ file'[holder'[d]] = [dev |-> d, plug |-> plugged[d]]
  BY <1>2 DEF Close, IInv, TypeOK, KernelAgrees
<1> QED
  BY <1>1, <1>3 DEF IInv, KernelAgrees, plugVars

-----------------------------------------------------------------------------
(* The end of the process *)

LEMMA ExitKeeps ==
    ASSUME IInv, Exit, faults' \in 0 .. MaxFaults
    PROVE  IInv'
<1>1. UNCHANGED <<grabbing, plugged, nextPlug, inbox, closed, sent>>
  BY DEF Exit, plugVars, appVars
<1>2. TypeOK'
  BY <1>1 DEF Exit, IInv, TypeOK
<1>3. OwnFiles' /\ EntriesArePlaced' /\ MainAgrees' /\ NamesDiffer'
  BY DEF Exit, OwnFiles, EntriesArePlaced, MainAgrees, NamesDiffer, Reading
<1>4. KernelAgrees'
  BY <1>1 DEF Exit, IInv, KernelAgrees
<1>5. GrabAgrees'
  BY DEF Exit, GrabAgrees, Holds, Live, Fds, NoFd
<1> QED
  BY <1>2, <1>3, <1>4, <1>5 DEF IInv

-----------------------------------------------------------------------------
(* main(): its own steps *)

\* Steps that move nothing but main()'s place in the scan and the requests.
LEMMA MainMoves ==
    ASSUME IInv, TypeOK', MainAgrees',
           UNCHANGED <<new, walk, grabbing, entryVars, kernelVars, crossed>>
    PROVE  IInv'
<1>1. UNCHANGED <<list, pc, fd, devName, plugged, nextPlug, file, holder>>
  BY DEF entryVars, kernelVars, plugVars
<1>2. OwnFiles' /\ EntriesArePlaced' /\ NamesDiffer' /\ KernelAgrees'
  BY <1>1 DEF IInv, OwnFiles, EntriesArePlaced, NamesDiffer, KernelAgrees
<1>3. GrabAgrees'
  BY <1>1, KernelStays DEF IInv, GrabAgrees
<1> QED
  BY <1>2, <1>3 DEF IInv

\* The types of such a step.
LEMMA MainMovesType ==
    ASSUME IInv,
           UNCHANGED <<new, walk, grabbing, entryVars, kernelVars, appVars, crossed>>,
           mainPc' \in {"connect", "enumerate", "open", "check", "create",
                        "insert", "wait", "walk", "exited"},
           todo' \subseteq Devices, name' \in Devices \cup {NoDevice},
           faults' \in 0 .. MaxFaults
    PROVE  TypeOK'
<1>1. UNCHANGED <<list, pc, fd, devName, plugged, nextPlug, file, holder, inbox,
                  closed, sent>>
  BY DEF entryVars, kernelVars, plugVars, appVars
<1> QED
  BY <1>1 DEF IInv, TypeOK

LEMMA FaultType == ASSUME TypeOK, Fault PROVE faults' \in 0 .. MaxFaults
BY EvdevReaderAssumption DEF Fault, TypeOK

LEMMA ConnectKeeps == ASSUME IInv, Connect PROVE IInv'
<1>1. CASE Exit /\ Fault
  BY <1>1, ExitKeeps, FaultType DEF IInv
<1>2. CASE ~(Exit /\ Fault)
  <2>1. /\ mainPc = "connect" /\ Scan
        /\ UNCHANGED <<name, new, walk, grabbing, entryVars, kernelVars, appVars,
                       faults, crossed>>
    BY <1>2 DEF Connect
  <2>2. TypeOK'
    <3>1. mainPc' = "enumerate" /\ todo' \subseteq Devices
      BY <2>1 DEF Scan
    <3> QED
      BY <2>1, <3>1, MainMovesType DEF IInv, TypeOK
  <2>3. MainAgrees'
    BY <2>1 DEF Scan, IInv, MainAgrees, entryVars
  <2> QED
    BY <2>1, <2>2, <2>3, MainMoves
<1> QED
  BY <1>1, <1>2

LEMMA DedupeKeeps == ASSUME IInv, Dedupe PROVE IInv'
<1>1. PICK d \in todo :
         /\ todo' = todo \ {d}
         /\ IF \E e \in list : devName[e] = d
            THEN UNCHANGED <<mainPc, name>>
            ELSE mainPc' = "open" /\ name' = d
  BY DEF Dedupe
<1>2. /\ mainPc = "enumerate" /\ d \in Devices
      /\ UNCHANGED <<new, walk, grabbing, entryVars, kernelVars, appVars, faults,
                     crossed>>
      /\ UNCHANGED <<list, devName>>
  BY DEF Dedupe, IInv, TypeOK, entryVars
<1>3. TypeOK'
  <2>1. /\ mainPc' \in {"enumerate", "open"} /\ todo' \subseteq Devices
        /\ name' \in Devices \cup {NoDevice} /\ faults' \in 0 .. MaxFaults
    BY <1>1, <1>2 DEF IInv, TypeOK
  <2> QED
    BY <1>2, <2>1, MainMovesType
<1>4. MainAgrees'
  <2>1. new = NoEntry /\ walk = {}
    BY <1>2 DEF IInv, MainAgrees
  <2> QED
    BY <1>1, <1>2, <2>1 DEF MainAgrees
<1> QED
  BY <1>2, <1>3, <1>4, MainMoves

LEMMA OpenFailsKeeps == ASSUME IInv, OpenFails PROVE IInv'
<1>1. /\ mainPc = "open" /\ mainPc' = "enumerate" /\ name' = NoDevice
      /\ UNCHANGED <<todo, new, walk, grabbing, entryVars, kernelVars, appVars,
                     crossed>>
  BY DEF OpenFails
<1>2. faults' \in 0 .. MaxFaults
  BY FaultType DEF OpenFails, IInv, TypeOK
<1>3. TypeOK'
  BY <1>1, <1>2, MainMovesType DEF IInv, TypeOK
<1>4. MainAgrees'
  BY <1>1 DEF IInv, MainAgrees, entryVars
<1> QED
  BY <1>1, <1>3, <1>4, MainMoves

LEMMA EnumeratedKeeps == ASSUME IInv, Enumerated PROVE IInv'
<1>1. /\ mainPc = "enumerate" /\ mainPc' = "wait"
      /\ UNCHANGED <<todo, name, new, walk, grabbing, entryVars, kernelVars,
                     appVars, faults, crossed>>
  BY DEF Enumerated
<1>2. TypeOK'
  BY <1>1, MainMovesType DEF IInv, TypeOK
<1>3. MainAgrees'
  BY <1>1 DEF IInv, MainAgrees, entryVars
<1> QED
  BY <1>1, <1>2, <1>3, MainMoves

LEMMA TimeoutKeeps == ASSUME IInv, Timeout PROVE IInv'
<1>1. /\ mainPc = "wait" /\ mainPc' \in {"enumerate", "wait"}
      /\ todo' \subseteq Devices
      /\ UNCHANGED <<name, new, walk, grabbing, entryVars, kernelVars, appVars,
                     crossed>>
  BY DEF Timeout, Scan, IInv, TypeOK
<1>2. faults' \in 0 .. MaxFaults
  BY FaultType DEF Timeout, IInv, TypeOK
<1>3. TypeOK'
  BY <1>1, <1>2, MainMovesType DEF IInv, TypeOK
<1>4. MainAgrees'
  BY <1>1 DEF IInv, MainAgrees, entryVars
<1> QED
  BY <1>1, <1>3, <1>4, MainMoves

LEMMA CarriedOutKeeps == ASSUME IInv, CarriedOut PROVE IInv'
<1>1. /\ mainPc = "walk" /\ walk = {} /\ mainPc' = "wait"
      /\ UNCHANGED <<todo, name, new, walk, grabbing, entryVars, kernelVars,
                     appVars, faults, crossed>>
  BY DEF CarriedOut
<1>2. TypeOK'
  BY <1>1, MainMovesType DEF IInv, TypeOK
<1>3. MainAgrees'
  BY <1>1 DEF IInv, MainAgrees, entryVars
<1> QED
  BY <1>1, <1>2, <1>3, MainMoves

-----------------------------------------------------------------------------
(* main(): an entry is filled in, given up, or put on the list *)

LEMMA OpenKeeps == ASSUME IInv, Open PROVE IInv'
<1>1. PICK f \in Fds, e \in Entries :
         /\ file[f] = NoFile /\ pc[e] = "free"
         /\ file' = [file EXCEPT ![f] = [dev |-> name, plug |-> plugged[name]]]
         /\ pc' = [pc EXCEPT ![e] = "filled"]
         /\ fd' = [fd EXCEPT ![e] = f]
         /\ devName' = [devName EXCEPT ![e] = name]
         /\ new' = e
  BY DEF Open
<1>2. /\ mainPc = "open" /\ mainPc' = "check" /\ plugged[name] # 0
      /\ UNCHANGED <<todo, name, walk, grabbing, list, plugged, nextPlug, holder,
                     inbox, closed, sent, faults, crossed>>
  BY DEF Open, plugVars, appVars
<1>3. /\ name \in Devices /\ \A x \in list : devName[x] # name
      /\ new = NoEntry /\ walk = {}
  BY <1>2 DEF IInv, MainAgrees
<1>4. e # NoEntry /\ e \notin list /\ e \notin crossed
  BY <1>1, EvdevReaderAssumption DEF IInv, EntriesArePlaced, GrabAgrees, Reading
<1>5. plugged[name] \in 1 .. nextPlug - 1
  BY <1>2, <1>3, EvdevReaderAssumption DEF IInv, TypeOK, KernelAgrees
<1>6. [dev |-> name, plug |-> plugged[name]] \in [dev : Devices, plug : Nat]
  BY <1>3, <1>5 DEF IInv, TypeOK
<1>7. TypeOK'
  <2>1. /\ file' \in [Fds -> [dev : Devices, plug : Nat] \cup {NoFile}]
        /\ fd' \in [Entries -> Fds \cup {NoFd}]
    BY <1>1, <1>6 DEF IInv, TypeOK
  <2>2. /\ pc' \in [Entries -> {"free", "filled", "start", "grab", "poll", "got",
                                "remove", "ungrab", "close"}]
        /\ devName' \in [Entries -> Devices \cup {NoDevice}]
    BY <1>1, <1>3 DEF IInv, TypeOK
  <2> QED
    BY <1>1, <1>2, <2>1, <2>2 DEF IInv, TypeOK
<1>8. /\ \A x \in Entries \ {e} : fd'[x] = fd[x] /\ devName'[x] = devName[x] /\ pc'[x] = pc[x]
      /\ \A g \in Fds \ {f} : file'[g] = file[g]
      /\ pc'[e] = "filled" /\ fd'[e] = f /\ devName'[e] = name
      /\ file'[f] = [dev |-> name, plug |-> plugged[name]]
  BY <1>1 DEF IInv, TypeOK
<1>9. \A x \in Entries \ {e} : pc[x] # "free" => fd[x] \in Fds \ {f}
  BY <1>1 DEF IInv, OwnFiles
<1>10. OwnFiles'
  <2>1. file'[f] # NoFile /\ file'[f].dev = name
    BY <1>3, <1>8, EvdevReaderAssumption DEF NoFile
  <2> QED
    BY <1>3, <1>8, <1>9, <2>1 DEF IInv, OwnFiles
<1>11. EntriesArePlaced'
  BY <1>1, <1>2, <1>3, <1>4, <1>8, EvdevReaderAssumption
     DEF IInv, EntriesArePlaced, Reading
<1>12. MainAgrees'
  <2>1. \A x \in list : x \in Entries \ {e}
    BY <1>4 DEF IInv, TypeOK
  <2> QED
    BY <1>1, <1>2, <1>3, <1>4, <1>8, <2>1 DEF IInv, MainAgrees
<1>13. NamesDiffer'
  <2>1. \A x \in list : x \in Entries \ {e}
    BY <1>4 DEF IInv, TypeOK
  <2> QED
    BY <1>2, <1>8, <2>1 DEF IInv, NamesDiffer
<1>14. \A d \in Devices : holder[d] # f
  <2>1. SUFFICES ASSUME NEW d \in Devices, holder[d] = f PROVE FALSE
    OBVIOUS
  <2>2. f # NoFd
    BY DEF Fds, NoFd
  <2>3. plugged[d] # 0 /\ file[f] = [dev |-> d, plug |-> plugged[d]]
    BY <2>1, <2>2 DEF IInv, KernelAgrees
  <2> QED
    BY <1>1, <2>3 DEF NoFile
<1>15. KernelAgrees'
  <2>1. \A g \in Fds : file'[g] # NoFile => file'[g].plug \in 1 .. nextPlug - 1
    BY <1>5, <1>8 DEF IInv, KernelAgrees
  <2>2. \A d \in Devices : holder[d] # NoFd => holder[d] \in Fds \ {f}
    BY <1>14 DEF IInv, TypeOK
  <2> QED
    BY <1>2, <1>8, <2>1, <2>2 DEF IInv, KernelAgrees
<1>16. GrabAgrees'
  <2>1. ASSUME NEW x \in Entries \ {e}, pc[x] # "free"
        PROVE  (Live(fd[x])' <=> Live(fd[x])) /\ (Holds(fd[x])' <=> Holds(fd[x]))
    BY <1>2, <1>8, <1>9, <2>1 DEF Live, Holds
  <2>2. ~Holds(fd[e])'
    BY <1>2, <1>3, <1>8, <1>14 DEF Holds
  <2>3. crossed' \subseteq {x \in Entries : pc'[x] \notin {"free", "filled"}}
    BY <1>2, <1>4, <1>8 DEF IInv, GrabAgrees
  <2> QED
    BY <1>2, <1>8, <2>1, <2>2, <2>3 DEF IInv, GrabAgrees
<1> QED
  BY <1>7, <1>10, <1>11, <1>12, <1>13, <1>15, <1>16 DEF IInv

\* The entry that main() gives up has no grab, and the others keep theirs.
LEMMA GiveUpKeeps ==
    ASSUME IInv, mainPc \in {"check", "create"}, GiveUp, faults' \in 0 .. MaxFaults
    PROVE  IInv'
<1>1. /\ new \in Entries \ list /\ pc[new] = "filled" /\ fd[new] \in Fds /\ walk = {}
      /\ new # NoEntry
  BY DEF IInv, MainAgrees, OwnFiles
<1>2. /\ file' = [file EXCEPT ![fd[new]] = NoFile] /\ Close(fd[new])
      /\ pc' = [pc EXCEPT ![new] = "free"] /\ fd' = [fd EXCEPT ![new] = NoFd]
      /\ devName' = [devName EXCEPT ![new] = NoDevice]
      /\ new' = NoEntry /\ mainPc' = "enumerate" /\ name' = NoDevice
      /\ UNCHANGED <<todo, walk, grabbing, list, plugged, nextPlug, inbox, closed,
                     sent, crossed>>
      /\ UNCHANGED plugVars
  BY DEF GiveUp, Free, Close, plugVars, appVars
<1>3. UNCHANGED holder
  <2>1. ~Holds(fd[new])
    BY <1>1 DEF IInv, GrabAgrees
  <2> QED
    BY <1>2, <2>1 DEF Close, Ungrab, IInv, TypeOK
<1>4. /\ \A x \in Entries \ {new} : fd'[x] = fd[x] /\ devName'[x] = devName[x] /\ pc'[x] = pc[x]
      /\ \A g \in Fds \ {fd[new]} : file'[g] = file[g]
      /\ pc'[new] = "free"
  BY <1>1, <1>2 DEF IInv, TypeOK
<1>5. \A x \in Entries \ {new} : pc[x] # "free" => fd[x] \in Fds \ {fd[new]}
  BY <1>1 DEF IInv, OwnFiles
<1>6. TypeOK'
  <2>1. /\ file' \in [Fds -> [dev : Devices, plug : Nat] \cup {NoFile}]
        /\ fd' \in [Entries -> Fds \cup {NoFd}]
    BY <1>1, <1>2 DEF IInv, TypeOK
  <2>2. /\ pc' \in [Entries -> {"free", "filled", "start", "grab", "poll", "got",
                                "remove", "ungrab", "close"}]
        /\ devName' \in [Entries -> Devices \cup {NoDevice}]
    BY <1>1, <1>2 DEF IInv, TypeOK
  <2> QED
    BY <1>2, <1>3, <2>1, <2>2 DEF IInv, TypeOK
<1>7. OwnFiles'
  BY <1>4, <1>5 DEF IInv, OwnFiles
<1>8. EntriesArePlaced'
  BY <1>1, <1>2, <1>4, EvdevReaderAssumption
     DEF IInv, EntriesArePlaced, Reading, TypeOK
<1>9. MainAgrees' /\ NamesDiffer'
  <2>1. \A x \in list : x \in Entries \ {new}
    BY <1>1 DEF IInv, TypeOK
  <2> QED
    BY <1>1, <1>2, <1>4, <2>1 DEF IInv, MainAgrees, NamesDiffer
<1>10. KernelAgrees'
  BY <1>1, <1>2, CloseAllowed
<1>11. GrabAgrees'
  <2>1. \A x \in Entries \ {new} : pc[x] # "free" =>
           (Holds(fd[x])' <=> Holds(fd[x])) /\ (Live(fd[x])' <=> Live(fd[x]))
    BY <1>2, <1>3, <1>4, <1>5 DEF Holds, Live
  <2>2. new \notin crossed
    BY <1>1 DEF IInv, GrabAgrees
  <2> QED
    BY <1>2, <1>4, <2>1, <2>2 DEF IInv, GrabAgrees
<1> QED
  BY <1>6, <1>7, <1>8, <1>9, <1>10, <1>11 DEF IInv

LEMMA PrecheckKeeps == ASSUME IInv, Precheck PROVE IInv'
<1>1. mainPc = "check" /\ faults' \in 0 .. MaxFaults
  BY DEF Precheck, IInv, TypeOK
<1>2. CASE GiveUp
  BY <1>1, <1>2, GiveUpKeeps
<1>3. CASE ~GiveUp
  <2>1. /\ mainPc' = "create"
        /\ UNCHANGED <<todo, name, new, walk, grabbing, entryVars, kernelVars,
                       appVars, crossed>>
    BY <1>3 DEF Precheck
  <2>2. TypeOK'
    BY <1>1, <2>1, MainMovesType DEF IInv, TypeOK
  <2>3. MainAgrees'
    BY <1>1, <2>1 DEF IInv, MainAgrees, entryVars
  <2> QED
    BY <2>1, <2>2, <2>3, MainMoves
<1> QED
  BY <1>2, <1>3

LEMMA CreateFailsKeeps == ASSUME IInv, CreateFails PROVE IInv'
BY GiveUpKeeps, FaultType DEF CreateFails, IInv

LEMMA CreateThreadKeeps == ASSUME IInv, CreateThread PROVE IInv'
<1>1. /\ new \in Entries \ list /\ pc[new] = "filled" /\ mainPc = "create"
      /\ new # NoEntry /\ walk = {}
  BY DEF CreateThread, IInv, MainAgrees
<1>2. /\ pc' = [pc EXCEPT ![new] = "start"] /\ mainPc' = "insert"
      /\ UNCHANGED <<todo, name, new, walk, grabbing, list, fd, devName, plugged,
                     nextPlug, file, holder, inbox, closed, sent, faults, crossed>>
  BY DEF CreateThread, kernelVars, plugVars, appVars
<1>3. pc'[new] = "start" /\ \A x \in Entries \ {new} : pc'[x] = pc[x]
  BY <1>1, <1>2 DEF IInv, TypeOK
<1>4. TypeOK'
  <2>1. pc' \in [Entries -> {"free", "filled", "start", "grab", "poll", "got",
                             "remove", "ungrab", "close"}]
    BY <1>1, <1>2 DEF IInv, TypeOK
  <2> QED
    BY <1>2, <2>1 DEF IInv, TypeOK
<1>5. OwnFiles'
  BY <1>1, <1>2, <1>3 DEF IInv, OwnFiles
<1>6. EntriesArePlaced'
  BY <1>1, <1>2, <1>3 DEF IInv, EntriesArePlaced, Reading, TypeOK
<1>7. MainAgrees' /\ NamesDiffer'
  BY <1>1, <1>2, <1>3 DEF IInv, MainAgrees, NamesDiffer, Reading
<1>8. KernelAgrees'
  BY <1>2 DEF IInv, KernelAgrees
<1>9. GrabAgrees'
  BY <1>1, <1>2, <1>3, KernelStays DEF IInv, GrabAgrees
<1> QED
  BY <1>4, <1>5, <1>6, <1>7, <1>8, <1>9 DEF IInv

LEMMA InsertKeeps == ASSUME IInv, Insert PROVE IInv'
<1>1. /\ new \in Entries \ list /\ pc[new] \in Reading \cup {"remove"}
      /\ new # NoEntry /\ walk = {} /\ devName[new] = name
      /\ \A x \in list : devName[x] # name
  BY DEF Insert, IInv, MainAgrees
<1>2. /\ list' = list \cup {new} /\ new' = NoEntry
      /\ mainPc' = "enumerate" /\ name' = NoDevice
      /\ UNCHANGED <<todo, walk, grabbing, pc, fd, devName, plugged, nextPlug, file,
                     holder, inbox, closed, sent, faults, crossed>>
  BY DEF Insert, kernelVars, plugVars, appVars
<1>3. TypeOK'
  BY <1>1, <1>2 DEF IInv, TypeOK
<1>4. OwnFiles' /\ KernelAgrees'
  BY <1>2 DEF IInv, OwnFiles, KernelAgrees
<1>5. EntriesArePlaced'
  BY <1>1, <1>2 DEF IInv, EntriesArePlaced, Reading, TypeOK
<1>6. MainAgrees' /\ NamesDiffer'
  BY <1>1, <1>2 DEF IInv, MainAgrees, NamesDiffer
<1>7. GrabAgrees'
  BY <1>2, KernelStays DEF IInv, GrabAgrees
<1> QED
  BY <1>3, <1>4, <1>5, <1>6, <1>7 DEF IInv

-----------------------------------------------------------------------------
(* main(): a request *)

LEMMA CarryKeeps ==
    ASSUME IInv, mainPc = "wait", NEW regrab \in BOOLEAN, Carry(regrab),
           inbox' \in Seq({"ungrab", "regrab"}), closed' \in {"no", "closed", "reset"},
           UNCHANGED sent
    PROVE  IInv'
<1>1. /\ grabbing' = regrab /\ walk' = list /\ mainPc' = "walk"
      /\ UNCHANGED <<todo, name, new, list, pc, fd, devName, plugged, nextPlug, file,
                     holder, faults, crossed>>
  BY DEF Carry, entryVars, kernelVars, plugVars
<1>2. new = NoEntry
  BY DEF IInv, MainAgrees
<1>3. TypeOK'
  BY <1>1 DEF IInv, TypeOK
<1>4. OwnFiles' /\ EntriesArePlaced' /\ NamesDiffer' /\ KernelAgrees'
  BY <1>1 DEF IInv, OwnFiles, EntriesArePlaced, NamesDiffer, KernelAgrees
<1>5. MainAgrees'
  BY <1>1, <1>2 DEF MainAgrees
<1>6. GrabAgrees'
  <2>1. \A x \in Entries : pc[x] \in Reading => x \in list
    BY <1>2, EvdevReaderAssumption DEF IInv, EntriesArePlaced
  <2> QED
    BY <1>1, <2>1, KernelStays DEF IInv, GrabAgrees, Reading
<1> QED
  BY <1>3, <1>4, <1>5, <1>6 DEF IInv

LEMMA ReceiveKeeps == ASSUME IInv, Receive PROVE IInv'
<1>1. /\ mainPc = "wait" /\ inbox # << >> /\ Carry(Head(inbox) = "regrab")
      /\ inbox' = Tail(inbox) /\ UNCHANGED <<closed, sent>>
  BY DEF Receive
<1>2. inbox' \in Seq({"ungrab", "regrab"})
  BY <1>1 DEF IInv, TypeOK
<1> QED
  BY <1>1, <1>2, CarryKeeps DEF IInv, TypeOK

LEMMA ReceiveFailsKeeps == ASSUME IInv, ReceiveFails PROVE IInv'
<1>1. CASE Exit
  BY <1>1, ExitKeeps DEF ReceiveFails, Carry, IInv, TypeOK
<1>2. CASE ~Exit
  <2>1. PICK regrab \in BOOLEAN :
           Carry(regrab) /\ closed' = "closed" /\ UNCHANGED <<inbox, sent>>
    BY <1>2 DEF ReceiveFails
  <2> QED
    BY <2>1, CarryKeeps DEF ReceiveFails, IInv, TypeOK
<1> QED
  BY <1>1, <1>2

LEMMA ReceiveEndKeeps == ASSUME IInv, ReceiveEnd PROVE IInv'
BY ExitKeeps DEF ReceiveEnd, IInv, TypeOK

LEMMA CarryOutKeeps == ASSUME IInv, NEW e \in Entries, CarryOut(e) PROVE IInv'
<1>1. /\ mainPc = "walk" /\ e \in walk /\ walk' = walk \ {e}
      /\ UNCHANGED <<mainPc, todo, name, new, grabbing, list, pc, fd, devName, plugged,
                     nextPlug, file, inbox, closed, sent, faults>>
      /\ UNCHANGED plugVars
  BY DEF CarryOut, entryVars, plugVars, appVars
<1>2. pc[e] \in Reading \cup {"remove"} /\ pc[e] # "free" /\ fd[e] \in Fds
  BY <1>1 DEF IInv, MainAgrees, EntriesArePlaced, OwnFiles, Reading
<1>3. OwnFiles' /\ EntriesArePlaced' /\ MainAgrees' /\ NamesDiffer'
  BY <1>1 DEF IInv, OwnFiles, EntriesArePlaced, MainAgrees, NamesDiffer
<1>4. crossed' \subseteq crossed \cup {e}
  BY DEF CarryOut
<1>5. /\ holder' \in [Devices -> Fds \cup {NoFd}] => TypeOK'
      /\ crossed' \subseteq {x \in Entries : pc'[x] \notin {"free", "filled"}}
  <2>1. crossed' \subseteq {x \in Entries : pc'[x] \notin {"free", "filled"}}
    BY <1>1, <1>2, <1>4 DEF IInv, GrabAgrees, Reading
  <2>2. walk' \subseteq Entries /\ crossed' \subseteq Entries
    BY <1>1, <2>1 DEF IInv, TypeOK
  <2> QED
    BY <1>1, <2>1, <2>2 DEF IInv, TypeOK
<1>6. CASE grabbing /\ CanGrab(fd[e])
  <2>1. crossed' = crossed \ {e} /\ Grab(fd[e])
    BY <1>6 DEF CarryOut
  <2>2. TypeOK' /\ KernelAgrees'
    BY <1>1, <1>2, <1>5, <1>6, <2>1, GrabType, GrabAllowed DEF IInv
  <2>3. /\ Holds(fd[e])'
        /\ \A x \in Entries \ {e} : pc[x] # "free" => (Holds(fd[x])' <=> Holds(fd[x]))
    BY <1>1, <1>2, <1>6, <2>1, GrabMoves
  <2>4. GrabAgrees'
    BY <1>1, <1>2, <1>5, <1>6, <2>1, <2>3, LiveStays DEF IInv, GrabAgrees, Reading
  <2> QED
    BY <1>3, <2>2, <2>4 DEF IInv
<1>7. CASE grabbing /\ ~CanGrab(fd[e])
  <2>1. /\ crossed' = IF Holds(fd[e]) THEN crossed \ {e} ELSE crossed \cup {e}
        /\ UNCHANGED holder
    BY <1>7 DEF CarryOut
  <2>2. TypeOK' /\ KernelAgrees'
    BY <1>1, <1>5, <2>1 DEF IInv, TypeOK, KernelAgrees
  <2>3. \A x \in Entries : (Holds(fd[x])' <=> Holds(fd[x])) /\ (Live(fd[x])' <=> Live(fd[x]))
    BY <1>1, <2>1, KernelStays
  <2>4. GrabAgrees'
    BY <1>1, <1>2, <1>5, <1>7, <2>1, <2>3 DEF IInv, GrabAgrees, Reading
  <2> QED
    BY <1>3, <2>2, <2>4 DEF IInv
<1>8. CASE ~grabbing
  <2>1. crossed' = crossed \ {e} /\ Ungrab(fd[e])
    BY <1>8 DEF CarryOut
  <2>2. TypeOK' /\ KernelAgrees'
    BY <1>1, <1>5, <2>1, UngrabType, UngrabAllowed DEF IInv
  <2>3. /\ ~Holds(fd[e])'
        /\ \A x \in Entries \ {e} : pc[x] # "free" => (Holds(fd[x])' <=> Holds(fd[x]))
    BY <1>1, <1>2, <2>1, UngrabMoves
  <2>4. GrabAgrees'
    BY <1>1, <1>2, <1>5, <1>8, <2>1, <2>3, LiveStays DEF IInv, GrabAgrees, Reading
  <2> QED
    BY <1>3, <2>2, <2>4 DEF IInv
<1> QED
  BY <1>6, <1>7, <1>8

-----------------------------------------------------------------------------
(* The threads *)

\* A thread goes on to another place of its loop, and leaves the device alone.
LEMMA ThreadMoves ==
    ASSUME IInv, NEW e \in Entries, NEW label \in {"grab", "poll", "got", "remove"},
           pc[e] \in Reading, Goto(e, label),
           UNCHANGED <<mainVars, list, fd, devName, kernelVars, appVars, crossed>>,
           faults' \in 0 .. MaxFaults,
           label = "grab" => grabbing,
           label \in {"poll", "got"} =>
              pc[e] \in {"poll", "got"} \/ (pc[e] = "start" /\ ~grabbing)
    PROVE  IInv'
<1>1. /\ pc' = [pc EXCEPT ![e] = label]
      /\ UNCHANGED <<mainPc, todo, name, new, walk, grabbing, list, fd, devName, plugged,
                     nextPlug, file, holder, inbox, closed, sent, crossed>>
  BY DEF Goto, mainVars, kernelVars, plugVars, appVars
<1>2. pc'[e] = label /\ \A x \in Entries \ {e} : pc'[x] = pc[x]
  BY <1>1 DEF IInv, TypeOK
<1>3. TypeOK'
  <2>1. pc' \in [Entries -> {"free", "filled", "start", "grab", "poll", "got",
                             "remove", "ungrab", "close"}]
    BY <1>1 DEF IInv, TypeOK
  <2> QED
    BY <1>1, <2>1 DEF IInv, TypeOK
<1>4. OwnFiles'
  BY <1>1, <1>2 DEF IInv, OwnFiles, Reading
<1>5. EntriesArePlaced'
  BY <1>1, <1>2 DEF IInv, EntriesArePlaced, Reading, TypeOK
<1>6. MainAgrees'
  BY <1>1, <1>2 DEF IInv, MainAgrees, Reading
<1>7. NamesDiffer' /\ KernelAgrees'
  BY <1>1 DEF IInv, NamesDiffer, KernelAgrees
<1>8. GrabAgrees'
  <2>1. \A x \in Entries : (Holds(fd[x])' <=> Holds(fd[x])) /\ (Live(fd[x])' <=> Live(fd[x]))
    BY <1>1, KernelStays
  <2>2. crossed' \subseteq {x \in Entries : pc'[x] \notin {"free", "filled"}}
    BY <1>1, <1>2 DEF IInv, GrabAgrees
  <2>3. Holds(fd[e]) => Live(fd[e])
    BY DEF Holds
  <2> QED
    BY <1>1, <1>2, <2>1, <2>2, <2>3 DEF IInv, GrabAgrees, Reading
<1> QED
  BY <1>3, <1>4, <1>5, <1>6, <1>7, <1>8 DEF IInv

LEMMA StartKeeps == ASSUME IInv, NEW e \in Entries, Start(e) PROVE IInv'
<1>1. /\ pc[e] = "start" /\ Goto(e, IF grabbing THEN "grab" ELSE "poll")
      /\ UNCHANGED <<mainVars, list, fd, devName, kernelVars, appVars, faults, crossed>>
  BY DEF Start
<1>2. faults' \in 0 .. MaxFaults
  BY <1>1 DEF IInv, TypeOK
<1>3. CASE grabbing
  BY <1>1, <1>2, <1>3, ThreadMoves DEF Reading
<1>4. CASE ~grabbing
  BY <1>1, <1>2, <1>4, ThreadMoves DEF Reading
<1> QED
  BY <1>3, <1>4

LEMMA GrabDeviceKeeps == ASSUME IInv, NEW e \in Entries, GrabDevice(e) PROVE IInv'
<1>1. /\ pc[e] = "grab"
      /\ UNCHANGED <<mainVars, list, fd, devName, plugVars, file, appVars, faults>>
  BY DEF GrabDevice
<1>2. CASE ~CanGrab(fd[e])
  <2>1. Goto(e, "remove") /\ UNCHANGED <<kernelVars, crossed>>
    BY <1>1, <1>2 DEF GrabDevice, kernelVars
  <2> QED
    BY <1>1, <2>1, ThreadMoves DEF Reading, IInv, TypeOK
<1>3. CASE CanGrab(fd[e])
  <2>1. /\ Grab(fd[e]) /\ pc' = [pc EXCEPT ![e] = "poll"]
        /\ crossed' = IF grabbing THEN crossed ELSE crossed \cup {e}
        /\ UNCHANGED <<mainPc, todo, name, new, walk, grabbing, list, fd, devName,
                       plugged, nextPlug, file, inbox, closed, sent, faults>>
    BY <1>1, <1>3 DEF GrabDevice, Goto, mainVars, plugVars, appVars
  <2>2. pc'[e] = "poll" /\ \A x \in Entries \ {e} : pc'[x] = pc[x]
    BY <2>1 DEF IInv, TypeOK
  <2>3. fd[e] \in Fds
    BY <1>1 DEF IInv, OwnFiles
  <2>4. TypeOK'
    <3>1. /\ pc' \in [Entries -> {"free", "filled", "start", "grab", "poll", "got",
                                  "remove", "ungrab", "close"}]
          /\ crossed' \subseteq Entries
      BY <2>1 DEF IInv, TypeOK
    <3>2. holder' \in [Devices -> Fds \cup {NoFd}]
      BY <1>3, <2>1, <2>3, GrabType DEF IInv
    <3> QED
      BY <2>1, <3>1, <3>2 DEF IInv, TypeOK
  <2>5. OwnFiles'
    BY <1>1, <2>1, <2>2 DEF IInv, OwnFiles
  <2>6. EntriesArePlaced'
    BY <1>1, <2>1, <2>2 DEF IInv, EntriesArePlaced, Reading, TypeOK
  <2>7. MainAgrees' /\ NamesDiffer'
    BY <1>1, <2>1, <2>2 DEF IInv, MainAgrees, NamesDiffer, Reading
  <2>8. KernelAgrees'
    BY <1>1, <1>3, <2>1, <2>3, GrabAllowed
  <2>9. GrabAgrees'
    <3>1. /\ Holds(fd[e])'
          /\ \A x \in Entries \ {e} :
                pc[x] # "free" => (Holds(fd[x])' <=> Holds(fd[x]))
      BY <1>1, <1>3, <2>1, GrabMoves
    <3>2. crossed' \subseteq {x \in Entries : pc'[x] \notin {"free", "filled"}}
      BY <2>1, <2>2 DEF IInv, GrabAgrees
    <3> QED
      BY <2>1, <2>2, <3>1, <3>2, LiveStays DEF IInv, GrabAgrees
  <2> QED
    BY <2>4, <2>5, <2>6, <2>7, <2>8, <2>9 DEF IInv
<1> QED
  BY <1>2, <1>3

LEMMA ReadEventKeeps == ASSUME IInv, NEW e \in Entries, ReadEvent(e) PROVE IInv'
BY ThreadMoves DEF ReadEvent, Reading, IInv, TypeOK

LEMMA PollFailsKeeps == ASSUME IInv, NEW e \in Entries, PollFails(e) PROVE IInv'
BY ThreadMoves DEF PollFails, Reading, IInv, TypeOK

LEMMA PollBreaksKeeps == ASSUME IInv, NEW e \in Entries, PollBreaks(e) PROVE IInv'
BY ThreadMoves, FaultType DEF PollBreaks, Reading, IInv

LEMMA OutputKeeps == ASSUME IInv, NEW e \in Entries, Output(e) PROVE IInv'
<1>1. faults' \in 0 .. MaxFaults
  BY DEF Output, IInv, TypeOK
<1>2. CASE Exit
  BY <1>1, <1>2, ExitKeeps
<1>3. CASE ~Exit
  BY <1>1, <1>3, ThreadMoves DEF Output, Reading
<1> QED
  BY <1>2, <1>3

\* An entry leaves the list while main() is not in a section under the lock.
LEMMA RemoveKeeps == ASSUME IInv, NEW e \in Entries, Remove(e) PROVE IInv'
<1>1. /\ pc[e] = "remove" /\ list' = list \ {e} /\ pc' = [pc EXCEPT ![e] = "ungrab"]
      /\ UNCHANGED <<mainPc, todo, name, new, walk, grabbing, fd, devName, plugged,
                     nextPlug, file, holder, inbox, closed, sent, faults, crossed>>
  BY DEF Remove, Goto, mainVars, kernelVars, plugVars, appVars
<1>2. new = NoEntry /\ walk = {} /\ mainPc \notin {"open", "check", "create", "insert"}
  BY DEF Remove, Locked, IInv, MainAgrees
<1>3. pc'[e] = "ungrab" /\ \A x \in Entries \ {e} : pc'[x] = pc[x]
  BY <1>1 DEF IInv, TypeOK
<1>4. TypeOK'
  <2>1. pc' \in [Entries -> {"free", "filled", "start", "grab", "poll", "got",
                             "remove", "ungrab", "close"}]
    BY <1>1 DEF IInv, TypeOK
  <2> QED
    BY <1>1, <2>1 DEF IInv, TypeOK
<1>5. OwnFiles'
  BY <1>1, <1>3 DEF IInv, OwnFiles
<1>6. EntriesArePlaced'
  BY <1>1, <1>3 DEF IInv, EntriesArePlaced, Reading, TypeOK
<1>7. MainAgrees' /\ NamesDiffer'
  BY <1>1, <1>2 DEF IInv, MainAgrees, NamesDiffer
<1>8. KernelAgrees'
  BY <1>1 DEF IInv, KernelAgrees
<1>9. GrabAgrees'
  BY <1>1, <1>3, KernelStays DEF IInv, GrabAgrees
<1> QED
  BY <1>4, <1>5, <1>6, <1>7, <1>8, <1>9 DEF IInv

LEMMA UngrabDeviceKeeps == ASSUME IInv, NEW e \in Entries, UngrabDevice(e) PROVE IInv'
<1>1. /\ pc[e] = "ungrab" /\ Ungrab(fd[e]) /\ pc' = [pc EXCEPT ![e] = "close"]
      /\ UNCHANGED <<mainPc, todo, name, new, walk, grabbing, list, fd, devName, plugged,
                     nextPlug, file, inbox, closed, sent, faults, crossed>>
      /\ UNCHANGED plugVars
  BY DEF UngrabDevice, Goto, mainVars, plugVars, appVars
<1>2. pc'[e] = "close" /\ \A x \in Entries \ {e} : pc'[x] = pc[x]
  BY <1>1 DEF IInv, TypeOK
<1>3. e # new /\ e \notin list
  BY <1>1, EvdevReaderAssumption DEF IInv, MainAgrees, EntriesArePlaced, Reading
<1>4. TypeOK'
  <2>1. pc' \in [Entries -> {"free", "filled", "start", "grab", "poll", "got",
                             "remove", "ungrab", "close"}]
    BY <1>1 DEF IInv, TypeOK
  <2>2. holder' \in [Devices -> Fds \cup {NoFd}]
    BY <1>1, UngrabType DEF IInv
  <2> QED
    BY <1>1, <2>1, <2>2 DEF IInv, TypeOK
<1>5. OwnFiles'
  BY <1>1, <1>2 DEF IInv, OwnFiles
<1>6. EntriesArePlaced'
  BY <1>1, <1>2, <1>3 DEF IInv, EntriesArePlaced, Reading, TypeOK
<1>7. MainAgrees' /\ NamesDiffer'
  BY <1>1, <1>2, <1>3 DEF IInv, MainAgrees, NamesDiffer
<1>8. KernelAgrees'
  BY <1>1, UngrabAllowed
<1>9. GrabAgrees'
  <2>1. \A x \in Entries \ {e} : pc[x] # "free" => (Holds(fd[x])' <=> Holds(fd[x]))
    BY <1>1, UngrabMoves
  <2>2. crossed' \subseteq {x \in Entries : pc'[x] \notin {"free", "filled"}}
    BY <1>1, <1>2 DEF IInv, GrabAgrees
  <2> QED
    BY <1>1, <1>2, <2>1, <2>2, LiveStays DEF IInv, GrabAgrees
<1> QED
  BY <1>4, <1>5, <1>6, <1>7, <1>8, <1>9 DEF IInv

\* The descriptor and the address may be handed out again from here on.
LEMMA CloseDeviceKeeps == ASSUME IInv, NEW e \in Entries, CloseDevice(e) PROVE IInv'
<1>1. /\ pc[e] = "close" /\ Close(fd[e])
      /\ file' = [file EXCEPT ![fd[e]] = NoFile]
      /\ pc' = [pc EXCEPT ![e] = "free"] /\ fd' = [fd EXCEPT ![e] = NoFd]
      /\ devName' = [devName EXCEPT ![e] = NoDevice] /\ crossed' = crossed \ {e}
      /\ UNCHANGED <<mainPc, todo, name, new, walk, grabbing, list, plugged, nextPlug,
                     inbox, closed, sent, faults>>
      /\ UNCHANGED plugVars
  BY DEF CloseDevice, Close, Free, mainVars, plugVars, appVars
<1>2. fd[e] \in Fds /\ e # new /\ e \notin list
  BY <1>1, EvdevReaderAssumption DEF IInv, OwnFiles, MainAgrees, EntriesArePlaced, Reading
<1>3. /\ \A x \in Entries \ {e} : fd'[x] = fd[x] /\ devName'[x] = devName[x] /\ pc'[x] = pc[x]
      /\ \A g \in Fds \ {fd[e]} : file'[g] = file[g]
      /\ pc'[e] = "free"
  BY <1>1, <1>2 DEF IInv, TypeOK
<1>4. \A x \in Entries \ {e} : pc[x] # "free" => fd[x] \in Fds \ {fd[e]}
  BY <1>1 DEF IInv, OwnFiles
<1>5. TypeOK'
  <2>1. /\ file' \in [Fds -> [dev : Devices, plug : Nat] \cup {NoFile}]
        /\ fd' \in [Entries -> Fds \cup {NoFd}]
    BY <1>1, <1>2 DEF IInv, TypeOK
  <2>2. /\ pc' \in [Entries -> {"free", "filled", "start", "grab", "poll", "got",
                                "remove", "ungrab", "close"}]
        /\ devName' \in [Entries -> Devices \cup {NoDevice}]
    BY <1>1 DEF IInv, TypeOK
  <2>3. holder' \in [Devices -> Fds \cup {NoFd}] /\ crossed' \subseteq Entries
    BY <1>1, UngrabType DEF Close, IInv, TypeOK
  <2> QED
    BY <1>1, <2>1, <2>2, <2>3 DEF IInv, TypeOK
<1>6. OwnFiles'
  BY <1>3, <1>4 DEF IInv, OwnFiles
<1>7. EntriesArePlaced'
  BY <1>1, <1>2, <1>3 DEF IInv, EntriesArePlaced, Reading, TypeOK
<1>8. MainAgrees' /\ NamesDiffer'
  <2>1. \A x \in list : x \in Entries \ {e}
    BY <1>2 DEF IInv, TypeOK
  <2> QED
    BY <1>1, <1>2, <1>3, <2>1 DEF IInv, MainAgrees, NamesDiffer
<1>9. KernelAgrees'
  BY <1>1, <1>2, CloseAllowed
<1>10. GrabAgrees'
  <2>1. \A x \in Entries \ {e} : pc[x] # "free" => (Live(fd[x])' <=> Live(fd[x]))
    BY <1>1, <1>3, <1>4 DEF Live
  <2>2. ASSUME NEW x \in Entries \ {e}, pc[x] # "free"
        PROVE  Holds(fd[x])' <=> Holds(fd[x])
    <3>1. CASE ~Live(fd[x])
      BY <2>1, <2>2, <3>1 DEF Holds
    <3>2. CASE Live(fd[x])
      <4>1. /\ fd[x] \in Fds \ {fd[e]} /\ fd'[x] = fd[x] /\ file'[fd[x]] = file[fd[x]]
            /\ fd[x] # NoFd
        BY <1>3, <1>4, <2>2 DEF Fds, NoFd
      <4>2. file[fd[x]].dev \in Devices
        BY <3>2, <4>1 DEF Live, IInv, TypeOK
      <4>3. holder'[file[fd[x]].dev] = fd[x] <=> holder[file[fd[x]].dev] = fd[x]
        BY <1>1, <4>1, <4>2 DEF Close, Ungrab, Holds
      <4> QED
        BY <2>1, <2>2, <4>1, <4>3 DEF Holds
    <3> QED
      BY <3>1, <3>2
  <2>3. crossed' \subseteq {x \in Entries : pc'[x] \notin {"free", "filled"}}
    BY <1>1, <1>3 DEF IInv, GrabAgrees
  <2> QED
    BY <1>1, <1>3, <2>1, <2>2, <2>3 DEF IInv, GrabAgrees
<1> QED
  BY <1>5, <1>6, <1>7, <1>8, <1>9, <1>10 DEF IInv

-----------------------------------------------------------------------------
(* The app and the devices *)

LEMMA AppKeeps == ASSUME IInv, Request \/ Disconnect PROVE IInv'
<1>1. /\ UNCHANGED <<mainPc, todo, name, new, walk, grabbing, list, pc, fd, devName,
                     plugged, nextPlug, file, holder, faults, crossed>>
      /\ UNCHANGED <<new, walk, grabbing, entryVars, kernelVars, crossed>>
  BY DEF Request, Disconnect, mainVars, entryVars, kernelVars, plugVars
<1>2. /\ inbox' \in Seq({"ungrab", "regrab"}) /\ closed' \in {"no", "closed", "reset"}
      /\ sent' \in 0 .. MaxRequests
  <2>1. CASE Request
    <3>1. PICK r \in {"ungrab", "regrab"} : inbox' = Append(inbox, r)
      BY <2>1 DEF Request
    <3>2. inbox' \in Seq({"ungrab", "regrab"})
      BY <3>1 DEF IInv, TypeOK
    <3>3. sent' \in 0 .. MaxRequests
      BY <2>1, EvdevReaderAssumption DEF Request, IInv, TypeOK
    <3> QED
      BY <2>1, <3>2, <3>3 DEF Request, IInv, TypeOK
  <2>2. CASE Disconnect
    BY <2>2 DEF Disconnect, IInv, TypeOK
  <2> QED
    BY <2>1, <2>2
<1>3. TypeOK'
  BY <1>1, <1>2 DEF IInv, TypeOK
<1>4. MainAgrees'
  BY <1>1 DEF IInv, MainAgrees
<1> QED
  BY <1>1, <1>3, <1>4, MainMoves

\* A device that is plugged in is none of those that were there before.
LEMMA PlugKeeps == ASSUME IInv, NEW d \in Removable, Plug(d) PROVE IInv'
<1>1. /\ plugged[d] = 0 /\ nextPlug <= MaxPlugs + 1 /\ d \in Devices
      /\ plugged' = [plugged EXCEPT ![d] = nextPlug] /\ nextPlug' = nextPlug + 1
      /\ UNCHANGED <<mainPc, todo, name, new, walk, grabbing, list, pc, fd, devName,
                     file, holder, inbox, closed, sent, faults, crossed>>
  BY EvdevReaderAssumption DEF Plug, mainVars, entryVars, appVars
<1>2. nextPlug \in Nat /\ nextPlug >= 2 /\ nextPlug' \in 2 .. MaxPlugs + 2
  BY <1>1, EvdevReaderAssumption DEF IInv, TypeOK
<1>3. /\ plugged' \in [Devices -> 0 .. MaxPlugs + 1]
      /\ \A x \in Devices : plugged'[x] = IF x = d THEN nextPlug ELSE plugged[x]
  BY <1>1, <1>2, EvdevReaderAssumption DEF IInv, TypeOK
<1>4. TypeOK'
  BY <1>1, <1>2, <1>3 DEF IInv, TypeOK
<1>5. OwnFiles' /\ EntriesArePlaced' /\ MainAgrees' /\ NamesDiffer'
  BY <1>1 DEF IInv, OwnFiles, EntriesArePlaced, MainAgrees, NamesDiffer
<1>6. holder[d] = NoFd
  BY <1>1 DEF IInv, KernelAgrees
<1>7. KernelAgrees'
  <2>1. \A x \in Devices : plugged'[x] < nextPlug'
    BY <1>1, <1>2, <1>3, EvdevReaderAssumption DEF IInv, TypeOK, KernelAgrees
  <2>2. \A f \in Fds : file'[f] # NoFile => file'[f].plug \in 1 .. nextPlug' - 1
    BY <1>1, <1>2 DEF IInv, KernelAgrees
  <2>3. \A x \in Devices : holder'[x] # NoFd =>
           plugged'[x] # 0 /\ file'[holder'[x]] = [dev |-> x, plug |-> plugged'[x]]
    BY <1>1, <1>3, <1>6 DEF IInv, KernelAgrees
  <2> QED
    BY <2>1, <2>2, <2>3 DEF KernelAgrees
<1>8. ASSUME NEW x \in Entries
      PROVE  (Live(fd[x])' <=> Live(fd[x])) /\ (Holds(fd[x])' <=> Holds(fd[x]))
  <2>1. CASE fd[x] \notin Fds \/ file[fd[x]] = NoFile
    BY <1>1, <2>1 DEF Live, Holds
  <2>2. CASE fd[x] \in Fds /\ file[fd[x]] # NoFile
    <3>1. /\ file[fd[x]].dev \in Devices /\ file[fd[x]].plug \in 1 .. nextPlug - 1
      BY <2>2 DEF IInv, TypeOK, KernelAgrees
    <3>2. Live(fd[x])' <=> Live(fd[x])
      BY <1>1, <1>2, <1>3, <2>2, <3>1 DEF Live
    <3> QED
      BY <1>1, <3>2 DEF Holds
  <2> QED
    BY <2>1, <2>2
<1>9. GrabAgrees'
  BY <1>1, <1>8 DEF IInv, GrabAgrees
<1> QED
  BY <1>4, <1>5, <1>7, <1>9 DEF IInv

LEMMA UnplugKeeps == ASSUME IInv, NEW d \in Removable, Unplug(d) PROVE IInv'
<1>1. /\ d \in Devices
      /\ plugged' = [plugged EXCEPT ![d] = 0] /\ holder' = [holder EXCEPT ![d] = NoFd]
      /\ UNCHANGED <<mainPc, todo, name, new, walk, grabbing, list, pc, fd, devName,
                     nextPlug, file, inbox, closed, sent, faults, crossed>>
  BY EvdevReaderAssumption DEF Unplug, mainVars, entryVars, appVars
<1>2. /\ plugged' \in [Devices -> 0 .. MaxPlugs + 1]
      /\ \A x \in Devices : plugged'[x] = IF x = d THEN 0 ELSE plugged[x]
  BY <1>1, EvdevReaderAssumption DEF IInv, TypeOK
<1>3. /\ holder' \in [Devices -> Fds \cup {NoFd}]
      /\ \A x \in Devices : holder'[x] = IF x = d THEN NoFd ELSE holder[x]
  BY <1>1 DEF IInv, TypeOK
<1>4. TypeOK'
  BY <1>1, <1>2, <1>3 DEF IInv, TypeOK
<1>5. OwnFiles' /\ EntriesArePlaced' /\ MainAgrees' /\ NamesDiffer'
  BY <1>1 DEF IInv, OwnFiles, EntriesArePlaced, MainAgrees, NamesDiffer
<1>6. KernelAgrees'
  <2>1. \A x \in Devices : plugged'[x] < nextPlug'
    BY <1>1, <1>2, EvdevReaderAssumption DEF IInv, TypeOK, KernelAgrees
  <2> QED
    BY <1>1, <1>2, <1>3, <2>1 DEF IInv, KernelAgrees
<1>7. ASSUME NEW x \in Entries, Live(fd[x])'
      PROVE  Live(fd[x]) /\ (Holds(fd[x])' <=> Holds(fd[x]))
  <2>1. /\ fd[x] \in Fds /\ file[fd[x]].dev \in Devices
        /\ file[fd[x]].plug \in 1 .. nextPlug - 1
        /\ file[fd[x]].plug = plugged'[file[fd[x]].dev]
    BY <1>1, <1>7 DEF Live, IInv, TypeOK, KernelAgrees
  <2>2. file[fd[x]].dev # d
    BY <1>2, <2>1 DEF IInv, TypeOK
  <2> QED
    BY <1>1, <1>2, <1>3, <1>7, <2>1, <2>2 DEF Live, Holds
<1>8. \A x \in Entries : Holds(fd[x])' => Live(fd[x])'
  BY DEF Holds
<1>9. GrabAgrees'
  BY <1>1, <1>7, <1>8 DEF IInv, GrabAgrees
<1> QED
  BY <1>4, <1>5, <1>6, <1>9 DEF IInv

LEMMA StutterKeeps == ASSUME IInv, UNCHANGED vars PROVE IInv'
<1>1. /\ UNCHANGED <<mainPc, todo, name, new, walk, grabbing, list, inbox, closed, sent,
                     plugged, nextPlug, file, holder, pc, fd, devName, faults, crossed>>
      /\ UNCHANGED <<new, walk, grabbing, entryVars, kernelVars, appVars, crossed>>
  BY DEF vars, mainVars, entryVars, kernelVars, plugVars, appVars
<1>2. TypeOK' /\ MainAgrees'
  BY <1>1 DEF IInv, TypeOK, MainAgrees
<1> QED
  BY <1>1, <1>2, MainMoves

-----------------------------------------------------------------------------
(* The theorems *)

LEMMA NextKeeps == ASSUME IInv, [Next]_vars PROVE IInv'
<1>1. CASE Main
  BY <1>1, ConnectKeeps, DedupeKeeps, OpenKeeps, OpenFailsKeeps, PrecheckKeeps,
     CreateThreadKeeps, CreateFailsKeeps, InsertKeeps, EnumeratedKeeps, TimeoutKeeps,
     ReceiveKeeps, ReceiveFailsKeeps, ReceiveEndKeeps, CarriedOutKeeps, CarryOutKeeps
     DEF Main
<1>2. CASE World
  BY <1>2, AppKeeps, PlugKeeps, UnplugKeeps, ReadEventKeeps, PollBreaksKeeps DEF World
<1>3. ASSUME NEW e \in Entries, Thread(e) PROVE IInv'
  BY <1>3, StartKeeps, GrabDeviceKeeps, OutputKeeps, PollFailsKeeps, RemoveKeeps,
     UngrabDeviceKeeps, CloseDeviceKeeps DEF Thread
<1>4. CASE UNCHANGED vars
  BY <1>4, StutterKeeps
<1> QED
  BY <1>1, <1>2, <1>3, <1>4 DEF Next

LEMMA Inductive == Spec => []IInv
<1>1. Init => IInv
  BY InitEstablishes
<1>2. IInv /\ [Next]_vars => IInv'
  BY NextKeeps
<1> QED
  BY <1>1, <1>2, PTL DEF Spec

\* The state of the reader is well-formed (evdev_reader.c, DeviceEntry).
THEOREM ReaderIsTyped == Spec => []TypeOK
<1>1. IInv => TypeOK
  BY DEF IInv
<1> QED
  BY <1>1, Inductive, PTL

\* Whatever main() and the threads find on the list is theirs to use: it is
\* allocated, its descriptor is its own and open, and its name is polled once
\* (DeviceListLock in pollThreadFunc(), startPollForDevice() and main()).
THEOREM ListedEntriesAreAlive == Spec => []ListIsAlive
BY IInvImpliesListIsAlive, Inductive, PTL

\* A device that is read is grabbed exactly when the app's last request said
\* so, but for the entries whose grab crossed it (the UNGRAB and REGRAB
\* requests of main(), and the start of pollThreadFunc()).
THEOREM GrabsFollowRequests == Spec => []GrabFollowsRequest
BY IInvImpliesGrabFollows, Inductive, PTL
=============================================================================
