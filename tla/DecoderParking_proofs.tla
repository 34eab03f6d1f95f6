------------------------ MODULE DecoderParking_proofs ------------------------
(***************************************************************************)
(* That a codec always has exactly one owner while it lives, fits the      *)
(* stream it plays and is released in the end: for any number of codecs,   *)
(* formats and reconnect attempts.                                         *)
(*                                                                         *)
(* Every step either leaves the codecs with their owners, hands one to     *)
(* another owner, releases one or creates one; a lemma for each of these   *)
(* carries OneOwner along, and the steps are instances of them.            *)
(***************************************************************************)
EXTENDS DecoderParking, TLAPS

\* A thread has a codec only between the steps that get it and give it away.
HeldInPlace ==
    /\ \A r \in Renderers :
          /\ videoDecoder[r] # NoCodec => pc[r] \in {"up", "parking", "releasing"}
          /\ toRelease[r] # NoCodec => pc[r] = "discarding"
    /\ uiToRelease # NoCodec => uiPc = "discarding"
    /\ \A r \in Renderers : r > current => pc[r] = "unmade"

IInv == TypeOK /\ HeldInPlace /\ OneOwner

-----------------------------------------------------------------------------
(* Owners *)

LEMMA PlacesAre ==
    /\ \A r \in Renderers : <<"plays", r>> \in Places /\ <<"discards", r>> \in Places
    /\ <<"parking", 0>> \in Places /\ <<"ui", 0>> \in Places
    /\ \A p \in Places : \/ p = <<"parking", 0>> \/ p = <<"ui", 0>>
                         \/ \E r \in Renderers : p = <<"plays", r>> \/ p = <<"discards", r>>
    /\ \A r \in Renderers : /\ <<"parking", 0>> # <<"plays", r>>
                            /\ <<"parking", 0>> # <<"discards", r>>
BY DEF Places

LEMMA HasIs ==
    /\ Has(<<"parking", 0>>) = parked
    /\ Has(<<"ui", 0>>) = uiToRelease
    /\ \A r \in Renderers : Has(<<"plays", r>>) = videoDecoder[r]
    /\ \A r \in Renderers : Has(<<"discards", r>>) = toRelease[r]
BY DEF Has

LEMMA HasIsNext ==
    /\ Has(<<"parking", 0>>)' = parked'
    /\ Has(<<"ui", 0>>)' = uiToRelease'
    /\ \A r \in Renderers : Has(<<"plays", r>>)' = videoDecoder'[r]
    /\ \A r \in Renderers : Has(<<"discards", r>>)' = toRelease'[r]
BY DEF Has

LEMMA HasACodec == ASSUME TypeOK, NEW p \in Places PROVE Has(p) \in Codecs \cup {NoCodec}
BY PlacesAre, HasIs DEF TypeOK

\* Nobody gets or gives a codec.
LEMMA OwnersKeep ==
    ASSUME OneOwner,
           \A o \in Places : Has(o)' = Has(o),
           UNCHANGED codecState
    PROVE  OneOwner'
BY DEF OneOwner

\* Owner p hands its codec to q, who had none.
LEMMA OwnerHandsOver ==
    ASSUME OneOwner, NEW p \in Places, NEW q \in Places, p # q,
           Has(q) = NoCodec,
           Has(q)' = Has(p), Has(p)' = NoCodec,
           \A o \in Places \ {p, q} : Has(o)' = Has(o),
           UNCHANGED codecState
    PROVE  OneOwner'
<1> USE DecoderParkingAssumption
<1>1. \A o \in Places : Has(o)' # NoCodec => codecState'[Has(o)'] = "live"
  BY DEF OneOwner
<1>2. \A o, u \in Places : Has(o)' # NoCodec /\ Has(o)' = Has(u)' => o = u
  BY DEF OneOwner
<1>3. \A c \in Codecs : codecState'[c] = "live" => \E o \in Places : Has(o)' = c
  BY DEF OneOwner
<1> QED
  BY <1>1, <1>2, <1>3 DEF OneOwner

\* Owner p releases its codec, if it has one.
LEMMA OwnerReleases ==
    ASSUME OneOwner, TypeOK, NEW p \in Places,
           Release(Has(p)), Has(p)' = NoCodec,
           \A o \in Places \ {p} : Has(o)' = Has(o)
    PROVE  OneOwner'
<1> USE DecoderParkingAssumption, HasACodec
<1>1. \A c \in Codecs : /\ c # Has(p) => codecState'[c] = codecState[c]
                        /\ c = Has(p) => codecState'[c] = "released"
  BY DEF Release, TypeOK
<1>2. \A o \in Places : Has(o)' # NoCodec => codecState'[Has(o)'] = "live"
  BY <1>1 DEF OneOwner
<1>3. \A o, u \in Places : Has(o)' # NoCodec /\ Has(o)' = Has(u)' => o = u
  BY DEF OneOwner
<1>4. \A c \in Codecs : codecState'[c] = "live" => \E o \in Places : Has(o)' = c
  BY <1>1 DEF OneOwner
<1> QED
  BY <1>2, <1>3, <1>4 DEF OneOwner

\* Owner p, who had none, gets a codec that is new.
LEMMA OwnerCreates ==
    ASSUME OneOwner, TypeOK, NEW p \in Places, NEW c \in Codecs,
           Has(p) = NoCodec, codecState[c] = "unmade",
           codecState' = [codecState EXCEPT ![c] = "live"],
           Has(p)' = c,
           \A o \in Places \ {p} : Has(o)' = Has(o)
    PROVE  OneOwner'
<1> USE DecoderParkingAssumption, HasACodec
<1>1. \A d \in Codecs : codecState'[d] = IF d = c THEN "live" ELSE codecState[d]
  BY DEF TypeOK
<1>2. \A o \in Places : Has(o) # c
  BY DEF OneOwner
<1>3. \A o \in Places : Has(o)' # NoCodec => codecState'[Has(o)'] = "live"
  BY <1>1 DEF OneOwner
<1>4. \A o, u \in Places : Has(o)' # NoCodec /\ Has(o)' = Has(u)' => o = u
  BY <1>2 DEF OneOwner
<1>5. \A d \in Codecs : codecState'[d] = "live" => \E o \in Places : Has(o)' = d
  BY <1>1 DEF OneOwner
<1> QED
  BY <1>3, <1>4, <1>5 DEF OneOwner

\* Owner q releases the codec it has, if any, for the one p hands over.
LEMMA OwnerReplaces ==
    ASSUME OneOwner, TypeOK, NEW p \in Places, NEW q \in Places, p # q,
           Release(Has(q)),
           Has(q)' = Has(p), Has(p)' = NoCodec,
           \A o \in Places \ {p, q} : Has(o)' = Has(o)
    PROVE  OneOwner'
<1> USE DecoderParkingAssumption, HasACodec
<1>1. \A c \in Codecs : /\ c # Has(q) => codecState'[c] = codecState[c]
                        /\ c = Has(q) => codecState'[c] = "released"
  BY DEF Release, TypeOK
<1>2. \A o \in Places : Has(o)' # NoCodec => codecState'[Has(o)'] = "live"
  BY <1>1 DEF OneOwner
<1>3. \A o, u \in Places : Has(o)' # NoCodec /\ Has(o)' = Has(u)' => o = u
  BY DEF OneOwner
<1>4. \A c \in Codecs : codecState'[c] = "live" => \E o \in Places : Has(o)' = c
  BY <1>1 DEF OneOwner
<1> QED
  BY <1>2, <1>3, <1>4 DEF OneOwner

-----------------------------------------------------------------------------
(* The invariant *)

LEMMA InitIInv == Init => IInv
<1> SUFFICES ASSUME Init PROVE IInv
  OBVIOUS
<1> USE DecoderParkingAssumption DEF Init
<1>1. TypeOK
  <2>1. pc \in [Renderers -> Pcs] /\ current \in Renderers
    BY DEF Pcs, Renderers
  <2>2. /\ videoDecoder \in [Renderers -> Codecs \cup {NoCodec}]
        /\ toRelease \in [Renderers -> Codecs \cup {NoCodec}]
        /\ decoderParking \in [Renderers -> BOOLEAN]
        /\ upscaler \in [Renderers -> BOOLEAN]
    OBVIOUS
  <2>3. /\ codecState \in [Codecs -> {"unmade", "live", "released"}]
        /\ codecFormat \in [Codecs -> Formats]
    OBVIOUS
  <2> QED
    BY <2>1, <2>2, <2>3 DEF TypeOK
<1>2. HeldInPlace
  BY DEF HeldInPlace, Renderers
<1>3. \A p \in Places : Has(p) = NoCodec
  BY PlacesAre, HasIs
<1>4. OneOwner
  BY <1>3 DEF OneOwner
<1> QED
  BY <1>1, <1>2, <1>4 DEF IInv

\* A step of a renderer that keeps every codec where it is.
LEMMA RendererKeeps ==
    ASSUME IInv, TypeOK', HeldInPlace',
           UNCHANGED <<parked, videoDecoder, toRelease, uiToRelease, codecState>>
    PROVE  IInv'
<1>1. \A o \in Places : Has(o)' = Has(o)
  BY DEF Has
<1> QED
  BY <1>1, OwnersKeep DEF IInv

\* A step that moves renderer r to another place in its program.
LEMMA Moves ==
    ASSUME TypeOK, NEW r \in Renderers, NEW label \in Pcs, Goto(r, label)
    PROVE  /\ pc' \in [Renderers -> Pcs]
           /\ pc'[r] = label
           /\ \A o \in Renderers \ {r} : pc'[o] = pc[o]
BY DEF TypeOK, Goto

LEMMA QuietRendererIInv ==
    ASSUME IInv, NEW r \in Renderers,
           NeverSetUp(r) \/ Setup(r) \/ ReadParking(r) \/ CreateFails(r)
             \/ FallBack(r) \/ BeginCleanup(r)
    PROVE  IInv'
<1>1. /\ UNCHANGED <<parkingVars, decoderParking, videoDecoder, toRelease,
                     format, gameVars, codecVars>>
      /\ upscaler' \in [Renderers -> BOOLEAN]
  BY DEF NeverSetUp, Setup, ReadParking, CreateFails, FallBack, BeginCleanup,
         IInv, TypeOK
<1>2. \/ UNCHANGED pc
      \/ \E label \in {"gone", "configuring", "taking", "creating"} :
             Goto(r, label) /\ pc[r] \in {"new", "configuring", "creating"}
      \/ \E label \in {"parking", "releasing"} :
             Goto(r, label) /\ pc[r] = "up"
  BY DEF NeverSetUp, Setup, ReadParking, CreateFails, FallBack, BeginCleanup
<1>3. pc' \in [Renderers -> Pcs]
  BY <1>2, Moves DEF IInv, TypeOK, Pcs, Busy
<1>4. TypeOK'
  BY <1>1, <1>3 DEF IInv, TypeOK, parkingVars, gameVars, codecVars
<1>5. \A o \in Renderers :
          \/ pc'[o] = pc[o]
          \/ pc[o] \in {"new", "configuring", "creating"}
          \/ pc[o] = "up" /\ pc'[o] \in {"parking", "releasing"}
  BY <1>2, Moves DEF IInv, Pcs, Busy
<1>6. HeldInPlace'
  BY <1>1, <1>5 DEF IInv, HeldInPlace, gameVars
<1> QED
  BY <1>1, <1>4, <1>6, RendererKeeps DEF parkingVars, gameVars, codecVars

LEMMA TakeIInv == ASSUME IInv, NEW r \in Renderers, Take(r) PROVE IInv'
<1> USE DecoderParkingAssumption
<1>1. /\ pc[r] = "taking" /\ parked' = NoCodec
      /\ UNCHANGED <<open, parkedFormat, decoderParking, format, upscaler,
                     gameVars, codecVars>>
  BY DEF Take
<1>2. videoDecoder[r] = NoCodec /\ toRelease[r] = NoCodec
  BY <1>1 DEF IInv, HeldInPlace
<1>3. CASE parked = NoCodec
  <2>1. Goto(r, "creating") /\ UNCHANGED <<videoDecoder, toRelease>>
    BY <1>3 DEF Take
  <2>2. /\ pc' \in [Renderers -> Pcs]
        /\ pc'[r] = "creating"
        /\ \A o \in Renderers \ {r} : pc'[o] = pc[o]
    BY <2>1, Moves DEF IInv, Pcs, Busy
  <2>3. TypeOK'
    BY <1>1, <2>1, <2>2 DEF IInv, TypeOK, gameVars, codecVars
  <2>4. HeldInPlace'
    BY <1>1, <1>2, <2>1, <2>2 DEF IInv, HeldInPlace, gameVars
  <2> QED
    BY <1>1, <1>3, <2>1, <2>3, <2>4, RendererKeeps DEF gameVars, codecVars
<1>4. CASE parked # NoCodec /\ format[r] = parkedFormat
  <2>1. /\ videoDecoder' = [videoDecoder EXCEPT ![r] = parked]
        /\ Goto(r, "up") /\ UNCHANGED toRelease
    BY <1>4 DEF Take
  <2>2. /\ pc' \in [Renderers -> Pcs]
        /\ pc'[r] = "up"
        /\ \A o \in Renderers \ {r} : pc'[o] = pc[o]
    BY <2>1, Moves DEF IInv, Pcs, Busy
  <2>3. /\ videoDecoder' \in [Renderers -> Codecs \cup {NoCodec}]
        /\ videoDecoder'[r] = parked
        /\ \A o \in Renderers \ {r} : videoDecoder'[o] = videoDecoder[o]
    BY <2>1 DEF IInv, TypeOK
  <2>4. TypeOK'
    BY <1>1, <2>1, <2>2, <2>3 DEF IInv, TypeOK, gameVars, codecVars
  <2>5. HeldInPlace'
    BY <1>1, <1>2, <2>1, <2>2, <2>3 DEF IInv, HeldInPlace, gameVars
  <2>6. \A o \in Places \ {<<"parking", 0>>, <<"plays", r>>} : Has(o)' = Has(o)
    BY <1>1, <2>1, <2>3, PlacesAre, HasIs, HasIsNext DEF gameVars
  <2>7. /\ Has(<<"plays", r>>) = NoCodec
        /\ Has(<<"plays", r>>)' = Has(<<"parking", 0>>)
        /\ Has(<<"parking", 0>>)' = NoCodec
    BY <1>1, <1>2, <2>3, HasIs, HasIsNext
  <2>8. OneOwner'
    BY <1>1, <2>6, <2>7, PlacesAre, OwnerHandsOver DEF IInv, codecVars
  <2> QED
    BY <2>4, <2>5, <2>8 DEF IInv
<1>5. CASE parked # NoCodec /\ format[r] # parkedFormat
  <2>1. /\ toRelease' = [toRelease EXCEPT ![r] = parked]
        /\ Goto(r, "discarding") /\ UNCHANGED videoDecoder
    BY <1>5 DEF Take
  <2>2. /\ pc' \in [Renderers -> Pcs]
        /\ pc'[r] = "discarding"
        /\ \A o \in Renderers \ {r} : pc'[o] = pc[o]
    BY <2>1, Moves DEF IInv, Pcs, Busy
  <2>3. /\ toRelease' \in [Renderers -> Codecs \cup {NoCodec}]
        /\ toRelease'[r] = parked
        /\ \A o \in Renderers \ {r} : toRelease'[o] = toRelease[o]
    BY <2>1 DEF IInv, TypeOK
  <2>4. TypeOK'
    BY <1>1, <2>1, <2>2, <2>3 DEF IInv, TypeOK, gameVars, codecVars
  <2>5. HeldInPlace'
    BY <1>1, <1>2, <2>1, <2>2, <2>3 DEF IInv, HeldInPlace, gameVars
  <2>6. \A o \in Places \ {<<"parking", 0>>, <<"discards", r>>} : Has(o)' = Has(o)
    BY <1>1, <2>1, <2>3, PlacesAre, HasIs, HasIsNext DEF gameVars
  <2>7. /\ Has(<<"discards", r>>) = NoCodec
        /\ Has(<<"discards", r>>)' = Has(<<"parking", 0>>)
        /\ Has(<<"parking", 0>>)' = NoCodec
    BY <1>1, <1>2, <2>3, HasIs, HasIsNext
  <2>8. OneOwner'
    BY <1>1, <2>6, <2>7, PlacesAre, OwnerHandsOver DEF IInv, codecVars
  <2> QED
    BY <2>4, <2>5, <2>8 DEF IInv
<1> QED
  BY <1>3, <1>4, <1>5

\* The codec state after a release is still one.
LEMMA ReleaseType ==
    ASSUME TypeOK, NEW c, Release(c)
    PROVE  codecState' \in [Codecs -> {"unmade", "live", "released"}]
BY DEF TypeOK, Release

LEMMA DiscardMisfitIInv ==
    ASSUME IInv, NEW r \in Renderers, DiscardMisfit(r) PROVE IInv'
<1> USE DecoderParkingAssumption
<1>1. /\ pc[r] = "discarding" /\ Release(toRelease[r]) /\ Goto(r, "creating")
      /\ toRelease' = [toRelease EXCEPT ![r] = NoCodec]
      /\ UNCHANGED <<parkingVars, decoderParking, videoDecoder, format,
                     upscaler, gameVars, codecFormat>>
  BY DEF DiscardMisfit
<1>2. /\ pc' \in [Renderers -> Pcs]
      /\ pc'[r] = "creating"
      /\ \A o \in Renderers \ {r} : pc'[o] = pc[o]
  BY <1>1, Moves DEF IInv, Pcs, Busy
<1>3. /\ toRelease' \in [Renderers -> Codecs \cup {NoCodec}]
      /\ toRelease'[r] = NoCodec
      /\ \A o \in Renderers \ {r} : toRelease'[o] = toRelease[o]
  BY <1>1 DEF IInv, TypeOK
<1>4. TypeOK'
  BY <1>1, <1>2, <1>3, ReleaseType DEF IInv, TypeOK, parkingVars, gameVars
<1>5. HeldInPlace'
  BY <1>1, <1>2, <1>3 DEF IInv, HeldInPlace, gameVars
<1>6. \A o \in Places \ {<<"discards", r>>} : Has(o)' = Has(o)
  BY <1>1, <1>3, PlacesAre, HasIs, HasIsNext DEF parkingVars, gameVars
<1>7. Release(Has(<<"discards", r>>)) /\ Has(<<"discards", r>>)' = NoCodec
  BY <1>1, <1>3, HasIs, HasIsNext
<1>8. OneOwner'
  BY <1>6, <1>7, PlacesAre, OwnerReleases DEF IInv
<1> QED
  BY <1>4, <1>5, <1>8 DEF IInv

LEMMA CreateIInv == ASSUME IInv, NEW r \in Renderers, Create(r) PROVE IInv'
<1> USE DecoderParkingAssumption
<1>1. PICK c \in Codecs :
          /\ codecState[c] = "unmade"
          /\ codecState' = [codecState EXCEPT ![c] = "live"]
          /\ codecFormat' = [codecFormat EXCEPT ![c] = format[r]]
          /\ videoDecoder' = [videoDecoder EXCEPT ![r] = c]
  BY DEF Create
<1>2. /\ pc[r] = "creating" /\ Goto(r, "up")
      /\ UNCHANGED <<parkingVars, decoderParking, toRelease, format, gameVars>>
      /\ upscaler' \in [Renderers -> BOOLEAN]
  <2>1. \E u \in BOOLEAN : upscaler' = [upscaler EXCEPT ![r] = u]
    BY DEF Create, IInv, TypeOK
  <2>2. upscaler' \in [Renderers -> BOOLEAN]
    BY <2>1 DEF IInv, TypeOK
  <2> QED
    BY <2>2 DEF Create
<1>3. /\ pc' \in [Renderers -> Pcs]
      /\ pc'[r] = "up"
      /\ \A o \in Renderers \ {r} : pc'[o] = pc[o]
  BY <1>2, Moves DEF IInv, Pcs, Busy
<1>4. /\ videoDecoder' \in [Renderers -> Codecs \cup {NoCodec}]
      /\ videoDecoder'[r] = c
      /\ \A o \in Renderers \ {r} : videoDecoder'[o] = videoDecoder[o]
  BY <1>1 DEF IInv, TypeOK
<1>5. TypeOK'
  <2>1. /\ codecState' \in [Codecs -> {"unmade", "live", "released"}]
        /\ codecFormat' \in [Codecs -> Formats]
    BY <1>1 DEF IInv, TypeOK
  <2>2. UNCHANGED <<open, parked, parkedFormat, decoderParking, toRelease, format,
                    current, screen, uiPc, uiToRelease>>
    BY <1>2 DEF parkingVars, gameVars
  <2> QED
    BY <1>2, <1>3, <1>4, <2>1, <2>2 DEF IInv, TypeOK
<1>6. HeldInPlace'
  BY <1>2, <1>3, <1>4 DEF IInv, HeldInPlace, gameVars
<1>7. \A o \in Places \ {<<"plays", r>>} : Has(o)' = Has(o)
  BY <1>2, <1>4, PlacesAre, HasIs, HasIsNext DEF parkingVars, gameVars
<1>8. Has(<<"plays", r>>) = NoCodec /\ Has(<<"plays", r>>)' = c
  BY <1>2, <1>4, HasIs, HasIsNext DEF IInv, HeldInPlace
<1>9. OneOwner'
  BY <1>1, <1>7, <1>8, PlacesAre, OwnerCreates DEF IInv
<1> QED
  BY <1>5, <1>6, <1>9 DEF IInv

\* A renderer that gives up its codec: for another one, or for good.
LEMMA RendererReleases ==
    ASSUME IInv, NEW r \in Renderers, Recreate(r) \/ CleanupReleases(r)
    PROVE  IInv'
<1> USE DecoderParkingAssumption
<1>1. /\ pc[r] \in {"up", "releasing"} /\ Release(videoDecoder[r])
      /\ videoDecoder' = [videoDecoder EXCEPT ![r] = NoCodec]
      /\ UNCHANGED <<parkingVars, decoderParking, toRelease, format, gameVars,
                     codecFormat>>
      /\ upscaler' \in [Renderers -> BOOLEAN]
  BY DEF Recreate, CleanupReleases, IInv, TypeOK
<1>2. PICK label \in {"configuring", "gone"} : Goto(r, label)
  BY DEF Recreate, CleanupReleases
<1>3. /\ pc' \in [Renderers -> Pcs]
      /\ \A o \in Renderers \ {r} : pc'[o] = pc[o]
  BY <1>2, Moves DEF IInv, Pcs, Busy
<1>4. /\ videoDecoder' \in [Renderers -> Codecs \cup {NoCodec}]
      /\ videoDecoder'[r] = NoCodec
      /\ \A o \in Renderers \ {r} : videoDecoder'[o] = videoDecoder[o]
  BY <1>1 DEF IInv, TypeOK
<1>5. TypeOK'
  BY <1>1, <1>3, <1>4, ReleaseType DEF IInv, TypeOK, parkingVars, gameVars
<1>6. HeldInPlace'
  BY <1>1, <1>3, <1>4 DEF IInv, HeldInPlace, gameVars
<1>7. \A o \in Places \ {<<"plays", r>>} : Has(o)' = Has(o)
  BY <1>1, <1>4, PlacesAre, HasIs, HasIsNext DEF parkingVars, gameVars
<1>8. Release(Has(<<"plays", r>>)) /\ Has(<<"plays", r>>)' = NoCodec
  BY <1>1, <1>4, HasIs, HasIsNext
<1>9. OneOwner'
  BY <1>7, <1>8, PlacesAre, OwnerReleases DEF IInv
<1> QED
  BY <1>5, <1>6, <1>9 DEF IInv

LEMMA ParkIInv == ASSUME IInv, NEW r \in Renderers, Park(r) PROVE IInv'
<1> USE DecoderParkingAssumption
<1>1. /\ pc[r] = "parking"
      /\ UNCHANGED <<open, decoderParking, toRelease, format, upscaler,
                     gameVars, codecFormat>>
  BY DEF Park
<1>2. CASE ~open
  <2>1. /\ Goto(r, "releasing")
        /\ UNCHANGED <<parked, parkedFormat, codecState, videoDecoder>>
    BY <1>2 DEF Park
  <2>2. /\ pc' \in [Renderers -> Pcs]
        /\ pc'[r] = "releasing"
        /\ \A o \in Renderers \ {r} : pc'[o] = pc[o]
    BY <2>1, Moves DEF IInv, Pcs, Busy
  <2>3. TypeOK'
    BY <1>1, <2>1, <2>2 DEF IInv, TypeOK, gameVars
  <2>4. HeldInPlace'
    BY <1>1, <2>1, <2>2 DEF IInv, HeldInPlace, gameVars
  <2> QED
    BY <1>1, <2>1, <2>3, <2>4, RendererKeeps DEF gameVars
<1>3. CASE open
  <2>1. /\ Release(parked) /\ Goto(r, "gone")
        /\ parked' = videoDecoder[r] /\ parkedFormat' = format[r]
        /\ videoDecoder' = [videoDecoder EXCEPT ![r] = NoCodec]
    BY <1>3 DEF Park
  <2>2. /\ pc' \in [Renderers -> Pcs]
        /\ \A o \in Renderers \ {r} : pc'[o] = pc[o]
    BY <2>1, Moves DEF IInv, Pcs, Busy
  <2>3. /\ videoDecoder' \in [Renderers -> Codecs \cup {NoCodec}]
        /\ videoDecoder'[r] = NoCodec
        /\ \A o \in Renderers \ {r} : videoDecoder'[o] = videoDecoder[o]
    BY <2>1 DEF IInv, TypeOK
  <2>4. parked' \in Codecs \cup {NoCodec} /\ parkedFormat' \in Formats
    BY <2>1 DEF IInv, TypeOK
  <2>5. TypeOK'
    BY <1>1, <2>1, <2>2, <2>3, <2>4, ReleaseType DEF IInv, TypeOK, gameVars
  <2>6. HeldInPlace'
    BY <1>1, <2>2, <2>3 DEF IInv, HeldInPlace, gameVars
  <2>7. \A o \in Places \ {<<"plays", r>>, <<"parking", 0>>} : Has(o)' = Has(o)
    BY <1>1, <2>3, PlacesAre, HasIs, HasIsNext DEF gameVars
  <2>8. /\ Has(<<"parking", 0>>)' = Has(<<"plays", r>>)
        /\ Has(<<"plays", r>>)' = NoCodec
        /\ Release(Has(<<"parking", 0>>))
    BY <2>1, <2>3, HasIs, HasIsNext
  <2>9. OneOwner'
    BY <2>7, <2>8, PlacesAre, OwnerReplaces DEF IInv
  <2> QED
    BY <2>5, <2>6, <2>9 DEF IInv
<1> QED
  BY <1>2, <1>3 DEF IInv, TypeOK

\* The UI thread opens the parking, makes a new renderer, moves on; the codecs
\* stay where they are.
LEMMA QuietGameIInv ==
    ASSUME IInv, StartReconnect \/ Attempt \/ EndReconnect \/ Leave \/ Destroy
    PROVE  IInv'
<1> USE DecoderParkingAssumption
<1>1. UNCHANGED <<parked, parkedFormat, videoDecoder, toRelease, format,
                  upscaler, uiToRelease, codecVars>>
  BY DEF StartReconnect, Attempt, EndReconnect, Leave, Destroy, parkingVars,
         rendererVars
<1>2. /\ open' \in BOOLEAN
      /\ decoderParking' \in [Renderers -> BOOLEAN]
      /\ screen' \in {"streaming", "reconnecting", "over", "destroyed"}
      /\ uiPc = "idle"
      /\ uiPc' \in {"idle", "closing"}
  BY DEF StartReconnect, Attempt, EndReconnect, Leave, Destroy, parkingVars,
         rendererVars, IInv, TypeOK
<1>3. \/ UNCHANGED <<pc, current>>
      \/ /\ current < MaxAttempts /\ current' = current + 1
         /\ pc' = [pc EXCEPT ![current + 1] = "new"]
         /\ pc[current] = "gone"
  BY DEF StartReconnect, Attempt, EndReconnect, Leave, Destroy, rendererVars, Goto
<1>4. /\ current' \in Renderers
      /\ pc' \in [Renderers -> Pcs]
  BY <1>3 DEF IInv, TypeOK, Renderers, Pcs
<1>5. TypeOK'
  BY <1>1, <1>2, <1>4 DEF IInv, TypeOK, codecVars
<1>6. \A r \in Renderers : pc'[r] = pc[r] \/ pc[r] = "unmade"
  BY <1>3 DEF IInv, TypeOK, HeldInPlace, Renderers
<1>7. \A r \in Renderers : r > current' => pc'[r] = "unmade"
  BY <1>3 DEF IInv, TypeOK, HeldInPlace, Renderers
<1>8. HeldInPlace'
  BY <1>1, <1>2, <1>6, <1>7 DEF IInv, HeldInPlace
<1> QED
  BY <1>1, <1>5, <1>8, RendererKeeps DEF codecVars

LEMMA CloseIInv == ASSUME IInv, Close PROVE IInv'
<1> USE DecoderParkingAssumption
<1>1. /\ uiPc = "closing" /\ uiPc' = "discarding" /\ open' = FALSE
      /\ uiToRelease' = parked /\ parked' = NoCodec
      /\ UNCHANGED <<parkedFormat, rendererVars, current, screen, codecVars>>
  BY DEF Close
<1>2. TypeOK'
  BY <1>1 DEF IInv, TypeOK, rendererVars, codecVars
<1>3. HeldInPlace'
  BY <1>1 DEF IInv, HeldInPlace, rendererVars
<1>4. \A o \in Places \ {<<"parking", 0>>, <<"ui", 0>>} : Has(o)' = Has(o)
  BY <1>1, PlacesAre, HasIs, HasIsNext DEF rendererVars
<1>5. /\ Has(<<"ui", 0>>) = NoCodec
      /\ Has(<<"ui", 0>>)' = Has(<<"parking", 0>>)
      /\ Has(<<"parking", 0>>)' = NoCodec
  BY <1>1, HasIs, HasIsNext DEF IInv, HeldInPlace
<1>6. OneOwner'
  BY <1>1, <1>4, <1>5, PlacesAre, OwnerHandsOver DEF IInv, codecVars
<1> QED
  BY <1>2, <1>3, <1>6 DEF IInv

LEMMA CloseReleasesIInv == ASSUME IInv, CloseReleases PROVE IInv'
<1> USE DecoderParkingAssumption
<1>1. /\ Release(uiToRelease) /\ uiToRelease' = NoCodec /\ uiPc' = "idle"
      /\ UNCHANGED <<parkingVars, rendererVars, current, screen, codecFormat>>
  BY DEF CloseReleases
<1>2. TypeOK'
  BY <1>1, ReleaseType DEF IInv, TypeOK, parkingVars, rendererVars
<1>3. HeldInPlace'
  BY <1>1 DEF IInv, HeldInPlace, rendererVars
<1>4. \A o \in Places \ {<<"ui", 0>>} : Has(o)' = Has(o)
  BY <1>1, PlacesAre, HasIs, HasIsNext DEF parkingVars, rendererVars
<1>5. Release(Has(<<"ui", 0>>)) /\ Has(<<"ui", 0>>)' = NoCodec
  BY <1>1, HasIs, HasIsNext
<1>6. OneOwner'
  BY <1>4, <1>5, PlacesAre, OwnerReleases DEF IInv
<1> QED
  BY <1>2, <1>3, <1>6 DEF IInv

LEMMA NextIInv == ASSUME IInv, [Next]_vars PROVE IInv'
<1>1. ASSUME NEW r \in Renderers, Renderer(r) PROVE IInv'
  BY <1>1, QuietRendererIInv, TakeIInv, DiscardMisfitIInv, CreateIInv,
     RendererReleases, ParkIInv DEF Renderer
<1>2. CASE Game
  BY <1>2, QuietGameIInv, CloseIInv, CloseReleasesIInv DEF Game
<1>3. CASE UNCHANGED vars
  <2>1. /\ UNCHANGED <<open, parked, parkedFormat, pc, decoderParking,
                       videoDecoder, toRelease, format, upscaler>>
        /\ UNCHANGED <<current, screen, uiPc, uiToRelease, codecState,
                       codecFormat>>
    BY <1>3 DEF vars, parkingVars, rendererVars, gameVars, codecVars
  <2>2. TypeOK' /\ HeldInPlace'
    BY <2>1 DEF IInv, TypeOK, HeldInPlace
  <2> QED
    BY <2>1, <2>2, RendererKeeps
<1> QED
  BY <1>1, <1>2, <1>3 DEF Next

\* Every live codec has exactly one owner, however many codecs, attempts and
\* formats there are: the parking neither loses a codec nor lends it to two.
THEOREM CodecsHaveOneOwner == Spec => [](TypeOK /\ OneOwner)
<1>1. IInv => TypeOK /\ OneOwner
  BY DEF IInv
<1> QED
  BY <1>1, InitIInv, NextIInv, PTL DEF Spec

-----------------------------------------------------------------------------
(* What the parking keeps *)

\* The parking is open only during a reconnect, and while it is being closed.
OpenInReconnect ==
    /\ screen # "reconnecting" /\ uiPc # "closing" => ~open
    /\ ~open => parked = NoCodec

\* A renderer plays a codec of its own format, and so is a codec kept.
FormatsKept ==
    /\ CodecFits
    /\ parked # NoCodec => codecFormat[parked] = parkedFormat

KInv == IInv /\ OpenInReconnect /\ FormatsKept

LEMMA InitKInv == Init => KInv
<1> SUFFICES ASSUME Init PROVE KInv
  OBVIOUS
<1>1. OpenInReconnect
  BY DEF Init, OpenInReconnect
<1>2. FormatsKept
  BY DEF Init, FormatsKept, CodecFits
<1> QED
  BY <1>1, <1>2, InitIInv DEF KInv

LEMMA OpenNext == ASSUME IInv, OpenInReconnect, [Next]_vars PROVE OpenInReconnect'
<1>1. ASSUME NEW r \in Renderers, Renderer(r) PROVE OpenInReconnect'
  <2>1. UNCHANGED <<open, screen, uiPc>>
    BY <1>1 DEF Renderer, NeverSetUp, Setup, ReadParking, Take, DiscardMisfit,
                Create, CreateFails, Recreate, FallBack, BeginCleanup, Park,
                CleanupReleases, parkingVars, gameVars
  <2>2. ~open => parked' \in {parked, NoCodec}
    BY <1>1 DEF Renderer, NeverSetUp, Setup, ReadParking, Take, DiscardMisfit,
                Create, CreateFails, Recreate, FallBack, BeginCleanup, Park,
                CleanupReleases, parkingVars
  <2> QED
    BY <2>1, <2>2 DEF OpenInReconnect
<1>2. CASE Game
  BY <1>2 DEF Game, StartReconnect, Attempt, EndReconnect, Leave, Destroy,
              Close, CloseReleases, parkingVars, OpenInReconnect, IInv, TypeOK
<1>3. CASE UNCHANGED vars
  BY <1>3 DEF vars, parkingVars, gameVars, OpenInReconnect
<1> QED
  BY <1>1, <1>2, <1>3 DEF Next

\* No step but Create touches the format a codec has; it does so for a codec
\* that nobody has yet.
LEMMA FormatsNext == ASSUME IInv, FormatsKept, [Next]_vars PROVE FormatsKept'
<1> USE DecoderParkingAssumption
<1>1. ASSUME NEW r \in Renderers,
             NeverSetUp(r) \/ Setup(r) \/ ReadParking(r) \/ CreateFails(r)
               \/ FallBack(r) \/ BeginCleanup(r)
      PROVE  FormatsKept'
  <2>1. UNCHANGED <<parked, parkedFormat, videoDecoder, format, codecFormat>>
    BY <1>1 DEF NeverSetUp, Setup, ReadParking, CreateFails, FallBack,
                BeginCleanup, parkingVars, codecVars
  <2>2. \A o \in Renderers :
            pc'[o] \in {"up", "parking", "releasing"} =>
                pc[o] \in {"up", "parking", "releasing"}
    BY <1>1 DEF NeverSetUp, Setup, ReadParking, CreateFails, FallBack,
                BeginCleanup, Goto, IInv, TypeOK
  <2> QED
    BY <2>1, <2>2 DEF FormatsKept, CodecFits
<1>2. ASSUME NEW r \in Renderers, Take(r) PROVE FormatsKept'
  <2>1. /\ parked' = NoCodec
        /\ UNCHANGED <<parkedFormat, format, codecFormat>>
    BY <1>2 DEF Take, codecVars
  <2>2. CASE parked # NoCodec /\ format[r] = parkedFormat
    <3>1. /\ videoDecoder' = [videoDecoder EXCEPT ![r] = parked]
          /\ Goto(r, "up")
      BY <1>2, <2>2 DEF Take
    <3>2. /\ videoDecoder'[r] = parked
          /\ \A o \in Renderers \ {r} :
                videoDecoder'[o] = videoDecoder[o] /\ pc'[o] = pc[o]
      BY <3>1 DEF Goto, IInv, TypeOK
    <3> QED
      BY <2>1, <2>2, <3>2 DEF FormatsKept, CodecFits
  <2>3. CASE ~(parked # NoCodec /\ format[r] = parkedFormat)
    <3>1. /\ UNCHANGED videoDecoder
          /\ Goto(r, "creating") \/ Goto(r, "discarding")
      BY <1>2, <2>3 DEF Take
    <3>2. \A o \in Renderers :
              pc'[o] \in {"up", "parking", "releasing"} => pc'[o] = pc[o]
      BY <3>1 DEF Goto, IInv, TypeOK
    <3> QED
      BY <2>1, <3>1, <3>2 DEF FormatsKept, CodecFits
  <2> QED
    BY <2>2, <2>3
<1>3. ASSUME NEW r \in Renderers, DiscardMisfit(r) PROVE FormatsKept'
  <2>1. /\ UNCHANGED <<parked, parkedFormat, videoDecoder, format, codecFormat>>
        /\ pc' = [pc EXCEPT ![r] = "creating"]
    BY <1>3 DEF DiscardMisfit, parkingVars, Goto
  <2> QED
    BY <2>1 DEF FormatsKept, CodecFits, IInv, TypeOK
<1>4. ASSUME NEW r \in Renderers, Create(r) PROVE FormatsKept'
  <2>1. PICK c \in Codecs :
            /\ codecState[c] = "unmade"
            /\ codecFormat' = [codecFormat EXCEPT ![c] = format[r]]
            /\ videoDecoder' = [videoDecoder EXCEPT ![r] = c]
    BY <1>4 DEF Create
  <2>2. /\ UNCHANGED <<parked, parkedFormat, format>>
        /\ pc' = [pc EXCEPT ![r] = "up"]
    BY <1>4 DEF Create, parkingVars, Goto
  <2>3. /\ parked # c
        /\ \A o \in Renderers : videoDecoder[o] # c
    <3>1. \A p \in Places : Has(p) # c
      BY <2>1 DEF IInv, OneOwner
    <3> QED
      BY <3>1, PlacesAre, HasIs
  <2>4. /\ videoDecoder'[r] = c
        /\ \A o \in Renderers \ {r} :
              videoDecoder'[o] = videoDecoder[o] /\ pc'[o] = pc[o]
    BY <2>1, <2>2 DEF IInv, TypeOK
  <2>5. /\ codecFormat'[c] = format[r]
        /\ \A d \in Codecs \ {c} : codecFormat'[d] = codecFormat[d]
    BY <2>1 DEF IInv, TypeOK
  <2> QED
    BY <2>2, <2>3, <2>4, <2>5 DEF FormatsKept, CodecFits, IInv, TypeOK
<1>5. ASSUME NEW r \in Renderers, Recreate(r) \/ CleanupReleases(r)
      PROVE  FormatsKept'
  <2>1. /\ UNCHANGED <<parked, parkedFormat, format, codecFormat>>
        /\ videoDecoder' = [videoDecoder EXCEPT ![r] = NoCodec]
        /\ Goto(r, "configuring") \/ Goto(r, "gone")
    BY <1>5 DEF Recreate, CleanupReleases, parkingVars
  <2> QED
    BY <2>1 DEF FormatsKept, CodecFits, Goto, IInv, TypeOK
<1>6. ASSUME NEW r \in Renderers, Park(r) PROVE FormatsKept'
  <2>1. pc[r] = "parking" /\ UNCHANGED <<format, codecFormat>>
    BY <1>6 DEF Park
  <2>2. CASE ~open
    <3>1. /\ UNCHANGED <<parked, parkedFormat, videoDecoder>>
          /\ pc' = [pc EXCEPT ![r] = "releasing"]
      BY <1>6, <2>2 DEF Park, Goto
    <3> QED
      BY <2>1, <3>1 DEF FormatsKept, CodecFits, IInv, TypeOK
  <2>3. CASE open
    <3>1. /\ parked' = videoDecoder[r] /\ parkedFormat' = format[r]
          /\ videoDecoder' = [videoDecoder EXCEPT ![r] = NoCodec]
          /\ pc' = [pc EXCEPT ![r] = "gone"]
      BY <1>6, <2>3 DEF Park, Goto
    <3> QED
      BY <2>1, <3>1 DEF FormatsKept, CodecFits, IInv, TypeOK
  <2> QED
    BY <2>2, <2>3
<1>7. CASE Game
  <2>1. /\ UNCHANGED <<parkedFormat, videoDecoder, format, codecFormat>>
        /\ parked' \in {parked, NoCodec}
    BY <1>7 DEF Game, StartReconnect, Attempt, EndReconnect, Leave, Destroy,
                Close, CloseReleases, parkingVars, rendererVars, codecVars
  <2>2. \/ UNCHANGED pc
        \/ pc' = [pc EXCEPT ![current + 1] = "new"]
    BY <1>7 DEF Game, StartReconnect, Attempt, EndReconnect, Leave, Destroy,
                Close, CloseReleases, rendererVars, Goto
  <2>3. \A r \in Renderers : pc'[r] \in {pc[r], "new"}
    BY <2>2 DEF IInv, TypeOK
  <2>4. \A r \in Renderers :
            pc'[r] \in {"up", "parking", "releasing"} => pc'[r] = pc[r]
    BY <2>3
  <2>5. CodecFits'
    BY <2>1, <2>4 DEF FormatsKept, CodecFits
  <2> QED
    BY <2>1, <2>5 DEF FormatsKept
<1>8. CASE UNCHANGED vars
  BY <1>8 DEF vars, parkingVars, rendererVars, codecVars, FormatsKept, CodecFits
<1> QED
  BY <1>1, <1>2, <1>3, <1>4, <1>5, <1>6, <1>7, <1>8 DEF Next, Renderer

LEMMA KInvIsInvariant == Spec => []KInv
<1>1. KInv /\ [Next]_vars => KInv'
  BY NextIInv, OpenNext, FormatsNext DEF KInv
<1> QED
  BY <1>1, InitKInv, PTL DEF Spec

\* Every renderer that plays, plays a codec that was configured for the format
\* of its own stream, wherever it came from.
THEOREM TakenCodecsFit == Spec => []CodecFits
<1>1. KInv => CodecFits
  BY DEF KInv, FormatsKept
<1> QED
  BY <1>1, KInvIsInvariant, PTL

\* Outside a reconnect nothing is parked, and once the screen is destroyed and
\* its connections have ended no codec is left: close() makes sure of it
\* whichever way a late cleanup() crosses it.
THEOREM ParkingLeavesNothing == Spec => [](NothingParkedOnceClosed /\ NoCodecLeft)
<1>1. KInv => NothingParkedOnceClosed
  BY DEF KInv, OpenInReconnect, NothingParkedOnceClosed
<1>2. KInv => NoCodecLeft
  <2> SUFFICES ASSUME KInv, Ended PROVE \A c \in Codecs : codecState[c] # "live"
    BY DEF NoCodecLeft
  <2>1. parked = NoCodec /\ uiToRelease = NoCodec
    BY DEF KInv, IInv, HeldInPlace, OpenInReconnect, Ended
  <2>2. \A r \in Renderers : videoDecoder[r] = NoCodec /\ toRelease[r] = NoCodec
    BY DEF KInv, IInv, HeldInPlace, Ended, Busy
  <2>3. \A p \in Places : Has(p) = NoCodec
    BY <2>1, <2>2, PlacesAre, HasIs
  <2> QED
    BY <2>3, DecoderParkingAssumption DEF KInv, IInv, OneOwner
<1> QED
  BY <1>1, <1>2, KInvIsInvariant, PTL
=============================================================================
