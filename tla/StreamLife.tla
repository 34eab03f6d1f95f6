----------------------------- MODULE StreamLife -----------------------------
(***************************************************************************)
(* What a stream promises whoever watches it from outside, with nothing    *)
(* said about threads, requests, aborts or timers: it is starting until it *)
(* is live, a live stream may drop into a reconnect and come back from it, *)
(* and once it is over it stays over.  It is live only while it has the    *)
(* one slot the process has for connections, so two streams are never live *)
(* together, and the slot is not given back under a live stream.           *)
(***************************************************************************)

CONSTANTS
    Streams,
    NoStream            \* the slot is free

VARIABLES
    life,               \* "starting", "live", "reconnecting" or "over"
    slot                \* the stream that has the connection slot

lifeVars == <<life, slot>>

LifeInit ==
    /\ life = [s \in Streams |-> "starting"]
    /\ slot = NoStream

TakeSlot(s) ==
    /\ slot = NoStream
    /\ slot' = s
    /\ UNCHANGED life

GoLive(s) ==
    /\ slot = s
    /\ life[s] \in {"starting", "reconnecting"}
    /\ life' = [life EXCEPT ![s] = "live"]
    /\ UNCHANGED slot

DropOut(s) ==
    /\ life[s] = "live"
    /\ life' = [life EXCEPT ![s] = "reconnecting"]
    /\ UNCHANGED slot

EndForGood(s) ==
    /\ life[s] # "over"
    /\ life' = [life EXCEPT ![s] = "over"]
    /\ UNCHANGED slot

FreeSlot(s) ==
    /\ slot = s
    /\ life[s] # "live"
    /\ slot' = NoStream
    /\ UNCHANGED life

LifeNext ==
    \E s \in Streams :
        TakeSlot(s) \/ GoLive(s) \/ DropOut(s) \/ EndForGood(s) \/ FreeSlot(s)

LifeSpec == LifeInit /\ [][LifeNext]_lifeVars
=============================================================================
