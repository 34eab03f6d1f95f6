--------------------------- MODULE PyroWaveFraming ---------------------------
(***************************************************************************)
(* One PyroWave frame from the host to the decoder: the host packs records *)
(* into RTP packets, some packets are lost, pyrowaveframing.cpp walks what *)
(* is left and hands the whole records to the decoder, which decides       *)
(* whether they are enough.                                                *)
(*                                                                         *)
(* A frame is a sequence of records measured in words of four bytes: the   *)
(* sequence header, the blocks of the coarsest wavelet level, then those   *)
(* of the finer levels, with padding between them.  What is in a record    *)
(* beyond its kind and its length is left out.                             *)
(***************************************************************************)
EXTENDS Integers, FiniteSets, FiniteSetsExt

CONSTANTS
    Hosts,              \* how hosts lay a frame out, see Put and Send
    PacketWords,        \* words of a full RTP packet
    Sizes,              \* words of a block record
    MaxBlocks,          \* bound: block records in a frame
    ReadyPercent,       \* received_ratio, in percent
    Geometries          \* widths and heights the block counts are compared for

HeaderWords == 2        \* k_HeaderWords, and what the frame header takes of the first packet

ASSUME FramingAssumption ==
    /\ Hosts \subseteq {"flagged", "packed", "prefixed"}
    /\ PacketWords \in Nat
    /\ PacketWords >= 3 * HeaderWords      \* the first packet holds what a frame begins with
    /\ \A s \in Sizes : s \in Nat /\ s >= HeaderWords
    /\ MaxBlocks \in Nat
    /\ ReadyPercent \in 0 .. 100
    /\ Geometries \subseteq (Nat \ {0}) \X (Nat \ {0})

VARIABLES
    (* the host *)
    host,               \* how it lays the frame out
    records,            \* [kind, from, to]: the records of the frame
    size,               \* words of the frame so far
    starts,             \* where its packets start
    packets,            \* [from, to, flag, lost]: what arrived (Segment)
    critical,           \* pyrowaveCriticalPackets
    (* walkRecordFrame *)
    phase,              \* "host", "walk", "parsed", "rejected", "shown" or "dropped"
    pos, spanStart, aligned, pastCoarseLevel,
    (* Frame *)
    spans, blockRecords, partial, coarseLevelIntact

hostVars == <<host, records, size, starts>>
sentVars == <<packets, critical>>
walkVars == <<pos, spanStart, aligned, pastCoarseLevel>>
parsedVars == <<spans, blockRecords, partial, coarseLevelIntact>>
framingVars == <<hostVars, sentVars, phase, walkVars, parsedVars>>

Blocks == {r \in records : r.kind \in {"coarse", "fine"}}
Span(from, to) == [from |-> from, to |-> to]

-----------------------------------------------------------------------------
(* the host *)

\* The first packet also carries the frame header.
Capacity(start) == IF start = 0 THEN PacketWords - HeaderWords ELSE PacketWords
LastStart == Max(starts)
Room == LastStart + Capacity(LastStart) - size

\* A record too large to share a packet with a padding record may cross packets.
Oversized(n) == n + HeaderWords > PacketWords

\* Packets that begin with or inside of words [from, to), after the one at start.
Cuts(start, from, to) ==
    LET full == start + Capacity(start)
    IN  {c \in from .. to - 1 : c >= full /\ (c - full) % PacketWords = 0}

FramingInit ==
    /\ host \in Hosts
    /\ records = IF host = "prefixed"
                 THEN {[kind |-> "count", from |-> 0, to |-> 1],
                       [kind |-> "length", from |-> 1, to |-> 2],
                       [kind |-> "sequence", from |-> 2, to |-> 2 + HeaderWords]}
                 ELSE {[kind |-> "sequence", from |-> 0, to |-> HeaderWords]}
    /\ size = IF host = "prefixed" THEN 2 + HeaderWords ELSE HeaderWords
    /\ starts = {0}
    /\ packets = {} /\ critical = 0
    /\ phase = "host"
    /\ pos = 0 /\ spanStart = 0 /\ aligned = FALSE /\ pastCoarseLevel = FALSE
    /\ spans = {} /\ blockRecords = 0 /\ partial = FALSE /\ coarseLevelIntact = TRUE

\* The coarsest level comes first, then the oversized records of the finer ones.
InOrder(kind, n) ==
    /\ kind = "coarse" => \A r \in records : r.kind # "fine"
    /\ kind = "fine" /\ Oversized(n) =>
          \A r \in records : r.kind = "fine" => Oversized(r.to - r.from)

\* A record after the last one, wherever packets end.
PutAfter(kind, n) ==
    /\ records' = records \cup {[kind |-> kind, from |-> size, to |-> size + n]}
    /\ size' = size + n
    /\ starts' = starts \cup Cuts(LastStart, size, size + n)

\* A record that does not fit in what is left of the packet starts the next one,
\* and padding fills the rest when there is room for its header.
PutAligned(kind, n) ==
    IF n <= Room \/ Room = 0
    THEN PutAfter(kind, n)
    ELSE LET padding == IF Room >= HeaderWords
                        THEN {[kind |-> "padding", from |-> size, to |-> size + Room]} ELSE {}
             start == IF Room >= HeaderWords THEN size + Room ELSE size
         IN
         /\ records' = records \cup padding \cup {[kind |-> kind, from |-> start, to |-> start + n]}
         /\ size' = start + n
         /\ starts' = starts \cup {start}

\* A length before the record makes it the first of a packet of its own.
PutPrefixed(kind, n) ==
    \/ PutAfter(kind, n)
    \/ /\ records' = records \cup {[kind |-> "length", from |-> size, to |-> size + 1],
                                   [kind |-> kind, from |-> size + 1, to |-> size + 1 + n]}
       /\ size' = size + 1 + n
       /\ starts' = starts \cup Cuts(LastStart, size, size + 1 + n)

\* A host that flags its packets may pad them too; one that only pads must put
\* every ordinary record of the finer levels into one packet.
Put ==
    /\ phase = "host"
    /\ Cardinality(Blocks) < MaxBlocks
    /\ \E kind \in {"coarse", "fine"}, n \in Sizes :
          /\ InOrder(kind, n)
          /\ \/ host = "prefixed" /\ PutPrefixed(kind, n)
             \/ host \in {"packed", "flagged"} /\ ~Oversized(n) /\ PutAligned(kind, n)
             \/ /\ host = "flagged" \/ (host = "packed" /\ (Oversized(n) \/ kind = "coarse"))
                /\ PutAfter(kind, n)
    /\ UNCHANGED <<host, sentVars, phase, walkVars, parsedVars>>

\* A packet ends where the next one starts.
PacketEnd(s) == Min({t \in starts : t > s} \cup {size})
StartsRecord(s) == \E r \in records : r.from = s

\* The packets that hold the sequence header and the coarsest level.
CriticalPackets ==
    Cardinality({s \in starts : \E r \in records : /\ r.kind \in {"sequence", "coarse"}
                                                   /\ s < r.to /\ r.from < PacketEnd(s)})

\* The packets leave, and any of them are lost.  The host may announce how many
\* hold the coarsest level.  It flags every packet that starts with a record, of
\* which the first is one, or none.
Send ==
    /\ phase = "host" /\ Blocks # {}
    /\ \E lost \in SUBSET starts :
          packets' = {[from |-> s, to |-> PacketEnd(s), lost |-> s \in lost,
                       flag |-> host = "flagged" /\ StartsRecord(s)] : s \in starts}
    /\ critical' \in {0, CriticalPackets}
    /\ phase' = "parse"
    /\ UNCHANGED <<hostVars, walkVars, parsedVars>>

-----------------------------------------------------------------------------
(* SegmentMap *)

AnyLost == \E k \in packets : k.lost
Lost(from, to) == \E k \in packets : k.lost /\ k.from < to /\ from < k.to
WithinOnePacket(from, to) == \E k \in packets : k.from <= from /\ to <= k.to
FirstPacket == CHOOSE k \in packets : k.from = 0

\* A record that leaves room for a padding record in a full packet, whose
\* payload is unknown when there is only one.
Ordinary(n) ==
    Cardinality(packets) >= 2 => n + HeaderWords <= FirstPacket.to + HeaderWords

RecordStartsFlagged == FirstPacket.flag

NextReceivedStart(from, flagRequired) ==
    Min({k.from : k \in {j \in packets : /\ j.from > from /\ ~j.lost
                                         /\ j.flag \/ ~flagRequired}} \cup {size})

-----------------------------------------------------------------------------
(* parse *)

AnnouncedBlocks == Cardinality(Blocks)
Known == critical # 0

\* The sequence header must have arrived.  An announced coarsest level is whole
\* when its packets are; lengths cannot be followed past a loss.
ParseFrame ==
    /\ phase = "parse"
    /\ IF Lost(0, HeaderWords) \/ (host = "prefixed" /\ AnyLost)
       THEN phase' = "rejected" /\ UNCHANGED <<parsedVars, walkVars>>
       ELSE IF host = "prefixed"
       THEN phase' = "prefixed" /\ UNCHANGED <<parsedVars, walkVars>>
       ELSE /\ phase' = "walk"
            /\ coarseLevelIntact' =
                  (Known => \A k \in packets :
                      Cardinality({j \in packets : j.from < k.from}) < critical => ~k.lost)
            /\ UNCHANGED <<spans, blockRecords, partial, walkVars>>
    /\ UNCHANGED <<hostVars, sentVars>>

\* walkPacket, for each of the packets: what lies between two lengths.
WalkPackets ==
    /\ phase = "prefixed"
    /\ spans' = {Span(r.to, Min({t.from : t \in {u \in records : u.kind = "length" /\ u.from > r.from}}
                                \cup {size})) : r \in {u \in records : u.kind = "length"}}
    /\ blockRecords' = Cardinality(Blocks)
    /\ phase' = "parsed"
    /\ UNCHANGED <<hostVars, sentVars, walkVars, partial, coarseLevelIntact>>

\* The records since the last skip are a span.
SkipTo(next) ==
    /\ spans' = IF pos > spanStart THEN spans \cup {Span(spanStart, pos)} ELSE spans
    /\ pos' = next /\ spanStart' = next

\* Mutant: a loss before the finer levels is not told from a later one.
NoteLossAnywhere(past) == partial' = TRUE /\ UNCHANGED coarseLevelIntact

NoteLoss(past) ==
    /\ partial' = TRUE
    /\ coarseLevelIntact' = (coarseLevelIntact /\ (past \/ Known))

Walking == phase = "walk" /\ pos < size

\* A lost header: the walk goes on at a packet that starts with a record, if it
\* can know of one.
HeaderIsLost == Lost(pos, Min({pos + HeaderWords, size}))

\* Mutant: the flags are not taken for the start of a record.
SkipLostHeaderToEnd ==
    /\ Walking /\ HeaderIsLost
    /\ NoteLoss(pastCoarseLevel)
    /\ SkipTo(IF aligned THEN NextReceivedStart(pos, RecordStartsFlagged) ELSE size)
    /\ UNCHANGED <<hostVars, sentVars, phase, aligned, pastCoarseLevel, blockRecords>>

SkipLostHeader ==
    /\ Walking /\ HeaderIsLost
    /\ NoteLoss(pastCoarseLevel)
    /\ SkipTo(IF RecordStartsFlagged \/ aligned
              THEN NextReceivedStart(pos, RecordStartsFlagged) ELSE size)
    /\ UNCHANGED <<hostVars, sentVars, phase, aligned, pastCoarseLevel, blockRecords>>

SkipPadding ==
    /\ Walking /\ ~HeaderIsLost
    /\ \E r \in records : r.from = pos /\ r.kind = "padding" /\ SkipTo(r.to)
    /\ UNCHANGED <<hostVars, sentVars, phase, aligned, pastCoarseLevel, blockRecords, partial,
                   coarseLevelIntact>>

WalkSequenceHeader ==
    /\ Walking /\ ~HeaderIsLost
    /\ \E r \in records : r.from = pos /\ r.kind = "sequence" /\ pos' = r.to
    /\ UNCHANGED <<hostVars, sentVars, phase, spanStart, aligned, pastCoarseLevel, parsedVars>>

Past(r) == pastCoarseLevel \/ r.kind = "fine"

\* A record with its header but without all of its payload spans packets.
SkipLostPayload ==
    /\ Walking /\ ~HeaderIsLost
    /\ \E r \in Blocks :
          /\ r.from = pos /\ Lost(r.from, r.to)
          /\ pastCoarseLevel' = Past(r)
          /\ NoteLoss(Past(r))
          /\ SkipTo(r.to)
    /\ aligned' = FALSE
    /\ UNCHANGED <<hostVars, sentVars, phase, blockRecords>>

\* Mutant: any whole record is taken for one of the finer levels.
WalkAnyBlock ==
    /\ Walking /\ ~HeaderIsLost
    /\ \E r \in Blocks :
          /\ r.from = pos /\ ~Lost(r.from, r.to)
          /\ pastCoarseLevel' = Past(r)
          /\ aligned' = (AnyLost /\ Ordinary(r.to - r.from) /\ WithinOnePacket(r.from, r.to))
          /\ pos' = r.to
    /\ blockRecords' = blockRecords + 1
    /\ UNCHANGED <<hostVars, sentVars, phase, spanStart, spans, partial, coarseLevelIntact>>

\* An ordinary record of the finer levels within its packet: from here on the
\* host is taken to start every packet with a record.
WalkBlock ==
    /\ Walking /\ ~HeaderIsLost
    /\ \E r \in Blocks :
          /\ r.from = pos /\ ~Lost(r.from, r.to)
          /\ pastCoarseLevel' = Past(r)
          /\ aligned' = /\ AnyLost /\ Ordinary(r.to - r.from)
                        /\ r.kind = "fine" /\ WithinOnePacket(r.from, r.to)
          /\ pos' = r.to
    /\ blockRecords' = blockRecords + 1
    /\ UNCHANGED <<hostVars, sentVars, phase, spanStart, spans, partial, coarseLevelIntact>>

\* A frame that lost nothing must have the blocks it announces.
EndWalk ==
    /\ phase = "walk" /\ pos >= size
    /\ SkipTo(pos)
    /\ phase' = IF partial \/ blockRecords = AnnouncedBlocks THEN "parsed" ELSE "rejected"
    /\ UNCHANGED <<hostVars, sentVars, aligned, pastCoarseLevel, blockRecords, partial,
                   coarseLevelIntact>>

-----------------------------------------------------------------------------
(* the decoder *)

In(r, s) == s.from <= r.from /\ r.to <= s.to

\* pyrowave_decoder_push_packet of every span, after pyrowave_decoder_clear.
Pushed == {r \in Blocks : \E s \in spans : In(r, s)}

\* decode_is_ready: all blocks, or more than a share of those of a partial frame.
IsReady ==
    \/ Cardinality(Pushed) >= AnnouncedBlocks
    \/ partial /\ Cardinality(Pushed) * 100 > AnnouncedBlocks * ReadyPercent

DecodeFrame ==
    /\ phase = "parsed"
    /\ phase' = IF IsReady /\ (partial => coarseLevelIntact) THEN "shown" ELSE "dropped"
    /\ UNCHANGED <<hostVars, sentVars, walkVars, parsedVars>>

FramingNext ==
    \/ Put \/ Send \/ ParseFrame \/ WalkPackets
    \/ SkipLostHeader \/ SkipPadding \/ WalkSequenceHeader \/ SkipLostPayload \/ WalkBlock
    \/ EndWalk \/ DecodeFrame

FramingSpec == FramingInit /\ [][FramingNext]_framingVars

-----------------------------------------------------------------------------
(* block counts *)

CeilDiv(n, d) == (n + d - 1) \div d
Levels == 5
BlockSize == 32

\* What the levels add up to.
OverLevels(count) == count[0] + count[1] + count[2] + count[3] + count[4]

\* Mutant: without k_MinimumImageSize.
RoundedExtent(n) == CeilDiv(n, BlockSize) * BlockSize

\* pyrowaveframing.cpp
AlignedExtent(n) == Max({CeilDiv(n, BlockSize) * BlockSize, 128})
PerBand(g, level) ==
    CeilDiv(AlignedExtent(g[1]) \div 2 ^ (level + 1), BlockSize)
        * CeilDiv(AlignedExtent(g[2]) \div 2 ^ (level + 1), BlockSize)

CoarseBlockCount(g) == PerBand(g, Levels - 1) * 4 * 3

MaxBlockCount(g, chroma444) ==
    OverLevels([level \in 0 .. Levels - 1 |->
                   PerBand(g, level) * (IF level = Levels - 1 THEN 4 ELSE 3)
                                     * (IF level = 0 /\ ~chroma444 THEN 1 ELSE 3)])

\* pyrowave_common.cpp: the decoder's bands, coarsest level first, each as large
\* as a mip level of an image of half the aligned size.
Align(n) == ((n + 2 ^ Levels - 1) \div 2 ^ Levels) * 2 ^ Levels
Mip(n, level) == Max({(Max({Align(n), 4 * 2 ^ Levels}) \div 2) \div 2 ^ level, 1})

Bands(chroma444) ==
    {b \in [level : 0 .. Levels - 1, component : 0 .. 2, band : 0 .. 3] :
        /\ b.band = 0 => b.level = Levels - 1
        /\ b.level = 0 /\ ~chroma444 => b.component = 0}

\* Blocks of 32 are made of blocks of 8.
Blocks32(side) == ((side + 7) \div 8 + 3) \div 4
BandBlocks(g, level) == Blocks32(Mip(g[1], level)) * Blocks32(Mip(g[2], level))

DecoderBlocks(g, bands) ==
    OverLevels([level \in 0 .. Levels - 1 |->
                   BandBlocks(g, level) * Cardinality({b \in bands : b.level = level})])

-----------------------------------------------------------------------------
(* properties *)

FramingTypeOK ==
    /\ phase \in {"host", "parse", "prefixed", "walk", "parsed", "rejected", "shown", "dropped"}
    /\ size \in Nat /\ pos \in Nat /\ spanStart \in Nat /\ blockRecords \in Nat
    /\ {aligned, pastCoarseLevel, partial, coarseLevelIntact} \subseteq BOOLEAN

\* Whatever is lost, the walk reads a header only where a record starts, and
\* what it hands over are records in one piece: no byte of a lost packet, no
\* padding, no record begun in its middle.
OnlyWholeRecordsArePushed ==
    /\ phase = "walk" => pos = size \/ StartsRecord(pos)
    /\ \A s \in spans :
          /\ s.from < s.to /\ s.to <= size
          /\ ~Lost(s.from, s.to)
          /\ \A r \in records :
                r.from < s.to /\ s.from < r.to =>
                    In(r, s) /\ r.kind \in {"sequence", "coarse", "fine"}

\* A frame that is shown has every block of the coarsest level that was sent.
CoarseLevelIsWhole ==
    phase = "shown" => \A r \in Blocks : r.kind = "coarse" => r \in Pushed

\* A frame that lost nothing is shown, and under a host that flags its packets a
\* loss costs no more than the records it touched and those up to the next
\* packet that arrived and starts with a record.
HeaderLostBefore(r) ==
    \E q \in records :
        /\ q.from <= r.from /\ Lost(q.from, q.from + HeaderWords)
        /\ \A k \in packets : q.from < k.from /\ k.from <= r.from => k.lost \/ ~k.flag

LossIsContained ==
    /\ ~AnyLost => phase \notin {"rejected", "dropped"}
    /\ host = "flagged" /\ phase \in {"shown", "dropped"} =>
          \A r \in Blocks : Lost(r.from, r.to) \/ r \in Pushed \/ HeaderLostBefore(r)

\* When a frame is parsed, the parser and the decoder, which count the blocks
\* each in its own way, agree on the index of the first finer block and on the
\* number of blocks, whatever the size and the chroma of the stream.
BlockCountsAgree ==
    \A g \in Geometries, chroma444 \in BOOLEAN :
        /\ CoarseBlockCount(g) = DecoderBlocks(g, {b \in Bands(chroma444) : b.level = Levels - 1})
        /\ MaxBlockCount(g, chroma444) = DecoderBlocks(g, Bands(chroma444))

CountsAgree == phase = "parse" => BlockCountsAgree
=============================================================================
