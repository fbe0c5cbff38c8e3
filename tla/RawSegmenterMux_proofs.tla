----------------------- MODULE RawSegmenterMux_proofs -----------------------
(***************************************************************************)
(* Proofs about RawSegmenterMux, for any set of picture sizes and any      *)
(* timestamps.                                                             *)
(***************************************************************************)
EXTENDS RawSegmenterMux, TLAPS

(* The clock of the stream: set by the first packet, and where the last one
   left it. *)
Clock ==
  /\ first <=> sent # NoPacket
  /\ lastDTSSet <=> sent # NoPacket
  /\ sent # NoPacket => sent.dts = lastDTS /\ lastDTS >= 0

(* What the segmenter is initialised for, unless that failed. *)
SegmenterFollowsSize ==
  /\ codec = "unknown" =>
       segmenter = Closed /\ ~spsUnChanged /\ size = NoSize
  /\ ~segFailed => segmenter = IF size = NoSize THEN Closed
                               ELSE [codec |-> codec, size |-> size]

MuxInv ==
  /\ TypeOK
  /\ Clock
  /\ SegmenterFollowsSize
  /\ SegmenterMatches
  /\ NoCodecMismatch

LEMMA NoPacketFacts ==
  /\ NoPacket \in [pts : Int, dts : Int, key : BOOLEAN]
  /\ NoPacket.dts = -1
  BY DEF NoPacket

LEMMA InitMux == Init => MuxInv
<1> SUFFICES ASSUME Init PROVE MuxInv
  OBVIOUS
<1>1. TypeOK
  <2>1. /\ {firstPTS, firstDTS, lastDTS} \subseteq Int
        /\ sent \in [pts : Int, dts : Int, key : BOOLEAN]
    BY NoPacketFacts DEF Init
  <2>2. /\ {started, spsUnChanged, extractor, first, lastDTSSet,
            segFailed} \subseteq BOOLEAN
        /\ camCodec \in Codecs
        /\ codec \in Codecs \union {"unknown"}
        /\ sps \in Sizes \union {BadSPS, NoSPS}
        /\ size \in Sizes \union {NoSize}
        /\ segmenter \in {Closed} \union [codec : Codecs, size : Sizes]
    BY DEF Init
  <2> QED
    BY <2>1, <2>2 DEF TypeOK
<1>2. Clock /\ SegmenterFollowsSize /\ SegmenterMatches /\ NoCodecMismatch
  BY MuxAssumption DEF Init, Clock, SegmenterFollowsSize, SegmenterMatches,
                       NoCodecMismatch, Codecs
<1> QED
  BY <1>1, <1>2 DEF MuxInv

LEMMA StopMux ==
  ASSUME MuxInv, Reset \/ ResetFails,
         \/ started' = FALSE /\ camCodec' \in Codecs
         \/ UNCHANGED <<started, camCodec>>
  PROVE  MuxInv'
<1>1. CASE Reset
  <2>1. TypeOK'
    <3>1. /\ {firstPTS', firstDTS', lastDTS'} \subseteq Int
          /\ sent' \in [pts : Int, dts : Int, key : BOOLEAN]
      BY <1>1, NoPacketFacts DEF Reset
    <3>2. /\ {spsUnChanged', extractor', first', lastDTSSet',
              segFailed'} \subseteq BOOLEAN
          /\ codec' \in Codecs \union {"unknown"}
          /\ sps' \in Sizes \union {BadSPS, NoSPS}
          /\ size' \in Sizes \union {NoSize}
          /\ segmenter' \in {Closed} \union [codec : Codecs, size : Sizes]
      BY <1>1 DEF Reset
    <3>3. started' \in BOOLEAN /\ camCodec' \in Codecs
      BY DEF MuxInv, TypeOK
    <3> QED
      BY <3>1, <3>2, <3>3 DEF TypeOK
  <2>2. Clock' /\ SegmenterFollowsSize' /\ SegmenterMatches' /\ NoCodecMismatch'
    BY <1>1 DEF Reset, MuxInv, Clock, SegmenterFollowsSize, SegmenterMatches,
                NoCodecMismatch
  <2> QED
    BY <2>1, <2>2 DEF MuxInv
<1>2. CASE ResetFails
  <2>1. TypeOK'
    BY <1>2 DEF ResetFails, metadata, MuxInv, TypeOK
  <2>2. Clock'
    BY <1>2 DEF ResetFails, metadata, MuxInv, Clock
  <2>3. SegmenterFollowsSize' /\ SegmenterMatches' /\ NoCodecMismatch'
    BY <1>2 DEF ResetFails, metadata, MuxInv, SegmenterFollowsSize,
                SegmenterMatches, NoCodecMismatch
  <2> QED
    BY <2>1, <2>2, <2>3 DEF MuxInv
<1> QED
  BY <1>1, <1>2

(* maybeReInitVideoStore keeps the segmenter and the accepted size together. *)
LEMMA ReInitMux ==
  ASSUME MuxInv, NEW au \in AccessUnits, Accepts, ReInit(au),
         UNCHANGED <<codec, segFailed>>
  PROVE  /\ sps' \in Sizes \union {BadSPS, NoSPS}
         /\ spsUnChanged' \in BOOLEAN
         /\ size' \in Sizes \union {NoSize}
         /\ segmenter' \in {Closed} \union [codec : Codecs, size : Sizes]
         /\ SegmenterFollowsSize'
         /\ SegmenterMatches'
<1> DEFINE new == NewSPS(au)
<1>1. /\ codec \in Codecs /\ codec # "unknown"
      /\ new \in Sizes \union {BadSPS, NoSPS}
  BY DEF Accepts, MuxInv, TypeOK, AccessUnits, NewSPS, Codecs
<1>2. KnownUnchanged(au) => spsUnChanged /\ new = sps
  BY DEF KnownUnchanged, NewSPS
<1>3. /\ sps' = new
      /\ spsUnChanged' = (KnownUnchanged(au) \/ new \in Sizes)
      /\ spsUnChanged' => KnownUnchanged(au) \/ new \in Sizes
  BY Zenon DEF ReInit
<1> HIDE DEF new
<1>4. CASE NeedsReInit(au)
  <2>1. /\ new \in Sizes
        /\ size' = new
        /\ segmenter' = [codec |-> codec, size |-> new]
    BY <1>4 DEF NeedsReInit, ReInit, new
  <2> QED
    BY <1>1, <1>3, <2>1, MuxAssumption DEF SegmenterFollowsSize,
                                           SegmenterMatches
<1>5. CASE ~NeedsReInit(au)
  <2>1. UNCHANGED <<size, segmenter>>
    BY <1>5 DEF ReInit
  <2>2. KnownUnchanged(au) \/ (new \in Sizes => new = size)
    BY <1>5 DEF NeedsReInit, new
  <2>3. spsUnChanged' => KnownUnchanged(au) \/ (new = size /\ size \in Sizes)
    <3>1. spsUnChanged' => KnownUnchanged(au) \/ new \in Sizes
      BY <1>3
    <3> QED
      BY <3>1, <2>2
  <2>4. spsUnChanged' /\ ~segFailed =>
          size = new /\ segmenter = [codec |-> codec, size |-> size]
    BY <1>2, <2>3, MuxAssumption DEF MuxInv, SegmenterFollowsSize,
         SegmenterMatches
  <2>5. SegmenterFollowsSize' /\ SegmenterMatches'
    BY <1>1, <1>3, <2>1, <2>4 DEF MuxInv, SegmenterFollowsSize, SegmenterMatches
  <2> QED
    BY <1>1, <1>3, <2>1, <2>5 DEF MuxInv, TypeOK
<1> QED
  BY <1>4, <1>5

(* enforceMonotonicTimestamps: the first packet is at zero and a later one
   comes after the last. *)
LEMMA NormalizeOrders ==
  ASSUME MuxInv, NEW pts \in Timestamps, NEW dts \in Timestamps,
         firstPTS' = IF first THEN firstPTS ELSE pts,
         firstDTS' = IF first THEN firstDTS ELSE dts
  PROVE  /\ Normalize(pts, dts).pts \in Int
         /\ Normalize(pts, dts).dts \in Int
         /\ Normalize(pts, dts).pts >= Normalize(pts, dts).dts
         /\ sent = NoPacket => /\ Normalize(pts, dts).pts = 0
                               /\ Normalize(pts, dts).dts = 0
         /\ sent # NoPacket => Normalize(pts, dts).dts > lastDTS
<1>1. /\ pts \in Int /\ dts \in Int /\ lastDTS \in Int
      /\ firstPTS' \in Int /\ firstDTS' \in Int
  BY MuxAssumption DEF MuxInv, TypeOK
<1>2. /\ first <=> sent # NoPacket
      /\ lastDTSSet <=> sent # NoPacket
  BY DEF MuxInv, Clock
<1> QED
  BY <1>1, <1>2 DEF Normalize

LEMMA WriteSentMux ==
  ASSUME MuxInv, NEW au \in AccessUnits,
         NEW pts \in Timestamps, NEW dts \in Timestamps,
         WriteSent(au, pts, dts)
  PROVE  /\ MuxInv'
         /\ sent'.dts > sent.dts /\ sent'.pts >= sent'.dts
         /\ sent = NoPacket => /\ sent'.pts = 0 /\ sent'.dts = 0
                               /\ sent'.key \/ extractor
<1> DEFINE n == Normalize(pts, dts)
<1>1. /\ Accepts /\ ReInit(au)
      /\ first' = TRUE /\ lastDTSSet' = TRUE /\ extractor' = TRUE
      /\ sent' = [pts |-> n.pts, dts |-> n.dts,
                  key |-> au.content = "random_access"]
      /\ lastDTS' = n.dts
      /\ extractor \/ au.content = "random_access"
      /\ UNCHANGED <<camCodec, started, codec, segFailed>>
  BY DEF WriteSent
<1>2. /\ firstPTS' = IF first THEN firstPTS ELSE pts
      /\ firstDTS' = IF first THEN firstDTS ELSE dts
  BY DEF WriteSent
<1>3. firstPTS' \in Int /\ firstDTS' \in Int
  BY <1>2, MuxAssumption DEF MuxInv, TypeOK
<1>4. /\ n.pts \in Int /\ n.dts \in Int /\ n.pts >= n.dts
      /\ sent = NoPacket => n.pts = 0 /\ n.dts = 0
      /\ sent # NoPacket => n.dts > lastDTS
  BY <1>2, NormalizeOrders
<1> HIDE DEF n
<1>5. /\ sent'.dts = n.dts /\ sent'.pts = n.pts
      /\ sent'.key <=> au.content = "random_access"
  BY <1>1
<1>6. /\ sent # NoPacket => sent.dts = lastDTS /\ lastDTS >= 0
      /\ sent = NoPacket => sent.dts = -1
  BY NoPacketFacts DEF MuxInv, Clock
<1>7. n.dts >= 0 /\ n.dts > sent.dts
  BY <1>4, <1>6 DEF MuxInv, TypeOK
<1>8. sent' # NoPacket
  BY <1>5, <1>7, NoPacketFacts
<1>9. Clock'
  BY <1>1, <1>4, <1>5, <1>7, <1>8 DEF Clock
<1>10. /\ SegmenterFollowsSize' /\ SegmenterMatches'
       /\ sps' \in Sizes \union {BadSPS, NoSPS}
       /\ spsUnChanged' \in BOOLEAN
       /\ size' \in Sizes \union {NoSize}
       /\ segmenter' \in {Closed} \union [codec : Codecs, size : Sizes]
  BY <1>1, ReInitMux
<1>11. TypeOK'
  BY <1>1, <1>3, <1>4, <1>10 DEF MuxInv, TypeOK
<1>12. NoCodecMismatch'
  BY <1>1 DEF MuxInv, NoCodecMismatch
<1> QED
  BY <1>1, <1>4, <1>5, <1>7, <1>9, <1>10, <1>11, <1>12 DEF MuxInv

LEMMA NextMux == MuxInv /\ [Next]_vars => MuxInv'
<1> SUFFICES ASSUME MuxInv, [Next]_vars
             PROVE  MuxInv'
  OBVIOUS
<1>1. ASSUME NEW s \in Sizes \union {BadSPS, NoSPS}, Start(s)
      PROVE  MuxInv'
  <2>1. /\ codec = "unknown" /\ codec' = camCodec
        /\ sps' \in {sps, s}
        /\ started' = TRUE
        /\ UNCHANGED <<camCodec, spsUnChanged, size, extractor, first, firstPTS,
                       firstDTS, lastDTS, lastDTSSet, segmenter, sent,
                       segFailed>>
    BY <1>1 DEF Start, outside
  <2>2. TypeOK'
    BY <1>1, <2>1 DEF MuxInv, TypeOK
  <2>3. Clock'
    BY <2>1 DEF MuxInv, Clock
  <2>4. camCodec # "unknown"
    BY DEF MuxInv, TypeOK, Codecs
  <2>5. SegmenterFollowsSize' /\ SegmenterMatches' /\ NoCodecMismatch'
    BY <2>1, <2>4 DEF MuxInv, SegmenterFollowsSize, SegmenterMatches,
                      NoCodecMismatch
  <2> QED
    BY <2>2, <2>3, <2>5 DEF MuxInv
<1>1a. ASSUME NEW s \in Sizes \union {BadSPS, NoSPS}, StartFails(s)
       PROVE  MuxInv'
  <2>1. /\ codec = "unknown" /\ codec' = codec
        /\ sps' \in {sps, s}
        /\ UNCHANGED <<camCodec, started, spsUnChanged, size, extractor, first,
                       firstPTS, firstDTS, lastDTS, lastDTSSet, segmenter, sent,
                       segFailed>>
    BY <1>1a DEF StartFails, outside
  <2>2. TypeOK'
    BY <1>1a, <2>1 DEF MuxInv, TypeOK
  <2>3. Clock'
    BY <2>1 DEF MuxInv, Clock
  <2>4. SegmenterFollowsSize' /\ SegmenterMatches' /\ NoCodecMismatch'
    BY <2>1 DEF MuxInv, SegmenterFollowsSize, SegmenterMatches,
                NoCodecMismatch
  <2> QED
    BY <2>2, <2>3, <2>4 DEF MuxInv
<1>2. CASE StopByCamera \/ StopByMonitor
  BY <1>2, StopMux DEF StopByCamera, StopByMonitor
<1>3. ASSUME NEW au \in AccessUnits, WriteFiltered(au)
      PROVE  MuxInv'
  BY <1>3 DEF WriteFiltered, FilterParameters, KnownUnchanged, NewSPS,
       AccessUnits, Accepts, outside, MuxInv, TypeOK, Clock,
       SegmenterFollowsSize, SegmenterMatches, NoCodecMismatch
<1>4. ASSUME NEW au \in AccessUnits, WriteReInitFails(au)
      PROVE  MuxInv'
  BY <1>4 DEF WriteReInitFails, FilterParameters, KnownUnchanged, NewSPS,
       AccessUnits, Accepts, Codecs, MuxInv, TypeOK, Clock,
       SegmenterFollowsSize, SegmenterMatches, NoCodecMismatch
<1>5. ASSUME NEW au \in AccessUnits, WriteSkipped(au)
      PROVE  MuxInv'
  <2>1. /\ Accepts /\ ReInit(au)
        /\ extractor' \in BOOLEAN
        /\ UNCHANGED <<camCodec, started, codec, first, firstPTS, firstDTS,
                       lastDTS, lastDTSSet, sent, segFailed>>
    BY <1>5 DEF WriteSkipped, MuxInv, TypeOK
  <2>2. /\ SegmenterFollowsSize' /\ SegmenterMatches'
        /\ sps' \in Sizes \union {BadSPS, NoSPS}
        /\ spsUnChanged' \in BOOLEAN
        /\ size' \in Sizes \union {NoSize}
        /\ segmenter' \in {Closed} \union [codec : Codecs, size : Sizes]
    BY <1>5, <2>1, ReInitMux
  <2>3. TypeOK'
    BY <2>1, <2>2 DEF MuxInv, TypeOK
  <2>4. Clock' /\ NoCodecMismatch'
    BY <2>1 DEF MuxInv, Clock, NoCodecMismatch
  <2> QED
    BY <2>2, <2>3, <2>4 DEF MuxInv
<1>6. ASSUME NEW au \in AccessUnits, NEW pts \in Timestamps,
             NEW dts \in Timestamps, WriteSent(au, pts, dts)
      PROVE  MuxInv'
  BY <1>6, WriteSentMux
<1>7. CASE UNCHANGED vars
  BY <1>7 DEF vars, metadata, outside, MuxInv, TypeOK, Clock,
       SegmenterFollowsSize, SegmenterMatches, NoCodecMismatch
<1> QED
  BY <1>1, <1>1a, <1>2, <1>3, <1>4, <1>5, <1>6, <1>7 DEF Next

(* The only step that gives the segmenter a packet is WriteSent. *)
LEMMA NextSends ==
  ASSUME MuxInv, [Next]_vars, sent' # sent, sent' # NoPacket
  PROVE  /\ sent'.dts > sent.dts /\ sent'.pts >= sent'.dts
         /\ sent = NoPacket => /\ sent'.pts = 0 /\ sent'.dts = 0
                               /\ sent'.key \/ extractor
<1>1. \E au \in AccessUnits, pts, dts \in Timestamps : WriteSent(au, pts, dts)
  BY DEF Next, vars, Start, StartFails, StopByCamera, StopByMonitor, Reset, ResetFails,
         WriteFiltered, WriteReInitFails, WriteSkipped, outside
<1> QED
  BY <1>1, WriteSentMux

LEMMA MuxInvariant == Spec => []MuxInv
  BY InitMux, NextMux, PTL DEF Spec

----------------------------------------------------------------------------
(* Every variable of the mux keeps its type. *)
THEOREM MuxTypeOK == Spec => []TypeOK
  BY MuxInvariant, PTL DEF MuxInv

(* An SPS is remembered as unchanged only with the segmenter initialised for
   its size and the mux's codec. *)
THEOREM MuxSegmenterMatches == Spec => []SegmenterMatches
  BY MuxInvariant, PTL DEF MuxInv

(* A connection of one codec never writes to a mux started for the other. *)
THEOREM MuxNoCodecMismatch == Spec => []NoCodecMismatch
  BY MuxInvariant, PTL DEF MuxInv

(* Whatever timestamps the stream carries, the segmenter is given strictly
   increasing DTS, and no PTS before its DTS. *)
THEOREM MuxPacketsOrdered == Spec => PacketsOrdered
<1>1. MuxInv /\ [Next]_vars =>
        [sent' # sent /\ sent' # NoPacket =>
           sent'.dts > sent.dts /\ sent'.pts >= sent'.dts]_vars
  BY NextSends
<1> QED
  BY <1>1, MuxInvariant, PTL DEF Spec, PacketsOrdered

(* The first packet after a start is at time zero, and a random access point
   of the stream precedes it or is it. *)
THEOREM MuxStartsAtRandomAccess == Spec => StartsAtRandomAccess
<1>1. MuxInv /\ [Next]_vars =>
        [sent = NoPacket /\ sent' # NoPacket =>
           /\ sent'.pts = 0 /\ sent'.dts = 0
           /\ sent'.key \/ extractor]_vars
  BY NextSends
<1> QED
  BY <1>1, MuxInvariant, PTL DEF Spec, StartsAtRandomAccess
=============================================================================
