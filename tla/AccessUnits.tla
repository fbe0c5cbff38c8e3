----------------------------- MODULE AccessUnits -----------------------------
(***************************************************************************)
(* From RTP packets to pictures: what the receive goroutine of an H264 or  *)
(* H265 connection does with each packet (rtsp.go), the format processor   *)
(* that re-packetises H264 for WebRTC, and the access units that           *)
(* lazy_decode keeps in rc.au for Image().                                 *)
(*                                                                         *)
(* A packet carries whole NAL units, or one end of a fragmented one.  A    *)
(* parameter set is its version.  A picture knows the parameter sets it    *)
(* was coded with; the decoder shows it intact when it has those, and the  *)
(* picture before it unless it is an IDR (random access) picture.          *)
(* gortsplib's depacketiser and libav are external: Decode of the former   *)
(* and DecodeNALU of the latter.  Frames, locks and the clock are in       *)
(* FramePool and RTSPCamera, subscriptions in Passthrough.                 *)
(***************************************************************************)
EXTENDS Naturals, SequencesExt

CONSTANTS
  Codecs,         \* codecs the camera may stream: "h264", "h265"
  Layouts,        \* how it packetises: "single" or "aggregated"
  MaxUnits,       \* bound on the access units it sends
  MaxLost,        \* bound on the packets that are lost
  MaxConnections  \* bound on the connections

ASSUME UnitsAssumption ==
  /\ Codecs \subseteq {"h264", "h265"}
  /\ Layouts \subseteq {"single", "aggregated"}
  /\ MaxUnits \in Nat /\ MaxLost \in Nat /\ MaxConnections \in Nat \ {0}

VARIABLES
  config,       \* codec, lazyDecode, iframeOnlyDecode; the camera's layout,
                \* and whether it sets the marker bit
  coded,        \* the camera's parameter sets
  units,        \* number of access units sent
  outgoing,     \* packets of the current access unit that are on their way
  lost,         \* number of packets lost so far
  damaged,      \* the access units they belong to, and those a reconnection
                \* cut off
  connections,  \* number of connections so far
  pendingPkt,   \* the packet wrapWithMarkerFromTimestamp holds back, if any
  frameBuffer,  \* NAL units the depacketisers have for the next access unit
  fragments,    \* NAL unit whose first fragment they have, if any
  initial,      \* initialSPSAndPPS
  format,       \* format.SPS and format.PPS; 0 for nil
  heard,        \* the newest parameter sets that arrived
  receivedFirstIDR,
  au,           \* rc.au, access unit by access unit
  decoder,      \* rawDecoder and the last picture it made
  eager,        \* the same, had lazy_decode been off
  astray,       \* rc.au lacks something, or has it out of order
  received,     \* the access unit depacketised by the last packet; .ts
                \* stays
  published     \* the Unit with packets published for it

cameraVars == <<config, coded, units, outgoing>>
networkVars == <<lost, damaged, connections>>
rtpVars == <<pendingPkt, frameBuffer, fragments>>
formatVars == <<initial, format, heard, published>>
imageVars == <<receivedFirstIDR, au, decoder, eager, astray>>
vars == <<cameraVars, networkVars, rtpVars, formatVars, imageVars, received>>

----------------------------------------------------------------------------
(* NAL units.  v is the version of a parameter set, the number of a picture. *)
Kinds == {"sps", "pps", "aud", "idr", "slice"}
Parameter(kind, v) == [kind |-> kind, v |-> v]
Picture(kind, n, sets) ==
  [kind |-> kind, v |-> n, sps |-> sets.sps, pps |-> sets.pps]
Delimiter == [kind |-> "aud", v |-> 0]

IsParameter(nalu) == nalu.kind \in {"sps", "pps"}
IsPicture(nalu) == nalu.kind \in {"idr", "slice"}
IsIDR(nalu) == nalu.kind = "idr"
IDRPresent(nalus) == \E i \in DOMAIN nalus : IsIDR(nalus[i])

(* The NAL units of the given kinds, in their order. *)
Only(kinds, nalus) ==
  LET kept[i \in 0 .. Len(nalus)] ==
        IF i = 0 THEN <<>>
        ELSE IF nalus[i].kind \in kinds THEN Append(kept[i - 1], nalus[i])
        ELSE kept[i - 1]
  IN kept[Len(nalus)]

Pictures(nalus) == Only({"idr", "slice"}, nalus)

NoSets == [sps |-> 0, pps |-> 0]
ParametersOf(sets) ==
  (IF sets.sps # 0 THEN <<Parameter("sps", sets.sps)>> ELSE <<>>)
    \o (IF sets.pps # 0 THEN <<Parameter("pps", sets.pps)>> ELSE <<>>)

Replaced(sets, nalu) ==
  CASE nalu.kind = "sps" -> [sets EXCEPT !.sps = nalu.v]
    [] nalu.kind = "pps" -> [sets EXCEPT !.pps = nalu.v]
    [] OTHER -> sets

(* The sets that are in force after those in nalus, the last of a kind wins. *)
Newest(sets, nalus) ==
  LET after[i \in 0 .. Len(nalus)] ==
        IF i = 0 THEN sets ELSE Replaced(after[i - 1], nalus[i])
  IN after[Len(nalus)]

----------------------------------------------------------------------------
(* The packets of access unit n.  Parameter sets, when the camera repeats
   them, come before the key frame they are for.  One layout has a packet for
   each NAL unit, the other aggregates what precedes the picture, after a
   delimiter, and splits the picture in two.  Every packet names the whole
   unit, for the properties. *)
Packetised(n, head, picture) ==
  LET leading == IF config.layout = "single" THEN head
                 ELSE <<Delimiter>> \o head
      packet(part, nalus, last) ==
        [ts |-> n, part |-> part, nalus |-> nalus,
         marker |-> last /\ config.marks, unit |-> Append(leading, picture)]
  IN IF config.layout = "single"
     THEN [i \in DOMAIN head |-> packet("whole", <<head[i]>>, FALSE)]
            \o <<packet("whole", <<picture>>, TRUE)>>
     ELSE <<packet("whole", leading, FALSE),
            packet("start", <<picture>>, FALSE),
            packet("end", <<picture>>, TRUE)>>

NewDecoder(shown) == [sets |-> NoSets, last |-> 0, good |-> FALSE,
                      shown |-> shown]
NoPicture == [n |-> 0, good |-> FALSE]
NoUnit == [ts |-> 0, nalus |-> <<>>, unit |-> <<>>]

(* initH264, initH265: what a connection whose description has the given
   parameter sets starts with.  H265 feeds them to the decoder at once. *)
Opened(sets, shown) ==
  IF config.codec = "h265" THEN [NewDecoder(shown) EXCEPT !.sets = sets]
  ELSE NewDecoder(shown)

Described == {NoSets, coded}

Init ==
  /\ config \in [codec : Codecs, layout : Layouts, marks : BOOLEAN,
                 lazy : BOOLEAN, iframeOnly : BOOLEAN]
  /\ coded = [sps |-> 1, pps |-> 1] /\ units = 0 /\ outgoing = <<>>
  /\ lost = 0 /\ damaged = {} /\ connections = 1
  /\ pendingPkt = <<>> /\ frameBuffer = <<>> /\ fragments = <<>>
  /\ initial \in Described
  /\ format = initial /\ heard = initial /\ published = NoUnit
  /\ receivedFirstIDR = FALSE /\ au = <<>> /\ astray = FALSE
  /\ decoder = Opened(initial, NoPicture) /\ eager = decoder
  /\ received = NoUnit

(* reconnectClient: closeConnection drops everything that belongs to the old
   connection but the latest picture, then init starts anew. *)
Reconnect ==
  /\ connections < MaxConnections
  /\ connections' = connections + 1
  /\ damaged' = damaged \union {units} \union {p.ts : p \in ToSet(pendingPkt)}
  /\ outgoing' = <<>> /\ pendingPkt' = <<>>
  /\ frameBuffer' = <<>> /\ fragments' = <<>>
  /\ initial' \in Described
  /\ format' = initial' /\ heard' = initial'
  /\ receivedFirstIDR' = FALSE /\ au' = <<>> /\ astray' = FALSE
  /\ decoder' = Opened(initial', decoder.shown)
  /\ eager' = Opened(initial', eager.shown)
  /\ UNCHANGED <<config, coded, units, lost, received, published>>

(* The camera codes a picture.  A key frame may come with its parameter sets,
   and must when one of them is new. *)
Code ==
  /\ outgoing = <<>>
  /\ units < MaxUnits
  /\ units' = units + 1
  /\ \/ /\ outgoing' =
             Packetised(units', <<>>, Picture("slice", units', coded))
        /\ UNCHANGED coded
     \/ \E sets \in {coded, [coded EXCEPT !.sps = 3 - @],
                     [coded EXCEPT !.pps = 3 - @]} :
          \E head \in {<<>>, ParametersOf(sets)} :
             /\ sets # coded => head # <<>>
             /\ coded' = sets
             /\ outgoing' =
                  Packetised(units', head, Picture("idr", units', sets))
  /\ UNCHANGED <<config, networkVars, rtpVars, formatVars, imageVars, received>>

(* A packet is lost on its way. *)
Lose ==
  /\ outgoing # <<>>
  /\ lost < MaxLost
  /\ lost' = lost + 1
  /\ damaged' = damaged \union {Head(outgoing).ts}
  /\ outgoing' = Tail(outgoing)
  /\ UNCHANGED <<config, coded, units, connections, rtpVars, formatVars,
                 imageVars, received>>

----------------------------------------------------------------------------
(* Mutant: a packet of a new access unit is trusted to have been marked. *)
Unmarked(held, pkt) == held

(* wrapWithMarkerFromTimestamp: the packet held back is the last one of its
   access unit when the next one has another timestamp. *)
Marked(held, pkt) == [held EXCEPT !.marker = held.marker \/ held.ts # pkt.ts]

(* The depacketiser's Decode: a fragment that does not continue the one
   before is refused, and what is buffered waits for a marker. *)
Refused(pkt) == pkt.part = "end" /\ fragments # pkt.nalus
Gathered(pkt) ==
  IF pkt.part = "start" \/ Refused(pkt) THEN frameBuffer
  ELSE frameBuffer \o pkt.nalus
Completes(pkt) == pkt.marker /\ pkt.part # "start" /\ ~Refused(pkt)

Depacketise(pkt) ==
  /\ fragments' = IF pkt.part = "start" THEN pkt.nalus ELSE <<>>
  /\ frameBuffer' = IF Completes(pkt) THEN <<>> ELSE Gathered(pkt)
  /\ received' = IF Completes(pkt)
                 THEN [ts |-> pkt.ts, nalus |-> Gathered(pkt),
                       unit |-> pkt.unit]
                 ELSE [NoUnit EXCEPT !.ts = received.ts]

----------------------------------------------------------------------------
(* Mutant: a new PPS is noticed together with a new SPS only. *)
UpdatedWithSPS(pkt) ==
  LET sets == Newest(format, pkt.nalus)
  IN IF pkt.part = "whole" /\ sets.sps # format.sps THEN sets ELSE format

(* updateTrackParametersFromRTPPacket with rtpH264ExtractParams: parameter
   sets are taken from packets as they arrive, the last of a kind when several
   are aggregated, but not from fragments. *)
Updated(pkt) ==
  IF pkt.part = "whole" THEN Newest(format, pkt.nalus) ELSE format

(* remuxAccessUnit: parameter sets and delimiters go, and the current
   parameter sets are put before a key frame. *)
Remuxed(nalus, sets) ==
  LET kept == Only(Kinds \ {"sps", "pps", "aud"}, nalus)
  IN IF IDRPresent(nalus) /\ sets.sps # 0 /\ sets.pps # 0
     THEN ParametersOf(sets) \o kept ELSE kept

(* publishToWebRTC: ProcessRTPPacket as newH264 sets it up, with an encoder.
   All packets of the access unit get the timestamp of the one that completed
   it; a unit without packets is no news to a subscriber. *)
Process(pkt) ==
  /\ heard' = Newest(heard, pkt.nalus)
  /\ format' = IF config.codec = "h264" THEN Updated(pkt) ELSE format
  /\ published' =
       LET nalus == Remuxed(Gathered(pkt), format')
       IN IF config.codec = "h264" /\ Completes(pkt) /\ nalus # <<>>
          THEN [ts |-> pkt.ts, nalus |-> nalus, unit |-> pkt.unit] ELSE NoUnit
  /\ UNCHANGED initial

----------------------------------------------------------------------------
(* libav with one NAL unit. *)
DecodeNALU(d, nalu) ==
  LET good == /\ d.sets = [sps |-> nalu.sps, pps |-> nalu.pps]
              /\ IsIDR(nalu) \/ (d.good /\ nalu.v = d.last + 1)
  IN CASE IsParameter(nalu) -> [d EXCEPT !.sets = Replaced(@, nalu)]
       [] IsPicture(nalu) /\ d.sets.sps # 0 /\ d.sets.pps # 0 ->
            [d EXCEPT !.last = nalu.v, !.good = good,
                      !.shown = [n |-> nalu.v, good |-> good]]
       [] OTHER -> d

(* storeH264Frame, which hands runs of SPS, PPS and IDR over together, and
   storeH265Frame, which gets an access unit packed in one: errors of the
   decoder are recoverable, and the rest is decoded all the same. *)
Store(d, nalus) ==
  LET after[i \in 0 .. Len(nalus)] ==
        IF i = 0 THEN d ELSE DecodeNALU(after[i - 1], nalus[i])
  IN after[Len(nalus)]

(* consumeLazyAU *)
Consumed(d, units_) ==
  LET after[i \in 0 .. Len(units_)] ==
        IF i = 0 THEN d ELSE Store(after[i - 1], units_[i])
  IN after[Len(units_)]

First(nalus) ==
  config.codec = "h264" /\ ~receivedFirstIDR /\ IDRPresent(nalus)
Skipped(nalus) == config.iframeOnly /\ ~IDRPresent(nalus) /\ ~First(nalus)
Postponed(nalus) == config.lazy /\ ~Skipped(nalus) /\ ~First(nalus)
Decoded(d, nalus) ==
  IF First(nalus) THEN Store(d, ParametersOf(initial) \o nalus)
  ELSE Store(d, nalus)

(* Mutant: what was appended before is forgotten. *)
AppendedAlone(nalus) == <<nalus>>

(* resetLazyAU at a random access point, appendLazyAU otherwise. *)
Appended(nalus) == IF IDRPresent(nalus) THEN <<nalus>> ELSE Append(au, nalus)

(* storeImage.  H264 decodes the first IDR at once even with lazy_decode, and
   leaves what rc.au has from before it to be decoded after it; a reset drops
   parameter sets that nobody decoded and the new access unit does not repeat.
   Lazy decoding is then astray, until an IDR comes with what is missing. *)
StoreImage(nalus) ==
  /\ receivedFirstIDR' = (receivedFirstIDR \/ First(nalus))
  /\ eager' = IF Skipped(nalus) THEN eager ELSE Decoded(eager, nalus)
  /\ decoder' = IF Skipped(nalus) \/ Postponed(nalus) THEN decoder
                ELSE Decoded(decoder, nalus)
  /\ au' = IF Postponed(nalus) THEN Appended(nalus) ELSE au
  /\ astray' = IF Postponed(nalus) /\ IDRPresent(nalus)
               THEN Newest(decoder.sets, nalus) # Newest(eager.sets, nalus)
               ELSE astray \/ (First(nalus) /\ au # <<>>)

(* onPacketRTP, for the packet held back when the next one arrives. *)
Handle(pkt) ==
  /\ Depacketise(pkt)
  /\ Process(pkt)
  /\ IF Completes(pkt) THEN StoreImage(Gathered(pkt)) ELSE UNCHANGED imageVars

(* The next packet arrives.  PacketPTS2 may not know the presentation time of
   the one held back, which is then dropped. *)
Arrive ==
  /\ outgoing # <<>>
  /\ outgoing' = Tail(outgoing)
  /\ pendingPkt' = <<Head(outgoing)>>
  /\ \/ /\ pendingPkt # <<>>
        /\ Handle(Marked(Head(pendingPkt), Head(outgoing)))
        /\ UNCHANGED <<lost, damaged>>
     \/ /\ pendingPkt # <<>>
        /\ lost < MaxLost
        /\ lost' = lost + 1
        /\ damaged' = damaged \union {Head(pendingPkt).ts}
        /\ UNCHANGED <<frameBuffer, fragments, formatVars, imageVars, received>>
     \/ /\ pendingPkt = <<>>
        /\ UNCHANGED <<lost, damaged, frameBuffer, fragments, formatVars,
                       imageVars, received>>
  /\ UNCHANGED <<config, coded, units, connections>>

(* Image() decodes what was postponed. *)
Image ==
  /\ decoder' = Consumed(decoder, au)
  /\ au' = <<>>
  /\ UNCHANGED <<cameraVars, networkVars, rtpVars, formatVars,
                 receivedFirstIDR, eager, astray, received>>

Next == Code \/ Lose \/ Arrive \/ Reconnect \/ Image

Spec == Init /\ [][Next]_vars

----------------------------------------------------------------------------
(* Properties. *)

(* An access unit that is handed to the decoder, to video storage and to the
   format processor is all of one access unit of the camera and nothing else,
   and it is handed over when the second packet of the next one arrives at
   the latest, whether the camera sets marker bits or not and however it
   packetises: only a packet lost from it, or from the one before, spoils it. *)
AccessUnitsAreWhole ==
  LET intact(n) == {n - 1, n} \intersect damaged = {}
  IN /\ received.nalus # <<>> /\ intact(received.ts)
          => received.nalus = received.unit
     /\ \A p \in ToSet(pendingPkt) :
          p.ts > 1 /\ intact(p.ts - 1) => received.ts >= p.ts - 1

(* A key frame that is published begins with the parameter sets the camera
   coded it with, once these have arrived in any packet; and every published
   unit has the pictures, and the timestamp, of the access unit it is made of:
   a subscriber can start at any key frame. *)
PublishedUnitsAreDecodable ==
  [][published' # published /\ published' # NoUnit =>
       /\ published'.ts = received'.ts
       /\ Pictures(published'.nalus) = Pictures(received'.nalus)
       /\ \A i \in DOMAIN published'.nalus :
            LET nalu == published'.nalus[i]
                sets == [sps |-> nalu.sps, pps |-> nalu.pps]
            IN IsIDR(nalu) /\ sets = heard'
                 => IsPrefix(ParametersOf(sets), published'.nalus)]_vars

(* With lazy_decode, Image() shows at any time the picture that decoding
   everything as it came would have shown, if that is intact: what rc.au keeps
   is enough, in its order and after what the decoder has seen, except when it
   is astray. *)
PostponedIsEnough ==
  ~astray /\ eager.good => Consumed(decoder, au).shown = eager.shown
=============================================================================
