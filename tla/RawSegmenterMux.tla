-------------------------- MODULE RawSegmenterMux --------------------------
(***************************************************************************)
(* videostore/mux.go: the mux turns the access units a camera writes to it *)
(* into packets of an mp4 segmenter.  Its callers are the camera's receive *)
(* goroutine, through videoRequest.write, which Starts the mux before the  *)
(* first access unit of a connection; closeConnection, which Stops it; and *)
(* the mux's own monitor, which Stops it when video storage shuts down.    *)
(* Each call holds m.mu throughout, so each is one step here.              *)
(*                                                                         *)
(* An access unit is what the mux tells apart in it: the picture size its  *)
(* last SPS announces, if any, and what remains once parameter sets and    *)
(* delimiters are filtered out.                                            *)
(***************************************************************************)
EXTENDS Integers

CONSTANTS
  Sizes,       \* picture sizes an SPS can announce
  BadSPS,      \* an SPS that does not parse, or of size zero
  NoSPS,       \* a nil SPS
  NoSize,      \* metadata before any SPS was accepted: 0 x 0
  Closed,      \* the segmenter is not initialised
  Timestamps,  \* PTS and DTS of the stream
  MaxDTS       \* bound: no access unit once lastDTS has reached it

ASSUME MuxAssumption ==
  /\ {BadSPS, NoSPS, NoSize} \cap Sizes = {}
  /\ NoSize \notin {BadSPS, NoSPS}
  /\ Timestamps \subseteq Int
  /\ MaxDTS \in Int

Codecs == {"h264", "h265"}

(* The NAL units left in an access unit: none, an IDR (for H265 also a CRA),
   a slice of another picture, other units only (such as SEI), or a unit the
   mux rejects. *)
Contents == {"none", "random_access", "slice", "other", "invalid"}

AccessUnits == [sps : Sizes \union {BadSPS, NoSPS}, content : Contents]

NoPacket == [pts |-> -1, dts |-> -1, key |-> FALSE]

VARIABLES
  camCodec,     \* codec of the camera's current connection
  started,      \* videoRequest.active.started: Start has succeeded
  codec,        \* rawSegmenterMux.codec
  sps,          \* metadata.sps, as the size it announces
  spsUnChanged, \* metadata.spsUnChanged
  size,         \* metadata.width and metadata.height
  extractor,    \* metadata.dtsExtractor is set
  first,        \* metadata.firstTimeStampsSet
  firstPTS, firstDTS, lastDTS, lastDTSSet,
  segmenter,    \* what rawSeg was last initialised for, or Closed
  sent,         \* the last packet given to rawSeg since the mux was stopped
  segFailed     \* closing or initialising rawSeg failed since the mux was stopped

metadata == <<sps, spsUnChanged, size, extractor, first, firstPTS, firstDTS,
              lastDTS, lastDTSSet>>
outside == <<segmenter, sent, segFailed>>
vars == <<camCodec, started, codec, metadata, outside>>

----------------------------------------------------------------------------
Init ==
  /\ camCodec \in Codecs
  /\ started = FALSE
  /\ codec = "unknown"
  /\ sps = NoSPS
  /\ spsUnChanged = FALSE
  /\ size = NoSize
  /\ extractor = FALSE
  /\ first = FALSE
  /\ firstPTS = 0
  /\ firstDTS = 0
  /\ lastDTS = 0
  /\ lastDTSSet = FALSE
  /\ segmenter = Closed
  /\ sent = NoPacket
  /\ segFailed = FALSE

(* Start keeps the parameter sets of the SDP, which may lack them, and fails
   while a codec is set. *)
Start(sdp) ==
  /\ ~started
  /\ codec = "unknown"
  /\ sps' = IF sdp = NoSPS THEN sps ELSE sdp
  /\ codec' = camCodec
  /\ started' = TRUE
  /\ UNCHANGED <<camCodec, spsUnChanged, size, extractor, first, firstPTS,
                 firstDTS, lastDTS, lastDTSSet, outside>>

(* A NAL unit that is none of a parameter set makes Start fail; those before it
   are kept all the same, and the next packet tries again. *)
StartFails(sdp) ==
  /\ ~started
  /\ codec = "unknown"
  /\ sps' = IF sdp = NoSPS THEN sps ELSE sdp
  /\ UNCHANGED <<camCodec, started, codec, spsUnChanged, size, extractor, first,
                 firstPTS, firstDTS, lastDTS, lastDTSSet, outside>>

(* Mutant: Stop leaves the metadata of the previous stream behind. *)
ResetKeepsMetadata ==
  /\ codec' = "unknown"
  /\ segmenter' = Closed
  /\ sent' = NoPacket
  /\ segFailed' = FALSE
  /\ UNCHANGED metadata

(* Stop closes the segmenter and forgets codec and metadata. *)
Reset ==
  /\ codec' = "unknown"
  /\ sps' = NoSPS
  /\ spsUnChanged' = FALSE
  /\ size' = NoSize
  /\ extractor' = FALSE
  /\ first' = FALSE
  /\ firstPTS' = 0
  /\ firstDTS' = 0
  /\ lastDTS' = 0
  /\ lastDTSSet' = FALSE
  /\ segmenter' = Closed
  /\ sent' = NoPacket
  /\ segFailed' = FALSE

(* When rawSeg.Close fails, Stop returns the error and forgets nothing; the
   segmenter may be closed or not. *)
ResetFails ==
  /\ segmenter' \in {segmenter, Closed}
  /\ segFailed' = TRUE
  /\ UNCHANGED <<codec, metadata, sent>>

(* Mutant: videoRequest.stop leaves started set. *)
StopByCameraKeepsStarted ==
  /\ Reset \/ ResetFails
  /\ camCodec' \in Codecs
  /\ UNCHANGED started

(* closeConnection stops the mux through videoRequest.stop, which forgets
   that it was started whether or not Stop failed; the next connection may
   carry another codec. *)
StopByCamera ==
  /\ Reset \/ ResetFails
  /\ started' = FALSE
  /\ camCodec' \in Codecs

(* The monitor's cleanup stops it without telling the videoRequest. *)
StopByMonitor ==
  /\ Reset \/ ResetFails
  /\ UNCHANGED <<started, camCodec>>

----------------------------------------------------------------------------
(* The metadata once the parameter sets of au are filtered out. *)
NewSPS(au) == IF au.sps = NoSPS THEN sps ELSE au.sps
KnownUnchanged(au) == spsUnChanged /\ au.sps = NoSPS

(* What H264 and H265 do not pass on.  An H265 unit with neither a slice nor
   a random access point is passed on. *)
Filtered(au) ==
  \/ au.content \in {"none", "invalid"}
  \/ au.content = "other" /\ codec = "h264"

(* maybeReInitVideoStore: a usable SPS of another size. *)
NeedsReInit(au) ==
  /\ ~KnownUnchanged(au)
  /\ NewSPS(au) \in Sizes
  /\ NewSPS(au) # size

(* WritePacket is reached with the codec Start was given, or returns an error
   and changes nothing. *)
Accepts == started /\ codec = camCodec /\ lastDTS < MaxDTS

FilterParameters(au) ==
  /\ sps' = NewSPS(au)
  /\ spsUnChanged' = KnownUnchanged(au)

WriteFiltered(au) ==
  /\ Accepts
  /\ Filtered(au)
  /\ FilterParameters(au)
  /\ UNCHANGED <<camCodec, started, codec, size, extractor, first, firstPTS,
                 firstDTS, lastDTS, lastDTSSet, outside>>

(* The access unit is dropped when closing the segmenter, or initialising it
   for the new size, fails. *)
WriteReInitFails(au) ==
  /\ Accepts
  /\ ~Filtered(au)
  /\ NeedsReInit(au)
  /\ FilterParameters(au)
  /\ segmenter' \in {segmenter, Closed}
  /\ segFailed' = TRUE
  /\ UNCHANGED <<camCodec, started, codec, size, extractor, first, firstPTS,
                 firstDTS, lastDTS, lastDTSSet, sent>>

(* Mutant: the check that width and height are positive is dropped. *)
ReInitAcceptsAnySPS(au) ==
  /\ sps' = NewSPS(au)
  /\ spsUnChanged' = TRUE
  /\ size' = NewSPS(au)
  /\ segmenter' = [codec |-> codec, size |-> NewSPS(au)]

(* maybeReInitVideoStore otherwise: nothing to do, the size is as before, the
   SPS is unusable and the old segmenter is kept, or the segmenter is closed
   and initialised for the new size. *)
ReInit(au) ==
  /\ sps' = NewSPS(au)
  /\ spsUnChanged' = (KnownUnchanged(au) \/ NewSPS(au) \in Sizes)
  /\ size' = IF NeedsReInit(au) THEN NewSPS(au) ELSE size
  /\ segmenter' = IF NeedsReInit(au)
                    THEN [codec |-> codec, size |-> NewSPS(au)]
                    ELSE segmenter

(* Nothing is sent before the first random access point (the extractor is
   made there), nor when the extractor finds no DTS. *)
WriteSkipped(au) ==
  /\ Accepts
  /\ ~Filtered(au)
  /\ ReInit(au)
  /\ extractor' = (extractor \/ au.content = "random_access")
  /\ UNCHANGED <<camCodec, started, codec, first, firstPTS, firstDTS, lastDTS,
                 lastDTSSet, sent, segFailed>>

(* Mutant: an equal DTS counts as increasing. *)
NormalizeAllowsEqual(pts, dts) ==
  LET p == pts - firstPTS'
      d == dts - firstDTS'
      nd == IF lastDTSSet /\ d < lastDTS THEN lastDTS + 1 ELSE d
  IN [pts |-> IF p < nd THEN nd ELSE p, dts |-> nd]

(* enforceMonotonicTimestamps: relative to the first packet, DTS strictly
   increasing, PTS at least DTS. *)
Normalize(pts, dts) ==
  LET p == pts - firstPTS'
      d == dts - firstDTS'
      nd == IF lastDTSSet /\ d <= lastDTS THEN lastDTS + 1 ELSE d
  IN [pts |-> IF p < nd THEN nd ELSE p, dts |-> nd]

(* Mutant: packets are sent before the first random access point. *)
WriteSentAnywhere(au, pts, dts) ==
  /\ Accepts
  /\ ~Filtered(au)
  /\ ReInit(au)
  /\ extractor' = TRUE
  /\ first' = TRUE
  /\ firstPTS' = IF first THEN firstPTS ELSE pts
  /\ firstDTS' = IF first THEN firstDTS ELSE dts
  /\ LET n == Normalize(pts, dts) IN
       /\ sent' = [pts |-> n.pts, dts |-> n.dts,
                   key |-> au.content = "random_access"]
       /\ lastDTS' = n.dts
  /\ lastDTSSet' = TRUE
  /\ UNCHANGED <<camCodec, started, codec, segFailed>>

(* The packet goes to the segmenter, whose errors are only logged. *)
WriteSent(au, pts, dts) ==
  /\ Accepts
  /\ ~Filtered(au)
  /\ ReInit(au)
  /\ extractor \/ au.content = "random_access"
  /\ extractor' = TRUE
  /\ first' = TRUE
  /\ firstPTS' = IF first THEN firstPTS ELSE pts
  /\ firstDTS' = IF first THEN firstDTS ELSE dts
  /\ LET n == Normalize(pts, dts) IN
       /\ sent' = [pts |-> n.pts, dts |-> n.dts,
                   key |-> au.content = "random_access"]
       /\ lastDTS' = n.dts
  /\ lastDTSSet' = TRUE
  /\ UNCHANGED <<camCodec, started, codec, segFailed>>

Next ==
  \/ \E s \in Sizes \union {BadSPS, NoSPS} : Start(s) \/ StartFails(s)
  \/ StopByCamera
  \/ StopByMonitor
  \/ \E au \in AccessUnits :
       \/ WriteFiltered(au)
       \/ WriteReInitFails(au)
       \/ WriteSkipped(au)
       \/ \E pts, dts \in Timestamps : WriteSent(au, pts, dts)

Spec == Init /\ [][Next]_vars

----------------------------------------------------------------------------
TypeOK ==
  /\ camCodec \in Codecs
  /\ started \in BOOLEAN
  /\ codec \in Codecs \union {"unknown"}
  /\ sps \in Sizes \union {BadSPS, NoSPS}
  /\ spsUnChanged \in BOOLEAN
  /\ size \in Sizes \union {NoSize}
  /\ extractor \in BOOLEAN
  /\ first \in BOOLEAN
  /\ firstPTS \in Int /\ firstDTS \in Int /\ lastDTS \in Int
  /\ lastDTSSet \in BOOLEAN
  /\ segmenter \in {Closed} \union [codec : Codecs, size : Sizes]
  /\ sent \in [pts : Int, dts : Int, key : BOOLEAN]
  /\ segFailed \in BOOLEAN

(* mux.go:298: whatever timestamps the stream carries (reordered pictures, a
   source that jumps back) the segmenter is given strictly increasing DTS and
   no PTS before its DTS. *)
PacketsOrdered ==
  [][sent' # sent /\ sent' # NoPacket =>
       sent'.dts > sent.dts /\ sent'.pts >= sent'.dts]_vars

(* Packets begin at time zero, and not before a random access point of the
   stream: that point is the first packet, or no DTS was found for it. *)
StartsAtRandomAccess ==
  [][sent = NoPacket /\ sent' # NoPacket =>
       /\ sent'.pts = 0 /\ sent'.dts = 0
       /\ sent'.key \/ extractor]_vars

(* Once an SPS is taken as unchanged the segmenter is the one for its size and
   for the codec of the mux, unless closing or initialising it failed. *)
SegmenterMatches ==
  /\ segmenter # Closed => segmenter.codec = codec
  /\ spsUnChanged /\ ~segFailed =>
       size = sps /\ segmenter = [codec |-> codec, size |-> size]

(* WritePacket's refusal of "a different codec than Init" is dead code: after
   a reconnection to another codec, even one whose Stop failed, the old codec
   is never written to. *)
NoCodecMismatch == started => codec \in {camCodec, "unknown"}
=============================================================================
