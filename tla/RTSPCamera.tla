----------------------------- MODULE RTSPCamera -----------------------------
(***************************************************************************)
(* The life of one rtspCamera: construction, the reconnection worker, the  *)
(* receive goroutine of the current connection, Image() and Close, with    *)
(* closeMu, the liveness clock lastFrameTime and time itself.              *)
(*                                                                         *)
(* The unit of time is reconnectIntervalDuration.  Times are kept as ages  *)
(* that stop at Cap.  Codecs, pictures and packets are left out: what      *)
(* matters of a picture is how long ago its access unit was received.      *)
(***************************************************************************)
EXTENDS Naturals

CONSTANTS
  Callers,     \* goroutines that call Image()
  Transports,  \* number of preferredTransports
  Timeout,     \* noFrameTimeout, in units of reconnectIntervalDuration
  None         \* no picture, no pending access unit

ASSUME CameraAssumption ==
  /\ Transports \in Nat \ {0}
  /\ Timeout \in Nat \ {0}
  /\ None \notin Nat

Cap == Timeout + 1
Older(a) == IF a = None \/ a = Cap THEN a ELSE a + 1

VARIABLES
  server,     \* TRUE while the RTSP server answers and streams
  mode,       \* lazyDecode and iframeOnlyDecode
  since,      \* timeSinceLastFrame()
  heard,      \* age of the last access unit of any connection
  connected,  \* age of the last connection
  latest,     \* age of latestFrame, or None
  pending,    \* age of the newest access unit in rc.au, or None
  conn,       \* the client: "none", "live" or "ending"
  decoder,    \* rawDecoder is open
  gotIDR,     \* receivedFirstIDR
  recv,       \* the receive goroutine: "idle", "decoding" or "appending"
  worker,     \* where the goroutine that reconnects stands
  transport,  \* the transport of this attempt, or of the next one
  slept,      \* the worker's wait is over
  built,      \* NewRTSPCamera has returned the camera
  close,      \* where Close stands
  cancelled,  \* cancelCtx is done
  image       \* image[c]: where the caller stands in Image()

clock == <<since, heard, connected>>
pictures == <<latest, pending>>
connection == <<conn, decoder, gotIDR, recv>>
workerVars == <<worker, transport, slept, built>>
closeVars == <<close, cancelled>>
vars == <<server, mode, clock, pictures, connection, workerVars, closeVars,
          image>>

(* Mutant: Image() does not take closeMu. *)
ReadersUnlocked == {}

(* closeMu: a writer excludes everybody, and a writer that waits keeps new
   readers out (sync.RWMutex). *)
Readers == {c \in Callers : image[c] # "idle"}

(* Mutant: Close takes closeMu before it waits for the worker. *)
WriterHoldsWhileWaiting ==
  \/ worker \in {"stop", "drain", "connect", "playing", "undo", "undrain"}
  \/ close \in {"wait", "stop", "drain"}

WriterHolds ==
  \/ worker \in {"stop", "drain", "connect", "playing", "undo", "undrain"}
  \/ close \in {"stop", "drain"}
WriterWaits == worker = "lock" \/ close = "lock"

Init ==
  /\ server = TRUE
  /\ mode \in [lazy : BOOLEAN, iframeOnly : BOOLEAN]
  /\ since = Cap /\ heard = Cap /\ connected = Cap
  /\ latest = None /\ pending = None
  /\ conn = "none" /\ decoder = FALSE /\ gotIDR = FALSE /\ recv = "idle"
  /\ worker = "lock" /\ transport = 1 /\ slept = FALSE /\ built = FALSE
  /\ close = "idle" /\ cancelled = FALSE
  /\ image = [c \in Callers |-> "idle"]

----------------------------------------------------------------------------
(* From PLAY to the mark of the new connection takes less than a unit of time;
   every other step, and every wait for a lock, takes as long as it likes. *)
Tick ==
  /\ worker \notin {"playing", "mark"}
  /\ since' = Older(since)
  /\ heard' = Older(heard)
  /\ connected' = Older(connected)
  /\ latest' = Older(latest)
  /\ pending' = Older(pending)
  /\ slept' = (slept \/ worker = "sleep")
  /\ UNCHANGED <<server, mode, connection, worker, transport, built, closeVars,
                 image>>

ServerChanges ==
  /\ server' = ~server
  /\ UNCHANGED <<mode, clock, pictures, connection, workerVars, closeVars,
                 image>>

(* storeImage: an access unit that starts with a random access point, or not.
   It counts as a sign of life before anything else is done with it. *)
Skipped(idr) == mode.iframeOnly /\ ~idr
Postponed(idr) == mode.lazy /\ ~Skipped(idr) /\ (idr => gotIDR)
Handling(idr) ==
  IF Skipped(idr) THEN "idle"
  ELSE IF Postponed(idr) THEN "appending" ELSE "decoding"

(* Mutant: only the access units that iframeOnlyDecode lets through count. *)
ReceiveMarksLate(idr) ==
  /\ conn = "live" /\ server /\ recv = "idle"
  /\ since' = IF Skipped(idr) THEN since ELSE 0
  /\ heard' = 0
  /\ gotIDR' = (gotIDR \/ idr)
  /\ recv' = Handling(idr)
  /\ UNCHANGED <<server, mode, connected, pictures, conn, decoder, workerVars,
                 closeVars, image>>

Receive(idr) ==
  /\ conn = "live" /\ server /\ recv = "idle"
  /\ since' = 0
  /\ heard' = 0
  /\ gotIDR' = (gotIDR \/ idr)
  /\ recv' = Handling(idr)
  /\ UNCHANGED <<server, mode, connected, pictures, conn, decoder, workerVars,
                 closeVars, image>>

(* The decoder makes a picture of it, or none. *)
Decoded ==
  /\ recv = "decoding"
  /\ latest' \in {heard, latest}
  /\ recv' = "idle"
  /\ UNCHANGED <<server, mode, clock, pending, conn, decoder, gotIDR,
                 workerVars, closeVars, image>>

(* resetLazyAU or appendLazyAU, once no Image() holds auMu. *)
Append ==
  /\ recv = "appending"
  /\ \A c \in Callers : image[c] # "decoding"
  /\ pending' = heard
  /\ recv' = "idle"
  /\ UNCHANGED <<server, mode, clock, latest, conn, decoder, gotIDR, workerVars,
                 closeVars, image>>

----------------------------------------------------------------------------
(* The worker wakes up: the stream is healthy, or it decides to reconnect and
   asks the server for its OPTIONS, whatever the answer. *)
Healthy ==
  /\ worker = "sleep" /\ slept /\ ~cancelled
  /\ since < Timeout
  /\ slept' = FALSE
  /\ UNCHANGED <<server, mode, clock, pictures, connection, worker, transport,
                 built, closeVars, image>>

Unhealthy ==
  /\ worker = "sleep" /\ slept /\ ~cancelled
  /\ since >= Timeout
  /\ worker' = "probe" /\ slept' = FALSE
  /\ UNCHANGED <<server, mode, clock, pictures, connection, transport, built,
                 closeVars, image>>

WorkerExits ==
  /\ worker = "sleep" /\ cancelled
  /\ worker' = "exited"
  /\ UNCHANGED <<server, mode, clock, pictures, connection, transport, slept,
                 built, closeVars, image>>

Probed ==
  /\ worker = "probe"
  /\ worker' = "lock"
  /\ UNCHANGED <<server, mode, clock, pictures, connection, transport, slept,
                 built, closeVars, image>>

(* reconnectClient takes closeMu, *)
LockReconnect ==
  /\ worker = "lock"
  /\ ~WriterHolds /\ Readers = {}
  /\ worker' = "stop"
  /\ UNCHANGED <<server, mode, clock, pictures, connection, transport, slept,
                 built, closeVars, image>>

(* closes the client, which receives no more and waits for the receive
   goroutine, and the rest of the connection (closeConnection), as it does
   again when the attempt fails, *)
StopClient ==
  /\ worker \in {"stop", "undo"}
  /\ conn' = IF conn = "live" THEN "ending" ELSE conn
  /\ worker' = IF worker = "stop" THEN "drain" ELSE "undrain"
  /\ UNCHANGED <<server, mode, clock, pictures, decoder, gotIDR, recv,
                 transport, slept, built, closeVars, image>>

FreeConnection ==
  /\ recv = "idle"
  /\ conn' = "none"
  /\ decoder' = FALSE
  /\ pending' = None
  /\ UNCHANGED <<server, mode, clock, latest, gotIDR, recv, slept, built,
                 cancelled, image>>

CloseOld ==
  /\ worker = "drain"
  /\ FreeConnection
  /\ worker' = "connect"
  /\ UNCHANGED <<transport, close>>

(* sets the decoder up and starts to play.  H265 has no first IDR to wait for. *)
Connect ==
  /\ worker = "connect"
  /\ server
  /\ decoder' = TRUE
  /\ conn' = "live"
  /\ gotIDR' \in BOOLEAN
  /\ worker' = "playing"
  /\ UNCHANGED <<server, mode, clock, pictures, recv, transport, slept, built,
                 closeVars, image>>

AttemptFails ==
  /\ worker \in {"connect", "playing"}
  /\ ~server
  /\ worker' = "undo"
  /\ UNCHANGED <<server, mode, clock, pictures, connection, transport, slept,
                 built, closeVars, image>>

Played ==
  /\ worker = "playing"
  /\ connected' = 0
  /\ worker' = "mark"
  /\ UNCHANGED <<server, mode, since, heard, pictures, connection, transport,
                 slept, built, closeVars, image>>

(* Mutant: after a failed round the worker gives up. *)
GiveUpTransport ==
  /\ worker = "undrain"
  /\ FreeConnection
  /\ IF transport < Transports
       THEN worker' = "lock" /\ transport' = transport + 1
       ELSE worker' = "exited" /\ transport' = 1
  /\ UNCHANGED close

(* Mutant: one transport too many is tried. *)
NextTransportOffByOne ==
  /\ worker = "undrain"
  /\ FreeConnection
  /\ IF transport <= Transports
       THEN worker' = "lock" /\ transport' = transport + 1
       ELSE worker' = (IF built THEN "sleep" ELSE "failed") /\ transport' = 1
  /\ UNCHANGED close

(* The next transport is tried; after the last one the constructor gives up
   and the worker waits for its next round. *)
NextTransport ==
  /\ worker = "undrain"
  /\ FreeConnection
  /\ IF transport < Transports
       THEN worker' = "lock" /\ transport' = transport + 1
       ELSE worker' = (IF built THEN "sleep" ELSE "failed") /\ transport' = 1
  /\ UNCHANGED close

(* A new connection has a grace period: the constructor and the worker mark a
   frame received. *)
Grace ==
  /\ worker = "mark"
  /\ since' = 0
  /\ worker' = "sleep" /\ transport' = 1 /\ built' = TRUE
  /\ UNCHANGED <<server, mode, heard, connected, pictures, connection, slept,
                 closeVars, image>>

----------------------------------------------------------------------------
(* Close cancels the context, waits for the worker, then takes closeMu and
   takes everything down. *)
CloseBegin ==
  /\ built /\ close = "idle"
  /\ cancelled' = TRUE
  /\ close' = "wait"
  /\ UNCHANGED <<server, mode, clock, pictures, connection, workerVars, image>>

(* Mutant: Close does not wait for the worker. *)
CloseDoesNotWait ==
  /\ close = "wait"
  /\ close' = "lock"
  /\ UNCHANGED <<server, mode, clock, pictures, connection, workerVars,
                 cancelled, image>>

CloseWaited ==
  /\ close = "wait"
  /\ worker = "exited"
  /\ close' = "lock"
  /\ UNCHANGED <<server, mode, clock, pictures, connection, workerVars,
                 cancelled, image>>

CloseLock ==
  /\ close = "lock"
  /\ ~WriterHolds /\ Readers = {}
  /\ close' = "stop"
  /\ UNCHANGED <<server, mode, clock, pictures, connection, workerVars,
                 cancelled, image>>

CloseClient ==
  /\ close = "stop"
  /\ conn' = IF conn = "live" THEN "ending" ELSE conn
  /\ close' = "drain"
  /\ UNCHANGED <<server, mode, clock, pictures, decoder, gotIDR, recv,
                 workerVars, cancelled, image>>

(* latestFrame is dropped with the rest. *)
CloseEnd ==
  /\ close = "drain"
  /\ recv = "idle"
  /\ conn' = "none" /\ decoder' = FALSE
  /\ pending' = None /\ latest' = None
  /\ close' = "closed"
  /\ UNCHANGED <<server, mode, clock, gotIDR, recv, workerVars, cancelled,
                 image>>

----------------------------------------------------------------------------
(* Image() holds closeMu for reading from its first to its last step. *)
ImageLock(c) ==
  /\ built
  /\ image[c] = "idle"
  /\ ~WriterHolds /\ ~WriterWaits
  /\ image' = [image EXCEPT ![c] = "entered"]
  /\ UNCHANGED <<server, mode, clock, pictures, connection, workerVars,
                 closeVars>>

ImageRefused(c) ==
  /\ image[c] = "entered"
  /\ cancelled \/ since > Timeout
  /\ image' = [image EXCEPT ![c] = "idle"]
  /\ UNCHANGED <<server, mode, clock, pictures, connection, workerVars,
                 closeVars>>

(* consumeLazyAU takes auMu and decodes what was postponed, if anything. *)
ImageConsume(c) ==
  /\ image[c] = "entered"
  /\ ~cancelled /\ since <= Timeout
  /\ \A d \in Callers : image[d] # "decoding"
  /\ image' = [image EXCEPT ![c] = IF pending = None THEN "serving"
                                   ELSE "decoding"]
  /\ UNCHANGED <<server, mode, clock, pictures, connection, workerVars,
                 closeVars>>

ImageDecoded(c) ==
  /\ image[c] = "decoding"
  /\ latest' \in {pending, latest}
  /\ pending' = None
  /\ image' = [image EXCEPT ![c] = "serving"]
  /\ UNCHANGED <<server, mode, clock, connection, workerVars, closeVars>>

(* latestFrame is converted and returned, or there is "no frame yet". *)
ImageReturn(c) ==
  /\ image[c] = "serving"
  /\ image' = [image EXCEPT ![c] = "idle"]
  /\ UNCHANGED <<server, mode, clock, pictures, connection, workerVars,
                 closeVars>>

----------------------------------------------------------------------------
Receiving == Decoded \/ Append
Working ==
  \/ Healthy \/ Unhealthy \/ WorkerExits \/ Probed \/ LockReconnect
  \/ StopClient \/ CloseOld \/ Connect \/ AttemptFails \/ Played
  \/ NextTransport \/ Grace
Closing == CloseWaited \/ CloseLock \/ CloseClient \/ CloseEnd
Serving(c) ==
  ImageRefused(c) \/ ImageConsume(c) \/ ImageDecoded(c) \/ ImageReturn(c)

Next ==
  \/ Tick \/ ServerChanges
  \/ \E idr \in BOOLEAN : Receive(idr)
  \/ Receiving \/ Working \/ CloseBegin \/ Closing
  \/ \E c \in Callers : ImageLock(c) \/ Serving(c)

(* Time passes and every goroutine that can go on does.  Nobody has to call
   Image() or Close, and the server owes nothing. *)
Fairness ==
  /\ WF_vars(Tick) /\ WF_vars(Receiving) /\ WF_vars(Working)
  /\ WF_vars(Closing) /\ \A c \in Callers : WF_vars(Serving(c))

Spec == Init /\ [][Next]_vars /\ Fairness

----------------------------------------------------------------------------
Age == 0 .. Cap

TypeOK ==
  /\ server \in BOOLEAN
  /\ mode \in [lazy : BOOLEAN, iframeOnly : BOOLEAN]
  /\ since \in Age /\ heard \in Age /\ connected \in Age
  /\ latest \in Age \union {None} /\ pending \in Age \union {None}
  /\ conn \in {"none", "live", "ending"}
  /\ decoder \in BOOLEAN /\ gotIDR \in BOOLEAN
  /\ recv \in {"idle", "decoding", "appending"}
  /\ worker \in {"lock", "stop", "drain", "connect", "playing", "undo",
                 "undrain", "mark", "sleep", "probe", "exited", "failed"}
  /\ transport \in 1 .. Transports
  /\ slept \in BOOLEAN /\ built \in BOOLEAN
  /\ close \in {"idle", "wait", "lock", "stop", "drain", "closed"}
  /\ cancelled \in BOOLEAN
  /\ image \in [Callers -> {"idle", "entered", "decoding", "serving"}]

(* The decoder that Image() or the receive goroutine is using stays open: no
   reconnection and no Close frees it under them. *)
DecoderAlive ==
  recv = "decoding" \/ (\E c \in Callers : image[c] = "decoding") => decoder

(* What Close took down stays down: no reconnection that was under way opens a
   connection, a decoder or a picture behind its back. *)
ClosedForGood ==
  close = "closed" => conn = "none" /\ ~decoder /\ latest = None

(* The worker gives up a connection only when the connection itself is as old
   as noFrameTimeout and all that time not one access unit came, decoded or
   not: "a stream that keeps delivering frames is never reconnected" (rtsp.go),
   in any decoding mode, and a new connection has its grace period. *)
NeverHasty ==
  [][worker = "sleep" /\ worker' = "probe"
       => heard >= Timeout /\ connected >= Timeout]_vars

(* Close returns: neither the worker, which takes closeMu to reconnect, nor the
   receive goroutine, nor callers of Image() that keep coming can hold it up. *)
CloseReturns == close = "wait" ~> close = "closed"

(* When the server answers again for good, a camera that is not closed always
   comes back to a stream, or to a connection made a moment ago: a silent
   connection is replaced, whatever went wrong before. *)
Recovers ==
  <>[]server =>
    []<>(heard < Timeout \/ connected < Timeout \/ cancelled
           \/ worker = "failed")

(* rtsp.go: "Image() uses it", lastFrameTime, "to avoid returning stale
   frames".  Violated: a reconnection counts as a frame and latestFrame outlives
   the connection, so that Image() goes on to return a picture although no frame
   has come for longer than noFrameTimeout. *)
NoStaleImage ==
  [][\A c \in Callers :
       image[c] = "entered" /\ image'[c] \in {"decoding", "serving"}
         /\ latest # None => heard <= Timeout]_vars
=============================================================================
