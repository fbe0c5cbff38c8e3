---------------------------- MODULE Passthrough ----------------------------
(***************************************************************************)
(* RTP passthrough of an rtspCamera: SubscribeRTP, Unsubscribe, the        *)
(* publication of packets to the subscribers' buffers, the callbacks that  *)
(* the buffers run, and what reconnections and Close do to subscriptions.  *)
(*                                                                         *)
(* Two locks matter: closeMu, which a reconnection and Close hold from     *)
(* their first to their last step, and subsMu.  A buffer's Close waits for *)
(* the callback that is running (rdk's rtppassthrough).                    *)
(***************************************************************************)
EXTENDS Naturals, Sequences

CONSTANTS
  Subs,        \* subscriptions; every call of SubscribeRTP makes a new one
  BufferSize,  \* packets a subscription's buffer holds
  MaxPTS,      \* bound on presentation timestamps
  None         \* no timestamp

ASSUME PassthroughAssumption ==
  /\ BufferSize \in Nat \ {0}
  /\ MaxPTS \in Nat
  /\ None \notin Nat
  /\ {"free", "conn", "cull"} \intersect Subs = {}  \* see subsMu

PTS == 0 .. MaxPTS

VARIABLES
  bframes,    \* TRUE when the camera's H264 stream has B-frames
  conn,       \* where the goroutine that reconnects or closes stands
  stream,     \* codec of the receive goroutine, or "none"
  pts,        \* timestamp of the connection's last packet, or None
  codec,      \* currentCodec
  enabled,    \* rtpPassthroughCtx is not cancelled
  subsMu,     \* who holds subsMu for writing: "free", "conn", "cull" or s
  caller,     \* caller[s]: where SubscribeRTP stands
  sub,        \* sub[s]: "none", "subscribed", "closing" or "terminated"
  queue,      \* queue[s]: timestamps of the packets in the buffer
  running,    \* running[s]: timestamp the callback works on, or None
  lastPTS,    \* lastPTS[s], None before firstReceived
  culls       \* goroutines that were started to run unsubscribeAll

connVars == <<conn, stream, pts, codec>>
bufVars == <<queue, running, lastPTS>>
vars == <<bframes, connVars, enabled, subsMu, caller, sub, bufVars, culls>>

(* Subscriptions in bufAndCBByID. *)
Subscribed == {s \in Subs : sub[s] = "subscribed"}

(* What validateSupportsPassthrough asks for at runtime. *)
Supported == codec = "h264" /\ enabled

CloseMuFree == conn \in {"live", "idle", "closed"}

Init ==
  /\ bframes \in BOOLEAN
  /\ conn = "live" /\ stream = "h264" /\ pts = None /\ codec = "h264"
  /\ enabled = TRUE
  /\ subsMu = "free"
  /\ caller = [s \in Subs |-> "idle"]
  /\ sub = [s \in Subs |-> "none"]
  /\ queue = [s \in Subs |-> <<>>]
  /\ running = [s \in Subs |-> None]
  /\ lastPTS = [s \in Subs |-> None]
  /\ culls = 0

----------------------------------------------------------------------------
(* SubscribeRTP checks that passthrough is supported, *)
Validate(s) ==
  /\ caller[s] = "idle"
  /\ Supported
  /\ caller' = [caller EXCEPT ![s] = "validated"]
  /\ UNCHANGED <<bframes, connVars, enabled, subsMu, sub, bufVars, culls>>

(* Mutant: subsMu is held until SubscribeRTP returns. *)
InsertHoldsLock(s) ==
  /\ caller[s] = "validated"
  /\ subsMu = "free"
  /\ sub' = [sub EXCEPT ![s] = "subscribed"]
  /\ caller' = [caller EXCEPT ![s] = "fir"]
  /\ subsMu' = s
  /\ UNCHANGED <<bframes, connVars, enabled, bufVars, culls>>

(* adds the subscription under subsMu *)
Insert(s) ==
  /\ caller[s] = "validated"
  /\ subsMu = "free"
  /\ sub' = [sub EXCEPT ![s] = "subscribed"]
  /\ caller' = [caller EXCEPT ![s] = "fir"]
  /\ UNCHANGED <<bframes, connVars, enabled, subsMu, bufVars, culls>>

(* and takes closeMu for reading to ask the camera for a key frame. *)
RequestKeyFrame(s) ==
  /\ caller[s] = "fir"
  /\ CloseMuFree
  /\ caller' = [caller EXCEPT ![s] = "returned"]
  /\ subsMu' = IF subsMu = s THEN "free" ELSE subsMu
  /\ UNCHANGED <<bframes, connVars, enabled, sub, bufVars, culls>>

(* Deleting a subscription closes its buffer: what is queued is dropped, the
   callback that runs is waited for, and then nothing is left of it. *)
Shut(S) ==
  /\ sub' = [s \in Subs |-> IF s \in S THEN "closing" ELSE sub[s]]
  /\ queue' = [s \in Subs |-> IF s \in S THEN <<>> ELSE queue[s]]
  /\ UNCHANGED <<running, lastPTS>>

AllShut ==
  /\ \A s \in Subs : sub[s] = "closing" => running[s] = None
  /\ sub' = [s \in Subs |-> IF sub[s] = "closing" THEN "terminated" ELSE sub[s]]
  /\ lastPTS' = [s \in Subs |->
                  IF sub[s] = "closing" THEN None ELSE lastPTS[s]]
  /\ subsMu' = "free"
  /\ UNCHANGED <<queue, running>>

(* Mutant: Unsubscribe only forgets the subscription. *)
UnsubscribeForgets(s) ==
  /\ caller[s] = "returned"
  /\ subsMu = "free"
  /\ sub[s] = "subscribed"
  /\ sub' = [sub EXCEPT ![s] = "terminated"]
  /\ UNCHANGED <<bframes, connVars, enabled, subsMu, caller, bufVars, culls>>

Unsubscribe(s) ==
  /\ caller[s] = "returned"
  /\ subsMu = "free"
  /\ sub[s] = "subscribed"
  /\ Shut({s})
  /\ subsMu' = s
  /\ UNCHANGED <<bframes, connVars, enabled, caller, culls>>

Unsubscribed(s) ==
  /\ subsMu = s
  /\ sub[s] = "closing"
  /\ AllShut
  /\ UNCHANGED <<bframes, connVars, enabled, caller, culls>>

----------------------------------------------------------------------------
(* Mutant: a packet is published to full buffers too. *)
PublishToAll(p) ==
  /\ stream = "h264"
  /\ subsMu = "free"
  /\ IF pts = None THEN p = 0 ELSE p >= pts \/ bframes
  /\ pts' = p
  /\ queue' = [s \in Subs |->
                IF s \in Subscribed THEN Append(queue[s], p) ELSE queue[s]]
  /\ UNCHANGED <<bframes, conn, stream, codec, enabled, subsMu, caller, sub,
                 running, lastPTS, culls>>

(* The receive goroutine publishes a packet under subsMu to every subscriber
   whose buffer is not full.  Timestamps start again with every connection
   and decrease only in a stream with B-frames. *)
Publish(p) ==
  /\ stream = "h264"
  /\ subsMu = "free"
  /\ IF pts = None THEN p = 0 ELSE p >= pts \/ bframes
  /\ pts' = p
  /\ queue' = [s \in Subs |->
                IF s \in Subscribed /\ Len(queue[s]) < BufferSize
                  THEN Append(queue[s], p) ELSE queue[s]]
  /\ UNCHANGED <<bframes, conn, stream, codec, enabled, subsMu, caller, sub,
                 running, lastPTS, culls>>

(* The buffer's goroutine takes a packet; the callback ignores it once the
   passthrough context is cancelled, *)
Take(s) ==
  /\ s \in Subscribed
  /\ queue[s] # <<>>
  /\ running[s] = None
  /\ queue' = [queue EXCEPT ![s] = Tail(@)]
  /\ running' = [running EXCEPT ![s] = IF enabled THEN Head(queue[s]) ELSE None]
  /\ UNCHANGED <<bframes, connVars, enabled, subsMu, caller, sub, lastPTS, culls>>

InOrder(s) == lastPTS[s] # None => running[s] >= lastPTS[s]

(* passes it on, *)
PassOn(s) ==
  /\ running[s] # None
  /\ InOrder(s)
  /\ lastPTS' = [lastPTS EXCEPT ![s] = running[s]]
  /\ running' = [running EXCEPT ![s] = None]
  /\ UNCHANGED <<bframes, connVars, enabled, subsMu, caller, sub, queue, culls>>

(* Mutant: the callback calls unsubscribeAll itself. *)
DisableAndWait(s) ==
  /\ running[s] # None
  /\ ~InOrder(s)
  /\ enabled' = FALSE
  /\ culls' = IF enabled THEN culls + 1 ELSE culls
  /\ UNCHANGED <<bframes, connVars, subsMu, caller, sub, queue, running, lastPTS>>

(* or takes it for a B-frame: it cancels the context for good and has another
   goroutine terminate all subscriptions. *)
Disable(s) ==
  /\ running[s] # None
  /\ ~InOrder(s)
  /\ enabled' = FALSE
  /\ culls' = culls + 1
  /\ running' = [running EXCEPT ![s] = None]
  /\ UNCHANGED <<bframes, connVars, subsMu, caller, sub, queue, lastPTS>>

(* unsubscribeAll in that goroutine. *)
Cull ==
  /\ culls > 0
  /\ subsMu = "free"
  /\ Shut(Subscribed)
  /\ subsMu' = "cull"
  /\ UNCHANGED <<bframes, connVars, enabled, caller, culls>>

Culled ==
  /\ subsMu = "cull"
  /\ AllShut
  /\ culls' = culls - 1
  /\ UNCHANGED <<bframes, connVars, enabled, caller>>

----------------------------------------------------------------------------
(* reconnectClient takes closeMu and closes the connection, *)
Disconnect ==
  /\ conn \in {"live", "idle"}
  /\ conn' = "down"
  /\ stream' = "none" /\ pts' = None /\ codec' = "none"
  /\ UNCHANGED <<bframes, enabled, subsMu, caller, sub, bufVars, culls>>

(* plays the stream: packets arrive before PLAY is answered, *)
Play(c) ==
  /\ conn = "down"
  /\ conn' = "playing"
  /\ stream' = c
  /\ UNCHANGED <<bframes, pts, codec, enabled, subsMu, caller, sub, bufVars,
                 culls>>

AttemptFails ==
  /\ conn \in {"down", "playing"}
  /\ conn' = "idle"
  /\ stream' = "none" /\ pts' = None /\ codec' = "none"
  /\ UNCHANGED <<bframes, enabled, subsMu, caller, sub, bufVars, culls>>

StoreCodec ==
  /\ conn = "playing"
  /\ codec' = stream
  /\ conn' = "stored"
  /\ UNCHANGED <<bframes, stream, pts, enabled, subsMu, caller, sub, bufVars,
                 culls>>

(* and lets the subscriptions continue, or terminates them all. *)
Continue ==
  /\ conn = "stored"
  /\ Supported
  /\ conn' = "live"
  /\ UNCHANGED <<bframes, stream, pts, codec, enabled, subsMu, caller, sub,
                 bufVars, culls>>

Terminate ==
  /\ conn = "stored"
  /\ ~Supported
  /\ subsMu = "free"
  /\ Shut(Subscribed)
  /\ subsMu' = "conn"
  /\ conn' = "unsubscribing"
  /\ UNCHANGED <<bframes, stream, pts, codec, enabled, caller, culls>>

Terminated ==
  /\ conn = "unsubscribing"
  /\ AllShut
  /\ conn' = "live"
  /\ UNCHANGED <<bframes, stream, pts, codec, enabled, caller, culls>>

(* Close waits for the goroutines that run unsubscribeAll, takes closeMu, does
   the same and closes the connection. *)
Close ==
  /\ conn \in {"live", "idle"}
  /\ culls = 0
  /\ conn' = "closing"
  /\ UNCHANGED <<bframes, stream, pts, codec, enabled, subsMu, caller, sub,
                 bufVars, culls>>

CloseUnsubscribes ==
  /\ conn = "closing"
  /\ subsMu = "free"
  /\ Shut(Subscribed)
  /\ subsMu' = "conn"
  /\ conn' = "closeUnsubscribing"
  /\ UNCHANGED <<bframes, stream, pts, codec, enabled, caller, culls>>

Closed ==
  /\ conn = "closeUnsubscribing"
  /\ AllShut
  /\ conn' = "closed"
  /\ stream' = "none" /\ pts' = None /\ codec' = "none"
  /\ UNCHANGED <<bframes, enabled, caller, culls>>

----------------------------------------------------------------------------
Subscriber(s) ==
  Validate(s) \/ Insert(s) \/ RequestKeyFrame(s) \/ Unsubscribe(s)
Callback(s) == Take(s) \/ PassOn(s) \/ Disable(s)
Reconnecting ==
  AttemptFails \/ StoreCodec \/ Continue \/ Terminate \/ Terminated

Next ==
  \/ \E s \in Subs : Subscriber(s) \/ Unsubscribed(s) \/ Callback(s)
  \/ \E p \in PTS : Publish(p)
  \/ Cull \/ Culled
  \/ Disconnect \/ Reconnecting \/ \E c \in {"h264", "other"} : Play(c)
  \/ Close \/ CloseUnsubscribes \/ Closed

(* Every goroutine that holds or waits for a lock goes on, and sync.RWMutex
   lets readers that wait in before the next writer.  Nobody has to subscribe,
   and no packet has to come. *)
Fairness ==
  /\ \A s \in Subs :
       /\ SF_vars(RequestKeyFrame(s))
       /\ WF_vars(Unsubscribed(s) \/ Callback(s))
  /\ WF_vars(Cull \/ Culled)
  /\ WF_vars(Reconnecting)
  /\ WF_vars(CloseUnsubscribes \/ Closed)

Spec == Init /\ [][Next]_vars /\ Fairness

----------------------------------------------------------------------------
TypeOK ==
  /\ bframes \in BOOLEAN
  /\ conn \in {"live", "idle", "down", "playing", "stored", "unsubscribing",
               "closing", "closeUnsubscribing", "closed"}
  /\ stream \in {"none", "h264", "other"}
  /\ codec \in {"none", "h264", "other"}
  /\ pts \in PTS \union {None}
  /\ enabled \in BOOLEAN
  /\ subsMu \in {"free", "conn", "cull"} \union Subs
  /\ caller \in [Subs -> {"idle", "validated", "fir", "returned"}]
  /\ sub \in [Subs -> {"none", "subscribed", "closing", "terminated"}]
  /\ queue \in [Subs -> Seq(PTS)]
  /\ \A s \in Subs : Len(queue[s]) <= BufferSize
  /\ running \in [Subs -> PTS \union {None}]
  /\ lastPTS \in [Subs -> PTS \union {None}]
  /\ culls \in Nat

(* Once a subscription is terminated, by Unsubscribe, by a reconnection, by
   Close or because of B-frames, its callback is not running and never will be
   again, although packets are published from another goroutine. *)
SilentWhenTerminated ==
  \A s \in Subs : sub[s] \in {"none", "terminated"} =>
    running[s] = None /\ queue[s] = <<>>

(* unsubscribeAll has yet to take subsMu, in a goroutine started for it. *)
CullPending == culls > (IF subsMu = "cull" THEN 1 ELSE 0)

(* When passthrough is disabled, every subscription that is there is
   terminated, so that its holder learns of it and does not wait for packets
   for ever; and so is one that was validated before and comes in later, as
   long as a cull has not begun.  The callback that disables passthrough cannot
   terminate them itself: it would wait for its own end (rtsp.go, the comment
   at the go routine). *)
DisabledTerminates ==
  \A s \in Subs :
    /\ <>(enabled /\ sub[s] = "subscribed") /\ <>~enabled
         => <>(sub[s] = "terminated" /\ ~enabled)
    /\ CullPending /\ sub[s] = "subscribed" ~> sub[s] # "subscribed"

(* SubscribeRTP returns: it takes closeMu after it has let go of subsMu, which a
   reconnection and Close take while they hold closeMu. *)
SubscribeReturns == \A s \in Subs : caller[s] = "fir" ~> caller[s] = "returned"

(* rtsp.go: after a reconnection that still supports passthrough "let any
   remaining subscriptions continue", and passthrough ends when "WebRTC doesn't
   support H264 streams with B-frames".  Violated: timestamps start again with
   the new connection, the callback of a remaining subscription takes that for
   a B-frame and disables passthrough of this camera for good. *)
OnlyBFramesDisable == enabled \/ bframes
=============================================================================
