------------------------- MODULE Passthrough_proofs -------------------------
(***************************************************************************)
(* Proofs about Passthrough, for any number of subscriptions, any buffer   *)
(* size and any bound on timestamps.                                       *)
(***************************************************************************)
EXTENDS Passthrough, TLAPS

(* A buffer that is being closed holds no packet, and one that is closed, or
   not made yet, runs no callback. *)
Quiet ==
  \A s \in Subs :
    /\ sub[s] # "subscribed" => queue[s] = <<>>
    /\ sub[s] \in {"none", "terminated"} => running[s] = None

(* SubscribeRTP adds its own subscription and no other call's. *)
Fresh == \A s \in Subs : caller[s] \in {"idle", "validated"} => sub[s] = "none"

(* subsMu: subscriptions are closed by the one who holds it, who holds it
   until they are; and whoever runs unsubscribeAll was started to do so. *)
SubsMuHeld ==
  /\ subsMu = "conn" <=> conn \in {"unsubscribing", "closeUnsubscribing"}
  /\ subsMu = "cull" => culls > 0
  /\ subsMu = "free" => \A s \in Subs : sub[s] # "closing"
  /\ \A s \in Subs : subsMu = s =>
       /\ caller[s] = "returned"
       /\ \A t \in Subs : sub[t] = "closing" <=> t = s

PassthroughInv == TypeOK /\ Quiet /\ Fresh /\ SubsMuHeld

(* The steps of a connection that do not touch subsMu. *)
Connecting ==
  \/ Disconnect \/ AttemptFails \/ StoreCodec \/ Continue \/ Close
  \/ \E c \in {"h264", "other"} : Play(c)

LEMMA BufferHolds == BufferSize \in Nat /\ 0 <= BufferSize
BY PassthroughAssumption

LEMMA Names == \A s \in Subs : s # "free" /\ s # "conn" /\ s # "cull"
BY PassthroughAssumption

LEMMA InitPassthrough == Init => PassthroughInv
<1> SUFFICES ASSUME Init PROVE PassthroughInv
  OBVIOUS
<1>1. TypeOK
  <2>1. queue \in [Subs -> Seq(PTS)] /\ \A s \in Subs : Len(queue[s]) = 0
    BY DEF Init
  <2>2. /\ running \in [Subs -> PTS \union {None}]
        /\ lastPTS \in [Subs -> PTS \union {None}]
    BY DEF Init
  <2>3. /\ caller \in [Subs -> {"idle", "validated", "fir", "returned"}]
        /\ sub \in [Subs -> {"none", "subscribed", "closing", "terminated"}]
    BY DEF Init
  <2>4. \A s \in Subs : Len(queue[s]) <= BufferSize
    BY <2>1, BufferHolds
  <2> QED
    BY <2>1, <2>2, <2>3, <2>4 DEF Init, TypeOK
<1>2. Quiet /\ Fresh
  BY DEF Init, Quiet, Fresh
<1>3. SubsMuHeld
  BY Names DEF Init, SubsMuHeld
<1> QED
  BY <1>1, <1>2, <1>3 DEF PassthroughInv

(* What closing some buffers does to the subscriptions, *)
LEMMA ShutTypes ==
  ASSUME TypeOK, NEW S \in SUBSET Subs, Shut(S)
  PROVE  /\ sub' \in [Subs -> {"none", "subscribed", "closing", "terminated"}]
         /\ queue' \in [Subs -> Seq(PTS)]
         /\ \A s \in Subs : Len(queue'[s]) <= BufferSize
<1>1. sub' \in [Subs -> {"none", "subscribed", "closing", "terminated"}]
  BY DEF TypeOK, Shut
<1>2. queue' = [s \in Subs |-> IF s \in S THEN <<>> ELSE queue[s]]
  BY DEF Shut
<1>3. queue \in [Subs -> Seq(PTS)] /\ <<>> \in Seq(PTS)
  BY DEF TypeOK
<1>4. queue' \in [Subs -> Seq(PTS)]
  BY <1>2, <1>3
<1>5. ASSUME NEW s \in Subs PROVE Len(queue'[s]) <= BufferSize
  <2>1. CASE s \in S
    <3>1. Len(queue'[s]) = 0
      BY <1>2, <2>1
    <3> QED
      BY <3>1, PassthroughAssumption
  <2>2. CASE s \notin S
    <3>1. queue'[s] = queue[s]
      BY <1>2, <2>2
    <3> QED
      BY <3>1 DEF TypeOK
  <2> QED
    BY <2>1, <2>2
<1> QED
  BY <1>1, <1>4, <1>5

LEMMA ShutQuiet ==
  ASSUME Quiet, NEW S \in SUBSET Subscribed, Shut(S)
  PROVE  Quiet'
<1> SUFFICES ASSUME NEW s \in Subs
             PROVE  /\ sub'[s] # "subscribed" => queue'[s] = <<>>
                    /\ sub'[s] \in {"none", "terminated"} => running'[s] = None
  BY DEF Quiet
<1>1. /\ sub'[s] = (IF s \in S THEN "closing" ELSE sub[s])
      /\ queue'[s] = (IF s \in S THEN <<>> ELSE queue[s])
      /\ running' = running
  BY DEF Shut
<1>2. CASE s \in S
  BY <1>1, <1>2
<1>3. CASE s \notin S
  BY <1>1, <1>3 DEF Quiet
<1> QED
  BY <1>2, <1>3

(* and what their end does. *)
LEMMA AllShutTypes ==
  ASSUME TypeOK, AllShut
  PROVE  /\ sub' \in [Subs -> {"none", "subscribed", "closing", "terminated"}]
         /\ lastPTS' \in [Subs -> PTS \union {None}]
BY DEF TypeOK, AllShut

LEMMA AllShutQuiet ==
  ASSUME Quiet, AllShut
  PROVE  Quiet'
<1> SUFFICES ASSUME NEW s \in Subs
             PROVE  /\ sub'[s] # "subscribed" => queue'[s] = <<>>
                    /\ sub'[s] \in {"none", "terminated"} => running'[s] = None
  BY DEF Quiet
<1>1. /\ sub'[s] = (IF sub[s] = "closing" THEN "terminated" ELSE sub[s])
      /\ queue' = queue /\ running' = running
      /\ sub[s] = "closing" => running[s] = None
  BY DEF AllShut
<1>2. CASE sub[s] = "closing"
  BY <1>1, <1>2 DEF Quiet
<1>3. CASE sub[s] # "closing"
  BY <1>1, <1>3 DEF Quiet
<1> QED
  BY <1>2, <1>3

LEMMA ShutCloses ==
  ASSUME \A s \in Subs : sub[s] # "closing", NEW S \in SUBSET Subs, Shut(S)
  PROVE  \A s \in Subs : sub'[s] = "closing" <=> s \in S
BY DEF Shut

LEMMA AllShutLeavesNone ==
  ASSUME AllShut
  PROVE  subsMu' = "free" /\ \A s \in Subs : sub'[s] # "closing"
BY DEF AllShut

(* Free, subsMu has no duties. *)
LEMMA FreeHeld ==
  ASSUME AllShut, conn' \notin {"unsubscribing", "closeUnsubscribing"}
  PROVE  SubsMuHeld'
<1>1. subsMu' = "free" /\ \A s \in Subs : sub'[s] # "closing"
  BY AllShutLeavesNone
<1>2. \A s \in Subs : subsMu' # s
  BY <1>1, Names
<1> QED
  BY <1>1, <1>2 DEF SubsMuHeld

(* Every step keeps the types; a full buffer takes no packet. *)
LEMMA TypeStep ==
  ASSUME TypeOK, SubsMuHeld, [Next]_vars
  PROVE  TypeOK'
<1>1. CASE Connecting
  BY <1>1 DEF Connecting, Disconnect, AttemptFails, StoreCodec, Continue, Close,
            Play, TypeOK, connVars, bufVars
<1>2. CASE \E s \in Subs : Validate(s)
  BY <1>2 DEF Validate, TypeOK, connVars, bufVars
<1>3. CASE \E s \in Subs : Insert(s)
  BY <1>3 DEF Insert, TypeOK, connVars, bufVars
<1>4. CASE \E s \in Subs : RequestKeyFrame(s)
  BY <1>4 DEF RequestKeyFrame, TypeOK, connVars, bufVars
<1>5. CASE \E s \in Subs : Unsubscribe(s)
  <2> SUFFICES ASSUME NEW s \in Subs, Unsubscribe(s) PROVE TypeOK'
    BY <1>5
  <2>1. Shut({s}) /\ {s} \in SUBSET Subs
    BY DEF Unsubscribe
  <2> QED
    BY <2>1, ShutTypes DEF Unsubscribe, Shut, TypeOK, connVars
<1>6. CASE \E s \in Subs : Unsubscribed(s)
  BY <1>6, AllShutTypes DEF Unsubscribed, AllShut, TypeOK, connVars
<1>7. CASE \E p \in PTS : Publish(p)
  <2> PICK p \in PTS : Publish(p)
    BY <1>7
  <2>1. queue' = [s \in Subs |->
                   IF s \in Subscribed /\ Len(queue[s]) < BufferSize
                     THEN Append(queue[s], p) ELSE queue[s]]
    BY DEF Publish
  <2>2. ASSUME NEW s \in Subs
        PROVE  queue'[s] \in Seq(PTS) /\ Len(queue'[s]) <= BufferSize
    <3>1. queue[s] \in Seq(PTS) /\ Len(queue[s]) <= BufferSize
      BY DEF TypeOK
    <3>2. CASE s \in Subscribed /\ Len(queue[s]) < BufferSize
      <4>1. queue'[s] = Append(queue[s], p)
        BY <2>1, <3>2
      <4> QED
        BY <4>1, <3>1, <3>2, PassthroughAssumption
    <3>3. CASE ~(s \in Subscribed /\ Len(queue[s]) < BufferSize)
      BY <2>1, <3>1, <3>3
    <3> QED
      BY <3>2, <3>3
  <2>3. queue' \in [Subs -> Seq(PTS)]
    BY <2>1, <2>2
  <2>4. pts' \in PTS
    BY DEF Publish
  <2> QED
    BY <2>2, <2>3, <2>4 DEF Publish, Subscribed, TypeOK
<1>8. CASE \E s \in Subs : Take(s)
  <2> PICK s \in Subs : Take(s)
    BY <1>8
  <2>1. queue[s] \in Seq(PTS) /\ queue[s] # <<>>
    BY DEF Take, Subscribed, TypeOK, connVars
  <2>2. /\ Head(queue[s]) \in PTS /\ Tail(queue[s]) \in Seq(PTS)
        /\ Len(Tail(queue[s])) <= Len(queue[s])
    BY <2>1
  <2>3. queue' = [queue EXCEPT ![s] = Tail(queue[s])]
    BY DEF Take
  <2>4. queue' \in [Subs -> Seq(PTS)]
    BY <2>2, <2>3 DEF TypeOK
  <2>5. ASSUME NEW t \in Subs PROVE Len(queue'[t]) <= BufferSize
    <3>1. /\ queue \in [Subs -> Seq(PTS)] /\ Len(queue[t]) <= BufferSize
          /\ queue[t] \in Seq(PTS) /\ BufferSize \in Nat
      BY PassthroughAssumption DEF TypeOK
    <3>2. CASE t = s
      <4>1. queue'[t] = Tail(queue[s])
        BY <2>3, <3>1, <3>2
      <4>2. Len(Tail(queue[s])) \in Nat /\ Len(queue[s]) \in Nat
        BY <2>1, <2>2
      <4> QED
        BY <4>1, <4>2, <2>2, <3>1, <3>2
    <3>3. CASE t # s
      BY <2>3, <3>1, <3>3
    <3> QED
      BY <3>2, <3>3
  <2>6. running' \in [Subs -> PTS \union {None}]
    BY <2>2 DEF Take, Subscribed, TypeOK, connVars
  <2> QED
    BY <2>4, <2>5, <2>6 DEF Take, Subscribed, TypeOK, connVars
<1>9. CASE \E s \in Subs : PassOn(s)
  BY <1>9 DEF PassOn, TypeOK, connVars
<1>10. CASE \E s \in Subs : Disable(s)
  <2> PICK s \in Subs : Disable(s)
    BY <1>10
  <2>1. culls' \in Nat
    <3>1. culls' = culls + 1 /\ culls \in Nat
      BY DEF Disable, TypeOK, connVars
    <3> QED
      BY <3>1
  <2>2. enabled' \in BOOLEAN
    BY DEF Disable
  <2>3. running' \in [Subs -> PTS \union {None}]
    BY DEF Disable, TypeOK, connVars
  <2> QED
    BY <2>1, <2>2, <2>3 DEF Disable, TypeOK, connVars
<1>11. CASE Cull
  <2>1. Subscribed \in SUBSET Subs
    BY DEF Subscribed
  <2> QED
    BY <1>11, <2>1, ShutTypes DEF Cull, Shut, Subscribed, TypeOK, connVars
<1>12. CASE Culled
  BY <1>12, AllShutTypes DEF Culled, AllShut, SubsMuHeld, TypeOK, connVars
<1>13. CASE Terminate
  <2>1. Subscribed \in SUBSET Subs
    BY DEF Subscribed
  <2> QED
    BY <1>13, <2>1, ShutTypes DEF Terminate, Shut, Subscribed, TypeOK
<1>14. CASE Terminated
  BY <1>14, AllShutTypes DEF Terminated, AllShut, TypeOK
<1>15. CASE CloseUnsubscribes
  <2>1. Subscribed \in SUBSET Subs
    BY DEF Subscribed
  <2> QED
    BY <1>15, <2>1, ShutTypes
    DEF CloseUnsubscribes, Shut, Subscribed, TypeOK
<1>16. CASE Closed
  BY <1>16, AllShutTypes DEF Closed, AllShut, TypeOK
<1>17. CASE UNCHANGED vars
  BY <1>17 DEF vars, TypeOK, connVars, bufVars
<1> QED
  BY <1>1, <1>2, <1>3, <1>4, <1>5, <1>6, <1>7, <1>8, <1>9,
     <1>10, <1>11, <1>12, <1>13, <1>14, <1>15, <1>16, <1>17
  DEF Next, Subscriber, Callback, Reconnecting, Connecting

(* A buffer is filled only while subscribed, and is closed when its callback
   has ended. *)
LEMMA QuietStep ==
  ASSUME TypeOK, Quiet, [Next]_vars
  PROVE  Quiet'
<1>1. CASE Connecting
  BY <1>1 DEF Connecting, Disconnect, AttemptFails, StoreCodec, Continue, Close,
            Play, TypeOK, Quiet, connVars, bufVars
<1>2. CASE \E s \in Subs : Validate(s)
  BY <1>2 DEF Validate, TypeOK, Quiet, connVars, bufVars
<1>3. CASE \E s \in Subs : Insert(s)
  BY <1>3 DEF Insert, TypeOK, Quiet, connVars, bufVars
<1>4. CASE \E s \in Subs : RequestKeyFrame(s)
  BY <1>4 DEF RequestKeyFrame, TypeOK, Quiet, connVars, bufVars
<1>5. CASE \E s \in Subs : Unsubscribe(s)
  <2> PICK s \in Subs : Unsubscribe(s)
    BY <1>5
  <2>1. Shut({s}) /\ {s} \in SUBSET Subscribed
    BY DEF Unsubscribe, Subscribed
  <2> QED
    BY <2>1, ShutQuiet
<1>6. CASE \E s \in Subs : Unsubscribed(s)
  BY <1>6, AllShutQuiet DEF Unsubscribed
<1>7. CASE \E p \in PTS : Publish(p)
  BY <1>7 DEF Publish, Subscribed, TypeOK, Quiet
<1>8. CASE \E s \in Subs : Take(s)
  BY <1>8 DEF Take, Subscribed, TypeOK, Quiet
<1>9. CASE \E s \in Subs : PassOn(s)
  BY <1>9 DEF PassOn, TypeOK, Quiet, connVars
<1>10. CASE \E s \in Subs : Disable(s)
  BY <1>10 DEF Disable, TypeOK, Quiet, connVars
<1>11. CASE Cull
  BY <1>11, ShutQuiet DEF Cull
<1>12. CASE Culled
  BY <1>12, AllShutQuiet DEF Culled
<1>13. CASE Terminate
  BY <1>13, ShutQuiet DEF Terminate
<1>14. CASE Terminated
  BY <1>14, AllShutQuiet DEF Terminated
<1>15. CASE CloseUnsubscribes
  BY <1>15, ShutQuiet DEF CloseUnsubscribes
<1>16. CASE Closed
  BY <1>16, AllShutQuiet DEF Closed
<1>17. CASE UNCHANGED vars
  BY <1>17 DEF vars, TypeOK, Quiet, connVars, bufVars
<1> QED
  BY <1>1, <1>2, <1>3, <1>4, <1>5, <1>6, <1>7, <1>8, <1>9,
     <1>10, <1>11, <1>12, <1>13, <1>14, <1>15, <1>16, <1>17
  DEF Next, Subscriber, Callback, Reconnecting, Connecting

(* Nobody touches a subscription that SubscribeRTP has not added. *)
LEMMA FreshStep ==
  ASSUME TypeOK, Fresh, [Next]_vars
  PROVE  Fresh'
<1>1. CASE Connecting
  BY <1>1 DEF Connecting, Disconnect, AttemptFails, StoreCodec, Continue, Close,
            Play, TypeOK, Fresh, connVars, bufVars
<1>2. CASE \E s \in Subs : Validate(s)
  BY <1>2 DEF Validate, TypeOK, Fresh, connVars, bufVars
<1>3. CASE \E s \in Subs : Insert(s)
  BY <1>3 DEF Insert, TypeOK, Fresh, connVars, bufVars
<1>4. CASE \E s \in Subs : RequestKeyFrame(s)
  BY <1>4 DEF RequestKeyFrame, TypeOK, Fresh, connVars, bufVars
<1>5. CASE \E s \in Subs : Unsubscribe(s)
  BY <1>5 DEF Unsubscribe, Shut, TypeOK, Fresh, connVars
<1>6. CASE \E s \in Subs : Unsubscribed(s)
  BY <1>6 DEF Unsubscribed, AllShut, TypeOK, Fresh, connVars
<1>7. CASE \E p \in PTS : Publish(p)
  BY <1>7 DEF Publish, Subscribed, TypeOK, Fresh
<1>8. CASE \E s \in Subs : Take(s)
  BY <1>8 DEF Take, Subscribed, TypeOK, Fresh, connVars
<1>9. CASE \E s \in Subs : PassOn(s)
  BY <1>9 DEF PassOn, TypeOK, Fresh, connVars
<1>10. CASE \E s \in Subs : Disable(s)
  BY <1>10 DEF Disable, TypeOK, Fresh, connVars
<1>11. CASE Cull
  BY <1>11 DEF Cull, Shut, Subscribed, TypeOK, Fresh, connVars
<1>12. CASE Culled
  BY <1>12 DEF Culled, AllShut, TypeOK, Fresh, connVars
<1>13. CASE Terminate
  BY <1>13 DEF Terminate, Shut, Subscribed, TypeOK, Fresh
<1>14. CASE Terminated
  BY <1>14 DEF Terminated, AllShut, TypeOK, Fresh
<1>15. CASE CloseUnsubscribes
  BY <1>15 DEF CloseUnsubscribes, Shut, Subscribed, TypeOK, Fresh
<1>16. CASE Closed
  BY <1>16 DEF Closed, AllShut, TypeOK, Fresh
<1>17. CASE UNCHANGED vars
  BY <1>17 DEF vars, TypeOK, Fresh, connVars, bufVars
<1> QED
  BY <1>1, <1>2, <1>3, <1>4, <1>5, <1>6, <1>7, <1>8, <1>9,
     <1>10, <1>11, <1>12, <1>13, <1>14, <1>15, <1>16, <1>17
  DEF Next, Subscriber, Callback, Reconnecting, Connecting

(* subsMu changes hands only when it is free, and is let go when everything
   that was being closed is. *)
LEMMA SubsMuStep ==
  ASSUME TypeOK, Fresh, SubsMuHeld, [Next]_vars
  PROVE  SubsMuHeld'
<1>1. CASE Connecting
  BY <1>1 DEF Connecting, Disconnect, AttemptFails, StoreCodec, Continue, Close,
            Play, TypeOK, Fresh, SubsMuHeld, connVars,
            bufVars
<1>2. CASE \E s \in Subs : Validate(s)
  BY <1>2 DEF Validate, TypeOK, Fresh, SubsMuHeld, connVars,
            bufVars
<1>3. CASE \E s \in Subs : Insert(s)
  BY <1>3 DEF Insert, TypeOK, Fresh, SubsMuHeld, connVars,
            bufVars
<1>4. CASE \E s \in Subs : RequestKeyFrame(s)
  BY <1>4 DEF RequestKeyFrame, TypeOK, Fresh, SubsMuHeld, connVars,
            bufVars
<1>5. CASE \E s \in Subs : Unsubscribe(s)
  <2> PICK s \in Subs : Unsubscribe(s)
    BY <1>5
  <2>1. subsMu = "free" /\ subsMu' = s /\ caller' = caller /\ conn' = conn
    BY DEF Unsubscribe, connVars
  <2>2. caller[s] = "returned" /\ Shut({s})
    BY DEF Unsubscribe
  <2>3. \A t \in Subs : sub'[t] = "closing" <=> t = s
    BY <2>1, <2>2, ShutCloses DEF SubsMuHeld
  <2>4. subsMu' # "conn" /\ subsMu' # "cull" /\ subsMu' # "free"
    BY <2>1, Names
  <2>5. conn' \notin {"unsubscribing", "closeUnsubscribing"}
    BY <2>1 DEF SubsMuHeld
  <2> QED
    BY <2>1, <2>2, <2>3, <2>4, <2>5 DEF SubsMuHeld
<1>6. CASE \E s \in Subs : Unsubscribed(s)
  <2> PICK s \in Subs : Unsubscribed(s)
    BY <1>6
  <2>1. subsMu # "conn" /\ conn' = conn /\ AllShut
    BY Names DEF Unsubscribed, connVars
  <2> QED
    BY <2>1, FreeHeld DEF SubsMuHeld
<1>7. CASE \E p \in PTS : Publish(p)
  BY <1>7 DEF Publish, Subscribed, TypeOK, Fresh, SubsMuHeld
<1>8. CASE \E s \in Subs : Take(s)
  BY <1>8 DEF Take, Subscribed, TypeOK, Fresh, SubsMuHeld, connVars
<1>9. CASE \E s \in Subs : PassOn(s)
  BY <1>9 DEF PassOn, TypeOK, Fresh, SubsMuHeld, connVars
<1>10. CASE \E s \in Subs : Disable(s)
  BY <1>10 DEF Disable, TypeOK, Fresh, SubsMuHeld, connVars
<1>11. CASE Cull
  <2>1. subsMu' = "cull" /\ \A s \in Subs : subsMu' # s
    BY <1>11, Names DEF Cull
  <2>2. /\ culls' > 0
        /\ conn' \notin {"unsubscribing", "closeUnsubscribing"}
    BY <1>11 DEF Cull, Shut, Subscribed, SubsMuHeld, connVars
  <2> QED
    BY <2>1, <2>2 DEF SubsMuHeld
<1>12. CASE Culled
  <2>1. subsMu # "conn" /\ conn' = conn /\ AllShut
    BY <1>12 DEF Culled, connVars
  <2> QED
    BY <2>1, FreeHeld DEF SubsMuHeld
<1>13. CASE Terminate
  <2>1. subsMu' = "conn" /\ \A s \in Subs : subsMu' # s
    BY <1>13, Names DEF Terminate
  <2>2. conn' \in {"unsubscribing", "closeUnsubscribing"}
    BY <1>13 DEF Terminate
  <2> QED
    BY <2>1, <2>2 DEF SubsMuHeld
<1>14. CASE Terminated
  BY <1>14, FreeHeld DEF Terminated
<1>15. CASE CloseUnsubscribes
  <2>1. subsMu' = "conn" /\ \A s \in Subs : subsMu' # s
    BY <1>15, Names DEF CloseUnsubscribes
  <2>2. conn' \in {"unsubscribing", "closeUnsubscribing"}
    BY <1>15 DEF CloseUnsubscribes
  <2> QED
    BY <2>1, <2>2 DEF SubsMuHeld
<1>16. CASE Closed
  BY <1>16, FreeHeld DEF Closed
<1>17. CASE UNCHANGED vars
  BY <1>17 DEF vars, TypeOK, Fresh, SubsMuHeld, connVars,
            bufVars
<1> QED
  BY <1>1, <1>2, <1>3, <1>4, <1>5, <1>6, <1>7, <1>8, <1>9,
     <1>10, <1>11, <1>12, <1>13, <1>14, <1>15, <1>16, <1>17
  DEF Next, Subscriber, Callback, Reconnecting, Connecting

LEMMA NextPassthrough == PassthroughInv /\ [Next]_vars => PassthroughInv'
BY TypeStep, QuietStep, FreshStep, SubsMuStep DEF PassthroughInv

LEMMA PassthroughInvariant == Spec => []PassthroughInv
BY InitPassthrough, NextPassthrough, PTL DEF Spec

(* A subscription that is terminated stays so: reconnections keep what is there
   but bring nothing back, and a new call of SubscribeRTP makes its own. *)
TerminatedForGood ==
  [][\A s \in Subs : sub[s] = "terminated" => sub'[s] = "terminated"]_vars

(* Every variable keeps its type; no buffer holds more than its size, and no
   goroutine ends unsubscribeAll that was not started to run it. *)
THEOREM PassthroughTypeOK == Spec => []TypeOK
<1>1. PassthroughInv => TypeOK
  BY DEF PassthroughInv
<1> QED
  BY <1>1, PassthroughInvariant, PTL

(* Nothing runs for a subscription that is terminated: its buffer is empty and
   its callback has returned before the one who closes it lets go of subsMu. *)
THEOREM PassthroughSilent == Spec => []SilentWhenTerminated
<1>1. PassthroughInv => SilentWhenTerminated
  BY DEF PassthroughInv, Quiet, SilentWhenTerminated
<1> QED
  BY <1>1, PassthroughInvariant, PTL

(* Buffers are closed under subsMu, each by one goroutine: while a call of
   Unsubscribe holds it, its own subscription is being closed and no other. *)
THEOREM PassthroughSubsMu == Spec => []SubsMuHeld
<1>1. PassthroughInv => SubsMuHeld
  BY DEF PassthroughInv
<1> QED
  BY <1>1, PassthroughInvariant, PTL

(* What is terminated is never a subscription again; with PassthroughSilent, its
   callback has run for the last time. *)
THEOREM PassthroughTerminatedForGood == Spec => TerminatedForGood
<1>1. ASSUME TypeOK, Fresh, Next, NEW s \in Subs, sub[s] = "terminated"
      PROVE  sub'[s] = "terminated"
  <2>1. ASSUME NEW t \in Subs, Insert(t) PROVE sub'[s] = "terminated"
    <3>1. t # s
      BY <1>1, <2>1 DEF Insert, Fresh
    <3> QED
      BY <1>1, <2>1, <3>1 DEF Insert, TypeOK
  <2>2. CASE AllShut
    BY <1>1, <2>2 DEF AllShut
  <2>3. ASSUME NEW S \in SUBSET Subscribed, Shut(S)
        PROVE  sub'[s] = "terminated"
    BY <1>1, <2>3 DEF Shut, Subscribed
  <2>4. ASSUME NEW t \in Subs, Unsubscribe(t) PROVE sub'[s] = "terminated"
    <3>1. Shut({t}) /\ {t} \in SUBSET Subscribed
      BY <2>4 DEF Unsubscribe, Subscribed
    <3> QED
      BY <3>1, <2>3
  <2>5. CASE Cull \/ Terminate \/ CloseUnsubscribes
    BY <2>5, <2>3 DEF Cull, Terminate, CloseUnsubscribes
  <2>6. CASE sub' = sub
    BY <1>1, <2>6
  <2> QED
    BY <1>1, <2>1, <2>2, <2>4, <2>5, <2>6
    DEF Next, Subscriber, Validate, RequestKeyFrame, Unsubscribed, Callback,
        Take, PassOn, Disable, Publish, Culled, Disconnect, Reconnecting,
        AttemptFails, StoreCodec, Continue, Terminated, Play, Close, Closed,
        bufVars
<1>2. PassthroughInv /\ [Next]_vars
        => [\A s \in Subs : sub[s] = "terminated" => sub'[s] = "terminated"]_vars
  BY <1>1 DEF PassthroughInv
<1> QED
  BY <1>2, PassthroughInvariant, PTL DEF Spec, TerminatedForGood
=============================================================================
