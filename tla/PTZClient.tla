------------------------------ MODULE PTZClient ------------------------------
(***************************************************************************)
(* The PTZ client (ptzclient/client.go): commands that callers give at     *)
(* once, one request to the device each, and Close, which stops the device *)
(* and then cancels what is under way.  No lock orders them, a caller's    *)
(* own context is not looked at, and requests have connections of their    *)
(* own, so that they may overtake each other.  What is asked of the device *)
(* is which axes move, and whether the motion ends by itself.              *)
(***************************************************************************)
EXTENDS Naturals, FiniteSets

CONSTANT Calls   \* calls of DoCommand

Axes == {"pan_tilt", "zoom"}

(* What requests do: a timeout ends a continuous move, which by default is ten
   seconds and may be anything; relative and absolute moves end at their
   position. *)
Queries == {[op |-> "query"]}
Stops == [op : {"stop"}, axes : SUBSET Axes]
Moves ==
  [op : {"continuous"}, axes : SUBSET Axes, ends : BOOLEAN]
    \union [op : {"position"}, axes : SUBSET Axes, ends : {TRUE}]

Close == "close"                 \* who sent the Stop of Close
Still == [by |-> Close, ends |-> TRUE]

VARIABLES
  profileToken,  \* a profile token is configured
  answers,       \* the device answers
  closing,       \* "open", "stopping", "cancelling" or "closed"
  cancelled,     \* cancelFunc was called
  call,          \* call[c]: "idle", "waiting" or "returned"
  requests,      \* requests on their way to the device
  moving,        \* moving[axis]: the move that it carries out, or Still
  stopRefused,   \* the device answered the Stop of Close with an error
  earlier        \* calls that had returned when Close was called

client == <<closing, cancelled, call>>
constant == <<profileToken, answers>>
device == <<moving, stopRefused>>
vars == <<constant, client, requests, device, earlier>>

Init ==
  /\ profileToken \in BOOLEAN /\ answers \in BOOLEAN
  /\ closing = "open" /\ cancelled = FALSE
  /\ call = [c \in Calls |-> "idle"]
  /\ requests = {}
  /\ moving = [a \in Axes |-> Still]
  /\ stopRefused = FALSE
  /\ earlier = {}

----------------------------------------------------------------------------
(* handleGetProfiles and handleGetServiceCapabilities need no token. *)
Asks(c, request) ==
  /\ profileToken \/ request.op = "query"
  /\ ~cancelled
  /\ requests' = requests \union {[by |-> c, what |-> request]}

(* DoCommand: a request is sent ... *)
Command(c) ==
  /\ call[c] = "idle"
  /\ \E request \in Queries \union Stops \union Moves : Asks(c, request)
  /\ call' = [call EXCEPT ![c] = "waiting"]
  /\ UNCHANGED <<constant, closing, cancelled, device, earlier>>

(* ... unless there is no token, an argument is missing or out of range, or
   the client is closed. *)
Refused(c) ==
  /\ call[c] = "idle"
  /\ call' = [call EXCEPT ![c] = "returned"]
  /\ UNCHANGED <<constant, closing, cancelled, requests, device, earlier>>

(* Requests end with cancelCtx, the device may get them all the same. *)
Interrupted(c) ==
  /\ call[c] = "waiting" /\ cancelled
  /\ call' = [call EXCEPT ![c] = "returned"]
  /\ \/ requests' = {r \in requests : r.by # c}
     \/ UNCHANGED requests
  /\ UNCHANGED <<constant, closing, cancelled, device, earlier>>

(* Mutant: Close cancels before it stops the device. *)
BeginCloseCancelled ==
  /\ closing = "open"
  /\ closing' = "cancelling"
  /\ earlier' = {c \in Calls : call[c] = "returned"}
  /\ UNCHANGED <<constant, cancelled, call, requests, device>>

(* Close: handleStop for both axes.  Its request has no deadline either, and
   cancelCtx is not done before it has returned. *)
BeginClose ==
  /\ closing = "open"
  /\ \/ /\ Asks(Close, [op |-> "stop", axes |-> Axes])
        /\ closing' = "stopping"
     \/ /\ ~profileToken
        /\ closing' = "cancelling"
        /\ UNCHANGED requests
  /\ earlier' = {c \in Calls : call[c] = "returned"}
  /\ UNCHANGED <<constant, cancelled, call, device>>

Closed ==
  /\ closing = "cancelling"
  /\ cancelled' = TRUE /\ closing' = "closed"
  /\ UNCHANGED <<constant, call, requests, device, earlier>>

----------------------------------------------------------------------------
(* What an axis does after a request: a continuous move has speeds for all
   axes, those of the others are zero. *)
After(r, a) ==
  CASE r.what.op = "query" -> moving[a]
    [] r.what.op = "stop" -> IF a \in r.what.axes THEN Still ELSE moving[a]
    [] a \in r.what.axes -> [by |-> r.by, ends |-> r.what.ends]
    [] OTHER -> IF r.what.op = "continuous" THEN Still ELSE moving[a]

Answer(r) ==
  /\ answers
  /\ requests' = requests \ {r}
  /\ IF r.by = Close
     THEN closing' = "cancelling" /\ UNCHANGED call
     ELSE call' = [call EXCEPT ![r.by] = "returned"] /\ UNCHANGED closing
  /\ UNCHANGED <<constant, cancelled, earlier>>

(* The device carries a request out, or refuses it: callers get the error, and
   Close goes on without its Stop. *)
Deliver(r) ==
  /\ Answer(r)
  /\ moving' = [a \in Axes |-> After(r, a)]
  /\ UNCHANGED stopRefused

Decline(r) ==
  /\ Answer(r)
  /\ stopRefused' = (stopRefused \/ r.by = Close)
  /\ UNCHANGED moving

(* A timeout passes or a position is reached. *)
ComeToRest(a) ==
  /\ moving[a].ends
  /\ moving' = [moving EXCEPT ![a] = Still]
  /\ UNCHANGED <<constant, client, requests, stopRefused, earlier>>

----------------------------------------------------------------------------
Next ==
  \/ BeginClose \/ Closed
  \/ \E c \in Calls : Command(c) \/ Refused(c) \/ Interrupted(c)
  \/ \E r \in requests : Deliver(r) \/ Decline(r)
  \/ \E a \in Axes : ComeToRest(a)

(* A device that answers does so in the end, whatever else it is asked. *)
Fairness ==
  /\ WF_vars(Closed)
  /\ \A c \in Calls : WF_vars(Interrupted(c))
  /\ \A who \in Calls \union {Close} :
       WF_vars(\E r \in requests : r.by = who /\ (Deliver(r) \/ Decline(r)))
  /\ \A a \in Axes : WF_vars(ComeToRest(a))

Spec == Init /\ [][Next]_vars /\ Fairness

----------------------------------------------------------------------------
(* Properties. *)

(* Close of a client whose device answers returns, and leaves the device at
   rest unless that refused to stop, however many commands are under way: all
   that may still move is what a call started that had not returned when Close
   was called, and asked to move without a timeout of its own. *)
StopsInTheEnd ==
  /\ answers => (closing = "stopping" ~> closing = "closed")
  /\ answers => <>[](closing = "closed" /\ ~stopRefused =>
                      \A a \in Axes : moving[a] = Still
                                        \/ (~moving[a].ends
                                            /\ moving[a].by \notin earlier))
=============================================================================
