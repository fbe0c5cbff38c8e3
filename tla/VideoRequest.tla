---------------------------- MODULE VideoRequest ----------------------------
(***************************************************************************)
(* How a video-store's mux is registered with a camera, started, stopped   *)
(* and registered again: videorequest.go, the camera registry, the parts   *)
(* of rtspCamera that use them and the mux's registrationMonitor.          *)
(*                                                                         *)
(* The actors are, for every camera, the goroutine that connects and       *)
(* closes it and its receive goroutine, and for every mux the goroutine    *)
(* that builds the video-store and then runs the monitor.  A camera is     *)
(* always rebuilt when its configuration changes: the old instance is      *)
(* closed, then another is made under the same name.                       *)
(***************************************************************************)
EXTENDS Naturals

CONSTANTS
  Cams,    \* camera instances, all configured with one name
  Muxes,   \* muxes of the video-stores that ask for that name
  None     \* no camera, no mux

ASSUME VideoAssumption == None \notin Cams \union Muxes

VARIABLES
  registry,      \* the camera registered under the name, or None
  life,          \* life[k]: where the instance stands between its
                 \* construction and the end of Close
  link,          \* link[k]: what connects or closes the connection is doing
  stream,        \* stream[k]: codec of the receive goroutine, or "none";
                 \* "h264" stands for both codecs a video-store accepts
  currentCodec,  \* currentCodec[k]: what RequestVideo looks at
  vrMux,         \* vrMux[k]: videoRequest.mux
  vrStarted,     \* vrStarted[k]: videoRequest.started
  pc,            \* pc[m]: where the mux's goroutine stands
  target,        \* target[m]: the camera Get returned
  cam,           \* cam[m]: rawSegmenterMux.cam
  regDone,       \* regDone[m]: the request's context: "nil", "open" or "done"
  registered,    \* registered[m]: the monitor's variable; FALSE before init
  stopping,      \* stopping[m]: the video-store is being closed
  running        \* running[m]: Start has succeeded since the last Stop

camVars == <<registry, life, link, stream, currentCodec>>
requestVars == <<vrMux, vrStarted>>
muxVars == <<pc, target, cam, regDone, registered, stopping>>
vars == <<camVars, requestVars, muxVars, running>>

Init ==
  /\ registry = None
  /\ life = [k \in Cams |-> "unborn"]
  /\ link = [k \in Cams |-> "down"]
  /\ stream = [k \in Cams |-> "none"]
  /\ currentCodec = [k \in Cams |-> "none"]
  /\ vrMux = [k \in Cams |-> None]
  /\ vrStarted = [k \in Cams |-> FALSE]
  /\ pc = [m \in Muxes |-> "new"]
  /\ target = [m \in Muxes |-> None]
  /\ cam = [m \in Muxes |-> None]
  /\ regDone = [m \in Muxes |-> "nil"]
  /\ registered = [m \in Muxes |-> FALSE]
  /\ stopping = [m \in Muxes |-> FALSE]
  /\ running = [m \in Muxes |-> FALSE]

----------------------------------------------------------------------------
(* NewRTSPCamera registers the camera before it connects it.  The robot
   closes an instance before it makes the next. *)
AddCamera(k) ==
  /\ life[k] = "unborn"
  /\ \A j \in Cams : life[j] \in {"unborn", "closed"}
  /\ registry = None
  /\ registry' = k
  /\ life' = [life EXCEPT ![k] = "connecting"]
  /\ UNCHANGED <<link, stream, currentCodec, requestVars, muxVars, running>>

(* When no transport connects, construction fails and the registration is
   undone. *)
ConstructionFails(k) ==
  /\ life[k] = "connecting"
  /\ link[k] = "down"
  /\ registry' = None
  /\ life' = [life EXCEPT ![k] = "closed"]
  /\ UNCHANGED <<link, stream, currentCodec, requestVars, muxVars, running>>

(* reconnectClient, for the constructor, then for the reconnection worker,
   which may still be at it after Close has taken the camera off the registry:
   packets arrive once Play is under way ... *)
Play(k) ==
  /\ life[k] \in {"connecting", "open", "removed"}
  /\ link[k] = "down"
  /\ \E c \in {"h264", "mjpeg"} : stream' = [stream EXCEPT ![k] = c]
  /\ link' = [link EXCEPT ![k] = "playing"]
  /\ UNCHANGED <<registry, life, currentCodec, requestVars, muxVars, running>>

(* ... and the current codec is stored when it has succeeded. *)
StoreCodec(k) ==
  /\ link[k] = "playing"
  /\ currentCodec' = [currentCodec EXCEPT ![k] = stream[k]]
  /\ link' = [link EXCEPT ![k] = "up"]
  /\ life' = [life EXCEPT ![k] = IF @ = "connecting" THEN "open" ELSE @]
  /\ UNCHANGED <<registry, stream, requestVars, muxVars, running>>

(* closeConnection closes the client, which waits for the receive goroutine,
   and forgets the codec ... *)
Disconnect(k) ==
  /\ life[k] \in {"connecting", "open", "removed", "closing"}
  /\ link[k] # "stopping"
  /\ stream' = [stream EXCEPT ![k] = "none"]
  /\ currentCodec' = [currentCodec EXCEPT ![k] = "none"]
  /\ link' = [link EXCEPT ![k] = "stopping"]
  /\ UNCHANGED <<registry, life, requestVars, muxVars, running>>

(* Mutant: started survives the connection. *)
StopRequestKeepsStarted(k) ==
  /\ link[k] = "stopping"
  /\ link' = [link EXCEPT ![k] = "down"]
  /\ life' = [life EXCEPT ![k] = IF @ = "closing" THEN "clearing" ELSE @]
  /\ running' = [m \in Muxes |-> running[m] /\ m # vrMux[k]]
  /\ UNCHANGED <<registry, stream, currentCodec, requestVars, muxVars>>

(* ... then stops the mux (videoRequest.stop).  When Close did this, it goes
   on to clear the request. *)
StopRequest(k) ==
  /\ link[k] = "stopping"
  /\ link' = [link EXCEPT ![k] = "down"]
  /\ life' = [life EXCEPT ![k] = IF @ = "closing" THEN "clearing" ELSE @]
  /\ running' = [m \in Muxes |-> running[m] /\ m # vrMux[k]]
  /\ vrStarted' = [vrStarted EXCEPT ![k] = FALSE]
  /\ UNCHANGED <<registry, stream, currentCodec, vrMux, muxVars>>

(* Close takes the camera off the registry ... *)
RemoveCamera(k) ==
  /\ life[k] = "open"
  /\ registry' = None
  /\ life' = [life EXCEPT ![k] = "removed"]
  /\ UNCHANGED <<link, stream, currentCodec, requestVars, muxVars, running>>

(* ... and waits for the worker, so that no connection is half made when it
   goes on. *)
WorkerExits(k) ==
  /\ life[k] = "removed"
  /\ link[k] \in {"down", "up"}
  /\ life' = [life EXCEPT ![k] = "closing"]
  /\ UNCHANGED <<registry, link, stream, currentCodec, requestVars, muxVars,
                 running>>

(* The context of the request k holds is cancelled. *)
Cancelled(k) == [m \in Muxes |-> IF m = vrMux[k] THEN "done" ELSE regDone[m]]

(* Mutant: clear() does not cancel the request's context. *)
ClearRequestSilently(k) ==
  /\ life[k] = "clearing"
  /\ running' = [m \in Muxes |-> running[m] /\ m # vrMux[k]]
  /\ vrMux' = [vrMux EXCEPT ![k] = None]
  /\ vrStarted' = [vrStarted EXCEPT ![k] = FALSE]
  /\ life' = [life EXCEPT ![k] = "closed"]
  /\ UNCHANGED <<registry, link, stream, currentCodec, muxVars>>

(* videoRequest.clear, the end of Close. *)
ClearRequest(k) ==
  /\ life[k] = "clearing"
  /\ running' = [m \in Muxes |-> running[m] /\ m # vrMux[k]]
  /\ regDone' = Cancelled(k)
  /\ vrMux' = [vrMux EXCEPT ![k] = None]
  /\ vrStarted' = [vrStarted EXCEPT ![k] = FALSE]
  /\ life' = [life EXCEPT ![k] = "closed"]
  /\ UNCHANGED <<registry, link, stream, currentCodec, pc, target, cam,
                 registered, stopping>>

(* videoRequest.write, from the receive goroutine: the mux is started before
   its first packet; Start fails on a mux that was not stopped. *)
Write(k) ==
  /\ stream[k] = "h264"
  /\ vrMux[k] # None
  /\ ~vrStarted[k]
  /\ ~running[vrMux[k]]
  /\ running' = [running EXCEPT ![vrMux[k]] = TRUE]
  /\ vrStarted' = [vrStarted EXCEPT ![k] = TRUE]
  /\ UNCHANGED <<camVars, vrMux, muxVars>>

----------------------------------------------------------------------------
(* init, or the monitor's timer when it is not registered: Get the camera.
   init gives up on any failure and the video-store polls frames instead;
   the monitor tries again at the next tick. *)
MayRequest(m) ==
  \/ pc[m] = "new"
  \/ pc[m] = "loop" /\ ~stopping[m] /\ ~registered[m]

GiveUp(m) == pc' = [pc EXCEPT ![m] = IF cam[m] = None THEN "failed" ELSE "loop"]

(* Mutant: a camera that is not there is not noticed. *)
GetUnchecked(m) ==
  /\ MayRequest(m)
  /\ target' = [target EXCEPT ![m] = registry]
  /\ pc' = [pc EXCEPT ![m] = "got"]
  /\ UNCHANGED <<camVars, requestVars, cam, regDone, registered, stopping,
                 running>>

Get(m) ==
  /\ MayRequest(m)
  /\ registry # None
  /\ target' = [target EXCEPT ![m] = registry]
  /\ pc' = [pc EXCEPT ![m] = "got"]
  /\ UNCHANGED <<camVars, requestVars, cam, regDone, registered, stopping,
                 running>>

GetFails(m) ==
  /\ MayRequest(m)
  /\ registry = None
  /\ GiveUp(m)
  /\ UNCHANGED <<camVars, requestVars, target, cam, regDone, registered,
                 stopping, running>>

(* RequestVideo looks at the codec before it takes videoRequest.mu ... *)
CheckCodec(m) ==
  /\ pc[m] = "got"
  /\ currentCodec[target[m]] = "h264"
  /\ pc' = [pc EXCEPT ![m] = "checked"]
  /\ UNCHANGED <<camVars, requestVars, target, cam, regDone, registered,
                 stopping, running>>

Unsupported(m) ==
  /\ pc[m] = "got"
  /\ currentCodec[target[m]] # "h264"
  /\ GiveUp(m)
  /\ UNCHANGED <<camVars, requestVars, target, cam, regDone, registered,
                 stopping, running>>

Busy(m) ==
  /\ pc[m] = "checked"
  /\ vrMux[target[m]] # None
  /\ GiveUp(m)
  /\ UNCHANGED <<camVars, requestVars, target, cam, regDone, registered,
                 stopping, running>>

(* Mutant: newRequest without the test for a mux that is already there. *)
NewRequestReplaces(m) ==
  /\ pc[m] = "checked"
  /\ vrMux' = [vrMux EXCEPT ![target[m]] = m]
  /\ vrStarted' = [vrStarted EXCEPT ![target[m]] = FALSE]
  /\ cam' = [cam EXCEPT ![m] = target[m]]
  /\ regDone' = [regDone EXCEPT ![m] = "open"]
  /\ registered' = [registered EXCEPT ![m] = TRUE]
  /\ pc' = [pc EXCEPT ![m] = "loop"]
  /\ UNCHANGED <<camVars, target, stopping, running>>

(* ... and newRequest registers the mux. *)
NewRequest(m) ==
  /\ pc[m] = "checked"
  /\ vrMux[target[m]] = None
  /\ vrMux' = [vrMux EXCEPT ![target[m]] = m]
  /\ vrStarted' = [vrStarted EXCEPT ![target[m]] = FALSE]
  /\ cam' = [cam EXCEPT ![m] = target[m]]
  /\ regDone' = [regDone EXCEPT ![m] = "open"]
  /\ registered' = [registered EXCEPT ![m] = TRUE]
  /\ pc' = [pc EXCEPT ![m] = "loop"]
  /\ UNCHANGED <<camVars, target, stopping, running>>

(* The monitor notices that the camera has cancelled the request. *)
NoticeCancelled(m) ==
  /\ pc[m] = "loop"
  /\ ~stopping[m]
  /\ regDone[m] = "done"
  /\ registered' = [registered EXCEPT ![m] = FALSE]
  /\ regDone' = [regDone EXCEPT ![m] = "nil"]
  /\ UNCHANGED <<camVars, requestVars, pc, target, cam, stopping, running>>

(* The video-store is closed: the monitor's context is cancelled ... *)
CloseStore(m) ==
  /\ cam[m] # None
  /\ ~stopping[m]
  /\ stopping' = [stopping EXCEPT ![m] = TRUE]
  /\ UNCHANGED <<camVars, requestVars, pc, target, cam, regDone, registered,
                 running>>

(* ... its cleanup stops the mux ... *)
CleanupStop(m) ==
  /\ pc[m] = "loop"
  /\ stopping[m]
  /\ running' = [running EXCEPT ![m] = FALSE]
  /\ pc' = [pc EXCEPT ![m] = "cancel"]
  /\ UNCHANGED <<camVars, requestVars, target, cam, regDone, registered,
                 stopping>>

(* ... and cancels the request, unless the camera has let go of it. *)
CleanupCancel(m) ==
  /\ pc[m] = "cancel"
  /\ IF vrMux[cam[m]] = m
       THEN /\ regDone' = Cancelled(cam[m])
            /\ vrMux' = [vrMux EXCEPT ![cam[m]] = None]
            /\ vrStarted' = [vrStarted EXCEPT ![cam[m]] = FALSE]
       ELSE UNCHANGED <<regDone, vrMux, vrStarted>>
  /\ pc' = [pc EXCEPT ![m] = "done"]
  /\ UNCHANGED <<camVars, target, cam, registered, stopping, running>>

(* Nothing is left to do. *)
Finished ==
  /\ \A k \in Cams : life[k] = "closed"
  /\ \A m \in Muxes : pc[m] \in {"failed", "done"}
  /\ UNCHANGED vars

Camera(k) ==
  \/ AddCamera(k) \/ ConstructionFails(k) \/ Play(k) \/ StoreCodec(k)
  \/ Disconnect(k) \/ StopRequest(k) \/ RemoveCamera(k) \/ WorkerExits(k)
  \/ ClearRequest(k) \/ Write(k)

Monitor(m) ==
  \/ Get(m) \/ GetFails(m) \/ CheckCodec(m) \/ Unsupported(m) \/ Busy(m)
  \/ NewRequest(m) \/ NoticeCancelled(m) \/ CleanupStop(m) \/ CleanupCancel(m)

Next ==
  \/ \E k \in Cams : Camera(k)
  \/ \E m \in Muxes : Monitor(m) \/ CloseStore(m)
  \/ Finished

(* The monitor's loop runs for as long as it is not stopped. *)
Spec == Init /\ [][Next]_vars /\ \A m \in Muxes : WF_vars(Monitor(m))

----------------------------------------------------------------------------
TypeOK ==
  /\ registry \in Cams \union {None}
  /\ life \in [Cams -> {"unborn", "connecting", "open", "removed", "closing",
                       "clearing", "closed"}]
  /\ link \in [Cams -> {"down", "playing", "up", "stopping"}]
  /\ stream \in [Cams -> {"none", "h264", "mjpeg"}]
  /\ currentCodec \in [Cams -> {"none", "h264", "mjpeg"}]
  /\ vrMux \in [Cams -> Muxes \union {None}]
  /\ vrStarted \in [Cams -> BOOLEAN]
  /\ pc \in [Muxes -> {"new", "got", "checked", "loop", "cancel", "done",
                      "failed"}]
  /\ target \in [Muxes -> Cams \union {None}]
  /\ cam \in [Muxes -> Cams \union {None}]
  /\ regDone \in [Muxes -> {"nil", "open", "done"}]
  /\ registered \in [Muxes -> BOOLEAN]
  /\ stopping \in [Muxes -> BOOLEAN]
  /\ running \in [Muxes -> BOOLEAN]
  /\ \A m \in Muxes :
       /\ pc[m] \in {"got", "checked"} => target[m] # None
       /\ pc[m] \in {"cancel", "done"} => cam[m] # None

(* m's monitor believes that a camera holds its request. *)
Watching(m) == registered[m] /\ regDone[m] = "open" /\ pc[m] # "done"

(* The camera's videoRequest and the monitor's variables, which no lock
   guards together, agree: a camera holds the request of a mux exactly when
   that mux's monitor is waiting on the request's context and remembers this
   camera.  A mux is therefore held by one camera at most, a request that a
   camera dropped is always noticed, and a video-store that was closed leaves
   no request behind that would keep the camera busy for ever. *)
RequestIsWatched ==
  /\ \A k \in Cams, m \in Muxes : vrMux[k] = m => Watching(m) /\ cam[m] = k
  /\ \A m \in Muxes : Watching(m) => vrMux[cam[m]] = m

(* videoRequest.started and the state of the mux itself change under
   different locks, in reconnections, in Close, in requests and in packets.
   They agree until the video-store is closed: otherwise Start would be
   refused for ever, or packets written to a mux that was never started. *)
StartedTogether ==
  \A m \in Muxes : pc[m] \notin {"cancel", "done"} =>
    (running[m] <=> \E k \in Cams : vrMux[k] = m /\ vrStarted[k])

(* A camera that delivers a codec the video-stores accept, is in the registry
   and is held by no other mux. *)
Available(k, m) ==
  /\ registry = k
  /\ life[k] = "open"
  /\ currentCodec[k] = "h264"
  /\ vrMux[k] \in {None, m}

(* The request of m was granted by a camera that was then already closed:
   RequestVideo reads the codec before it takes videoRequest.mu, and Close may
   run in between.  Nobody will cancel it. *)
Stranded(m) ==
  /\ Watching(m)
  /\ life[cam[m]] = "closed"
  /\ vrMux[cam[m]] = m

(* Whatever reconnections, removals and rebuilt cameras came before, a monitor
   that finds a camera available from some time on registers with it, unless it
   is stranded. *)
ReRegisters ==
  \A m \in Muxes, k \in Cams :
    <>[](cam[m] # None /\ ~stopping[m] /\ Available(k, m))
      => <>(vrMux[k] = m \/ Stranded(m))
=============================================================================
