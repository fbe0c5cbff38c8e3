----------------------------- MODULE VideoStore -----------------------------
(***************************************************************************)
(* The video-store resource (videostore/videostore.go): New, which chooses *)
(* between a store fed by RTP packets, one that polls frames and one that  *)
(* only reads, GetVideo, whose goroutine streams chunks to a reader that   *)
(* may stop reading or cancel, and Close.  Configuration is by then valid. *)
(* What happens between the mux's init and close is the subject of         *)
(* VideoRequest and RawSegmenterMux; the stores are those of the           *)
(* video-store module.  The proofs extend this module together with        *)
(* VideoRequest, so its names differ from those there.                     *)
(***************************************************************************)
EXTENDS Naturals

CONSTANTS
  Requests,   \* calls of GetVideo
  MaxChunks   \* bound on the chunks of a video

ASSUME VideoStoreAssumption == MaxChunks \in Nat

VARIABLES
  svc,        \* where New, the service or Close stands
  open,       \* stores that are open
  vs,         \* the store the service uses
  rsMux,      \* "nil", "idle", "monitoring" or "stopped"
  stopped,    \* workers.Stop has cancelled the workers' context
  worker,     \* worker[r]: what the request's goroutine does
  ch,         \* ch[r]: the request's channel
  sent,       \* sent[r]: number of chunks sent to it
  done,       \* done[r]: the request's own context is done
  merged,     \* merged[r]: mergedCtx is done
  gone        \* gone[r]: the reader does not read any more

svcVars == <<svc, open, vs, rsMux>>
streamVars == <<worker, ch, sent, done, merged, gone>>
serviceVars == <<svcVars, stopped, streamVars>>

Built == {"ready", "stopMux", "closeStore", "stopWorkers", "closed"}
Closing == {"stopMux", "closeStore", "stopWorkers"}
Streaming(r) == worker[r] \in {"fetching", "offering"}

ServiceInit ==
  /\ svc = "new" /\ open = {} /\ vs = "none" /\ rsMux = "nil"
  /\ stopped = FALSE
  /\ worker = [r \in Requests |-> "none"]
  /\ ch = [r \in Requests |-> "none"]
  /\ sent = [r \in Requests |-> 0]
  /\ done = [r \in Requests |-> FALSE]
  /\ merged = [r \in Requests |-> FALSE]
  /\ gone = [r \in Requests |-> FALSE]

----------------------------------------------------------------------------
(* New.  A store that cannot be made, or a camera that is not there, ends it. *)
Fail ==
  /\ svc \in {"new", "poll"}
  /\ svc' = "failed"
  /\ UNCHANGED <<open, vs, rsMux, stopped, streamVars>>

(* Without a camera. *)
NewReadOnly ==
  /\ svc = "new"
  /\ svc' = "ready" /\ open' = {"readonly"} /\ vs' = "readonly"
  /\ UNCHANGED <<rsMux, stopped, streamVars>>

NewRTP ==
  /\ svc = "new"
  /\ svc' = "init" /\ open' = {"rtp"} /\ rsMux' = "idle"
  /\ UNCHANGED <<vs, stopped, streamVars>>

(* mux.init: the camera accepts the request, and the monitor starts ... *)
InitMux ==
  /\ svc = "init"
  /\ svc' = "ready" /\ vs' = "rtp" /\ rsMux' = "monitoring"
  /\ UNCHANGED <<open, stopped, streamVars>>

(* Mutant: the store made for packets is left open. *)
FallBackKeepsStore ==
  /\ svc = "init"
  /\ svc' = "poll"
  /\ UNCHANGED <<open, vs, rsMux, stopped, streamVars>>

(* ... or not, because it is not one of this module or has no such codec. *)
FallBack ==
  /\ svc = "init"
  /\ svc' = "poll" /\ open' = open \ {"rtp"}
  /\ UNCHANGED <<vs, rsMux, stopped, streamVars>>

NewFramePolling ==
  /\ svc = "poll"
  /\ svc' = "ready" /\ open' = open \union {"frame"} /\ vs' = "frame"
  /\ UNCHANGED <<rsMux, stopped, streamVars>>

----------------------------------------------------------------------------
(* Close: rsMux.close waits for the monitor, if there is one, ... *)
BeginClose ==
  /\ svc = "ready"
  /\ svc' = "stopMux"
  /\ UNCHANGED <<open, vs, rsMux, stopped, streamVars>>

StopMux ==
  /\ svc = "stopMux"
  /\ svc' = "closeStore"
  /\ rsMux' = IF rsMux = "nil" THEN "nil" ELSE "stopped"
  /\ UNCHANGED <<open, vs, stopped, streamVars>>

(* ... vs.Close does not know of the streams that are still fetched from the
   store, ... *)
ReleaseStore ==
  /\ svc = "closeStore"
  /\ svc' = "stopWorkers" /\ open' = open \ {vs}
  /\ UNCHANGED <<vs, rsMux, stopped, streamVars>>

(* ... workers.Stop cancels their goroutines ... *)
CancelWorkers ==
  /\ svc = "stopWorkers" /\ ~stopped
  /\ stopped' = TRUE
  /\ merged' = [r \in Requests |-> merged[r] \/ Streaming(r)]
  /\ UNCHANGED <<svcVars, worker, ch, sent, done, gone>>

(* ... and waits for them. *)
Closed ==
  /\ svc = "stopWorkers" /\ stopped
  /\ \A r \in Requests : ~Streaming(r)
  /\ svc' = "closed"
  /\ UNCHANGED <<open, vs, rsMux, stopped, streamVars>>

----------------------------------------------------------------------------
(* GetVideo returns a channel.  A stopped StoppableWorkers does not start the
   goroutine, and nobody will ever close the channel. *)
GetVideo(r) ==
  /\ svc \in Built
  /\ ch[r] = "none"
  /\ ch' = [ch EXCEPT ![r] = "open"]
  /\ worker' = [worker EXCEPT ![r] = IF stopped THEN "none" ELSE "fetching"]
  /\ UNCHANGED <<svcVars, stopped, sent, done, merged, gone>>

(* The goroutine returns: its deferred calls end mergedCtx and close ch. *)
Return(r) ==
  /\ worker' = [worker EXCEPT ![r] = "ended"]
  /\ ch' = [ch EXCEPT ![r] = "closed"]
  /\ merged' = [merged EXCEPT ![r] = TRUE]
  /\ UNCHANGED <<svcVars, stopped, sent, done, gone>>

(* FetchStream comes to its end, or fails, for instance because the store is
   closed. *)
FetchEnds(r) == worker[r] = "fetching" /\ Return(r)

(* emit looks for cancellation first ... *)
Offer(r) ==
  /\ worker[r] = "fetching"
  /\ ~merged[r]
  /\ sent[r] < MaxChunks
  /\ worker' = [worker EXCEPT ![r] = "offering"]
  /\ UNCHANGED <<svcVars, stopped, ch, sent, done, merged, gone>>

Refuse(r) == worker[r] = "fetching" /\ merged[r] /\ Return(r)

(* ... and then waits for the reader ... *)
Send(r) ==
  /\ worker[r] = "offering"
  /\ ~gone[r]
  /\ sent' = [sent EXCEPT ![r] = @ + 1]
  /\ worker' = [worker EXCEPT ![r] = "fetching"]
  /\ UNCHANGED <<svcVars, stopped, ch, done, merged, gone>>

(* Mutant: only before it waits does emit look at the context. *)
NeverWithdraw(r) == FALSE

(* ... or for cancellation, which FetchStream returns to its caller. *)
Withdraw(r) == worker[r] = "offering" /\ merged[r] /\ Return(r)

(* The caller of GetVideo. *)
StopReading(r) ==
  /\ ch[r] = "open" /\ ~gone[r]
  /\ gone' = [gone EXCEPT ![r] = TRUE]
  /\ UNCHANGED <<svcVars, stopped, worker, ch, sent, done, merged>>

Cancel(r) ==
  /\ ch[r] # "none" /\ ~done[r]
  /\ done' = [done EXCEPT ![r] = TRUE]
  /\ UNCHANGED <<svcVars, stopped, worker, ch, sent, merged, gone>>

(* context.AfterFunc runs in a goroutine of its own, some time later. *)
AfterFunc(r) ==
  /\ done[r] /\ Streaming(r) /\ ~merged[r]
  /\ merged' = [merged EXCEPT ![r] = TRUE]
  /\ UNCHANGED <<svcVars, stopped, worker, ch, sent, done, gone>>

----------------------------------------------------------------------------
New == NewReadOnly \/ NewRTP \/ InitMux \/ FallBack \/ NewFramePolling \/ Fail
Close == StopMux \/ ReleaseStore \/ CancelWorkers \/ Closed
Stream(r) == FetchEnds(r) \/ Offer(r) \/ Refuse(r) \/ Send(r) \/ Withdraw(r)

ServiceNext ==
  \/ New \/ BeginClose \/ Close
  \/ \E r \in Requests :
       GetVideo(r) \/ Stream(r) \/ StopReading(r) \/ Cancel(r) \/ AfterFunc(r)

(* Goroutines are scheduled, stores answer, and readers read until they stop. *)
Fairness ==
  /\ WF_serviceVars(New) /\ WF_serviceVars(Close)
  /\ \A r \in Requests :
       WF_serviceVars(Stream(r)) /\ WF_serviceVars(AfterFunc(r))

ServiceSpec == ServiceInit /\ [][ServiceNext]_serviceVars /\ Fairness

----------------------------------------------------------------------------
(* Properties. *)

(* Nothing is left behind by a New that failed or fell back to polling, nor by
   Close: two stores are never open at once, for they would share the storage
   path, none is when the service is gone, and as long as the mux may be asked
   to write to the store it was made for, that store is open. *)
StoresAreReleased ==
  /\ \A s, t \in open : s = t
  /\ svc \in {"failed", "closed"} => open = {} /\ rsMux # "monitoring"
  /\ rsMux = "monitoring" => vs = "rtp" /\ "rtp" \in open

(* A stream whose goroutine was started ends, and its channel is closed: when
   its reader keeps reading, and even if the reader is gone when the caller's
   context or the service ends.  Close returns whatever the readers do. *)
StreamsEnd ==
  /\ \A r \in Requests :
       /\ Streaming(r) ~> ch[r] = "closed" \/ gone[r]
       /\ Streaming(r) /\ (done[r] \/ svc \in Closing) ~> ch[r] = "closed"
  /\ svc \in Closing ~> svc = "closed"
=============================================================================
