------------------------ MODULE VideoRequest_proofs ------------------------
(***************************************************************************)
(* Proofs about the two sides of a video-store: how its mux gets a camera's *)
(* video (VideoRequest), for any number of camera instances and of          *)
(* video-stores, and what its service keeps open (VideoStore, at the end),  *)
(* for any set of requests.                                                 *)
(***************************************************************************)
EXTENDS VideoRequest, VideoStore, TLAPS

(* A mux whose goroutine may ask for video is not registered, and the monitor
   runs only for a mux that was granted a request once. *)
Asking ==
  \A m \in Muxes :
    /\ pc[m] \in {"new", "got", "checked", "failed"} => ~registered[m]
    /\ pc[m] = "loop" => cam[m] # None

VideoInv == TypeOK /\ Asking /\ RequestIsWatched /\ StartedTogether

LEMMA InitVideo == Init => VideoInv
<1> SUFFICES ASSUME Init PROVE VideoInv
  OBVIOUS
<1>1. TypeOK
  BY DEF Init, TypeOK
<1>2. Asking
  BY DEF Init, Asking
<1>3. RequestIsWatched
  BY VideoAssumption DEF Init, RequestIsWatched, Watching
<1>4. StartedTogether
  BY DEF Init, StartedTogether
<1> QED
  BY <1>1, <1>2, <1>3, <1>4 DEF VideoInv

(* A mux is held by one camera at most. *)
LEMMA HeldOnce ==
  ASSUME VideoInv, NEW j \in Cams, NEW k \in Cams, NEW m \in Muxes,
         vrMux[j] = m, vrMux[k] = m
  PROVE  j = k
BY DEF VideoInv, RequestIsWatched

----------------------------------------------------------------------------
(* Steps of cameras. *)

(* What concerns neither requests nor monitors: the connection and the codec. *)
LEMMA LinkVideo ==
  ASSUME VideoInv, TypeOK', UNCHANGED <<requestVars, muxVars, running>>
  PROVE  VideoInv'
BY DEF VideoInv, Asking, RequestIsWatched, Watching, StartedTogether,
       requestVars, muxVars

LEMMA ConnectionTypeOK ==
  ASSUME TypeOK, NEW k \in Cams,
         \/ AddCamera(k) \/ ConstructionFails(k) \/ Play(k) \/ StoreCodec(k)
         \/ Disconnect(k) \/ RemoveCamera(k) \/ WorkerExits(k)
  PROVE  TypeOK' /\ UNCHANGED <<requestVars, muxVars, running>>
<1>1. CASE AddCamera(k)
  BY <1>1 DEF AddCamera, TypeOK, requestVars, muxVars
<1>2. CASE ConstructionFails(k)
  BY <1>2 DEF ConstructionFails, TypeOK, requestVars, muxVars
<1>3. CASE Play(k)
  BY <1>3 DEF Play, TypeOK, requestVars, muxVars
<1>4. CASE StoreCodec(k)
  BY <1>4 DEF StoreCodec, TypeOK, requestVars, muxVars
<1>5. CASE Disconnect(k)
  BY <1>5 DEF Disconnect, TypeOK, requestVars, muxVars
<1>6. CASE RemoveCamera(k)
  BY <1>6 DEF RemoveCamera, TypeOK, requestVars, muxVars
<1>7. CASE WorkerExits(k)
  BY <1>7 DEF WorkerExits, TypeOK, requestVars, muxVars
<1> QED
  BY <1>1, <1>2, <1>3, <1>4, <1>5, <1>6, <1>7

LEMMA StopRequestVideo ==
  ASSUME VideoInv, NEW k \in Cams, StopRequest(k)
  PROVE  VideoInv'
<1>1. TypeOK'
  BY DEF VideoInv, TypeOK, StopRequest, muxVars
<1>2. Asking' /\ RequestIsWatched'
  BY DEF VideoInv, Asking, RequestIsWatched, Watching, StopRequest, muxVars
<1>3. ASSUME NEW m \in Muxes, pc'[m] \notin {"cancel", "done"}
      PROVE  running'[m] <=> \E j \in Cams : vrMux'[j] = m /\ vrStarted'[j]
  <2>1. running'[m] <=> running[m] /\ m # vrMux[k]
    BY DEF StopRequest
  <2>2. \A j \in Cams : vrMux'[j] = vrMux[j]
                        /\ (vrStarted'[j] <=> vrStarted[j] /\ j # k)
    BY DEF StopRequest, VideoInv, TypeOK
  <2>3. running[m] <=> \E j \in Cams : vrMux[j] = m /\ vrStarted[j]
    BY <1>3 DEF StopRequest, muxVars, VideoInv, StartedTogether
  <2> QED
    BY <2>1, <2>2, <2>3, HeldOnce
<1> QED
  BY <1>1, <1>2, <1>3 DEF VideoInv, StartedTogether

LEMMA ClearRequestVideo ==
  ASSUME VideoInv, NEW k \in Cams, ClearRequest(k)
  PROVE  VideoInv'
<1>1. TypeOK'
  BY DEF VideoInv, TypeOK, ClearRequest, Cancelled
<1>2. Asking'
  BY DEF VideoInv, Asking, ClearRequest
<1>3. /\ \A j \in Cams : vrMux'[j] = IF j = k THEN None ELSE vrMux[j]
      /\ \A m \in Muxes : Watching(m)' <=> Watching(m) /\ m # vrMux[k]
      /\ cam' = cam
  BY DEF ClearRequest, Cancelled, Watching, VideoInv, TypeOK
<1>4. RequestIsWatched'
  <2>1. ASSUME NEW j \in Cams, NEW m \in Muxes, vrMux'[j] = m
        PROVE  Watching(m)' /\ cam'[m] = j
    BY <1>3, <2>1, HeldOnce, VideoAssumption DEF VideoInv, RequestIsWatched
  <2>2. ASSUME NEW m \in Muxes, Watching(m)' PROVE vrMux'[cam'[m]] = m
    <3>1. Watching(m) /\ m # vrMux[k] /\ vrMux[cam[m]] = m
      BY <1>3, <2>2 DEF VideoInv, RequestIsWatched
    <3>2. cam[m] \in Cams
      BY <3>1 DEF VideoInv, Asking, TypeOK, Watching
    <3> QED
      BY <1>3, <3>1, <3>2
  <2> QED
    BY <2>1, <2>2 DEF RequestIsWatched
<1>5. ASSUME NEW m \in Muxes, pc'[m] \notin {"cancel", "done"}
      PROVE  running'[m] <=> \E j \in Cams : vrMux'[j] = m /\ vrStarted'[j]
  <2>1. running'[m] <=> running[m] /\ m # vrMux[k]
    BY DEF ClearRequest
  <2>2. \A j \in Cams : vrStarted'[j] <=> vrStarted[j] /\ j # k
    BY DEF ClearRequest, VideoInv, TypeOK
  <2>3. running[m] <=> \E j \in Cams : vrMux[j] = m /\ vrStarted[j]
    BY <1>5 DEF ClearRequest, VideoInv, StartedTogether
  <2> QED
    BY <1>3, <2>1, <2>2, <2>3, HeldOnce
<1> QED
  BY <1>1, <1>2, <1>4, <1>5 DEF VideoInv, StartedTogether

LEMMA WriteVideo ==
  ASSUME VideoInv, NEW k \in Cams, Write(k)
  PROVE  VideoInv'
<1>1. vrMux[k] \in Muxes
  BY DEF Write, VideoInv, TypeOK
<1>2. TypeOK'
  BY <1>1 DEF VideoInv, TypeOK, Write, camVars, muxVars
<1>3. Asking' /\ RequestIsWatched'
  BY DEF VideoInv, Asking, RequestIsWatched, Watching, Write, muxVars
<1>4. ASSUME NEW m \in Muxes, pc'[m] \notin {"cancel", "done"}
      PROVE  running'[m] <=> \E j \in Cams : vrMux'[j] = m /\ vrStarted'[j]
  <2>1. running'[m] <=> running[m] \/ m = vrMux[k]
    BY DEF Write, VideoInv, TypeOK
  <2>2. \A j \in Cams : vrMux'[j] = vrMux[j]
                        /\ (vrStarted'[j] <=> vrStarted[j] \/ j = k)
    BY DEF Write, VideoInv, TypeOK
  <2>3. running[m] <=> \E j \in Cams : vrMux[j] = m /\ vrStarted[j]
    BY <1>4 DEF Write, muxVars, VideoInv, StartedTogether
  <2> QED
    BY <2>1, <2>2, <2>3
<1> QED
  BY <1>2, <1>3, <1>4 DEF VideoInv, StartedTogether

----------------------------------------------------------------------------
(* Steps of monitors. *)

(* The steps of init and of the monitor that only look. *)
LEMMA LookVideo ==
  ASSUME VideoInv, NEW m \in Muxes,
         \/ Get(m) \/ GetFails(m) \/ CheckCodec(m) \/ Unsupported(m)
         \/ Busy(m)
  PROVE  VideoInv'
<1>1. PICK p \in {"got", "checked", "loop", "failed"} :
        /\ pc' = [pc EXCEPT ![m] = p]
        /\ p = "loop" => cam[m] # None
  BY DEF Get, GetFails, CheckCodec, Unsupported, Busy, GiveUp
<1>2. /\ pc[m] \in {"new", "got", "checked", "loop"}
      /\ pc[m] = "loop" => ~registered[m]
      /\ UNCHANGED <<camVars, requestVars, cam, regDone, registered, stopping,
                     running>>
  BY DEF Get, GetFails, CheckCodec, Unsupported, Busy, MayRequest
<1>3. ~registered[m]
  BY <1>2 DEF VideoInv, Asking
<1>4. TypeOK'
  <2>1. CASE Get(m)
    BY <2>1 DEF Get, VideoInv, TypeOK, camVars, requestVars
  <2>2. CASE GetFails(m) \/ CheckCodec(m) \/ Unsupported(m) \/ Busy(m)
    <3>1. target' = target /\ (p = "checked" => pc[m] = "got")
               /\ p # "got"
      BY <1>1, <2>2 DEF GetFails, CheckCodec, Unsupported, Busy, GiveUp, VideoInv, TypeOK
    <3> QED
      BY <1>1, <1>2, <3>1 DEF VideoInv, TypeOK, camVars, requestVars
  <2> QED
    BY <2>1, <2>2
<1>5. Asking'
  BY <1>1, <1>2, <1>3 DEF VideoInv, Asking, TypeOK
<1>6. \A n \in Muxes : Watching(n)' <=> Watching(n)
  BY <1>1, <1>2, <1>3 DEF Watching, VideoInv, TypeOK
<1>7. RequestIsWatched'
  BY <1>2, <1>6 DEF VideoInv, RequestIsWatched, requestVars
<1>8. \A n \in Muxes : pc'[n] \in {"cancel", "done"} <=> pc[n] \in {"cancel", "done"}
  BY <1>1, <1>2 DEF VideoInv, TypeOK
<1>9. StartedTogether'
  BY <1>2, <1>8 DEF VideoInv, StartedTogether, requestVars
<1> QED
  BY <1>4, <1>5, <1>7, <1>9 DEF VideoInv

LEMMA NewRequestVideo ==
  ASSUME VideoInv, NEW m \in Muxes, NewRequest(m)
  PROVE  VideoInv'
<1> DEFINE k == target[m]
<1>1. k \in Cams /\ vrMux[k] = None
  BY DEF NewRequest, VideoInv, TypeOK
<1>2. ~registered[m] /\ ~Watching(m) /\ \A j \in Cams : vrMux[j] # m
  BY DEF NewRequest, VideoInv, Asking, RequestIsWatched, Watching
<1>3. vrMux'[k] = m /\ ~vrStarted'[k] /\ cam'[m] = k
  BY <1>1 DEF NewRequest, VideoInv, TypeOK
<1>4. ASSUME NEW j \in Cams, j # k
      PROVE  vrMux'[j] = vrMux[j] /\ vrStarted'[j] = vrStarted[j]
  BY <1>1, <1>4 DEF NewRequest, VideoInv, TypeOK
<1>5. Watching(m)'
  BY DEF NewRequest, Watching, VideoInv, TypeOK
<1>6. ASSUME NEW n \in Muxes, n # m
      PROVE  /\ cam'[n] = cam[n]
             /\ Watching(n)' <=> Watching(n)
             /\ pc'[n] = pc[n]
  BY <1>6 DEF NewRequest, Watching, VideoInv, TypeOK
<1>7. TypeOK'
  BY <1>1 DEF NewRequest, VideoInv, TypeOK, camVars
<1>8. Asking'
  BY <1>1, VideoAssumption DEF NewRequest, VideoInv, Asking, TypeOK
<1>9. RequestIsWatched
  BY DEF VideoInv
<1>10. RequestIsWatched'
  <2>1. ASSUME NEW j \in Cams, NEW n \in Muxes, vrMux'[j] = n
        PROVE  Watching(n)' /\ cam'[n] = j
    <3>1. CASE j = k
      BY <1>3, <1>5, <2>1, <3>1
    <3>2. CASE j # k
      <4>1. vrMux[j] = n
        BY <1>4, <2>1, <3>2
      <4>2. n # m /\ Watching(n) /\ cam[n] = j
        BY <1>2, <1>9, <4>1 DEF RequestIsWatched
      <4> QED
        BY <1>6, <4>2
    <3> QED
      BY <3>1, <3>2
  <2>2. ASSUME NEW n \in Muxes, Watching(n)' PROVE vrMux'[cam'[n]] = n
    <3>1. CASE n = m
      BY <1>3, <3>1
    <3>2. CASE n # m
      <4>1. Watching(n) /\ cam'[n] = cam[n]
        BY <1>6, <2>2, <3>2
      <4>2. vrMux[cam[n]] = n
        BY <1>9, <4>1 DEF RequestIsWatched
      <4>3. cam[n] \in Cams
        BY <4>1 DEF VideoInv, Watching, Asking, TypeOK
      <4>4. cam[n] # k
        BY <1>1, <4>2, VideoAssumption
      <4> QED
        BY <1>4, <4>1, <4>2, <4>3, <4>4
    <3> QED
      BY <3>1, <3>2
  <2> QED
    BY <2>1, <2>2 DEF RequestIsWatched
<1>11. ASSUME NEW n \in Muxes, pc'[n] \notin {"cancel", "done"}
       PROVE  running'[n] <=> \E j \in Cams : vrMux'[j] = n /\ vrStarted'[j]
  <2>1. pc[n] \notin {"cancel", "done"} /\ running'[n] = running[n]
    BY <1>6, <1>11 DEF NewRequest
  <2>2. running[n] <=> \E j \in Cams : vrMux[j] = n /\ vrStarted[j]
    BY <2>1 DEF VideoInv, StartedTogether
  <2>3. ASSUME NEW j \in Cams
        PROVE  (vrMux'[j] = n /\ vrStarted'[j])
                  <=> (vrMux[j] = n /\ vrStarted[j])
    <3>1. CASE j = k
      BY <1>1, <1>3, <3>1, VideoAssumption
    <3>2. CASE j # k
      BY <1>4, <3>2
    <3> QED
      BY <3>1, <3>2
  <2> QED
    BY <2>1, <2>2, <2>3
<1> QED
  BY <1>7, <1>8, <1>10, <1>11 DEF VideoInv, StartedTogether

LEMMA NoticeCancelledVideo ==
  ASSUME VideoInv, NEW m \in Muxes, NoticeCancelled(m)
  PROVE  VideoInv'
<1>1. TypeOK'
  BY DEF NoticeCancelled, VideoInv, TypeOK, camVars, requestVars
<1>2. Asking'
  BY DEF NoticeCancelled, VideoInv, Asking, TypeOK
<1>3. \A n \in Muxes : Watching(n)' <=> Watching(n)
  BY DEF NoticeCancelled, Watching, VideoInv, TypeOK
<1>4. RequestIsWatched' /\ StartedTogether'
  BY <1>3 DEF NoticeCancelled, VideoInv, RequestIsWatched, StartedTogether,
       requestVars
<1> QED
  BY <1>1, <1>2, <1>4 DEF VideoInv

LEMMA CloseStoreVideo ==
  ASSUME VideoInv, NEW m \in Muxes, CloseStore(m)
  PROVE  VideoInv'
<1>1. TypeOK'
  BY DEF CloseStore, VideoInv, TypeOK, camVars, requestVars
<1> QED
  BY <1>1 DEF CloseStore, VideoInv, Asking, RequestIsWatched, Watching,
       StartedTogether, requestVars

LEMMA CleanupVideo ==
  ASSUME VideoInv, NEW m \in Muxes, CleanupStop(m) \/ CleanupCancel(m)
  PROVE  VideoInv'
<1>1. CASE CleanupStop(m)
  <2>1. cam[m] # None
    BY <1>1 DEF CleanupStop, VideoInv, Asking
  <2>2. TypeOK'
    BY <1>1, <2>1 DEF CleanupStop, VideoInv, TypeOK, camVars, requestVars
  <2>3. Asking'
    BY <1>1 DEF CleanupStop, VideoInv, Asking, TypeOK
  <2>4. \A n \in Muxes : Watching(n)' <=> Watching(n)
    BY <1>1 DEF CleanupStop, Watching, VideoInv, TypeOK
  <2>5. RequestIsWatched'
    BY <1>1, <2>4 DEF CleanupStop, VideoInv, RequestIsWatched, requestVars
  <2>6. \A n \in Muxes : pc'[n] \notin {"cancel", "done"} =>
          pc[n] \notin {"cancel", "done"} /\ running'[n] = running[n]
    BY <1>1 DEF CleanupStop, VideoInv, TypeOK
  <2>7. StartedTogether'
    BY <1>1, <2>6 DEF CleanupStop, VideoInv, StartedTogether, requestVars
  <2> QED
    BY <2>2, <2>3, <2>5, <2>7 DEF VideoInv
<1>2. CASE CleanupCancel(m)
  <2>1. cam[m] \in Cams
    BY <1>2 DEF CleanupCancel, VideoInv, TypeOK
  <2>2. /\ pc[m] = "cancel" /\ pc' = [pc EXCEPT ![m] = "done"]
        /\ cam' = cam /\ running' = running /\ registered' = registered
        /\ UNCHANGED <<camVars, target, stopping>>
    BY <1>2 DEF CleanupCancel
  <2>3. /\ vrStarted' \in [Cams -> BOOLEAN]
        /\ vrMux' \in [Cams -> Muxes \union {None}]
        /\ \A j \in Cams : vrMux[j] = m => vrMux'[j] = None
        /\ \A j \in Cams : vrMux[j] # m =>
             vrMux'[j] = vrMux[j] /\ vrStarted'[j] = vrStarted[j]
    <3>1. CASE vrMux[cam[m]] = m
      <4>1. \A j \in Cams : vrMux[j] = m => j = cam[m]
        BY <2>1, <3>1, HeldOnce
      <4>2. /\ vrMux' = [vrMux EXCEPT ![cam[m]] = None]
            /\ vrStarted' = [vrStarted EXCEPT ![cam[m]] = FALSE]
        BY <1>2, <3>1 DEF CleanupCancel
      <4>3. vrMux \in [Cams -> Muxes \union {None}]
            /\ vrStarted \in [Cams -> BOOLEAN]
        BY DEF VideoInv, TypeOK
      <4>4. vrStarted' \in [Cams -> BOOLEAN]
            /\ vrMux' \in [Cams -> Muxes \union {None}]
        BY <4>2, <4>3
      <4>5. ASSUME NEW j \in Cams, vrMux[j] = m PROVE vrMux'[j] = None
        BY <2>1, <4>1, <4>2, <4>3, <4>5
      <4>6. ASSUME NEW j \in Cams, vrMux[j] # m
            PROVE  vrMux'[j] = vrMux[j] /\ vrStarted'[j] = vrStarted[j]
        <5>1. j # cam[m]
          BY <3>1, <4>6
        <5> QED
          BY <4>2, <4>3, <5>1
      <4> QED
        BY <4>4, <4>5, <4>6
    <3>2. CASE vrMux[cam[m]] # m
      <4>1. \A j \in Cams : vrMux[j] # m
        BY <3>2 DEF VideoInv, RequestIsWatched
      <4> QED
        BY <1>2, <3>2, <4>1 DEF CleanupCancel, VideoInv, TypeOK
    <3> QED
      BY <3>1, <3>2
  <2>4. /\ regDone' \in [Muxes -> {"nil", "open", "done"}]
        /\ \A n \in Muxes \ {m} : regDone'[n] = regDone[n]
    <3>1. CASE vrMux[cam[m]] = m
      BY <1>2, <3>1 DEF CleanupCancel, Cancelled, VideoInv, TypeOK
    <3>2. CASE vrMux[cam[m]] # m
      BY <1>2, <3>2 DEF CleanupCancel, VideoInv, TypeOK
    <3> QED
      BY <3>1, <3>2
  <2>5. TypeOK'
    BY <2>1, <2>2, <2>3, <2>4, VideoAssumption DEF VideoInv, TypeOK, camVars
  <2>6. Asking'
    BY <2>2 DEF VideoInv, Asking, TypeOK
  <2>7. \A n \in Muxes : Watching(n)' <=> Watching(n) /\ n # m
    BY <2>2, <2>4 DEF Watching, VideoInv, TypeOK
  <2>8. RequestIsWatched'
    <3>1. ASSUME NEW j \in Cams, NEW n \in Muxes, vrMux'[j] = n
          PROVE  Watching(n)' /\ cam'[n] = j
      <4>1. vrMux[j] # m /\ vrMux[j] = n
        BY <2>3, <3>1, VideoAssumption
      <4>2. Watching(n) /\ cam[n] = j
        BY <4>1 DEF VideoInv, RequestIsWatched
      <4> QED
        BY <2>2, <2>7, <4>1, <4>2
    <3>2. ASSUME NEW n \in Muxes, Watching(n)' PROVE vrMux'[cam'[n]] = n
      <4>1. n # m /\ Watching(n)
        BY <2>7, <3>2
      <4>2. vrMux[cam[n]] = n
        BY <4>1 DEF VideoInv, RequestIsWatched
      <4>3. cam[n] \in Cams
        BY <2>2, <4>1 DEF VideoInv, Watching, Asking, TypeOK
      <4> QED
        BY <2>2, <2>3, <4>1, <4>2, <4>3
    <3> QED
      BY <3>1, <3>2 DEF RequestIsWatched
  <2>9. ASSUME NEW n \in Muxes, pc'[n] \notin {"cancel", "done"}
        PROVE  running'[n] <=> \E j \in Cams : vrMux'[j] = n /\ vrStarted'[j]
    <3>1. n # m /\ pc[n] \notin {"cancel", "done"}
      BY <2>2, <2>9 DEF VideoInv, TypeOK
    <3>2. running[n] <=> \E j \in Cams : vrMux[j] = n /\ vrStarted[j]
      BY <3>1 DEF VideoInv, StartedTogether
    <3>3. ASSUME NEW j \in Cams
          PROVE  (vrMux'[j] = n /\ vrStarted'[j])
                    <=> (vrMux[j] = n /\ vrStarted[j])
      <4>1. CASE vrMux[j] = m
        BY <2>3, <3>1, <4>1, VideoAssumption
      <4>2. CASE vrMux[j] # m
        BY <2>3, <4>2
      <4> QED
        BY <4>1, <4>2
    <3> QED
      BY <2>2, <3>2, <3>3
  <2> QED
    BY <2>5, <2>6, <2>8, <2>9 DEF VideoInv, StartedTogether
<1> QED
  BY <1>1, <1>2

----------------------------------------------------------------------------
LEMMA NextVideo == VideoInv /\ [Next]_vars => VideoInv'
<1> SUFFICES ASSUME VideoInv, [Next]_vars PROVE VideoInv'
  OBVIOUS
<1>1. ASSUME NEW k \in Cams, Camera(k) PROVE VideoInv'
  <2>1. TypeOK
    BY DEF VideoInv
  <2> QED
    BY <1>1, <2>1, ConnectionTypeOK, LinkVideo, StopRequestVideo,
       ClearRequestVideo, WriteVideo DEF Camera
<1>2. ASSUME NEW m \in Muxes, Monitor(m) PROVE VideoInv'
  BY <1>2, LookVideo, NewRequestVideo, NoticeCancelledVideo, CleanupVideo
     DEF Monitor
<1>3. ASSUME NEW m \in Muxes, CloseStore(m) PROVE VideoInv'
  BY <1>3, CloseStoreVideo
<1>4. CASE UNCHANGED vars
  <2>1. TypeOK'
    BY <1>4 DEF vars, camVars, requestVars, muxVars, VideoInv, TypeOK
  <2> QED
    BY <1>4, <2>1, LinkVideo DEF vars
<1> QED
  BY <1>1, <1>2, <1>3, <1>4 DEF Next, Finished

LEMMA VideoInvariant == Spec => []VideoInv
  BY InitVideo, NextVideo, PTL DEF Spec

----------------------------------------------------------------------------
(* The variables of cameras, requests and muxes keep their types, and a camera
   is asked, or told to cancel, only by a mux that has one. *)
THEOREM VideoTypeOK == Spec => []TypeOK
  BY VideoInvariant, PTL DEF VideoInv

(* Every request a camera holds is watched by the mux's monitor, and every
   monitor that waits for a cancellation is held by the camera it remembers. *)
THEOREM VideoRequestIsWatched == Spec => []RequestIsWatched
  BY VideoInvariant, PTL DEF VideoInv

(* started and the mux agree until the video-store is closed. *)
THEOREM VideoStartedTogether == Spec => []StartedTogether
  BY VideoInvariant, PTL DEF VideoInv

----------------------------------------------------------------------------
(* The service.  Its state has nothing in common with that of VideoRequest:
   there, a video-store is its mux. *)

(* The store and the mux that belong to each point of New and Close.  While
   the service is ready, which store it has says whether there is a mux. *)
Stores ==
  /\ svc \in {"new", "init", "poll", "failed"} \union Built
  /\ svc = "new" => open = {} /\ vs = "none" /\ rsMux = "nil"
  /\ svc = "init" => open = {"rtp"} /\ rsMux = "idle"
  /\ svc = "poll" => open = {} /\ rsMux = "idle"
  /\ svc \in {"ready", "stopMux"} =>
       open = {vs} /\ (rsMux = "monitoring" => vs = "rtp")
  /\ svc = "closeStore" => open = {vs} /\ rsMux # "monitoring"
  /\ svc \in {"stopWorkers", "closed", "failed"} =>
       open = {} /\ rsMux # "monitoring"

LEMMA InitStores == ServiceInit => Stores
  BY DEF ServiceInit, Stores, Built

LEMMA NextStores == Stores /\ [ServiceNext]_serviceVars => Stores'
<1> SUFFICES ASSUME Stores, [ServiceNext]_serviceVars PROVE Stores'
  OBVIOUS
<1> USE DEF Stores, Built
<1>1. CASE UNCHANGED <<svc, open, vs, rsMux>>
  BY <1>1
<1>2. CASE NewReadOnly
  BY <1>2 DEF NewReadOnly
<1>3. CASE NewRTP
  BY <1>3 DEF NewRTP
<1>4. CASE InitMux
  BY <1>4 DEF InitMux
<1>5. CASE FallBack
  BY <1>5 DEF FallBack
<1>6. CASE NewFramePolling
  BY <1>6 DEF NewFramePolling
<1>7. CASE Fail
  BY <1>7 DEF Fail
<1>8. CASE BeginClose
  BY <1>8 DEF BeginClose
<1>9. CASE StopMux
  BY <1>9 DEF StopMux
<1>10. CASE ReleaseStore
  BY <1>10 DEF ReleaseStore
<1>11. CASE Closed
  BY <1>11 DEF Closed
<1>12. CASE CancelWorkers
  BY <1>12, <1>1 DEF CancelWorkers, svcVars
<1>13. ASSUME NEW r \in Requests,
              \/ GetVideo(r) \/ Stream(r) \/ StopReading(r)
              \/ Cancel(r) \/ AfterFunc(r)
       PROVE  UNCHANGED <<svc, open, vs, rsMux>>
  BY <1>13 DEF GetVideo, Stream, FetchEnds, Offer, Refuse, Send, Withdraw,
       Return, StopReading, Cancel, AfterFunc, svcVars
<1>14. CASE UNCHANGED serviceVars
  BY <1>14, <1>1 DEF serviceVars, svcVars
<1> QED
  BY <1>1, <1>2, <1>3, <1>4, <1>5, <1>6, <1>7, <1>8, <1>9, <1>10, <1>11,
     <1>12, <1>13, <1>14 DEF ServiceNext, New, Close

LEMMA StoresSuffice == Stores => StoresAreReleased
BY DEF Stores, Built, StoresAreReleased

(* However New ends and whenever Close runs, a store that was opened is closed
   unless the service still needs it, and a monitored mux has its store. *)
THEOREM VideoStoreReleases == ServiceSpec => []StoresAreReleased
  BY InitStores, NextStores, StoresSuffice, PTL DEF ServiceSpec
=============================================================================
