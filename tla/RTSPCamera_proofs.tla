-------------------------- MODULE RTSPCamera_proofs --------------------------
(***************************************************************************)
(* Proofs about RTSPCamera, for any number of Image() callers and of       *)
(* transports, and any timeout.                                            *)
(***************************************************************************)
EXTENDS RTSPCamera, TLAPS

(* closeMu: no caller is inside Image() while somebody holds it for writing,
   and Close asks for it only when the worker has ended. *)
Locking ==
  /\ WriterHolds => Readers = {}
  /\ close \in {"lock", "stop", "drain", "closed"} => worker = "exited"

(* Whoever may still use the decoder has a reason to find it open: a client
   that lives or drains, an access unit that waits in rc.au. *)
Decoders ==
  /\ conn # "none" => decoder
  /\ recv # "idle" => conn # "none"
  /\ pending # None => decoder
  /\ \A c \in Callers : image[c] = "decoding" => decoder

(* The liveness clock is never behind the facts it stands for, but for the
   moment between a connection and its mark. *)
Clocks ==
  /\ since <= heard
  /\ worker # "mark" => since <= connected

CameraInv == TypeOK /\ Locking /\ Decoders /\ Clocks /\ ClosedForGood

(* Growing older keeps an age an age and keeps two ages in their order, and
   what there is not does not grow old. *)
LEMMA OlderAge ==
  ASSUME NEW a \in Age
  PROVE  Older(a) \in Age /\ Older(a) # None
BY CameraAssumption DEF Older, Age, Cap

LEMMA OlderKeepsOrder ==
  ASSUME NEW a \in Age, NEW b \in Age, a <= b
  PROVE  Older(a) <= Older(b)
BY CameraAssumption DEF Older, Age, Cap

LEMMA OlderNone == Older(None) = None
BY DEF Older

LEMMA Ages == 0 \in Age /\ Cap \in Age /\ \A a \in Age : a \in Nat
BY CameraAssumption DEF Age, Cap

LEMMA InitCamera == Init => CameraInv
<1> SUFFICES ASSUME Init PROVE CameraInv
  OBVIOUS
<1>1. TypeOK
  <2>1. since \in Age /\ heard \in Age /\ connected \in Age
    BY Ages DEF Init
  <2>2. transport \in 1 .. Transports
    BY CameraAssumption DEF Init
  <2>3. image \in [Callers -> {"idle", "entered", "decoding", "serving"}]
    BY DEF Init
  <2> QED
    BY <2>1, <2>2, <2>3 DEF Init, TypeOK
<1>2. Locking /\ Decoders /\ ClosedForGood
  BY DEF Init, Locking, Decoders, ClosedForGood, Readers
<1>3. Clocks
  BY Ages DEF Init, Clocks
<1> QED
  BY <1>1, <1>2, <1>3 DEF CameraInv

(* Every step keeps the types. *)
LEMMA TypeStep ==
  ASSUME TypeOK, [Next]_vars
  PROVE  TypeOK'
<1> USE DEF TypeOK,
            clock, pictures, connection, workerVars, closeVars
<1>1. CASE Tick
  BY <1>1, OlderAge, OlderNone DEF Tick
<1>2. CASE ServerChanges
  BY <1>2 DEF ServerChanges
<1>3. CASE \E idr \in BOOLEAN : Receive(idr)
  BY <1>3, Ages DEF Receive, Handling
<1>4. CASE Receiving
  BY <1>4 DEF Receiving, Decoded, Append
<1>5. CASE Healthy
  <2>1. slept' \in BOOLEAN
    BY <1>5 DEF Healthy
  <2>2. UNCHANGED <<server, mode, since, heard, connected, latest, pending,
                    conn, decoder, gotIDR, recv, transport, built, close,
                    cancelled, image>>
    BY <1>5 DEF Healthy
  <2>3. worker' \in {"sleep", "probe"}
    BY <1>5 DEF Healthy
  <2> QED
    BY <2>1, <2>2, <2>3
<1>6. CASE Unhealthy
  <2>1. slept' \in BOOLEAN
    BY <1>6 DEF Unhealthy
  <2>2. UNCHANGED <<server, mode, since, heard, connected, latest, pending,
                    conn, decoder, gotIDR, recv, transport, built, close,
                    cancelled, image>>
    BY <1>6 DEF Unhealthy
  <2>3. worker' \in {"sleep", "probe"}
    BY <1>6 DEF Unhealthy
  <2> QED
    BY <2>1, <2>2, <2>3
<1>7. CASE WorkerExits
  BY <1>7 DEF WorkerExits
<1>8. CASE Probed
  BY <1>8 DEF Probed
<1>9. CASE LockReconnect
  BY <1>9 DEF LockReconnect
<1>10. CASE StopClient
  BY <1>10 DEF StopClient
<1>11. CASE CloseOld
  BY <1>11 DEF CloseOld, FreeConnection
<1>12. CASE Connect
  BY <1>12 DEF Connect
<1>13. CASE AttemptFails
  BY <1>13 DEF AttemptFails
<1>14. CASE Played
  BY <1>14, Ages DEF Played
<1>15. CASE NextTransport
  <2>1. transport' \in 1 .. Transports
    BY <1>15, CameraAssumption DEF NextTransport
  <2>2. worker' \in {"lock", "sleep", "failed"}
    BY <1>15 DEF NextTransport
  <2>3. /\ conn' = "none" /\ decoder' \in BOOLEAN /\ pending' = None
        /\ UNCHANGED <<server, mode, since, heard, connected, latest, gotIDR,
                       recv, slept, built, close, cancelled, image>>
    BY <1>15 DEF NextTransport, FreeConnection
  <2> QED
    BY <2>1, <2>2, <2>3
<1>16. CASE Grace
  BY <1>16, Ages, CameraAssumption DEF Grace
<1>17. CASE CloseBegin
  BY <1>17 DEF CloseBegin
<1>18. CASE CloseWaited
  BY <1>18 DEF CloseWaited
<1>19. CASE CloseLock
  BY <1>19 DEF CloseLock
<1>20. CASE CloseClient
  BY <1>20 DEF CloseClient
<1>21. CASE CloseEnd
  BY <1>21 DEF CloseEnd
<1>22. CASE \E c \in Callers : ImageLock(c)
  BY <1>22 DEF ImageLock
<1>23. CASE \E c \in Callers : ImageRefused(c)
  BY <1>23 DEF ImageRefused
<1>24. CASE \E c \in Callers : ImageConsume(c)
  BY <1>24 DEF ImageConsume
<1>25. CASE \E c \in Callers : ImageDecoded(c)
  BY <1>25 DEF ImageDecoded
<1>26. CASE \E c \in Callers : ImageReturn(c)
  BY <1>26 DEF ImageReturn
<1>27. CASE UNCHANGED vars
  BY <1>27 DEF vars
<1> QED
  BY <1>1, <1>2, <1>3, <1>4, <1>5, <1>6, <1>7, <1>8, <1>9, <1>10, <1>11,
     <1>12, <1>13,
     <1>14, <1>15, <1>16, <1>17, <1>18, <1>19, <1>20, <1>21, <1>22, <1>23,
     <1>24, <1>25, <1>26, <1>27
  DEF Next, Receiving, Working, Closing, Serving

(* closeMu: a writer gets it when nobody reads, a reader when nobody writes
   or waits to write; and a worker that has ended does not come back. *)
LEMMA LockingStep ==
  ASSUME TypeOK, Locking, [Next]_vars
  PROVE  Locking'
<1> USE DEF TypeOK, Locking, WriterHolds, WriterWaits, Readers,
            clock, pictures, connection, workerVars, closeVars
<1>1. CASE Tick
  BY <1>1 DEF Tick
<1>2. CASE ServerChanges
  BY <1>2 DEF ServerChanges
<1>3. CASE \E idr \in BOOLEAN : Receive(idr)
  BY <1>3 DEF Receive, Handling
<1>4. CASE Receiving
  BY <1>4 DEF Receiving, Decoded, Append
<1>5. CASE Healthy
  BY <1>5 DEF Healthy
<1>6. CASE Unhealthy
  BY <1>6 DEF Unhealthy
<1>7. CASE WorkerExits
  BY <1>7 DEF WorkerExits
<1>8. CASE Probed
  BY <1>8 DEF Probed
<1>9. CASE LockReconnect
  BY <1>9 DEF LockReconnect
<1>10. CASE StopClient
  BY <1>10 DEF StopClient
<1>11. CASE CloseOld
  BY <1>11 DEF CloseOld, FreeConnection
<1>12. CASE Connect
  BY <1>12 DEF Connect
<1>13. CASE AttemptFails
  BY <1>13 DEF AttemptFails
<1>14. CASE Played
  BY <1>14 DEF Played
<1>15. CASE NextTransport
  BY <1>15 DEF NextTransport, FreeConnection
<1>16. CASE Grace
  BY <1>16 DEF Grace
<1>17. CASE CloseBegin
  BY <1>17 DEF CloseBegin
<1>18. CASE CloseWaited
  BY <1>18 DEF CloseWaited
<1>19. CASE CloseLock
  BY <1>19 DEF CloseLock
<1>20. CASE CloseClient
  BY <1>20 DEF CloseClient
<1>21. CASE CloseEnd
  BY <1>21 DEF CloseEnd
<1>22. CASE \E c \in Callers : ImageLock(c)
  BY <1>22 DEF ImageLock
<1>23. CASE \E c \in Callers : ImageRefused(c)
  BY <1>23 DEF ImageRefused
<1>24. CASE \E c \in Callers : ImageConsume(c)
  BY <1>24 DEF ImageConsume
<1>25. CASE \E c \in Callers : ImageDecoded(c)
  BY <1>25 DEF ImageDecoded
<1>26. CASE \E c \in Callers : ImageReturn(c)
  BY <1>26 DEF ImageReturn
<1>27. CASE UNCHANGED vars
  BY <1>27 DEF vars
<1> QED
  BY <1>1, <1>2, <1>3, <1>4, <1>5, <1>6, <1>7, <1>8, <1>9, <1>10, <1>11,
     <1>12, <1>13,
     <1>14, <1>15, <1>16, <1>17, <1>18, <1>19, <1>20, <1>21, <1>22, <1>23,
     <1>24, <1>25, <1>26, <1>27
  DEF Next, Receiving, Working, Closing, Serving

(* Whoever frees the decoder holds closeMu for writing, after the client is
   drained. *)
LEMMA DecodersStep ==
  ASSUME TypeOK, Locking, Decoders, [Next]_vars
  PROVE  Decoders'
<1> USE DEF TypeOK, Locking, Decoders, WriterHolds, Readers,
            clock, pictures, connection, workerVars, closeVars
<1>1. CASE Tick
  BY <1>1, OlderNone DEF Tick
<1>2. CASE ServerChanges
  BY <1>2 DEF ServerChanges
<1>3. CASE \E idr \in BOOLEAN : Receive(idr)
  BY <1>3 DEF Receive, Handling
<1>4. CASE Receiving
  BY <1>4 DEF Receiving, Decoded, Append
<1>5. CASE Healthy
  BY <1>5 DEF Healthy
<1>6. CASE Unhealthy
  BY <1>6 DEF Unhealthy
<1>7. CASE WorkerExits
  BY <1>7 DEF WorkerExits
<1>8. CASE Probed
  BY <1>8 DEF Probed
<1>9. CASE LockReconnect
  BY <1>9 DEF LockReconnect
<1>10. CASE StopClient
  BY <1>10 DEF StopClient
<1>11. CASE CloseOld
  BY <1>11 DEF CloseOld, FreeConnection
<1>12. CASE Connect
  BY <1>12 DEF Connect
<1>13. CASE AttemptFails
  BY <1>13 DEF AttemptFails
<1>14. CASE Played
  BY <1>14 DEF Played
<1>15. CASE NextTransport
  BY <1>15 DEF NextTransport, FreeConnection
<1>16. CASE Grace
  BY <1>16 DEF Grace
<1>17. CASE CloseBegin
  BY <1>17 DEF CloseBegin
<1>18. CASE CloseWaited
  BY <1>18 DEF CloseWaited
<1>19. CASE CloseLock
  BY <1>19 DEF CloseLock
<1>20. CASE CloseClient
  BY <1>20 DEF CloseClient
<1>21. CASE CloseEnd
  BY <1>21 DEF CloseEnd
<1>22. CASE \E c \in Callers : ImageLock(c)
  BY <1>22 DEF ImageLock
<1>23. CASE \E c \in Callers : ImageRefused(c)
  BY <1>23 DEF ImageRefused
<1>24. CASE \E c \in Callers : ImageConsume(c)
  BY <1>24 DEF ImageConsume
<1>25. CASE \E c \in Callers : ImageDecoded(c)
  BY <1>25 DEF ImageDecoded
<1>26. CASE \E c \in Callers : ImageReturn(c)
  BY <1>26 DEF ImageReturn
<1>27. CASE UNCHANGED vars
  BY <1>27 DEF vars
<1> QED
  BY <1>1, <1>2, <1>3, <1>4, <1>5, <1>6, <1>7, <1>8, <1>9, <1>10, <1>11,
     <1>12, <1>13,
     <1>14, <1>15, <1>16, <1>17, <1>18, <1>19, <1>20, <1>21, <1>22, <1>23,
     <1>24, <1>25, <1>26, <1>27
  DEF Next, Receiving, Working, Closing, Serving

(* An access unit resets both clocks, and a connection is marked before time
   goes on. *)
LEMMA ClocksStep ==
  ASSUME TypeOK, Clocks, [Next]_vars
  PROVE  Clocks'
<1> USE DEF TypeOK, Clocks,
            clock, pictures, connection, workerVars, closeVars
<1>1. CASE Tick
  BY <1>1, OlderKeepsOrder DEF Tick
<1>2. CASE ServerChanges
  BY <1>2 DEF ServerChanges
<1>3. CASE \E idr \in BOOLEAN : Receive(idr)
  BY <1>3, Ages DEF Receive, Handling
<1>4. CASE Receiving
  BY <1>4 DEF Receiving, Decoded, Append
<1>5. CASE Healthy
  BY <1>5 DEF Healthy
<1>6. CASE Unhealthy
  BY <1>6 DEF Unhealthy
<1>7. CASE WorkerExits
  BY <1>7 DEF WorkerExits
<1>8. CASE Probed
  BY <1>8 DEF Probed
<1>9. CASE LockReconnect
  BY <1>9 DEF LockReconnect
<1>10. CASE StopClient
  BY <1>10 DEF StopClient
<1>11. CASE CloseOld
  BY <1>11 DEF CloseOld, FreeConnection
<1>12. CASE Connect
  BY <1>12 DEF Connect
<1>13. CASE AttemptFails
  BY <1>13 DEF AttemptFails
<1>14. CASE Played
  BY <1>14, Ages DEF Played
<1>15. CASE NextTransport
  BY <1>15 DEF NextTransport, FreeConnection
<1>16. CASE Grace
  BY <1>16, Ages DEF Grace
<1>17. CASE CloseBegin
  BY <1>17 DEF CloseBegin
<1>18. CASE CloseWaited
  BY <1>18 DEF CloseWaited
<1>19. CASE CloseLock
  BY <1>19 DEF CloseLock
<1>20. CASE CloseClient
  BY <1>20 DEF CloseClient
<1>21. CASE CloseEnd
  BY <1>21 DEF CloseEnd
<1>22. CASE \E c \in Callers : ImageLock(c)
  BY <1>22 DEF ImageLock
<1>23. CASE \E c \in Callers : ImageRefused(c)
  BY <1>23 DEF ImageRefused
<1>24. CASE \E c \in Callers : ImageConsume(c)
  BY <1>24 DEF ImageConsume
<1>25. CASE \E c \in Callers : ImageDecoded(c)
  BY <1>25 DEF ImageDecoded
<1>26. CASE \E c \in Callers : ImageReturn(c)
  BY <1>26 DEF ImageReturn
<1>27. CASE UNCHANGED vars
  BY <1>27 DEF vars
<1> QED
  BY <1>1, <1>2, <1>3, <1>4, <1>5, <1>6, <1>7, <1>8, <1>9, <1>10, <1>11,
     <1>12, <1>13,
     <1>14, <1>15, <1>16, <1>17, <1>18, <1>19, <1>20, <1>21, <1>22, <1>23,
     <1>24, <1>25, <1>26, <1>27
  DEF Next, Receiving, Working, Closing, Serving

(* After Close there is no worker to connect, no receive goroutine and no
   picture to decode. *)
LEMMA ClosedStep ==
  ASSUME TypeOK, Locking, Decoders, ClosedForGood, [Next]_vars
  PROVE  ClosedForGood'
<1> USE DEF TypeOK, Locking, Decoders, ClosedForGood,
            clock, pictures, connection, workerVars, closeVars
<1>1. CASE Tick
  BY <1>1, OlderNone DEF Tick
<1>2. CASE ServerChanges
  BY <1>2 DEF ServerChanges
<1>3. CASE \E idr \in BOOLEAN : Receive(idr)
  BY <1>3 DEF Receive, Handling
<1>4. CASE Receiving
  BY <1>4 DEF Receiving, Decoded, Append
<1>5. CASE Healthy
  BY <1>5 DEF Healthy
<1>6. CASE Unhealthy
  BY <1>6 DEF Unhealthy
<1>7. CASE WorkerExits
  BY <1>7 DEF WorkerExits
<1>8. CASE Probed
  BY <1>8 DEF Probed
<1>9. CASE LockReconnect
  BY <1>9 DEF LockReconnect
<1>10. CASE StopClient
  BY <1>10 DEF StopClient
<1>11. CASE CloseOld
  BY <1>11 DEF CloseOld, FreeConnection
<1>12. CASE Connect
  BY <1>12 DEF Connect
<1>13. CASE AttemptFails
  BY <1>13 DEF AttemptFails
<1>14. CASE Played
  BY <1>14 DEF Played
<1>15. CASE NextTransport
  BY <1>15 DEF NextTransport, FreeConnection
<1>16. CASE Grace
  BY <1>16 DEF Grace
<1>17. CASE CloseBegin
  BY <1>17 DEF CloseBegin
<1>18. CASE CloseWaited
  BY <1>18 DEF CloseWaited
<1>19. CASE CloseLock
  BY <1>19 DEF CloseLock
<1>20. CASE CloseClient
  BY <1>20 DEF CloseClient
<1>21. CASE CloseEnd
  BY <1>21 DEF CloseEnd
<1>22. CASE \E c \in Callers : ImageLock(c)
  BY <1>22 DEF ImageLock
<1>23. CASE \E c \in Callers : ImageRefused(c)
  BY <1>23 DEF ImageRefused
<1>24. CASE \E c \in Callers : ImageConsume(c)
  BY <1>24 DEF ImageConsume
<1>25. CASE \E c \in Callers : ImageDecoded(c)
  BY <1>25 DEF ImageDecoded
<1>26. CASE \E c \in Callers : ImageReturn(c)
  BY <1>26 DEF ImageReturn
<1>27. CASE UNCHANGED vars
  BY <1>27 DEF vars
<1> QED
  BY <1>1, <1>2, <1>3, <1>4, <1>5, <1>6, <1>7, <1>8, <1>9, <1>10, <1>11,
     <1>12, <1>13,
     <1>14, <1>15, <1>16, <1>17, <1>18, <1>19, <1>20, <1>21, <1>22, <1>23,
     <1>24, <1>25, <1>26, <1>27
  DEF Next, Receiving, Working, Closing, Serving

LEMMA NextCamera == CameraInv /\ [Next]_vars => CameraInv'
BY TypeStep, LockingStep, DecodersStep, ClocksStep, ClosedStep DEF CameraInv

LEMMA CameraInvariant == Spec => []CameraInv
BY InitCamera, NextCamera, PTL DEF Spec

(* Every variable keeps its type; the ages stop at Cap and a worker never tries
   a transport the camera does not have. *)
THEOREM CameraTypeOK == Spec => []TypeOK
<1>1. CameraInv => TypeOK
  BY DEF CameraInv
<1> QED
  BY <1>1, CameraInvariant, PTL

(* The decoder is open as long as the receive goroutine or a call of Image()
   decodes with it: closeConnection frees it under closeMu, and only after the
   client has stopped. *)
THEOREM CameraDecoderAlive == Spec => []DecoderAlive
<1>1. CameraInv => DecoderAlive
  BY DEF CameraInv, Decoders, DecoderAlive
<1> QED
  BY <1>1, CameraInvariant, PTL

(* Once Close has returned there is no client, no decoder and no picture, for
   ever: the worker it waited for cannot open them again. *)
THEOREM CameraClosedForGood == Spec => []ClosedForGood
<1>1. CameraInv => ClosedForGood
  BY DEF CameraInv
<1> QED
  BY <1>1, CameraInvariant, PTL

(* closeMu keeps readers and writers apart, and Close takes its last steps only
   when the reconnection worker is gone. *)
THEOREM CameraLocking == Spec => []Locking
<1>1. CameraInv => Locking
  BY DEF CameraInv
<1> QED
  BY <1>1, CameraInvariant, PTL

(* The worker gives up only a connection that is noFrameTimeout old and has
   brought no access unit for as long. *)
THEOREM CameraNeverHasty == Spec => NeverHasty
<1> DEFINE Hasty ==
      worker = "sleep" /\ worker' = "probe"
        => heard >= Timeout /\ connected >= Timeout
<1>1. CameraInv /\ [Next]_vars => [Hasty]_vars
  <2> SUFFICES ASSUME CameraInv, Next, worker = "sleep", worker' = "probe"
               PROVE  heard >= Timeout /\ connected >= Timeout
    OBVIOUS
  <2>1. Unhealthy
    BY DEF Next, Tick, ServerChanges, Receive, Receiving, Decoded, Append,
           Working, Healthy, WorkerExits, Probed, LockReconnect, StopClient,
           CloseOld, Connect, AttemptFails, Played, NextTransport, Grace,
           CloseBegin, Closing, CloseWaited, CloseLock, CloseClient, CloseEnd,
           ImageLock, Serving, ImageRefused, ImageConsume, ImageDecoded,
           ImageReturn, FreeConnection, workerVars
  <2>2. since >= Timeout
    BY <2>1 DEF Unhealthy
  <2>3. since <= heard /\ since <= connected
    BY DEF CameraInv, Clocks
  <2>4. since \in Nat /\ heard \in Nat /\ connected \in Nat
    BY Ages DEF CameraInv, TypeOK
  <2> QED
    BY <2>2, <2>3, <2>4, CameraAssumption
<1> QED
  BY <1>1, CameraInvariant, PTL DEF Spec, NeverHasty
=============================================================================
