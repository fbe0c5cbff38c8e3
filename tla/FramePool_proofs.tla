-------------------------- MODULE FramePool_proofs --------------------------
(***************************************************************************)
(* Proofs about FramePool, for any number of frames, Image() callers and   *)
(* picture formats and any capacity of the pool.                           *)
(***************************************************************************)
EXTENDS FramePool, SequenceTheorems, TLAPS

(* Where a goroutine stands determines which frames it refers to and whether
   it holds latestFrameMu; nobody stands inside Image() or a callback once
   Close has disconnected. *)
Control ==
  /\ \A t \in Threads :
       /\ hold[t] # NoFrame <=>
            pc[t] \in {"got", "ready", "put", "install", "converting"}
       /\ prev[t] # NoFrame <=> pc[t] = "put"
       /\ latestMu = t <=> pc[t] \in {"put", "install", "converting"}
       /\ pc[t] = "converting" => hold[t] = latest
       /\ pc[t] = "put" => prev[t] = latest
  /\ pc[Receiver] \notin {"image", "convert", "converting"}
  /\ closing \in {"disconnected", "dropped", "closed"} =>
       pc[Receiver] = "stopped" /\ \A c \in Callers : pc[c] = "idle"

ControlInv == TypeOK /\ Control

(* TypeOK in two halves, for the provers' sake. *)
FrameTypes ==
  /\ pool \in Seq(Frames)
  /\ generation \in Nat
  /\ live \in [Frames -> BOOLEAN]
  /\ gen \in [Frames -> Nat]
  /\ fmt \in [Frames -> Formats \union {NoFormat}]
  /\ refs \in [Frames -> Int]
  /\ inPool \in [Frames -> BOOLEAN]
  /\ latest \in Frames \union {NoFrame}

ThreadTypes ==
  /\ latestMu \in Threads \union {NoFrame}
  /\ auMu \in Callers \union {NoFrame}
  /\ pc \in [Threads -> {"idle", "decode", "got", "clear", "remake", "ready",
                         "put", "install", "image", "convert", "converting",
                         "stopped"}]
  /\ hold \in [Threads -> Frames \union {NoFrame}]
  /\ prev \in [Threads -> Frames \union {NoFrame}]
  /\ want \in [Threads -> Formats \union {NoFormat}]
  /\ newGen \in [Threads -> Nat]
  /\ lazy \in BOOLEAN
  /\ seenIDR \in BOOLEAN
  /\ closing \in {"open", "cancelled", "disconnected", "dropped", "closed"}
  /\ panicked \in BOOLEAN

LEMMA TypesSplit == /\ TypeOK <=> FrameTypes /\ ThreadTypes
                    /\ TypeOK' <=> FrameTypes' /\ ThreadTypes'
  BY DEF TypeOK, FrameTypes, ThreadTypes

(* What is left of a stack when its top is popped. *)
LEMMA PrefixProperties ==
  ASSUME NEW S, NEW s \in Seq(S), NEW n \in Nat, n <= Len(s)
  PROVE  /\ SubSeq(s, 1, n) \in Seq(S)
         /\ Len(SubSeq(s, 1, n)) = n
         /\ \A i \in 1..n : SubSeq(s, 1, n)[i] = s[i]
  OBVIOUS

LEMMA PopProperties ==
  ASSUME NEW S, NEW s \in Seq(S), s # <<>>
  PROVE  /\ Len(s) \in 1..Len(s)
         /\ s[Len(s)] \in S
         /\ SubSeq(s, 1, Len(s) - 1) \in Seq(S)
         /\ Len(SubSeq(s, 1, Len(s) - 1)) = Len(s) - 1
         /\ \A i \in 1..Len(s) - 1 : SubSeq(s, 1, Len(s) - 1)[i] = s[i]
<1> DEFINE n == Len(s) - 1
<1>1. n \in Nat /\ n <= Len(s) /\ Len(s) \in 1..Len(s) /\ s[Len(s)] \in S
  BY EmptySeq
<1> HIDE DEF n
<1>2. /\ SubSeq(s, 1, n) \in Seq(S)
      /\ Len(SubSeq(s, 1, n)) = n
      /\ \A i \in 1..n : SubSeq(s, 1, n)[i] = s[i]
  BY <1>1, PrefixProperties
<1> QED
  BY <1>1, <1>2 DEF n

LEMMA ThreadFacts ==
  /\ NoFrame \notin Frames
  /\ NoFrame \notin Threads
  /\ Receiver \in Threads /\ Receiver \notin Callers
  /\ \A c \in Callers : c \in Threads /\ c # Receiver
  /\ \A t \in Threads : t # Receiver => t \in Callers
  BY PoolAssumption DEF Threads

LEMMA InitControl == Init => ControlInv
<1> SUFFICES ASSUME Init PROVE ControlInv
  OBVIOUS
<1>1. FrameTypes
  BY DEF Init, FrameTypes
<1>2. ThreadTypes
  BY DEF Init, ThreadTypes
<1>3. Control
  BY PoolAssumption DEF Init, Control, Threads
<1> QED
  BY <1>1, <1>2, <1>3, TypesSplit DEF ControlInv

(* put() keeps the types of what it changes. *)
LEMMA PutLockedTypes ==
  ASSUME TypeOK, NEW f \in Frames, PutLocked(f)
  PROVE  /\ pool' \in Seq(Frames)
         /\ live' \in [Frames -> BOOLEAN]
         /\ inPool' \in [Frames -> BOOLEAN]
         /\ panicked' \in BOOLEAN
<1>1. Append(pool, f) \in Seq(Frames)
  BY AppendProperties DEF TypeOK
<1> QED
  BY <1>1 DEF PutLocked, Free, TypeOK

LEMMA DecodeControl ==
  ASSUME ControlInv, NEW t \in Threads, Decode(t)
  PROVE  ControlInv'
<1> USE DEF ControlInv
<1>1. ASSUME NEW w \in Formats, GetPooled(t, w)
      PROVE  ControlInv'
  <2>1. /\ pool' = SubSeq(pool, 1, Len(pool) - 1)
        /\ inPool' = [inPool EXCEPT ![pool[Len(pool)]] = FALSE]
        /\ UNCHANGED <<generation, live, gen, fmt, refs, latest>>
    BY <1>1 DEF GetPooled
  <2>2. pool \in Seq(Frames) /\ pool # <<>>
    BY <1>1 DEF GetPooled, TypeOK
  <2>3. /\ pool[Len(pool)] \in Frames
        /\ SubSeq(pool, 1, Len(pool) - 1) \in Seq(Frames)
    BY <2>2, PopProperties
  <2> DEFINE f == pool[Len(pool)]
  <2>4. /\ UNCHANGED <<latest, latestMu, auMu, prev, newGen, lazy, seenIDR,
                       closing, panicked>>
        /\ pc[t] = "decode"
        /\ \/ /\ hold' = [hold EXCEPT ![t] = f]
              /\ want' = [want EXCEPT ![t] = w]
              /\ pc' = [pc EXCEPT ![t] = "got"]
           \/ UNCHANGED <<hold, want, pc>>
    BY <1>1 DEF GetPooled, lockVars
  <2>5. FrameTypes'
    BY <2>1, <2>3 DEF TypeOK, FrameTypes
  <2>6. f \in Frames
    BY <2>3
  <2> HIDE DEF f
  <2>7. CASE /\ hold' = [hold EXCEPT ![t] = f]
             /\ want' = [want EXCEPT ![t] = w]
             /\ pc' = [pc EXCEPT ![t] = "got"]
    <3>1. ThreadTypes'
      BY <2>4, <2>6, <2>7 DEF TypeOK, ThreadTypes
    <3>2. Control'
      BY <2>4, <2>6, <2>7, ThreadFacts DEF TypeOK, Control
    <3> QED
      BY <2>5, <3>1, <3>2, TypesSplit
  <2>8. CASE UNCHANGED <<hold, want, pc>>
    <3>1. ThreadTypes'
      BY <2>4, <2>8 DEF TypeOK, ThreadTypes
    <3>2. Control'
      BY <2>4, <2>8, ThreadFacts DEF TypeOK, Control
    <3> QED
      BY <2>5, <3>1, <3>2, TypesSplit
  <2> QED
    BY <2>4, <2>7, <2>8
<1>2. ASSUME NEW w \in Formats, GetNew(t, w)
      PROVE  ControlInv'
  BY <1>2, ThreadFacts DEF GetNew, Allocate, Fresh, lockVars, TypeOK, Control
<1>3. CASE CopyPicture(t)
  BY <1>3, ThreadFacts DEF CopyPicture, lockVars, TypeOK, Control
<1>4. CASE DecodeFails(t)
  BY <1>4, ThreadFacts DEF DecodeFails, lockVars, TypeOK, Control
<1>5. CASE DiscardOldFormat(t)
  BY <1>5, ThreadFacts DEF DiscardOldFormat, Free, lockVars, TypeOK, Control
<1>6. CASE ClearAndStartNewGeneration(t)
  BY <1>6, ThreadFacts DEF ClearAndStartNewGeneration, FreePooled, lockVars,
                           TypeOK, Control
<1>7. CASE RemakeFrame(t)
  <2>1. /\ pc[t] = "remake"
        /\ newGen' = [newGen EXCEPT ![t] = 0]
        /\ UNCHANGED <<pool, generation, latest, latestMu, auMu, prev, lazy,
                       seenIDR, closing, panicked>>
    BY <1>7 DEF RemakeFrame, lockVars
  <2>2. ASSUME NEW f \in Frames, Allocate(f, newGen[t]), UNCHANGED want,
               hold' = [hold EXCEPT ![t] = f], pc' = [pc EXCEPT ![t] = "got"]
        PROVE  FrameTypes' /\ ThreadTypes' /\ Control'
    <3>1. FrameTypes'
      BY <2>1, <2>2 DEF Allocate, TypeOK, FrameTypes
    <3>2. ThreadTypes'
      BY <2>1, <2>2 DEF TypeOK, ThreadTypes
    <3>3. Control'
      BY <2>1, <2>2, ThreadFacts DEF TypeOK, Control
    <3> QED
      BY <3>1, <3>2, <3>3
  <2>3. ASSUME pc' = [pc EXCEPT ![t] = "decode"], UNCHANGED <<frameVars, hold>>,
               want' = [want EXCEPT ![t] = NoFormat]
        PROVE  FrameTypes' /\ ThreadTypes' /\ Control'
    <3>1. FrameTypes'
      BY <2>1, <2>3 DEF frameVars, TypeOK, FrameTypes
    <3>2. ThreadTypes'
      BY <2>1, <2>3 DEF TypeOK, ThreadTypes
    <3>3. Control'
      BY <2>1, <2>3, ThreadFacts DEF TypeOK, Control
    <3> QED
      BY <3>1, <3>2, <3>3
  <2> QED
    BY <1>7, <2>2, <2>3, TypesSplit DEF RemakeFrame
<1>8. CASE DisplaceLatest(t)
  <2>1. /\ pc[t] = "ready" /\ latestMu = NoFrame /\ latestMu' = t
        /\ UNCHANGED <<pool, generation, live, gen, fmt, inPool, latest, auMu,
                       hold, want, newGen, lazy, seenIDR, closing>>
    BY <1>8 DEF DisplaceLatest
  <2>2. \/ /\ pc' = [pc EXCEPT ![t] = "install"]
           /\ UNCHANGED prev
        \/ /\ latest # NoFrame
           /\ pc' = [pc EXCEPT ![t] = "put"]
           /\ prev' = [prev EXCEPT ![t] = latest]
    BY <1>8 DEF DisplaceLatest
  <2>3. refs' \in [Frames -> Int] /\ panicked' \in BOOLEAN
    <3>1. CASE latest = NoFrame
      BY <1>8, <3>1 DEF DisplaceLatest, TypeOK
    <3>2. CASE latest # NoFrame
      <4>1. latest \in Frames /\ DecrementRefs(latest)
        BY <1>8, <3>2 DEF DisplaceLatest, TypeOK
      <4> QED
        BY <4>1 DEF DecrementRefs, TypeOK
    <3> QED
      BY <3>1, <3>2
  <2>4. FrameTypes'
    BY <2>1, <2>3 DEF TypeOK, FrameTypes
  <2>5. ThreadTypes'
    BY <2>1, <2>2, <2>3 DEF TypeOK, ThreadTypes
  <2>6. Control'
    BY <2>1, <2>2, ThreadFacts DEF TypeOK, Control
  <2> QED
    BY <2>4, <2>5, <2>6, TypesSplit
<1>9. CASE PutDisplaced(t)
  <2>1. prev[t] \in Frames
    BY <1>9 DEF PutDisplaced, TypeOK, Control
  <2>2. FrameTypes'
    BY <1>9, <2>1, PutLockedTypes DEF PutDisplaced, TypeOK, FrameTypes
  <2>3. ThreadTypes'
    BY <1>9, <2>1, PutLockedTypes DEF PutDisplaced, lockVars, TypeOK,
                                      ThreadTypes
  <2>4. Control'
    BY <1>9, ThreadFacts DEF PutDisplaced, lockVars, TypeOK, Control
  <2> QED
    BY <2>2, <2>3, <2>4, TypesSplit
<1>10. CASE InstallLatest(t)
  <2>1. TypeOK'
    BY <1>10 DEF InstallLatest, TypeOK, Control
  <2>2. Control'
    BY <1>10, ThreadFacts DEF InstallLatest, TypeOK, Control
  <2> QED
    BY <2>1, <2>2
<1> QED
  BY <1>1, <1>2, <1>3, <1>4, <1>5, <1>6, <1>7, <1>8, <1>9, <1>10 DEF Decode

LEMMA ImageControl ==
  ASSUME ControlInv, NEW c \in Callers, Image(c)
  PROVE  ControlInv'
<1> USE DEF ControlInv
<1>1. CASE BeginImage(c)
  BY <1>1, ThreadFacts DEF BeginImage, frameVars, lockVars, TypeOK, Control
<1>2. CASE BeginLazyDecode(c)
  BY <1>2, ThreadFacts DEF BeginLazyDecode, frameVars, TypeOK, Control
<1>3. CASE EndLazyDecode(c)
  BY <1>3, ThreadFacts DEF EndLazyDecode, frameVars, TypeOK, Control
<1>4. CASE SkipLazyDecode(c)
  BY <1>4, ThreadFacts DEF SkipLazyDecode, frameVars, lockVars, TypeOK, Control
<1>5. CASE ImageFails(c)
  BY <1>5, ThreadFacts DEF ImageFails, frameVars, lockVars, TypeOK, Control
<1>6. CASE BeginConvert(c)
  BY <1>6, ThreadFacts DEF BeginConvert, TypeOK, Control
<1>7. CASE EndConvert(c)
  <2>1. hold[c] \in Frames /\ pc[c] = "converting"
    BY <1>7, ThreadFacts DEF EndConvert, TypeOK, Control
  <2>2. /\ pool' \in Seq(Frames)
        /\ live' \in [Frames -> BOOLEAN]
        /\ inPool' \in [Frames -> BOOLEAN]
        /\ panicked' \in BOOLEAN
    <3>1. CASE PutLocked(hold[c])
      BY <3>1, <2>1, PutLockedTypes
    <3>2. CASE /\ panicked' = (panicked \/ refs[hold[c]] = 0)
               /\ UNCHANGED <<pool, live, inPool>>
      BY <3>2 DEF TypeOK
    <3> QED
      BY <1>7, <3>1, <3>2 DEF EndConvert
  <2>3. /\ refs' = [refs EXCEPT ![hold[c]] = @ - 1]
        /\ hold' = [hold EXCEPT ![c] = NoFrame]
        /\ latestMu' = NoFrame
        /\ pc' = [pc EXCEPT ![c] = "idle"]
        /\ UNCHANGED <<generation, gen, fmt, latest, auMu, prev, want, newGen,
                       lazy, seenIDR, closing>>
    BY <1>7 DEF EndConvert
  <2>4. FrameTypes'
    BY <2>1, <2>2, <2>3 DEF TypeOK, FrameTypes
  <2>5. ThreadTypes'
    BY <2>2, <2>3 DEF TypeOK, ThreadTypes
  <2>6. Control'
    BY <2>1, <2>3, ThreadFacts DEF TypeOK, Control
  <2> QED
    BY <2>4, <2>5, <2>6, TypesSplit
<1> QED
  BY <1>1, <1>2, <1>3, <1>4, <1>5, <1>6, <1>7 DEF Image

LEMMA CloseControl ==
  ASSUME ControlInv, Close
  PROVE  ControlInv'
<1> USE DEF ControlInv
<1>1. CASE BeginClose
  BY <1>1, ThreadFacts DEF BeginClose, frameVars, threadVars, lockVars,
                           TypeOK, Control
<1>2. CASE CloseConnection
  BY <1>2, ThreadFacts DEF CloseConnection, frameVars, lockVars, TypeOK, Control
<1>3. CASE DropLatest
  <2>1. /\ closing = "disconnected"
        /\ latest' = NoFrame
        /\ closing' = "dropped"
        /\ UNCHANGED <<generation, gen, fmt, latestMu, auMu, pc, hold, prev,
                       want, newGen, lazy, seenIDR>>
    BY <1>3 DEF DropLatest, lockVars, threadVars
  <2>2. /\ pool' \in Seq(Frames)
        /\ live' \in [Frames -> BOOLEAN]
        /\ inPool' \in [Frames -> BOOLEAN]
        /\ refs' \in [Frames -> Int]
        /\ panicked' \in BOOLEAN
    <3>1. CASE latest = NoFrame
      BY <1>3, <3>1 DEF DropLatest, TypeOK
    <3>2. CASE latest # NoFrame /\ PutLocked(latest)
      BY <1>3, <3>2, PutLockedTypes DEF DropLatest, TypeOK
    <3>3. CASE /\ latest # NoFrame
               /\ panicked' = (panicked \/ refs[latest] = 0)
               /\ UNCHANGED <<pool, live, inPool>>
      BY <1>3, <3>3 DEF DropLatest, TypeOK
    <3> QED
      BY <1>3, <3>1, <3>2, <3>3 DEF DropLatest
  <2>3. FrameTypes'
    BY <2>1, <2>2 DEF TypeOK, FrameTypes
  <2>4. ThreadTypes'
    BY <2>1, <2>2 DEF TypeOK, ThreadTypes
  <2>5. Control'
    BY <2>1, ThreadFacts DEF TypeOK, Control
  <2> QED
    BY <2>3, <2>4, <2>5, TypesSplit
<1>4. CASE ClosePool
  BY <1>4, ThreadFacts DEF ClosePool, FreePooled, threadVars, lockVars,
                           TypeOK, Control
<1> QED
  BY <1>1, <1>2, <1>3, <1>4 DEF Close

LEMMA NextControl == ControlInv /\ [Next]_vars => ControlInv'
<1> SUFFICES ASSUME ControlInv, [Next]_vars
             PROVE  ControlInv'
  OBVIOUS
<1>1. ASSUME NEW t \in Threads, Decode(t)
      PROVE  ControlInv'
  BY <1>1, DecodeControl
<1>2. ASSUME NEW c \in Callers, Image(c)
      PROVE  ControlInv'
  BY <1>2, ImageControl
<1>3. CASE BeginAccessUnit
  BY <1>3, ThreadFacts DEF BeginAccessUnit, frameVars, lockVars, ControlInv,
                           TypeOK, Control
<1>4. CASE EndAccessUnit
  BY <1>4, ThreadFacts DEF EndAccessUnit, frameVars, lockVars, ControlInv,
                           TypeOK, Control
<1>5. CASE Reconnect
  BY <1>5, ThreadFacts DEF Reconnect, frameVars, lockVars, threadVars,
                           ControlInv, TypeOK, Control
<1>6. CASE Close
  BY <1>6, CloseControl
<1>7. CASE UNCHANGED vars
  BY <1>7, ThreadFacts DEF vars, frameVars, lockVars, threadVars, ControlInv,
                           TypeOK, Control
<1> QED
  BY <1>1, <1>2, <1>3, <1>4, <1>5, <1>6, <1>7 DEF Next, Closed

(* Every variable keeps its type: in particular put() is never given a nil
   frame, and only frames ever reach the pool. *)
THEOREM FramePoolTypeOK == Spec => []TypeOK
<1>1. Spec => []ControlInv
  BY InitControl, NextControl, PTL DEF Spec
<1> QED
  BY <1>1, PTL DEF ControlInv

----------------------------------------------------------------------------
(* The invariants the runs check, with Control, are inductive once it is
   added that the frame about to be put back is not the one to be installed. *)
NotDisplaced == \A t \in Threads : pc[t] = "put" => hold[t] # prev[t]

Safety ==
  /\ NoPanic
  /\ NoUseAfterFree
  /\ WriterIsAlone
  /\ PutNeverRefused
  /\ PoolConsistent
  /\ RefsAreExact
  /\ NotDisplaced

PoolInv == ControlInv /\ Safety

(* f is the frame of a conversion under way. *)
Converted(f) == \E c \in Callers : pc[c] = "converting" /\ hold[c] = f

(* What the holder of latestFrameMu may assume of the slot, and what anybody
   may assume of the frames goroutines refer to. *)
LEMMA PublishedCases ==
  ASSUME ControlInv
  PROVE  /\ Published \in {latest, NoFrame}
         /\ latestMu = NoFrame => Published = latest /\ \A f : ~Converted(f)
         /\ \A t \in Threads :
              /\ pc[t] = "converting" => Published = latest
              /\ pc[t] \in {"put", "install"} =>
                   /\ Published = NoFrame
                   /\ \A f : ~Converted(f)
                   /\ \A u \in Threads \ {t} : pc[u] \notin {"put", "install"}
  BY ThreadFacts DEF ControlInv, Control, TypeOK, Published, Converted

LEMMA UsedFrames ==
  ASSUME PoolInv, NEW t \in Threads
  PROVE  /\ hold[t] # NoFrame => hold[t] \in Frames /\ hold[t] \notin Pooled
         /\ prev[t] # NoFrame => prev[t] \in Frames /\ prev[t] \notin Pooled
         /\ Decoding(t) => /\ hold[t] \in Frames
                           /\ live[hold[t]]
                           /\ ~inPool[hold[t]]
                           /\ refs[hold[t]] = 0
<1>1. /\ hold[t] # NoFrame => hold[t] \in Frames
      /\ prev[t] # NoFrame => prev[t] \in Frames /\ pc[t] = "put"
      /\ hold[t] # NoFrame => Decoding(t) \/ pc[t] = "converting"
      /\ Decoding(t) => hold[t] # NoFrame /\ pc[t] # "converting"
      /\ pc[t] = "converting" => hold[t] = latest
  BY DEF PoolInv, ControlInv, Control, TypeOK, Decoding
<1>2. Decoding(t) => hold[t] \notin Pooled /\ hold[t] # Published
  BY DEF PoolInv, Safety, WriterIsAlone
<1>3. pc[t] = "converting" => hold[t] = Published
  BY <1>1, PublishedCases DEF PoolInv
<1>4. hold[t] # NoFrame => hold[t] \notin Pooled
  BY <1>1, <1>2, <1>3 DEF PoolInv, Safety, PutNeverRefused
<1>5. prev[t] # NoFrame => prev[t] \notin Pooled
  BY <1>1 DEF PoolInv, Safety, PutNeverRefused
<1>6. Decoding(t) => live[hold[t]]
  BY <1>1 DEF PoolInv, Safety, NoUseAfterFree
<1>7. Decoding(t) => ~inPool[hold[t]]
  BY <1>1, <1>2, <1>6 DEF PoolInv, Safety, PoolConsistent
<1>8. Decoding(t) => ~Converted(hold[t])
  <2>1. ASSUME Decoding(t), NEW c \in Callers, pc[c] = "converting"
        PROVE  hold[c] # hold[t]
    BY <2>1, <1>1, ThreadFacts DEF PoolInv, Safety, WriterIsAlone
  <2> QED
    BY <2>1 DEF Converted
<1>9. Decoding(t) => refs[hold[t]] = 0
  BY <1>1, <1>2, <1>6, <1>8 DEF PoolInv, Safety, RefsAreExact, Converted
<1> QED
  BY <1>1, <1>4, <1>5, <1>6, <1>7, <1>9

(* get() takes a frame off the stack. *)
LEMMA PopPooled ==
  ASSUME TypeOK, PoolConsistent, pool # <<>>,
         pool' = SubSeq(pool, 1, Len(pool) - 1)
  PROVE  /\ pool[Len(pool)] \in Pooled
         /\ Pooled' = Pooled \ {pool[Len(pool)]}
         /\ \A i, j \in DOMAIN pool' : pool'[i] = pool'[j] => i = j
         /\ Len(pool') <= MaxNumFrames
<1>1. pool \in Seq(Frames)
  BY DEF TypeOK
<1>2. /\ Len(pool) \in 1..Len(pool)
      /\ pool[Len(pool)] \in Frames
      /\ pool' \in Seq(Frames)
      /\ Len(pool') = Len(pool) - 1
      /\ \A i \in 1..Len(pool) - 1 : pool'[i] = pool[i]
  BY <1>1, PopProperties
<1>3. /\ DOMAIN pool = 1..Len(pool)
      /\ DOMAIN pool' = 1..Len(pool) - 1
      /\ Len(pool) \in Nat
  BY <1>1, <1>2
<1>4. \A i, j \in 1..Len(pool) : pool[i] = pool[j] => i = j
  BY <1>3 DEF PoolConsistent
<1>5. Len(pool') <= MaxNumFrames
  BY <1>2, <1>3, PoolAssumption DEF PoolConsistent
<1>6. \A i, j \in DOMAIN pool' : pool'[i] = pool'[j] => i = j
  BY <1>2, <1>3, <1>4
<1>7. pool[Len(pool)] \in Pooled
  BY <1>2, <1>3 DEF Pooled
<1>8. ASSUME NEW f \in Frames
      PROVE  f \in Pooled' <=> f \in Pooled /\ f # pool[Len(pool)]
  <2>1. f \in Pooled <=> \E i \in 1..Len(pool) : pool[i] = f
    BY <1>3 DEF Pooled
  <2>2. f \in Pooled' <=> \E i \in 1..Len(pool) - 1 : pool[i] = f
    BY <1>2, <1>3 DEF Pooled
  <2> QED
    BY <2>1, <2>2, <1>2, <1>3, <1>4
<1> QED
  BY <1>5, <1>6, <1>7, <1>8 DEF Pooled

(* put() of a frame that is alive and not in the pool. *)
LEMMA PutLockedEffect ==
  ASSUME TypeOK, PoolConsistent, NoPanic, \A g \in Pooled : live[g],
         NEW f \in Frames, PutAccepts(f), f \notin Pooled, PutLocked(f),
         UNCHANGED <<gen, generation>>
  PROVE  /\ NoPanic'
         /\ PoolConsistent'
         /\ \A g \in Pooled' : live'[g]
         /\ \A g \in Frames \ {f} : /\ live'[g] = live[g]
                                    /\ inPool'[g] = inPool[g]
                                    /\ g \in Pooled' <=> g \in Pooled
         /\ live'[f] => live[f]
<1> USE DEF PutAccepts, NoPanic
<1>1. CASE gen[f] # generation /\ UNCHANGED <<pool, live, inPool, panicked>>
  BY <1>1 DEF PoolConsistent, Pooled
<1>2. CASE /\ Len(pool) >= MaxNumFrames
           /\ Free(f)
           /\ UNCHANGED <<pool, inPool>>
  <2>1. /\ live' = [live EXCEPT ![f] = FALSE]
        /\ panicked' = FALSE
        /\ UNCHANGED <<pool, inPool>>
    BY <1>2 DEF Free
  <2>2. Pooled' = Pooled
    BY <2>1 DEF Pooled
  <2> QED
    BY <2>1, <2>2 DEF PoolConsistent, TypeOK, Pooled
<1>3. CASE /\ gen[f] = generation
           /\ Len(pool) < MaxNumFrames
           /\ pool' = Append(pool, f)
           /\ inPool' = [inPool EXCEPT ![f] = TRUE]
           /\ UNCHANGED <<live, panicked>>
  <2>1. /\ pool \in Seq(Frames)
        /\ Append(pool, f) \in Seq(Frames)
        /\ Len(pool) \in Nat
        /\ Len(pool') = Len(pool) + 1
        /\ \A i \in 1..Len(pool) : pool'[i] = pool[i]
        /\ pool'[Len(pool) + 1] = f
    BY <1>3, AppendProperties DEF TypeOK
  <2>2. DOMAIN pool = 1..Len(pool) /\ DOMAIN pool' = 1..Len(pool) + 1
    BY <1>3, <2>1
  <2>3. Pooled' = Pooled \union {f}
    <3>1. ASSUME NEW g \in Frames
          PROVE  g \in Pooled' <=> g \in Pooled \/ g = f
      <4>1. g \in Pooled <=> \E i \in 1..Len(pool) : pool[i] = g
        BY <2>2 DEF Pooled
      <4>2. g \in Pooled' <=> \E i \in 1..Len(pool) + 1 : pool'[i] = g
        BY <2>2 DEF Pooled
      <4> QED
        BY <4>1, <4>2, <2>1
    <3> QED
      BY <3>1 DEF Pooled
  <2>4. \A i, j \in DOMAIN pool' : pool'[i] = pool'[j] => i = j
    <3>1. \A i \in 1..Len(pool) : pool[i] # f
      BY <2>2 DEF Pooled
    <3>2. \A i, j \in 1..Len(pool) : pool[i] = pool[j] => i = j
      BY <2>2 DEF PoolConsistent
    <3> QED
      BY <3>1, <3>2, <2>1, <2>2
  <2>5. Len(pool') <= MaxNumFrames
    BY <1>3, <2>1, PoolAssumption
  <2>6. \A g \in Frames : live'[g] => (inPool'[g] <=> g \in Pooled')
    BY <1>3, <2>3 DEF PoolConsistent, TypeOK
  <2>7. \A g \in Pooled' : gen'[g] = generation' /\ live'[g]
    BY <1>3, <2>3 DEF PoolConsistent
  <2>8. PoolConsistent'
    BY <2>4, <2>5, <2>6, <2>7 DEF PoolConsistent
  <2> QED
    BY <1>3, <2>3, <2>7, <2>8 DEF TypeOK
<1> QED
  BY <1>1, <1>2, <1>3 DEF PutLocked

----------------------------------------------------------------------------
(* Steps that move a goroutine between places where it has no frame. *)
Using == {"got", "ready", "put", "install", "converting"}

LEMMA QuietStep ==
  ASSUME PoolInv, ControlInv',
         UNCHANGED <<pool, generation, frameVars, latest, hold, prev, panicked>>,
         \A t \in Threads : pc'[t] = pc[t] \/ {pc[t], pc'[t]} \cap Using = {}
  PROVE  PoolInv'
<1>1. \A t \in Threads : \A s \in Using : pc'[t] = s <=> pc[t] = s
  BY DEF Using
<1>2. Published' = Published
  BY <1>1 DEF Published, Using
<1>3. \A t \in Threads : Decoding(t)' <=> Decoding(t)
  BY <1>1 DEF Decoding, Using
<1>4. Pooled' = Pooled
  BY DEF Pooled
<1>5. NoPanic' /\ NoUseAfterFree' /\ PoolConsistent'
  BY <1>2, <1>4 DEF PoolInv, Safety, NoPanic, NoUseAfterFree, PoolConsistent,
                    frameVars
<1>6. WriterIsAlone' /\ NotDisplaced'
  BY <1>1, <1>2, <1>3, <1>4 DEF PoolInv, Safety, WriterIsAlone, NotDisplaced,
                                Using
<1>7. PutNeverRefused'
  BY <1>1, <1>2, <1>4 DEF PoolInv, Safety, PutNeverRefused, PutAccepts, Using,
                          frameVars
<1>8. RefsAreExact'
  BY <1>1, <1>2, ThreadFacts DEF PoolInv, Safety, RefsAreExact, Using, frameVars
<1> QED
  BY <1>5, <1>6, <1>7, <1>8 DEF PoolInv, Safety

(* A decoder's step leaves the slot and the conversions alone, unless it takes
   latestFrameMu. *)
LEMMA DecoderStep ==
  ASSUME PoolInv, NEW t \in Threads, NEW s, UNCHANGED latest,
         pc' = [pc EXCEPT ![t] = s],
         pc[t] \notin {"put", "install", "converting"},
         s \notin {"put", "install", "converting"},
         \A u \in Threads \ {t} : hold'[u] = hold[u]
  PROVE  /\ Published' = Published
         /\ \A f : Converted(f)' <=> Converted(f)
<1>1. \A u \in Threads :
        /\ pc'[u] \in {"put", "install"} <=> pc[u] \in {"put", "install"}
        /\ pc'[u] = "converting" <=> pc[u] = "converting"
        /\ pc[u] = "converting" => u # t
  BY DEF PoolInv, ControlInv, TypeOK
<1> QED
  BY <1>1, ThreadFacts DEF Published, Converted

(* A wrapper that is made belongs to its maker only. *)
LEMMA AllocateStep ==
  ASSUME PoolInv, ControlInv', NEW t \in Threads, NEW f \in Frames, NEW g,
         Allocate(f, g), hold' = [hold EXCEPT ![t] = f], hold[t] = NoFrame,
         pc[t] \in {"decode", "remake"}, pc' = [pc EXCEPT ![t] = "got"],
         UNCHANGED <<pool, generation, latest, prev, panicked>>
  PROVE  PoolInv'
<1>1. /\ f \notin Pooled /\ ~live[f] /\ f # latest
      /\ \A u \in Threads : f # hold[u] /\ f # prev[u]
  BY DEF Allocate, Fresh, Reachable, Pooled
<1>2. /\ live' = [live EXCEPT ![f] = TRUE]
      /\ refs' = [refs EXCEPT ![f] = 0]
      /\ inPool' = [inPool EXCEPT ![f] = FALSE]
      /\ gen' = [gen EXCEPT ![f] = g]
  BY DEF Allocate
<1>3. Published' = Published /\ \A h : Converted(h)' <=> Converted(h)
  <2>1. \A u \in Threads \ {t} : hold'[u] = hold[u]
    BY DEF PoolInv, ControlInv, TypeOK
  <2> QED
    BY <2>1, DecoderStep
<1>4. Published \in {latest, NoFrame}
  BY PublishedCases DEF PoolInv
<1>5. Pooled' = Pooled
  BY DEF Pooled
<1>6. \A u \in Threads : u # t => /\ Decoding(u)' <=> Decoding(u)
                                  /\ hold'[u] = hold[u]
                                  /\ pc'[u] = pc[u]
  BY DEF PoolInv, ControlInv, TypeOK, Decoding
<1>7. /\ hold'[t] = f /\ prev[t] = NoFrame /\ pc'[t] = "got"
      /\ f # NoFrame
  BY ThreadFacts DEF PoolInv, ControlInv, TypeOK, Control
<1>8. NoPanic' /\ NoUseAfterFree'
  BY <1>1, <1>2, <1>3, <1>5, <1>6, <1>7 DEF PoolInv, ControlInv, TypeOK, Safety,
       NoPanic, NoUseAfterFree, Pooled
<1>9. PoolConsistent'
  BY <1>1, <1>2, <1>5 DEF PoolInv, ControlInv, TypeOK, Safety, PoolConsistent,
                          Pooled
<1>10. WriterIsAlone'
  BY <1>1, <1>3, <1>4, <1>5, <1>6, <1>7, ThreadFacts DEF PoolInv, Safety,
       WriterIsAlone
<1>11. PutNeverRefused' /\ NotDisplaced'
  BY <1>1, <1>2, <1>3, <1>4, <1>5, <1>6, <1>7 DEF PoolInv, ControlInv, TypeOK,
       Safety, PutNeverRefused, PutAccepts, NotDisplaced
<1>12. RefsAreExact'
  <2>1. \A h \in Frames :
          live[h] => refs[h] = (IF h = Published THEN 1 ELSE 0)
                               + (IF Converted(h) THEN 1 ELSE 0)
    BY DEF PoolInv, Safety, RefsAreExact, Converted
  <2>2. f # Published /\ ~Converted(f)
    BY <1>1, <1>4, <1>7, ThreadFacts DEF Converted
  <2>3. \A h \in Frames :
          live'[h] => refs'[h] = (IF h = Published' THEN 1 ELSE 0)
                                 + (IF Converted(h)' THEN 1 ELSE 0)
    BY <2>1, <2>2, <1>2, <1>3 DEF PoolInv, ControlInv, TypeOK
  <2> QED
    BY <2>3 DEF RefsAreExact, Converted
<1> QED
  BY <1>8, <1>9, <1>10, <1>11, <1>12 DEF PoolInv, Safety

----------------------------------------------------------------------------
(* RefsAreExact in terms of Converted. *)
LEMMA RefsForm ==
  /\ RefsAreExact <=>
       \A h \in Frames :
          live[h] => refs[h] = (IF h = Published THEN 1 ELSE 0)
                               + (IF Converted(h) THEN 1 ELSE 0)
  /\ RefsAreExact' <=>
       \A h \in Frames :
          live'[h] => refs'[h] = (IF h = Published' THEN 1 ELSE 0)
                                 + (IF Converted(h)' THEN 1 ELSE 0)
  BY DEF RefsAreExact, Converted

LEMMA GetPooledSafety ==
  ASSUME PoolInv, ControlInv', NEW t \in Threads, NEW w \in Formats,
         GetPooled(t, w)
  PROVE  PoolInv'
<1> DEFINE f == pool[Len(pool)]
<1>1. TypeOK /\ PoolConsistent /\ RefsAreExact /\ pool # <<>> /\ pc[t] = "decode"
  BY DEF PoolInv, ControlInv, Safety, GetPooled
<1>2. /\ f \in Pooled /\ f \in Frames
      /\ Pooled' = Pooled \ {f}
      /\ \A i, j \in DOMAIN pool' : pool'[i] = pool'[j] => i = j
      /\ Len(pool') <= MaxNumFrames
  BY <1>1, PopPooled DEF GetPooled, Pooled
<1>3. live[f]
  BY <1>2 DEF PoolInv, Safety, NoUseAfterFree
<1>4. /\ inPool' = [inPool EXCEPT ![f] = FALSE]
      /\ hold' = [hold EXCEPT ![t] = f]
      /\ pc' = [pc EXCEPT ![t] = "got"]
      /\ UNCHANGED <<generation, live, gen, fmt, refs, latest, prev, panicked>>
  BY <1>3 DEF GetPooled
<1> HIDE DEF f
<1>5. /\ hold'[t] = f /\ pc'[t] = "got" /\ prev[t] = NoFrame
      /\ \A u \in Threads : u # t => /\ hold'[u] = hold[u]
                                     /\ pc'[u] = pc[u]
                                     /\ Decoding(u)' <=> Decoding(u)
  BY <1>1, <1>4 DEF PoolInv, ControlInv, Control, TypeOK, Decoding
<1>6. Published' = Published /\ \A h : Converted(h)' <=> Converted(h)
  BY <1>1, <1>4, <1>5, DecoderStep
<1>7. /\ f # Published
      /\ \A u \in Threads : f # hold[u] /\ f # prev[u]
  BY <1>2, UsedFrames, ThreadFacts DEF PoolInv, Safety, PutNeverRefused
<1>8. NoPanic' /\ NoUseAfterFree'
  BY <1>2, <1>3, <1>4, <1>5, <1>6 DEF PoolInv, Safety, NoPanic, NoUseAfterFree
<1>9. PoolConsistent'
  <2>1. \A h \in Frames : live'[h] => (inPool'[h] <=> h \in Pooled')
    BY <1>1, <1>2, <1>4 DEF PoolConsistent, TypeOK
  <2>2. \A h \in Pooled' : gen'[h] = generation'
    BY <1>1, <1>2, <1>4 DEF PoolConsistent
  <2> QED
    BY <1>2, <2>1, <2>2 DEF PoolConsistent
<1>10. WriterIsAlone'
  BY <1>2, <1>4, <1>5, <1>6, <1>7 DEF PoolInv, Safety, WriterIsAlone
<1>11. PutNeverRefused'
  <2>1. Published # NoFrame =>
          live[Published] /\ ~inPool[Published] /\ Published \in Frames
    BY PublishedCases DEF PoolInv, ControlInv, TypeOK, Safety, PutNeverRefused,
         PutAccepts
  <2>2. \A u \in Threads : pc[u] = "put" =>
          prev[u] \in Frames /\ live[prev[u]] /\ ~inPool[prev[u]]
    BY UsedFrames DEF PoolInv, ControlInv, Control, Safety, PutNeverRefused,
         PutAccepts
  <2> QED
    BY <1>1, <1>2, <1>4, <1>5, <1>6, <2>1, <2>2 DEF PoolInv, Safety, TypeOK,
         PutNeverRefused, PutAccepts
<1>12. NotDisplaced'
  BY <1>4, <1>5 DEF PoolInv, Safety, NotDisplaced
<1>13. RefsAreExact'
  BY <1>1, <1>4, <1>6, RefsForm
<1> QED
  BY <1>8, <1>9, <1>10, <1>11, <1>12, <1>13 DEF PoolInv, Safety

(* The decoder overwrites or forgets its frame. *)
LEMMA CopyPictureSafety ==
  ASSUME PoolInv, ControlInv', NEW t \in Threads, CopyPicture(t) \/ DecodeFails(t)
  PROVE  PoolInv'
<1>1. /\ pc[t] = "got"
      /\ UNCHANGED <<pool, generation, live, gen, refs, inPool, latest, prev,
                     panicked>>
  BY DEF CopyPicture, DecodeFails
<1>2. \/ UNCHANGED hold /\ pc' = [pc EXCEPT ![t] = "ready"]
      \/ hold' = [hold EXCEPT ![t] = NoFrame] /\ pc' = [pc EXCEPT ![t] = "decode"]
  BY DEF CopyPicture, DecodeFails
<1>3. /\ \A u \in Threads : /\ hold'[u] \in {hold[u], NoFrame}
                            /\ Decoding(u)' => Decoding(u) /\ hold'[u] = hold[u]
                            /\ pc'[u] = "put" <=> pc[u] = "put"
      /\ \A u \in Threads \ {t} : hold'[u] = hold[u]
  BY <1>1, <1>2 DEF PoolInv, ControlInv, TypeOK, Decoding
<1>4. Published' = Published /\ \A h : Converted(h)' <=> Converted(h)
  <2>1. CASE pc' = [pc EXCEPT ![t] = "ready"]
    BY <2>1, <1>1, <1>3, DecoderStep
  <2>2. CASE pc' = [pc EXCEPT ![t] = "decode"]
    BY <2>2, <1>1, <1>3, DecoderStep
  <2> QED
    BY <2>1, <2>2, <1>2
<1>5. Pooled' = Pooled
  BY <1>1 DEF Pooled
<1>6. NoPanic' /\ NoUseAfterFree' /\ PoolConsistent'
  BY <1>1, <1>3, <1>4, <1>5 DEF PoolInv, Safety, NoPanic, NoUseAfterFree,
       PoolConsistent
<1>7. WriterIsAlone'
  BY <1>1, <1>3, <1>4, <1>5, ThreadFacts, UsedFrames DEF PoolInv, Safety,
       WriterIsAlone
<1>8. PutNeverRefused'
  BY <1>1, <1>3, <1>4, <1>5 DEF PoolInv, Safety, PutNeverRefused, PutAccepts
<1>9. NotDisplaced'
  BY <1>1, <1>3, ThreadFacts DEF PoolInv, ControlInv, Control, Safety,
       NotDisplaced
<1>10. RefsAreExact'
  BY <1>1, <1>4, RefsForm DEF PoolInv, Safety
<1> QED
  BY <1>6, <1>7, <1>8, <1>9, <1>10 DEF PoolInv, Safety

LEMMA DiscardSafety ==
  ASSUME PoolInv, ControlInv', NEW t \in Threads, DiscardOldFormat(t)
  PROVE  PoolInv'
<1> DEFINE f == hold[t]
<1>1. /\ pc[t] = "got" /\ Decoding(t)
      /\ hold' = [hold EXCEPT ![t] = NoFrame]
      /\ pc' = [pc EXCEPT ![t] = "clear"]
      /\ Free(f)
      /\ UNCHANGED <<pool, generation, gen, refs, inPool, latest, prev>>
  BY DEF DiscardOldFormat, Decoding
<1>2. f \in Frames /\ live[f] /\ f \notin Pooled /\ f # Published
  BY <1>1, UsedFrames DEF PoolInv, Safety, WriterIsAlone
<1>3. \A u \in Threads : u # t => f # hold[u] /\ f # prev[u]
  BY <1>1 DEF PoolInv, Safety, WriterIsAlone
<1>4. live' = [live EXCEPT ![f] = FALSE] /\ ~panicked'
  BY <1>1, <1>2 DEF Free, PoolInv, Safety, NoPanic
<1> HIDE DEF f
<1>5. /\ hold'[t] = NoFrame /\ prev[t] = NoFrame
      /\ ~Decoding(t)' /\ pc'[t] = "clear"
      /\ \A u \in Threads : u # t => /\ hold'[u] = hold[u]
                                     /\ pc'[u] = pc[u]
                                     /\ Decoding(u)' <=> Decoding(u)
  BY <1>1 DEF PoolInv, ControlInv, Control, TypeOK, Decoding
<1>6. Published' = Published /\ \A h : Converted(h)' <=> Converted(h)
  BY <1>1, <1>5, DecoderStep
<1>7. Pooled' = Pooled
  BY <1>1 DEF Pooled
<1>8. \A h \in Frames : /\ h # f => live'[h] = live[h]
                        /\ live'[h] => live[h]
  BY <1>2, <1>4 DEF PoolInv, ControlInv, TypeOK
<1>9. Published # NoFrame => Published \in Frames
  BY PublishedCases DEF PoolInv, ControlInv, TypeOK
<1>10. NoPanic' /\ NoUseAfterFree'
  <2>1. \A g \in Pooled' : live'[g]
    BY <1>2, <1>7, <1>8 DEF PoolInv, Safety, NoUseAfterFree, Pooled
  <2>2. Published' # NoFrame => live'[Published']
    BY <1>2, <1>6, <1>8, <1>9, <1>1 DEF PoolInv, Safety, NoUseAfterFree
  <2>3. \A u \in Threads :
          /\ hold'[u] # NoFrame => live'[hold'[u]]
          /\ prev'[u] # NoFrame => live'[prev'[u]]
    BY <1>1, <1>3, <1>5, <1>8, UsedFrames DEF PoolInv, Safety, NoUseAfterFree
  <2> QED
    BY <1>4, <2>1, <2>2, <2>3 DEF NoPanic, NoUseAfterFree
<1>11. PoolConsistent'
  BY <1>1, <1>7, <1>8 DEF PoolInv, Safety, PoolConsistent
<1>12. WriterIsAlone'
  BY <1>1, <1>5, <1>6, <1>7, UsedFrames, ThreadFacts DEF PoolInv, Safety,
       WriterIsAlone, ControlInv, Control, Decoding
<1>13. PutNeverRefused'
  <2>1. Published' # NoFrame =>
          /\ live'[Published'] /\ ~inPool'[Published']
          /\ Published' \notin Pooled'
    BY <1>1, <1>2, <1>6, <1>7, <1>8, <1>9 DEF PoolInv, Safety, PutNeverRefused,
         PutAccepts
  <2>2. ASSUME NEW u \in Threads, pc'[u] = "put"
        PROVE  live'[prev'[u]] /\ ~inPool'[prev'[u]] /\ prev'[u] \notin Pooled'
    <3>1. u # t /\ pc[u] = "put" /\ prev[u] # NoFrame
      BY <2>2, <1>5 DEF PoolInv, ControlInv, Control
    <3>2. prev[u] \in Frames /\ prev[u] # f
      BY <3>1, <1>3, UsedFrames
    <3> QED
      BY <3>1, <3>2, <1>1, <1>7, <1>8 DEF PoolInv, Safety, PutNeverRefused,
           PutAccepts
  <2> QED
    BY <2>1, <2>2 DEF PutNeverRefused, PutAccepts
<1>14. NotDisplaced'
  BY <1>1, <1>5 DEF PoolInv, Safety, NotDisplaced
<1>15. RefsAreExact'
  BY <1>1, <1>6, <1>8, RefsForm DEF PoolInv, Safety
<1> QED
  BY <1>10, <1>11, <1>12, <1>13, <1>14, <1>15 DEF PoolInv, Safety

----------------------------------------------------------------------------
(* clearAndStartNewGeneration and close: the pool frees what it has. *)
LEMMA FreePooledSafety ==
  ASSUME PoolInv, ControlInv', FreePooled, pool' = <<>>,
         UNCHANGED <<refs, inPool, latest, hold, prev>>,
         \A t \in Threads : pc'[t] = pc[t] \/ {pc[t], pc'[t]} \cap Using = {}
  PROVE  PoolInv'
<1>1. \A t \in Threads : \A s \in Using : pc'[t] = s <=> pc[t] = s
  BY DEF Using
<1>2. Published' = Published
  BY <1>1 DEF Published, Using
<1>3. \A t \in Threads : Decoding(t)' <=> Decoding(t)
  BY <1>1 DEF Decoding, Using
<1>4. \A f : Converted(f)' <=> Converted(f)
  BY <1>1, ThreadFacts DEF Converted, Using
<1>5. Pooled' = {} /\ Len(pool') = 0 /\ DOMAIN pool' = {}
  BY DEF Pooled
<1>6. /\ ~panicked'
      /\ \A f \in Frames : /\ f \notin Pooled => live'[f] = live[f]
                           /\ f \in Pooled => ~live'[f]
                           /\ live'[f] => live[f]
  BY DEF FreePooled, PoolInv, Safety, NoPanic, NoUseAfterFree, ControlInv, TypeOK
<1>7. Published # NoFrame => Published \in Frames /\ Published \notin Pooled
  BY PublishedCases DEF PoolInv, ControlInv, TypeOK, Safety, PutNeverRefused
<1>8. NoPanic' /\ NoUseAfterFree'
  <2>1. Published' # NoFrame => live'[Published']
    BY <1>2, <1>6, <1>7, ThreadFacts DEF PoolInv, Safety, NoUseAfterFree
  <2>2. \A u \in Threads :
          /\ hold'[u] # NoFrame => live'[hold'[u]]
          /\ prev'[u] # NoFrame => live'[prev'[u]]
    BY <1>6, UsedFrames DEF PoolInv, Safety, NoUseAfterFree
  <2> QED
    BY <1>5, <1>6, <2>1, <2>2 DEF NoPanic, NoUseAfterFree
<1>9. PoolConsistent'
  BY <1>5, <1>6, PoolAssumption DEF PoolInv, Safety, PoolConsistent
<1>10. WriterIsAlone' /\ NotDisplaced'
  BY <1>1, <1>2, <1>3, <1>5 DEF PoolInv, Safety, WriterIsAlone, NotDisplaced,
                                Using
<1>11. PutNeverRefused'
  <2>1. Published' # NoFrame => live'[Published'] /\ ~inPool'[Published']
    BY <1>2, <1>6, <1>7 DEF PoolInv, Safety, PutNeverRefused, PutAccepts
  <2>2. ASSUME NEW u \in Threads, pc'[u] = "put"
        PROVE  live'[prev'[u]] /\ ~inPool'[prev'[u]]
    <3>1. pc[u] = "put" /\ prev[u] # NoFrame
      BY <2>2, <1>1 DEF PoolInv, ControlInv, Control, Using
    <3> QED
      BY <3>1, <1>6, UsedFrames DEF PoolInv, Safety, PutNeverRefused, PutAccepts
  <2> QED
    BY <1>5, <2>1, <2>2 DEF PutNeverRefused, PutAccepts
<1>12. RefsAreExact'
  BY <1>2, <1>4, <1>6, RefsForm DEF PoolInv, Safety
<1> QED
  BY <1>8, <1>9, <1>10, <1>11, <1>12 DEF PoolInv, Safety

LEMMA RemakeSafety ==
  ASSUME PoolInv, ControlInv', NEW t \in Threads, RemakeFrame(t)
  PROVE  PoolInv'
<1>1. /\ pc[t] = "remake"
      /\ UNCHANGED <<pool, generation, latest, prev, panicked>>
  BY DEF RemakeFrame
<1>2. CASE \E f \in Frames : /\ Allocate(f, newGen[t])
                             /\ hold' = [hold EXCEPT ![t] = f]
                             /\ pc' = [pc EXCEPT ![t] = "got"]
  <2>1. hold[t] = NoFrame
    BY <1>1 DEF PoolInv, ControlInv, Control
  <2> QED
    BY <1>1, <1>2, <2>1, AllocateStep
<1>3. CASE pc' = [pc EXCEPT ![t] = "decode"] /\ UNCHANGED <<frameVars, hold>>
  <2>1. \A u \in Threads : pc'[u] = pc[u] \/ {pc[u], pc'[u]} \cap Using = {}
    BY <1>1, <1>3 DEF PoolInv, ControlInv, TypeOK, Using
  <2> QED
    BY <1>1, <1>3, <2>1, QuietStep
<1> QED
  BY <1>2, <1>3 DEF RemakeFrame

LEMMA DisplaceSafety ==
  ASSUME PoolInv, ControlInv', NEW t \in Threads, DisplaceLatest(t)
  PROVE  PoolInv'
<1>1. /\ pc[t] = "ready" /\ latestMu = NoFrame /\ latestMu' = t
      /\ UNCHANGED <<pool, generation, live, gen, inPool, latest, hold>>
  BY DEF DisplaceLatest
<1>2. /\ Published = latest
      /\ \A f : ~Converted(f)
      /\ \A u \in Threads : pc[u] \notin {"put", "install", "converting"}
  BY <1>1, PublishedCases, ThreadFacts DEF PoolInv, ControlInv, Control
<1>3. latest # NoFrame => /\ latest \in Frames
                          /\ PutAccepts(latest) /\ latest \notin Pooled
                          /\ refs[latest] = 1
  <2>1. latest # NoFrame => latest \in Frames
    BY DEF PoolInv, ControlInv, TypeOK
  <2>2. latest # NoFrame => PutAccepts(latest) /\ latest \notin Pooled
    BY <1>2 DEF PoolInv, Safety, PutNeverRefused
  <2>3. latest # NoFrame => refs[latest] = 1
    BY <2>1, <2>2, <1>2, RefsForm DEF PutAccepts, PoolInv, Safety
  <2> QED
    BY <2>1, <2>2, <2>3
<1>4. \/ /\ latest = NoFrame
         /\ pc' = [pc EXCEPT ![t] = "install"]
         /\ UNCHANGED <<refs, panicked, prev>>
      \/ /\ latest # NoFrame
         /\ refs' = [refs EXCEPT ![latest] = 0]
         /\ ~panicked'
         /\ prev' = [prev EXCEPT ![t] = latest]
         /\ pc' = [pc EXCEPT ![t] = "put"]
  <2>1. CASE latest = NoFrame
    BY <2>1 DEF DisplaceLatest
  <2>2. CASE latest # NoFrame
    <3>1. /\ DecrementRefs(latest)
          /\ prev' = [prev EXCEPT ![t] = latest]
          /\ pc' = [pc EXCEPT ![t] = "put"]
      BY <2>2, <1>3 DEF DisplaceLatest
    <3>2. ~panicked
      BY DEF PoolInv, Safety, NoPanic
    <3>3. refs[latest] = 1 /\ refs[latest] - 1 = 0
      BY <2>2, <1>3
    <3>4. refs' = [refs EXCEPT ![latest] = refs[latest] - 1]
      BY <3>1 DEF DecrementRefs
    <3>5. panicked' = (panicked \/ refs[latest] = 0)
      BY <3>1 DEF DecrementRefs
    <3>6. refs' = [refs EXCEPT ![latest] = 0]
      BY <3>3, <3>4, Zenon
    <3>7. ~panicked'
      <4>1. refs[latest] # 0
        BY <3>3
      <4> QED
        BY <3>2, <3>5, <4>1, Zenon
    <3> QED
      BY <2>2, <3>1, <3>6, <3>7
  <2> QED
    BY <2>1, <2>2
<1>5. /\ pc'[t] \in {"put", "install"}
      /\ pc'[t] = "put" => prev'[t] = latest /\ latest # NoFrame
      /\ \A u \in Threads : u # t => pc'[u] = pc[u] /\ prev'[u] = prev[u]
      /\ \A u \in Threads : Decoding(u)' <=> Decoding(u)
      /\ \A u \in Threads : prev[u] = NoFrame
      /\ prev'[t] \in {latest, NoFrame}
      /\ ~panicked'
  <2>1. \A u \in Threads : prev[u] = NoFrame
    BY <1>2 DEF PoolInv, ControlInv, Control
  <2>2. CASE latest = NoFrame
    BY <2>1, <2>2, <1>1, <1>4 DEF PoolInv, ControlInv, TypeOK, Decoding, Safety,
         NoPanic
  <2>3. CASE latest # NoFrame
    BY <2>1, <2>3, <1>1, <1>4 DEF PoolInv, ControlInv, TypeOK, Decoding
  <2> QED
    BY <2>2, <2>3
<1>6. Published' = NoFrame /\ \A f : ~Converted(f)'
  BY <1>2, <1>5, ThreadFacts DEF Published, Converted
<1>7. Pooled' = Pooled
  BY <1>1 DEF Pooled
<1>8. NoPanic' /\ NoUseAfterFree' /\ PoolConsistent'
  BY <1>1, <1>3, <1>5, <1>6, <1>7 DEF PoolInv, Safety, NoPanic, NoUseAfterFree,
       PoolConsistent, PutAccepts
<1>9. WriterIsAlone'
  <2>1. ASSUME NEW u \in Threads, Decoding(u)
        PROVE  hold[u] # latest /\ hold[u] # NoFrame
    BY <2>1, <1>2, UsedFrames, ThreadFacts DEF PoolInv, Safety, WriterIsAlone
  <2> QED
    BY <1>1, <1>5, <1>6, <1>7, <2>1 DEF PoolInv, Safety, WriterIsAlone
<1>10. PutNeverRefused'
  BY <1>1, <1>2, <1>3, <1>5, <1>6, <1>7 DEF PutNeverRefused, PutAccepts
<1>11. NotDisplaced'
  BY <1>1, <1>2, <1>5 DEF PoolInv, Safety, NotDisplaced, WriterIsAlone, Decoding
<1>12. RefsAreExact'
  <2>1. CASE latest = NoFrame
    BY <2>1, <1>1, <1>2, <1>4, <1>6, RefsForm DEF PoolInv, Safety
  <2>2. CASE latest # NoFrame
    <3>1. refs' = [refs EXCEPT ![latest] = 0] /\ live' = live
      BY <2>2, <1>1, <1>4
    <3>2. \A h \in Frames : live[h] => refs[h] = (IF h = latest THEN 1 ELSE 0)
      BY <1>2, RefsForm DEF PoolInv, Safety
    <3>3. \A h \in Frames : live'[h] => refs'[h] = 0
      BY <3>1, <3>2 DEF PoolInv, ControlInv, TypeOK
    <3> QED
      BY <3>3, <1>6, RefsForm, ThreadFacts
  <2> QED
    BY <2>1, <2>2
<1> QED
  BY <1>8, <1>9, <1>10, <1>11, <1>12 DEF PoolInv, Safety

LEMMA PutDisplacedSafety ==
  ASSUME PoolInv, ControlInv', NEW t \in Threads, PutDisplaced(t)
  PROVE  PoolInv'
<1> DEFINE f == prev[t]
<1>1. /\ pc[t] = "put" /\ PutLocked(f)
      /\ prev' = [prev EXCEPT ![t] = NoFrame]
      /\ pc' = [pc EXCEPT ![t] = "install"]
      /\ UNCHANGED <<generation, gen, refs, latest, hold>>
  BY DEF PutDisplaced
<1>2. /\ f \in Frames /\ PutAccepts(f) /\ f \notin Pooled
      /\ hold[t] # f
  BY <1>1, UsedFrames DEF PoolInv, ControlInv, Control, Safety, PutNeverRefused,
       NotDisplaced
<1>3. /\ Published = NoFrame
      /\ \A g : ~Converted(g)
      /\ \A u \in Threads : u # t => pc[u] \notin {"put", "install", "converting"}
  BY <1>1, PublishedCases DEF PoolInv, ControlInv, Control
<1>4. \A u \in Threads : u # t => prev[u] = NoFrame /\ hold[u] # f
  <2>1. \A u \in Threads : u # t => prev[u] = NoFrame
    BY <1>3 DEF PoolInv, ControlInv, Control
  <2>2. ASSUME NEW u \in Threads, u # t, hold[u] # NoFrame
        PROVE  hold[u] # f
    <3>1. Decoding(u)
      BY <2>2, <1>3 DEF PoolInv, ControlInv, Control, Decoding
    <3> QED
      BY <2>2, <3>1 DEF PoolInv, Safety, WriterIsAlone
  <2> QED
    BY <2>1, <2>2, <1>2, ThreadFacts
<1> HIDE DEF f
<1>5. /\ NoPanic'
      /\ PoolConsistent'
      /\ \A g \in Pooled' : live'[g]
      /\ \A g \in Frames \ {f} : /\ live'[g] = live[g]
                                 /\ inPool'[g] = inPool[g]
                                 /\ g \in Pooled' <=> g \in Pooled
      /\ live'[f] => live[f]
  BY <1>1, <1>2, PutLockedEffect DEF PoolInv, ControlInv, Safety, NoUseAfterFree
<1>6. /\ prev'[t] = NoFrame /\ pc'[t] = "install"
      /\ \A u \in Threads : u # t => pc'[u] = pc[u] /\ prev'[u] = prev[u]
      /\ \A u \in Threads : Decoding(u)' <=> Decoding(u)
  BY <1>1 DEF PoolInv, ControlInv, TypeOK, Decoding
<1>7. /\ Published' = NoFrame
      /\ \A g : ~Converted(g)'
      /\ \A u \in Threads : prev'[u] = NoFrame /\ pc'[u] # "put"
  BY <1>3, <1>4, <1>6, ThreadFacts DEF Published, Converted
<1>8. \A u \in Threads : hold[u] # NoFrame =>
        /\ hold[u] \in Frames \ {f}
        /\ live'[hold[u]]
        /\ hold[u] \notin Pooled'
  <2>1. \A u \in Threads : hold[u] # NoFrame =>
          hold[u] \in Frames \ {f} /\ live[hold[u]] /\ hold[u] \notin Pooled
    BY <1>2, <1>4, UsedFrames DEF f, PoolInv, Safety, NoUseAfterFree
  <2> QED
    BY <2>1, <1>5
<1>9. NoUseAfterFree'
  BY <1>1, <1>5, <1>7, <1>8 DEF NoUseAfterFree
<1>10. WriterIsAlone'
  <2>1. ASSUME NEW u \in Threads, Decoding(u)
        PROVE  /\ hold[u] # NoFrame
               /\ \A v \in Threads \ {u} : hold[u] # hold[v]
    BY <2>1 DEF PoolInv, ControlInv, Control, Safety, WriterIsAlone, Decoding
  <2> QED
    BY <2>1, <1>1, <1>6, <1>7, <1>8 DEF WriterIsAlone
<1>11. PutNeverRefused' /\ NotDisplaced'
  BY <1>7 DEF PutNeverRefused, NotDisplaced
<1>12. RefsAreExact'
  <2>1. \A g \in Frames : live'[g] => live[g]
    BY <1>5
  <2> QED
    BY <2>1, <1>1, <1>3, <1>7, RefsForm DEF PoolInv, Safety
<1> QED
  BY <1>5, <1>9, <1>10, <1>11, <1>12 DEF PoolInv, Safety

LEMMA InstallSafety ==
  ASSUME PoolInv, ControlInv', NEW t \in Threads, InstallLatest(t)
  PROVE  PoolInv'
<1> DEFINE f == hold[t]
<1>1. /\ pc[t] = "install" /\ Decoding(t)
      /\ refs' = [refs EXCEPT ![f] = refs[f] + 1]
      /\ latest' = f
      /\ hold' = [hold EXCEPT ![t] = NoFrame]
      /\ pc' = [pc EXCEPT ![t] = "decode"]
      /\ UNCHANGED <<pool, generation, live, gen, inPool, prev, panicked>>
  BY DEF InstallLatest, Decoding
<1>2. /\ f \in Frames /\ live[f] /\ ~inPool[f] /\ refs[f] = 0 /\ f \notin Pooled
      /\ \A u \in Threads : u # t => hold[u] # f
  BY <1>1, UsedFrames, ThreadFacts DEF PoolInv, Safety, WriterIsAlone
<1>3. /\ Published = NoFrame
      /\ \A g : ~Converted(g)
      /\ \A u \in Threads :
           /\ u # t => pc[u] \notin {"put", "install", "converting"}
           /\ prev[u] = NoFrame
  BY <1>1, PublishedCases DEF PoolInv, ControlInv, Control
<1> HIDE DEF f
<1>4. /\ hold'[t] = NoFrame /\ pc'[t] = "decode" /\ ~Decoding(t)'
      /\ \A u \in Threads : u # t => /\ hold'[u] = hold[u]
                                     /\ pc'[u] = pc[u]
                                     /\ Decoding(u)' <=> Decoding(u)
  BY <1>1 DEF PoolInv, ControlInv, TypeOK, Decoding
<1>5. /\ Published' = f
      /\ \A g : ~Converted(g)'
      /\ \A u \in Threads : pc'[u] # "put"
  BY <1>1, <1>3, <1>4, ThreadFacts DEF Published, Converted
<1>6. Pooled' = Pooled
  BY <1>1 DEF Pooled
<1>7. NoPanic' /\ NoUseAfterFree' /\ PoolConsistent'
  BY <1>1, <1>2, <1>3, <1>4, <1>5, <1>6 DEF PoolInv, Safety, NoPanic,
       NoUseAfterFree, PoolConsistent
<1>8. WriterIsAlone'
  BY <1>1, <1>2, <1>4, <1>5, <1>6, UsedFrames, ThreadFacts DEF PoolInv, Safety,
       WriterIsAlone, ControlInv, Control, Decoding
<1>9. PutNeverRefused' /\ NotDisplaced'
  BY <1>1, <1>2, <1>5, <1>6 DEF PutNeverRefused, PutAccepts, NotDisplaced
<1>10. RefsAreExact'
  <2>1. refs'[f] = 1 /\ \A g \in Frames \ {f} : refs'[g] = refs[g]
    BY <1>1, <1>2 DEF PoolInv, ControlInv, TypeOK
  <2>2. \A g \in Frames : live[g] => refs[g] = 0
    BY <1>3, RefsForm, ThreadFacts DEF PoolInv, Safety
  <2> QED
    BY <2>1, <2>2, <1>1, <1>5, RefsForm
<1> QED
  BY <1>7, <1>8, <1>9, <1>10 DEF PoolInv, Safety

LEMMA DecodeSafety ==
  ASSUME PoolInv, ControlInv', NEW t \in Threads, Decode(t)
  PROVE  PoolInv'
<1>1. ASSUME NEW w \in Formats, GetPooled(t, w)
      PROVE  PoolInv'
  BY <1>1, GetPooledSafety
<1>2. ASSUME NEW w \in Formats, GetNew(t, w)
      PROVE  PoolInv'
  <2>1. hold[t] = NoFrame /\ pc[t] = "decode"
    BY <1>2 DEF GetNew, PoolInv, ControlInv, Control
  <2> QED
    BY <1>2, <2>1, AllocateStep DEF GetNew
<1>3. CASE CopyPicture(t) \/ DecodeFails(t)
  BY <1>3, CopyPictureSafety
<1>4. CASE DiscardOldFormat(t)
  BY <1>4, DiscardSafety
<1>5. CASE ClearAndStartNewGeneration(t)
  <2>1. \A u \in Threads : pc'[u] = pc[u] \/ {pc[u], pc'[u]} \cap Using = {}
    BY <1>5 DEF ClearAndStartNewGeneration, PoolInv, ControlInv, TypeOK, Using
  <2> QED
    BY <1>5, <2>1, FreePooledSafety DEF ClearAndStartNewGeneration
<1>6. CASE RemakeFrame(t)
  BY <1>6, RemakeSafety
<1>7. CASE DisplaceLatest(t)
  BY <1>7, DisplaceSafety
<1>8. CASE PutDisplaced(t)
  BY <1>8, PutDisplacedSafety
<1>9. CASE InstallLatest(t)
  BY <1>9, InstallSafety
<1> QED
  BY <1>1, <1>2, <1>3, <1>4, <1>5, <1>6, <1>7, <1>8, <1>9 DEF Decode

----------------------------------------------------------------------------
LEMMA BeginConvertSafety ==
  ASSUME PoolInv, ControlInv', NEW c \in Callers, BeginConvert(c)
  PROVE  PoolInv'
<1>1. /\ pc[c] = "convert" /\ latestMu = NoFrame /\ latest # NoFrame
      /\ refs' = [refs EXCEPT ![latest] = refs[latest] + 1]
      /\ hold' = [hold EXCEPT ![c] = latest]
      /\ pc' = [pc EXCEPT ![c] = "converting"]
      /\ UNCHANGED <<pool, generation, live, gen, inPool, latest, prev, panicked>>
  BY DEF BeginConvert
<1>2. /\ Published = latest
      /\ \A f : ~Converted(f)
      /\ latest \in Frames
      /\ c \in Threads /\ hold[c] = NoFrame
  BY <1>1, PublishedCases, ThreadFacts DEF PoolInv, ControlInv, Control, TypeOK
<1>3. /\ hold'[c] = latest /\ pc'[c] = "converting" /\ prev[c] = NoFrame
      /\ ~Decoding(c)'
      /\ \A u \in Threads : u # c => /\ hold'[u] = hold[u]
                                     /\ pc'[u] = pc[u]
                                     /\ Decoding(u)' <=> Decoding(u)
      /\ \A u \in Threads : pc'[u] \in {"put", "install"} <=>
                              pc[u] \in {"put", "install"}
  BY <1>1, <1>2 DEF PoolInv, ControlInv, Control, TypeOK, Decoding
<1>4. Published' = latest /\ \A f : Converted(f)' <=> f = latest
  <2>1. Published' = latest
    BY <1>1, <1>2, <1>3 DEF Published
  <2>2. \A u \in Callers : pc[u] # "converting"
    BY <1>2 DEF Converted
  <2> QED
    BY <1>3, <2>1, <2>2, ThreadFacts DEF Converted
<1>5. Pooled' = Pooled
  BY <1>1 DEF Pooled
<1>6. NoPanic' /\ NoUseAfterFree' /\ PoolConsistent'
  BY <1>1, <1>2, <1>3, <1>4, <1>5 DEF PoolInv, Safety, NoPanic, NoUseAfterFree,
       PoolConsistent
<1>7. WriterIsAlone'
  BY <1>1, <1>2, <1>3, <1>4, <1>5 DEF PoolInv, Safety, WriterIsAlone
<1>8. PutNeverRefused' /\ NotDisplaced'
  BY <1>1, <1>2, <1>3, <1>4, <1>5 DEF PoolInv, Safety, PutNeverRefused,
       PutAccepts, NotDisplaced
<1>9. RefsAreExact'
  <2>1. \A h \in Frames : live[h] => refs[h] = (IF h = latest THEN 1 ELSE 0)
    BY <1>2, RefsForm DEF PoolInv, Safety
  <2>2. \A h \in Frames : live'[h] => refs'[h] = (IF h = latest THEN 2 ELSE 0)
    BY <1>1, <1>2, <2>1 DEF PoolInv, ControlInv, TypeOK
  <2> QED
    BY <1>4, <2>2, RefsForm
<1> QED
  BY <1>6, <1>7, <1>8, <1>9 DEF PoolInv, Safety

LEMMA EndConvertSafety ==
  ASSUME PoolInv, ControlInv', NEW c \in Callers, EndConvert(c)
  PROVE  PoolInv'
<1>1. /\ pc[c] = "converting" /\ c \in Threads
      /\ hold[c] = latest /\ latest # NoFrame /\ latest \in Frames
      /\ latestMu = c
  BY ThreadFacts DEF EndConvert, PoolInv, ControlInv, Control, TypeOK
<1>2. /\ Published = latest
      /\ \A u \in Threads : u # c => pc[u] # "converting"
      /\ \A u \in Threads : pc[u] \notin {"put", "install"}
      /\ \A f : Converted(f) <=> f = latest
  BY <1>1, PublishedCases, ThreadFacts DEF PoolInv, ControlInv, Control, Converted
<1>3. live[latest] /\ refs[latest] = 2
  BY <1>1, <1>2, RefsForm DEF PoolInv, Safety, NoUseAfterFree
<1>4. /\ refs' = [refs EXCEPT ![latest] = refs[latest] - 1]
      /\ hold' = [hold EXCEPT ![c] = NoFrame]
      /\ pc' = [pc EXCEPT ![c] = "idle"]
      /\ UNCHANGED <<pool, generation, live, gen, inPool, latest, prev>>
  BY <1>1, <1>3 DEF EndConvert
<1>5. ~panicked'
  <2>1. panicked' = (panicked \/ refs[latest] = 0)
    BY <1>1, <1>3 DEF EndConvert
  <2>2. ~panicked /\ refs[latest] # 0
    BY <1>3 DEF PoolInv, Safety, NoPanic
  <2> QED
    BY <2>1, <2>2, Zenon
<1>6. /\ hold'[c] = NoFrame /\ pc'[c] = "idle" /\ prev[c] = NoFrame
      /\ ~Decoding(c)'
      /\ \A u \in Threads : u # c => /\ hold'[u] = hold[u]
                                     /\ pc'[u] = pc[u]
                                     /\ Decoding(u)' <=> Decoding(u)
  BY <1>1, <1>4 DEF PoolInv, ControlInv, Control, TypeOK, Decoding
<1>7. Published' = latest /\ \A f : ~Converted(f)'
  BY <1>2, <1>4, <1>6, ThreadFacts DEF Published, Converted
<1>8. Pooled' = Pooled
  BY <1>4 DEF Pooled
<1>9. NoPanic' /\ NoUseAfterFree' /\ PoolConsistent'
  BY <1>2, <1>4, <1>5, <1>6, <1>7, <1>8 DEF PoolInv, Safety, NoPanic,
       NoUseAfterFree, PoolConsistent
<1>10. WriterIsAlone'
  BY <1>2, <1>4, <1>6, <1>7, <1>8, UsedFrames, ThreadFacts DEF PoolInv, Safety,
       WriterIsAlone, ControlInv, Control, Decoding
<1>11. PutNeverRefused' /\ NotDisplaced'
  BY <1>2, <1>4, <1>6, <1>7, <1>8 DEF PoolInv, Safety, PutNeverRefused,
       PutAccepts, NotDisplaced
<1>12. RefsAreExact'
  <2>1. \A h \in Frames : live[h] => refs[h] = (IF h = latest THEN 2 ELSE 0)
    BY <1>2, RefsForm DEF PoolInv, Safety
  <2>2. \A h \in Frames : live'[h] => refs'[h] = (IF h = latest THEN 1 ELSE 0)
    BY <1>1, <1>4, <2>1 DEF PoolInv, ControlInv, TypeOK
  <2> QED
    BY <1>7, <2>2, RefsForm
<1> QED
  BY <1>9, <1>10, <1>11, <1>12 DEF PoolInv, Safety

LEMMA ImageSafety ==
  ASSUME PoolInv, ControlInv', NEW c \in Callers, Image(c)
  PROVE  PoolInv'
<1>1. CASE BeginImage(c) \/ BeginLazyDecode(c) \/ EndLazyDecode(c)
             \/ SkipLazyDecode(c) \/ ImageFails(c)
  <2>1. /\ UNCHANGED <<pool, generation, frameVars, latest, hold, prev, panicked>>
        /\ \E s \in {"idle", "image", "decode", "convert"} :
             pc' = [pc EXCEPT ![c] = s]
        /\ pc[c] \in {"idle", "image", "decode", "convert"}
    BY <1>1 DEF BeginImage, BeginLazyDecode, EndLazyDecode, SkipLazyDecode,
                ImageFails
  <2>2. \A u \in Threads : pc'[u] = pc[u] \/ {pc[u], pc'[u]} \cap Using = {}
    BY <2>1, ThreadFacts DEF PoolInv, ControlInv, TypeOK, Using
  <2> QED
    BY <2>1, <2>2, QuietStep
<1>2. CASE BeginConvert(c)
  BY <1>2, BeginConvertSafety
<1>3. CASE EndConvert(c)
  BY <1>3, EndConvertSafety
<1> QED
  BY <1>1, <1>2, <1>3 DEF Image

LEMMA DropLatestSafety ==
  ASSUME PoolInv, ControlInv', DropLatest
  PROVE  PoolInv'
<1>1. /\ closing = "disconnected"
      /\ latest' = NoFrame
      /\ UNCHANGED <<generation, gen, pc, hold, prev>>
  BY DEF DropLatest, threadVars
<1>2. \A u \in Threads : pc[u] \in {"idle", "stopped"}
  BY <1>1, ThreadFacts DEF PoolInv, ControlInv, Control
<1>3. /\ \A u \in Threads : /\ hold[u] = NoFrame /\ prev[u] = NoFrame
                            /\ ~Decoding(u) /\ ~Decoding(u)'
                            /\ pc'[u] # "put"
      /\ Published = latest
      /\ Published' = NoFrame
      /\ \A f : ~Converted(f) /\ ~Converted(f)'
  BY <1>1, <1>2, ThreadFacts DEF PoolInv, ControlInv, Control, Decoding,
       Published, Converted
<1>4. WriterIsAlone' /\ PutNeverRefused' /\ NotDisplaced'
  BY <1>3 DEF WriterIsAlone, PutNeverRefused, NotDisplaced
<1>5. \A h \in Frames : live[h] => refs[h] = (IF h = latest THEN 1 ELSE 0)
  BY <1>3, RefsForm DEF PoolInv, Safety
<1>6. CASE latest = NoFrame
  <2>1. UNCHANGED <<pool, live, inPool, refs, panicked>> /\ Pooled' = Pooled
    BY <1>6 DEF DropLatest, Pooled
  <2>2. NoPanic' /\ NoUseAfterFree' /\ PoolConsistent'
    BY <1>1, <1>3, <2>1 DEF PoolInv, Safety, NoPanic, NoUseAfterFree,
                            PoolConsistent
  <2>3. RefsAreExact'
    BY <1>3, <1>5, <1>6, <2>1, RefsForm, ThreadFacts
  <2> QED
    BY <1>4, <2>2, <2>3 DEF PoolInv, Safety
<1>7. CASE latest # NoFrame
  <2>1. /\ latest \in Frames /\ PutAccepts(latest) /\ latest \notin Pooled
        /\ refs[latest] = 1
    BY <1>3, <1>5, <1>7 DEF PoolInv, ControlInv, TypeOK, Safety, PutNeverRefused,
                            PutAccepts
  <2>2. /\ PutLocked(latest)
        /\ refs' = [refs EXCEPT ![latest] = refs[latest] - 1]
    BY <1>7, <2>1 DEF DropLatest
  <2>3. /\ NoPanic' /\ PoolConsistent'
        /\ \A g \in Pooled' : live'[g]
        /\ \A g \in Frames : live'[g] => live[g]
    BY <1>1, <2>1, <2>2, PutLockedEffect DEF PoolInv, ControlInv, Safety,
         NoUseAfterFree
  <2>4. NoUseAfterFree'
    BY <1>1, <1>3, <2>3 DEF NoUseAfterFree
  <2>5. RefsAreExact'
    <3>1. \A h \in Frames : live'[h] => refs'[h] = 0
      BY <1>5, <2>1, <2>2, <2>3 DEF PoolInv, ControlInv, TypeOK
    <3> QED
      BY <3>1, <1>3, RefsForm, ThreadFacts
  <2> QED
    BY <1>4, <2>3, <2>4, <2>5 DEF PoolInv, Safety
<1> QED
  BY <1>6, <1>7

LEMMA NextSafety == PoolInv /\ [Next]_vars => PoolInv'
<1> SUFFICES ASSUME PoolInv, [Next]_vars
             PROVE  PoolInv'
  OBVIOUS
<1>1. ControlInv'
  BY NextControl DEF PoolInv
<1>2. ASSUME NEW t \in Threads, Decode(t)
      PROVE  PoolInv'
  BY <1>1, <1>2, DecodeSafety
<1>3. ASSUME NEW c \in Callers, Image(c)
      PROVE  PoolInv'
  BY <1>1, <1>3, ImageSafety
<1>4. CASE BeginAccessUnit \/ EndAccessUnit \/ Reconnect \/ BeginClose
             \/ CloseConnection \/ UNCHANGED vars
  <2>1. UNCHANGED <<pool, generation, frameVars, latest, hold, prev, panicked>>
    BY <1>4 DEF BeginAccessUnit, EndAccessUnit, Reconnect, BeginClose,
                CloseConnection, threadVars, vars
  <2>2. \A u \in Threads : pc'[u] = pc[u] \/ {pc[u], pc'[u]} \cap Using = {}
    BY <1>4, ThreadFacts DEF BeginAccessUnit, EndAccessUnit, Reconnect,
         BeginClose, CloseConnection, threadVars, vars, PoolInv, ControlInv,
         TypeOK, Using
  <2> QED
    BY <1>1, <2>1, <2>2, QuietStep
<1>5. CASE DropLatest
  BY <1>1, <1>5, DropLatestSafety
<1>6. CASE ClosePool
  <2>1. \A u \in Threads : pc'[u] = pc[u]
    BY <1>6 DEF ClosePool, threadVars
  <2> QED
    BY <1>1, <1>6, <2>1, FreePooledSafety DEF ClosePool, threadVars
<1> QED
  BY <1>2, <1>3, <1>4, <1>5, <1>6 DEF Next, Close, Closed

LEMMA InitSafety == Init => PoolInv
<1> SUFFICES ASSUME Init PROVE PoolInv
  OBVIOUS
<1>1. Pooled = {} /\ Published = NoFrame /\ \A t \in Threads : ~Decoding(t)
  BY DEF Init, Pooled, Published, Decoding
<1>2. NoPanic /\ NoUseAfterFree /\ PoolConsistent
  BY <1>1, PoolAssumption DEF Init, NoPanic, NoUseAfterFree, PoolConsistent
<1>3. WriterIsAlone /\ PutNeverRefused /\ RefsAreExact /\ NotDisplaced
  BY <1>1 DEF Init, WriterIsAlone, PutNeverRefused, RefsAreExact, NotDisplaced
<1> QED
  BY <1>2, <1>3, InitControl DEF PoolInv, Safety

LEMMA InvariantHolds == Spec => []PoolInv
  BY InitSafety, NextSafety, PTL DEF Spec

----------------------------------------------------------------------------
(* Neither panic of the frame code happens, whatever the number of decoding
   goroutines and Image() callers and however Close() interleaves with them. *)
THEOREM FramePoolNoPanic == Spec => []NoPanic
  BY InvariantHolds, PTL DEF PoolInv, Safety

(* No goroutine ever uses a frame whose C memory was given back. *)
THEOREM FramePoolNoUseAfterFree == Spec => []NoUseAfterFree
  BY InvariantHolds, PTL DEF PoolInv, Safety

(* The frame a decoder writes into is out of everybody else's reach. *)
THEOREM FramePoolWriterIsAlone == Spec => []WriterIsAlone
  BY InvariantHolds, PTL DEF PoolInv, Safety

(* The checks put() makes without the lock never refuse a frame, and still
   hold when it has the lock. *)
THEOREM FramePoolPutNeverRefused == Spec => []PutNeverRefused
  BY InvariantHolds, PTL DEF PoolInv, Safety

(* isInPool is exact, and the pool has frames of the current generation only,
   each once, and no more than its capacity. *)
THEOREM FramePoolConsistent == Spec => []PoolConsistent
  BY InvariantHolds, PTL DEF PoolInv, Safety

(* A reference count counts the slot and the conversion under way. *)
THEOREM FramePoolRefsAreExact == Spec => []RefsAreExact
  BY InvariantHolds, PTL DEF PoolInv, Safety

----------------------------------------------------------------------------
(* The refinement.  PlaceOf reads the place of a frame off its flags, the slot
   and the goroutines' locals; in a state of the pool the reading is exact. *)
Placed ==
  \A f \in Frames :
    /\ PlaceOf(f) = "free" <=> ~live[f]
    /\ PlaceOf(f) = "pool" <=> f \in Pooled
    /\ PlaceOf(f) = "latest" <=> f = Published
    /\ \A t \in Threads : PlaceOf(f) = t <=> Has(t, f)
    /\ PlaceOf(f) \in {"free", "pool", "latest", "lost"} \union Threads

Reading == {c \in Callers : pc[c] = "converting"}

LEMMA PlaceNames ==
  \A t \in Threads : t # "free" /\ t # "pool" /\ t # "latest" /\ t # "lost"
BY PoolAssumption

(* A frame is in the hands of one goroutine at most, and whoever has one
   decodes into it or is about to put it back. *)
LEMMA HasFacts ==
  ASSUME PoolInv, NEW t \in Threads, NEW f \in Frames, Has(t, f)
  PROVE  /\ live[f] /\ f \notin Pooled /\ f # Published
         /\ \A u \in Threads : Has(u, f) => u = t
<1>1. ASSUME NEW u \in Threads
      PROVE  /\ f = prev[u] => pc[u] = "put"
             /\ f = hold[u] /\ pc[u] # "converting" => Decoding(u)
             /\ prev[u] = f => prev[u] # NoFrame
             /\ hold[u] = f => hold[u] # NoFrame
  BY ThreadFacts DEF PoolInv, ControlInv, Control, Decoding
<1>2. f \notin Pooled
  BY <1>1, UsedFrames DEF Has
<1>3. live[f]
  BY <1>1, ThreadFacts DEF PoolInv, Safety, NoUseAfterFree, Has
<1>4. f # Published
  <2>1. CASE f = prev[t]
    <3>1. Published = NoFrame
      BY <1>1, <2>1, PublishedCases DEF PoolInv
    <3> QED
      BY <3>1, ThreadFacts
  <2>2. CASE f = hold[t] /\ pc[t] # "converting"
    BY <1>1, <2>2 DEF PoolInv, Safety, WriterIsAlone
  <2> QED
    BY <2>1, <2>2 DEF Has
<1>5. ASSUME NEW u \in Threads, Has(u, f), u # t
      PROVE  FALSE
  <2>1. CASE f = prev[t] /\ f = prev[u]
    <3>1. pc[t] = "put" /\ pc[u] = "put"
      BY <1>1, <2>1
    <3> QED
      BY <3>1, <1>5 DEF PoolInv, ControlInv, Control
  <2>2. CASE f = hold[t] /\ pc[t] # "converting"
    <3>1. Decoding(t) /\ hold[t] \in {hold[u], prev[u]}
      BY <1>1, <1>5, <2>2 DEF Has
    <3> QED
      BY <3>1, <1>5 DEF PoolInv, Safety, WriterIsAlone
  <2>3. CASE f = hold[u] /\ pc[u] # "converting"
    <3>1. Decoding(u) /\ hold[u] \in {hold[t], prev[t]}
      BY <1>1, <2>3 DEF Has
    <3> QED
      BY <3>1, <1>5 DEF PoolInv, Safety, WriterIsAlone
  <2> QED
    BY <1>5, <2>1, <2>2, <2>3 DEF Has
<1> QED
  BY <1>2, <1>3, <1>4, <1>5

LEMMA PlacedHolds == PoolInv => Placed
<1> SUFFICES ASSUME PoolInv, NEW f \in Frames
             PROVE  /\ PlaceOf(f) = "free" <=> ~live[f]
                    /\ PlaceOf(f) = "pool" <=> f \in Pooled
                    /\ PlaceOf(f) = "latest" <=> f = Published
                    /\ \A t \in Threads : PlaceOf(f) = t <=> Has(t, f)
                    /\ PlaceOf(f) \in {"free", "pool", "latest", "lost"}
                                        \union Threads
  BY DEF Placed
<1>1. /\ f \in Pooled => live[f] /\ inPool[f]
      /\ live[f] /\ inPool[f] => f \in Pooled
  BY DEF PoolInv, Safety, PoolConsistent, NoUseAfterFree
<1>2. f = Published => live[f] /\ f \notin Pooled
  BY ThreadFacts DEF PoolInv, Safety, PutNeverRefused, PutAccepts
<1>3. CASE ~live[f]
  <2>1. PlaceOf(f) = "free"
    BY <1>3 DEF PlaceOf
  <2> QED
    BY <2>1, <1>1, <1>2, <1>3, HasFacts, PlaceNames
<1>4. CASE live[f] /\ inPool[f]
  <2>1. PlaceOf(f) = "pool"
    BY <1>4 DEF PlaceOf
  <2> QED
    BY <2>1, <1>1, <1>2, <1>4, HasFacts, PlaceNames
<1>5. ASSUME live[f], ~inPool[f], NEW t \in Threads, Has(t, f)
      PROVE  PlaceOf(f) = t
  <2> DEFINE u == CHOOSE u \in Threads : Has(u, f)
  <2>1. PlaceOf(f) = u
    BY <1>5 DEF PlaceOf
  <2>2. u \in Threads /\ Has(u, f)
    BY <1>5
  <2> QED
    BY <1>5, <2>1, <2>2, HasFacts
<1>6. CASE live[f] /\ ~inPool[f] /\ \E t \in Threads : Has(t, f)
  <2> PICK t \in Threads : Has(t, f)
    BY <1>6
  <2>1. PlaceOf(f) = t
    BY <1>5, <1>6
  <2> QED
    BY <2>1, <1>1, <1>6, HasFacts, PlaceNames
<1>7. CASE live[f] /\ ~inPool[f] /\ ~\E t \in Threads : Has(t, f)
  <2>1. PlaceOf(f) = IF f = Published THEN "latest" ELSE "lost"
    BY <1>7 DEF PlaceOf
  <2>2. CASE f = Published
    BY <2>1, <2>2, <1>1, <1>7, PlaceNames
  <2>3. CASE f # Published
    BY <2>1, <2>3, <1>1, <1>7, PlaceNames
  <2> QED
    BY <2>2, <2>3
<1> QED
  BY <1>3, <1>4, <1>6, <1>7

LEMMA PlacedNext == PoolInv' => Placed'
BY PlacedHolds, PTL

(* A frame stays where it is when neither its memory nor the pool, the slot or
   the goroutines' hold on it change. *)
SameFrame(f) ==
  /\ live'[f] <=> live[f]
  /\ f \in Pooled' <=> f \in Pooled
  /\ f = Published' <=> f = Published
  /\ \A u \in Threads : Has(u, f)' <=> Has(u, f)

LEMMA SamePlace ==
  ASSUME Placed, Placed', NEW f \in Frames, SameFrame(f)
  PROVE  PlaceOf(f)' = PlaceOf(f)
<1>1. /\ PlaceOf(f) = "free" <=> PlaceOf(f)' = "free"
      /\ PlaceOf(f) = "pool" <=> PlaceOf(f)' = "pool"
      /\ PlaceOf(f) = "latest" <=> PlaceOf(f)' = "latest"
      /\ \A t \in Threads : PlaceOf(f) = t <=> PlaceOf(f)' = t
  BY DEF Placed, SameFrame
<1>2. /\ PlaceOf(f) \in {"free", "pool", "latest", "lost"} \union Threads
      /\ PlaceOf(f)' \in {"free", "pool", "latest", "lost"} \union Threads
  BY DEF Placed
<1> QED
  BY <1>1, <1>2

(* The shapes a step of the pool takes as a step of FrameOwnership. *)
LEMMA StutterStep ==
  ASSUME Placed, Placed', \A f \in Frames : SameFrame(f), Reading' = Reading
  PROVE  UNCHANGED Ownership!vars
<1>1. \A f \in Frames : PlaceOf(f)' = PlaceOf(f)
  BY SamePlace
<1> QED
  BY <1>1 DEF Ownership!vars, Reading

LEMMA MoveStep ==
  ASSUME Placed, Placed', NEW f \in Frames, Reading' = Reading,
         \A g \in Frames \ {f} : SameFrame(g)
  PROVE  Ownership!Move(f, PlaceOf(f)')
<1>1. \A g \in Frames \ {f} : PlaceOf(g)' = PlaceOf(g)
  BY SamePlace
<1> QED
  BY <1>1 DEF Ownership!Move, Reading

(* Where a frame is left that nobody holds on to. *)
LEMMA LetGo ==
  ASSUME Placed', NEW f \in Frames, f # Published', \A u \in Threads : ~Has(u, f)'
  PROVE  PlaceOf(f)' \in {"free", "lost", "pool"}
BY DEF Placed

LEMMA GetStep ==
  ASSUME Placed, Placed', NEW t \in Threads, NEW f \in Frames,
         ~live[f] \/ f \in Pooled, Has(t, f)', Reading' = Reading,
         \A g \in Frames \ {f} : SameFrame(g)
  PROVE  Ownership!Next
<1>1. PlaceOf(f) \in {"free", "pool"} /\ PlaceOf(f)' = t
  BY DEF Placed
<1>2. Ownership!Move(f, t)
  BY <1>1, MoveStep
<1>3. Ownership!Get(t, f)
  BY <1>1, <1>2 DEF Ownership!Get
<1> QED
  BY <1>3 DEF Ownership!Next

LEMMA GiveUpStep ==
  ASSUME Placed, Placed', NEW t \in Threads, NEW f \in Frames, Has(t, f),
         f # Published', \A u \in Threads : ~Has(u, f)', Reading' = Reading,
         \A g \in Frames \ {f} : SameFrame(g)
  PROVE  Ownership!Next
<1>1. PlaceOf(f) = t
  BY DEF Placed
<1>2. PlaceOf(f)' \in {"free", "lost", "pool"} /\ Ownership!Move(f, PlaceOf(f)')
  BY LetGo, MoveStep
<1>3. Ownership!GiveUp(t, f)
  BY <1>1, <1>2 DEF Ownership!GiveUp
<1> QED
  BY <1>3 DEF Ownership!Next

LEMMA ClearStep ==
  ASSUME PoolInv, PoolInv', FreePooled, pool' = <<>>, Published' = Published,
         Reading' = Reading,
         \A g \in Frames : \A u \in Threads : Has(u, g)' <=> Has(u, g)
  PROVE  [Ownership!Next]_(Ownership!vars)
<1>1. Placed /\ Placed'
  BY PlacedHolds, PlacedNext
<1>2. \A f \in Frames : f \notin Pooled'
  BY DEF Pooled
<1>3. \A f \in Frames : live'[f] <=> live[f] /\ f \notin Pooled
  BY DEF FreePooled
<1>4. \A f \in Frames : f \notin Pooled => SameFrame(f)
  BY <1>2, <1>3 DEF SameFrame
<1>5. CASE \A f \in Frames : f \notin Pooled
  BY <1>1, <1>4, <1>5, StutterStep
<1>6. CASE \E f \in Frames : f \in Pooled
  <2>1. ASSUME NEW f \in Frames
        PROVE  PlaceOf(f)' = IF PlaceOf(f) = "pool" THEN "free" ELSE PlaceOf(f)
    <3>1. CASE f \in Pooled
      BY <1>1, <1>3, <3>1 DEF Placed
    <3>2. CASE f \notin Pooled
      BY <1>1, <1>4, <3>2, SamePlace DEF Placed
    <3> QED
      BY <3>1, <3>2
  <2>2. \E f \in Frames : PlaceOf(f) = "pool"
    BY <1>1, <1>6 DEF Placed
  <2>3. Ownership!Clear
    BY <2>1, <2>2 DEF Ownership!Clear, Reading
  <2> QED
    BY <2>3 DEF Ownership!Next
<1> QED
  BY <1>5, <1>6

(* What a goroutine has changes only with its own locals. *)
LEMMA HasSame ==
  ASSUME PoolInv, NEW t \in Threads, NEW s, pc' = [pc EXCEPT ![t] = s],
         pc[t] # "converting", s # "converting",
         \A u \in Threads \ {t} : hold'[u] = hold[u] /\ prev'[u] = prev[u]
  PROVE  /\ Reading' = Reading
         /\ \A g : \A u \in Threads \ {t} : Has(u, g)' <=> Has(u, g)
         /\ \A g : (g = hold'[t] <=> g = hold[t]) /\ (g = prev'[t] <=> g = prev[t])
                     => (Has(t, g)' <=> Has(t, g))
<1>1. \A u \in Threads : pc'[u] = "converting" <=> pc[u] = "converting"
  BY DEF PoolInv, ControlInv, TypeOK
<1>2. Reading' = Reading
  BY <1>1, ThreadFacts DEF Reading
<1> QED
  BY <1>1, <1>2 DEF Has

(* Steps that move goroutines between places where they have no frame. *)
LEMMA QuietRefinement ==
  ASSUME PoolInv, PoolInv', UNCHANGED <<pool, live, latest, hold, prev>>,
         \A t \in Threads : pc'[t] = pc[t] \/ {pc[t], pc'[t]} \cap Using = {}
  PROVE  [Ownership!Next]_(Ownership!vars)
<1>1. \A t \in Threads : \A s \in Using : pc'[t] = s <=> pc[t] = s
  BY DEF Using
<1>2. Published' = Published
  BY <1>1 DEF Published, Using
<1>3. Reading' = Reading
  BY <1>1, ThreadFacts DEF Reading, Using
<1>4. \A f : \A u \in Threads : Has(u, f)' <=> Has(u, f)
  BY <1>1 DEF Has, Using
<1>5. \A f \in Frames : SameFrame(f)
  BY <1>2, <1>4 DEF SameFrame, Pooled
<1> QED
  BY <1>3, <1>5, PlacedHolds, PlacedNext, StutterStep

LEMMA GetPooledRefinement ==
  ASSUME PoolInv, PoolInv', NEW t \in Threads, NEW w \in Formats,
         GetPooled(t, w)
  PROVE  Ownership!Next
<1>0. pool[Len(pool)] \in Pooled
  BY PopPooled DEF GetPooled, PoolInv, ControlInv, Safety
<1> PICK f \in Frames : f = pool[Len(pool)]
  BY <1>0 DEF Pooled
<1>1. /\ pc[t] = "decode" /\ pool # <<>>
      /\ pool' = SubSeq(pool, 1, Len(pool) - 1)
      /\ UNCHANGED <<live, latest, prev>>
      /\ live[f] => /\ hold' = [hold EXCEPT ![t] = f]
                    /\ pc' = [pc EXCEPT ![t] = "got"]
  BY DEF GetPooled
<1>2. f \in Pooled /\ Pooled' = Pooled \ {f}
  BY <1>1, PopPooled DEF PoolInv, ControlInv, Safety
<1>3. live[f]
  BY <1>2 DEF PoolInv, Safety, NoUseAfterFree
<1>4. hold[t] = NoFrame /\ f # NoFrame
  BY <1>1, <1>3, ThreadFacts DEF PoolInv, ControlInv, Control
<1>5. /\ hold'[t] = f /\ pc'[t] = "got"
      /\ \A u \in Threads \ {t} : hold'[u] = hold[u]
  BY <1>1, <1>3 DEF PoolInv, ControlInv, TypeOK
<1>6. Published' = Published
  BY <1>1, <1>3, <1>5, DecoderStep
<1>7. f # Published
  BY <1>2, <1>3, ThreadFacts DEF PoolInv, Safety, PutNeverRefused
<1>8. Reading' = Reading /\ \A u \in Threads \ {t} : \A g : Has(u, g)' <=> Has(u, g)
  BY <1>1, <1>3, <1>5, HasSame
<1>9. Has(t, f)'
  BY <1>5 DEF Has
<1>10. ASSUME NEW g \in Frames \ {f} PROVE SameFrame(g)
  <2>1. g # NoFrame
    BY ThreadFacts
  <2>2. Has(t, g)' <=> Has(t, g)
    BY <1>1, <1>4, <1>5, <2>1 DEF Has
  <2> QED
    BY <1>1, <1>2, <1>6, <1>8, <2>2 DEF SameFrame
<1> QED
  BY <1>2, <1>3, <1>8, <1>9, <1>10, PlacedHolds, PlacedNext, GetStep

(* A wrapper that is made comes from nowhere. *)
LEMMA AllocateRefinement ==
  ASSUME PoolInv, PoolInv', NEW t \in Threads, NEW f \in Frames, NEW g,
         Allocate(f, g), hold' = [hold EXCEPT ![t] = f], hold[t] = NoFrame,
         pc[t] \in {"decode", "remake"}, pc' = [pc EXCEPT ![t] = "got"],
         UNCHANGED <<pool, latest, prev>>
  PROVE  Ownership!Next
<1>1. ~live[f] /\ live' = [live EXCEPT ![f] = TRUE]
  BY DEF Allocate, Fresh
<1>2. /\ hold'[t] = f /\ pc'[t] = "got"
      /\ \A u \in Threads \ {t} : hold'[u] = hold[u]
  BY DEF PoolInv, ControlInv, TypeOK
<1>3. Published' = Published
  BY <1>2, DecoderStep
<1>4. Reading' = Reading /\ \A u \in Threads \ {t} : \A h : Has(u, h)' <=> Has(u, h)
  BY <1>2, HasSame
<1>5. Has(t, f)'
  BY <1>2 DEF Has
<1>6. ASSUME NEW h \in Frames \ {f} PROVE SameFrame(h)
  <2>1. Has(t, h)' <=> Has(t, h)
    BY <1>2, ThreadFacts DEF Has
  <2>2. live'[h] <=> live[h]
    BY <1>1 DEF PoolInv, ControlInv, TypeOK
  <2>3. Pooled' = Pooled
    BY DEF Pooled
  <2> QED
    BY <1>3, <1>4, <2>1, <2>2, <2>3 DEF SameFrame
<1> QED
  BY <1>1, <1>4, <1>5, <1>6, PlacedHolds, PlacedNext, GetStep

LEMMA CopyPictureRefinement ==
  ASSUME PoolInv, PoolInv', NEW t \in Threads, CopyPicture(t)
  PROVE  UNCHANGED Ownership!vars
<1>1. /\ pc[t] = "got" /\ pc' = [pc EXCEPT ![t] = "ready"]
      /\ UNCHANGED <<pool, live, latest, hold, prev>>
  BY DEF CopyPicture
<1>2. Published' = Published /\ Pooled' = Pooled
  BY <1>1, DecoderStep DEF Pooled
<1>3. Reading' = Reading /\ \A g : \A u \in Threads : Has(u, g)' <=> Has(u, g)
  BY <1>1, HasSame
<1>4. \A f \in Frames : SameFrame(f)
  BY <1>1, <1>2, <1>3 DEF SameFrame
<1> QED
  BY <1>3, <1>4, PlacedHolds, PlacedNext, StutterStep

(* The decoder gives up its frame: after a failure it forgets it, and one of
   an old format it frees. *)
LEMMA ForgetRefinement ==
  ASSUME PoolInv, PoolInv', NEW t \in Threads, pc[t] = "got",
         hold' = [hold EXCEPT ![t] = NoFrame],
         \E s \in {"decode", "clear"} : pc' = [pc EXCEPT ![t] = s],
         \A g \in Frames \ {hold[t]} : live'[g] <=> live[g],
         UNCHANGED <<pool, latest, prev>>
  PROVE  Ownership!Next
<1> PICK f \in Frames : f = hold[t]
  BY UsedFrames DEF Decoding
<1>1. f # Published /\ Has(t, f)
  BY DEF PoolInv, Safety, WriterIsAlone, Decoding, Has
<1>2. /\ hold'[t] = NoFrame
      /\ \A u \in Threads \ {t} : hold'[u] = hold[u]
  BY DEF PoolInv, ControlInv, TypeOK
<1>3. prev[t] = NoFrame
  BY DEF PoolInv, ControlInv, Control
<1>4. PICK s \in {"decode", "clear"} : pc' = [pc EXCEPT ![t] = s]
  OBVIOUS
<1>5. Published' = Published
  BY <1>2, <1>4, DecoderStep
<1>6. Reading' = Reading /\ \A u \in Threads \ {t} : \A g : Has(u, g)' <=> Has(u, g)
  BY <1>2, <1>4, HasSame
<1>7. \A g \in Frames : ~Has(t, g)'
  BY <1>2, <1>3, ThreadFacts DEF Has
<1>8. \A u \in Threads : ~Has(u, f)'
  BY <1>1, <1>6, <1>7, HasFacts
<1>9. ASSUME NEW g \in Frames \ {f} PROVE SameFrame(g)
  <2>1. ~Has(t, g)
    BY <1>3, ThreadFacts DEF Has
  <2>2. live'[g] <=> live[g]
    OBVIOUS
  <2>3. Pooled' = Pooled
    BY DEF Pooled
  <2> QED
    BY <1>5, <1>6, <1>7, <2>1, <2>2, <2>3 DEF SameFrame
<1> QED
  BY <1>1, <1>5, <1>6, <1>8, <1>9, PlacedHolds, PlacedNext, GiveUpStep

LEMMA ClearRefinement ==
  ASSUME PoolInv, PoolInv', NEW t \in Threads, ClearAndStartNewGeneration(t)
  PROVE  [Ownership!Next]_(Ownership!vars)
<1>1. /\ pc[t] = "clear" /\ pc' = [pc EXCEPT ![t] = "remake"]
      /\ FreePooled /\ pool' = <<>>
      /\ UNCHANGED <<latest, hold, prev>>
  BY DEF ClearAndStartNewGeneration
<1>2. Published' = Published
  BY <1>1, DecoderStep
<1>3. Reading' = Reading /\ \A g : \A u \in Threads : Has(u, g)' <=> Has(u, g)
  BY <1>1, HasSame
<1> QED
  BY <1>1, <1>2, <1>3, ClearStep

LEMMA RemakeRefinement ==
  ASSUME PoolInv, PoolInv', NEW t \in Threads, RemakeFrame(t)
  PROVE  [Ownership!Next]_(Ownership!vars)
<1>1. /\ pc[t] = "remake"
      /\ UNCHANGED <<pool, latest, prev>>
      /\ \/ \E f \in Frames :
              /\ Allocate(f, newGen[t])
              /\ hold' = [hold EXCEPT ![t] = f]
              /\ pc' = [pc EXCEPT ![t] = "got"]
         \/ /\ pc' = [pc EXCEPT ![t] = "decode"]
            /\ UNCHANGED <<live, hold>>
  BY DEF RemakeFrame, frameVars
<1>2. hold[t] = NoFrame
  BY <1>1 DEF PoolInv, ControlInv, Control
<1>3. CASE pc' = [pc EXCEPT ![t] = "decode"] /\ UNCHANGED <<live, hold>>
  <2>1. \A u \in Threads : pc'[u] = pc[u] \/ {pc[u], pc'[u]} \cap Using = {}
    BY <1>1, <1>3 DEF Using, PoolInv, ControlInv, TypeOK
  <2> QED
    BY <1>1, <1>3, <2>1, QuietRefinement
<1> QED
  BY <1>1, <1>2, <1>3, AllocateRefinement

(* The frame in the slot has one reference when nobody converts it, and passes
   the checks of put(). *)
LEMMA SlotUnused ==
  ASSUME PoolInv, Published = latest, latest # NoFrame, \A f : ~Converted(f)
  PROVE  /\ latest \in Frames /\ latest \notin Pooled
         /\ refs[latest] = 1 /\ PutAccepts(latest)
<1>1. latest \in Frames
  BY DEF PoolInv, ControlInv, TypeOK
<1>2. PutAccepts(latest) /\ latest \notin Pooled
  BY DEF PoolInv, Safety, PutNeverRefused
<1>3. live[latest]
  BY <1>2 DEF PutAccepts
<1>4. refs[latest] = 1
  BY <1>1, <1>3, RefsForm DEF PoolInv, Safety
<1> QED
  BY <1>1, <1>2, <1>4

LEMMA DisplaceRefinement ==
  ASSUME PoolInv, PoolInv', NEW t \in Threads, DisplaceLatest(t)
  PROVE  [Ownership!Next]_(Ownership!vars)
<1>1. /\ pc[t] = "ready" /\ latestMu = NoFrame
      /\ UNCHANGED <<pool, live, latest, hold>>
  BY DEF DisplaceLatest
<1>2. Published = latest /\ \A f : ~Converted(f)
  BY <1>1, PublishedCases DEF PoolInv
<1>3. Pooled' = Pooled /\ prev[t] = NoFrame
  BY <1>1 DEF Pooled, PoolInv, ControlInv, Control
<1>4. CASE latest = NoFrame
  <2>1. pc' = [pc EXCEPT ![t] = "install"] /\ prev' = prev
    BY <1>4 DEF DisplaceLatest
  <2>2. Published' = Published
    BY <1>1, <1>2, <1>4, <2>1 DEF Published
  <2>3. Reading' = Reading /\ \A g : \A u \in Threads : Has(u, g)' <=> Has(u, g)
    BY <1>1, <2>1, HasSame
  <2>4. \A f \in Frames : SameFrame(f)
    BY <1>1, <1>3, <2>2, <2>3 DEF SameFrame
  <2> QED
    BY <2>3, <2>4, PlacedHolds, PlacedNext, StutterStep
<1>5. CASE latest # NoFrame
  <2> PICK f \in Frames : f = latest
    BY <1>5 DEF PoolInv, ControlInv, TypeOK
  <2>1. refs[f] = 1 /\ PutAccepts(f)
    BY <1>2, <1>5, SlotUnused
  <2>2. prev' = [prev EXCEPT ![t] = f] /\ pc' = [pc EXCEPT ![t] = "put"]
    BY <1>5, <2>1 DEF DisplaceLatest
  <2>3. /\ prev'[t] = f /\ pc'[t] = "put"
        /\ \A u \in Threads \ {t} : prev'[u] = prev[u]
    BY <2>2 DEF PoolInv, ControlInv, TypeOK
  <2>4. Published' = NoFrame
    BY <2>3 DEF Published
  <2>5. Reading' = Reading /\ \A u \in Threads \ {t} : \A g : Has(u, g)' <=> Has(u, g)
    BY <1>1, <2>2, <2>3, HasSame
  <2>6. Has(t, f)'
    BY <2>3 DEF Has
  <2>7. ASSUME NEW g \in Frames \ {f} PROVE SameFrame(g)
    <3>1. Has(t, g)' <=> Has(t, g)
      BY <1>1, <1>3, <2>3, ThreadFacts DEF Has
    <3>2. ~(g = Published') /\ ~(g = Published)
      BY <1>2, <2>4, ThreadFacts
    <3> QED
      BY <1>1, <1>3, <2>5, <3>1, <3>2 DEF SameFrame
  <2>8. PlaceOf(f) = "latest" /\ PlaceOf(f)' = t
    BY <1>2, <2>6, PlacedHolds, PlacedNext DEF Placed
  <2>9. Ownership!Move(f, t)
    BY <2>5, <2>7, <2>8, PlacedHolds, PlacedNext, MoveStep
  <2>10. Reading = {}
    BY <1>2 DEF Reading, Converted
  <2>11. Ownership!Displace(t, f)
    BY <2>8, <2>9, <2>10 DEF Ownership!Displace, Reading
  <2> QED
    BY <2>11 DEF Ownership!Next
<1> QED
  BY <1>4, <1>5

LEMMA PutDisplacedRefinement ==
  ASSUME PoolInv, PoolInv', NEW t \in Threads, PutDisplaced(t)
  PROVE  Ownership!Next
<1>1. /\ pc[t] = "put" /\ pc' = [pc EXCEPT ![t] = "install"]
      /\ prev' = [prev EXCEPT ![t] = NoFrame]
      /\ PutLocked(prev[t])
      /\ UNCHANGED <<generation, gen, latest, hold>>
  BY DEF PutDisplaced
<1>2. prev[t] \in Frames
  BY <1>1 DEF PoolInv, ControlInv, Control, TypeOK
<1> PICK f \in Frames : f = prev[t]
  BY <1>2
<1>3. /\ PutAccepts(f) /\ f \notin Pooled /\ hold[t] # f
      /\ PutLocked(f) /\ Has(t, f)
  BY <1>1 DEF PoolInv, Safety, PutNeverRefused, NotDisplaced, Has
<1>4. \A g \in Frames \ {f} : /\ live'[g] <=> live[g]
                              /\ g \in Pooled' <=> g \in Pooled
  BY <1>1, <1>3, PutLockedEffect DEF PoolInv, ControlInv, Safety, NoUseAfterFree
<1>5. /\ prev'[t] = NoFrame /\ pc'[t] = "install"
      /\ \A u \in Threads \ {t} : prev'[u] = prev[u]
  BY <1>1 DEF PoolInv, ControlInv, TypeOK
<1>6. Published = NoFrame /\ Published' = NoFrame
  BY <1>1, <1>5 DEF Published
<1>7. Reading' = Reading /\ \A u \in Threads \ {t} : \A g : Has(u, g)' <=> Has(u, g)
  BY <1>1, <1>5, HasSame
<1>8. ~Has(t, f)'
  BY <1>1, <1>3, <1>5, ThreadFacts DEF Has
<1>9. \A u \in Threads : ~Has(u, f)'
  BY <1>3, <1>7, <1>8, HasFacts
<1>10. ASSUME NEW g \in Frames \ {f} PROVE SameFrame(g)
  <2>1. Has(t, g)' <=> Has(t, g)
    BY <1>1, <1>5, ThreadFacts DEF Has
  <2> QED
    BY <1>4, <1>6, <1>7, <2>1 DEF SameFrame
<1>11. f # Published'
  BY <1>6, ThreadFacts
<1> QED
  BY <1>3, <1>7, <1>9, <1>10, <1>11, PlacedHolds, PlacedNext, GiveUpStep

LEMMA InstallRefinement ==
  ASSUME PoolInv, PoolInv', NEW t \in Threads, InstallLatest(t)
  PROVE  Ownership!Next
<1>1. /\ pc[t] = "install" /\ pc' = [pc EXCEPT ![t] = "decode"]
      /\ hold' = [hold EXCEPT ![t] = NoFrame] /\ latest' = hold[t]
      /\ UNCHANGED <<pool, live, prev>>
  BY DEF InstallLatest
<1> PICK f \in Frames : f = hold[t]
  BY <1>1, UsedFrames DEF Decoding
<1>2. Has(t, f) /\ prev[t] = NoFrame
  BY <1>1 DEF Has, PoolInv, ControlInv, Control
<1>3. /\ hold'[t] = NoFrame /\ pc'[t] = "decode"
      /\ \A u \in Threads \ {t} : hold'[u] = hold[u] /\ pc'[u] = pc[u]
  BY <1>1 DEF PoolInv, ControlInv, TypeOK
<1>4. /\ Published = NoFrame
      /\ \A u \in Threads \ {t} : pc[u] \notin {"put", "install"}
  BY <1>1, PublishedCases DEF PoolInv
<1>5. Published' = f
  <2>1. \A u \in Threads : pc'[u] \notin {"put", "install"}
    BY <1>3, <1>4
  <2> QED
    BY <1>1, <2>1 DEF Published
<1>6. Reading' = Reading /\ \A u \in Threads \ {t} : \A g : Has(u, g)' <=> Has(u, g)
  BY <1>1, <1>3, HasSame
<1>7. ASSUME NEW g \in Frames \ {f} PROVE SameFrame(g)
  <2>1. Has(t, g)' <=> Has(t, g)
    BY <1>1, <1>2, <1>3, ThreadFacts DEF Has
  <2>2. ~(g = Published') /\ ~(g = Published)
    BY <1>4, <1>5, ThreadFacts
  <2>3. Pooled' = Pooled
    BY <1>1 DEF Pooled
  <2> QED
    BY <1>1, <1>6, <2>1, <2>2, <2>3 DEF SameFrame
<1>8. /\ PlaceOf(f) = t /\ PlaceOf(f)' = "latest"
      /\ \A g \in Frames : PlaceOf(g) # "latest"
  BY <1>2, <1>4, <1>5, PlacedHolds, PlacedNext, ThreadFacts DEF Placed
<1>9. Ownership!Move(f, "latest")
  BY <1>6, <1>7, <1>8, PlacedHolds, PlacedNext, MoveStep
<1>10. Ownership!Publish(t, f)
  BY <1>8, <1>9 DEF Ownership!Publish
<1> QED
  BY <1>10 DEF Ownership!Next

LEMMA DecodeRefinement ==
  ASSUME PoolInv, PoolInv', NEW t \in Threads, Decode(t)
  PROVE  [Ownership!Next]_(Ownership!vars)
<1>1. ASSUME NEW w \in Formats, GetPooled(t, w) PROVE Ownership!Next
  BY <1>1, GetPooledRefinement
<1>2. ASSUME NEW w \in Formats, GetNew(t, w) PROVE Ownership!Next
  <2>1. /\ pc[t] = "decode" /\ pc' = [pc EXCEPT ![t] = "got"]
        /\ UNCHANGED <<pool, latest, prev>>
    BY <1>2 DEF GetNew
  <2> PICK f \in Frames : /\ Allocate(f, generation)
                          /\ hold' = [hold EXCEPT ![t] = f]
    BY <1>2 DEF GetNew
  <2>2. hold[t] = NoFrame
    BY <2>1 DEF PoolInv, ControlInv, Control
  <2> QED
    BY <2>1, <2>2, AllocateRefinement
<1>3. CASE CopyPicture(t)
  BY <1>3, CopyPictureRefinement
<1>4. CASE DecodeFails(t)
  <2>1. /\ pc[t] = "got" /\ pc' = [pc EXCEPT ![t] = "decode"]
        /\ hold' = [hold EXCEPT ![t] = NoFrame]
        /\ UNCHANGED <<pool, live, latest, prev>>
    BY <1>4 DEF DecodeFails
  <2> QED
    BY <2>1, ForgetRefinement
<1>5. CASE DiscardOldFormat(t)
  <2>1. /\ pc[t] = "got" /\ pc' = [pc EXCEPT ![t] = "clear"]
        /\ hold' = [hold EXCEPT ![t] = NoFrame]
        /\ live' = [live EXCEPT ![hold[t]] = FALSE]
        /\ UNCHANGED <<pool, latest, prev>>
    BY <1>5 DEF DiscardOldFormat, Free
  <2>2. \A g \in Frames \ {hold[t]} : live'[g] <=> live[g]
    BY <2>1 DEF PoolInv, ControlInv, TypeOK
  <2> QED
    BY <2>1, <2>2, ForgetRefinement
<1>6. CASE ClearAndStartNewGeneration(t)
  BY <1>6, ClearRefinement
<1>7. CASE RemakeFrame(t)
  BY <1>7, RemakeRefinement
<1>8. CASE DisplaceLatest(t)
  BY <1>8, DisplaceRefinement
<1>9. CASE PutDisplaced(t)
  BY <1>9, PutDisplacedRefinement
<1>10. CASE InstallLatest(t)
  BY <1>10, InstallRefinement
<1> QED
  BY <1>1, <1>2, <1>3, <1>4, <1>5, <1>6, <1>7, <1>8, <1>9, <1>10 DEF Decode

----------------------------------------------------------------------------
LEMMA BeginConvertRefinement ==
  ASSUME PoolInv, PoolInv', NEW c \in Callers, BeginConvert(c)
  PROVE  Ownership!Next
<1>1. /\ pc[c] = "convert" /\ latestMu = NoFrame /\ latest # NoFrame
      /\ hold' = [hold EXCEPT ![c] = latest]
      /\ pc' = [pc EXCEPT ![c] = "converting"]
      /\ UNCHANGED <<pool, live, latest, prev>>
  BY DEF BeginConvert
<1>2. /\ Published = latest /\ latest \in Frames
      /\ c \in Threads /\ hold[c] = NoFrame
  BY <1>1, PublishedCases, ThreadFacts DEF PoolInv, ControlInv, Control, TypeOK
<1>3. /\ hold'[c] = latest /\ pc'[c] = "converting"
      /\ \A u \in Threads \ {c} : hold'[u] = hold[u] /\ pc'[u] = pc[u]
  BY <1>1, <1>2 DEF PoolInv, ControlInv, TypeOK
<1>4. Published' = Published /\ Pooled' = Pooled
  <2>1. \A u \in Threads : pc'[u] \in {"put", "install"} <=>
                             pc[u] \in {"put", "install"}
    BY <1>1, <1>3
  <2> QED
    BY <1>1, <2>1 DEF Published, Pooled
<1>5. ASSUME NEW f \in Frames, NEW u \in Threads PROVE Has(u, f)' <=> Has(u, f)
  BY <1>1, <1>2, <1>3, ThreadFacts DEF Has
<1>6. \A f \in Frames : SameFrame(f)
  BY <1>1, <1>4, <1>5 DEF SameFrame
<1>7. \A f \in Frames : PlaceOf(f)' = PlaceOf(f)
  BY <1>6, SamePlace, PlacedHolds, PlacedNext
<1>8. PlaceOf(latest) = "latest"
  BY <1>2, PlacedHolds DEF Placed
<1>9. c \notin Reading /\ Reading' = Reading \union {c}
  BY <1>1, <1>3, ThreadFacts DEF Reading
<1>10. Ownership!StartReading(c)
  BY <1>2, <1>7, <1>8, <1>9 DEF Ownership!StartReading, Reading
<1> QED
  BY <1>10 DEF Ownership!Next

LEMMA EndConvertRefinement ==
  ASSUME PoolInv, PoolInv', NEW c \in Callers, EndConvert(c)
  PROVE  Ownership!Next
<1>1. /\ pc[c] = "converting"
      /\ hold' = [hold EXCEPT ![c] = NoFrame]
      /\ pc' = [pc EXCEPT ![c] = "idle"]
      /\ UNCHANGED <<latest, prev>>
  BY DEF EndConvert
<1>2. /\ c \in Threads /\ hold[c] = latest /\ latest \in Frames
      /\ Published = latest
  BY <1>1, PublishedCases, ThreadFacts DEF PoolInv, ControlInv, Control, TypeOK
<1>3. refs[latest] = 2
  <2>1. Converted(latest) /\ live[latest]
    BY <1>1, <1>2, ThreadFacts DEF Converted, PoolInv, Safety, NoUseAfterFree
  <2> QED
    BY <1>2, <2>1, RefsForm DEF PoolInv, Safety
<1>4. UNCHANGED <<pool, live>>
  BY <1>2, <1>3 DEF EndConvert
<1>5. /\ hold'[c] = NoFrame /\ pc'[c] = "idle"
      /\ \A u \in Threads \ {c} : hold'[u] = hold[u] /\ pc'[u] = pc[u]
  BY <1>1, <1>2 DEF PoolInv, ControlInv, TypeOK
<1>6. Published' = Published /\ Pooled' = Pooled
  <2>1. \A u \in Threads : pc'[u] \in {"put", "install"} <=>
                             pc[u] \in {"put", "install"}
    BY <1>1, <1>5
  <2> QED
    BY <1>1, <1>4, <2>1 DEF Published, Pooled
<1>7. ASSUME NEW f \in Frames, NEW u \in Threads PROVE Has(u, f)' <=> Has(u, f)
  BY <1>1, <1>5, ThreadFacts DEF Has
<1>8. \A f \in Frames : SameFrame(f)
  BY <1>4, <1>6, <1>7 DEF SameFrame
<1>9. \A f \in Frames : PlaceOf(f)' = PlaceOf(f)
  BY <1>8, SamePlace, PlacedHolds, PlacedNext
<1>10. c \in Reading /\ Reading' = Reading \ {c}
  BY <1>1, <1>2, <1>5, ThreadFacts DEF Reading
<1>11. Ownership!StopReading(c)
  BY <1>9, <1>10 DEF Ownership!StopReading, Reading
<1> QED
  BY <1>11 DEF Ownership!Next

LEMMA ImageRefinement ==
  ASSUME PoolInv, PoolInv', NEW c \in Callers, Image(c)
  PROVE  [Ownership!Next]_(Ownership!vars)
<1>1. CASE BeginConvert(c)
  BY <1>1, BeginConvertRefinement
<1>2. CASE EndConvert(c)
  BY <1>2, EndConvertRefinement
<1>3. CASE \/ BeginImage(c) \/ BeginLazyDecode(c) \/ EndLazyDecode(c)
           \/ SkipLazyDecode(c) \/ ImageFails(c)
  <2>1. /\ UNCHANGED <<pool, live, latest, hold, prev>>
        /\ pc[c] \in {"idle", "image", "decode", "convert"}
        /\ \E s \in {"idle", "image", "decode", "convert"} :
             pc' = [pc EXCEPT ![c] = s]
    BY <1>3 DEF BeginImage, BeginLazyDecode, EndLazyDecode, SkipLazyDecode,
                ImageFails, frameVars
  <2>2. \A u \in Threads : pc'[u] = pc[u] \/ {pc[u], pc'[u]} \cap Using = {}
    BY <2>1 DEF Using, PoolInv, ControlInv, TypeOK
  <2> QED
    BY <2>1, <2>2, QuietRefinement
<1> QED
  BY <1>1, <1>2, <1>3 DEF Image

LEMMA DropLatestRefinement ==
  ASSUME PoolInv, PoolInv', DropLatest
  PROVE  [Ownership!Next]_(Ownership!vars)
<1>1. UNCHANGED <<pc, hold, prev, gen, generation>> /\ latest' = NoFrame
  BY DEF DropLatest, threadVars
<1>2. \A u \in Threads : pc[u] \notin {"put", "install", "converting"}
  BY ThreadFacts DEF DropLatest, PoolInv, ControlInv, Control
<1>3. Published = latest /\ Published' = NoFrame
  BY <1>1, <1>2 DEF Published
<1>4. /\ \A f : ~Converted(f)
      /\ Reading = {} /\ Reading' = {}
  BY <1>1, <1>2, ThreadFacts DEF Converted, Reading
<1>5. \A g : \A u \in Threads : Has(u, g)' <=> Has(u, g)
  BY <1>1 DEF Has
<1>6. CASE latest = NoFrame
  <2>1. UNCHANGED <<pool, live>>
    BY <1>6 DEF DropLatest
  <2>2. \A f \in Frames : SameFrame(f)
    BY <1>3, <1>5, <1>6, <2>1 DEF SameFrame, Pooled
  <2> QED
    BY <1>4, <2>2, PlacedHolds, PlacedNext, StutterStep
<1>7. CASE latest # NoFrame
  <2> PICK f \in Frames : f = latest
    BY <1>7 DEF PoolInv, ControlInv, TypeOK
  <2>1. refs[f] = 1 /\ PutAccepts(f) /\ f \notin Pooled
    BY <1>3, <1>4, <1>7, SlotUnused
  <2>2. PutLocked(f)
    BY <1>7, <2>1 DEF DropLatest
  <2>3. \A g \in Frames \ {f} : /\ live'[g] <=> live[g]
                                /\ g \in Pooled' <=> g \in Pooled
    BY <1>1, <2>1, <2>2, PutLockedEffect
    DEF PoolInv, ControlInv, Safety, NoUseAfterFree
  <2>4. \A g \in Frames \ {f} : SameFrame(g)
    BY <1>3, <1>5, <2>3, ThreadFacts DEF SameFrame
  <2>5. \A u \in Threads : ~Has(u, f)'
    BY <1>3, <1>5, HasFacts
  <2>6. PlaceOf(f) = "latest" /\ f # Published'
    BY <1>3, PlacedHolds, ThreadFacts DEF Placed
  <2>7. /\ PlaceOf(f)' \in {"free", "lost", "pool"}
        /\ Ownership!Move(f, PlaceOf(f)')
    BY <1>4, <2>4, <2>5, <2>6, PlacedHolds, PlacedNext, LetGo, MoveStep
  <2>8. Ownership!Retire(f)
    BY <1>4, <2>6, <2>7 DEF Ownership!Retire, Reading
  <2> QED
    BY <2>8 DEF Ownership!Next
<1> QED
  BY <1>6, <1>7

LEMMA ClosePoolRefinement ==
  ASSUME PoolInv, PoolInv', ClosePool
  PROVE  [Ownership!Next]_(Ownership!vars)
<1>1. FreePooled /\ pool' = <<>> /\ UNCHANGED <<latest, pc, hold, prev>>
  BY DEF ClosePool, threadVars
<1>2. Published' = Published /\ Reading' = Reading
  BY <1>1 DEF Published, Reading
<1>3. \A g : \A u \in Threads : Has(u, g)' <=> Has(u, g)
  BY <1>1 DEF Has
<1> QED
  BY <1>1, <1>2, <1>3, ClearStep

LEMMA NextRefinement ==
  PoolInv /\ PoolInv' /\ [Next]_vars => [Ownership!Next]_(Ownership!vars)
<1> SUFFICES ASSUME PoolInv, PoolInv', [Next]_vars
             PROVE  [Ownership!Next]_(Ownership!vars)
  OBVIOUS
<1>1. ASSUME NEW t \in Threads, Decode(t)
      PROVE  [Ownership!Next]_(Ownership!vars)
  BY <1>1, DecodeRefinement
<1>2. ASSUME NEW c \in Callers, Image(c)
      PROVE  [Ownership!Next]_(Ownership!vars)
  BY <1>2, ImageRefinement
<1>3. CASE \/ BeginAccessUnit \/ EndAccessUnit \/ Reconnect \/ BeginClose
           \/ CloseConnection \/ UNCHANGED vars
  <2>1. UNCHANGED <<pool, live, latest, hold, prev>>
    BY <1>3 DEF BeginAccessUnit, EndAccessUnit, Reconnect, BeginClose,
                CloseConnection, vars, frameVars, threadVars
  <2>2. \/ pc' = pc
        \/ /\ pc[Receiver] \in {"idle", "decode"}
           /\ \E s \in {"idle", "decode", "stopped"} :
                pc' = [pc EXCEPT ![Receiver] = s]
    BY <1>3, ThreadFacts DEF BeginAccessUnit, EndAccessUnit, Reconnect,
         BeginClose, CloseConnection, vars, threadVars
  <2>3. \A u \in Threads : pc'[u] = pc[u] \/ {pc[u], pc'[u]} \cap Using = {}
    BY <2>2, ThreadFacts DEF Using, PoolInv, ControlInv, TypeOK
  <2> QED
    BY <2>1, <2>3, QuietRefinement
<1>4. CASE DropLatest
  BY <1>4, DropLatestRefinement
<1>5. CASE ClosePool
  BY <1>5, ClosePoolRefinement
<1> QED
  BY <1>1, <1>2, <1>3, <1>4, <1>5 DEF Next, Close, Closed

LEMMA InitRefinement == Init => Ownership!Init
<1> SUFFICES ASSUME Init PROVE Ownership!Init
  OBVIOUS
<1>1. \A f \in Frames : PlaceOf(f) = "free"
  BY InitSafety, PlacedHolds DEF Init, Placed
<1>2. Reading = {}
  BY ThreadFacts DEF Init, Reading
<1> QED
  BY <1>1, <1>2 DEF Ownership!Init, Reading

(* The pool keeps the promise of FrameOwnership: each frame is in one place at
   any time, moves only from the hands of the goroutine that has it, and the
   latest frame is displaced, retired or freed under no reader. *)
THEOREM FramePoolOwnsFrames == Spec => OwnsFrames
<1>1. PoolInv /\ [Next]_vars => [Ownership!Next]_(Ownership!vars)
  BY NextSafety, NextRefinement
<1> QED
  BY InitRefinement, InvariantHolds, <1>1, PTL
  DEF Spec, OwnsFrames, Ownership!Spec
=============================================================================
