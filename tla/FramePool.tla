----------------------------- MODULE FramePool -----------------------------
(***************************************************************************)
(* The pool of decoded frames and the latest-frame slot of rtspCamera.     *)
(*                                                                         *)
(* A frame is C memory behind a Go wrapper: nothing frees it but the code  *)
(* below, and two goroutines that touch one frame corrupt it.  The actors  *)
(* are the receive goroutine of the RTSP client, the Image() callers (who  *)
(* decode too when lazy_decode is on) and Close().  Every step is one      *)
(* critical section of the code, so the checks put() makes before it takes *)
(* framesMu, and the generation decode() carries from one lock to the      *)
(* next, interleave with the other actors as they do in the program.       *)
(***************************************************************************)
EXTENDS Integers, Sequences

CONSTANTS
  Frames,         \* identities of avFrameWrapper objects
  NoFrame,        \* the nil *avFrameWrapper
  Receiver,       \* the goroutine that runs the OnPacketRTP callbacks
  Callers,        \* goroutines inside Image()
  Formats,        \* pixel format and size of a decoded picture
  NoFormat,       \* a wrapper whose buffer was never allocated
  MaxNumFrames,   \* capacity of the pool (initialFramePoolSize)
  MaxGeneration   \* bound: no further format change once reached

Threads == Callers \union {Receiver}

ASSUME PoolAssumption ==
  /\ NoFrame \notin Frames \union Threads
  /\ {"free", "pool", "latest", "lost"} \intersect Threads = {}  \* see PlaceOf
  /\ Receiver \notin Callers
  /\ NoFormat \notin Formats
  /\ MaxNumFrames \in Nat
  /\ MaxGeneration \in Nat

VARIABLES
  pool,        \* framePool.frames, a stack
  generation,  \* framePool.generation
  live,        \* live[f]: the C memory of f is allocated (not isFreed)
  gen,         \* gen[f]: avFrameWrapper.generation
  fmt,         \* fmt[f]: width, height and format of the buffer
  refs,        \* refs[f]: avFrameWrapper.refCount
  inPool,      \* inPool[f]: avFrameWrapper.isInPool
  latest,      \* rtspCamera.latestFrame
  latestMu,    \* holder of latestFrameMu, or NoFrame
  auMu,        \* holder of auMu, or NoFrame
  pc,          \* where each goroutine stands
  hold,        \* hold[t]: the frame t decodes into or converts from
  prev,        \* prev[t]: the displaced frame t is about to put()
  want,        \* want[t]: the format of the picture t has just decoded
  newGen,      \* newGen[t]: what clearAndStartNewGeneration returned to t
  lazy,        \* rtspCamera.lazyDecode, fixed when the camera is built
  seenIDR,     \* receivedFirstIDR of the current connection
  closing,     \* progress of Close()
  panicked     \* a double free or a negative reference count

frameVars == <<live, gen, fmt, refs, inPool>>
threadVars == <<pc, hold, prev, want, newGen>>
lockVars == <<latestMu, auMu>>
vars == <<pool, generation, frameVars, latest, lockVars, threadVars,
          lazy, seenIDR, closing, panicked>>

----------------------------------------------------------------------------
(* Whether some Go reference to f exists. *)
Reachable(f) ==
  \/ \E i \in DOMAIN pool : pool[i] = f
  \/ \E t \in Threads : hold[t] = f \/ prev[t] = f
  \/ latest = f

(* newAVFrameWrapper: a wrapper nobody refers to yet, with an empty buffer. *)
Fresh(f) == ~live[f] /\ ~Reachable(f)

Allocate(f, g) ==
  /\ Fresh(f)
  /\ live' = [live EXCEPT ![f] = TRUE]
  /\ gen' = [gen EXCEPT ![f] = g]
  /\ fmt' = [fmt EXCEPT ![f] = NoFormat]
  /\ refs' = [refs EXCEPT ![f] = 0]
  /\ inPool' = [inPool EXCEPT ![f] = FALSE]

(* The pool's frames, as a set. *)
Pooled == {f \in Frames : \E i \in DOMAIN pool : pool[i] = f}

(* avFrameWrapper.free: a second call panics. *)
Free(f) ==
  /\ live' = [live EXCEPT ![f] = FALSE]
  /\ panicked' = (panicked \/ ~live[f])

(* avFrameWrapper.free over every frame of the pool. *)
FreePooled ==
  /\ live' = [f \in Frames |-> live[f] /\ f \notin Pooled]
  /\ panicked' = (panicked \/ \E f \in Pooled : ~live[f])

(* Mutant: put() without the comparison of generations. *)
PutLockedAnyGeneration(f) ==
  \/ /\ Len(pool) >= MaxNumFrames
     /\ Free(f)
     /\ UNCHANGED <<pool, inPool>>
  \/ /\ Len(pool) < MaxNumFrames
     /\ pool' = Append(pool, f)
     /\ inPool' = [inPool EXCEPT ![f] = TRUE]
     /\ UNCHANGED <<live, panicked>>

(* put() under framesMu, once f has passed the checks that precede it. *)
PutLocked(f) ==
  \/ /\ gen[f] # generation
     /\ UNCHANGED <<pool, live, inPool, panicked>>
  \/ /\ gen[f] = generation
     /\ Len(pool) >= MaxNumFrames
     /\ Free(f)
     /\ UNCHANGED <<pool, inPool>>
  \/ /\ gen[f] = generation
     /\ Len(pool) < MaxNumFrames
     /\ pool' = Append(pool, f)
     /\ inPool' = [inPool EXCEPT ![f] = TRUE]
     /\ UNCHANGED <<live, panicked>>

(* The checks of put() that run before it locks framesMu. *)
PutAccepts(f) == live[f] /\ ~inPool[f]

(* decrementRefs panics rather than let a count go below zero. *)
DecrementRefs(f) ==
  /\ refs' = [refs EXCEPT ![f] = @ - 1]
  /\ panicked' = (panicked \/ refs[f] = 0)

----------------------------------------------------------------------------
Init ==
  /\ pool = <<>>
  /\ generation = 0
  /\ live = [f \in Frames |-> FALSE]
  /\ gen = [f \in Frames |-> 0]
  /\ fmt = [f \in Frames |-> NoFormat]
  /\ refs = [f \in Frames |-> 0]
  /\ inPool = [f \in Frames |-> FALSE]
  /\ latest = NoFrame
  /\ latestMu = NoFrame
  /\ auMu = NoFrame
  /\ pc = [t \in Threads |-> "idle"]
  /\ hold = [t \in Threads |-> NoFrame]
  /\ prev = [t \in Threads |-> NoFrame]
  /\ want = [t \in Threads |-> NoFormat]
  /\ newGen = [t \in Threads |-> 0]
  /\ lazy \in BOOLEAN
  /\ seenIDR = FALSE
  /\ closing = "open"
  /\ panicked = FALSE

(* The receive goroutine decodes an access unit: every one when decoding is
   eager, only the first IDR of a connection when it is lazy. *)
BeginAccessUnit ==
  /\ pc[Receiver] = "idle"
  /\ ~lazy \/ ~seenIDR
  /\ pc' = [pc EXCEPT ![Receiver] = "decode"]
  /\ seenIDR' = TRUE
  /\ UNCHANGED <<pool, generation, frameVars, latest, lockVars, hold, prev,
                 want, newGen, lazy, closing, panicked>>

EndAccessUnit ==
  /\ pc[Receiver] = "decode"
  /\ pc' = [pc EXCEPT ![Receiver] = "idle"]
  /\ UNCHANGED <<pool, generation, frameVars, latest, lockVars, hold, prev,
                 want, newGen, lazy, seenIDR, closing, panicked>>

(* Image() takes closeMu for reading and gives up when Close has begun. *)
BeginImage(c) ==
  /\ pc[c] = "idle"
  /\ closing = "open"
  /\ pc' = [pc EXCEPT ![c] = "image"]
  /\ UNCHANGED <<pool, generation, frameVars, latest, lockVars, hold, prev,
                 want, newGen, lazy, seenIDR, closing, panicked>>

(* consumeLazyAU holds auMu while it decodes what was put aside. *)
BeginLazyDecode(c) ==
  /\ pc[c] = "image"
  /\ lazy
  /\ auMu = NoFrame
  /\ auMu' = c
  /\ pc' = [pc EXCEPT ![c] = "decode"]
  /\ UNCHANGED <<pool, generation, frameVars, latest, latestMu, hold, prev,
                 want, newGen, lazy, seenIDR, closing, panicked>>

EndLazyDecode(c) ==
  /\ pc[c] = "decode"
  /\ auMu' = NoFrame
  /\ pc' = [pc EXCEPT ![c] = "convert"]
  /\ UNCHANGED <<pool, generation, frameVars, latest, latestMu, hold, prev,
                 want, newGen, lazy, seenIDR, closing, panicked>>

(* Without lazy_decode there is never anything put aside. *)
SkipLazyDecode(c) ==
  /\ pc[c] = "image"
  /\ ~lazy
  /\ pc' = [pc EXCEPT ![c] = "convert"]
  /\ UNCHANGED <<pool, generation, frameVars, latest, lockVars, hold, prev,
                 want, newGen, lazy, seenIDR, closing, panicked>>

----------------------------------------------------------------------------
(* Mutant: get() hands out the top of the pool and leaves it there. *)
GetPooledPeeks(t, w) ==
  /\ pc[t] = "decode"
  /\ pool # <<>>
  /\ LET f == pool[Len(pool)] IN
       /\ fmt[f] = w \/ generation < MaxGeneration
       /\ inPool' = [inPool EXCEPT ![f] = FALSE]
       /\ hold' = [hold EXCEPT ![t] = f]
       /\ want' = [want EXCEPT ![t] = w]
       /\ pc' = [pc EXCEPT ![t] = "got"]
  /\ UNCHANGED <<pool, generation, live, gen, fmt, refs, latest, lockVars, prev,
                 newGen, lazy, seenIDR, closing, panicked>>

(* Mutant: get() does not take isInPool back. *)
GetPooledKeepsFlag(t, w) ==
  /\ pc[t] = "decode"
  /\ pool # <<>>
  /\ LET f == pool[Len(pool)] IN
       /\ fmt[f] = w \/ generation < MaxGeneration
       /\ pool' = SubSeq(pool, 1, Len(pool) - 1)
       /\ hold' = [hold EXCEPT ![t] = f]
       /\ want' = [want EXCEPT ![t] = w]
       /\ pc' = [pc EXCEPT ![t] = "got"]
  /\ UNCHANGED <<generation, frameVars, latest, lockVars, prev,
                 newGen, lazy, seenIDR, closing, panicked>>

(* decode(): the codec has produced a picture of format w; get() pops the
   top of the pool ... *)
GetPooled(t, w) ==
  /\ pc[t] = "decode"
  /\ pool # <<>>
  /\ LET f == pool[Len(pool)] IN
       /\ fmt[f] = w \/ generation < MaxGeneration
       /\ pool' = SubSeq(pool, 1, Len(pool) - 1)
       /\ inPool' = [inPool EXCEPT ![f] = FALSE]
       \* decode() gives up on a frame that get() returned freed
       /\ IF live[f]
            THEN /\ hold' = [hold EXCEPT ![t] = f]
                 /\ want' = [want EXCEPT ![t] = w]
                 /\ pc' = [pc EXCEPT ![t] = "got"]
            ELSE UNCHANGED <<hold, want, pc>>
  /\ UNCHANGED <<generation, live, gen, fmt, refs, latest, lockVars, prev,
                 newGen, lazy, seenIDR, closing, panicked>>

(* ... or makes a frame when the pool is empty.  When the allocation fails
   decode() returns an error and nothing changes. *)
GetNew(t, w) ==
  /\ pc[t] = "decode"
  /\ pool = <<>>
  /\ \E f \in Frames :
       /\ Allocate(f, generation)
       /\ hold' = [hold EXCEPT ![t] = f]
  /\ want' = [want EXCEPT ![t] = w]
  /\ pc' = [pc EXCEPT ![t] = "got"]
  /\ UNCHANGED <<pool, generation, latest, lockVars, prev, newGen, lazy,
                 seenIDR, closing, panicked>>

(* The buffer has the right shape, or is given it (av_frame_get_buffer); the
   picture is copied into it. *)
CopyPicture(t) ==
  /\ pc[t] = "got"
  /\ fmt[hold[t]] \in {NoFormat, want[t]}
  /\ fmt' = [fmt EXCEPT ![hold[t]] = want[t]]
  /\ want' = [want EXCEPT ![t] = NoFormat]
  /\ pc' = [pc EXCEPT ![t] = "ready"]
  /\ UNCHANGED <<pool, generation, live, gen, refs, inPool, latest, lockVars,
                 hold, prev, newGen, lazy, seenIDR, closing, panicked>>

(* av_frame_get_buffer or av_frame_copy fails: decode() returns the error and
   forgets the frame. *)
DecodeFails(t) ==
  /\ pc[t] = "got"
  /\ fmt[hold[t]] \in {NoFormat, want[t]}
  /\ fmt' = [fmt EXCEPT ![hold[t]] = want[t]]
  /\ hold' = [hold EXCEPT ![t] = NoFrame]
  /\ want' = [want EXCEPT ![t] = NoFormat]
  /\ pc' = [pc EXCEPT ![t] = "decode"]
  /\ UNCHANGED <<pool, generation, live, gen, refs, inPool, latest, lockVars,
                 prev, newGen, lazy, seenIDR, closing, panicked>>

(* The buffer has an old shape: free it ... *)
DiscardOldFormat(t) ==
  /\ pc[t] = "got"
  /\ fmt[hold[t]] \notin {NoFormat, want[t]}
  /\ Free(hold[t])
  /\ hold' = [hold EXCEPT ![t] = NoFrame]
  /\ pc' = [pc EXCEPT ![t] = "clear"]
  /\ UNCHANGED <<pool, generation, gen, fmt, refs, inPool, latest, lockVars,
                 prev, want, newGen, lazy, seenIDR, closing>>

(* Mutant: the freed frames stay on the stack. *)
ClearKeepsFrames(t) ==
  /\ pc[t] = "clear"
  /\ FreePooled
  /\ generation' = generation + 1
  /\ newGen' = [newGen EXCEPT ![t] = generation + 1]
  /\ pc' = [pc EXCEPT ![t] = "remake"]
  /\ UNCHANGED <<pool, gen, fmt, refs, inPool, latest, lockVars, hold, prev,
                 want, lazy, seenIDR, closing>>

(* Mutant: the generation counts down. *)
ClearStepsBack(t) ==
  /\ pc[t] = "clear"
  /\ FreePooled
  /\ pool' = <<>>
  /\ generation' = generation - 1
  /\ newGen' = [newGen EXCEPT ![t] = generation - 1]
  /\ pc' = [pc EXCEPT ![t] = "remake"]
  /\ UNCHANGED <<gen, fmt, refs, inPool, latest, lockVars, hold, prev, want,
                 lazy, seenIDR, closing>>

(* ... clearAndStartNewGeneration ... *)
ClearAndStartNewGeneration(t) ==
  /\ pc[t] = "clear"
  /\ FreePooled
  /\ pool' = <<>>
  /\ generation' = generation + 1
  /\ newGen' = [newGen EXCEPT ![t] = generation + 1]
  /\ pc' = [pc EXCEPT ![t] = "remake"]
  /\ UNCHANGED <<gen, fmt, refs, inPool, latest, lockVars, hold, prev, want,
                 lazy, seenIDR, closing>>

(* ... and make a frame of the generation that call returned, or fail to. *)
RemakeFrame(t) ==
  /\ pc[t] = "remake"
  /\ \/ \E f \in Frames :
          /\ Allocate(f, newGen[t])
          /\ hold' = [hold EXCEPT ![t] = f]
          /\ pc' = [pc EXCEPT ![t] = "got"]
          /\ UNCHANGED want
     \/ /\ pc' = [pc EXCEPT ![t] = "decode"]
        /\ want' = [want EXCEPT ![t] = NoFormat]
        /\ UNCHANGED <<frameVars, hold>>
  /\ newGen' = [newGen EXCEPT ![t] = 0]
  /\ UNCHANGED <<pool, generation, latest, lockVars, prev, lazy, seenIDR,
                 closing, panicked>>

----------------------------------------------------------------------------
(* handleLatestFrame takes latestFrameMu and drops the slot's reference to
   the frame it displaces; put() makes its unlocked checks ... *)
DisplaceLatest(t) ==
  /\ pc[t] = "ready"
  /\ latestMu = NoFrame
  /\ latestMu' = t
  /\ IF latest = NoFrame
       THEN /\ pc' = [pc EXCEPT ![t] = "install"]
            /\ UNCHANGED <<refs, panicked, prev>>
       ELSE /\ DecrementRefs(latest)
            /\ IF refs[latest] = 1 /\ PutAccepts(latest)
                 THEN /\ prev' = [prev EXCEPT ![t] = latest]
                      /\ pc' = [pc EXCEPT ![t] = "put"]
                 ELSE /\ pc' = [pc EXCEPT ![t] = "install"]
                      /\ UNCHANGED prev
  /\ UNCHANGED <<pool, generation, live, gen, fmt, inPool, latest, auMu, hold,
                 want, newGen, lazy, seenIDR, closing>>

(* ... then put() locks framesMu and finishes ... *)
PutDisplaced(t) ==
  /\ pc[t] = "put"
  /\ PutLocked(prev[t])
  /\ prev' = [prev EXCEPT ![t] = NoFrame]
  /\ pc' = [pc EXCEPT ![t] = "install"]
  /\ UNCHANGED <<generation, gen, fmt, refs, latest, lockVars, hold, want,
                 newGen, lazy, seenIDR, closing>>

(* Mutant: the slot's reference is not counted. *)
InstallUncounted(t) ==
  /\ pc[t] = "install"
  /\ latest' = hold[t]
  /\ hold' = [hold EXCEPT ![t] = NoFrame]
  /\ latestMu' = NoFrame
  /\ pc' = [pc EXCEPT ![t] = "decode"]
  /\ UNCHANGED <<pool, generation, frameVars, auMu, prev, want, newGen, lazy,
                 seenIDR, closing, panicked>>

(* ... and the new frame becomes the latest one. *)
InstallLatest(t) ==
  /\ pc[t] = "install"
  /\ refs' = [refs EXCEPT ![hold[t]] = @ + 1]
  /\ latest' = hold[t]
  /\ hold' = [hold EXCEPT ![t] = NoFrame]
  /\ latestMu' = NoFrame
  /\ pc' = [pc EXCEPT ![t] = "decode"]
  /\ UNCHANGED <<pool, generation, live, gen, fmt, inPool, auMu, prev, want,
                 newGen, lazy, seenIDR, closing, panicked>>

(* getAndConvertFrame with no frame yet is an error. *)
ImageFails(c) ==
  /\ pc[c] = "convert"
  /\ latestMu = NoFrame
  /\ latest = NoFrame
  /\ pc' = [pc EXCEPT ![c] = "idle"]
  /\ UNCHANGED <<pool, generation, frameVars, latest, lockVars, hold, prev,
                 want, newGen, lazy, seenIDR, closing, panicked>>

(* Mutant: Image() converts without a reference of its own. *)
BeginConvertUncounted(c) ==
  /\ pc[c] = "convert"
  /\ latestMu = NoFrame
  /\ latest # NoFrame
  /\ latestMu' = c
  /\ hold' = [hold EXCEPT ![c] = latest]
  /\ pc' = [pc EXCEPT ![c] = "converting"]
  /\ UNCHANGED <<pool, generation, frameVars, latest, auMu, prev, want, newGen,
                 lazy, seenIDR, closing, panicked>>

(* It converts the latest frame while it holds latestFrameMu ... *)
BeginConvert(c) ==
  /\ pc[c] = "convert"
  /\ latestMu = NoFrame
  /\ latest # NoFrame
  /\ latestMu' = c
  /\ refs' = [refs EXCEPT ![latest] = @ + 1]
  /\ hold' = [hold EXCEPT ![c] = latest]
  /\ pc' = [pc EXCEPT ![c] = "converting"]
  /\ UNCHANGED <<pool, generation, live, gen, fmt, inPool, latest, auMu, prev,
                 want, newGen, lazy, seenIDR, closing, panicked>>

(* Mutant: a failed conversion returns before it drops its reference. *)
EndConvertKeepsRef(c) ==
  /\ pc[c] = "converting"
  /\ hold' = [hold EXCEPT ![c] = NoFrame]
  /\ latestMu' = NoFrame
  /\ pc' = [pc EXCEPT ![c] = "idle"]
  /\ UNCHANGED <<pool, generation, frameVars, latest, auMu, prev, want, newGen,
                 lazy, seenIDR, closing, panicked>>

(* ... and would put the frame back if its reference were the last one. *)
EndConvert(c) ==
  /\ pc[c] = "converting"
  /\ LET f == hold[c] IN
       /\ refs' = [refs EXCEPT ![f] = @ - 1]
       /\ IF refs[f] = 1 /\ PutAccepts(f)
            THEN PutLocked(f)
            ELSE /\ panicked' = (panicked \/ refs[f] = 0)
                 /\ UNCHANGED <<pool, live, inPool>>
  /\ hold' = [hold EXCEPT ![c] = NoFrame]
  /\ latestMu' = NoFrame
  /\ pc' = [pc EXCEPT ![c] = "idle"]
  /\ UNCHANGED <<generation, gen, fmt, latest, auMu, prev, want, newGen, lazy,
                 seenIDR, closing>>

----------------------------------------------------------------------------
(* A reconnection holds closeMu, so no Image() is under way, and waits for
   the receive goroutine to end; pool and latest frame outlive it. *)
Reconnect ==
  /\ closing = "open"
  /\ \A t \in Threads : pc[t] = "idle"
  /\ seenIDR' = FALSE
  /\ UNCHANGED <<pool, generation, frameVars, latest, lockVars, threadVars,
                 lazy, closing, panicked>>

(* Close() cancels the camera's context, which Image() checks ... *)
BeginClose ==
  /\ closing = "open"
  /\ closing' = "cancelled"
  /\ UNCHANGED <<pool, generation, frameVars, latest, lockVars, threadVars,
                 lazy, seenIDR, panicked>>

(* ... takes closeMu when the last Image() has left and closes the client,
   which waits for the receive goroutine ... *)
CloseConnection ==
  /\ closing = "cancelled"
  /\ \A t \in Threads : pc[t] = "idle"
  /\ pc' = [pc EXCEPT ![Receiver] = "stopped"]
  /\ closing' = "disconnected"
  /\ UNCHANGED <<pool, generation, frameVars, latest, lockVars, hold, prev,
                 want, newGen, lazy, seenIDR, panicked>>

(* ... drops the slot's reference to the latest frame ... *)
DropLatest ==
  /\ closing = "disconnected"
  /\ IF latest = NoFrame
       THEN UNCHANGED <<pool, live, inPool, refs, panicked>>
       ELSE /\ refs' = [refs EXCEPT ![latest] = @ - 1]
            /\ IF refs[latest] = 1 /\ PutAccepts(latest)
                 THEN PutLocked(latest)
                 ELSE /\ panicked' = (panicked \/ refs[latest] = 0)
                      /\ UNCHANGED <<pool, live, inPool>>
  /\ latest' = NoFrame
  /\ closing' = "dropped"
  /\ UNCHANGED <<generation, gen, fmt, lockVars, threadVars, lazy, seenIDR>>

(* ... and closes the pool. *)
ClosePool ==
  /\ closing = "dropped"
  /\ FreePooled
  /\ pool' = <<>>
  /\ closing' = "closed"
  /\ UNCHANGED <<generation, gen, fmt, refs, inPool, latest, lockVars,
                 threadVars, lazy, seenIDR>>

Closed ==
  /\ closing = "closed"
  /\ UNCHANGED vars

Decode(t) ==
  \/ \E w \in Formats : GetPooled(t, w) \/ GetNew(t, w)
  \/ CopyPicture(t)
  \/ DecodeFails(t)
  \/ DiscardOldFormat(t)
  \/ ClearAndStartNewGeneration(t)
  \/ RemakeFrame(t)
  \/ DisplaceLatest(t)
  \/ PutDisplaced(t)
  \/ InstallLatest(t)

Image(c) ==
  \/ BeginImage(c)
  \/ BeginLazyDecode(c)
  \/ EndLazyDecode(c)
  \/ SkipLazyDecode(c)
  \/ ImageFails(c)
  \/ BeginConvert(c)
  \/ EndConvert(c)

Close == BeginClose \/ CloseConnection \/ DropLatest \/ ClosePool

Next ==
  \/ \E t \in Threads : Decode(t)
  \/ \E c \in Callers : Image(c)
  \/ BeginAccessUnit
  \/ EndAccessUnit
  \/ Reconnect
  \/ Close
  \/ Closed

Spec == Init /\ [][Next]_vars

----------------------------------------------------------------------------
(* Types of the variables. *)
TypeOK ==
  /\ pool \in Seq(Frames)
  /\ generation \in Nat
  /\ live \in [Frames -> BOOLEAN]
  /\ gen \in [Frames -> Nat]
  /\ fmt \in [Frames -> Formats \union {NoFormat}]
  /\ refs \in [Frames -> Int]
  /\ inPool \in [Frames -> BOOLEAN]
  /\ latest \in Frames \union {NoFrame}
  /\ latestMu \in Threads \union {NoFrame}
  /\ auMu \in Callers \union {NoFrame}
  /\ pc \in [Threads -> {"idle", "decode", "got", "clear", "remake", "ready",
                         "put", "install", "image", "convert", "converting",
                         "stopped"}]
  /\ hold \in [Threads -> Frames \union {NoFrame}]
  /\ prev \in [Threads -> Frames \union {NoFrame}]
  /\ want \in [Threads -> Formats \union {NoFormat}]
  /\ newGen \in [Threads -> Nat]
  /\ lazy \in BOOLEAN
  /\ seenIDR \in BOOLEAN
  /\ closing \in {"open", "cancelled", "disconnected", "dropped", "closed"}
  /\ panicked \in BOOLEAN

(* The two panics of the frame code, "av frame was double freed" and "ref
   count became negative", never happen, Close() racing decoders included. *)
NoPanic == ~panicked

(* The frame Image() would convert: the slot's, unless a goroutine that holds
   latestFrameMu has displaced it and not yet stored its successor. *)
Published ==
  IF \E t \in Threads : pc[t] \in {"put", "install"} THEN NoFrame ELSE latest

(* Whoever may still use a frame finds its memory alive: a decoder writing
   into it, an Image() caller converting it, the slot, the pool. *)
NoUseAfterFree ==
  /\ \A f \in Pooled : live[f]
  /\ \A t \in Threads : \A f \in {hold[t], prev[t], Published} \ {NoFrame} :
       live[f]

Decoding(t) == pc[t] \in {"got", "ready", "put", "install"}

(* A decoder writes only into a frame nobody else can see: not the one that
   another decoder fills, not one an Image() caller converts, not the latest
   frame, not one get() could hand out again. *)
WriterIsAlone ==
  \A t \in Threads : Decoding(t) =>
    /\ hold[t] # Published
    /\ hold[t] \notin Pooled
    /\ \A u \in Threads \ {t} : hold[t] \notin {hold[u], prev[u]}

(* The two refusals of put(), "Frame was already freed" and "Frame is already
   in pool", are dead code: the frame in the slot passes the checks put()
   makes without the lock, and what they found still holds under the lock. *)
PutNeverRefused ==
  /\ Published # NoFrame => PutAccepts(Published) /\ Published \notin Pooled
  /\ \A t \in Threads : pc[t] = "put" =>
       PutAccepts(prev[t]) /\ prev[t] \notin Pooled

(* isInPool, which put() trusts, says exactly whether the stack holds the
   frame, and holds it once; and every frame there is of the current
   generation, so no buffer from before a format change is reused. *)
PoolConsistent ==
  /\ \A f \in Frames : live[f] => (inPool[f] <=> f \in Pooled)
  /\ \A i, j \in DOMAIN pool : pool[i] = pool[j] => i = j
  /\ \A f \in Pooled : gen[f] = generation
  /\ Len(pool) <= MaxNumFrames

(* The reference count of a frame is the number of its counted users: the
   slot and the Image() callers converting it. *)
RefsAreExact ==
  \A f \in Frames : live[f] =>
    refs[f] = (IF f = Published THEN 1 ELSE 0)
              + (IF \E c \in Callers : pc[c] = "converting" /\ hold[c] = f
                   THEN 1 ELSE 0)

(* The pool keeps the promise FrameOwnership states: where each frame is,
   read off its flags, the slot and the goroutines' locals. *)
Has(t, f) == f = prev[t] \/ (f = hold[t] /\ pc[t] # "converting")

PlaceOf(f) ==
  IF ~live[f] THEN "free"
  ELSE IF inPool[f] THEN "pool"
  ELSE IF \E t \in Threads : Has(t, f) THEN CHOOSE t \in Threads : Has(t, f)
  ELSE IF f = Published THEN "latest" ELSE "lost"

Ownership ==
  INSTANCE FrameOwnership WITH
    place <- [f \in Frames |-> PlaceOf(f)],
    reading <- {c \in Callers : pc[c] = "converting"}

OwnsFrames == Ownership!Spec
=============================================================================
