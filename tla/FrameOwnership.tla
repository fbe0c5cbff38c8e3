--------------------------- MODULE FrameOwnership ---------------------------
(***************************************************************************)
(* What the frame pool promises: a decoded frame always has exactly one    *)
(* place.  It is free, or in the pool, or the latest frame, or in the      *)
(* hands of one goroutine, or lost (nobody refers to it and its memory is  *)
(* never given back).  Only the goroutine that has a frame may write it or *)
(* free it, the pool frees only what is in it, and the latest frame stays  *)
(* where it is as long as somebody reads it.                               *)
(***************************************************************************)
CONSTANTS Frames, Threads, Callers

VARIABLES
  place,    \* place[f]: "free", "pool", "latest", "lost" or a goroutine
  reading   \* the goroutines that read the latest frame

vars == <<place, reading>>

Init ==
  /\ place = [f \in Frames |-> "free"]
  /\ reading = {}

Move(f, p) ==
  /\ place' = [place EXCEPT ![f] = p]
  /\ UNCHANGED reading

(* A goroutine gets a frame: a new one, or the pool's. *)
Get(t, f) ==
  /\ place[f] \in {"free", "pool"}
  /\ Move(f, t)

(* A goroutine parts with a frame it has: it frees it, forgets it, or puts
   it in the pool. *)
GiveUp(t, f) ==
  /\ place[f] = t
  /\ \E p \in {"free", "lost", "pool"} : Move(f, p)

(* The latest frame leaves its slot, never under a reader: a goroutine takes
   it, or Close retires it. *)
Displace(t, f) ==
  /\ place[f] = "latest"
  /\ reading = {}
  /\ Move(f, t)

Retire(f) ==
  /\ place[f] = "latest"
  /\ reading = {}
  /\ \E p \in {"free", "lost", "pool"} : Move(f, p)

(* The slot takes one frame at a time. *)
Publish(t, f) ==
  /\ place[f] = t
  /\ \A g \in Frames : place[g] # "latest"
  /\ Move(f, "latest")

(* The pool frees everything it has: a new generation, or Close. *)
Clear ==
  /\ \E f \in Frames : place[f] = "pool"
  /\ place' = [f \in Frames |-> IF place[f] = "pool" THEN "free" ELSE place[f]]
  /\ UNCHANGED reading

StartReading(c) ==
  /\ c \notin reading
  /\ \E f \in Frames : place[f] = "latest"
  /\ reading' = reading \union {c}
  /\ UNCHANGED place

StopReading(c) ==
  /\ c \in reading
  /\ reading' = reading \ {c}
  /\ UNCHANGED place

Next ==
  \/ \E f \in Frames :
       \/ \E t \in Threads :
            Get(t, f) \/ GiveUp(t, f) \/ Displace(t, f) \/ Publish(t, f)
       \/ Retire(f)
  \/ \E c \in Callers : StartReading(c) \/ StopReading(c)
  \/ Clear

Spec == Init /\ [][Next]_vars
=============================================================================
