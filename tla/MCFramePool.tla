---------------------------- MODULE MCFramePool ----------------------------
(* The frame pool with two picture formats, one receive goroutine and two
   Image() callers. *)
EXTENDS FramePool, TLC

Symmetry ==
  Permutations(Frames) \union Permutations(Formats) \union Permutations(Callers)
=============================================================================
