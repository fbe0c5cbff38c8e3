------------------------- MODULE MCRawSegmenterMux -------------------------
(* Two picture sizes; a stream clock that may jump back or ahead. *)
EXTENDS RawSegmenterMux, TLC

Symmetry == Permutations(Sizes)
=============================================================================
