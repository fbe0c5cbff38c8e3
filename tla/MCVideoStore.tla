---------------------------- MODULE MCVideoStore ----------------------------
(* Two calls of GetVideo, and videos of two chunks. *)
EXTENDS VideoStore
=============================================================================
