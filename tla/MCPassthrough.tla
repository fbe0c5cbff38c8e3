--------------------------- MODULE MCPassthrough ---------------------------
(* Two subscriptions with buffers of one packet. *)
EXTENDS Passthrough
=============================================================================
