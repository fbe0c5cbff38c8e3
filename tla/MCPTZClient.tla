----------------------------- MODULE MCPTZClient -----------------------------
(* Three commands beside Close. *)
EXTENDS PTZClient
=============================================================================
