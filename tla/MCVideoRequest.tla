--------------------------- MODULE MCVideoRequest ---------------------------
(* One camera that is closed and built again, two video-stores. *)
EXTENDS VideoRequest
=============================================================================
