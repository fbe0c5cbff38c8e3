---------------------------- MODULE MCRTSPCamera ----------------------------
(* One camera with two transports and one caller of Image(). *)
EXTENDS RTSPCamera
=============================================================================
