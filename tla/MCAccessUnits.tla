--------------------------- MODULE MCAccessUnits ---------------------------
(* Cameras of both codecs with every way to packetise, one lost packet and one
   reconnection. *)
EXTENDS AccessUnits
=============================================================================
