---------------------------- MODULE MCOnvifLookup ----------------------------
(* Two devices, of five kinds in three combinations, the worker and a call. *)
EXTENDS OnvifLookup

CONSTANTS h1, h2

Kind(needs, secret, identified, reports) ==
  [needs |-> needs, secret |-> secret, identified |-> identified,
   reports |-> reports, answers |-> TRUE]
Open == Kind("nothing", "configured", FALSE, TRUE)
HalfOpen == Kind("streams", "configured", TRUE, FALSE)
Locked == Kind("everything", "configured", TRUE, TRUE)
Private == Kind("everything", "extra", TRUE, TRUE)
Silent == [Open EXCEPT !.answers = FALSE]

SomeNetworks ==
  LET network(a, b) == [h \in Hosts |-> IF h = h1 THEN a ELSE b]
  IN {network(Open, Locked), network(HalfOpen, Private),
      network(Locked, Silent)}
=============================================================================
