----------------------------- MODULE MCWSClient -----------------------------
(* Model values for the calls of the WebSocket client. *)
EXTENDS WSClient

CONSTANTS c1, c2, c3

TwoCalls == {c1, c2}
ThreeCalls == {c1, c2, c3}
=============================================================================
