------------------------- MODULE MCWebRtcConnection -------------------------
(* Model-checking instance of WebRtcConnection: two data channels, three   *)
(* frames per channel opening (the select request and two more), enough    *)
(* SubstreamIds for every negotiation.                                     *)
EXTENDS WebRtcConnection

CONSTANTS c1, c2

MCChannels == {c1, c2}

====
