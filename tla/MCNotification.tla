--------------------------- MODULE MCNotification ---------------------------
(* Model-checking instance of Notification: one peer (peers are independent *)
(* apart from sharing the channels), two successive connections, two        *)
(* outbound substream ids and channels of capacity two.                     *)
EXTENDS Notification

CONSTANTS p1

MCPeers == {p1}

====
