---------------------- MODULE MCNotificationOverWebRtc ----------------------
(* Model-checking instance of NotificationOverWebRtc: the bounds of         *)
(* MCNotification.                                                          *)
EXTENDS NotificationOverWebRtc

CONSTANTS p1

MCPeers == {p1}

====
