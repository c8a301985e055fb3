----------------------- MODULE NotificationOverWebRtc -----------------------
(***************************************************************************)
(* The notification protocol with its peers' connections carried by        *)
(* WebRtcConnection. The protocol's OpenSubstream { substream_id } over a   *)
(* connection handle reaches the connection task as a ProtocolEvent on     *)
(* protocol_set, where the select! arm of run (connection.rs 367-370)      *)
(* only logs it: no outbound substream is opened and no failure is         *)
(* reported. Everything else of the transport is as in Notification.       *)
(***************************************************************************)
EXTENDS Notification

\* run(): `Some(ProtocolEvent::OpenSubstream { .. })` is taken off the
\* protocol set's channel and logged.
WebRtcOpenSubstream(p) ==
  \E sid \in requested[p] :
    /\ alive[p]
    /\ requested' = [requested EXCEPT ![p] = @ \ {sid}]
    /\ UNCHANGED <<conn, alive, tq, inbounds, protocol, app, session>>

NextOverWebRtc ==
  \/ OnTransportEvent \/ OnCommand \/ OnShutdown
  \/ \E p \in Peers :
       \/ OnHandshakeEvent(p) \/ NegotiationError(p)
       \/ TransportConnect(p) \/ TransportDisconnect(p)
       \/ RemoteOpenInbound(p) \/ WebRtcOpenSubstream(p)
       \/ AppCommand(p)
       \/ \E k \in 1 .. MaxConns : SessionEnd(p, k)
  \/ AppRecv

\* As in Notification, with the connection task's loop (weakly fair) in
\* place of the transport's answer.
FairnessOverWebRtc ==
  /\ WF_vars(OnTransportEvent) /\ WF_vars(OnCommand) /\ WF_vars(OnShutdown)
  /\ WF_vars(AppRecv)
  /\ \A p \in Peers : /\ WF_vars(OnHandshakeEvent(p))
                      /\ WF_vars(WebRtcOpenSubstream(p))
                      /\ WF_vars(closing[p] /\ SessionEnd(p, handle[p]))

SpecOverWebRtc == Init /\ [][NextOverWebRtc]_vars /\ FairnessOverWebRtc

\* Spec 4.2 lists open substream requests among the inputs the connection
\* engine serves, and 4.1 leaves OutboundInitiated only on the substream or
\* its failure: a peer waiting for its outbound substream on a live
\* connection is eventually answered one way or the other.
OpenSubstreamAnswered ==
  \A p \in Peers :
    ctx[p].st = "OutboundInitiated" ~> (ctx[p].st # "OutboundInitiated" \/ ~alive[p])

====
