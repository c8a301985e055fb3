---------------------------- MODULE Notification ----------------------------
(***************************************************************************)
(* The notification protocol: one PeerContext per peer, driven by four     *)
(* independent sources that the protocol's single task interleaves:       *)
(*   - the transport (ConnectionEstablished / SubstreamOpened /            *)
(*     SubstreamOpenFailure / ConnectionClosed, in one FIFO queue tq),     *)
(*   - the handshake negotiator (Inbound/OutboundNegotiated,               *)
(*     NegotiationError),                                                  *)
(*   - the application handle (ValidationResult / OpenSubstream /          *)
(*     CloseSubstream in the FIFO cmdQ; it reads events from appQ),        *)
(*   - the session tasks of open notification streams, which report their *)
(*     end on the shutdown channel (shutdownQ, carrying only a PeerId).    *)
(*                                                                         *)
(* The protocol's own source is not part of this repository's src/; its    *)
(* handlers follow spec.md section 4.1 and the behaviour pinned by         *)
(* src/src/protocol/notification/tests/notification.rs.                    *)
(*                                                                         *)
(* Data is abstracted: protocol names, fallbacks and handshake bytes are   *)
(* left out (no property distinguishes them); a substream is counted, not  *)
(* named, except for the SubstreamId of an outbound open request.          *)
(***************************************************************************)
EXTENDS Naturals, Sequences, FiniteSets

CONSTANTS
  Peers,      \* remote peers (model values)
  MaxConns,   \* connections the transport establishes to one peer, in total
  MaxSid,     \* SubstreamIds the protocol allocates, in total
  QueueCap,   \* capacity of each bounded channel (tq, appQ, cmdQ, shutdownQ)
  MaxInbound  \* inbound substreams the remote opens on one connection

ASSUME MaxConns \in Nat /\ MaxSid \in Nat /\ QueueCap \in Nat \ {0} /\ MaxInbound \in Nat

NoSid == 0
Sids  == 1 .. MaxSid

VARIABLES
  conn,       \* conn[p]: number of the transport's latest connection to p
  alive,      \* alive[p]: that connection is up (its command receiver exists)
  requested,  \* requested[p]: ids of OpenSubstream commands the live connection holds
  tq,         \* transport -> protocol events (InnerTransportEvent)
  inbounds,   \* inbound substreams the remote opened on the latest connection
  ctx,        \* ctx[p]: the PeerContext of p (st = "None": no entry in `peers`)
  handle,     \* handle[p]: connection whose ConnectionHandle the PeerContext holds
  nextSid,    \* SubstreamId allocator
  liveIn,     \* inbound substreams owned by the state machine, not yet closed
  liveOut,    \* outbound substreams owned by the state machine, not yet closed
  appQ,       \* protocol -> application events (NotificationEvent)
  cmdQ,       \* application -> protocol commands
  appView,    \* what the application has concluded from the events it read
  tasks,      \* tasks[p][k]: session tasks of streams opened on connection k, running
  closing,    \* closing[p]: the shutdown one-shot of the open stream was fired
  shutdownQ   \* session task -> protocol: PeerIds of ended streams

transport == <<conn, alive, requested, tq, inbounds>>
protocol  == <<ctx, handle, nextSid, liveIn, liveOut>>
app       == <<appQ, cmdQ, appView>>
session   == <<tasks, closing, shutdownQ>>
vars      == <<transport, protocol, app, session>>

-----------------------------------------------------------------------------
(* PeerState, InboundState and OutboundState, flattened into one record.   *)
(* `outSid` is the id of OutboundInitiated (peer or outbound sub-state);   *)
(* `pending` is Closed.pending_open.                                       *)

InStates  == {"Closed", "ReadingHandshake", "Validating", "SendingHandshake", "Open"}
OutStates == {"Closed", "OutboundInitiated", "Negotiating", "Open"}

NoCtx == [st |-> "None", pending |-> NoSid, dir |-> "None",
          out |-> "Closed", outSid |-> NoSid, in |-> "Closed"]
ClosedSt(sid)            == [NoCtx EXCEPT !.st = "Closed", !.pending = sid]
OutboundInitiatedSt(sid) == [NoCtx EXCEPT !.st = "OutboundInitiated", !.outSid = sid]
ValidatingSt(d, o, osid, i) ==
  [st |-> "Validating", pending |-> NoSid, dir |-> d, out |-> o, outSid |-> osid, in |-> i]
OpenSt == [NoCtx EXCEPT !.st = "Open"]

\* Inbound / outbound sub-states in which the state machine owns the substream
\* (ReadingHandshake and SendingHandshake: inside the negotiator).
HoldsIn  == {"ReadingHandshake", "Validating", "SendingHandshake", "Open"}
HoldsOut == {"Negotiating", "Open"}

\* The outbound id still in flight when a session is torn down: kept as
\* pending_open so that its late arrival is discarded.
InFlight(c) ==
  IF (c.st = "Validating" /\ c.out = "OutboundInitiated") \/ c.st = "OutboundInitiated"
  THEN c.outSid ELSE NoSid

\* Sending OpenSubstream over the ConnectionHandle succeeds iff the connection
\* it belongs to still has its receiver.
HandleOpen(p) == alive[p] /\ handle[p] = conn[p]

Room(q) == Len(q) < QueueCap

\* Emitting a NotificationEvent awaits room in the bounded event channel.
Emit(p, e) == /\ Room(appQ)
              /\ appQ' = Append(appQ, [peer |-> p, ev |-> e])

\* Close every substream the state machine owns (and the negotiations
\* running on them).
CloseOwned(p) == /\ liveIn' = [liveIn EXCEPT ![p] = 0]
                 /\ liveOut' = [liveOut EXCEPT ![p] = 0]

\* Terminal condition: both directions Open -> PeerState::Open, the
\* substreams are handed to a session task, NotificationStreamOpened emitted.
Settle(p, c) ==
  IF c.in = "Open" /\ c.out = "Open"
  THEN /\ ctx' = [ctx EXCEPT ![p] = OpenSt]
       /\ Emit(p, "Opened")
       /\ CloseOwned(p)
       /\ tasks' = [tasks EXCEPT ![p][handle[p]] = @ + 1]
       /\ closing' = [closing EXCEPT ![p] = FALSE]
  ELSE /\ ctx' = [ctx EXCEPT ![p] = c]
       /\ UNCHANGED <<appQ, liveIn, liveOut, tasks, closing>>

-----------------------------------------------------------------------------
Init ==
  /\ conn = [p \in Peers |-> 0]
  /\ alive = [p \in Peers |-> FALSE]
  /\ requested = [p \in Peers |-> {}]
  /\ tq = <<>>
  /\ inbounds = [p \in Peers |-> 0]
  /\ ctx = [p \in Peers |-> NoCtx]
  /\ handle = [p \in Peers |-> 0]
  /\ nextSid = 1
  /\ liveIn = [p \in Peers |-> 0]
  /\ liveOut = [p \in Peers |-> 0]
  /\ appQ = <<>>
  /\ cmdQ = <<>>
  /\ appView = [p \in Peers |-> "closed"]
  /\ tasks = [p \in Peers |-> [k \in 1 .. MaxConns |-> 0]]
  /\ closing = [p \in Peers |-> FALSE]
  /\ shutdownQ = <<>>

-----------------------------------------------------------------------------
(* The transport (environment).                                            *)

TEvent(p, ev, sid) == [peer |-> p, ev |-> ev, sid |-> sid, c |-> conn[p]]

\* A new connection to p is established (the previous one, if any, closed).
TransportConnect(p) ==
  /\ ~alive[p] /\ conn[p] < MaxConns /\ Room(tq)
  /\ conn' = [conn EXCEPT ![p] = @ + 1]
  /\ alive' = [alive EXCEPT ![p] = TRUE]
  /\ inbounds' = [inbounds EXCEPT ![p] = 0]
  /\ tq' = Append(tq, [peer |-> p, ev |-> "ConnectionEstablished",
                       sid |-> NoSid, c |-> conn[p] + 1])
  /\ UNCHANGED <<requested, protocol, app, session>>

\* The connection closes: its command receiver is dropped with the requests
\* it held, and ConnectionClosed queues behind the events already sent.
TransportDisconnect(p) ==
  /\ alive[p] /\ Room(tq)
  /\ alive' = [alive EXCEPT ![p] = FALSE]
  /\ requested' = [requested EXCEPT ![p] = {}]
  /\ tq' = Append(tq, TEvent(p, "ConnectionClosed", NoSid))
  /\ UNCHANGED <<conn, inbounds, protocol, app, session>>

\* The remote opens an inbound notification substream.
RemoteOpenInbound(p) ==
  /\ alive[p] /\ inbounds[p] < MaxInbound /\ Room(tq)
  /\ inbounds' = [inbounds EXCEPT ![p] = @ + 1]
  /\ tq' = Append(tq, TEvent(p, "InboundOpened", NoSid))
  /\ UNCHANGED <<conn, alive, requested, protocol, app, session>>

\* The connection answers an OpenSubstream command: SubstreamOpened
\* (outbound) or SubstreamOpenFailure.
TransportAnswer(p) ==
  \E sid \in requested[p], ev \in {"OutboundOpened", "SubstreamOpenFailure"} :
    /\ alive[p] /\ Room(tq)
    /\ requested' = [requested EXCEPT ![p] = @ \ {sid}]
    /\ tq' = Append(tq, TEvent(p, ev, sid))
    /\ UNCHANGED <<conn, alive, inbounds, inbounds, protocol, app, session>>

-----------------------------------------------------------------------------
(* NotificationProtocol: transport events, taken from the head of tq.      *)

Recv(ev) == tq # <<>> /\ Head(tq).ev = ev

\* on_connection_established: insert Closed { pending_open: None }; a
\* duplicate connection is an error that leaves the entry alone.
OnConnectionEstablished ==
  LET e == Head(tq) IN
  /\ Recv("ConnectionEstablished")
  /\ tq' = Tail(tq)
  /\ IF ctx[e.peer].st = "None"
     THEN /\ ctx' = [ctx EXCEPT ![e.peer] = ClosedSt(NoSid)]
          /\ handle' = [handle EXCEPT ![e.peer] = e.c]
     ELSE UNCHANGED <<ctx, handle>>
  /\ UNCHANGED <<conn, alive, inbounds, requested, nextSid, liveIn, liveOut, app, session>>

\* on_connection_closed: remove the PeerContext, close what it owns, and
\* report by the prior state (the inbound sub-state is irrelevant).
OnConnectionClosed ==
  LET p == Head(tq).peer IN
  /\ Recv("ConnectionClosed")
  /\ tq' = Tail(tq)
  /\ ctx' = [ctx EXCEPT ![p] = NoCtx]
  /\ CloseOwned(p)
  /\ CASE ctx[p].st \in {"None", "Closed"}                -> UNCHANGED appQ
       [] ctx[p].st \in {"OutboundInitiated", "Validating"} -> Emit(p, "OpenFailure")
       [] ctx[p].st = "Open"                                -> Emit(p, "Closed")
  /\ UNCHANGED <<conn, alive, inbounds, requested, handle, nextSid, cmdQ, appView, session>>

\* Mutant: a second inbound substream is dropped from view without closing it.
OnInboundSubstreamNoClose ==
  LET p == Head(tq).peer
      c == ctx[p]
  IN
  /\ Recv("InboundOpened")
  /\ tq' = Tail(tq)
  /\ CASE c.st = "Closed" ->
            /\ ctx' = [ctx EXCEPT ![p] = ValidatingSt("Inbound", "Closed", NoSid, "ReadingHandshake")]
            /\ liveIn' = [liveIn EXCEPT ![p] = @ + 1]
       [] c.st = "OutboundInitiated" ->
            /\ ctx' = [ctx EXCEPT ![p] =
                         ValidatingSt("Outbound", "OutboundInitiated", c.outSid, "ReadingHandshake")]
            /\ liveIn' = [liveIn EXCEPT ![p] = @ + 1]
       [] c.st = "Validating" /\ c.in = "Closed" ->
            /\ ctx' = [ctx EXCEPT ![p].in = "ReadingHandshake"]
            /\ liveIn' = [liveIn EXCEPT ![p] = @ + 1]
       [] c.st = "Validating" ->
            /\ liveIn' = [liveIn EXCEPT ![p] = @ + 1]
            /\ UNCHANGED ctx
       [] OTHER -> UNCHANGED <<ctx, liveIn>>
  /\ UNCHANGED <<conn, alive, inbounds, requested, handle, nextSid, liveOut, app, session>>

\* Mutant: a second inbound substream replaces the one being negotiated
\* (the old one is closed, the new one restarts the inbound handshake).
OnInboundSubstreamReplace ==
  LET p == Head(tq).peer
      c == ctx[p]
  IN
  /\ Recv("InboundOpened")
  /\ tq' = Tail(tq)
  /\ CASE c.st = "Closed" ->
            /\ ctx' = [ctx EXCEPT ![p] = ValidatingSt("Inbound", "Closed", NoSid, "ReadingHandshake")]
            /\ liveIn' = [liveIn EXCEPT ![p] = @ + 1]
       [] c.st = "OutboundInitiated" ->
            /\ ctx' = [ctx EXCEPT ![p] =
                         ValidatingSt("Outbound", "OutboundInitiated", c.outSid, "ReadingHandshake")]
            /\ liveIn' = [liveIn EXCEPT ![p] = @ + 1]
       [] c.st = "Validating" /\ c.in = "Closed" ->
            /\ ctx' = [ctx EXCEPT ![p].in = "ReadingHandshake"]
            /\ liveIn' = [liveIn EXCEPT ![p] = @ + 1]
       [] c.st = "Validating" ->
            /\ ctx' = [ctx EXCEPT ![p].in = "ReadingHandshake"]
            /\ UNCHANGED liveIn
       [] OTHER -> UNCHANGED <<ctx, liveIn>>
  /\ UNCHANGED <<conn, alive, inbounds, requested, handle, nextSid, liveOut, app, session>>

\* on_inbound_substream: the first inbound substream starts the inbound
\* handshake (also when our outbound one is already being negotiated); one
\* arriving while an inbound substream is present, or when Open, is closed.
OnInboundSubstream ==
  LET p == Head(tq).peer
      c == ctx[p]
  IN
  /\ Recv("InboundOpened")
  /\ tq' = Tail(tq)
  /\ CASE c.st = "Closed" ->
            /\ ctx' = [ctx EXCEPT ![p] = ValidatingSt("Inbound", "Closed", NoSid, "ReadingHandshake")]
            /\ liveIn' = [liveIn EXCEPT ![p] = @ + 1]
       [] c.st = "OutboundInitiated" ->
            /\ ctx' = [ctx EXCEPT ![p] =
                         ValidatingSt("Outbound", "OutboundInitiated", c.outSid, "ReadingHandshake")]
            /\ liveIn' = [liveIn EXCEPT ![p] = @ + 1]
       [] c.st = "Validating" /\ c.in = "Closed" ->
            /\ ctx' = [ctx EXCEPT ![p].in = "ReadingHandshake"]
            /\ liveIn' = [liveIn EXCEPT ![p] = @ + 1]
       [] OTHER -> UNCHANGED <<ctx, liveIn>>
  /\ UNCHANGED <<conn, alive, inbounds, requested, handle, nextSid, liveOut, app, session>>

\* Mutant: the late arrival of the pending_open id is closed but not forgotten.
OnOutboundSubstreamKeepPending ==
  LET p   == Head(tq).peer
      sid == Head(tq).sid
      c   == ctx[p]
  IN
  /\ Recv("OutboundOpened")
  /\ tq' = Tail(tq)
  /\ CASE c.st = "OutboundInitiated" /\ c.outSid = sid ->
            /\ ctx' = [ctx EXCEPT ![p] = ValidatingSt("Outbound", "Negotiating", NoSid, "Closed")]
            /\ liveOut' = [liveOut EXCEPT ![p] = @ + 1]
       [] c.st = "Validating" /\ c.out = "OutboundInitiated" ->
            /\ ctx' = [ctx EXCEPT ![p].out = "Negotiating", ![p].outSid = NoSid]
            /\ liveOut' = [liveOut EXCEPT ![p] = @ + 1]
       [] OTHER -> UNCHANGED <<ctx, liveOut>>
  /\ UNCHANGED <<conn, alive, inbounds, requested, handle, nextSid, liveIn, app, session>>

\* on_outbound_substream: the awaited outbound substream starts the outbound
\* handshake; the one recorded in pending_open is closed and forgotten;
\* any other is closed.
OnOutboundSubstream ==
  LET p   == Head(tq).peer
      sid == Head(tq).sid
      c   == ctx[p]
  IN
  /\ Recv("OutboundOpened")
  /\ tq' = Tail(tq)
  /\ CASE c.st = "OutboundInitiated" /\ c.outSid = sid ->
            /\ ctx' = [ctx EXCEPT ![p] = ValidatingSt("Outbound", "Negotiating", NoSid, "Closed")]
            /\ liveOut' = [liveOut EXCEPT ![p] = @ + 1]
       [] c.st = "Validating" /\ c.out = "OutboundInitiated" ->
            /\ ctx' = [ctx EXCEPT ![p].out = "Negotiating", ![p].outSid = NoSid]
            /\ liveOut' = [liveOut EXCEPT ![p] = @ + 1]
       [] c.st = "Closed" /\ c.pending = sid ->
            /\ ctx' = [ctx EXCEPT ![p] = ClosedSt(NoSid)]
            /\ UNCHANGED liveOut
       [] OTHER -> UNCHANGED <<ctx, liveOut>>
  /\ UNCHANGED <<conn, alive, inbounds, requested, handle, nextSid, liveIn, app, session>>

\* SubstreamOpenFailure: the failure of the id in pending_open clears it;
\* the failure of the awaited outbound substream fails the open attempt.
OnSubstreamOpenFailure ==
  LET p   == Head(tq).peer
      sid == Head(tq).sid
      c   == ctx[p]
  IN
  /\ Recv("SubstreamOpenFailure")
  /\ tq' = Tail(tq)
  /\ CASE c.st = "Closed" /\ c.pending = sid ->
            /\ ctx' = [ctx EXCEPT ![p] = ClosedSt(NoSid)]
            /\ UNCHANGED <<appQ, liveIn, liveOut>>
       [] InFlight(c) = sid ->
            /\ ctx' = [ctx EXCEPT ![p] = ClosedSt(NoSid)]
            /\ CloseOwned(p)
            /\ Emit(p, "OpenFailure")
       [] OTHER -> UNCHANGED <<ctx, appQ, liveIn, liveOut>>
  /\ UNCHANGED <<conn, alive, inbounds, requested, handle, nextSid, cmdQ, appView, session>>

-----------------------------------------------------------------------------
(* on_handshake_event: the negotiator's events for p.                      *)

\* InboundNegotiated: the remote's handshake was read (ReadingHandshake ->
\* Validating, ValidateSubstream emitted), or ours was written
\* (SendingHandshake -> Open, then the terminal condition).
InboundNegotiated(p) ==
  LET c == ctx[p] IN
  /\ c.st = "Validating"
  /\ \/ /\ c.in = "ReadingHandshake"
        /\ ctx' = [ctx EXCEPT ![p].in = "Validating"]
        /\ Emit(p, "Validate")
        /\ UNCHANGED <<liveIn, liveOut, tasks, closing>>
     \/ /\ c.in = "SendingHandshake"
        /\ Settle(p, [c EXCEPT !.in = "Open"])
  /\ UNCHANGED <<transport, handle, nextSid, cmdQ, appView, shutdownQ>>

\* OutboundNegotiated: outbound Negotiating -> Open, then the terminal condition.
OutboundNegotiated(p) ==
  LET c == ctx[p] IN
  /\ c.st = "Validating" /\ c.out = "Negotiating"
  /\ Settle(p, [c EXCEPT !.out = "Open"])
  /\ UNCHANGED <<transport, handle, nextSid, cmdQ, appView, shutdownQ>>

\* NegotiationError on a direction being negotiated: the peer is torn down,
\* an outbound open still in flight is kept in pending_open.
NegotiationError(p) ==
  LET c == ctx[p] IN
  /\ c.st = "Validating"
  /\ c.in \in {"ReadingHandshake", "SendingHandshake"} \/ c.out = "Negotiating"
  /\ ctx' = [ctx EXCEPT ![p] = ClosedSt(InFlight(c))]
  /\ CloseOwned(p)
  /\ Emit(p, "OpenFailure")
  /\ UNCHANGED <<transport, handle, nextSid, cmdQ, appView, session>>

-----------------------------------------------------------------------------
(* NotificationProtocol: application commands, taken from the head of cmdQ. *)

Cmd(kind) == cmdQ # <<>> /\ Head(cmdQ).cmd = kind

\* Send OpenSubstream { substream_id } for a fresh id over p's handle.
RequestOutbound(p) ==
  /\ nextSid <= MaxSid
  /\ requested' = [requested EXCEPT ![p] = @ \cup {nextSid}]
  /\ nextSid' = nextSid + 1

\* on_validation_result: only a peer whose inbound handshake awaits the
\* verdict changes. Reject tears the peer down (keeping an in-flight outbound
\* id in pending_open, unless the connection was dropped: then None). Accept writes our handshake (SendingHandshake) and, if
\* no outbound substream exists yet, opens one; when the connection is gone
\* that fails: the peer goes to Closed { pending_open: None } and nothing is
\* reported.
OnValidationResult ==
  LET p == Head(cmdQ).peer
      c == ctx[p]
  IN
  /\ Cmd("ValidationResult")
  /\ cmdQ' = Tail(cmdQ)
  /\ IF c.st = "Validating" /\ c.in = "Validating"
     THEN CASE Head(cmdQ).verdict = "Reject" ->
                 /\ ctx' = [ctx EXCEPT ![p] =
                              ClosedSt(IF HandleOpen(p) THEN InFlight(c) ELSE NoSid)]
                 /\ CloseOwned(p)
                 /\ Emit(p, "OpenFailure")
                 /\ UNCHANGED <<requested, nextSid>>
            [] c.out # "Closed" ->
                 /\ ctx' = [ctx EXCEPT ![p].in = "SendingHandshake"]
                 /\ UNCHANGED <<requested, nextSid, appQ, liveIn, liveOut>>
            [] HandleOpen(p) ->
                 /\ ctx' = [ctx EXCEPT ![p].in = "SendingHandshake",
                                       ![p].out = "OutboundInitiated",
                                       ![p].outSid = nextSid]
                 /\ RequestOutbound(p)
                 /\ UNCHANGED <<appQ, liveIn, liveOut>>
            [] OTHER ->
                 /\ ctx' = [ctx EXCEPT ![p] = ClosedSt(NoSid)]
                 /\ CloseOwned(p)
                 /\ UNCHANGED <<requested, nextSid, appQ>>
     ELSE UNCHANGED <<ctx, requested, nextSid, appQ, liveIn, liveOut>>
  /\ UNCHANGED <<conn, alive, inbounds, tq, handle, appView, session>>

\* Mutant: the state records the id after the allocator has advanced.
OnOpenSubstreamNextId ==
  LET p == Head(cmdQ).peer IN
  /\ Cmd("OpenSubstream")
  /\ cmdQ' = Tail(cmdQ)
  /\ IF ctx[p] = ClosedSt(NoSid)
     THEN IF HandleOpen(p)
          THEN /\ ctx' = [ctx EXCEPT ![p] = OutboundInitiatedSt(nextSid + 1)]
               /\ RequestOutbound(p)
               /\ UNCHANGED appQ
          ELSE /\ Emit(p, "OpenFailure")
               /\ UNCHANGED <<ctx, requested, nextSid>>
     ELSE UNCHANGED <<ctx, requested, nextSid, appQ>>
  /\ UNCHANGED <<conn, alive, inbounds, tq, handle, liveIn, liveOut, appView, session>>

\* on_open_substream: only Closed { pending_open: None } opens; when the
\* connection is gone NoConnection is reported and the state is kept.
OnOpenSubstream ==
  LET p == Head(cmdQ).peer IN
  /\ Cmd("OpenSubstream")
  /\ cmdQ' = Tail(cmdQ)
  /\ IF ctx[p] = ClosedSt(NoSid)
     THEN IF HandleOpen(p)
          THEN /\ ctx' = [ctx EXCEPT ![p] = OutboundInitiatedSt(nextSid)]
               /\ RequestOutbound(p)
               /\ UNCHANGED appQ
          ELSE /\ Emit(p, "OpenFailure")
               /\ UNCHANGED <<ctx, requested, nextSid>>
     ELSE UNCHANGED <<ctx, requested, nextSid, appQ>>
  /\ UNCHANGED <<conn, alive, inbounds, tq, handle, liveIn, liveOut, appView, session>>

\* close_substream: from Open, fire the session's shutdown one-shot; from any
\* other state (a stale request) nothing happens.
OnCloseSubstream ==
  LET p == Head(cmdQ).peer IN
  /\ Cmd("CloseSubstream")
  /\ cmdQ' = Tail(cmdQ)
  /\ closing' = [closing EXCEPT ![p] = @ \/ ctx[p].st = "Open"]
  /\ UNCHANGED <<transport, protocol, appQ, appView, tasks, shutdownQ>>

-----------------------------------------------------------------------------
(* Session tasks of open streams and the shutdown channel.                 *)

\* A session task of a stream opened on connection k ends (its one-shot
\* fired, the remote closed, or the connection went away) and reports its
\* PeerId, and nothing else, on shutdown_tx.
SessionEnd(p, k) ==
  /\ tasks[p][k] > 0 /\ Room(shutdownQ)
  /\ tasks' = [tasks EXCEPT ![p][k] = @ - 1]
  /\ closing' = [closing EXCEPT ![p] = closing[p] /\ k # handle[p]]
  /\ shutdownQ' = Append(shutdownQ, p)
  /\ UNCHANGED <<transport, protocol, app>>

\* Mutant: the shutdown report is taken but the Open peer is left as it is.
OnShutdownIgnored ==
  /\ shutdownQ # <<>>
  /\ shutdownQ' = Tail(shutdownQ)
  /\ UNCHANGED <<transport, protocol, app, tasks, closing>>

\* Mutant: NotificationStreamClosed is emitted but the peer is left Open.
OnShutdownKeepOpen ==
  LET p == Head(shutdownQ) IN
  /\ shutdownQ # <<>>
  /\ shutdownQ' = Tail(shutdownQ)
  /\ IF ctx[p].st = "Open" THEN Emit(p, "Closed") ELSE UNCHANGED appQ
  /\ UNCHANGED <<transport, protocol, cmdQ, appView, tasks, closing>>

\* The protocol takes a PeerId from shutdown_rx: an Open peer goes to
\* Closed { pending_open: None } and NotificationStreamClosed is emitted.
OnShutdown ==
  LET p == Head(shutdownQ) IN
  /\ shutdownQ # <<>>
  /\ shutdownQ' = Tail(shutdownQ)
  /\ IF ctx[p].st = "Open"
     THEN /\ ctx' = [ctx EXCEPT ![p] = ClosedSt(NoSid)]
          /\ Emit(p, "Closed")
     ELSE UNCHANGED <<ctx, appQ>>
  /\ UNCHANGED <<transport, handle, nextSid, liveIn, liveOut, cmdQ, appView, tasks, closing>>

-----------------------------------------------------------------------------
(* The application behind NotificationHandle.                              *)

\* The application's reading of an event.
AfterEvent(v, ev) ==
  CASE ev = "Opened" -> "open"
    [] ev \in {"Closed", "OpenFailure"} -> "closed"
    [] OTHER -> v

\* Read the next event; a ValidateSubstream is answered with a verdict.
\* Spec 5 bounds the event channel only; the application's own commands are
\* bounded here by AppCommand's guard, a verdict is never held back (it
\* would otherwise wait on the protocol, which may itself wait to emit).
AppRecv ==
  LET e == Head(appQ) IN
  /\ appQ # <<>>
  /\ appQ' = Tail(appQ)
  /\ appView' = [appView EXCEPT ![e.peer] = AfterEvent(@, e.ev)]
  /\ IF e.ev = "Validate"
     THEN \E v \in {"Accept", "Reject"} :
            /\ cmdQ' = Append(cmdQ, [peer |-> e.peer, cmd |-> "ValidationResult", verdict |-> v])
     ELSE UNCHANGED cmdQ
  /\ UNCHANGED <<transport, protocol, session>>

\* The application asks to open or to close the notification stream to p.
AppCommand(p) ==
  \E kind \in {"OpenSubstream", "CloseSubstream"} :
    /\ Room(cmdQ)
    /\ cmdQ' = Append(cmdQ, [peer |-> p, cmd |-> kind, verdict |-> "None"])
    /\ UNCHANGED <<transport, protocol, appQ, appView, session>>

-----------------------------------------------------------------------------
OnTransportEvent ==
  \/ OnConnectionEstablished \/ OnConnectionClosed
  \/ OnInboundSubstream \/ OnOutboundSubstream \/ OnSubstreamOpenFailure

OnCommand == OnValidationResult \/ OnOpenSubstream \/ OnCloseSubstream

OnHandshakeEvent(p) == InboundNegotiated(p) \/ OutboundNegotiated(p)

Next ==
  \/ OnTransportEvent \/ OnCommand \/ OnShutdown
  \/ \E p \in Peers :
       \/ OnHandshakeEvent(p) \/ NegotiationError(p)
       \/ TransportConnect(p) \/ TransportDisconnect(p)
       \/ RemoteOpenInbound(p) \/ TransportAnswer(p)
       \/ AppCommand(p)
       \/ \E k \in 1 .. MaxConns : SessionEnd(p, k)
  \/ AppRecv

\* The protocol task's select! polls each of its sources, so none is starved
\* (transport events, commands, shutdown reports, handshake events); the
\* negotiator completes what it started; the connection answers every
\* OpenSubstream it holds; a fired one-shot ends its session task. The
\* application reads its events.
Fairness ==
  /\ WF_vars(OnTransportEvent) /\ WF_vars(OnCommand) /\ WF_vars(OnShutdown)
  /\ WF_vars(AppRecv)
  /\ \A p \in Peers : /\ WF_vars(OnHandshakeEvent(p))
                      /\ WF_vars(TransportAnswer(p))
                      /\ WF_vars(closing[p] /\ SessionEnd(p, handle[p]))

Spec == Init /\ [][Next]_vars /\ Fairness

-----------------------------------------------------------------------------
(* Properties.                                                             *)

\* The values of PeerState: OutboundInitiated (as a peer or an outbound
\* sub-state) carries its SubstreamId, no other variant has one.
PeerStates ==
  {NoCtx, OpenSt} \cup {ClosedSt(s) : s \in {NoSid} \cup Sids}
  \cup {OutboundInitiatedSt(s) : s \in Sids}
  \cup UNION {{ValidatingSt(d, o, osid, i) :
                d \in {"Inbound", "Outbound"}, i \in InStates,
                osid \in IF o = "OutboundInitiated" THEN Sids ELSE {NoSid}} : o \in OutStates}

TypeOK ==
  /\ conn \in [Peers -> 0 .. MaxConns]
  /\ alive \in [Peers -> BOOLEAN]
  /\ requested \in [Peers -> SUBSET Sids]
  /\ ctx \in [Peers -> PeerStates]
  /\ handle \in [Peers -> 0 .. MaxConns]
  /\ nextSid \in 1 .. MaxSid + 1
  /\ liveIn \in [Peers -> Nat] /\ liveOut \in [Peers -> Nat]
  /\ appView \in [Peers -> {"closed", "open"}]
  /\ tasks \in [Peers -> [1 .. MaxConns -> Nat]] /\ closing \in [Peers -> BOOLEAN]
  /\ Len(tq) <= QueueCap /\ Len(appQ) <= QueueCap
  /\ inbounds \in [Peers -> 0 .. MaxInbound]
  /\ Len(cmdQ) <= QueueCap + Cardinality(Peers) * MaxConns * MaxInbound /\ Len(shutdownQ) <= QueueCap

\* No substream leaks and no peer ever has two notification substreams in one
\* direction: on every path (duplicate inbound, late or stale outbound,
\* reject, negotiation error, connection closed, Accept on a dead
\* connection) each substream the protocol receives is either held by the
\* peer's state, exactly once, or closed.
NoSubstreamLeak ==
  \A p \in Peers :
    /\ liveIn[p] = IF ctx[p].in \in HoldsIn THEN 1 ELSE 0
    /\ liveOut[p] = IF ctx[p].out \in HoldsOut THEN 1 ELSE 0

\* Spec section 8: "for every peer, PeerState transitions follow the directed
\* graph in 4.1". Every change of a peer's state, by any handler, is an edge
\* of that graph: a Closed peer starts validating only on an inbound substream
\* (an outbound one is adopted only from OutboundInitiated); while a peer is
\* Validating its direction is fixed and neither sub-state moves back (a
\* second inbound substream never replaces the first, an awaited outbound id
\* never changes); Open is reached only by completing the last direction after
\* an Accept; a tear-down keeps no id but the one in flight.
InOrder  == <<"Closed", "ReadingHandshake", "Validating", "SendingHandshake", "Open">>
OutOrder == <<"Closed", "OutboundInitiated", "Negotiating", "Open">>
NoEarlier(order, a, b) ==
  \E i, j \in DOMAIN order : order[i] = a /\ order[j] = b /\ i <= j

GraphEdge(c, d) ==
  \/ d.st = "None"
  \/ c.st = "None" /\ d = ClosedSt(NoSid)
  \/ c.st = "Closed" /\ d = ClosedSt(NoSid)
  \/ c = ClosedSt(NoSid) /\ d.st = "OutboundInitiated"
  \/ c.st = "Closed" /\ d = ValidatingSt("Inbound", "Closed", NoSid, "ReadingHandshake")
  \/ c.st = "OutboundInitiated"
     /\ d \in {ValidatingSt("Outbound", "OutboundInitiated", c.outSid, "ReadingHandshake"),
               ValidatingSt("Outbound", "Negotiating", NoSid, "Closed")}
  \/ c.st \in {"OutboundInitiated", "Validating", "Open"}
     /\ d.st = "Closed" /\ d.pending \in {NoSid, InFlight(c)}
  \/ c.st = "Validating" /\ d.st = "Validating" /\ d.dir = c.dir
     /\ NoEarlier(InOrder, c.in, d.in) /\ NoEarlier(OutOrder, c.out, d.out)
     /\ (d.out = c.out => d.outSid = c.outSid)
  \/ c.st = "Validating" /\ d = OpenSt
     /\ \/ c.in = "SendingHandshake" /\ c.out = "Open"
        \/ c.in = "Open" /\ c.out = "Negotiating"

TransitionsFollowGraph ==
  [][\A p \in Peers : ctx'[p] # ctx[p] => GraphEdge(ctx[p], ctx'[p])]_ctx

\* Refinement: the protocol implements NotificationSession. A peer with no
\* context or in Closed { .. } is closed, OutboundInitiated and Validating
\* are opening, Open is open; the outcome events are those of the event
\* channel (ValidateSubstream left out); the view is what the application
\* has read.
SessionPhase(c) ==
  CASE c.st \in {"None", "Closed"} -> "closed"
    [] c.st = "Open"               -> "open"
    [] OTHER                       -> "opening"

Outcomes == SelectSeq(appQ, LAMBDA e : e.ev # "Validate")

Abstract == INSTANCE NotificationSession
              WITH phase <- [p \in Peers |-> SessionPhase(ctx[p])],
                   out <- Outcomes,
                   view <- appView

\* Every behaviour of the protocol is one of NotificationSession: each
\* change of a peer's session comes with exactly the event that announces it
\* (none only for an Accept after the connection dropped), an OpenFailure
\* without a session change only for an open request without a connection,
\* and every event emitted is eventually read.
SessionRefined == Abstract!Spec

\* An outbound substream whose session was torn down before it opened is
\* recorded in pending_open and eventually discarded (spec 4.1, race policy):
\* pending_open does not stay set forever.
PendingOpenDiscarded ==
  \A p \in Peers : ctx[p].pending # NoSid ~> ctx[p].pending = NoSid

\* Spec section 5: "the application's validation replies are matched to peers
\* by PeerId -- there is at most one outstanding validation per peer". A
\* validation is outstanding from the ValidateSubstream the protocol emits
\* until the protocol takes the application's ValidationResult for it.
OutstandingValidations(p) ==
  Len(SelectSeq(appQ, LAMBDA e : e.peer = p /\ e.ev = "Validate"))
  + Len(SelectSeq(cmdQ, LAMBDA m : m.peer = p /\ m.cmd = "ValidationResult"))

AtMostOneOutstandingValidation == \A p \in Peers : OutstandingValidations(p) <= 1

\* Spec section 9: the SubstreamId of an outbound open must not be dropped on
\* early tear-down, so that its late arrival is recognised. Every outbound
\* substream still to arrive (held by the connection or queued as an event)
\* is the one the peer's state awaits or the one in pending_open.
ArrivingOutbound(p) ==
  requested[p] \cup
  {tq[i].sid : i \in {j \in 1 .. Len(tq) : tq[j].peer = p
                        /\ tq[j].ev \in {"OutboundOpened", "SubstreamOpenFailure"}}}

OutboundRequestsAccounted ==
  \A p \in Peers : \A sid \in ArrivingOutbound(p) :
    sid = InFlight(ctx[p]) \/ sid = ctx[p].pending

\* A close requested by the application takes effect: once close_substream
\* has fired the one-shot of an open stream, the peer eventually leaves Open.
CloseTakesEffect ==
  \A p \in Peers : (closing[p] /\ ctx[p].st = "Open") ~> ctx[p].st # "Open"

\* Spec section 8: "no two live substreams exist for the same peer
\* simultaneously". The substreams of a session task live as long as the
\* task runs on a live connection; those held by the state machine are
\* liveIn / liveOut.
LiveInbound(p) ==
  liveIn[p] + (IF alive[p] /\ conn[p] >= 1 THEN tasks[p][conn[p]] ELSE 0)

NoTwoLiveSubstreams == \A p \in Peers : LiveInbound(p) <= 1

====
