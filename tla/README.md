# TLA+ models of litep2p: the notification protocol and the WebRTC connection

This directory holds TLA+ models of the two parts of litep2p that this
repository contains:

- `src/src/protocol/notification/tests/notification.rs`: the tests of the
  notification protocol's per-peer state machine. The implementation
  (`NotificationProtocol`) is not in the repository. The model takes the
  behaviour from the tests where they pin it, and from `spec.md` §4.1
  otherwise (marked `spec_modelled` in `PROJECT.json`).
- `src/src/transport/webrtc/connection.rs`: `WebRtcConnection::run`, the task
  that owns the str0m `Rtc` object of one WebRTC connection.

Every run is listed in `PROJECT.json` with the module and cfg it uses. Run one
with `tlc -workers 2 -config <cfg> <MC module>` from this directory.

## The system

### Notification protocol

`NotificationProtocol` keeps one `PeerContext` for each connected peer. It
receives events from three sources, each a FIFO channel:

- **Transport events:** ConnectionEstablished, ConnectionClosed,
  InboundSubstream, OutboundSubstream and SubstreamOpenFailure.
- **Application commands** from `NotificationHandle`: OpenSubstream,
  CloseSubstream and ValidationResult.
- **Session shutdown reports:** a session task that ends sends its peer's
  `PeerId` on `shutdown_tx` (test line 638).

A fourth source is the handshake negotiator. It reports InboundNegotiated,
OutboundNegotiated or a negotiation error for substreams it holds.

`PeerState` takes one of these values:

- `Closed { pending_open }`
- `OutboundInitiated { substream }`
- `Validating { direction, outbound, inbound }`, with an `InboundState` and an
  `OutboundState` sub-state
- `Open { shutdown }`

A Reject tears the peer down to `Closed { pending_open: Some(id) }` when an
outbound open `id` is in flight. If the connection has already been dropped,
it leaves `pending_open: None` (spec §4.1). A negotiation error also tears the
peer down in every sub-state: §4.1 says "tear down the peer", and its
condition on the partner direction only names the resulting state.

When both directions are open, the peer becomes Open. The substreams go to a
session task and `NotificationStreamOpened` is emitted. The application sees
these events on the bounded event channel:

- NotificationStreamOpened
- NotificationStreamClosed
- NotificationStreamOpenFailure
- ValidateSubstream, which it answers with a ValidationResult

### WebRTC connection

`run` repeats these steps until it returns:

1. It checks `rtc.is_alive()`.
2. It calls `poll_output`. Channel events are handled there:
   - `ChannelOpen` and `ChannelClose` are only logged.
   - `ChannelData` goes to `on_channel_data`. On an unmapped channel that calls
     `negotiate_protocol`; on a mapped one it calls `process_protocol_event`.
3. Once the output is a Timeout, it waits in `select!` on four sources:
   - a datagram (`on_input`);
   - a substream write from a protocol (the backend);
   - a protocol command;
   - the timer.
4. It drives the clock with `handle_input(Timeout)`.

Two maps route substreams: `id_mapping` (ChannelId → SubstreamId) and
`channels` (SubstreamId → channel).

## Modules

| module | models | state | actions |
|---|---|---|---|
| `Notification` | the notification state machine, the negotiator's outcomes, session tasks, and the application as environment | `ctx[p]` (PeerState as a record; `PeerStates` enumerates the variants); `liveIn`/`liveOut` (substreams the state machine holds); `tq`, `cmdQ`, `shutdownQ`, `appQ` (the channels); `tasks[p][k]` (session tasks per connection number); `requested` (OpenSubstream requests sent to the transport) | one action per handler: `OnConnectionEstablished`, `OnConnectionClosed`, `OnInboundSubstream`, `OnOutboundSubstream`, `OnSubstreamOpenFailure`, `InboundNegotiated`, `OutboundNegotiated`, `NegotiationError`, `OnValidationResult`, `OnOpenSubstream`, `OnCloseSubstream`, `SessionEnd`, `OnShutdown`; the environment's actions are `TransportConnect`, `TransportDisconnect`, `RemoteOpenInbound`, `TransportAnswer`, `AppRecv`, `AppCommand` |
| `MCNotification` | one peer as a model value | | |
| `NotificationSession` | the abstract promise of the notification protocol to the application (spec §4.1, §5, §8): per peer a session is closed, opening or open; its outcome events (Opened, OpenFailure, Closed) are read in the order emitted | `phase[p]`, `out` (events not yet read), `view[p]` | `Begin`, `Established`, `Failed`, `Abandoned` (an Accept on a dropped connection: no event), `Ended`, `Refused` (NoConnection), `Deliver` |
| `WebRtcConnection` | `run` and every function it calls | `pc` (the loop's position); `error`; `disconnected`; `idMapping`, `channels`, `substreamId`; `delivered[s]` (what was sent on each substream's `tx`) and `queued[s]` (of that, what its protocol has not read yet; the channel holds `SubCap`); the Rtc as environment (`chan`, `rtcEvents`, `sentOn`); `sending` (the `tx.send` being awaited, at `pc = "send"`); `rxOpen[s]` (the protocol still holds substream `s`) | `NotAlive`, `PollFatal`, `PollTimeout`, `PollChannelEvent`, `PollChannelData` (with `NegotiateProtocol`/`ProcessProtocolEvent`), `SendPayload` (the awaited `tx.send`), `SelectDatagram`, `SelectDatagramClosed`, `SelectBackend`, `SelectCommand`, `SelectTimer`, `Tick`; the environment's actions are `RemoteOpen`, `RemoteSend`, `RemoteClose`, `RtcDies`, `DatagramArrives`, `TransportShutdown`, `ProtocolWrite`, `ProtocolRead`, `ProtocolDropSubstream` |
| `MCWebRtcConnection` | two channel ids as model values | | |
| `ChannelDemux` | the abstract promise of a WebRTC connection to its protocols: per channel, payloads forwarded one at a time, in order, until the connection stops | `sent[c]`, `recv[c]`, `running` | `Send(c)`, `Forward(c)`, `Stop` |
| `PollTimer` | the sleep computed at connection.rs 319-324 (`PollDuration`), against the deadline of spec 4.2 (`SpecDeadline`) | the Rtc's timeout and the two `Instant::now()` readings | none: each state is one evaluation |
| `NotificationOverWebRtc` (and `MCNotificationOverWebRtc`) | `Notification` with its connections carried by WebRTC: the transport's answer to OpenSubstream is replaced by `WebRtcOpenSubstream`, the `select!` arm of `run` that takes the command and only logs it | as `Notification` | as `Notification`, with `WebRtcOpenSubstream` for `TransportAnswer` |

Data is abstracted:

- **Notification handshakes** are not modelled. Only the order of events is
  kept.
- **WebRTC frames** are `"select"`, `"data"` or `"flags"`. These are what
  `WebRtcMessage::decode` and `listener_negotiate` make of a frame, and all the
  loop's control flow tells apart. Data frames are numbered per channel, so
  routing and order can be checked.

Each action includes every state change its handler makes, for example:

- the `Settle` of two Open directions into `Open` with the event and the
  spawned task;
- `RequestOutbound` inside `OnValidationResult`.

The exception is the `tx.send(..).await` of `process_protocol_event`. It is a
suspension point inside the handler: while the channel is full, the task
waits there, and it does not poll the Rtc, check `is_alive` or fail. So the
handler is split at the await: `ProcessProtocolEvent` moves to
`pc = "send"`, and `SendPayload` completes the send.

## Runs

### `notification` (pass)

Config: `MCNotification.cfg`: 1 peer, `MaxConns = 2`, `MaxSid = 2`,
`QueueCap = 2`, `MaxInbound = 2` (inbound substreams the remote opens per
connection). About 178k distinct states, about 75 seconds.

- **TypeOK:** every `PeerState` is a legal variant.
  `OutboundInitiated` always carries its id.
- **NoSubstreamLeak:** every substream the protocol receives is either held by
  the peer state, exactly once, or closed. This covers duplicate inbounds,
  late outbounds, reject, negotiation error, connection close and an Accept
  on a dead connection.
- **TransitionsFollowGraph** (action property): every change of a peer's
  state, by any handler, is an edge of the graph in spec §4.1. A `Closed`
  peer starts validating only on an inbound substream; an outbound substream
  is adopted only from `OutboundInitiated`, never from `Closed{Some(id)}`.
  While `Validating`, the direction is fixed and neither sub-state moves
  back, so a second inbound substream never replaces the first. `Open` is
  reached only when the last direction completes after an Accept. A
  tear-down keeps no id except the one in flight.
- **SessionRefined:** `Notification` implements `NotificationSession` under
  the mapping `phase[p] <- SessionPhase(ctx[p])` (no entry or `Closed` is
  closed, `Open` is open, `OutboundInitiated` and `Validating` are opening),
  `out <-` the event channel without its Validate events, `view <- appView`.
  Every handler's step is one of the abstract steps or leaves the abstract
  state alone: a session never becomes open without Opened queued behind the
  events already sent, never closes from open without Closed, and every event
  is eventually read.
- **PendingOpenDiscarded:** `pending_open` is eventually cleared.
- **CloseTakesEffect:** a `close_substream` on an Open peer eventually takes it
  out of Open.

`MaxSid` caps the SubstreamId allocator (a `u64` counter in the code).
`RequestOutbound` is disabled once it is spent, so an OpenSubstream or an
Accept that needs a third id waits. Two ids already cover an outbound open
that is abandoned and then followed by a new request.

Two connections make reconnects and stale reports reachable. Two inbound
substreams per connection make a duplicate inbound, and a second validation
after a reject, reachable. Two substream ids
make a late answer meet a new request. With capacity 2, each channel can hold
a reply behind another event.

### `notification_*` (violations)

Each checks one property from `spec.md`. Each fails on a path the tests do not
exercise:

- `AtMostOneOutstandingValidation`: a verdict still queued when the peer
  starts a new inbound validation is applied to the new substream. This
  happens after a reconnect, and also on one connection: the outbound open
  fails during validation and the remote then opens a new inbound substream.
- `OutboundRequestsAccounted`: `Closed{Some(id)}` plus an inbound substream
  drops `id`.
- `NoTwoLiveSubstreams`: a shutdown report carries only the `PeerId`, so a
  stale one closes the new session.

### `webrtc` (pass)

Config: `MCWebRtcConnection.cfg`: 2 channels, 3 frames per channel opening,
2 substream ids, 2 pending Rtc events, substream channels of capacity 1, and
frames may be flags-only. About 343k distinct states, about 2 minutes.

- **TypeOK.**
- **DemuxRefined:** `run` implements `ChannelDemux` under the mapping
  `sent <- sentOn`, `recv[c] <- delivered[id_mapping[c]]`,
  `running <- pc # "done"`. So the substream bound to a channel receives
  exactly that channel's data frames, one step at a time, in order, never
  another channel's and never the select request.
- **DataDelivered:** every data frame sent is eventually delivered, or the task
  has ended (or, in `webrtc_receiver_drop`, its handler dropped the substream).

### `webrtc_receiver_drop` (pass)

Config: `MCWebRtcConnection_ReceiverDrop.cfg`: `ReceiversMayDrop = TRUE`.
Protocols may drop their substreams, and `report_substream_open` may fail
(its result is ignored at connection.rs:255, and the substream moved into it
is dropped). Each channel carries its select request and one data frame, so
that the run stays small with the extra nondeterminism. About 229k distinct
states, about 45 seconds.

- **DataDelivered**, with the premise as above: a frame reaches its handler
  unless the task ends or that handler dropped the substream. `tx.send` to a
  dropped receiver fails at once (`let _ =`, connection.rs:285). So a dropped
  channel never holds up the data of the other channels. A send that waited
  instead (the mutant) stalls the other channel for good.

### `webrtc_*` (violations)

- `ExitDisconnects`: returns of an Error inside `select!` skip
  `rtc.disconnect()`. The clean returns (Rtc not alive, `dgram_rx` closed)
  are not error paths and are not counted.
- `FlagsFrameDropped`: a flags-only frame is fatal. The spec says it is
  dropped.
- `SelectNeverForwarded` (with `ReuseChannelIds = TRUE`): `ChannelClose` keeps
  the mapping, so a reused id forwards its select bytes to the old substream.
- `NoCrossChannelStall`: spec 5 says a slow handler stalls inbound processing
  of its own channel only. `process_protocol_event` awaits `tx.send` inside
  `poll_output`, so while one substream's channel is full, the data of another
  channel waits behind it (and so do datagrams, writes and the timer).

### `poll_timer` (pass)

Config: `MCPollTimer.cfg`: 2 ticks per millisecond, clock readings up to 1.5ms
apart, every timeout from 0 to 2ms past the 100ms cap. About 4k inputs.

- **PollDurationCorrect:** the sleep is within [1ms, 100ms]. A timeout in the
  past, or one that passes between the two clock readings, gives 1ms, not zero
  or an underflow. The loop never wakes later than the Rtc asked, except by
  the 1ms floor. With a single clock reading, the wake-up is exactly the
  deadline of spec 4.2.

### `notification_over_webrtc` (violation)

Config: `MCNotificationOverWebRtc.cfg`: the bounds of `MCNotification`.

- `OpenSubstreamAnswered`: a peer in `OutboundInitiated` on a live connection
  is eventually answered. This holds for `Notification`, whose transport
  answers, and fails over WebRTC: `run` only logs `ProtocolEvent::OpenSubstream`
  (connection.rs:368-370).

Every property of a passing run has a mutant in `PROJECT.json`: a plausible
bug in a mapped action that TLC then finds.

## Fairness

### Notification

- **Weak fairness on each event source** (`OnTransportEvent`, `OnCommand`,
  `OnShutdown`) and on each peer's negotiator. `NotificationProtocol::run`
  polls all of them in a `select!` loop, so none is starved forever.
- **Weak fairness on the transport's answer** to an OpenSubstream and on the
  end of a session that was asked to close.
- **Weak fairness on the application's receive** (`AppRecv`): the
  application reads its events. A verdict is appended to the command channel
  without waiting for room. Spec §5 bounds only the event channel. With a
  bounded command channel, a verdict could wait on the protocol while the
  protocol waits for room in the event channel to emit the answer of the
  command ahead of it. The earlier model, with both channels bounded, found
  this circular wait. The implementation is not in this repository, so the
  model takes the spec's bound. The application's own commands keep the
  `QueueCap` bound; verdicts are bounded by the number of inbound substreams
  (`MaxConns * MaxInbound`).

### WebRTC

Weak fairness on the loop (the task is scheduled), and on each protocol's
read of a substream it still holds (the spec's back-pressure note assumes handlers keep
consuming). The rest of the environment gets none. Over WebRTC, the
`select!` arm that takes protocol commands is part of the same fair loop.

## Not modelled

- **str0m itself** (ICE, DTLS, SCTP). It is the environment.
- **Byte encodings:** the codec, multistream-select and handshake bytes.
- **The rest of `NotificationProtocol`.** Its source is not in this
  repository, so the notification components stay "partly" modelled: only
  what the tests pin and what spec §4.1 states is modelled.
- **The lines of connection.rs outside the map** are imports, the licence
  header and closing braces; every function of the file is mapped.
- **More than one peer.** Every handler is keyed by the peer of its event, and
  the peers share only the channels and the SubstreamId allocator. The runs
  use one peer, so that the liveness properties stay within reach.
- **`Output::Transmit`.** It writes to the socket and has no effect on the
  loop's control.

## Open work

1. A model of `NotificationProtocol`'s per-peer emission blocking (spec §5
   says a full event channel blocks progress "for that peer only"), once the
   implementation is available to model it from.
