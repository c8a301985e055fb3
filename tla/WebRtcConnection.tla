-------------------------- MODULE WebRtcConnection --------------------------
(***************************************************************************)
(* WebRtcConnection::run (src/src/transport/webrtc/connection.rs): one     *)
(* task owning the str0m `Rtc` object. Each iteration checks is_alive,     *)
(* takes one output of poll_output (handling channel events on the way)    *)
(* and, once the output is a Timeout, waits in select! on a datagram, an   *)
(* outbound substream message, a protocol command or the timer, then       *)
(* drives the Rtc's clock with handle_input(Timeout).                      *)
(*                                                                         *)
(* The Rtc is the environment: the remote opens data channels, sends       *)
(* frames on them and closes them; str0m reports these as ChannelOpen /    *)
(* ChannelData / ChannelClose events in order (rtcEvents). A frame is      *)
(* abstracted to what WebRtcMessage::decode and listener_negotiate make of *)
(* it: "select" (a multistream-select request for a registered protocol),  *)
(* "data" (a payload; data frames are numbered per channel so that routing *)
(* and order can be checked) or "flags" (flags only, payload None).        *)
(***************************************************************************)
EXTENDS Naturals, Sequences, FiniteSets

CONSTANTS
  Channels,    \* str0m ChannelIds the remote may use (model values)
  MaxFrames,   \* frames the remote sends on one opening of a channel
  MaxSubstreams, \* SubstreamIds the connection allocates, in total
  EventCap,    \* bound on str0m events not yet polled
  DataKinds,   \* kinds of the frames after the first: {"data"} or {"data", "flags"}
  ReuseChannelIds, \* may the remote reopen a ChannelId after closing it
  SubCap,      \* capacity of a substream's tx channel to its protocol
  ReceiversMayDrop \* may a protocol drop its substream, and report_substream_open fail

NoSubstream == 0
NoSending == [sub |-> NoSubstream, payload |-> 0]
SubstreamIds == 1 .. MaxSubstreams

VARIABLES
  pc,            \* "poll" (loop top), "send" (in tx.send), "select", "tick" or "done"
  error,         \* the Error the task ended on ("None": returned Ok)
  rtcAlive,      \* rtc.is_alive()
  disconnected,  \* rtc.disconnect() was called
  chan,          \* chan[c]: "idle", "open" or "closed" (rtc.channel(c) is Some iff "open")
  rtcEvents,     \* str0m channel events not yet returned by poll_output
  sentOn,        \* sentOn[c]: numbers of the data frames the remote sent on c's opening
  framesSent,    \* framesSent[c]: frames the remote sent on c's opening
  idMapping,     \* id_mapping: ChannelId -> SubstreamId (NoSubstream: absent)
  channels,      \* channels: SubstreamId -> channel_id of its SubstreamContext
  substreamId,   \* the next SubstreamId to hand out
  delivered,     \* delivered[s]: payloads sent on substream s's tx (0: select bytes)
  queued,        \* queued[s]: of those, not yet read by the protocol
  sending,       \* the substream and payload of the tx.send being awaited
  writes,        \* backend: SubstreamIds with a message written by the protocol
  dgrams,        \* datagrams queued in dgram_rx
  dgramOpen,     \* the transport still holds dgram_tx
  rxOpen         \* rxOpen[s]: the receiving half of substream s's tx still exists

rtc     == <<rtcAlive, disconnected, chan, rtcEvents, sentOn, framesSent>>
conn    == <<pc, error, idMapping, channels, substreamId, delivered, queued, sending>>
inputs  == <<writes, dgrams, dgramOpen, rxOpen>>
vars    == <<rtc, conn, inputs>>

Init ==
  /\ pc = "poll"
  /\ error = "None"
  /\ rtcAlive = TRUE
  /\ disconnected = FALSE
  /\ chan = [c \in Channels |-> "idle"]
  /\ rtcEvents = <<>>
  /\ sentOn = [c \in Channels |-> <<>>]
  /\ framesSent = [c \in Channels |-> 0]
  /\ idMapping = [c \in Channels |-> NoSubstream]
  /\ channels = [s \in SubstreamIds |-> "None"]
  /\ substreamId = 1
  /\ delivered = [s \in SubstreamIds |-> <<>>]
  /\ queued = [s \in SubstreamIds |-> 0]
  /\ sending = NoSending
  /\ writes = <<>>
  /\ dgrams = 0
  /\ dgramOpen = TRUE
  /\ rxOpen = [s \in SubstreamIds |-> FALSE]

-----------------------------------------------------------------------------
(* Leaving run(): with rtc.disconnect() (the error arms of the poll_output *)
(* match and of handle_input(Timeout)) or without it (every `return` and   *)
(* `?` inside select!).                                                    *)

ExitDisconnecting(err) ==
  /\ pc' = "done" /\ error' = err
  /\ disconnected' = TRUE

Exit(err) ==
  /\ pc' = "done" /\ error' = err
  /\ UNCHANGED disconnected

-----------------------------------------------------------------------------
(* The loop top and poll_output / handle_output.                           *)

\* `if !self.rtc.is_alive() { return Ok(()) }`
NotAlive ==
  /\ pc = "poll" /\ ~rtcAlive
  /\ Exit("None")
  /\ UNCHANGED <<rtcAlive, chan, rtcEvents, sentOn, framesSent,
                 idMapping, channels, substreamId, delivered, queued, sending, inputs>>

\* poll_output fails, or yields IceConnectionStateChange(Disconnected) or a
\* second Connected: the Err arm of run disconnects the Rtc and returns Ok.
PollFatal ==
  /\ pc = "poll" /\ rtcAlive
  /\ ExitDisconnecting("None")
  /\ UNCHANGED <<rtcAlive, chan, rtcEvents, sentOn, framesSent,
                 idMapping, channels, substreamId, delivered, queued, sending, inputs>>

\* Mutant: the loop goes to select! before poll_output has been drained.
PollTimeoutEarly ==
  /\ pc = "poll" /\ rtcAlive
  /\ pc' = "select"
  /\ UNCHANGED <<rtc, error, idMapping, channels, substreamId, delivered, queued, sending, inputs>>

\* Output::Timeout (returned once no event is pending): go to select!.
PollTimeout ==
  /\ pc = "poll" /\ rtcAlive /\ rtcEvents = <<>>
  /\ pc' = "select"
  /\ UNCHANGED <<rtc, error, idMapping, channels, substreamId, delivered, queued, sending, inputs>>

\* Event::ChannelOpen and Event::ChannelClose are only logged (Noop); the
\* close leaves id_mapping and channels as they are.
PollChannelEvent ==
  /\ pc = "poll" /\ rtcAlive /\ rtcEvents # <<>>
  /\ Head(rtcEvents).kind \in {"Open", "Close"}
  /\ rtcEvents' = Tail(rtcEvents)
  /\ UNCHANGED <<rtcAlive, disconnected, chan, sentOn, framesSent, conn, inputs>>

\* report_substream_open hands the substream to the protocol set; its result
\* is ignored. When it fails the substream moved into the call is dropped
\* with it, and the channel stays mapped to a tx whose receiver is gone.
ReportOutcomes == IF ReceiversMayDrop THEN BOOLEAN ELSE {TRUE}

\* Mutant: the channel is bound to the id after the allocator has advanced.
NegotiateProtocolNextId(c, f) ==
  IF f = "select" /\ chan[c] = "open"
  THEN /\ substreamId <= MaxSubstreams
       /\ substreamId' = substreamId + 1
       /\ idMapping' = [idMapping EXCEPT ![c] = substreamId + 1]
       /\ channels' = [channels EXCEPT ![substreamId] = c]
       /\ \E ok \in ReportOutcomes : rxOpen' = [rxOpen EXCEPT ![substreamId] = ok]
       /\ UNCHANGED <<pc, error, disconnected, delivered, queued>>
  ELSE /\ ExitDisconnecting("None")
       /\ UNCHANGED <<idMapping, channels, substreamId, delivered, queued, rxOpen>>

\* negotiate_protocol: the first frame of an unmapped channel. Its payload
\* (None for a flags-only frame: InvalidData) must be a multistream-select
\* request for a registered protocol (else listener_negotiate fails), the
\* response is written to rtc.channel(d.id) (ChannelDoesntExist if it is
\* gone); then a fresh SubstreamId is bound to the channel in id_mapping and
\* channels and the substream is reported to the protocol set (which may
\* fail, ReportOutcomes). Every error
\* propagates out of poll_output into the Err arm of run.
NegotiateProtocol(c, f) ==
  IF f = "select" /\ chan[c] = "open"
  THEN /\ substreamId <= MaxSubstreams
       /\ substreamId' = substreamId + 1
       /\ idMapping' = [idMapping EXCEPT ![c] = substreamId]
       /\ channels' = [channels EXCEPT ![substreamId] = c]
       /\ \E ok \in ReportOutcomes : rxOpen' = [rxOpen EXCEPT ![substreamId] = ok]
       /\ UNCHANGED <<pc, error, disconnected, delivered, queued>>
  ELSE /\ ExitDisconnecting("None")
       /\ UNCHANGED <<idMapping, channels, substreamId, delivered, queued, rxOpen>>

\* process_protocol_event: decode the frame (payload None: InvalidData) and
\* look up channels[id_mapping[d.id]]; the task then awaits tx.send of the
\* payload.
ProcessProtocolEvent(c, f, n) ==
  IF f # "flags"
  THEN /\ pc' = "send"
       /\ sending' = [sub |-> idMapping[c], payload |-> IF f = "data" THEN n ELSE 0]
       /\ UNCHANGED <<error, disconnected, idMapping, channels, substreamId, delivered, queued, rxOpen>>
  ELSE /\ ExitDisconnecting("None")
       /\ UNCHANGED <<idMapping, channels, substreamId, delivered, queued, sending, rxOpen>>

\* Event::ChannelData -> on_channel_data: negotiate on an unmapped channel,
\* forward on a mapped one.
PollChannelData ==
  LET d == Head(rtcEvents) IN
  /\ pc = "poll" /\ rtcAlive /\ rtcEvents # <<>>
  /\ d.kind = "Data"
  /\ rtcEvents' = Tail(rtcEvents)
  /\ IF idMapping[d.ch] = NoSubstream
     THEN NegotiateProtocol(d.ch, d.frame) /\ UNCHANGED sending
     ELSE ProcessProtocolEvent(d.ch, d.frame, d.n)
  /\ UNCHANGED <<rtcAlive, chan, sentOn, framesSent, writes, dgrams, dgramOpen>>

\* The payload goes into the substream's channel.
Enqueue(s, x) ==
  /\ delivered' = [delivered EXCEPT ![s] = Append(@, x)]
  /\ queued' = [queued EXCEPT ![s] = @ + 1]

\* Mutant: the payload is offered with try_send, which may drop it.
SendPayloadTrySend ==
  LET s == sending.sub IN
  /\ pc = "send"
  /\ \/ rxOpen[s] /\ queued[s] < SubCap /\ Enqueue(s, sending.payload)
     \/ UNCHANGED <<delivered, queued>>
  /\ pc' = "poll" /\ sending' = NoSending
  /\ UNCHANGED <<rtc, error, idMapping, channels, substreamId, inputs>>

\* Mutant: a send to a substream whose receiver is gone never completes
\* (the receiver is kept alive somewhere nobody reads it).
SendPayloadAwaitDropped ==
  LET s == sending.sub IN
  /\ pc = "send"
  /\ rxOpen[s] /\ queued[s] < SubCap /\ Enqueue(s, sending.payload)
  /\ pc' = "poll" /\ sending' = NoSending
  /\ UNCHANGED <<rtc, error, idMapping, channels, substreamId, inputs>>

\* `let _ = context.tx.send(message).await`: on a bounded channel the send
\* completes once there is room, and while the channel is full the whole
\* task waits here; once the receiver is gone it fails at once and the
\* payload is dropped. Then poll_output is called again.
SendPayload ==
  LET s == sending.sub IN
  /\ pc = "send"
  /\ \/ rxOpen[s] /\ queued[s] < SubCap /\ Enqueue(s, sending.payload)
     \/ ~rxOpen[s] /\ UNCHANGED <<delivered, queued>>
  /\ pc' = "poll" /\ sending' = NoSending
  /\ UNCHANGED <<rtc, error, idMapping, channels, substreamId, inputs>>

-----------------------------------------------------------------------------
(* select! and the clock.                                                  *)

\* dgram_rx yields a datagram: on_input. A buffer that does not convert to a
\* datagram is InvalidData and `return Err(error)`; a datagram the Rtc does
\* not accept (InputRejected) is dropped.
SelectDatagram ==
  /\ pc = "select" /\ dgrams > 0
  /\ dgrams' = dgrams - 1
  /\ \/ pc' = "tick" /\ UNCHANGED error
     \/ Exit("InvalidData")
  /\ UNCHANGED <<rtc, idMapping, channels, substreamId, delivered, queued, sending, writes, dgramOpen, rxOpen>>

\* dgram_rx is closed: "transport shut down", return Ok(()).
SelectDatagramClosed ==
  /\ pc = "select" /\ dgrams = 0 /\ ~dgramOpen
  /\ Exit("None")
  /\ UNCHANGED <<rtcAlive, chan, rtcEvents, sentOn, framesSent,
                 idMapping, channels, substreamId, delivered, queued, sending, inputs>>

\* backend.next_event() yields (id, message): look up channels[id] and write
\* to rtc.channel(channel_id); a channel the Rtc no longer has is
\* ChannelDoesntExist, returned by `?`.
SelectBackend ==
  LET s == Head(writes) IN
  /\ pc = "select" /\ writes # <<>>
  /\ writes' = Tail(writes)
  /\ IF chan[channels[s]] = "open"
     THEN pc' = "tick" /\ UNCHANGED error
     ELSE Exit("ChannelDoesntExist")
  /\ UNCHANGED <<rtc, idMapping, channels, substreamId, delivered, queued, sending, dgrams, dgramOpen, rxOpen>>

\* protocol_set.next_event(): an OpenSubstream command is only logged
\* (outbound substreams are not opened over WebRTC); None, the protocol set
\* gone, is `return Err(EssentialTaskClosed)`.
SelectCommand ==
  /\ pc = "select"
  /\ \/ pc' = "tick" /\ UNCHANGED error
     \/ Exit("EssentialTaskClosed")
  /\ UNCHANGED <<rtc, idMapping, channels, substreamId, delivered, queued, sending, inputs>>

\* The sleep for the computed duration elapses.
SelectTimer ==
  /\ pc = "select"
  /\ pc' = "tick"
  /\ UNCHANGED <<rtc, error, idMapping, channels, substreamId, delivered, queued, sending, inputs>>

\* rtc.handle_input(Input::Timeout(now)); on error disconnect and return
\* Err(Disconnected).
Tick ==
  /\ pc = "tick"
  /\ \/ pc' = "poll" /\ UNCHANGED <<error, disconnected>>
     \/ ExitDisconnecting("Disconnected")
  /\ UNCHANGED <<rtcAlive, chan, rtcEvents, sentOn, framesSent,
                 idMapping, channels, substreamId, delivered, queued, sending, inputs>>

-----------------------------------------------------------------------------
(* The environment: the remote peer through the Rtc, the transport and the *)
(* protocols holding the substreams. It stops once run() has returned.     *)

Running == pc # "done"
RoomForEvent == Len(rtcEvents) < EventCap

\* The remote opens data channel c (a closed id again if ids are reused).
RemoteOpen(c) ==
  /\ Running /\ RoomForEvent
  /\ chan[c] = "idle" \/ (ReuseChannelIds /\ chan[c] = "closed")
  /\ chan' = [chan EXCEPT ![c] = "open"]
  /\ sentOn' = [sentOn EXCEPT ![c] = <<>>]
  /\ framesSent' = [framesSent EXCEPT ![c] = 0]
  /\ rtcEvents' = Append(rtcEvents, [kind |-> "Open", ch |-> c, frame |-> "none", n |-> 0])
  /\ UNCHANGED <<rtcAlive, disconnected, conn, inputs>>

\* The remote sends a frame on c: the multistream-select request first,
\* then data (and, if DataKinds allows, flags-only frames).
RemoteSend(c) ==
  /\ Running /\ RoomForEvent
  /\ chan[c] = "open" /\ framesSent[c] < MaxFrames
  /\ \E f \in IF framesSent[c] = 0 THEN {"select"} ELSE DataKinds :
       LET n == Len(sentOn[c]) + 1 IN
       /\ rtcEvents' = Append(rtcEvents, [kind |-> "Data", ch |-> c, frame |-> f,
                                          n |-> IF f = "data" THEN n ELSE 0])
       /\ sentOn' = IF f = "data" THEN [sentOn EXCEPT ![c] = Append(@, n)] ELSE sentOn
  /\ framesSent' = [framesSent EXCEPT ![c] = @ + 1]
  /\ UNCHANGED <<rtcAlive, disconnected, chan, conn, inputs>>

\* The remote closes c: rtc.channel(c) is None from now on.
RemoteClose(c) ==
  /\ Running /\ RoomForEvent /\ chan[c] = "open"
  /\ chan' = [chan EXCEPT ![c] = "closed"]
  /\ rtcEvents' = Append(rtcEvents, [kind |-> "Close", ch |-> c, frame |-> "none", n |-> 0])
  /\ UNCHANGED <<rtcAlive, disconnected, sentOn, framesSent, conn, inputs>>

\* The Rtc stops being alive (ICE or DTLS gave up).
RtcDies ==
  /\ Running /\ rtcAlive
  /\ rtcAlive' = FALSE
  /\ UNCHANGED <<disconnected, chan, rtcEvents, sentOn, framesSent, conn, inputs>>

\* The transport's demultiplexer forwards a datagram, or shuts down.
DatagramArrives ==
  /\ Running /\ dgramOpen /\ dgrams = 0
  /\ dgrams' = 1
  /\ UNCHANGED <<rtc, conn, writes, dgramOpen, rxOpen>>

TransportShutdown ==
  /\ Running /\ dgramOpen
  /\ dgramOpen' = FALSE
  /\ UNCHANGED <<rtc, conn, writes, dgrams, rxOpen>>

\* A protocol writes a message on a substream the connection reported to it.
ProtocolWrite(s) ==
  /\ Running /\ rxOpen[s] /\ writes = <<>>
  /\ writes' = <<s>>
  /\ UNCHANGED <<rtc, conn, dgrams, dgramOpen, rxOpen>>

\* The protocol holding substream s reads one message from its receiver.
ProtocolRead(s) ==
  /\ rxOpen[s] /\ queued[s] > 0
  /\ queued' = [queued EXCEPT ![s] = @ - 1]
  /\ UNCHANGED <<rtc, pc, error, idMapping, channels, substreamId, delivered, sending, inputs>>

\* The protocol drops substream s: its receiver goes, with the payloads it
\* had not read.
ProtocolDropSubstream(s) ==
  /\ ReceiversMayDrop /\ Running /\ rxOpen[s]
  /\ rxOpen' = [rxOpen EXCEPT ![s] = FALSE]
  /\ queued' = [queued EXCEPT ![s] = 0]
  /\ UNCHANGED <<rtc, pc, error, idMapping, channels, substreamId, delivered, sending,
                 writes, dgrams, dgramOpen>>

-----------------------------------------------------------------------------
Loop ==
  \/ NotAlive \/ PollFatal \/ PollTimeout \/ PollChannelEvent \/ PollChannelData
  \/ SendPayload
  \/ SelectDatagram \/ SelectDatagramClosed \/ SelectBackend \/ SelectCommand
  \/ SelectTimer
  \/ Tick

Environment ==
  \/ \E c \in Channels : RemoteOpen(c) \/ RemoteSend(c) \/ RemoteClose(c)
  \/ RtcDies \/ DatagramArrives \/ TransportShutdown
  \/ \E s \in SubstreamIds : ProtocolWrite(s) \/ ProtocolRead(s) \/ ProtocolDropSubstream(s)

Next == Loop \/ Environment

\* The connection task is polled whenever it can make progress, and every
\* protocol handler keeps reading the substream it was given.
Spec == Init /\ [][Next]_vars /\ WF_vars(Loop)
        /\ \A s \in SubstreamIds : WF_vars(ProtocolRead(s))

-----------------------------------------------------------------------------
(* Properties.                                                             *)

TypeOK ==
  /\ pc \in {"poll", "send", "select", "tick", "done"}
  /\ error \in {"None", "InvalidData", "ChannelDoesntExist", "EssentialTaskClosed",
                  "Disconnected"}
  /\ rtcAlive \in BOOLEAN /\ disconnected \in BOOLEAN
  /\ chan \in [Channels -> {"idle", "open", "closed"}]
  /\ Len(rtcEvents) <= EventCap
  /\ sentOn \in [Channels -> Seq(1 .. MaxFrames)]
  /\ framesSent \in [Channels -> 0 .. MaxFrames]
  /\ idMapping \in [Channels -> {NoSubstream} \cup SubstreamIds]
  /\ channels \in [SubstreamIds -> Channels \cup {"None"}]
  /\ substreamId \in 1 .. MaxSubstreams + 1
  /\ delivered \in [SubstreamIds -> Seq(0 .. MaxFrames)]
  /\ queued \in [SubstreamIds -> 0 .. SubCap]
  /\ sending \in [sub : {NoSubstream} \cup SubstreamIds, payload : 0 .. MaxFrames]
  /\ dgrams \in 0 .. 1 /\ dgramOpen \in BOOLEAN
  /\ rxOpen \in [SubstreamIds -> BOOLEAN]

\* Demultiplexing: the protocol handler of the substream bound to a channel
\* receives exactly that channel's data frames, in the order the remote sent
\* them, and never the multistream-select request that negotiated it.
DeliveredOn(c) ==
  IF idMapping[c] = NoSubstream THEN <<>> ELSE delivered[idMapping[c]]

\* Refinement: the connection implements ChannelDemux. The remote's data
\* frames on a channel are what it sent; what the handler of the channel's
\* substream has been given (through id_mapping and channels) is what was
\* forwarded; the connection runs until run() returns.
Demux == INSTANCE ChannelDemux
           WITH sent <- sentOn,
                recv <- [c \in Channels |-> DeliveredOn(c)],
                running <- pc # "done"

\* Every behaviour of run() is one of ChannelDemux: each handler receives its
\* own channel's payloads, one step at a time, in order, never another
\* channel's and never the multistream-select bytes.
DemuxRefined == Demux!Spec

\* The substream bound to c has lost its receiver.
Dropped(c) == idMapping[c] # NoSubstream /\ ~rxOpen[idMapping[c]]

\* Every data frame the remote sends on a channel reaches the protocol
\* handler of that channel's substream, unless the connection ends first or
\* that handler has dropped the substream: a dropped receiver, or a failed
\* report_substream_open, never holds up the frames of the other channels.
DataDelivered ==
  \A c \in Channels, n \in 1 .. MaxFrames :
    Len(sentOn[c]) >= n ~> (pc = "done" \/ Len(DeliveredOn(c)) >= n \/ Dropped(c))

\* Spec 4.2: "On any error path, disconnect() is called on the protocol
\* object before returning": when run() has returned an Error, the Rtc is
\* disconnected unless it was no longer alive. The clean returns (the Rtc
\* not alive, dgram_rx closed) are not error paths.
ExitDisconnects == pc = "done" /\ error # "None" => disconnected \/ ~rtcAlive

\* Spec 4.2: on a negotiated channel a frame without payload is silently
\* dropped ("framing permits header-only frames"): taking such a frame from
\* the Rtc never ends the connection.
FlagsFrameTaken ==
  /\ pc = "poll" /\ rtcEvents # <<>> /\ rtcEvents' = Tail(rtcEvents)
  /\ Head(rtcEvents).kind = "Data" /\ Head(rtcEvents).frame = "flags"
  /\ idMapping[Head(rtcEvents).ch] # NoSubstream

FlagsFrameDropped == [][FlagsFrameTaken => pc' # "done"]_vars

\* Spec section 3: "a channel without an entry in id_mapping is in the
\* pre-negotiation phase; its first inbound message is the multistream-select
\* request ... Entries are removed on channel close": the select request of
\* a channel is consumed by negotiation, never forwarded to a protocol.
SelectNeverForwarded == \A s \in SubstreamIds : \A i \in 1 .. Len(delivered[s]) : delivered[s][i] # 0

\* Back-pressure (spec section 5): a slow protocol handler stalls the
\* inbound processing of its own channel only. In process_protocol_event the
\* loop awaits tx.send on the full channel, so a data event of another channel
\* queued behind it must not exist while the loop is blocked there.
BlockedOnFullSubstream ==
  pc = "send" /\ rxOpen[sending.sub] /\ queued[sending.sub] = SubCap

NoCrossChannelStall ==
  BlockedOnFullSubstream =>
    \A i \in 1 .. Len(rtcEvents) : rtcEvents[i].ch = channels[sending.sub]

====
