---------------------------- MODULE ChannelDemux ----------------------------
(***************************************************************************)
(* What a WebRTC connection promises the protocols above it (spec.md 4.2   *)
(* and 5): each data channel the remote opens becomes one substream, and   *)
(* the payloads the remote sends on a channel reach that substream's       *)
(* handler one at a time, in the order they were sent, with nothing added. *)
(* The connection may end at any moment, after which nothing moves.        *)
(*                                                                         *)
(* A payload is identified by its position on its channel.                 *)
(***************************************************************************)
EXTENDS Naturals, Sequences

CONSTANTS Channels

VARIABLES
  sent,     \* sent[c]: payloads the remote has sent on channel c
  recv,     \* recv[c]: payloads the handler of c's substream has been given
  running   \* the connection has not ended

vars == <<sent, recv, running>>

Init ==
  /\ sent = [c \in Channels |-> <<>>]
  /\ recv = [c \in Channels |-> <<>>]
  /\ running = TRUE

\* The remote sends the next payload on c.
Send(c) ==
  /\ running
  /\ sent' = [sent EXCEPT ![c] = Append(@, Len(@) + 1)]
  /\ UNCHANGED <<recv, running>>

\* The oldest payload of c not yet forwarded reaches c's handler.
Forward(c) ==
  /\ running
  /\ Len(recv[c]) < Len(sent[c])
  /\ recv' = [recv EXCEPT ![c] = Append(@, sent[c][Len(@) + 1])]
  /\ UNCHANGED <<sent, running>>

\* The connection ends; what was not forwarded is lost.
Stop ==
  /\ running
  /\ running' = FALSE
  /\ UNCHANGED <<sent, recv>>

Next == Stop \/ \E c \in Channels : Send(c) \/ Forward(c)

Spec == Init /\ [][Next]_vars

====
