------------------------- MODULE NotificationSession -------------------------
(***************************************************************************)
(* What the notification protocol promises the application (spec.md 4.1,  *)
(* 5 and 8), one peer at a time: a session is closed, opening or open.     *)
(* Opening ends in an open session, announced by NotificationStreamOpened, *)
(* or back in closed, announced by NotificationStreamOpenFailure (or by    *)
(* nothing when a verdict arrives after the connection is gone); an open   *)
(* session ends with NotificationStreamClosed; an open request without a   *)
(* connection is refused with an OpenFailure. The events reach the         *)
(* application in the order they were emitted.                            *)
(***************************************************************************)
EXTENDS Sequences

CONSTANTS Peers

VARIABLES
  phase,   \* phase[p]: "closed", "opening" or "open"
  out,     \* outcome events emitted and not yet read: [peer, ev]
  view     \* view[p]: what the application has read of p: "closed" or "open"

vars == <<phase, out, view>>

Init ==
  /\ phase = [p \in Peers |-> "closed"]
  /\ out = <<>>
  /\ view = [p \in Peers |-> "closed"]

Move(p, from, to) ==
  /\ phase[p] = from
  /\ phase' = [phase EXCEPT ![p] = to]

Announce(p, ev) == out' = Append(out, [peer |-> p, ev |-> ev])

\* An inbound substream or a local open request starts a session.
Begin(p)       == Move(p, "closed", "opening") /\ UNCHANGED <<out, view>>

Established(p) == Move(p, "opening", "open") /\ Announce(p, "Opened") /\ UNCHANGED view

Failed(p)      == Move(p, "opening", "closed") /\ Announce(p, "OpenFailure") /\ UNCHANGED view

\* Accept after the connection was dropped: no event (spec 4.1).
Abandoned(p)   == Move(p, "opening", "closed") /\ UNCHANGED <<out, view>>

Ended(p)       == Move(p, "open", "closed") /\ Announce(p, "Closed") /\ UNCHANGED view

\* open_substream with no connection: NoConnection, the session stays closed.
Refused(p)     == phase[p] = "closed" /\ Announce(p, "OpenFailure") /\ UNCHANGED <<phase, view>>

\* The application reads the oldest event.
Deliver ==
  /\ out # <<>>
  /\ view' = [view EXCEPT ![Head(out).peer] =
                IF Head(out).ev = "Opened" THEN "open" ELSE "closed"]
  /\ out' = Tail(out)
  /\ UNCHANGED phase

Next ==
  \/ Deliver
  \/ \E p \in Peers : Begin(p) \/ Established(p) \/ Failed(p) \/ Abandoned(p)
                      \/ Ended(p) \/ Refused(p)

\* Every event emitted is eventually read.
Spec == Init /\ [][Next]_vars /\ WF_vars(Deliver)

====
