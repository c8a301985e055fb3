------------------------------ MODULE PollTimer ------------------------------
(***************************************************************************)
(* The sleep of WebRtcConnection::run (connection.rs 319-324 and the       *)
(* sleep arm of select!): when poll_output yields Output::Timeout(t), the  *)
(* loop computes                                                           *)
(*   min(t, Instant::now() + 100ms) - Instant::now()  then  .max(1ms)       *)
(* with two separate readings of the clock, now1 <= now2, and Instant      *)
(* subtraction saturating at zero. Time is counted in ticks, Ms ticks to   *)
(* the millisecond, so that sub-millisecond gaps are represented.          *)
(*                                                                         *)
(* Each state is one evaluation: the Rtc's timeout and the two clock       *)
(* readings, over every combination up to a horizon past the 100ms cap.    *)
(***************************************************************************)
EXTENDS Naturals

CONSTANTS
  Ms,       \* ticks per millisecond
  MaxGap    \* largest gap, in ticks, between the two Instant::now() calls

Cap   == 100 * Ms   \* Duration::from_millis(100)
Floor == Ms         \* Duration::from_millis(1)

Earlier(a, b) == IF a <= b THEN a ELSE b
Later(a, b)   == IF a >= b THEN a ELSE b

\* Instant - Instant: the duration between them, zero if the right operand
\* is the later one.
SatSub(a, b) == IF a > b THEN a - b ELSE 0

\* Mutant: the 1ms floor is left out.
PollDurationNoFloor(timeout, now1, now2) ==
  SatSub(Earlier(timeout, now1 + Cap), now2)

\* The duration the loop sleeps for, given the Rtc's timeout and the two
\* readings of Instant::now().
PollDuration(timeout, now1, now2) ==
  Later(SatSub(Earlier(timeout, now1 + Cap), now2), Floor)

\* Spec 4.2: the next poll deadline is min(timeout, now + 100ms) and no
\* less than now + 1ms.
SpecDeadline(timeout, now) == Later(Earlier(timeout, now + Cap), now + Floor)

VARIABLES
  timeout,  \* the Instant of Output::Timeout
  now1,     \* Instant::now() inside min
  now2      \* Instant::now() of the subtraction

vars == <<timeout, now1, now2>>

Init ==
  /\ now1 \in 0 .. 2 * Ms
  /\ now2 \in now1 .. now1 + MaxGap
  /\ timeout \in 0 .. now2 + Cap + 2 * Ms

\* Each state is examined on its own.
Next == UNCHANGED vars

Spec == Init /\ [][Next]_vars

-----------------------------------------------------------------------------
\* The sleep is between 1ms and 100ms, a timeout already in the past (or
\* less than 1ms away, or passed between the two clock readings) gives
\* exactly 1ms rather than zero (a busy loop) or an underflow, the loop
\* never wakes later than the Rtc asked except by that 1ms floor, and with
\* one clock reading it wakes exactly at the deadline spec 4.2 gives.
PollDurationCorrect ==
  LET d == PollDuration(timeout, now1, now2) IN
  /\ Floor <= d /\ d <= Cap
  /\ now2 + d <= Later(timeout, now2 + Floor)
  /\ now1 = now2 => now2 + d = SpecDeadline(timeout, now2)

====
