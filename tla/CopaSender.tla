----------------------------- MODULE CopaSender -----------------------------
(***************************************************************************)
(* The Copa congestion controller (CopaSender).  Every congestion event    *)
(* compares the rate of the window with a target that falls as the queueing*)
(* delay grows, and moves the window towards it: by doubling in slow start,*)
(* afterwards by a step proportional to velocity, which doubles with every *)
(* RTT that the window keeps its direction.                                *)
(*                                                                         *)
(* The two filters of the RTT are abstracted to what they guarantee once   *)
(* updated: the minimum is not above the standing RTT, which is not above  *)
(* the latest one.  A loss moves no window: it only decides the recovery   *)
(* that PacingRate looks at.                                               *)
(***************************************************************************)
EXTENDS Integers

CONSTANTS
    MSS,            \* kDefaultTCPMSS, in the unit windows are counted in
    InitialPackets, \* initial_tcp_congestion_window
    VelocityBits,   \* the width of velocity: 64 in the code
    Second,         \* clock units per second, for the rates
    MinRtt, MaxRtt, \* bound: the round trip times that occur
    MaxAcked,       \* bound: packets one event acknowledges
    WindowBound,    \* bound: the largest window, where a run stops
    Horizon         \* bound: the last instant

\* What the constants are assumed to be.
CopaAssumption ==
    /\ {MSS, VelocityBits, Second, MinRtt} \subseteq Nat \ {0}
    /\ InitialPackets \in Nat /\ InitialPackets >= 4
    /\ MaxRtt \in Nat /\ MinRtt <= MaxRtt
    /\ {MaxAcked, WindowBound, Horizon} \subseteq Nat

VARIABLES
    congestion_window,
    isSlowStart,
    lastCwndDoubleTime,     \* 0 (QuicTime::Zero()) before the first
    velocity,               \* velocityState_, with the four below
    direction,
    numTimesDirectionSame,
    lastRecordedCwndBytes,
    lastCwndRecordTime,     \* 0 before the first record
    recovering,             \* InRecovery()
    now                     \* event_time of the events at this instant

velocityState == <<velocity, direction, numTimesDirectionSame,
                   lastRecordedCwndBytes, lastCwndRecordTime>>
vars == <<congestion_window, isSlowStart, lastCwndDoubleTime, velocityState, recovering, now>>

MinWindow == 4 * MSS
Rtts == MinRtt..MaxRtt

Power2[n \in Nat] == IF n = 0 THEN 1 ELSE 2 * Power2[n - 1]

Wrap(v) == v % Power2[VelocityBits]

Min2(a, b) == IF a < b THEN a ELSE b

Init ==
    /\ congestion_window = InitialPackets * MSS
    /\ isSlowStart = TRUE
    /\ lastCwndDoubleTime = 0
    /\ velocity = 1
    /\ direction = "None"
    /\ numTimesDirectionSame = 0
    /\ lastRecordedCwndBytes = 0
    /\ lastCwndRecordTime = 0
    /\ recovering = FALSE
    /\ now = 1

-----------------------------------------------------------------------------
(* The velocity, as a record of the five fields of velocityState_.         *)

VelocityState ==
    [velocity |-> velocity, direction |-> direction, same |-> numTimesDirectionSame,
     cwnd |-> lastRecordedCwndBytes, time |-> lastCwndRecordTime]

SetVelocityState(v) ==
    /\ velocity' = v.velocity
    /\ direction' = v.direction
    /\ numTimesDirectionSame' = v.same
    /\ lastRecordedCwndBytes' = v.cwnd
    /\ lastCwndRecordTime' = v.time

\* Mistake: the count of RTTs goes on over a change of direction.
ChangeDirection_KeepsCount(v, newDirection) ==
    IF v.direction = newDirection
    THEN v
    ELSE [v EXCEPT !.velocity = 1, !.direction = newDirection,
                   !.cwnd = congestion_window, !.time = now]

\* A sudden change: from now on the window moves the other way.
ChangeDirection(v, newDirection) ==
    IF v.direction = newDirection
    THEN v
    ELSE [velocity |-> 1, direction |-> newDirection, same |-> 0,
          cwnd |-> congestion_window, time |-> now]

\* Once per smoothed RTT the direction is read off the window; from the fourth
\* RTT in one direction on velocity doubles.
CheckAndUpdateDirection(v, srtt) ==
    LET newDirection == IF congestion_window > v.cwnd THEN "Up" ELSE "Down"
        turned == newDirection # v.direction
        run == IF turned THEN 0 ELSE v.same + 1
    IN  IF v.time = 0
        THEN [v EXCEPT !.cwnd = congestion_window, !.time = now]
        ELSE IF now - v.time < srtt
        THEN v
        ELSE [velocity |-> IF turned THEN 1
                           ELSE IF run >= 3 THEN Wrap(2 * v.velocity)
                           ELSE v.velocity,
              direction |-> newDirection, same |-> run,
              cwnd |-> congestion_window, time |-> now]

\* Mistake: a high velocity is kept over a sudden change.
Turn_KeepsVelocity(v, newDirection) == v

\* The window is about to move in newDirection.
Turn(v, newDirection) ==
    IF v.direction # newDirection /\ v.velocity > 1
    THEN ChangeDirection(v, newDirection)
    ELSE v

\* The step of the window for acked packets: latencyFactor_ is 1/2.  Only a
\* velocity above 2^40 overflows the product, and the window is then at its
\* minimum, or beyond any link.
Step(v, acked) == (acked * MSS * MSS * v.velocity * 2) \div congestion_window

-----------------------------------------------------------------------------
(* The three branches of OnPacketAcked.                                    *)

\* Mistake: the doubling is not dated.
DoubleWindow_Undated(srtt) ==
    LET due == lastCwndDoubleTime # 0 /\ now - lastCwndDoubleTime > srtt
    IN  /\ isSlowStart
        /\ lastCwndDoubleTime' = IF lastCwndDoubleTime = 0 THEN now ELSE lastCwndDoubleTime
        /\ congestion_window' = IF due THEN 2 * congestion_window ELSE congestion_window
        /\ UNCHANGED <<isSlowStart, velocityState>>

\* Slow start doubles the window once per smoothed RTT.
DoubleWindow(srtt) ==
    LET due == lastCwndDoubleTime # 0 /\ now - lastCwndDoubleTime > srtt
    IN  /\ isSlowStart
        /\ lastCwndDoubleTime' = IF lastCwndDoubleTime = 0 \/ due THEN now ELSE lastCwndDoubleTime
        /\ congestion_window' = IF due THEN 2 * congestion_window ELSE congestion_window
        /\ UNCHANGED <<isSlowStart, velocityState>>

IncreaseWindow(acked, srtt) ==
    LET v == Turn(CheckAndUpdateDirection(VelocityState, srtt), "Up")
    IN  /\ ~isSlowStart
        /\ SetVelocityState(v)
        /\ congestion_window' = congestion_window + Step(v, acked)
        /\ UNCHANGED <<isSlowStart, lastCwndDoubleTime>>

\* Mistake: the window is not stopped at its minimum.
DecreaseWindow_NoFloor(acked, srtt) ==
    LET v == Turn(CheckAndUpdateDirection(VelocityState, srtt), "Down")
    IN  /\ SetVelocityState(v)
        /\ isSlowStart' = FALSE
        /\ congestion_window' = congestion_window - Min2(Step(v, acked), congestion_window)
        /\ UNCHANGED lastCwndDoubleTime

DecreaseWindow(acked, srtt) ==
    LET v == Turn(CheckAndUpdateDirection(VelocityState, srtt), "Down")
    IN  /\ SetVelocityState(v)
        /\ isSlowStart' = FALSE
        /\ congestion_window' =
                congestion_window - Min2(Step(v, acked), congestion_window - MinWindow)
        /\ UNCHANGED lastCwndDoubleTime

\* The rate of the window is at most the target.
BelowTarget(lrtt, rttMin, rttStanding) ==
    \/ lrtt = rttMin
    \/ (2 * MSS * Second) \div (lrtt - rttMin) >= (congestion_window * Second) \div rttStanding

\* A congestion event, of acknowledgements or of losses alone (acked = 0).
\* It enters recovery when it loses a packet sent since the last cutback, and
\* leaves it when it acknowledges one.
OnCongestionEvent(acked, lrtt, srtt, lostNew, ackedNew) ==
    /\ congestion_window <= WindowBound
    /\ recovering' = (lostNew \/ (recovering /\ ~ackedNew))
    /\ \E rttMin, rttStanding \in Rtts :
        /\ rttMin <= rttStanding /\ rttStanding <= lrtt
        /\ IF BelowTarget(lrtt, rttMin, rttStanding)
           THEN DoubleWindow(srtt) \/ IncreaseWindow(acked, srtt)
           ELSE DecreaseWindow(acked, srtt)
    /\ UNCHANGED now

Tick ==
    /\ now < Horizon
    /\ now' = now + 1
    /\ UNCHANGED <<congestion_window, isSlowStart, lastCwndDoubleTime, velocityState, recovering>>

Next ==
    \/ \E acked \in 0..MaxAcked, lrtt, srtt \in Rtts, lostNew \in BOOLEAN, ackedNew \in BOOLEAN :
        /\ ackedNew => acked > 0
        /\ OnCongestionEvent(acked, lrtt, srtt, lostNew, ackedNew)
    \/ Tick

Spec == Init /\ [][Next]_vars

-----------------------------------------------------------------------------
\* No velocity, however high, takes the window below its minimum, so that the
\* unsigned difference of the two never wraps.
TypeOK ==
    /\ congestion_window \in Nat
    /\ congestion_window >= MinWindow
    /\ isSlowStart \in BOOLEAN
    /\ lastCwndDoubleTime \in 0..now
    /\ velocity \in 0..Power2[VelocityBits] - 1
    /\ direction \in {"None", "Up", "Down"}
    /\ numTimesDirectionSame \in Nat
    /\ lastRecordedCwndBytes \in Nat
    /\ lastCwndRecordTime \in 0..now
    /\ recovering \in BOOLEAN
    /\ now \in 1..Horizon \cup {1}
    /\ lastCwndRecordTime = 0 => direction = "None"

(***************************************************************************)
(* Velocity and the count of RTTs in one direction stay in step, over the  *)
(* two places that reset them: 1 for the first three, then doubled for     *)
(* each, in the arithmetic of the width.                                   *)
(***************************************************************************)
VelocityCountsRtts ==
    velocity = IF numTimesDirectionSame < 3 THEN 1 ELSE Wrap(Power2[numTimesDirectionSame - 2])

(***************************************************************************)
(* Slow start doubles the window, and nothing else, at most once per RTT:  *)
(* however acknowledgements come, k doublings take more than k RTTs.       *)
(***************************************************************************)
SlowStartPace ==
    isSlowStart => \E k \in 0..now :
        /\ congestion_window = InitialPackets * MSS * Power2[k]
        /\ k * (MinRtt + 1) < now

(***************************************************************************)
(* The window is never moved against the recorded direction at a velocity  *)
(* above 1: what was gained for one direction is not spent in the other.   *)
(***************************************************************************)
NoFastStepBackwards ==
    [][velocity' > 1 =>
            /\ congestion_window' > congestion_window /\ ~isSlowStart => direction' = "Up"
            /\ congestion_window' < congestion_window => direction' = "Down"]_vars

(***************************************************************************)
(* The comments on the velocity: it is 1, doubles "every RTT", and "we     *)
(* should reset it to 1" on a change of direction; nowhere is it less.     *)
(***************************************************************************)
VelocityIsPositive == velocity >= 1
=============================================================================
