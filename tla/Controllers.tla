---------------------------- MODULE Controllers ----------------------------
(***************************************************************************)
(* The three congestion controllers of the repository, checked on small    *)
(* instances.  Each flow has a controller of its own, and no two share     *)
(* state, so that nothing is lost by letting one of them move at a time:   *)
(* running is the controller of the flow that is looked at.                *)
(*                                                                         *)
(* Windows are counted in a divisor of the segment; the bounds are chosen  *)
(* as the README says.                                                     *)
(***************************************************************************)
EXTENDS Integers, FiniteSets

CONSTANTS          \* those of the three modules
    VegasMSS, VegasInitialPackets, VegasMaxWindowPackets, Window,
    VegasHorizon, VegasMaxPackets, VegasMaxInFlight,
    CopaMSS, CopaInitialPackets, VelocityBits, Second, MinRtt, MaxRtt,
    MaxAcked, WindowBound, CopaHorizon,
    CdgMSS, CdgInitialPackets, CdgMaxWindowPackets, RttWin, UseShadow, Shadows,
    Ineffective, CdgRtts, CdgMaxPackets, CdgMaxInFlight

VARIABLES
    running,
    vSender, vNow, vInFlight, vSentTime, vLatestRtt,
    pWindow, pSlowStart, pDoubled, pVelocity, pDirection, pSame, pRecordedCwnd,
    pRecordedTime, pRecovering, pNow,
    dSender, dInFlight, dGradients, dBackedOff

vegasVars == <<vSender, vNow, vInFlight, vSentTime, vLatestRtt>>
copaVars == <<pWindow, pSlowStart, pDoubled, pVelocity, pDirection, pSame, pRecordedCwnd,
              pRecordedTime, pRecovering, pNow>>
cdgVars == <<dSender, dInFlight, dGradients, dBackedOff>>
vars == <<running, vegasVars, copaVars, cdgVars>>

Vegas == INSTANCE VegasSender WITH
    MSS <- VegasMSS, InitialPackets <- VegasInitialPackets,
    MaxWindowPackets <- VegasMaxWindowPackets, Horizon <- VegasHorizon,
    MaxPackets <- VegasMaxPackets, MaxInFlight <- VegasMaxInFlight,
    sender <- vSender, now <- vNow, in_flight <- vInFlight, sent_time <- vSentTime,
    latest_rtt <- vLatestRtt

Copa == INSTANCE CopaSender WITH
    MSS <- CopaMSS, InitialPackets <- CopaInitialPackets, Horizon <- CopaHorizon,
    congestion_window <- pWindow, isSlowStart <- pSlowStart, lastCwndDoubleTime <- pDoubled,
    velocity <- pVelocity, direction <- pDirection, numTimesDirectionSame <- pSame,
    lastRecordedCwndBytes <- pRecordedCwnd, lastCwndRecordTime <- pRecordedTime,
    recovering <- pRecovering, now <- pNow

Cdg == INSTANCE CdgSender WITH
    MSS <- CdgMSS, InitialPackets <- CdgInitialPackets,
    MaxWindowPackets <- CdgMaxWindowPackets, Rtts <- CdgRtts,
    MaxPackets <- CdgMaxPackets, MaxInFlight <- CdgMaxInFlight,
    sender <- dSender, in_flight <- dInFlight, gradients <- dGradients,
    backed_off <- dBackedOff

ASSUME ControllersAssumption ==
    Vegas!VegasAssumption /\ Copa!CopaAssumption /\ Cdg!CdgAssumption

\* What CDG leaves uninitialized matters to CDG only.
Init ==
    /\ running \in {"vegas", "copa", "cdg"}
    /\ Vegas!Init
    /\ Copa!Init
    /\ Cdg!Init
    /\ running # "cdg" => dSender.shadow_congestion_window = 0 /\ dSender.use_ineff = 0

Next ==
    \/ running = "vegas" /\ Vegas!Next /\ UNCHANGED <<running, copaVars, cdgVars>>
    \/ running = "copa" /\ Copa!Next /\ UNCHANGED <<running, vegasVars, cdgVars>>
    \/ running = "cdg" /\ Cdg!Next /\ UNCHANGED <<running, vegasVars, copaVars>>

Spec == Init /\ [][Next]_vars

-----------------------------------------------------------------------------
\* In Vegas and Copa the window never falls below its minimum, by whatever
\* losses and decreases, so that the unsigned differences do not wrap.
TypeOK == Vegas!TypeOK /\ Copa!TypeOK /\ Cdg!TypeOK

(***************************************************************************)
(* What a controller remembers of the cut it recovers from is still true   *)
(* after an event that enters and leaves recovery at once: the mode of     *)
(* Vegas, and cong_state and cdg_state of CDG.                             *)
(***************************************************************************)
RecoveryIsNamed == Vegas!ModeFollowsRecovery /\ Cdg!RecoveryIsNamed

(***************************************************************************)
(* The losses of one event cut the window once, however many they are: by  *)
(* half in Vegas, by half and one backoff in CDG.  There a gradient cuts   *)
(* once as well: a packet sent after a backoff is acknowledged before the  *)
(* next one.                                                               *)
(***************************************************************************)
CutIsBounded ==
    Vegas!LossHalvesOnce /\ Cdg!CutIsBounded /\ Cdg!BackoffOncePerRound

(***************************************************************************)
(* Vegas never decides with the infinite RTT of an epoch without samples,  *)
(* also when one event acknowledges the end of an epoch and what follows.  *)
(***************************************************************************)
EpochHasSamples == Vegas!EpochHasSamples

(***************************************************************************)
(* The two CHECKs of Vegas hold until a sample can have left the filter of *)
(* minimum RTTs.                                                           *)
(***************************************************************************)
ChecksHoldInWindow == Vegas!ChecksHoldInWindow

(***************************************************************************)
(* Copa's velocity and its count of RTTs in one direction stay in step,    *)
(* over the two places that reset them.                                    *)
(***************************************************************************)
VelocityCountsRtts == Copa!VelocityCountsRtts

(***************************************************************************)
(* Copa's slow start doubles the window at most once per RTT, however      *)
(* acknowledgements come.                                                  *)
(***************************************************************************)
SlowStartPace == Copa!SlowStartPace

(***************************************************************************)
(* Copa never spends the velocity gained in one direction in the other.    *)
(***************************************************************************)
NoFastStepBackwards == Copa!NoFastStepBackwards

(***************************************************************************)
(* CDG's running sum is the sum of the last gradients, whatever its ring   *)
(* has wrapped over and a backoff has skipped.                             *)
(***************************************************************************)
SumIsOfTheLastRounds == Cdg!SumIsOfTheLastRounds
=============================================================================
