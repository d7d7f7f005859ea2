---------------------------- MODULE VegasSender ----------------------------
(***************************************************************************)
(* The Vegas congestion controller (VegasSender) driven by quiche's sent   *)
(* packet manager: packets are sent, acknowledged and declared lost, and   *)
(* every acknowledgement carries the round trip time of the newest packet  *)
(* it covers.                                                              *)
(*                                                                         *)
(* Once per window of data (an epoch, from beg_send_next_ to its           *)
(* acknowledgement) the controller compares the smallest RTT of the epoch  *)
(* with the smallest of the last 10 seconds and moves the window by one    *)
(* segment; after a loss it behaves as Reno until the packets sent before  *)
(* the loss are acknowledged.                                              *)
(***************************************************************************)
EXTENDS Integers, FiniteSets

CONSTANTS
    MSS,            \* kDefaultTCPMSS, in the unit windows are counted in
    InitialPackets, \* initial_tcp_congestion_window
    MaxWindowPackets, \* max_tcp_congestion_window
    Window,         \* kMinRTTWindowLength, in clock units
    Horizon,        \* bound: the last instant
    MaxPackets,     \* bound: packets sent
    MaxInFlight     \* bound: packets in flight

Infinite == 1000000     \* QuicTime::Delta::Infinite(): above every RTT

\* What the constants are assumed to be.
VegasAssumption ==
    /\ MSS \in Nat \ {0}
    /\ InitialPackets \in Nat /\ InitialPackets >= 4
    /\ MaxWindowPackets \in Nat /\ MaxWindowPackets >= InitialPackets
    /\ Window \in Nat
    /\ {MaxPackets, MaxInFlight} \subseteq Nat
    /\ Horizon \in Nat \ {0} /\ Horizon < Infinite

VARIABLES
    sender,         \* the fields of VegasSender
    now,            \* simulated time
    in_flight,      \* packets sent, not acknowledged and not declared lost
    sent_time,      \* sent_time[p]: when p was sent, 0 before
    latest_rtt      \* RttStats::latest_rtt()

vars == <<sender, now, in_flight, sent_time, latest_rtt>>

Min2(a, b) == IF a < b THEN a ELSE b
Max2(a, b) == IF a > b THEN a ELSE b

MinWindow == 4 * MSS
Alpha == 2 * MSS
Beta == 4 * MSS
Gamma == MSS

\* Packet numbers start at 1; 0 is an uninitialized QuicPacketNumber.
Packets == 1..MaxPackets

Init ==
    /\ sender = [congestion_window |-> InitialPackets * MSS,
                 slowstart_threshold |-> MaxWindowPackets * MSS,
                 num_acked_packets |-> 0,
                 largest_sent |-> 0,
                 largest_acked |-> 0,
                 largest_sent_at_last_cutback |-> 0,
                 beg_send_next |-> 0,
                 rtt_samples |-> {},
                 min_rtt |-> Infinite,
                 rtt_count |-> 0,
                 vegas_mode |-> TRUE,
                 failed_check |-> "none"]
    /\ now = 1
    /\ in_flight = {}
    /\ sent_time = [p \in Packets |-> 0]
    /\ latest_rtt = 0

InSlowStart(c) == c.congestion_window < c.slowstart_threshold

InRecovery(c) ==
    /\ c.largest_acked # 0
    /\ c.largest_sent_at_last_cutback # 0
    /\ c.largest_acked <= c.largest_sent_at_last_cutback

-----------------------------------------------------------------------------
(* The windowed minimum: the smallest sample not older than Window.  Only  *)
(* samples no later one undercuts are kept.                                *)

UpdateFilter(samples, t, rtt) ==
    {s \in samples : t - s.time <= Window /\ s.rtt < rtt} \cup {[time |-> t, rtt |-> rtt]}

GetBest(samples) ==
    CHOOSE r \in {s.rtt : s \in samples} : \A s \in samples : r <= s.rtt

-----------------------------------------------------------------------------
(* The controller.                                                         *)

OnPacketLost(c, p) ==
    LET halved == Max2(c.congestion_window \div 2, MinWindow)
    IN  IF p <= c.largest_sent_at_last_cutback
        THEN c
        ELSE [c EXCEPT !.congestion_window = halved,
                       !.slowstart_threshold = halved,
                       !.largest_sent_at_last_cutback = c.largest_sent,
                       !.num_acked_packets = 0]

IncreaseCongestionWindowAsReno(c) ==
    IF InSlowStart(c)
    THEN [c EXCEPT !.congestion_window = @ + MSS]
    ELSE IF (c.num_acked_packets + 1) * MSS >= c.congestion_window
    THEN [c EXCEPT !.congestion_window = @ + MSS, !.num_acked_packets = 0]
    ELSE [c EXCEPT !.num_acked_packets = @ + 1]

\* The decision at the end of an epoch with enough samples.
VegasDecision(c) ==
    LET base == GetBest(c.rtt_samples)
        cwnd == c.congestion_window
        rate == (cwnd * base) \div c.min_rtt
        target == ((rate + MSS - 1) \div MSS) * MSS
        diff == (cwnd * (c.min_rtt - base)) \div base
    IN  CASE c.min_rtt < base -> [c EXCEPT !.failed_check = "min_rtt"]
          [] c.min_rtt >= base /\ InSlowStart(c) /\ diff > Gamma ->
                [c EXCEPT !.congestion_window = Min2(cwnd, target),
                          !.slowstart_threshold = Min2(cwnd, target)]
          [] c.min_rtt >= base /\ InSlowStart(c) /\ diff <= Gamma ->
                [c EXCEPT !.congestion_window = cwnd + MSS]
          [] c.min_rtt >= base /\ ~InSlowStart(c) /\ diff > Beta /\ cwnd > MinWindow ->
                [c EXCEPT !.congestion_window = cwnd - MSS]
          [] c.min_rtt >= base /\ ~InSlowStart(c) /\ diff < Alpha ->
                [c EXCEPT !.congestion_window = cwnd + MSS]
          [] OTHER -> c

\* Mistake: the sample count is not reset.
StartEpoch_KeepsCount(c) ==
    [c EXCEPT !.beg_send_next = c.largest_sent, !.min_rtt = Infinite]

StartEpoch(c) ==
    [c EXCEPT !.beg_send_next = c.largest_sent, !.min_rtt = Infinite, !.rtt_count = 0]

EndEpoch(c) ==
    StartEpoch(IF c.rtt_count <= 2 THEN IncreaseCongestionWindowAsReno(c) ELSE VegasDecision(c))

\* An acknowledgement in Vegas mode, and the clamp it ends with.
VegasAck(c, p) ==
    LET stepped == CASE p >= c.beg_send_next -> EndEpoch(c)
                     [] p < c.beg_send_next /\ InSlowStart(c) ->
                            [c EXCEPT !.congestion_window = @ + MSS]
                     [] OTHER -> c
    IN  IF c.beg_send_next = 0
        THEN [c EXCEPT !.failed_check = "beg_send_next"]
        ELSE [stepped EXCEPT !.congestion_window = Max2(@, MinWindow)]

OnPacketAcked(c, p) ==
    LET seen == [c EXCEPT !.largest_acked = Max2(@, p)]
    IN  IF c.failed_check # "none"
        THEN c
        ELSE IF c.vegas_mode
        THEN VegasAck(seen, p)
        ELSE IncreaseCongestionWindowAsReno(seen)

\* Mistake: the epoch keeps the RTT without the microsecond.
TakeSample_RawRtt(c, rtt) ==
    [c EXCEPT !.rtt_samples = UpdateFilter(@, now, rtt + 1),
              !.min_rtt = Min2(@, rtt),
              !.rtt_count = @ + 1]

\* The RTT sample an event with acknowledgements brings, 1 us added to it.
TakeSample(c, rtt) ==
    [c EXCEPT !.rtt_samples = UpdateFilter(@, now, rtt + 1),
              !.min_rtt = Min2(@, rtt + 1),
              !.rtt_count = @ + 1]

\* Vegas is off in recovery; leaving it starts an epoch.
SwitchMode(before, after) ==
    CASE InRecovery(after) /\ ~InRecovery(before) -> [after EXCEPT !.vegas_mode = FALSE]
      [] ~InRecovery(after) /\ InRecovery(before) -> [StartEpoch(after) EXCEPT !.vegas_mode = TRUE]
      [] OTHER -> after

\* The packets of an event are handled in the order of their numbers.
LoseAll(c, lost) ==
    LET after[p \in Nat] ==
            IF p = 0 THEN c
            ELSE IF p \in lost THEN OnPacketLost(after[p - 1], p)
            ELSE after[p - 1]
    IN  after[MaxPackets]

AckAll(c, acked) ==
    LET after[p \in Nat] ==
            IF p = 0 THEN c
            ELSE IF p \in acked THEN OnPacketAcked(after[p - 1], p)
            ELSE after[p - 1]
    IN  after[MaxPackets]

\* Mistake: recovery is looked at after the losses have been handled.
CongestionEvent_LateLook(c, acked, lost, rtt) ==
    LET sampled == IF acked = {} THEN c ELSE TakeSample(c, rtt)
        cut == LoseAll(sampled, lost)
        grown == AckAll(cut, acked)
    IN  IF grown.failed_check # "none" THEN grown ELSE SwitchMode(cut, grown)

\* OnCongestionEvent: the sample, the losses, the acknowledgements, and the
\* change of mode when recovery was entered or left.
CongestionEvent(c, acked, lost, rtt) ==
    LET sampled == IF acked = {} THEN c ELSE TakeSample(c, rtt)
        cut == LoseAll(sampled, lost)
        grown == AckAll(cut, acked)
    IN  IF grown.failed_check # "none" THEN grown ELSE SwitchMode(c, grown)

-----------------------------------------------------------------------------
Working == sender.failed_check = "none"

\* quiche sends the next packet while the window has room (CanSend).
SendPacket ==
    LET p == sender.largest_sent + 1
    IN  /\ Working
        /\ p \in Packets
        /\ Cardinality(in_flight) < MaxInFlight
        /\ Cardinality(in_flight) * MSS < sender.congestion_window
        /\ sender' = [sender EXCEPT !.largest_sent = p,
                                    !.beg_send_next = IF @ = 0 THEN p ELSE @]
        /\ in_flight' = in_flight \cup {p}
        /\ sent_time' = [sent_time EXCEPT ![p] = now]
        /\ UNCHANGED <<now, latest_rtt>>

\* An acknowledgement frame arrives or the loss timer fires.  Only a packet
\* older than an acknowledged one is declared lost, and the RTT is measured on
\* the largest packet when it is newly acknowledged.
OnCongestionEvent(acked, lost) ==
    LET newest == CHOOSE p \in acked : \A q \in acked : q <= p
        rtt == IF acked # {} /\ newest > sender.largest_acked
               THEN now - sent_time[newest]
               ELSE latest_rtt
    IN  /\ Working
        /\ acked \cup lost # {}
        /\ acked \cap lost = {}
        /\ \A p \in acked : sent_time[p] < now
        /\ \A p \in lost : p < sender.largest_acked \/ \E q \in acked : p < q
        /\ latest_rtt' = rtt
        /\ sender' = CongestionEvent(sender, acked, lost, rtt)
        /\ in_flight' = in_flight \ (acked \cup lost)
        /\ UNCHANGED <<now, sent_time>>

Tick ==
    /\ Working
    /\ now < Horizon
    /\ now' = now + 1
    /\ UNCHANGED <<sender, in_flight, sent_time, latest_rtt>>

Next ==
    \/ SendPacket
    \/ \E acked, lost \in SUBSET in_flight : OnCongestionEvent(acked, lost)
    \/ Tick

Spec == Init /\ [][Next]_vars

-----------------------------------------------------------------------------
\* The window stays above "the smallest value the |congestion_window_| can
\* achieve": halving, rate matching and decrease all stop at four segments.
TypeOK ==
    /\ sender.congestion_window \in Nat
    /\ sender.congestion_window >= MinWindow
    /\ sender.slowstart_threshold \in Nat
    /\ sender.num_acked_packets \in Nat
    /\ sender.largest_sent \in 0..MaxPackets
    /\ sender.largest_acked \in 0..sender.largest_sent
    /\ sender.largest_sent_at_last_cutback \in 0..sender.largest_sent
    /\ sender.beg_send_next \in 0..sender.largest_sent
    /\ sender.rtt_samples \subseteq [time : 1..now, rtt : 1..Horizon]
    /\ sender.min_rtt \in 1..Horizon \cup {Infinite}
    /\ sender.rtt_count \in Nat
    /\ sender.vegas_mode \in BOOLEAN
    /\ now \in 1..Horizon
    /\ in_flight \subseteq 1..sender.largest_sent

(***************************************************************************)
(* Between events the controller is in Vegas mode exactly when it is not   *)
(* in recovery, although one event can bring losses and acknowledgements   *)
(* that enter and leave recovery at once.                                  *)
(***************************************************************************)
ModeFollowsRecovery == Working => sender.vegas_mode = ~InRecovery(sender)

(***************************************************************************)
(* The epoch's minimum is finite exactly when the epoch has samples, so    *)
(* the decision never computes a rate with an infinite RTT, also when one  *)
(* event acknowledges the end of an epoch and the packets of the next.     *)
(***************************************************************************)
EpochHasSamples == Working => (sender.rtt_count = 0 <=> sender.min_rtt = Infinite)

\* The window can shrink by more than a segment only by an event with losses
\* or by the rate matching that ends slow start.
LossEvent == sender'.largest_sent_at_last_cutback # sender.largest_sent_at_last_cutback

(***************************************************************************)
(* However many packets one event declares lost, and whatever it also      *)
(* acknowledges, the window is halved once: it keeps half, but for the one *)
(* segment an ending epoch may take, and never less than the minimum.      *)
(***************************************************************************)
LossHalvesOnce ==
    [][LossEvent => sender'.congestion_window >=
            Max2(MinWindow, sender.congestion_window \div 2 - MSS)]_vars

(***************************************************************************)
(* The two CHECKs, min_rtt_ >= base_rtt of the decision and that of        *)
(* beg_send_next_, hold until a sample can have left the filter (the first *)
(* is taken at 2): before, the windowed minimum is never above the epoch's.*)
(***************************************************************************)
ChecksHoldInWindow == now <= Window + 2 => Working
=============================================================================
