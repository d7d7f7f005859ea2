----------------------------- MODULE CdgSender -----------------------------
(***************************************************************************)
(* The CDG congestion controller (TcpCdgSenderBytes), the draft of a delay *)
(* gradient controller that is in the repository and not in its build: it  *)
(* names things that are not declared, and stops in the middle of an       *)
(* expression.  It is modelled as far as it is written; where a word is    *)
(* missing, as follows:                                                    *)
(*   - use_tolerance is g_use_tolerance, which is false and never set, so  *)
(*     that CDG_FULL and CDG_NONFULL do not occur;                         *)
(*   - use_shadow_ is the constant UseShadow;                              *)
(*   - "shadow_congestion_window_+" goes on with inc;                      *)
(*   - shadow_congestion_window_ and use_ineff_ are not initialised: they  *)
(*     start with any value of Shadows and Ineffective.                    *)
(*                                                                         *)
(* Once per round trip the smallest and the largest RTT are compared with  *)
(* those of the round before.  If the sum of the last kRttWin gradients is *)
(* positive the window is cut by 0.707, by chance; losses halve it.        *)
(***************************************************************************)
EXTENDS Integers, FiniteSets, SequencesExt

CONSTANTS
    MSS,            \* kDefaultTCPMSS, in the unit windows are counted in
    InitialPackets, \* initial_tcp_congestion_window
    MaxWindowPackets, \* max_congestion_window
    RttWin,         \* kRttWin
    UseShadow,      \* use_shadow_
    Shadows,        \* what shadow_congestion_window_ may start with
    Ineffective,    \* what use_ineff_ may start with
    Rtts,           \* RTTs in milliseconds
    MaxPackets,     \* bound: packets sent
    MaxInFlight     \* bound: packets in flight

\* What the constants are assumed to be.
CdgAssumption ==
    /\ {MSS, RttWin} \subseteq Nat \ {0}
    /\ InitialPackets \in Nat /\ InitialPackets >= 2
    /\ MaxWindowPackets \in Nat /\ MaxWindowPackets >= InitialPackets
    /\ UseShadow \in BOOLEAN
    /\ Shadows \cup Ineffective \cup Rtts \cup {MaxPackets, MaxInFlight} \subseteq Nat

VARIABLES
    sender,     \* the fields of TcpCdgSenderBytes
    in_flight,  \* packets sent, not acknowledged and not declared lost
    gradients,  \* history: every gradient so far, the oldest first
    backed_off  \* history: largest_sent_packet_number_ at the last backoff

vars == <<sender, in_flight, gradients, backed_off>>

Min2(a, b) == IF a < b THEN a ELSE b
Max2(a, b) == IF a > b THEN a ELSE b

\* struct minmax; v64 is zero when both are.
Zero == [min |-> 0, max |-> 0]

MinWindow == 2 * MSS
MaxBurst == 3 * MSS

\* Packet numbers start at 1; 0 is an uninitialized QuicPacketNumber.
Packets == 1..MaxPackets

Init ==
    /\ \E shadow \in Shadows, ineff \in Ineffective :
        sender = [congestion_window |-> InitialPackets * MSS,
                  slowstart_threshold |-> MaxWindowPackets * MSS,
                  num_acked_packets |-> 0,
                  largest_sent |-> 0,
                  largest_acked |-> 0,
                  largest_sent_at_last_cutback |-> 0,
                  current_round_trip_end |-> 0,
                  shadow_congestion_window |-> shadow,
                  cong_state |-> "Open",
                  cdg_state |-> "UNKNOWN",
                  use_ineff |-> ineff,
                  backoff_count |-> 0,
                  cdg_rtt |-> Zero,
                  cdg_rtt_prev |-> Zero,
                  cdg_gsum |-> Zero,
                  ring |-> [i \in 0..(RttWin - 1) |-> Zero],
                  gfilled |-> FALSE,
                  tail |-> 0]
    /\ in_flight = {}
    /\ gradients = << >>
    /\ backed_off = 0

InSlowStart(c) == c.congestion_window < c.slowstart_threshold

InRecovery(c) ==
    /\ c.largest_acked # 0
    /\ c.largest_sent_at_last_cutback # 0
    /\ c.largest_acked <= c.largest_sent_at_last_cutback

IsCwndLimited(c, bytes) ==
    \/ c.congestion_window <= bytes + MaxBurst
    \/ InSlowStart(c) /\ bytes > c.congestion_window \div 2

-----------------------------------------------------------------------------
(* The RTT of a round and its gradient.                                    *)

TakeSample(c, rtt) ==
    [c EXCEPT !.cdg_rtt = [min |-> IF @.min = 0 THEN rtt ELSE Min2(@.min, rtt),
                           max |-> Max2(@.max, rtt)]]

\* UpdateRoundTripCounter: what it changes; it answers whether it did.
UpdateRoundTripEnd(c, p) ==
    IF p > c.current_round_trip_end
    THEN [c EXCEPT !.current_round_trip_end = c.largest_sent]
    ELSE c

NextTail(tail) == (tail + 1) % RttWin

Minus(a, b) == [min |-> a.min - b.min, max |-> a.max - b.max]
Plus(a, b) == [min |-> a.min + b.min, max |-> a.max + b.max]

Gradient(c) == Minus(c.cdg_rtt, c.cdg_rtt_prev)

\* Mistake: the gradient that leaves the ring stays in the sum.
CalculateGrad_KeepsOldest(c) ==
    [c EXCEPT !.cdg_gsum = Plus(@, Gradient(c)),
              !.ring[c.tail] = Gradient(c),
              !.tail = NextTail(@),
              !.gfilled = @ \/ NextTail(c.tail) = 0]

\* CalculateGrad: the newest gradient takes the place of the oldest.  That the
\* backoff was effectual is decided on the new sum.
CalculateGrad(c) ==
    LET sum == Plus(c.cdg_gsum, Minus(Gradient(c), c.ring[c.tail]))
    IN  [c EXCEPT !.cdg_gsum = sum,
                  !.ring[c.tail] = Gradient(c),
                  !.tail = NextTail(@),
                  !.gfilled = @ \/ NextTail(c.tail) = 0,
                  !.backoff_count = IF sum.min <= 0 \/ sum.max <= 0 THEN 0 ELSE @]

\* What CalculateGrad answers, greater than 0.  The scaling of a ring that is
\* not full keeps the sign and is part of the chance of a backoff.
GradIsPositive(c) == IF c.cdg_gsum.min > 0 THEN TRUE ELSE c.cdg_gsum.max > 0

NextRound(c) == [c EXCEPT !.cdg_rtt_prev = c.cdg_rtt, !.cdg_rtt = Zero]

-----------------------------------------------------------------------------
(* The window.                                                             *)

\* The window CdgGetSlowThreshold answers, and the shadow window it sets.
CdgGetSlowThreshold(c) ==
    LET half == c.congestion_window \div 2
        shadow == Min2(c.congestion_window, c.shadow_congestion_window \div 2)
        floor == IF UseShadow THEN Max2(MinWindow, shadow) ELSE MinWindow
    IN  IF c.cdg_state = "BACKOFF"
        THEN [c EXCEPT !.congestion_window = (@ * 707) \div 1000]
        ELSE [c EXCEPT !.congestion_window = Max2(floor, half),
                       !.shadow_congestion_window = shadow]

Cutback(c) ==
    [c EXCEPT !.slowstart_threshold = c.congestion_window,
              !.largest_sent_at_last_cutback = c.largest_sent,
              !.num_acked_packets = 0]

\* Mistake: every lost packet cuts the window.
OnPacketLost_EachLossCuts(c, p) ==
    LET cut == CdgGetSlowThreshold(c)
    IN  Cutback([cut EXCEPT !.congestion_window = Max2(@, MinWindow),
                            !.cong_state = "Recovery"])

\* A packet that was sent before the last cut belongs to the same loss event.
OnPacketLost(c, p) ==
    LET cut == CdgGetSlowThreshold(c)
    IN  IF p <= c.largest_sent_at_last_cutback
        THEN c
        ELSE Cutback([cut EXCEPT !.congestion_window = Max2(@, MinWindow),
                                 !.cong_state = "Recovery"])

MaybeIncreaseCwnd(c, prior) ==
    LET grows == IsCwndLimited(c, prior) /\ c.congestion_window < MaxWindowPackets * MSS
        acks == c.num_acked_packets + 1
    IN  CASE grows /\ InSlowStart(c) ->
                [c EXCEPT !.congestion_window = @ + MSS]
          [] grows /\ ~InSlowStart(c) /\ acks >= c.congestion_window \div MSS ->
                [c EXCEPT !.congestion_window = @ + MSS, !.num_acked_packets = 0]
          [] grows /\ ~InSlowStart(c) /\ acks < c.congestion_window \div MSS ->
                [c EXCEPT !.num_acked_packets = acks]
          [] OTHER -> c

\* The first acknowledgement after a backoff starts a round.
EndOfBackoff(c) ==
    IF c.cong_state = "CWR"
    THEN NextRound([c EXCEPT !.cdg_state = "UNKNOWN",
                             !.current_round_trip_end = c.largest_sent])
    ELSE c

OnPacketAcked(c, p, prior) ==
    LET seen == [c EXCEPT !.largest_acked = Max2(@, p)]
    IN  IF InRecovery(seen)
        THEN seen
        ELSE MaybeIncreaseCwnd([EndOfBackoff(seen) EXCEPT !.cong_state = "Open"], prior)

\* Backoffs that did not help: after use_ineff_ of them the next is left out.
Ineffectual(c) == c.use_ineff > 0 /\ c.backoff_count >= c.use_ineff

\* CdgBackoff, after the key was drawn.  EnterCongestionWindowReduction has no
\* lower bound.
CdgBackoff(c) ==
    LET counted == [c EXCEPT !.backoff_count = IF c.use_ineff > 0 THEN @ + 1 ELSE @]
        entered == [counted EXCEPT !.shadow_congestion_window =
                                        Max2(@, c.congestion_window),
                                   !.cdg_state = "BACKOFF",
                                   !.cong_state = "CWR"]
    IN  IF Ineffectual(c) THEN counted ELSE Cutback(CdgGetSlowThreshold(entered))

-----------------------------------------------------------------------------
(* A congestion event.                                                     *)

\* The packets of an event are handled in the order of their numbers.
LoseAll(c, lost) ==
    LET after[p \in Nat] ==
            IF p = 0 THEN c
            ELSE IF p \in lost THEN OnPacketLost(after[p - 1], p)
            ELSE after[p - 1]
    IN  after[MaxPackets]

AckAll(c, acked, prior) ==
    LET after[p \in Nat] ==
            IF p = 0 THEN c
            ELSE IF p \in acked THEN OnPacketAcked(UpdateRoundTripEnd(after[p - 1], p), p, prior)
            ELSE after[p - 1]
    IN  after[MaxPackets]

\* round_start: what UpdateRoundTripCounter answers for the last packet.
RoundStart(c, acked, prior) ==
    /\ acked # {}
    /\ LET last == CHOOSE p \in acked : \A q \in acked : q <= p
            before == AckAll(c, acked \ {last}, prior)
       IN  last > before.current_round_trip_end

\* The shadow window grows as the window has.
GrowShadow(c, before) ==
    IF c.congestion_window > before
    THEN [c EXCEPT !.shadow_congestion_window = @ + c.congestion_window - before]
    ELSE c

\* The largest packet is newly acknowledged: its RTT is sampled, and hybrid slow
\* start may answer that slow start ends.
Sampled(c, updated, rtt) == IF updated THEN TakeSample(c, rtt) ELSE c

SlowStartExited(c, exits) ==
    IF exits THEN [c EXCEPT !.slowstart_threshold = c.congestion_window] ELSE c

\* What the start of a round does: it is measured when it has samples, compared
\* with the round before when that had some, and becomes the round before.
Measured(c, round_start) == round_start /\ c.cdg_rtt # Zero

Compared(c, round_start) == Measured(c, round_start) /\ c.cdg_rtt_prev # Zero

Graded(c, round_start) == IF Compared(c, round_start) THEN CalculateGrad(c) ELSE c

Slows(c, round_start) ==
    Compared(c, round_start) /\ GradIsPositive(Graded(c, round_start))

Turned(c, round_start) ==
    IF Measured(c, round_start) THEN NextRound(Graded(c, round_start)) ELSE c

\* OnCongestionEvent.  Losses are older than an acknowledged packet; the RTT is
\* measured on the largest packet when it is newly acknowledged; "exits" is
\* what hybrid slow start answers, "drawn" whether the random key is above the
\* limit.
OnCongestionEvent(acked, lost, rtt, exits, drawn) ==
    LET prior == Cardinality(in_flight) * MSS
        updated == \E p \in acked : p > sender.largest_acked
        exited == SlowStartExited(Sampled(sender, updated, rtt), exits)
        cut == LoseAll(exited, lost)
        grown == AckAll(cut, acked, prior)
        round_start == RoundStart(cut, acked, prior)
        next == Turned(grown, round_start)
        final == IF drawn THEN CdgBackoff(next) ELSE next
    IN  /\ acked \cup lost # {}
        /\ acked \cap lost = {}
        /\ \A p \in lost : p < sender.largest_acked \/ \E q \in acked : p < q
        /\ exits => updated /\ InSlowStart(sender)
        /\ drawn => Slows(grown, round_start)
        /\ sender' = GrowShadow(final, cut.congestion_window)
        /\ in_flight' = in_flight \ (acked \cup lost)
        /\ gradients' = IF Compared(grown, round_start)
                        THEN Append(gradients, Gradient(grown)) ELSE gradients
        /\ backed_off' = IF drawn /\ ~Ineffectual(next)
                         THEN sender.largest_sent ELSE backed_off

\* Out of recovery the window must have room; in recovery PrrSender decides,
\* which may let a packet pass at any time.
SendPacket ==
    LET p == sender.largest_sent + 1
    IN  /\ p \in Packets
        /\ Cardinality(in_flight) < MaxInFlight
        /\ InRecovery(sender) \/ Cardinality(in_flight) * MSS < sender.congestion_window
        /\ sender' = [sender EXCEPT !.largest_sent = p]
        /\ in_flight' = in_flight \cup {p}
        /\ UNCHANGED <<gradients, backed_off>>

OnRetransmissionTimeout(packets_retransmitted) ==
    LET cleared == [sender EXCEPT !.largest_sent_at_last_cutback = 0]
    IN  /\ in_flight # {}
        /\ sender' = IF packets_retransmitted
                     THEN [cleared EXCEPT !.slowstart_threshold = sender.congestion_window \div 2,
                                          !.congestion_window = MinWindow]
                     ELSE cleared
        /\ UNCHANGED <<in_flight, gradients, backed_off>>

Next ==
    \/ SendPacket
    \/ \E acked, lost \in SUBSET in_flight, rtt \in Rtts, exits, drawn \in BOOLEAN :
            OnCongestionEvent(acked, lost, rtt, exits, drawn)
    \/ \E b \in BOOLEAN : OnRetransmissionTimeout(b)

Spec == Init /\ [][Next]_vars

-----------------------------------------------------------------------------
TypeOK ==
    /\ {sender.congestion_window, sender.slowstart_threshold, sender.num_acked_packets,
        sender.shadow_congestion_window, sender.backoff_count} \subseteq Nat
    /\ sender.largest_sent \in 0..MaxPackets
    /\ {sender.largest_acked, sender.largest_sent_at_last_cutback,
        sender.current_round_trip_end, backed_off} \subseteq 0..sender.largest_sent
    /\ sender.cong_state \in {"Open", "CWR", "Recovery"}
    /\ sender.cdg_state \in {"UNKNOWN", "BACKOFF"}
    /\ {sender.cdg_rtt, sender.cdg_rtt_prev} \subseteq [min : Nat, max : Nat]
    /\ sender.cdg_gsum \in [min : Int, max : Int]
    /\ sender.tail \in 0..(RttWin - 1)
    /\ DOMAIN sender.ring = 0..(RttWin - 1)
    /\ in_flight \subseteq 1..sender.largest_sent

(***************************************************************************)
(* The running sum is the sum of the last kRttWin gradients, whatever was  *)
(* taken out of the ring, put in and skipped when a backoff ended, and     *)
(* gfilled_ is set from the round on in which the ring is full.            *)
(***************************************************************************)
SumIsOfTheLastRounds ==
    LET n == Len(gradients)
        last == SubSeq(gradients, Max2(1, n - RttWin + 1), n)
    IN  /\ sender.cdg_gsum = FoldLeft(Plus, Zero, last)
        /\ sender.gfilled <=> n >= RttWin

(***************************************************************************)
(* While packets sent before a cut are being acknowledged, cong_state_     *)
(* names the cut; that of a backoff comes with cdg_state_ BACKOFF, which   *)
(* chooses the factor.                                                     *)
(***************************************************************************)
RecoveryIsNamed ==
    /\ InRecovery(sender) => sender.cong_state \in {"CWR", "Recovery"}
    /\ sender.cong_state = "CWR" => sender.cdg_state = "BACKOFF"

(***************************************************************************)
(* One gradient cuts the window once: a packet sent after a backoff is     *)
(* acknowledged before the next one.                                       *)
(***************************************************************************)
BackoffOncePerRound ==
    [][backed_off' # backed_off => sender'.largest_acked > backed_off]_vars

(***************************************************************************)
(* The losses of an event cut the window once and its delay once more: it  *)
(* keeps 0.707 of its half at least, however many packets are lost.  (Only  *)
(* a timeout leaves the packets in flight as they are.)                    *)
(***************************************************************************)
CutIsBounded ==
    [][in_flight' # in_flight => sender'.congestion_window >=
        (Min2(sender.congestion_window,
              Max2(MinWindow, sender.congestion_window \div 2)) * 707) \div 1000]_vars
=============================================================================
