------------------------------ MODULE Topology ------------------------------
(***************************************************************************)
(* The networks of quic-main: what it builds for an instance, link by      *)
(* link, and the utilisation it writes at the end.                         *)
(*                                                                         *)
(* Queue sizes are computed in 32-bit unsigned numbers.  A bandwidth of k  *)
(* units of 10^6 bit/s times a delay is a multiple of 64, so that it is    *)
(* counted in 64ths here, modulo 2^26.                                     *)
(*                                                                         *)
(* Time is counted in half seconds from app_start, received bits in half   *)
(* units: a link of k units carries k of them in one step.                 *)
(***************************************************************************)
EXTENDS Integers, FiniteSets, FiniteSetsExt, Functions

CONSTANT Horizon    \* bound: half seconds

\* What the constant is assumed to be.
HorizonAssumption == Horizon \in Nat

VARIABLES
    instance,       \* the instance asked for; "p2p" is the other topology
    topology,       \* link -> nodes, bandwidth, propagation_ms, packets, once built
    credit,         \* what the bottleneck can still carry in this step
    now,
    m_readBytes,    \* of the trace dispatcher, in bits
    m_receiptTime,
    f_util          \* what is written to the file: <<bits received, channel_bit>>, or <<>>

vars == <<instance, topology, credit, now, m_readBytes, m_receiptTime, f_util>>

Instances == {"1", "2", "3", "4", "5", "6", "7", "8", "other", "p2p"}

-----------------------------------------------------------------------------
(* Building.                                                               *)

Nodes == << <<0, 2>>, <<2, 3>>, <<3, 1>>, <<2, 4>>, <<3, 5>> >>
Bottleneck == IF instance = "p2p" THEN 1 ELSE 2

Link(n, bandwidth, propagation_ms) ==
    [nodes |-> n, bandwidth |-> bandwidth, propagation_ms |-> propagation_ms]

\* topoinfo1 and topoinfo2.
DumbbellLinks ==
    LET second == instance \in {"5", "6", "7", "8"}
    IN  [l \in 1..5 |-> Link(Nodes[l],
            IF l # 2 THEN 100 ELSE IF second THEN 12 ELSE 10,
            IF second /\ l \in {1, 3} THEN 15 ELSE 10)]

Links == IF instance = "p2p" THEN <<Link(<<0, 1>>, 5, 100)>> ELSE DumbbellLinks

\* Mistake: the second path is taken not to use the bottleneck.
CalMaxRttInDumbbell_ShortPath(info) ==
    LET owd(l) == info[l].propagation_ms
    IN  Max({2 * (owd(1) + owd(3)), 2 * (owd(4) + owd(5))})

CalMaxRttInDumbbell(info) ==
    LET owd(l) == info[l].propagation_ms
    IN  Max({2 * (owd(1) + owd(2) + owd(3)), 2 * (owd(2) + owd(4) + owd(5))})

\* The buffer of an instance, in half round trips.
HalfRtts ==
    CASE instance = "p2p" -> 3
      [] instance \in {"1", "5"} -> 2
      [] instance \in {"2", "6"} -> 3
      [] instance \in {"3", "7", "other"} -> 4
      [] instance \in {"4", "8"} -> 6

buffer_ms ==
    IF instance = "p2p" THEN 300 ELSE (HalfRtts * CalMaxRttInDumbbell(Links)) \div 2

\* bps * buffer_ms / 8000 bytes, a packet at least, in packets.  BuildP2PTopo
\* computes it in 64 bits.
Packets(bandwidth) ==
    LET product == bandwidth * 15625 * buffer_ms
        kept == IF instance = "p2p" THEN product ELSE product % 67108864
    IN  Max({1500, kept \div 125}) \div 1500

\* The queue that holds them is the queue disc of the bottleneck, and the
\* device's queue elsewhere.
Build ==
    /\ topology = << >>
    /\ topology' = [l \in DOMAIN Links |->
            [nodes |-> Links[l].nodes,
             bandwidth |-> Links[l].bandwidth,
             propagation_ms |-> Links[l].propagation_ms,
             packets |-> Packets(Links[l].bandwidth)]]
    /\ credit' = Links[Bottleneck].bandwidth
    /\ UNCHANGED <<instance, now, m_readBytes, m_receiptTime, f_util>>

-----------------------------------------------------------------------------
(* Running.                                                                *)

Init ==
    /\ instance \in Instances
    /\ topology = << >>
    /\ credit = 0
    /\ now = 0
    /\ m_readBytes = 0
    /\ m_receiptTime = 0
    /\ f_util = << >>

Running == topology # << >> /\ now <= Horizon

Tick ==
    /\ Running
    /\ now' = now + 1
    /\ credit' = topology[Bottleneck].bandwidth
    /\ UNCHANGED <<instance, topology, m_readBytes, m_receiptTime, f_util>>

\* Packets that crossed the bottleneck in the step that ends now.
OnOwd(bits) ==
    /\ Running
    /\ bits <= credit /\ now > 0
    /\ credit' = credit - bits
    /\ m_readBytes' = m_readBytes + bits
    /\ m_receiptTime' = now
    /\ UNCHANGED <<instance, topology, now, f_util>>

\* Mistake: the second that has begun counts.
Channel_RoundsUp(duration) ==
    (IF instance = "p2p" THEN 5 ELSE 12) * 2 * ((duration + 1) \div 2)

\* What the channel is taken to have carried: whole seconds of bottleneck_bw,
\* which is that of topoinfo2 by then.
Channel(duration) ==
    (IF instance = "p2p" THEN 5 ELSE 12) * 2 * (duration \div 2)

\* CalculateUtil after Simulator::Run.
Finish ==
    /\ now > Horizon
    /\ f_util = << >>
    /\ m_receiptTime > 0
    /\ Channel(m_receiptTime) > 0
    /\ f_util' = <<m_readBytes, Channel(m_receiptTime)>>
    /\ UNCHANGED <<instance, topology, credit, now, m_readBytes, m_receiptTime>>

Next ==
    \/ Build
    \/ Tick
    \/ \E bits \in {1, credit} \ {0} : OnOwd(bits)
    \/ Finish

Spec == Init /\ [][Next]_vars

-----------------------------------------------------------------------------
\* No queue is longer than 2^32 / 8000 bytes, however fast the link: what does
\* not fit in 32 bits is lost.
TypeOK ==
    /\ instance \in Instances
    /\ now \in 0..Horizon + 1
    /\ credit \in Nat
    /\ m_readBytes \in Nat
    /\ m_receiptTime \in 0..now
    /\ \A l \in DOMAIN topology : topology[l].packets \in 1..357

Flows == IF instance = "p2p" THEN {<<0, 1>>} ELSE {<<0, 1>>, <<4, 5>>}

\* The links between two nodes: both ends are met once, a node between twice.
PathBetween(a, b) ==
    CHOOSE path \in SUBSET (DOMAIN topology) :
        \A n \in 0..5 :
            LET met == Cardinality({l \in path : n \in Range(topology[l].nodes)})
            IN  IF n \in {a, b} THEN met = 1 ELSE met \in {0, 2}

RttBetween(a, b) ==
    2 * MapThenSumSet(LAMBDA l : topology[l].propagation_ms, PathBetween(a, b))

(***************************************************************************)
(* The bottleneck's queue holds what the instance asks for, to the packet: *)
(* one, one and a half, two or three round trips of the longest path       *)
(* between a client and its server, at the bottleneck's own bandwidth.     *)
(* (The other links' queues do not: their product wraps.)  One link has a  *)
(* round trip and a half.                                                  *)
(***************************************************************************)
BottleneckHoldsItsRtts ==
    topology # << >> =>
        LET link == topology[Bottleneck]
            rtt == Max({RttBetween(f[1], f[2]) : f \in Flows})
            kbit == link.bandwidth * ((HalfRtts * rtt) \div 2)
        IN  /\ \A f \in Flows : Bottleneck \in PathBetween(f[1], f[2])
            /\ 12 * link.packets <= kbit
            /\ kbit < 12 * (link.packets + 1)

\* What the bottleneck could carry until the last receipt.
Capacity == topology[Bottleneck].bandwidth * m_receiptTime

(***************************************************************************)
(* The utilisation is of the link that was built, and never too low for    *)
(* the time cut off, except in the instances of topoinfo1: there the       *)
(* bandwidth of topoinfo2 is divided by.                                   *)
(***************************************************************************)
OnlyFirstTopologyIsUnderstated ==
    f_util # << >> /\ f_util[2] > Capacity => instance \in {"1", "2", "3", "4", "other"}

(***************************************************************************)
(* It is too high by what the link carries in less than a second at most.  *)
(***************************************************************************)
OvershootIsBelowASecond ==
    f_util # << >> => f_util[1] < f_util[2] + 2 * topology[Bottleneck].bandwidth
=============================================================================
