----------------------------- MODULE LossTrace -----------------------------
(***************************************************************************)
(* How the simulation counts lost packets.  A client application puts a    *)
(* sequence number on every packet it sends (Ns3QuicTag); the server's     *)
(* trace of that client (Ns3QuicServerTrace) sees the numbers that arrive  *)
(* and writes the lost packets and the largest number down when the server *)
(* application stops.                                                      *)
(*                                                                         *)
(* Between them the links drop packets, at a full queue or by the error    *)
(* model.  The shipped topologies have one path and keep the order; a      *)
(* topology with several paths would not.                                  *)
(***************************************************************************)
EXTENDS Integers, FiniteSets

CONSTANT MaxSeq     \* bound: packets the client sends

ASSUME TraceAssumption == MaxSeq \in Nat

VARIABLES
    fifo,           \* the network keeps the order of what it does not drop
    seq,            \* QuicClientApp::m_seq, the number of the next packet
    wire,           \* the packets on their way
    arrived,        \* history: the packets RecvPacket has read
    running,        \* QuicServerApp::m_running
    lastSeq,        \* Ns3QuicServerTrace::m_lastSeq
    largestSeq,     \* Ns3QuicServerTrace::m_largestSeq
    lostPackets,    \* Ns3QuicServerTrace::m_lostPackets
    logged          \* the line of the lost file: empty, or <<lost, largest>>

vars == <<fifo, seq, wire, arrived, running, lastSeq, largestSeq, lostPackets, logged>>

Init ==
    /\ fifo \in BOOLEAN
    /\ seq = 1
    /\ wire = {}
    /\ arrived = {}
    /\ running = TRUE
    /\ lastSeq = 0
    /\ largestSeq = 0
    /\ lostPackets = 0
    /\ logged = <<>>

SendToNetwork ==
    /\ seq <= MaxSeq
    /\ wire' = wire \cup {seq}
    /\ seq' = seq + 1
    /\ UNCHANGED <<fifo, arrived, running, lastSeq, largestSeq, lostPackets, logged>>

Drop(p) ==
    /\ p \in wire
    /\ wire' = wire \ {p}
    /\ UNCHANGED <<fifo, seq, arrived, running, lastSeq, largestSeq, lostPackets, logged>>

\* Mistakes: the numbers in between are counted with one end; a packet that
\* comes late is counted too.
OnOwd_CountsEnd(p) ==
    /\ lostPackets' = IF p > lastSeq - 1 THEN lostPackets + (p - lastSeq) ELSE lostPackets
    /\ lastSeq' = IF p > lastSeq THEN p ELSE lastSeq
    /\ largestSeq' = IF p > largestSeq THEN p ELSE largestSeq

OnOwd_NoGuard(p) ==
    /\ lostPackets' = lostPackets + (p - lastSeq - 1)
    /\ lastSeq' = IF p > lastSeq THEN p ELSE lastSeq
    /\ largestSeq' = IF p > largestSeq THEN p ELSE largestSeq

\* The trace counts the numbers skipped since the largest one so far.
OnOwd(p) ==
    /\ lostPackets' = IF p > lastSeq - 1 THEN lostPackets + (p - lastSeq - 1) ELSE lostPackets
    /\ lastSeq' = IF p > lastSeq THEN p ELSE lastSeq
    /\ largestSeq' = IF p > largestSeq THEN p ELSE largestSeq

\* A packet reaches the server, where n is read off it.  When the server has
\* stopped, it stays unread.
Receive(p, n) ==
    /\ p \in wire
    /\ fifo => \A q \in wire : p <= q
    /\ wire' = wire \ {p}
    /\ IF running
       THEN arrived' = arrived \cup {p} /\ OnOwd(n)
       ELSE UNCHANGED <<arrived, lastSeq, largestSeq, lostPackets>>
    /\ UNCHANGED <<fifo, seq, running, logged>>

RecvPacket(p) == Receive(p, p)

\* The trace is shut down, which writes its line, and the server stops.
StopApplication ==
    /\ running
    /\ running' = FALSE
    /\ logged' = <<lostPackets, largestSeq>>
    /\ UNCHANGED <<fifo, seq, wire, arrived, lastSeq, largestSeq, lostPackets>>

Next ==
    \/ SendToNetwork
    \/ \E p \in 1..MaxSeq : Drop(p) \/ RecvPacket(p)
    \/ StopApplication

Spec == Init /\ [][Next]_vars

-----------------------------------------------------------------------------
\* A number that is on its way was handed out before.
TypeOK ==
    /\ fifo \in BOOLEAN
    /\ seq \in 1..MaxSeq + 1
    /\ wire \subseteq 1..seq - 1
    /\ arrived \subseteq 1..seq - 1
    /\ running \in BOOLEAN
    /\ lastSeq \in 0..MaxSeq
    /\ largestSeq \in 0..MaxSeq
    /\ lostPackets \in Int
    /\ logged = <<>> \/ logged \in Int \X Int

\* The packets up to the largest number seen that have not been read.
Missing == 1..lastSeq \ arrived

(***************************************************************************)
(* On a path that keeps the order the count is exact: what the trace calls *)
(* lost is what was dropped before the last packet that arrived.           *)
(***************************************************************************)
LossIsExact ==
    fifo => /\ lostPackets = Cardinality(Missing)
            /\ Missing \cap wire = {}

(***************************************************************************)
(* On any path the trace never counts too few: a packet that arrives late  *)
(* is not taken back, so each of them is one too many and nothing else is. *)
(***************************************************************************)
LossIsNeverUnderstated == lostPackets >= Cardinality(Missing)

(***************************************************************************)
(* The loss ratio written at the end is a percentage, however packets were *)
(* dropped and reordered, and all numbers but the last were sent.          *)
(***************************************************************************)
RatioIsAPercentage ==
    logged # <<>> => 0 <= logged[1] /\ logged[1] <= logged[2] /\ logged[2] < seq
=============================================================================
