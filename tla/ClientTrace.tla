---------------------------- MODULE ClientTrace ----------------------------
(***************************************************************************)
(* The client's trace files.  QuicClientApp asks quiche for the congestion *)
(* window, the packets in flight and the bandwidth estimate when it sends  *)
(* a packet, and tells its trace what has changed since the packet before. *)
(* Ns3QuicClientTrace writes a line for each change, if the file is open.  *)
(*                                                                         *)
(* Of the values only equality matters, so that they are small numbers.    *)
(* A line carries the number of its packet for the time it carries in the  *)
(* code: packets of one instant are in the order of their lines.           *)
(***************************************************************************)
EXTENDS Integers, Sequences, SequencesExt

CONSTANTS
    Values,     \* values a sample can have, 0 among them
    MaxSent     \* bound: packets sent

\* What the constants are assumed to be.
ValuesAssumption == 0 \in Values /\ MaxSent \in Nat

Kinds == {"cwnd", "in_flight", "rate"}

VARIABLES
    open,       \* the kinds whose file is open
    callbacks,  \* the kinds the application has a callback for
    impl,       \* m_impl: "set", "closing" (null, being destroyed), "null"
    current,    \* what quiche would answer, of each kind
    last,       \* m_cwnd, m_inFlight, m_rate
    m_seq,      \* packets sent
    file,       \* the lines of each file
    samples     \* history: what quiche answered for each packet

trace == <<last, file, samples>>
vars == <<open, callbacks, impl, current, m_seq, trace>>

-----------------------------------------------------------------------------
\* The callbacks quic-main sets, for the flags it is given.  That of the
\* congestion window is never set.
Wired(flags) == flags \ {"cwnd"}

\* LogEnable opens the files of the flags.
Init ==
    /\ open \in SUBSET Kinds
    /\ callbacks = Wired(open)
    /\ impl = "set"
    /\ current = [k \in Kinds |-> 0]
    /\ last = [k \in Kinds |-> 0]
    /\ m_seq = 0
    /\ file = [k \in Kinds |-> << >>]
    /\ samples = << >>

\* An acknowledgement, a loss, or the packet sent before changes the answer to
\* a question that is asked.
Change(k, v) ==
    /\ impl = "set"
    /\ k \in callbacks
    /\ v # current[k]
    /\ current' = [current EXCEPT ![k] = v]
    /\ UNCHANGED <<open, callbacks, impl, m_seq, trace>>

\* GetCongestionWindowPackets, GetInFlightPackets, GetBandwidth.
Answer(k) == current[k]

\* OnCwnd, OnInFlight, OnSendRate.
Line(k) == IF k \in open THEN <<<<m_seq + 1, Answer(k)>>>> ELSE << >>

\* Mistake: only the largest value is remembered.
Remember_Largest(k) == IF Answer(k) > last[k] THEN Answer(k) ELSE last[k]

Remember(k) == Answer(k)

\* The callbacks of SendToNetwork: asked and told before the packet is sent,
\* and so before quiche counts it.
Sample ==
    LET told == {k \in callbacks : last[k] # Answer(k)}
    IN  /\ last' = [k \in Kinds |-> IF k \in told THEN Remember(k) ELSE last[k]]
        /\ file' = [k \in Kinds |-> IF k \in told THEN file[k] \o Line(k) ELSE file[k]]
        /\ samples' = Append(samples, current)

\* The client that is being destroyed sends its close with m_impl null: the
\* packet is sent and no value is asked for.
SendToNetwork ==
    /\ impl # "null"
    /\ m_seq < MaxSent
    /\ m_seq' = m_seq + 1
    /\ IF impl = "set" THEN Sample ELSE UNCHANGED trace
    /\ UNCHANGED <<open, callbacks, impl, current>>

\* StopApplication: m_impl is null before the destructor runs Disconnect.
StopApplication ==
    /\ impl = "set"
    /\ impl' = "closing"
    /\ UNCHANGED <<open, callbacks, current, m_seq, trace>>

Stopped ==
    /\ impl = "closing"
    /\ impl' = "null"
    /\ UNCHANGED <<open, callbacks, current, m_seq, trace>>

Next ==
    \/ \E k \in Kinds, v \in Values : Change(k, v)
    \/ SendToNetwork
    \/ StopApplication
    \/ Stopped

Spec == Init /\ [][Next]_vars

-----------------------------------------------------------------------------
TypeOK ==
    /\ callbacks \subseteq open
    /\ impl \in {"set", "closing", "null"}
    /\ current \in [Kinds -> Values]
    /\ last \in [Kinds -> Values]
    /\ m_seq \in 0..MaxSent
    /\ Len(samples) <= m_seq

\* The value a file shows for packet n: that of the last line up to it.
Shown(k, n) ==
    LET upto == {i \in DOMAIN file[k] : file[k][i][1] <= n}
    IN  IF upto = {} THEN 0 ELSE file[k][Max(upto)][2]

(***************************************************************************)
(* A file that is written only on a change loses nothing: with 0 before    *)
(* its first line it shows for every packet what quiche answered, and no   *)
(* line repeats the one before.  Only the packets of a client that is      *)
(* being destroyed are missing, at the end.                                *)
(***************************************************************************)
FileShowsSamples ==
    \A k \in callbacks :
        /\ impl = "set" => Len(samples) = m_seq
        /\ \A n \in DOMAIN samples : Shown(k, n) = samples[n][k]
        /\ \A i \in 2..Len(file[k]) : file[k][i][2] # file[k][i - 1][2]
=============================================================================
