-------------------------- MODULE BandwidthStream --------------------------
(***************************************************************************)
(* The bulk transfer of the bandwidth backend: a BandwidthWriteChannel     *)
(* fills a unidirectional Ns3TransportStream, a BandwidthReadChannel       *)
(* empties it at the server.                                               *)
(*                                                                         *)
(* The writer is called from two sides: by its own alarm, every 50 ms, and *)
(* by quiche, when a stream that was blocked can write again.  Either call *)
(* writes up to kWritePackets chunks and stops at the first one the stream *)
(* does not take.  quiche takes a chunk whole while little is buffered,    *)
(* sends what the congestion and flow control windows allow, and resends   *)
(* what is lost; chunks arrive in any order and are read in order.         *)
(*                                                                         *)
(* A chunk is one Write of 1500 bytes.  When exactly the alarm fires is    *)
(* the business of AlarmEngine; here it fires at some time while it is set.*)
(***************************************************************************)
EXTENDS Integers, FiniteSets

CONSTANTS
    kWritePackets,  \* chunks a call of WriteData tries to write
    Threshold,      \* buffered_data_threshold_, in chunks rounded up
    CongestionWindow, \* chunks the connection keeps in flight
    FlowWindow,     \* chunks the receiver grants beyond what was read
    MaxChunks       \* bound: chunks written

ASSUME StreamAssumption ==
    /\ kWritePackets \in Nat \ {0}
    /\ Threshold \in Nat \ {0}
    /\ CongestionWindow \in Nat \ {0}
    /\ FlowWindow \in Nat \ {0}
    /\ MaxChunks \in Nat

VARIABLES
    stream,         \* "none", "open", "closed" (write_side_closed) or "destroyed"
    armed,          \* alarm_ is set
    write_bytes,    \* write_bytes_, in chunks
    buffered,       \* chunks in the stream's send buffer, not sent yet
    sent,           \* chunks sent at least once: 1..sent
    acked,          \* those of them acknowledged
    granted,        \* the flow control limit the sender knows
    arrived,        \* chunks that have reached the server
    read_bytes      \* read_bytes_, in chunks

sending == <<write_bytes, buffered, sent>>
network == <<acked, granted>>
reading == <<arrived, read_bytes>>
vars == <<stream, armed, sending, network, reading>>

Init ==
    /\ stream = "none"
    /\ armed = FALSE
    /\ write_bytes = 0
    /\ buffered = 0
    /\ sent = 0
    /\ acked = {}
    /\ granted = FlowWindow
    /\ arrived = {}
    /\ read_bytes = 0

Min2(a, b) == IF a < b THEN a ELSE b

\* Chunks the connection would take now.
Credit == Min2(granted - sent, CongestionWindow - (sent - Cardinality(acked)))

-----------------------------------------------------------------------------
(* Writing.  flushed chunks have left the send buffer just before.         *)

\* Mistake: Write takes a chunk whatever is buffered.
WriteData_NoThreshold(flushed) ==
    LET empty == buffered = flushed
        tries == Min2(kWritePackets, MaxChunks - write_bytes)
        direct == IF empty THEN Min2(tries, Credit - flushed) ELSE 0
    IN  /\ write_bytes' = write_bytes + tries
        /\ sent' = sent + flushed + direct
        /\ buffered' = buffered - flushed + (tries - direct)

\* The loop over Write(kContent, 1500, false).  A stream with nothing buffered
\* sends a chunk at once as long as the connection takes it; the others are
\* buffered while less than the threshold is.
WriteData(flushed) ==
    LET empty == buffered = flushed
        tries == Min2(kWritePackets, MaxChunks - write_bytes)
        direct == IF empty THEN Min2(tries, Credit - flushed) ELSE 0
        stored == Min2(tries - direct, Threshold - (buffered - flushed))
    IN  /\ write_bytes' = write_bytes + direct + stored
        /\ sent' = sent + flushed + direct
        /\ buffered' = buffered - flushed + stored

\* OnSessionReady: the stream is opened and StartFillData writes, then sets
\* the alarm.
StartFillData ==
    /\ stream = "none"
    /\ stream' = "open"
    /\ WriteData(0)
    /\ armed' = TRUE
    /\ UNCHANGED <<network, reading>>

\* Mistake: the alarm is not set again.
OnTimeout_Once ==
    /\ armed
    /\ IF stream = "open" THEN WriteData(0) ELSE UNCHANGED sending
    /\ armed' = FALSE
    /\ UNCHANGED <<stream, network, reading>>

\* The alarm fires.  A closed stream takes nothing, and the alarm is set again
\* all the same.
OnTimeout ==
    /\ armed
    /\ IF stream = "open" THEN WriteData(0) ELSE UNCHANGED sending
    /\ armed' = TRUE
    /\ UNCHANGED <<stream, network, reading>>

\* The connection can send what is buffered; a stream that is left with less
\* than the threshold asks its channel for more.
OnCanWrite ==
    LET flushed == Min2(buffered, Credit)
    IN  /\ stream = "open"
        /\ flushed > 0
        /\ WriteData(flushed)
        /\ UNCHANGED <<stream, armed, network, reading>>

-----------------------------------------------------------------------------
(* The network and the server.                                             *)

\* Mistake: one chunk is read, however many can be.
Read_One(a) == IF read_bytes + 1 \in a THEN read_bytes + 1 ELSE read_bytes

\* OnDataAvailable, OnCanRead, Read: everything that has arrived in order.
Read(a) ==
    CHOOSE n \in read_bytes..sent :
        /\ \A c \in read_bytes + 1..n : c \in a
        /\ n + 1 \notin a

\* A copy of a chunk that has not arrived before arrives.
Deliver(c) ==
    /\ c \in 1..sent \ arrived
    /\ arrived' = arrived \cup {c}
    /\ read_bytes' = Read(arrived')
    /\ UNCHANGED <<stream, armed, sending, network>>

Acknowledge(c) ==
    /\ c \in arrived \ acked
    /\ acked' = acked \cup {c}
    /\ UNCHANGED <<stream, armed, sending, granted, reading>>

\* The receiver's latest grant arrives.
WindowUpdate ==
    /\ granted < read_bytes + FlowWindow
    /\ granted' = read_bytes + FlowWindow
    /\ UNCHANGED <<stream, armed, sending, acked, reading>>

\* The connection closes: the stream's write side closes with it.
CloseConnection ==
    /\ stream = "open"
    /\ stream' = "closed"
    /\ UNCHANGED <<armed, sending, network, reading>>

\* The session is destroyed: the channel's OnDestroy cancels the alarm.
StreamDestroyed ==
    /\ stream \in {"open", "closed"}
    /\ stream' = "destroyed"
    /\ armed' = FALSE
    /\ UNCHANGED <<sending, network, reading>>

Next ==
    \/ StartFillData
    \/ OnTimeout
    \/ OnCanWrite
    \/ \E c \in 1..MaxChunks : Deliver(c) \/ Acknowledge(c)
    \/ WindowUpdate
    \/ CloseConnection
    \/ StreamDestroyed

Spec == Init /\ [][Next]_vars

(***************************************************************************)
(* Fairness: a set alarm fires (SetAlarmIsAnswered of AlarmEngineLive);    *)
(* quiche calls a stream that is not blocked any more, resends a chunk     *)
(* until it has arrived and is acknowledged, and grants what was read.     *)
(* Nothing is assumed of the moment the stream starts or closes.           *)
(***************************************************************************)
LiveSpec ==
    /\ Spec
    /\ WF_vars(OnTimeout)
    /\ WF_vars(OnCanWrite)
    /\ \A c \in 1..MaxChunks : WF_vars(Deliver(c)) /\ WF_vars(Acknowledge(c))
    /\ WF_vars(WindowUpdate)

-----------------------------------------------------------------------------
TypeOK ==
    /\ stream \in {"none", "open", "closed", "destroyed"}
    /\ armed \in BOOLEAN
    /\ write_bytes \in 0..MaxChunks
    /\ buffered \in 0..MaxChunks
    /\ sent \in 0..MaxChunks
    /\ acked \subseteq arrived
    /\ granted \in Nat
    /\ arrived \subseteq 1..sent
    /\ read_bytes \in 0..sent

(***************************************************************************)
(* The alarm and quiche both call the writer, and together they never push *)
(* the stream's buffer above its threshold.  What they count is what the   *)
(* stream has taken: every chunk of write_bytes_ is sent or buffered.      *)
(***************************************************************************)
BufferIsBounded == buffered <= Threshold /\ write_bytes = sent + buffered

(***************************************************************************)
(* The channel never goes to sleep for good: from StartFillData until the  *)
(* stream is destroyed its alarm is set, on a closed stream too.           *)
(***************************************************************************)
WriterStaysArmed == armed <=> stream \in {"open", "closed"}

(***************************************************************************)
(* No stall: while the stream is open the writer always gets to write      *)
(* again, also from a state in which nothing is buffered and quiche has no *)
(* reason to call it.                                                      *)
(***************************************************************************)
NeverStalls ==
    \A n \in 0..MaxChunks - 1 :
        stream = "open" /\ write_bytes = n ~> write_bytes > n \/ stream # "open"

\* The stream as its two channels see it.  No FIN is ever written to it.
Bytes == INSTANCE ByteStream WITH
    MaxWritten <- MaxChunks, written <- write_bytes, fin <- FALSE,
    aborted <- stream \in {"closed", "destroyed"}, read <- read_bytes, eof <- FALSE

(***************************************************************************)
(* The transfer is a byte stream: two callers of one writer, a buffer, two *)
(* windows, loss and reordering in between, and still nothing is read that *)
(* was not taken, nothing twice, nothing is written once the connection is *)
(* closed, and all that was taken is read as long as it is not.            *)
(***************************************************************************)
CarriesBytes == Bytes!LiveSpec
=============================================================================
