--------------------------- MODULE Streams_proofs ---------------------------
(***************************************************************************)
(* The two transfers over a stream.  The bulk transfer, for any threshold, *)
(* windows and number of chunks: the send buffer is bounded whoever calls  *)
(* the writer, the alarm stays set, the reader has the longest beginning   *)
(* that has arrived, and every step is one of the byte stream's or none.   *)
(* The hello exchange, for a message of any number of pieces: both of its  *)
(* directions are byte streams as well.                                    *)
(***************************************************************************)
EXTENDS BandwidthStream, Recursion

USE StreamAssumption

\* The sender keeps to both windows, so that Credit is never negative.
WindowsAreKept ==
    /\ sent <= granted
    /\ sent <= CongestionWindow + Cardinality(acked)

\* The reader has read all that it can: the beginning that has arrived.
ReadsTheBeginning ==
    /\ 1..read_bytes \subseteq arrived
    /\ read_bytes + 1 \notin arrived

IInv ==
    /\ TypeOK
    /\ BufferIsBounded
    /\ WriterStaysArmed
    /\ WindowsAreKept
    /\ ReadsTheBeginning

-----------------------------------------------------------------------------
(* The operators.                                                          *)

LEMMA CreditIsNatural ==
    ASSUME TypeOK, WindowsAreKept
    PROVE  /\ IsFiniteSet(acked)
           /\ Cardinality(acked) \in Nat
           /\ Credit \in Nat
           /\ Credit <= granted - sent
           /\ Credit <= CongestionWindow + Cardinality(acked) - sent
<1>1. acked \in SUBSET (1..sent) /\ sent \in Int
      BY DEF TypeOK
<1>2. IsFiniteSet(acked)
  <2>1. IsFiniteSet(1..sent)
        BY <1>1, FS_Interval
  <2> QED BY <1>1, <2>1, FS_Subset
<1>3. Cardinality(acked) \in Nat
      BY <1>2, FS_CardinalityType
<1>4. granted \in Nat /\ sent \in Nat /\ CongestionWindow \in Nat
      BY DEF TypeOK
<1> DEFINE n == Cardinality(acked)
<1>5. n \in Nat /\ sent <= granted /\ sent <= CongestionWindow + n
      BY <1>3 DEF WindowsAreKept
<1>6. Credit = Min2(granted - sent, CongestionWindow - (sent - n))
      BY DEF Credit
<1> HIDE DEF n
<1>7. /\ Credit \in Nat
      /\ Credit <= granted - sent
      /\ Credit <= CongestionWindow + n - sent
      BY <1>4, <1>5, <1>6 DEF Min2
<1> QED BY <1>2, <1>3, <1>7 DEF n

\* One call of the writer: it takes chunks, sends no more than it may, and leaves
\* the buffer within its threshold.
LEMMA WriteDataFacts ==
    ASSUME TypeOK, BufferIsBounded, WindowsAreKept,
           NEW flushed \in Nat, flushed <= buffered, flushed <= Credit,
           WriteData(flushed)
    PROVE  /\ write_bytes' \in write_bytes..MaxChunks
           /\ sent' \in sent..sent + Credit
           /\ buffered' \in 0..Threshold
           /\ sent' + buffered' = write_bytes'
<1> DEFINE empty == buffered = flushed
           tries == Min2(kWritePackets, MaxChunks - write_bytes)
           direct == IF empty THEN Min2(tries, Credit - flushed) ELSE 0
           stored == Min2(tries - direct, Threshold - (buffered - flushed))
<1>1. Credit \in Nat
      BY CreditIsNatural
<1>2. tries \in Nat /\ tries <= MaxChunks - write_bytes
      BY DEF TypeOK, Min2
<1>3. /\ direct \in Nat
      /\ direct <= tries
      /\ direct <= Credit - flushed \/ direct = 0
      BY <1>1, <1>2 DEF Min2
<1>4. direct \in Nat /\ direct <= tries /\ direct + flushed <= Credit
      BY <1>1, <1>2, <1>3
<1>5. /\ stored \in Nat
      /\ stored <= tries - direct
      /\ stored <= Threshold - (buffered - flushed)
      BY <1>2, <1>4 DEF TypeOK, BufferIsBounded, Min2
<1>6. /\ write_bytes' = write_bytes + direct + stored
      /\ sent' = sent + flushed + direct
      /\ buffered' = buffered - flushed + stored
      BY DEF WriteData
<1> HIDE DEF tries, direct, stored
<1> QED BY <1>1, <1>2, <1>4, <1>5, <1>6 DEF TypeOK, BufferIsBounded

\* What Read returns: the end of the longest beginning that has arrived.
LEMMA ReadFacts ==
    ASSUME NEW a, a \subseteq 1..sent, sent \in Nat, read_bytes \in 0..sent
    PROVE  /\ Read(a) \in read_bytes..sent
           /\ \A c \in read_bytes + 1..Read(a) : c \in a
           /\ Read(a) + 1 \notin a
<1> DEFINE Gaps == {n \in read_bytes..sent : n + 1 \notin a}
<1>1. Gaps \subseteq Nat /\ sent \in Gaps
      OBVIOUS
<1>2. PICK n \in Gaps : \A k \in Gaps : n <= k
      BY <1>1, LeastNatural
<1>3. \A c \in read_bytes + 1..n : c \in a
  <2>1. SUFFICES ASSUME NEW c \in read_bytes + 1..n, c \notin a
                 PROVE  FALSE
        OBVIOUS
  <2>2. c - 1 \in Gaps
        BY <1>2, <2>1
  <2> QED BY <1>2, <2>2
<1>4. \E k \in read_bytes..sent : /\ \A c \in read_bytes + 1..k : c \in a
                                  /\ k + 1 \notin a
      BY <1>2, <1>3
<1> QED BY <1>4 DEF Read

-----------------------------------------------------------------------------
(* The invariant.                                                          *)

\* Whoever calls it, the writer leaves what it does not touch alone and keeps
\* the windows and the bound.
LEMMA WriterKeepsInvariant ==
    ASSUME IInv, NEW flushed \in Nat, flushed <= buffered, flushed <= Credit,
           WriteData(flushed), UNCHANGED <<network, reading>>,
           stream' = "open", armed' = TRUE
    PROVE  IInv'
<1>1. /\ write_bytes' \in write_bytes..MaxChunks
      /\ sent' \in sent..sent + Credit
      /\ buffered' \in 0..Threshold
      /\ sent' + buffered' = write_bytes'
      BY WriteDataFacts DEF IInv
<1>2. /\ Credit \in Nat
      /\ Credit <= granted - sent
      /\ Cardinality(acked) \in Nat
      /\ Credit <= CongestionWindow + Cardinality(acked) - sent
      BY CreditIsNatural DEF IInv
<1>3. UNCHANGED <<acked, granted, arrived, read_bytes>>
      BY DEF network, reading
<1>4. /\ sent' \in 0..MaxChunks
      /\ sent <= sent'
      /\ buffered' \in 0..MaxChunks
      /\ write_bytes' \in 0..MaxChunks
  <2>1. sent \in Nat /\ write_bytes \in Nat /\ Threshold \in Nat /\ MaxChunks \in Nat
        BY DEF IInv, TypeOK
  <2>2. write_bytes' \in write_bytes..MaxChunks
        BY <1>1
  <2>3. write_bytes' \in 0..MaxChunks
        BY <2>1, <2>2
  <2>4. sent' \in Nat /\ sent <= sent'
        BY <1>1, <1>2, <2>1
  <2>5. buffered' \in Nat
        BY <1>1, <2>1
  <2>6. sent' + buffered' = write_bytes'
        BY <1>1
  <2>7. sent' <= write_bytes' /\ buffered' <= write_bytes'
        BY <2>4, <2>5, <2>6
  <2>8. write_bytes' \in Nat /\ write_bytes' <= MaxChunks
        BY <2>1, <2>3
  <2>9. sent' <= MaxChunks /\ buffered' <= MaxChunks
        BY <2>1, <2>4, <2>5, <2>7, <2>8
  <2> QED BY <2>1, <2>3, <2>4, <2>5, <2>9
<1>5. TypeOK'
  <2>1. sent \in Nat /\ sent' \in Nat /\ arrived \subseteq 1..sent /\ read_bytes \in 0..sent
        BY <1>4 DEF IInv, TypeOK
  <2>2. arrived \subseteq 1..sent' /\ read_bytes \in 0..sent'
        BY <1>4, <2>1
  <2> QED BY <1>3, <1>4, <2>2 DEF IInv, TypeOK
<1>6. BufferIsBounded'
  <2>1. buffered' <= Threshold
        BY <1>1
  <2>2. write_bytes' = sent' + buffered'
        BY <1>1, Zenon
  <2> QED BY <2>1, <2>2 DEF BufferIsBounded
<1>7. WriterStaysArmed'
      BY DEF WriterStaysArmed
<1>8. WindowsAreKept'
  <2>1. sent' <= granted /\ sent' <= CongestionWindow + Cardinality(acked)
        BY <1>1, <1>2, <1>4 DEF IInv, TypeOK
  <2> QED BY <2>1, <1>3 DEF WindowsAreKept
<1>9. ReadsTheBeginning'
      BY <1>3 DEF IInv, ReadsTheBeginning
<1> QED BY <1>5, <1>6, <1>7, <1>8, <1>9 DEF IInv

LEMMA FlushedFacts ==
    ASSUME IInv
    PROVE  /\ 0 <= buffered /\ 0 <= Credit
           /\ LET flushed == Min2(buffered, Credit)
              IN  flushed \in Nat /\ flushed <= buffered /\ flushed <= Credit
<1>1. buffered \in Nat /\ Credit \in Nat
      BY CreditIsNatural DEF IInv, TypeOK
<1> QED BY <1>1 DEF Min2

\* A chunk arrives: the beginning that can be read does not get shorter, and the
\* next chunk is missing again.
LEMMA DeliverKeepsInvariant ==
    ASSUME IInv, NEW c \in 1..MaxChunks, Deliver(c)
    PROVE  IInv'
<1>1. /\ c \in 1..sent
      /\ arrived' = arrived \cup {c}
      /\ read_bytes' = Read(arrived')
      /\ UNCHANGED <<stream, armed, write_bytes, buffered, sent, acked, granted>>
      BY DEF Deliver, sending, network
<1>2. arrived' \subseteq 1..sent /\ sent \in Nat /\ read_bytes \in 0..sent
      BY <1>1 DEF IInv, TypeOK
<1>3. /\ Read(arrived') \in read_bytes..sent
      /\ \A k \in read_bytes + 1..Read(arrived') : k \in arrived'
      /\ Read(arrived') + 1 \notin arrived'
      BY <1>2, ReadFacts
<1>4. TypeOK'
      BY <1>1, <1>2, <1>3 DEF IInv, TypeOK
<1>5. BufferIsBounded' /\ WriterStaysArmed' /\ WindowsAreKept'
      BY <1>1 DEF IInv, BufferIsBounded, WriterStaysArmed, WindowsAreKept
<1>6. 1..read_bytes \subseteq arrived'
      BY <1>1 DEF IInv, ReadsTheBeginning
<1>7. ReadsTheBeginning'
      BY <1>1, <1>2, <1>3, <1>6 DEF ReadsTheBeginning
<1> QED BY <1>4, <1>5, <1>7 DEF IInv

\* An acknowledgement makes room in the congestion window.
LEMMA AcknowledgeKeepsInvariant ==
    ASSUME IInv, NEW c \in 1..MaxChunks, Acknowledge(c)
    PROVE  IInv'
<1>1. /\ c \in arrived
      /\ acked' = acked \cup {c}
      /\ UNCHANGED <<stream, armed, write_bytes, buffered, sent, granted, arrived, read_bytes>>
      BY DEF Acknowledge, sending, reading
<1>2. IsFiniteSet(acked) /\ Cardinality(acked) \in Nat
      BY CreditIsNatural DEF IInv
<1>3. Cardinality(acked') \in {Cardinality(acked), Cardinality(acked) + 1}
      BY <1>1, <1>2, FS_AddElement
<1>4. TypeOK'
      BY <1>1 DEF IInv, TypeOK
<1>5. sent \in Nat /\ CongestionWindow \in Nat /\ sent <= CongestionWindow + Cardinality(acked)
      BY DEF IInv, TypeOK, WindowsAreKept
<1>6. sent <= CongestionWindow + Cardinality(acked')
      BY <1>2, <1>3, <1>5
<1>7. WindowsAreKept'
      BY <1>1, <1>6 DEF IInv, WindowsAreKept
<1>8. BufferIsBounded' /\ WriterStaysArmed' /\ ReadsTheBeginning'
      BY <1>1 DEF IInv, BufferIsBounded, WriterStaysArmed, ReadsTheBeginning
<1> QED BY <1>4, <1>7, <1>8 DEF IInv

\* The inductive invariant of the bandwidth stream: Write keeps the buffer at its
\* threshold and its alarm set, and OnDataAvailable has read what has arrived.
THEOREM Invariant == Spec => []IInv
<1>1. Init => IInv
  <2> SUFFICES ASSUME Init
               PROVE  IInv
      OBVIOUS
  <2> USE DEF Init
  <2>1. TypeOK
    <3>1. armed \in BOOLEAN
          OBVIOUS
    <3>2. granted \in Nat
          OBVIOUS
    <3> QED BY <3>1, <3>2 DEF TypeOK
  <2>2. BufferIsBounded /\ WriterStaysArmed
        BY DEF BufferIsBounded, WriterStaysArmed
  <2>3. WindowsAreKept
    <3>1. Cardinality(acked) = 0
          BY FS_EmptySet
    <3> QED BY <3>1 DEF WindowsAreKept
  <2>4. ReadsTheBeginning
        BY DEF ReadsTheBeginning
  <2> QED BY <2>1, <2>2, <2>3, <2>4 DEF IInv
<1>2. IInv /\ [Next]_vars => IInv'
  <2> SUFFICES ASSUME IInv, [Next]_vars
               PROVE  IInv'
      OBVIOUS
  <2>1. 0 \in Nat /\ 0 <= buffered /\ 0 <= Credit
        BY FlushedFacts
  <2>2. CASE StartFillData
        BY <2>1, <2>2, WriterKeepsInvariant DEF StartFillData
  <2>3. CASE OnTimeout /\ stream = "open"
        BY <2>1, <2>3, WriterKeepsInvariant DEF OnTimeout
  <2>4. CASE OnTimeout /\ stream # "open"
        BY <2>4 DEF OnTimeout, IInv, TypeOK, BufferIsBounded, WriterStaysArmed,
                    WindowsAreKept, ReadsTheBeginning, sending, network, reading
  <2>5. CASE OnCanWrite
    <3>1. PICK flushed \in Nat :
              flushed <= buffered /\ flushed <= Credit /\ WriteData(flushed)
          BY <2>5, FlushedFacts DEF OnCanWrite
    <3>2. stream' = "open" /\ armed' = TRUE /\ UNCHANGED <<network, reading>>
          BY <2>5 DEF OnCanWrite, IInv, WriterStaysArmed, TypeOK
    <3> QED BY <3>1, <3>2, WriterKeepsInvariant
  <2>6. CASE \E c \in 1..MaxChunks : Deliver(c) \/ Acknowledge(c)
        BY <2>6, DeliverKeepsInvariant, AcknowledgeKeepsInvariant
  <2>7. CASE WindowUpdate
    <3>1. /\ granted < granted'
          /\ granted' \in Nat
          /\ UNCHANGED <<stream, armed, write_bytes, buffered, sent, acked, arrived, read_bytes>>
          BY <2>7 DEF WindowUpdate, IInv, TypeOK, sending, reading
    <3>2. WindowsAreKept'
          BY <3>1 DEF IInv, TypeOK, WindowsAreKept
    <3> QED BY <3>1, <3>2
            DEF IInv, TypeOK, BufferIsBounded, WriterStaysArmed, ReadsTheBeginning
  <2>8. CASE CloseConnection
        BY <2>8 DEF CloseConnection, IInv, TypeOK, BufferIsBounded, WriterStaysArmed,
                    WindowsAreKept, ReadsTheBeginning, sending, network, reading
  <2>9. CASE StreamDestroyed
        BY <2>9 DEF StreamDestroyed, IInv, TypeOK, BufferIsBounded, WriterStaysArmed,
                    WindowsAreKept, ReadsTheBeginning, sending, network, reading
  <2>10. CASE UNCHANGED vars
        BY <2>10 DEF vars, IInv, TypeOK, BufferIsBounded, WriterStaysArmed,
                     WindowsAreKept, ReadsTheBeginning, sending, network, reading
  <2> QED BY <2>2, <2>3, <2>4, <2>5, <2>6, <2>7, <2>8, <2>9, <2>10 DEF Next
<1> QED BY <1>1, <1>2, PTL DEF Spec

\* TypeOK: what is acknowledged has arrived, what has arrived was sent, and no
\* more is read than was sent.
THEOREM TypeCorrect == Spec => []TypeOK
<1>1. IInv => TypeOK
      BY DEF IInv
<1> QED BY <1>1, Invariant, PTL

\* BufferIsBounded: both callers of the writer together keep the send buffer at
\* or below its threshold, and no chunk they count is lost on the way.
THEOREM BufferStaysBounded == Spec => []BufferIsBounded
<1>1. IInv => BufferIsBounded
      BY DEF IInv
<1> QED BY <1>1, Invariant, PTL

\* WriterStaysArmed: from StartFillData until the stream is destroyed the write
\* alarm is set.
THEOREM WriterIsAlwaysArmed == Spec => []WriterStaysArmed
<1>1. IInv => WriterStaysArmed
      BY DEF IInv
<1> QED BY <1>1, Invariant, PTL

\* Reordering and loss never hide a chunk from the reader, nor show it one out of
\* order: it has read the longest beginning that has arrived.
THEOREM ReaderHasTheBeginning == Spec => []ReadsTheBeginning
<1>1. IInv => ReadsTheBeginning
      BY DEF IInv
<1> QED BY <1>1, Invariant, PTL

-----------------------------------------------------------------------------
(* The byte stream.                                                        *)

\* The safety half of CarriesBytes: every step is a Write, a Read or an Abort of
\* the byte stream, or nothing to it.
THEOREM ImplementsByteStream == Spec => Bytes!Spec
<1>1. Init => Bytes!Init
      BY DEF Init, Bytes!Init
<1>2. IInv /\ [Next]_vars => [Bytes!Next]_Bytes!vars
  <2> SUFFICES ASSUME IInv, [Next]_vars
               PROVE  [Bytes!Next]_Bytes!vars
      OBVIOUS
  <2> USE DEF Bytes!Next, Bytes!vars
  <2>1. 0 \in Nat /\ 0 <= buffered /\ 0 <= Credit
        BY FlushedFacts
  <2>2. ASSUME stream' \in {"none", "open"}, stream \in {"none", "open"},
               write_bytes' \in write_bytes..MaxChunks, UNCHANGED read_bytes
        PROVE  Bytes!Write
        BY <2>2 DEF Bytes!Write
  <2>3. ASSUME NEW flushed \in Nat, flushed <= buffered, flushed <= Credit,
               WriteData(flushed)
        PROVE  write_bytes' \in write_bytes..MaxChunks
        BY <2>3, WriteDataFacts DEF IInv
  <2>4. CASE StartFillData
        BY <2>1, <2>2, <2>3, <2>4 DEF StartFillData, reading
  <2>5. CASE OnTimeout /\ stream = "open"
        BY <2>1, <2>2, <2>3, <2>5 DEF OnTimeout, reading
  <2>6. CASE OnTimeout /\ stream # "open"
        BY <2>6 DEF OnTimeout, sending, reading
  <2>7. CASE OnCanWrite
        BY <2>2, <2>3, <2>7, FlushedFacts DEF OnCanWrite, reading
  <2>8. ASSUME NEW c \in 1..MaxChunks, Deliver(c)
        PROVE  Bytes!Read
    <3>1. /\ c \in 1..sent
          /\ arrived' = arrived \cup {c}
          /\ read_bytes' = Read(arrived')
          /\ UNCHANGED <<stream, write_bytes>>
          BY <2>8 DEF Deliver, sending
    <3>2. arrived' \subseteq 1..sent /\ sent \in Nat /\ read_bytes \in 0..sent
          BY <3>1 DEF IInv, TypeOK
    <3>3. read_bytes' \in read_bytes..sent
          BY <3>1, <3>2, ReadFacts
    <3>4. sent <= write_bytes
          BY DEF IInv, TypeOK, BufferIsBounded
    <3>5. read_bytes' \in read_bytes..write_bytes
          BY <3>2, <3>3, <3>4 DEF IInv, TypeOK
    <3> QED BY <3>1, <3>5 DEF Bytes!Read
  <2>9. ASSUME NEW c \in 1..MaxChunks, Acknowledge(c)
        PROVE  UNCHANGED Bytes!vars
        BY <2>9 DEF Acknowledge, sending, reading
  <2>10. CASE WindowUpdate
        BY <2>10 DEF WindowUpdate, sending, reading
  <2>11. CASE CloseConnection
        BY <2>11 DEF CloseConnection, Bytes!Abort, sending, reading
  <2>12. CASE StreamDestroyed
        BY <2>12 DEF StreamDestroyed, Bytes!Abort, sending, reading
  <2>13. CASE UNCHANGED vars
        BY <2>13 DEF vars, sending, reading
  <2> QED BY <2>4, <2>5, <2>6, <2>7, <2>8, <2>9, <2>10, <2>11, <2>12, <2>13 DEF Next
<1> QED BY <1>1, <1>2, Invariant, PTL DEF Spec, Bytes!Spec

-----------------------------------------------------------------------------
(***************************************************************************)
(* The hello exchange, for a message of any number of pieces.              *)
(***************************************************************************)
CONSTANT Pieces

VARIABLES hBidi, hHello, hEcho, hArrived, hRead, hReadClosed, hWriteClosed, hDestroyed

Exchange == INSTANCE HelloExchange WITH
    bidi <- hBidi, hello <- hHello, echo <- hEcho, arrived <- hArrived, read <- hRead,
    readClosed <- hReadClosed, writeClosed <- hWriteClosed, destroyed <- hDestroyed

\* The client ends its message when it writes it; the server echoes once, what
\* it has read by then, and on a bidirectional stream only.
HelloInv ==
    /\ hBidi \in BOOLEAN
    /\ hHello \in {0, Pieces}
    /\ hEcho \in 0..Pieces
    /\ hArrived \in [Exchange!Sides -> SUBSET Nat]
    /\ hRead \in [Exchange!Sides -> Nat]
    /\ hReadClosed \in [Exchange!Sides -> BOOLEAN]
    /\ hWriteClosed \in [Exchange!Sides -> BOOLEAN]
    /\ \A s \in Exchange!Sides : /\ hArrived[s] \subseteq 1..Exchange!Written(s)
                                 /\ hRead[s] <= Exchange!Written(s)
    /\ hWriteClosed["client"] <=> hHello # 0
    /\ ~hWriteClosed["server"] => hBidi /\ hEcho = 0
    /\ ~hBidi => hEcho = 0

\* What arrives for a side, and how far that side can read then.
LEMMA ArrivedIsRead ==
    ASSUME Exchange!HelloAssumption, HelloInv, NEW s \in Exchange!Sides,
           NEW lo \in 1..Pieces, NEW hi \in 1..Pieces,
           hi <= Exchange!Written(s), ~ (lo..hi \subseteq hArrived[s])
    PROVE  LET a == hArrived[s] \cup lo..hi
               n == Exchange!Readable(s, a)
           IN  /\ a \subseteq 1..Exchange!Written(s)
               /\ n \in hRead[s]..Exchange!Written(s)
               /\ Exchange!Written(s) \in 1..Pieces
<1> DEFINE w == Exchange!Written(s)
           r == hRead[s]
           a == hArrived[s] \cup lo..hi
           T == {k \in Nat : k >= r /\ k + 1 \notin a}
<1>1. Pieces \in Nat /\ w \in 0..Pieces /\ r \in Nat /\ r <= w
  <2>1. Pieces \in Nat
        BY DEF Exchange!HelloAssumption
  <2> QED BY <2>1 DEF HelloInv, Exchange!Written
<1>2. w \in 1..Pieces
      BY <1>1
<1>3. a \subseteq 1..w
  <2>1. lo..hi \subseteq 1..w
        BY <1>1
  <2> QED BY <2>1 DEF HelloInv
<1> HIDE DEF w, r, a
<1>4. w \in T
      BY <1>1, <1>3
<1>5. PICK n \in T : \A k \in T : n <= k
      BY <1>4, LeastNatural
<1>6. n \in r..w /\ n + 1 \notin a
      BY <1>1, <1>4, <1>5
<1>7. ASSUME NEW p \in r + 1..n
      PROVE  p \in a
  <2>1. SUFFICES ASSUME p \notin a
                 PROVE  FALSE
        OBVIOUS
  <2>2. p - 1 \in Nat /\ p - 1 >= r /\ (p - 1) + 1 = p /\ p - 1 < n /\ n \in Nat
        BY <1>1, <1>6
  <2>3. p - 1 \in T
        BY <2>1, <2>2
  <2> QED BY <1>5, <2>2, <2>3
<1>8. \E k \in r..w : (\A p \in r + 1..k : p \in a) /\ k + 1 \notin a
      BY <1>6, <1>7
<1>9. Exchange!Readable(s, a) \in r..w
      BY <1>8 DEF Exchange!Readable, r, w
<1> QED BY <1>2, <1>3, <1>9 DEF w, r, a

\* A frame that arrives is read by the server or by the client.
LEMMA FrameIsRead ==
    ASSUME Exchange!HelloAssumption, HelloInv, NEW s \in Exchange!Sides,
           NEW lo \in 1..Pieces, NEW hi \in 1..Pieces, Exchange!OnDataAvailable(s, lo, hi)
    PROVE  HelloInv'
<1> DEFINE a == hArrived[s] \cup lo..hi
           n == Exchange!Readable(s, a)
<1>1. /\ hi <= Exchange!Written(s) /\ ~ (lo..hi \subseteq hArrived[s])
      /\ hArrived' = [hArrived EXCEPT ![s] = a]
      /\ hRead' = [hRead EXCEPT ![s] = n]
      /\ hReadClosed' = [hReadClosed EXCEPT ![s] = @ \/ n = Exchange!Written(s)]
      /\ IF s = "server" /\ n > hRead[s] THEN Exchange!Echo(n)
         ELSE UNCHANGED <<hEcho, hWriteClosed>>
      /\ hBidi' = hBidi /\ hHello' = hHello
      BY DEF Exchange!OnDataAvailable
<1>2. /\ a \subseteq 1..Exchange!Written(s) /\ n \in hRead[s]..Exchange!Written(s)
      /\ Exchange!Written(s) \in 1..Pieces /\ Pieces \in Nat
      BY <1>1, ArrivedIsRead DEF Exchange!HelloAssumption
<1> HIDE DEF a, n
<1>3. n \in Nat /\ a \in SUBSET Nat /\ n <= Pieces /\ hRead[s] \in Nat
      BY <1>2 DEF HelloInv
<1>4. /\ hEcho' \in 0..Pieces
      /\ hWriteClosed' \in [Exchange!Sides -> BOOLEAN]
      /\ hWriteClosed'["client"] = hWriteClosed["client"]
      /\ ~hWriteClosed'["server"] => hBidi /\ hEcho' = 0
      /\ ~hBidi => hEcho' = 0
      /\ hEcho' # hEcho => hEcho = 0
  <2>1. CASE s = "server" /\ n > hRead[s]
    <3>1. /\ hEcho' = IF hWriteClosed["server"] THEN hEcho ELSE n - hRead["server"]
          /\ hWriteClosed' = [hWriteClosed EXCEPT !["server"] = TRUE]
          BY <1>1, <2>1 DEF Exchange!Echo
    <3>2. n - hRead["server"] \in 0..Pieces
          BY <1>2, <1>3, <2>1
    <3> QED BY <3>1, <3>2 DEF HelloInv, Exchange!Sides
  <2>2. CASE ~ (s = "server" /\ n > hRead[s])
        BY <1>1, <2>2 DEF HelloInv
  <2> QED BY <2>1, <2>2
<1>5. \A q \in Exchange!Sides : /\ Exchange!Written(q) \in Nat /\ Exchange!Written(q)' \in Nat
                                /\ Exchange!Written(q) <= Exchange!Written(q)'
  <2>1. hHello \in Nat /\ hEcho \in Nat /\ hEcho' \in Nat /\ hEcho <= hEcho'
        BY <1>2, <1>4 DEF HelloInv
  <2> QED BY <1>1, <2>1 DEF Exchange!Written
<1>6. \A q \in Exchange!Sides : /\ hArrived'[q] \subseteq 1..Exchange!Written(q)
                                /\ hRead'[q] \in Nat /\ hRead'[q] <= Exchange!Written(q)
  <2> TAKE q \in Exchange!Sides
  <2>1. CASE q = s
    <3>1. hArrived'[q] = a /\ hRead'[q] = n
          BY <1>1, <2>1 DEF HelloInv
    <3>2. n <= Exchange!Written(s)
          BY <1>2, <1>3
    <3> QED BY <1>2, <1>3, <2>1, <3>1, <3>2
  <2>2. CASE q # s
    <3>1. hArrived'[q] = hArrived[q] /\ hRead'[q] = hRead[q]
          BY <1>1, <2>2 DEF HelloInv
    <3> QED BY <3>1 DEF HelloInv
  <2> QED BY <2>1, <2>2
<1>7. \A q \in Exchange!Sides : /\ hArrived'[q] \subseteq 1..Exchange!Written(q)'
                                /\ hRead'[q] <= Exchange!Written(q)'
  <2> TAKE q \in Exchange!Sides
  <2>1. 1..Exchange!Written(q) \subseteq 1..Exchange!Written(q)'
        BY <1>5
  <2> QED BY <1>5, <1>6, <2>1
<1>8. /\ hArrived' \in [Exchange!Sides -> SUBSET Nat]
      /\ hRead' \in [Exchange!Sides -> Nat]
      BY <1>1, <1>3 DEF HelloInv
<1>9. hReadClosed' \in [Exchange!Sides -> BOOLEAN]
      BY <1>1 DEF HelloInv
<1> QED BY <1>1, <1>4, <1>7, <1>8, <1>9 DEF HelloInv

\* The initial states satisfy it.
LEMMA HelloBegins ==
    ASSUME Exchange!HelloAssumption, Exchange!Init
    PROVE  HelloInv
<1>1. Pieces \in Nat
      BY DEF Exchange!HelloAssumption
<1>2. /\ hBidi \in BOOLEAN /\ hHello = 0 /\ hEcho = 0
      /\ hArrived = [s \in Exchange!Sides |-> {}]
      /\ hRead = [s \in Exchange!Sides |-> 0]
      /\ hReadClosed \in [Exchange!Sides -> BOOLEAN]
      /\ hWriteClosed \in [Exchange!Sides -> BOOLEAN]
      BY DEF Exchange!Init
<1>3. ~hWriteClosed["client"] /\ hWriteClosed["server"] = ~hBidi
      BY <1>2 DEF Exchange!Init, Exchange!Sides
<1>4. \A s \in Exchange!Sides : Exchange!Written(s) = 0
      BY <1>2 DEF Exchange!Written
<1>5. /\ hArrived \in [Exchange!Sides -> SUBSET Nat]
      /\ hRead \in [Exchange!Sides -> Nat]
      BY <1>2
<1>6. \A s \in Exchange!Sides : /\ hArrived[s] \subseteq 1..Exchange!Written(s)
                                /\ hRead[s] <= Exchange!Written(s)
      BY <1>2, <1>4
<1>7. /\ hWriteClosed["client"] <=> hHello # 0
      /\ ~hWriteClosed["server"] => hBidi /\ hEcho = 0
      /\ ~hBidi => hEcho = 0
      BY <1>2, <1>3
<1> QED BY <1>1, <1>2, <1>5, <1>6, <1>7 DEF HelloInv

\* Every step keeps it.
LEMMA HelloGoesOn ==
    ASSUME Exchange!HelloAssumption, HelloInv, [Exchange!Next]_(Exchange!vars)
    PROVE  HelloInv'
<1>1. CASE Exchange!SendHello
  <2>1. /\ hHello = 0 /\ hHello' = Pieces
        /\ hWriteClosed' = [hWriteClosed EXCEPT !["client"] = TRUE]
        /\ UNCHANGED <<hBidi, hEcho, hArrived, hRead, hReadClosed>>
        BY <1>1 DEF Exchange!SendHello
  <2>2. Pieces \in Nat /\ Pieces # 0
        BY DEF Exchange!HelloAssumption
  <2>3. \A s \in Exchange!Sides : /\ hArrived[s] \subseteq 1..Exchange!Written(s)'
                                  /\ hRead[s] <= Exchange!Written(s)'
    <3> TAKE s \in Exchange!Sides
    <3>1. CASE s = "server"
      <4>1. hArrived[s] = {} /\ hRead[s] = 0
            BY <2>1, <3>1 DEF HelloInv, Exchange!Written
      <4> QED BY <2>1, <2>2, <3>1, <4>1 DEF Exchange!Written
    <3>2. CASE s # "server"
          BY <2>1, <3>2 DEF HelloInv, Exchange!Written
    <3> QED BY <3>1, <3>2
  <2>4. /\ hWriteClosed' \in [Exchange!Sides -> BOOLEAN]
        /\ hWriteClosed'["client"] = TRUE /\ hWriteClosed'["server"] = hWriteClosed["server"]
        BY <2>1 DEF HelloInv, Exchange!Sides
  <2> QED BY <2>1, <2>2, <2>3, <2>4 DEF HelloInv
<1>2. ASSUME NEW s \in Exchange!Sides, NEW lo \in 1..Pieces, NEW hi \in 1..Pieces,
             Exchange!OnDataAvailable(s, lo, hi)
      PROVE  HelloInv'
      BY <1>2, FrameIsRead
<1>3. ASSUME UNCHANGED <<hBidi, hHello, hEcho, hArrived, hRead, hReadClosed, hWriteClosed>>
      PROVE  HelloInv'
      BY <1>3 DEF HelloInv, Exchange!Written
<1>4. ASSUME NEW s \in Exchange!Sides, Exchange!StreamDestroyed(s)
      PROVE  HelloInv'
      BY <1>3, <1>4 DEF Exchange!StreamDestroyed
<1>5. CASE UNCHANGED Exchange!vars
      BY <1>3, <1>5 DEF Exchange!vars
<1> QED BY <1>1, <1>2, <1>4, <1>5 DEF Exchange!Next

\* Every step is one of each byte stream's, or none.
LEMMA HelloSteps ==
    ASSUME Exchange!HelloAssumption, HelloInv, [Exchange!Next]_(Exchange!vars)
    PROVE  /\ [Exchange!Hello!Next]_(Exchange!Hello!vars)
           /\ [Exchange!Back!Next]_(Exchange!Back!vars)
<1> DEFINE StreamsRest == UNCHANGED <<hBidi, hHello, hEcho, hRead, hReadClosed, hWriteClosed>>
<1>1. ASSUME StreamsRest
      PROVE  UNCHANGED Exchange!Hello!vars /\ UNCHANGED Exchange!Back!vars
      BY <1>1 DEF Exchange!Hello!vars, Exchange!Back!vars
<1>2. CASE Exchange!SendHello
  <2>1. /\ hHello = 0 /\ hHello' = Pieces
        /\ hWriteClosed' = [hWriteClosed EXCEPT !["client"] = TRUE]
        /\ UNCHANGED <<hBidi, hEcho, hRead, hReadClosed>>
        BY <1>2 DEF Exchange!SendHello
  <2>2. Pieces \in Nat /\ Pieces # 0
        BY DEF Exchange!HelloAssumption
  <2>3. /\ ~hWriteClosed["client"]
        /\ hWriteClosed'["client"] = TRUE /\ hWriteClosed'["server"] = hWriteClosed["server"]
        BY <2>1 DEF HelloInv, Exchange!Sides
  <2>4. Exchange!Hello!Write
    <3>1. hHello' \in hHello..Pieces
          BY <2>1, <2>2
    <3>2. hWriteClosed'["client"] \in BOOLEAN
          BY <2>3
    <3>3. hRead'["server"] = hRead["server"] /\ hReadClosed'["server"] = hReadClosed["server"]
          BY <2>1
    <3> QED BY <2>3, <3>1, <3>2, <3>3, Zenon DEF Exchange!Hello!Write
  <2>5. UNCHANGED Exchange!Back!vars
        BY <2>1, <2>3 DEF Exchange!Back!vars
  <2> QED BY <2>4, <2>5 DEF Exchange!Hello!Next
<1>3. ASSUME NEW s \in Exchange!Sides, NEW lo \in 1..Pieces, NEW hi \in 1..Pieces,
             Exchange!OnDataAvailable(s, lo, hi)
      PROVE  /\ [Exchange!Hello!Next]_(Exchange!Hello!vars)
             /\ [Exchange!Back!Next]_(Exchange!Back!vars)
  <2> DEFINE a == hArrived[s] \cup lo..hi
             n == Exchange!Readable(s, a)
             w == Exchange!Written(s)
  <2>1. /\ hi <= w /\ ~ (lo..hi \subseteq hArrived[s])
        /\ hRead' = [hRead EXCEPT ![s] = n]
        /\ hReadClosed' = [hReadClosed EXCEPT ![s] = hReadClosed[s] \/ n = w]
        /\ IF s = "server" /\ n > hRead[s] THEN Exchange!Echo(n)
           ELSE UNCHANGED <<hEcho, hWriteClosed>>
        /\ hBidi' = hBidi /\ hHello' = hHello
        BY <1>3 DEF Exchange!OnDataAvailable
  <2>2. n \in hRead[s]..w /\ w \in 1..Pieces
        BY <2>1, ArrivedIsRead
  <2> HIDE DEF n, a
  <2>3. s \in {"server", "client"}
        BY DEF Exchange!Sides
  <2>4. CASE s = "client"
    <3>1. /\ w = hEcho /\ UNCHANGED <<hEcho, hWriteClosed>>
          /\ hRead'["client"] = n /\ hRead'["server"] = hRead["server"]
          /\ hReadClosed'["client"] = (hReadClosed["client"] \/ n = w)
          /\ hReadClosed'["server"] = hReadClosed["server"]
          BY <2>1, <2>4 DEF HelloInv, Exchange!Written, Exchange!Sides
    <3>2. UNCHANGED Exchange!Hello!vars
          BY <2>1, <3>1 DEF Exchange!Hello!vars
    <3>3. hBidi /\ hWriteClosed["server"]
          BY <2>2, <3>1 DEF HelloInv
    <3>4. Exchange!Back!Read
      <4>1. hRead'["client"] \in hRead["client"]..hEcho
            BY <2>2, <2>4, <3>1
      <4>2. (hBidi' /\ hReadClosed'["client"]) \in
                {hBidi /\ hReadClosed["client"],
                 (hBidi /\ hReadClosed["client"])
                    \/ ((hBidi /\ hWriteClosed["server"]) /\ hRead'["client"] = hEcho)}
        <5>1. (hBidi' /\ hReadClosed'["client"]) =
                 ((hBidi /\ hReadClosed["client"])
                    \/ ((hBidi /\ hWriteClosed["server"]) /\ hRead'["client"] = hEcho))
              BY <2>1, <3>1, <3>3
        <5> QED BY <5>1
      <4> QED BY <2>1, <3>1, <4>1, <4>2 DEF Exchange!Back!Read
    <3> QED BY <3>2, <3>4 DEF Exchange!Back!Next
  <2>5. CASE s = "server"
    <3>1. /\ w = hHello
          /\ hRead'["server"] = n /\ hRead'["client"] = hRead["client"]
          /\ hReadClosed'["server"] = (hReadClosed["server"] \/ n = w)
          /\ hReadClosed'["client"] = hReadClosed["client"]
          BY <2>1, <2>5 DEF HelloInv, Exchange!Written, Exchange!Sides
    <3>2. hWriteClosed["client"]
          BY <2>2, <3>1 DEF HelloInv
    <3>3. hWriteClosed'["client"] = hWriteClosed["client"]
          BY <2>1, <2>5 DEF Exchange!Echo, HelloInv, Exchange!Sides
    <3>4. Exchange!Hello!Read
      <4>1. hRead'["server"] \in hRead["server"]..hHello
            BY <2>2, <2>5, <3>1
      <4>2. hReadClosed'["server"] \in
                {hReadClosed["server"],
                 hReadClosed["server"] \/ (hWriteClosed["client"] /\ hRead'["server"] = hHello)}
        <5>1. hReadClosed'["server"] =
                (hReadClosed["server"] \/ (hWriteClosed["client"] /\ hRead'["server"] = hHello))
              BY <3>1, <3>2
        <5> QED BY <5>1
      <4> QED BY <2>1, <3>1, <3>3, <4>1, <4>2 DEF Exchange!Hello!Read
    <3>5. [Exchange!Back!Next]_(Exchange!Back!vars)
      <4>1. CASE hWriteClosed["server"] \/ ~ (n > hRead["server"])
        <5>1. hEcho' = hEcho /\ hWriteClosed'["server"] = hWriteClosed["server"]
              BY <2>1, <2>5, <4>1 DEF Exchange!Echo, HelloInv, Exchange!Sides
        <5> QED BY <2>1, <3>1, <5>1 DEF Exchange!Back!vars
      <4>2. CASE ~hWriteClosed["server"] /\ n > hRead["server"]
        <5>1. /\ hEcho' = n - hRead["server"] /\ hWriteClosed'["server"] = TRUE
              /\ hEcho = 0
              BY <2>1, <2>5, <4>2 DEF Exchange!Echo, HelloInv, Exchange!Sides
        <5>2. n - hRead["server"] \in 0..Pieces
          <6>1. Pieces \in Nat /\ hRead["server"] \in Nat
                BY DEF HelloInv, Exchange!Sides, Exchange!HelloAssumption
          <6> QED BY <2>2, <2>5, <6>1
        <5>3. Exchange!Back!Write
              BY <2>1, <3>1, <4>2, <5>1, <5>2 DEF Exchange!Back!Write
        <5> QED BY <5>3 DEF Exchange!Back!Next
      <4> QED BY <4>1, <4>2
    <3> QED BY <3>4, <3>5 DEF Exchange!Hello!Next
  <2> QED BY <2>3, <2>4, <2>5
<1>4. ASSUME NEW s \in Exchange!Sides, Exchange!StreamDestroyed(s)
      PROVE  UNCHANGED Exchange!Hello!vars /\ UNCHANGED Exchange!Back!vars
      BY <1>1, <1>4 DEF Exchange!StreamDestroyed
<1>5. CASE UNCHANGED Exchange!vars
      BY <1>1, <1>5 DEF Exchange!vars
<1> QED BY <1>2, <1>3, <1>4, <1>5 DEF Exchange!Next

\* The safety half of CarriesBytes of the hello exchange: in both directions,
\* on both kinds of streams, every step is a step of the byte stream or nothing
\* to it.  Nothing is written behind a FIN, and no end is told before it.
THEOREM ExchangeImplementsByteStreams ==
    ASSUME Exchange!HelloAssumption
    PROVE  Exchange!Spec => Exchange!Hello!Spec /\ Exchange!Back!Spec
<1>1. Exchange!Init => HelloInv /\ Exchange!Hello!Init /\ Exchange!Back!Init
  <2> SUFFICES ASSUME Exchange!Init
               PROVE  Exchange!Hello!Init /\ Exchange!Back!Init
      BY HelloBegins
  <2> QED BY DEF Exchange!Init, Exchange!Hello!Init, Exchange!Back!Init, Exchange!Sides
<1>2. HelloInv /\ [Exchange!Next]_(Exchange!vars) => HelloInv'
      BY HelloGoesOn
<1>3. HelloInv /\ [Exchange!Next]_(Exchange!vars) =>
          /\ [Exchange!Hello!Next]_(Exchange!Hello!vars)
          /\ [Exchange!Back!Next]_(Exchange!Back!vars)
      BY HelloSteps
<1> QED BY <1>1, <1>2, <1>3, PTL DEF Exchange!Spec, Exchange!Hello!Spec, Exchange!Back!Spec
=============================================================================
