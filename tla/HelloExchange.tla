--------------------------- MODULE HelloExchange ---------------------------
(***************************************************************************)
(* The hello backends: the client writes one message with FIN on a stream, *)
(* and on a bidirectional stream the server's EchoBidiChannel writes back  *)
(* what it reads.                                                          *)
(*                                                                         *)
(* quiche cuts the message into frames as packets have room, resends and   *)
(* reorders them; the last carries the FIN.  A frame that fills the next   *)
(* gap makes the stream call its channel, which reads everything there is. *)
(* EchoBidiChannel sets FIN on every Write: whatever it reads first is the *)
(* whole echo, and a later Write finds the write side closed.              *)
(***************************************************************************)
EXTENDS Integers, FiniteSets

CONSTANT Pieces     \* the message, in the smallest pieces it is cut into

ASSUME HelloAssumption == Pieces \in Nat \ {0}

VARIABLES
    bidi,       \* HELLO_BIDI, or HELLO_UNIDI
    hello,      \* pieces the client has written with FIN: 0 or Pieces
    echo,       \* pieces the server has written with FIN: 0 for none
    arrived,    \* arrived["server"]: pieces of hello there; "client": of echo
    read,       \* how many of them each side has read
    readClosed, \* OnFinRead has closed the read side
    writeClosed, \* the FIN is written: CanWrite is false
    destroyed   \* the side's stream is destroyed

vars == <<bidi, hello, echo, arrived, read, readClosed, writeClosed, destroyed>>

Sides == {"client", "server"}

\* Nothing comes back on a unidirectional stream, and nothing can be written.
Init ==
    /\ bidi \in BOOLEAN
    /\ hello = 0
    /\ echo = 0
    /\ arrived = [s \in Sides |-> {}]
    /\ read = [s \in Sides |-> 0]
    /\ readClosed = [s \in Sides |-> s = "client" /\ ~bidi]
    /\ writeClosed = [s \in Sides |-> s = "server" /\ ~bidi]
    /\ destroyed = [s \in Sides |-> FALSE]

\* What a side's peer has written to it.
Written(s) == IF s = "server" THEN hello ELSE echo

\* The client's channel sends its message when the session is ready.
SendHello ==
    /\ hello = 0
    /\ hello' = Pieces
    /\ writeClosed' = [writeClosed EXCEPT !["client"] = TRUE]
    /\ UNCHANGED <<bidi, echo, arrived, read, readClosed, destroyed>>

\* The pieces a side can read: those without a gap before them.
Readable(s, a) ==
    CHOOSE n \in read[s]..Written(s) :
        /\ \A p \in read[s] + 1..n : p \in a
        /\ n + 1 \notin a

\* Mistake: every read is written back, whether the write side is closed or not.
Echo_Appends(n) ==
    /\ echo' = echo + (n - read["server"])
    /\ writeClosed' = [writeClosed EXCEPT !["server"] = TRUE]

\* EchoBidiChannel::OnCanRead after its Read: Write with FIN, which fails once
\* the write side is closed.  The other channels only read.
Echo(n) ==
    /\ echo' = IF writeClosed["server"] THEN echo ELSE n - read["server"]
    /\ writeClosed' = [writeClosed EXCEPT !["server"] = TRUE]

\* Mistake: only a frame that carries nothing but the FIN closes the read side.
OnDataAvailable_LateFin(s, lo, hi) ==
    LET a == arrived[s] \cup lo..hi
        n == Readable(s, a)
    IN  /\ 1 <= lo /\ hi <= Written(s)
        /\ ~(lo..hi \subseteq arrived[s])
        /\ arrived' = [arrived EXCEPT ![s] = a]
        /\ read' = [read EXCEPT ![s] = n]
        /\ readClosed' = [readClosed EXCEPT ![s] = @ \/ read[s] = Written(s)]
        /\ IF s = "server" /\ n > read[s] THEN Echo(n) ELSE UNCHANGED <<echo, writeClosed>>
        /\ UNCHANGED <<bidi, hello, destroyed>>

\* A frame with the pieces lo..hi arrives.  When it fills the next gap, the
\* stream calls its channel, which reads all there is; reading up to the FIN
\* closes the read side.
OnDataAvailable(s, lo, hi) ==
    LET a == arrived[s] \cup lo..hi
        n == Readable(s, a)
    IN  /\ 1 <= lo /\ hi <= Written(s)
        /\ ~(lo..hi \subseteq arrived[s])
        /\ arrived' = [arrived EXCEPT ![s] = a]
        /\ read' = [read EXCEPT ![s] = n]
        /\ readClosed' = [readClosed EXCEPT ![s] = @ \/ n = Written(s)]
        /\ IF s = "server" /\ n > read[s] THEN Echo(n) ELSE UNCHANGED <<echo, writeClosed>>
        /\ UNCHANGED <<bidi, hello, destroyed>>

\* quiche destroys a stream both sides of which are closed and what it wrote
\* is acknowledged.
StreamDestroyed(s) ==
    LET peer == IF s = "server" THEN "client" ELSE "server"
    IN  /\ ~destroyed[s]
        /\ readClosed[s] /\ writeClosed[s]
        /\ arrived[peer] = 1..Written(peer)
        /\ destroyed' = [destroyed EXCEPT ![s] = TRUE]
        /\ UNCHANGED <<bidi, hello, echo, arrived, read, readClosed, writeClosed>>

Next ==
    \/ SendHello
    \/ \E s \in Sides, lo, hi \in 1..Pieces : OnDataAvailable(s, lo, hi)
    \/ \E s \in Sides : StreamDestroyed(s)

Spec == Init /\ [][Next]_vars

\* A client whose session is ready sends, quiche resends until everything has
\* arrived, and cleans closed streams up.
LiveSpec ==
    /\ Spec
    /\ WF_vars(SendHello)
    /\ WF_vars(\E s \in Sides, lo, hi \in 1..Pieces : OnDataAvailable(s, lo, hi))
    /\ \A s \in Sides : WF_vars(StreamDestroyed(s))

-----------------------------------------------------------------------------
(***************************************************************************)
(* Both streams come to their end, whether the echo is whole or short:     *)
(* neither side waits for a FIN that is not sent.                          *)
(***************************************************************************)
BothStreamsEnd == <>[](\A s \in Sides : destroyed[s])

\* The two directions, as the channels see them.  A unidirectional stream has
\* no way back.
Hello == INSTANCE ByteStream WITH
    MaxWritten <- Pieces, written <- hello, fin <- writeClosed["client"],
    aborted <- FALSE, read <- read["server"], eof <- readClosed["server"]

Back == INSTANCE ByteStream WITH
    MaxWritten <- Pieces, written <- echo, fin <- bidi /\ writeClosed["server"],
    aborted <- FALSE, read <- read["client"], eof <- bidi /\ readClosed["client"]

(***************************************************************************)
(* Both directions are byte streams: frames of any size in any order, and  *)
(* still the hello is read once and as a whole, nothing is written behind  *)
(* a FIN, the end is told after the last piece and never before, and is    *)
(* always told.                                                            *)
(***************************************************************************)
CarriesBytes == Hello!LiveSpec /\ Back!LiveSpec
=============================================================================
