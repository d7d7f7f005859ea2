-------------------------- MODULE SessionChannels --------------------------
(***************************************************************************)
(* One QUIC session with its endpoint, its streams and their channels, and *)
(* the raw pointers between them.                                          *)
(*                                                                         *)
(* The session owns the endpoint and (through QuicSession) the streams; a  *)
(* stream owns its channel, as its visitor.  Two raw pointers run between  *)
(* objects with different owners: the channel's notifier_ points at the    *)
(* endpoint, and the endpoint's channel_ at the channel it made last.      *)
(* Each destructor is meant to clear the pointer the other side holds.     *)
(*                                                                         *)
(* A session destroys its endpoint before its streams, because endpoint_   *)
(* is a member of the derived class and the streams are QuicSession's.     *)
(***************************************************************************)
EXTENDS Integers, FiniteSets

CONSTANTS
    Role,       \* "client" or "server": which of the two session classes
    Streams,    \* the streams the two peers may open
    Bidi,       \* those of them that are bidirectional
    NoStream    \* a null channel pointer

VARIABLES
    backend,    \* "hello" or "bandwidth": whose endpoints the session gets
    connected,  \* connection()->connected()
    ready,      \* ready_
    endpoint,   \* endpoint_: "none", "alive", or "freed" with the session
    stream,     \* the streams: "none", "open", "destroyed"
    notifier,   \* notifier_ of the stream's channel: "no_channel", "endpoint", "null"
    channel,    \* the endpoint's channel_, named by its stream
    armed,      \* the streams whose channel has its write alarm set
    fault       \* "none", or the freed object that was used

vars == <<backend, connected, ready, endpoint, stream, notifier, channel, armed, fault>>

Channels == {s \in Streams : notifier[s] # "no_channel"}

TypeOK ==
    /\ backend \in {"hello", "bandwidth"}
    /\ connected \in BOOLEAN
    /\ ready \in BOOLEAN
    /\ endpoint \in {"none", "alive", "freed"}
    /\ stream \in [Streams -> {"none", "open", "destroyed"}]
    /\ notifier \in [Streams -> {"no_channel", "endpoint", "null"}]
    /\ channel \in Streams \cup {NoStream}
    /\ armed \subseteq Streams
    /\ fault \in {"none", "freed_endpoint", "freed_channel"}
    /\ Channels # {} => ready /\ endpoint # "none"

\* The client session creates its endpoint when it is constructed, the server
\* session when the first stream arrives.
Init ==
    /\ backend \in {"hello", "bandwidth"}
    /\ connected = TRUE
    /\ ready = FALSE
    /\ endpoint = IF Role = "client" THEN "alive" ELSE "none"
    /\ stream = [s \in Streams |-> "none"]
    /\ notifier = [s \in Streams |-> "no_channel"]
    /\ channel = NoStream
    /\ armed = {}
    /\ fault = "none"

Working == fault = "none" /\ endpoint # "freed"

CreateStream(s) ==
    /\ connected
    /\ stream[s] = "none"
    /\ stream' = [stream EXCEPT ![s] = "open"]

\* The endpoint makes a channel for s, keeps it in channel_ whatever it held
\* before, makes itself its notifier and gives it to the stream.
Attach(s) ==
    /\ channel' = s
    /\ notifier' = [notifier EXCEPT ![s] = "endpoint"]

\* The hello endpoint writes its one message at once; the bandwidth endpoint
\* has its channel fill the stream, by an alarm, and opens no bidirectional one.
OnSessionReady(s) ==
    /\ backend = "bandwidth" => s \notin Bidi
    /\ CreateStream(s)
    /\ Attach(s)

StartFillData(s) == armed' = IF backend = "bandwidth" THEN armed \cup {s} ELSE armed

\* The client's handshake completes, which quiche reports once: through
\* OnTlsHandshakeComplete, or SetDefaultEncryptionLevel before TLS.  The
\* endpoint opens its one stream, for which the transport parameters leave room.
HandshakeComplete(s) ==
    /\ Working
    /\ Role = "client"
    /\ ~ready
    /\ ready' = TRUE
    /\ OnSessionReady(s)
    /\ StartFillData(s)
    /\ UNCHANGED <<backend, connected, endpoint, fault>>

\* The endpoints that give an incoming stream a channel.  The others leave
\* the stream without a visitor.
Accepts(s) == Role = "server" /\ (backend = "bandwidth" => s \notin Bidi)

OnIncomingStream(s) == IF Accepts(s) THEN Attach(s) ELSE UNCHANGED <<channel, notifier>>

\* A peer's stream.  The server's first one also makes its endpoint.
CreateIncomingStream(s) ==
    /\ Working
    /\ IF Role = "server" /\ ~ready
       THEN endpoint' = "alive" /\ ready' = TRUE
       ELSE UNCHANGED <<endpoint, ready>>
    /\ CreateStream(s)
    /\ OnIncomingStream(s)
    /\ UNCHANGED <<backend, connected, armed, fault>>

\* OnChannelDestroy of the endpoint, if it is the notifier: it forgets its
\* channel_, even if that is another one.
OnChannelDestroy(s) == channel' = IF notifier[s] = "endpoint" THEN NoStream ELSE channel

\* The visitor's OnDestroy cancels its alarm.
CancelAlarms(streams) == armed' = armed \ streams

\* Mistakes: the endpoint keeps its channel_; the channel keeps its alarm.
StreamDestroyed_KeepsChannel(s) ==
    /\ Working
    /\ stream[s] = "open"
    /\ stream' = [stream EXCEPT ![s] = "destroyed"]
    /\ CancelAlarms({s})
    /\ UNCHANGED <<backend, connected, ready, endpoint, notifier, channel, fault>>

StreamDestroyed_KeepsAlarm(s) ==
    /\ Working
    /\ stream[s] = "open"
    /\ stream' = [stream EXCEPT ![s] = "destroyed"]
    /\ OnChannelDestroy(s)
    /\ UNCHANGED <<backend, connected, ready, endpoint, notifier, armed, fault>>

\* quiche destroys a closed stream, and the stream calls its visitor.
StreamDestroyed(s) ==
    /\ Working
    /\ stream[s] = "open"
    /\ stream' = [stream EXCEPT ![s] = "destroyed"]
    /\ CancelAlarms({s})
    /\ OnChannelDestroy(s)
    /\ UNCHANGED <<backend, connected, ready, endpoint, notifier, fault>>

\* The connection closes, for whatever reason.  Streams stay until the
\* session is destroyed.
CloseConnection ==
    /\ Working
    /\ connected
    /\ connected' = FALSE
    /\ UNCHANGED <<backend, ready, endpoint, stream, notifier, channel, armed, fault>>

\* Mistake: the endpoint does not clear the notifier of channel_.
SessionDestroyed_KeepsNotifier ==
    LET left == {s \in Streams : stream[s] = "open"}
    IN  /\ Working
        /\ connected' = FALSE
        /\ endpoint' = "freed"
        /\ stream' = [s \in Streams |-> IF s \in left THEN "destroyed" ELSE stream[s]]
        /\ channel' = NoStream
        /\ armed' = armed \ left
        /\ fault' = IF \E s \in left : notifier[s] = "endpoint" THEN "freed_endpoint" ELSE fault
        /\ UNCHANGED <<backend, ready, notifier>>

\* The endpoint's destructor clears the notifier of channel_, if it has one.
EndpointDestroyed ==
    /\ endpoint' = "freed"
    /\ notifier' = [s \in Streams |-> IF s = channel THEN "null" ELSE notifier[s]]
    /\ channel' = NoStream

\* The session is destroyed: first the endpoint, then every stream left, whose
\* channel calls the notifier it still has.
SessionDestroyed ==
    LET left == {s \in Streams : stream[s] = "open"}
        callers == {s \in left \ {channel} : notifier[s] = "endpoint"}
    IN  /\ Working
        /\ connected' = FALSE
        /\ EndpointDestroyed
        /\ stream' = [s \in Streams |-> IF s \in left THEN "destroyed" ELSE stream[s]]
        /\ CancelAlarms(left)
        /\ fault' = IF channel \notin left \cup {NoStream} THEN "freed_channel"
                    ELSE IF callers # {} THEN "freed_endpoint"
                    ELSE fault
        /\ UNCHANGED <<backend, ready>>

Next ==
    \/ \E s \in Streams :
        \/ HandshakeComplete(s)
        \/ CreateIncomingStream(s)
        \/ StreamDestroyed(s)
    \/ CloseConnection
    \/ SessionDestroyed

Spec == Init /\ [][Next]_vars

-----------------------------------------------------------------------------
(***************************************************************************)
(* The endpoint never keeps a pointer to a channel that is gone, so its    *)
(* destructor does not write to freed memory, in whatever order streams    *)
(* come, supersede each other in channel_ and are destroyed.               *)
(***************************************************************************)
ChannelIsLive ==
    /\ channel # NoStream => stream[channel] = "open" /\ notifier[channel] = "endpoint"
    /\ fault # "freed_channel"

(***************************************************************************)
(* A session that only ever had one channel is destroyed cleanly.  The     *)
(* freed endpoint is called back only if a second channel took the place   *)
(* of the first in channel_, or the end of one channel cleared the pointer *)
(* to the other.                                                           *)
(***************************************************************************)
OneChannelIsSafe ==
    (\A s, t \in Channels : s = t) => fault # "freed_endpoint"

(***************************************************************************)
(* The write alarm of a bandwidth channel does not survive its stream,     *)
(* whichever of the stream and the session is destroyed first: its         *)
(* callback writes to the stream.                                          *)
(***************************************************************************)
AlarmHasItsStream == \A s \in armed : stream[s] = "open"

-----------------------------------------------------------------------------
(***************************************************************************)
(* The inductive invariant behind these three.  A ready session and a      *)
(* client have an endpoint; a channel belongs to a stream; while the endpoint   *)
(* lives, an open channel it does not hold in channel_ is one of several;  *)
(* a freed endpoint was called back by one of several channels.            *)
(***************************************************************************)
EndpointIsMade == ready \/ Role = "client" => endpoint # "none"

ChannelHasItsStream == \A s \in Channels : stream[s] # "none"

ForgottenIsOneOfSeveral ==
    \A s \in Streams :
        /\ endpoint # "freed"
        /\ stream[s] = "open"
        /\ notifier[s] = "endpoint"
        /\ channel # s
        => \E t \in Channels : t # s

FaultNeedsSeveral ==
    fault = "freed_endpoint" => \E s, t \in Channels : s # t

IInv ==
    /\ TypeOK
    /\ ChannelIsLive
    /\ AlarmHasItsStream
    /\ EndpointIsMade
    /\ ChannelHasItsStream
    /\ ForgottenIsOneOfSeveral
    /\ FaultNeedsSeveral
=============================================================================
