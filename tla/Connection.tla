----------------------------- MODULE Connection -----------------------------
(***************************************************************************)
(* A client session and a server session of the same backend, joined by    *)
(* the network.  In the shipped pair the client is the only one that opens *)
(* a stream.  Its first packet may be lost and sent again, so it reaches   *)
(* the server once, at any later time, or never, if the connection closes  *)
(* before.  The two sides learn of a close on their own, from the peer's   *)
(* packet or from the idle timeout.                                        *)
(*                                                                         *)
(* The sessions accept more than the shipped pair makes of them: any QUIC  *)
(* peer may open streams, of both kinds and at any time.                   *)
(***************************************************************************)
EXTENDS Integers, FiniteSets

CONSTANTS
    Streams,    \* stream ids
    Bidi,       \* those of them that are bidirectional
    NoStream    \* a null channel pointer

ASSUME ConnectionAssumption == Bidi \subseteq Streams /\ NoStream \notin Streams

VARIABLES
    shipped,    \* each side's peer is the other one, and no other QUIC program
    backend,    \* the backend of both sides
    cConnected, cReady, cEndpoint, cStream, cNotifier, cChannel, cArmed, cFault,
    sConnected, sReady, sEndpoint, sStream, sNotifier, sChannel, sArmed, sFault,
    unseen      \* streams the client has opened and the server has not seen

clientVars == <<cConnected, cReady, cEndpoint, cStream, cNotifier, cChannel, cArmed, cFault>>
serverVars == <<sConnected, sReady, sEndpoint, sStream, sNotifier, sChannel, sArmed, sFault>>
vars == <<shipped, backend, clientVars, serverVars, unseen>>

Client == INSTANCE SessionChannels WITH
    Role <- "client", connected <- cConnected, ready <- cReady, endpoint <- cEndpoint,
    stream <- cStream, notifier <- cNotifier, channel <- cChannel, armed <- cArmed,
    fault <- cFault

Server == INSTANCE SessionChannels WITH
    Role <- "server", connected <- sConnected, ready <- sReady, endpoint <- sEndpoint,
    stream <- sStream, notifier <- sNotifier, channel <- sChannel, armed <- sArmed,
    fault <- sFault

Init ==
    /\ shipped \in BOOLEAN
    /\ Client!Init
    /\ Server!Init
    /\ unseen = {}

\* The client's handshake completes and its endpoint opens a stream; the first
\* data of the stream is on its way.
OpenStream(s) ==
    /\ Client!HandshakeComplete(s)
    /\ unseen' = unseen \cup {s}
    /\ UNCHANGED <<shipped, serverVars>>

\* The first packet of a stream, or a later copy of it, reaches the server.
DeliverStream(s) ==
    /\ s \in unseen
    /\ Server!CreateIncomingStream(s)
    /\ unseen' = unseen \ {s}
    /\ UNCHANGED <<shipped, clientVars>>

\* A stream of another QUIC program reaches the client or the server.
ForeignStream(s) ==
    /\ ~shipped
    /\ \/ Client!CreateIncomingStream(s) /\ UNCHANGED serverVars
       \/ Server!CreateIncomingStream(s) /\ UNCHANGED clientVars
    /\ UNCHANGED <<shipped, unseen>>

ClientEvent ==
    /\ \/ \E s \in Streams : Client!StreamDestroyed(s)
       \/ Client!CloseConnection
       \/ Client!SessionDestroyed
    /\ UNCHANGED <<shipped, serverVars, unseen>>

ServerEvent ==
    /\ \/ \E s \in Streams : Server!StreamDestroyed(s)
       \/ Server!CloseConnection
       \/ Server!SessionDestroyed
    /\ UNCHANGED <<shipped, clientVars, unseen>>

Next ==
    \/ \E s \in Streams : OpenStream(s) \/ DeliverStream(s) \/ ForeignStream(s)
    \/ ClientEvent
    \/ ServerEvent

Spec == Init /\ [][Next]_vars

-----------------------------------------------------------------------------
TypeOK ==
    /\ shipped \in BOOLEAN
    /\ Client!TypeOK
    /\ Server!TypeOK
    /\ unseen \subseteq Streams

(***************************************************************************)
(* No endpoint keeps a pointer to a channel that is gone, so its           *)
(* destructor does not write to freed memory, in whatever order streams    *)
(* come, supersede each other in channel_ and are destroyed.               *)
(***************************************************************************)
ChannelIsLive == Client!ChannelIsLive /\ Server!ChannelIsLive

(***************************************************************************)
(* Whoever its peer is, a session that only ever had one channel is        *)
(* destroyed cleanly.  The freed endpoint is called back only if a second  *)
(* channel took the place of the first in channel_, or the end of one      *)
(* channel cleared the pointer to the other.                               *)
(***************************************************************************)
OneChannelIsSafe == Client!OneChannelIsSafe /\ Server!OneChannelIsSafe

(***************************************************************************)
(* The write alarm of a bandwidth channel does not survive its stream,     *)
(* whichever of the stream and the session is destroyed first: its         *)
(* callback writes to the stream.                                          *)
(***************************************************************************)
AlarmHasItsStream == Client!AlarmHasItsStream /\ Server!AlarmHasItsStream

(***************************************************************************)
(* With the backends of the repository no session, of either side, ever    *)
(* uses a freed endpoint or channel, in whatever order streams, sessions   *)
(* and the connection end on the two sides: the server sees one stream at  *)
(* most, and one channel is safe.                                          *)
(***************************************************************************)
ShippedPairIsSafe == shipped => cFault = "none" /\ sFault = "none"
=============================================================================
