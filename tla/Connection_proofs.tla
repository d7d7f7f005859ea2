-------------------------- MODULE Connection_proofs --------------------------
(***************************************************************************)
(* The sessions of a connection, for any set of streams.  The invariant of *)
(* a session is SessionChannels!IInv, and it is preserved by every step of *)
(* the session, whoever its peer is.  What the shipped pair adds is that   *)
(* the client opens one stream and the server sees no other.               *)
(***************************************************************************)
EXTENDS Connection, TLAPS

USE ConnectionAssumption

-----------------------------------------------------------------------------
(* The client session.                                                     *)

LEMMA ClientInit ==
    ASSUME Client!Init
    PROVE  Client!IInv
BY DEF Client!Init, Client!IInv, Client!TypeOK, Client!ChannelIsLive,
       Client!AlarmHasItsStream, Client!EndpointIsMade,
       Client!ChannelHasItsStream, Client!ForgottenIsOneOfSeveral,
       Client!FaultNeedsSeveral, Client!Channels

\* The invariant speaks of the session's own variables.
LEMMA ClientStutters ==
    ASSUME Client!IInv, UNCHANGED <<backend, cConnected, cReady, cEndpoint, cStream,
                                 cNotifier, cChannel, cArmed, cFault>>
    PROVE  Client!IInv'
BY DEF Client!IInv, Client!TypeOK, Client!ChannelIsLive, Client!AlarmHasItsStream,
       Client!EndpointIsMade, Client!ChannelHasItsStream,
       Client!ForgottenIsOneOfSeveral, Client!FaultNeedsSeveral, Client!Channels

\* The stream the client opens is its first channel: it was not ready before.
LEMMA ClientHandshakeComplete ==
    ASSUME Client!IInv, NEW s \in Streams, Client!HandshakeComplete(s)
    PROVE  Client!IInv'
BY DEF Client!HandshakeComplete, Client!OnSessionReady, Client!CreateStream,
       Client!Attach, Client!StartFillData, Client!Working, Client!IInv,
       Client!TypeOK, Client!ChannelIsLive, Client!AlarmHasItsStream,
       Client!EndpointIsMade, Client!ChannelHasItsStream,
       Client!ForgottenIsOneOfSeveral, Client!FaultNeedsSeveral, Client!Channels

\* A new channel takes the place of the old one in channel_: both are channels.
LEMMA ClientCreateIncomingStream ==
    ASSUME Client!IInv, NEW s \in Streams, Client!CreateIncomingStream(s)
    PROVE  Client!IInv'
BY DEF Client!CreateIncomingStream, Client!OnIncomingStream, Client!Accepts,
       Client!CreateStream, Client!Attach, Client!Working, Client!IInv,
       Client!TypeOK, Client!ChannelIsLive, Client!AlarmHasItsStream,
       Client!EndpointIsMade, Client!ChannelHasItsStream,
       Client!ForgottenIsOneOfSeveral, Client!FaultNeedsSeveral, Client!Channels

\* The end of one channel clears channel_: any other open channel is forgotten.
LEMMA ClientStreamDestroyed ==
    ASSUME Client!IInv, NEW s \in Streams, Client!StreamDestroyed(s)
    PROVE  Client!IInv'
BY DEF Client!StreamDestroyed, Client!OnChannelDestroy, Client!CancelAlarms,
       Client!Working, Client!IInv, Client!TypeOK, Client!ChannelIsLive,
       Client!AlarmHasItsStream, Client!EndpointIsMade,
       Client!ChannelHasItsStream, Client!ForgottenIsOneOfSeveral,
       Client!FaultNeedsSeveral, Client!Channels

LEMMA ClientCloseConnection ==
    ASSUME Client!IInv, Client!CloseConnection
    PROVE  Client!IInv'
BY DEF Client!CloseConnection, Client!Working, Client!IInv, Client!TypeOK,
       Client!ChannelIsLive, Client!AlarmHasItsStream, Client!EndpointIsMade,
       Client!ChannelHasItsStream, Client!ForgottenIsOneOfSeveral,
       Client!FaultNeedsSeveral, Client!Channels

\* The channel in channel_ is open, so nothing freed is written to; a caller is
\* an open channel that is not in channel_, hence one of several.
LEMMA ClientSessionDestroyed ==
    ASSUME Client!IInv, Client!SessionDestroyed
    PROVE  Client!IInv'
<1> USE DEF Client!SessionDestroyed, Client!EndpointDestroyed, Client!CancelAlarms,
            Client!Working, Client!Channels
<1>1. /\ Client!TypeOK
      /\ Client!ChannelIsLive
      /\ Client!ForgottenIsOneOfSeveral
      /\ Client!ChannelHasItsStream
      BY DEF Client!IInv
<1>2. Client!Channels' = Client!Channels
      BY <1>1 DEF Client!TypeOK, Client!ChannelIsLive
<1>3. Client!TypeOK'
      BY <1>1, <1>2 DEF Client!TypeOK
<1>4. Client!ChannelIsLive'
      BY <1>1 DEF Client!TypeOK, Client!ChannelIsLive
<1>5. Client!AlarmHasItsStream'
      BY <1>1 DEF Client!TypeOK, Client!AlarmHasItsStream, Client!IInv
<1>6. Client!EndpointIsMade'
      BY DEF Client!EndpointIsMade
<1>7. Client!ChannelHasItsStream'
      BY <1>1, <1>2 DEF Client!TypeOK, Client!ChannelHasItsStream
<1>8. Client!ForgottenIsOneOfSeveral'
      BY DEF Client!ForgottenIsOneOfSeveral
<1>9. Client!FaultNeedsSeveral'
  <2>1. SUFFICES ASSUME cFault' = "freed_endpoint"
                 PROVE  \E s, t \in Client!Channels : s # t
        BY <1>2 DEF Client!FaultNeedsSeveral
  <2>2. PICK s \in Streams : cStream[s] = "open" /\ cChannel # s /\ cNotifier[s] = "endpoint"
        BY <2>1
  <2>3. PICK t \in Client!Channels : t # s
        BY <1>1, <2>2 DEF Client!ForgottenIsOneOfSeveral
  <2> QED BY <2>2, <2>3
<1> QED BY <1>3, <1>4, <1>5, <1>6, <1>7, <1>8, <1>9 DEF Client!IInv

-----------------------------------------------------------------------------
(* The server session.                                                     *)

LEMMA ServerInit ==
    ASSUME Server!Init
    PROVE  Server!IInv
BY DEF Server!Init, Server!IInv, Server!TypeOK, Server!ChannelIsLive,
       Server!AlarmHasItsStream, Server!EndpointIsMade,
       Server!ChannelHasItsStream, Server!ForgottenIsOneOfSeveral,
       Server!FaultNeedsSeveral, Server!Channels

\* The invariant speaks of the session's own variables.
LEMMA ServerStutters ==
    ASSUME Server!IInv, UNCHANGED <<backend, sConnected, sReady, sEndpoint, sStream,
                                 sNotifier, sChannel, sArmed, sFault>>
    PROVE  Server!IInv'
BY DEF Server!IInv, Server!TypeOK, Server!ChannelIsLive, Server!AlarmHasItsStream,
       Server!EndpointIsMade, Server!ChannelHasItsStream,
       Server!ForgottenIsOneOfSeveral, Server!FaultNeedsSeveral, Server!Channels

\* A new channel takes the place of the old one in channel_: both are channels.
LEMMA ServerCreateIncomingStream ==
    ASSUME Server!IInv, NEW s \in Streams, Server!CreateIncomingStream(s)
    PROVE  Server!IInv'
<1> USE DEF Server!CreateIncomingStream, Server!OnIncomingStream,
            Server!CreateStream,
            Server!Working, Server!Channels, Server!TypeOK
<1>1. /\ Server!TypeOK
      /\ Server!ChannelIsLive
      /\ Server!EndpointIsMade
      /\ Server!ChannelHasItsStream
      /\ Server!ForgottenIsOneOfSeveral
      BY DEF Server!IInv
<1>2. /\ sNotifier[s] = "no_channel"
      /\ sStream'[s] = "open"
      /\ \A t \in Streams \ {s} : sStream'[t] = sStream[t] /\ sNotifier'[t] = sNotifier[t]
      /\ sEndpoint # "freed" /\ sFault = "none" /\ sFault' = "none"
      BY <1>1 DEF Server!ChannelHasItsStream, Server!Attach
<1>3. \/ /\ sChannel' = s
         /\ sNotifier' = [sNotifier EXCEPT ![s] = "endpoint"]
      \/ UNCHANGED <<sChannel, sNotifier>>
      BY DEF Server!Attach
<1>4. Server!TypeOK'
      BY <1>1, <1>3 DEF Server!EndpointIsMade
<1>5. Server!ChannelIsLive'
      BY <1>1, <1>2, <1>3 DEF Server!ChannelIsLive
<1>6. Server!AlarmHasItsStream'
      BY <1>2 DEF Server!AlarmHasItsStream, Server!IInv
<1>7. Server!EndpointIsMade'
      BY <1>1 DEF Server!EndpointIsMade
<1>8. Server!ChannelHasItsStream'
      BY <1>1, <1>2 DEF Server!ChannelHasItsStream
<1>9. Server!ForgottenIsOneOfSeveral'
  <2>1. SUFFICES ASSUME NEW t \in Streams, sStream'[t] = "open",
                        sNotifier'[t] = "endpoint", sChannel' # t
                 PROVE  \E u \in Server!Channels' : u # t
        BY DEF Server!ForgottenIsOneOfSeveral
  <2>2. t # s
        BY <1>2, <1>3, <2>1
  <2>3. CASE sChannel' = s /\ sNotifier' = [sNotifier EXCEPT ![s] = "endpoint"]
    <3>1. s \in Server!Channels'
          BY <1>1, <2>3
    <3> QED BY <2>2, <3>1
  <2>4. CASE UNCHANGED <<sChannel, sNotifier>>
        BY <1>1, <1>2, <2>1, <2>2, <2>4 DEF Server!ForgottenIsOneOfSeveral
  <2> QED BY <1>3, <2>3, <2>4
<1>10. Server!FaultNeedsSeveral'
      BY <1>2 DEF Server!FaultNeedsSeveral
<1> QED BY <1>4, <1>5, <1>6, <1>7, <1>8, <1>9, <1>10 DEF Server!IInv

\* The end of one channel clears channel_: any other open channel is forgotten.
LEMMA ServerStreamDestroyed ==
    ASSUME Server!IInv, NEW s \in Streams, Server!StreamDestroyed(s)
    PROVE  Server!IInv'
BY DEF Server!StreamDestroyed, Server!OnChannelDestroy, Server!CancelAlarms,
       Server!Working, Server!IInv, Server!TypeOK, Server!ChannelIsLive,
       Server!AlarmHasItsStream, Server!EndpointIsMade,
       Server!ChannelHasItsStream, Server!ForgottenIsOneOfSeveral,
       Server!FaultNeedsSeveral, Server!Channels

LEMMA ServerCloseConnection ==
    ASSUME Server!IInv, Server!CloseConnection
    PROVE  Server!IInv'
BY DEF Server!CloseConnection, Server!Working, Server!IInv, Server!TypeOK,
       Server!ChannelIsLive, Server!AlarmHasItsStream, Server!EndpointIsMade,
       Server!ChannelHasItsStream, Server!ForgottenIsOneOfSeveral,
       Server!FaultNeedsSeveral, Server!Channels

\* The channel in channel_ is open, so nothing freed is written to; a caller is
\* an open channel that is not in channel_, hence one of several.
LEMMA ServerSessionDestroyed ==
    ASSUME Server!IInv, Server!SessionDestroyed
    PROVE  Server!IInv'
<1> USE DEF Server!SessionDestroyed, Server!EndpointDestroyed, Server!CancelAlarms,
            Server!Working, Server!Channels
<1>1. /\ Server!TypeOK
      /\ Server!ChannelIsLive
      /\ Server!ForgottenIsOneOfSeveral
      /\ Server!ChannelHasItsStream
      BY DEF Server!IInv
<1>2. Server!Channels' = Server!Channels
      BY <1>1 DEF Server!TypeOK, Server!ChannelIsLive
<1>3. Server!TypeOK'
      BY <1>1, <1>2 DEF Server!TypeOK
<1>4. Server!ChannelIsLive'
      BY <1>1 DEF Server!TypeOK, Server!ChannelIsLive
<1>5. Server!AlarmHasItsStream'
      BY <1>1 DEF Server!TypeOK, Server!AlarmHasItsStream, Server!IInv
<1>6. Server!EndpointIsMade'
      BY DEF Server!EndpointIsMade
<1>7. Server!ChannelHasItsStream'
      BY <1>1, <1>2 DEF Server!TypeOK, Server!ChannelHasItsStream
<1>8. Server!ForgottenIsOneOfSeveral'
      BY DEF Server!ForgottenIsOneOfSeveral
<1>9. Server!FaultNeedsSeveral'
  <2>1. SUFFICES ASSUME sFault' = "freed_endpoint"
                 PROVE  \E s, t \in Server!Channels : s # t
        BY <1>2 DEF Server!FaultNeedsSeveral
  <2>2. PICK s \in Streams : sStream[s] = "open" /\ sChannel # s /\ sNotifier[s] = "endpoint"
        BY <2>1
  <2>3. PICK t \in Server!Channels : t # s
        BY <1>1, <2>2 DEF Server!ForgottenIsOneOfSeveral
  <2> QED BY <2>2, <2>3
<1> QED BY <1>3, <1>4, <1>5, <1>6, <1>7, <1>8, <1>9 DEF Server!IInv

-----------------------------------------------------------------------------
(* The pair.                                                               *)

\* A step of either session leaves the other one's variables alone; no session
\* changes its backend.
THEOREM SessionsAreInvariant == Spec => [](Client!IInv /\ Server!IInv)
<1>1. Init => Client!IInv /\ Server!IInv
      BY ClientInit, ServerInit DEF Init
<1>2. Client!IInv /\ Server!IInv /\ [Next]_vars => Client!IInv' /\ Server!IInv'
  <2> SUFFICES ASSUME Client!IInv, Server!IInv, [Next]_vars
               PROVE  Client!IInv' /\ Server!IInv'
      OBVIOUS
  <2>1. ASSUME NEW s \in Streams, OpenStream(s)
        PROVE  Client!IInv' /\ Server!IInv'
    <3>1. Client!IInv'
          BY <2>1, ClientHandshakeComplete DEF OpenStream
    <3>2. Server!IInv'
          BY <2>1, ServerStutters DEF OpenStream, serverVars, Client!HandshakeComplete
    <3> QED BY <3>1, <3>2
  <2>2. ASSUME NEW s \in Streams, DeliverStream(s)
        PROVE  Client!IInv' /\ Server!IInv'
    <3>1. Server!IInv'
          BY <2>2, ServerCreateIncomingStream DEF DeliverStream
    <3>2. Client!IInv'
          BY <2>2, ClientStutters DEF DeliverStream, clientVars, Server!CreateIncomingStream
    <3> QED BY <3>1, <3>2
  <2>3. ASSUME NEW s \in Streams, ForeignStream(s)
        PROVE  Client!IInv' /\ Server!IInv'
    <3>1. CASE Client!CreateIncomingStream(s) /\ UNCHANGED serverVars
      <4>1. Client!IInv'
            BY <3>1, ClientCreateIncomingStream
      <4>2. Server!IInv'
            BY <3>1, ServerStutters DEF serverVars, Client!CreateIncomingStream
      <4> QED BY <4>1, <4>2
    <3>2. CASE Server!CreateIncomingStream(s) /\ UNCHANGED clientVars
      <4>1. Server!IInv'
            BY <3>2, ServerCreateIncomingStream
      <4>2. Client!IInv'
            BY <3>2, ClientStutters DEF clientVars, Server!CreateIncomingStream
      <4> QED BY <4>1, <4>2
    <3> QED BY <2>3, <3>1, <3>2 DEF ForeignStream
  <2>4. CASE ClientEvent
    <3>1. Client!IInv'
          BY <2>4, ClientStreamDestroyed, ClientCloseConnection, ClientSessionDestroyed
          DEF ClientEvent
    <3>2. UNCHANGED backend
          BY <2>4 DEF ClientEvent, Client!StreamDestroyed, Client!CloseConnection,
                      Client!SessionDestroyed
    <3>3. Server!IInv'
          BY <2>4, <3>2, ServerStutters DEF ClientEvent, serverVars
    <3> QED BY <3>1, <3>3
  <2>5. CASE ServerEvent
    <3>1. Server!IInv'
          BY <2>5, ServerStreamDestroyed, ServerCloseConnection, ServerSessionDestroyed
          DEF ServerEvent
    <3>2. UNCHANGED backend
          BY <2>5 DEF ServerEvent, Server!StreamDestroyed, Server!CloseConnection,
                      Server!SessionDestroyed
    <3>3. Client!IInv'
          BY <2>5, <3>2, ClientStutters DEF ServerEvent, clientVars
    <3> QED BY <3>1, <3>3
  <2>6. CASE UNCHANGED vars
        BY <2>6, ClientStutters, ServerStutters DEF vars, clientVars, serverVars
  <2> QED BY <2>1, <2>2, <2>3, <2>4, <2>5, <2>6 DEF Next
<1> QED BY <1>1, <1>2, PTL DEF Spec

\* TypeOK: every variable of both sessions keeps its type, and a session with a
\* channel is ready and has made its endpoint.
THEOREM TypeCorrect ==
    Spec => [](Client!TypeOK /\ Server!TypeOK)
BY SessionsAreInvariant, PTL DEF Client!IInv, Server!IInv

\* ChannelIsLive: no endpoint keeps a pointer to a channel that is gone.
THEOREM PointersAreLive == Spec => []ChannelIsLive
<1>1. Client!IInv /\ Server!IInv => ChannelIsLive
      BY DEF ChannelIsLive, Client!IInv, Server!IInv
<1> QED BY <1>1, SessionsAreInvariant, PTL

\* AlarmHasItsStream: no write alarm outlives the stream its callback writes to.
THEOREM AlarmsEndWithStreams == Spec => []AlarmHasItsStream
<1>1. Client!IInv /\ Server!IInv => AlarmHasItsStream
      BY DEF AlarmHasItsStream, Client!IInv, Server!IInv
<1> QED BY <1>1, SessionsAreInvariant, PTL

\* OneChannelIsSafe: only a session with several channels calls a freed endpoint.
THEOREM OneChannelNeverFaults == Spec => []OneChannelIsSafe
<1>1. Client!IInv /\ Server!IInv => OneChannelIsSafe
      BY DEF OneChannelIsSafe, Client!IInv, Server!IInv, Client!OneChannelIsSafe,
             Server!OneChannelIsSafe, Client!FaultNeedsSeveral, Server!FaultNeedsSeveral
<1> QED BY <1>1, SessionsAreInvariant, PTL

-----------------------------------------------------------------------------
(* The shipped pair.                                                       *)

\* The client opens its stream when it becomes ready, which it does once.
ClientStreamIsOne ==
    /\ \A s \in Streams : cStream[s] # "none" => cReady
    /\ \A s, t \in Streams : cStream[s] # "none" /\ cStream[t] # "none" => s = t

\* What is on its way to the server, or has been there, the client has opened.
ServerStreamIsTheClients ==
    \A s \in Streams : s \in unseen \/ sStream[s] # "none" => cStream[s] # "none"

PairInv == shipped => ClientStreamIsOne /\ ServerStreamIsTheClients

\* A stream's past does not change: no step makes "none" of it.
LEMMA ClientStreamsStay ==
    ASSUME Client!TypeOK, ClientEvent
    PROVE  /\ \A s \in Streams : cStream'[s] = "none" <=> cStream[s] = "none"
           /\ UNCHANGED cReady
BY DEF ClientEvent, Client!TypeOK, Client!StreamDestroyed, Client!CloseConnection,
       Client!SessionDestroyed

LEMMA ServerStreamsStay ==
    ASSUME Server!TypeOK, ServerEvent
    PROVE  \A s \in Streams : sStream'[s] = "none" <=> sStream[s] = "none"
BY DEF ServerEvent, Server!TypeOK, Server!StreamDestroyed, Server!CloseConnection,
       Server!SessionDestroyed

THEOREM PairIsInvariant == Spec => []PairInv
<1>1. Init => PairInv
      BY DEF Init, PairInv, ClientStreamIsOne, ServerStreamIsTheClients, Client!Init,
             Server!Init
<1>2. Client!TypeOK /\ Server!TypeOK /\ PairInv /\ [Next]_vars => PairInv'
  <2> SUFFICES ASSUME Client!TypeOK, Server!TypeOK, PairInv, [Next]_vars, shipped'
               PROVE  ClientStreamIsOne' /\ ServerStreamIsTheClients'
      BY DEF PairInv
  <2>1. shipped /\ ClientStreamIsOne /\ ServerStreamIsTheClients
        BY DEF PairInv, Next, OpenStream, DeliverStream, ForeignStream, ClientEvent,
               ServerEvent, vars
  <2>2. cStream \in [Streams -> {"none", "open", "destroyed"}]
        /\ sStream \in [Streams -> {"none", "open", "destroyed"}]
        BY DEF Client!TypeOK, Server!TypeOK
  <2>3. ASSUME NEW s \in Streams, OpenStream(s)
        PROVE  ClientStreamIsOne' /\ ServerStreamIsTheClients'
    <3>1. /\ ~cReady
          /\ cReady'
          /\ cStream' = [cStream EXCEPT ![s] = "open"]
          BY <2>3 DEF OpenStream, Client!HandshakeComplete, Client!OnSessionReady,
                      Client!CreateStream
    <3>2. \A t \in Streams : cStream[t] = "none"
          BY <2>1, <3>1 DEF ClientStreamIsOne
    <3>3. ClientStreamIsOne'
          BY <2>2, <3>1, <3>2 DEF ClientStreamIsOne
    <3>4. unseen' = unseen \cup {s} /\ UNCHANGED sStream
          BY <2>3 DEF OpenStream, serverVars
    <3>5. ServerStreamIsTheClients'
          BY <2>1, <2>2, <3>1, <3>4 DEF ServerStreamIsTheClients
    <3> QED BY <3>3, <3>5
  <2>4. ASSUME NEW s \in Streams, DeliverStream(s)
        PROVE  ClientStreamIsOne' /\ ServerStreamIsTheClients'
    <3>1. /\ s \in unseen
          /\ unseen' = unseen \ {s}
          /\ sStream' = [sStream EXCEPT ![s] = "open"]
          /\ UNCHANGED <<cReady, cStream>>
          BY <2>4 DEF DeliverStream, clientVars, Server!CreateIncomingStream,
                      Server!CreateStream
    <3>2. ClientStreamIsOne'
          BY <2>1, <3>1 DEF ClientStreamIsOne
    <3>3. ServerStreamIsTheClients'
          BY <2>1, <2>2, <3>1 DEF ServerStreamIsTheClients
    <3> QED BY <3>2, <3>3
  <2>5. ~ \E s \in Streams : ForeignStream(s)
        BY <2>1 DEF ForeignStream
  <2>6. CASE ClientEvent
        BY <2>1, <2>6, ClientStreamsStay
        DEF ClientEvent, serverVars, ClientStreamIsOne, ServerStreamIsTheClients
  <2>7. CASE ServerEvent
        BY <2>1, <2>7, ServerStreamsStay
        DEF ServerEvent, clientVars, ClientStreamIsOne, ServerStreamIsTheClients
  <2>8. CASE UNCHANGED vars
        BY <2>1, <2>8
        DEF vars, clientVars, serverVars, ClientStreamIsOne, ServerStreamIsTheClients
  <2> QED BY <2>3, <2>4, <2>5, <2>6, <2>7, <2>8 DEF Next
<1> QED BY <1>1, <1>2, TypeCorrect, PTL DEF Spec

\* ShippedPairIsSafe: one stream makes one channel, on either side, and a session
\* with one channel uses nothing that is freed.
THEOREM ShippedPairNeverFaults == Spec => []ShippedPairIsSafe
<1>1. Client!IInv /\ Server!IInv /\ PairInv => ShippedPairIsSafe
  <2> SUFFICES ASSUME Client!IInv, Server!IInv, PairInv, shipped
               PROVE  cFault = "none" /\ sFault = "none"
      BY DEF ShippedPairIsSafe
  <2>1. \A s, t \in Client!Channels : s = t
        BY DEF PairInv, ClientStreamIsOne, Client!IInv, Client!ChannelHasItsStream,
               Client!Channels
  <2>2. \A s, t \in Server!Channels : s = t
        BY DEF PairInv, ClientStreamIsOne, ServerStreamIsTheClients, Server!IInv,
               Server!ChannelHasItsStream, Server!Channels
  <2>3. cFault = "none"
        BY <2>1 DEF Client!IInv, Client!TypeOK, Client!ChannelIsLive,
                    Client!FaultNeedsSeveral
  <2>4. sFault = "none"
        BY <2>2 DEF Server!IInv, Server!TypeOK, Server!ChannelIsLive,
                    Server!FaultNeedsSeveral
  <2> QED BY <2>3, <2>4
<1> QED BY <1>1, SessionsAreInvariant, PairIsInvariant, PTL
=============================================================================
