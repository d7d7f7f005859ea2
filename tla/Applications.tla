---------------------------- MODULE Applications ----------------------------
(***************************************************************************)
(* The two ns-3 applications around a connection, QuicClientApp and        *)
(* QuicServerApp: the sockets they are bound to, their start and stop, and *)
(* the packets that pass between them.                                     *)
(*                                                                         *)
(* ns-3 starts each application once and stops it once.  A socket is bound *)
(* before that and queues what comes; it calls RecvPacket once for every   *)
(* packet that arrives, and RecvPacket reads one packet, the oldest.       *)
(*                                                                         *)
(* Of QUIC only this is kept: a client's hello opens a session at the      *)
(* server, either side may send as long as its session is open, and a      *)
(* CONNECTION_CLOSE ends the session of the side that reads it.  The path  *)
(* keeps the order and loses packets.                                      *)
(***************************************************************************)
EXTENDS Integers, Sequences

CONSTANT MaxSeq     \* bound: packets a side sends before it stops

ASSUME ApplicationsAssumption == MaxSeq \in Nat \ {0}

VARIABLES
    shipped,    \* the applications are scheduled as in quic-main, or anyhow
    life,       \* "bound", "running" (m_running) or "stopped"
    session,    \* the QUIC session of a side: "none", "open", "closed"
    queue,      \* packets in the socket, not read yet
    wire,       \* packets on their way to a side
    seq,        \* packets a side has sent: m_seq - 1
    early,      \* history: packets that came before the side was started
    told        \* history: a CONNECTION_CLOSE has come while it was running

vars == <<shipped, life, session, queue, wire, seq, early, told>>

Sides == {"client", "server"}
Kinds == {"hello", "data", "close"}
Peer(s) == CHOOSE p \in Sides : p # s

\* Both sockets are bound, neither application is started.
Init ==
    /\ shipped \in BOOLEAN
    /\ life = [s \in Sides |-> "bound"]
    /\ session = [s \in Sides |-> "none"]
    /\ queue = [s \in Sides |-> <<>>]
    /\ wire = [s \in Sides |-> <<>>]
    /\ seq = [s \in Sides |-> 0]
    /\ early = [s \in Sides |-> 0]
    /\ told = [s \in Sides |-> FALSE]

\* SendToNetwork: s sends packets, behind what it sent before.
Sent(s, packets) ==
    /\ wire' = [wire EXCEPT ![Peer(s)] = @ \o packets]
    /\ seq' = [seq EXCEPT ![s] = @ + Len(packets)]

-----------------------------------------------------------------------------
\* quic-main gives both applications their times.  The server starts at the
\* instant of the first client, so it runs before a packet can have crossed the
\* link.  It stops 10 s after the clients, and everything sent until then has
\* come or is lost.
InTime(s, event) ==
    CASE event = "arrive"                -> life["server"] # "bound"
      [] s = "client" /\ event = "stop"  -> life["server"] = "running"
      [] s = "server" /\ event = "stop"  -> life["client"] = "stopped" /\ wire["server"] = <<>>
      [] OTHER -> TRUE

\* StartApplication sets m_running before it does anything else.
Starts(s) ==
    /\ life[s] = "bound"
    /\ life' = [life EXCEPT ![s] = "running"]

\* The server makes its dispatcher, of the backend it was constructed with.
StartServer ==
    /\ Starts("server")
    /\ UNCHANGED <<shipped, session, queue, wire, seq, early, told>>

\* The client makes its QUIC client, which registers for packets and connects:
\* it has a session, which says hello.
AsynConnect == session' = [session EXCEPT !["client"] = "open"]

InitialAndConnect == AsynConnect /\ Sent("client", <<"hello">>)

StartClient ==
    /\ Starts("client")
    /\ InitialAndConnect
    /\ UNCHANGED <<shipped, queue, early, told>>

\* Closing the session of s, if it is open, sends its last packet.
Closes(s) ==
    /\ session' = [session EXCEPT ![s] = IF @ = "open" THEN "closed" ELSE @]
    /\ IF session[s] = "open" THEN Sent(s, <<"close">>) ELSE UNCHANGED <<wire, seq>>

Stops(s) ==
    /\ life[s] = "running"
    /\ shipped => InTime(s, "stop")
    /\ life' = [life EXCEPT ![s] = "stopped"]

\* m_impl is destroyed, and with it the QUIC client, which disconnects.
StopClient ==
    /\ Stops("client")
    /\ Closes("client")
    /\ UNCHANGED <<shipped, queue, early, told>>

\* Mistake: m_running is cleared first, and SendToNetwork drops what the
\* dispatcher sends when it is shut down.
StopServer_NotRunningFirst ==
    /\ Stops("server")
    /\ session' = [session EXCEPT !["server"] = IF @ = "open" THEN "closed" ELSE @]
    /\ UNCHANGED <<shipped, queue, wire, seq, early, told>>

\* The dispatcher is shut down and closes its sessions, then m_running is
\* cleared.
StopServer ==
    /\ Stops("server")
    /\ Closes("server")
    /\ UNCHANGED <<shipped, queue, early, told>>

-----------------------------------------------------------------------------
\* What s may send at once in answer to a packet.  A server answers for a
\* closed session with a termination packet, if at all.
Answers(s, kind) ==
    CASE session[s] = "open"   -> IF kind = "close" THEN {<<>>} ELSE {<<>>, <<"data">>}
      [] session[s] = "none"   -> IF kind = "hello" THEN {<<"data">>} ELSE {<<>>}
      [] session[s] = "closed" ->
            IF s = "server" /\ kind # "close" THEN {<<>>, <<"close">>} ELSE {<<>>}

\* The session of s processes a packet.
ProcessUdpPacket(s, kind) ==
    IF session[s] = "open" /\ kind = "close" THEN "closed" ELSE session[s]

\* The server's dispatcher makes a session for a hello it knows none for.
Dispatched(kind) == IF kind = "hello" THEN "open" ELSE "none"

\* The session of s once it has processed a packet.
Processed(s, kind) ==
    IF s = "server" /\ session[s] = "none" THEN Dispatched(kind) ELSE ProcessUdpPacket(s, kind)

\* Mistakes: the socket is emptied, whatever it holds behind the oldest packet;
\* a packet is read only when another one has come behind it.
RecvPacket_Discards(s, q) ==
    \E answer \in Answers(s, Head(q)) :
        /\ seq[s] + Len(answer) <= MaxSeq
        /\ queue' = [queue EXCEPT ![s] = <<>>]
        /\ session' = [session EXCEPT ![s] = Processed(s, Head(q))]
        /\ wire' = [wire EXCEPT ![s] = Tail(@), ![Peer(s)] = @ \o answer]
        /\ seq' = [seq EXCEPT ![s] = @ + Len(answer)]

RecvPacket_ReadsBehind(s, q) ==
    \E answer \in Answers(s, Head(q)) :
        /\ seq[s] + Len(answer) <= MaxSeq
        /\ queue' = [queue EXCEPT ![s] = IF Len(q) > 1 THEN Tail(q) ELSE q]
        /\ session' = [session EXCEPT ![s] = IF Len(q) > 1 THEN Processed(s, Head(q)) ELSE @]
        /\ wire' = [wire EXCEPT ![s] = Tail(@), ![Peer(s)] = @ \o answer]
        /\ seq' = [seq EXCEPT ![s] = @ + Len(answer)]

\* RecvPacket of a running side whose socket holds q: the oldest packet is
\* read, processed and, it may be, answered.
RecvPacket(s, q) ==
    \E answer \in Answers(s, Head(q)) :
        /\ seq[s] + Len(answer) <= MaxSeq
        /\ queue' = [queue EXCEPT ![s] = Tail(q)]
        /\ session' = [session EXCEPT ![s] = Processed(s, Head(q))]
        /\ wire' = [wire EXCEPT ![s] = Tail(@), ![Peer(s)] = @ \o answer]
        /\ seq' = [seq EXCEPT ![s] = @ + Len(answer)]

\* A packet reaches the socket of a running side.
ArriveRunning(s) ==
    /\ life[s] = "running"
    /\ wire[s] # <<>>
    /\ shipped => InTime(s, "arrive")
    /\ RecvPacket(s, Append(queue[s], Head(wire[s])))
    /\ told' = [told EXCEPT ![s] = @ \/ Head(wire[s]) = "close"]
    /\ UNCHANGED <<shipped, life, early>>

\* A packet reaches the socket of a side that does not run: RecvPacket returns
\* at once and leaves it there.
ArriveIdle(s) ==
    /\ life[s] # "running"
    /\ wire[s] # <<>>
    /\ shipped => InTime(s, "arrive")
    /\ queue' = [queue EXCEPT ![s] = Append(@, Head(wire[s]))]
    /\ wire' = [wire EXCEPT ![s] = Tail(@)]
    /\ early' = [early EXCEPT ![s] = IF life[s] = "bound" THEN @ + 1 ELSE @]
    /\ UNCHANGED <<shipped, life, session, seq, told>>

Lose(s) ==
    /\ wire[s] # <<>>
    /\ wire' = [wire EXCEPT ![s] = Tail(@)]
    /\ UNCHANGED <<shipped, life, session, queue, seq, early, told>>

\* An open session sends: stream data, or again what was not acknowledged.
SendPacket(s) ==
    /\ session[s] = "open"
    /\ seq[s] < MaxSeq
    /\ \E kind \in IF s = "client" THEN {"hello", "data"} ELSE {"data"} : Sent(s, <<kind>>)
    /\ UNCHANGED <<shipped, life, session, queue, early, told>>

\* The session has heard nothing for too long and closes without a word.
IdleTimeout(s) ==
    /\ session[s] = "open"
    /\ session' = [session EXCEPT ![s] = "closed"]
    /\ UNCHANGED <<shipped, life, queue, wire, seq, early, told>>

Next ==
    \/ StartServer
    \/ StartClient
    \/ StopClient
    \/ StopServer
    \/ \E s \in Sides :
        \/ ArriveRunning(s)
        \/ ArriveIdle(s)
        \/ Lose(s)
        \/ SendPacket(s)
        \/ IdleTimeout(s)

Spec == Init /\ [][Next]_vars

-----------------------------------------------------------------------------
\* Only a side that runs has an open session.
TypeOK ==
    /\ shipped \in BOOLEAN
    /\ life \in [Sides -> {"bound", "running", "stopped"}]
    /\ session \in [Sides -> {"none", "open", "closed"}]
    /\ queue \in [Sides -> Seq(Kinds)]
    /\ wire \in [Sides -> Seq(Kinds)]
    /\ seq \in [Sides -> 0..MaxSeq + 1]
    /\ early \in [Sides -> Nat]
    /\ told \in [Sides -> BOOLEAN]
    /\ \A s \in Sides : session[s] = "open" => life[s] = "running"

(***************************************************************************)
(* An application that starts late never catches up: as long as it runs,   *)
(* its socket holds as many unread packets as came before the start,       *)
(* however many are sent, lost or answered.  Scheduled as in quic-main,    *)
(* the server reads every packet that ever reaches its socket, one per     *)
(* callback: none is left when it has stopped, the client's                *)
(* CONNECTION_CLOSE, which is the last to come, included.                  *)
(***************************************************************************)
BacklogNeverShrinks ==
    /\ \A s \in Sides : life[s] = "running" => Len(queue[s]) = early[s]
    /\ shipped => queue["server"] = <<>>

(***************************************************************************)
(* A side that was started in time acts on the CONNECTION_CLOSE of its     *)
(* peer as soon as it arrives: its session does not linger.                *)
(***************************************************************************)
CloseIsHeard ==
    \A s \in Sides : told[s] /\ early[s] = 0 => session[s] # "open"

(***************************************************************************)
(* Stopping an application in the middle of a connection is announced: its *)
(* CONNECTION_CLOSE gets out of the applications' own gates (m_running,    *)
(* m_impl, m_socket), behind everything it sent before, and is its last    *)
(* word: no alarm and no late packet makes it send again.                  *)
(***************************************************************************)
StopIsAnnounced ==
    [][\A s \in Sides :
        /\ life[s] = "running" /\ life'[s] = "stopped" /\ session[s] = "open"
            => wire'[Peer(s)] = Append(wire[Peer(s)], "close")
        /\ life[s] = "stopped" => seq'[s] = seq[s]]_vars
=============================================================================
