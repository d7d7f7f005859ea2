------------------------ MODULE Applications_proofs ------------------------
(***************************************************************************)
(* The two applications, however many packets they send: what a late start *)
(* leaves in a socket, that a CONNECTION_CLOSE is acted on, and that a     *)
(* stop is announced and final.                                            *)
(***************************************************************************)
EXTENDS Applications, SequenceTheorems, TLAPS

USE ApplicationsAssumption

-----------------------------------------------------------------------------
(* The invariant.                                                          *)

\* Nothing happens to a side before its start, but for what its socket queues.
BoundIsUntouched ==
    \A s \in Sides : life[s] = "bound" =>
        /\ session[s] = "none"
        /\ seq[s] = 0
        /\ ~told[s]
        /\ Len(queue[s]) = early[s]

\* Only the last packet of a session may go beyond the bound.
OnlyCloseIsBeyond == \A s \in Sides : session[s] # "closed" => seq[s] <= MaxSeq

\* quic-main stops the server last, when nothing is on its way to it any more.
ServerStopsLast ==
    shipped /\ life["server"] = "stopped" => life["client"] = "stopped" /\ wire["server"] = <<>>

HasClose(w) == \E i \in 1..Len(w) : w[i] = "close"

NoHello(w) == \A i \in 1..Len(w) : w[i] # "hello"

\* No hello comes behind a CONNECTION_CLOSE.
HelloFirst(w) == \A i, j \in 1..Len(w) : i < j /\ w[i] = "close" => w[j] # "hello"

\* The client's CONNECTION_CLOSE ends its session, and with it its hellos: the
\* server that heard it makes no session again.
CloseEndsTheHellos ==
    /\ HasClose(wire["server"]) \/ told["server"] => session["client"] = "closed"
    /\ HelloFirst(wire["server"])
    /\ told["server"] => NoHello(wire["server"])

IInv ==
    /\ TypeOK
    /\ BoundIsUntouched
    /\ OnlyCloseIsBeyond
    /\ BacklogNeverShrinks
    /\ ServerStopsLast
    /\ CloseEndsTheHellos
    /\ CloseIsHeard

-----------------------------------------------------------------------------
(* Sequences of packets.                                                   *)

LEMMA PeerOfSides ==
    /\ Peer("client") = "server"
    /\ Peer("server") = "client"
    /\ Sides = {"client", "server"}
BY DEF Peer, Sides

LEMMA SentFacts ==
    ASSUME wire \in [Sides -> Seq(Kinds)], seq \in [Sides -> Int],
           NEW s \in Sides, NEW kind \in Kinds, Sent(s, <<kind>>)
    PROVE  /\ wire' = [wire EXCEPT ![Peer(s)] = Append(@, kind)]
           /\ seq' = [seq EXCEPT ![s] = @ + 1]
<1>1. Peer(s) \in Sides
      BY PeerOfSides
<1>2. wire[Peer(s)] \o <<kind>> = Append(wire[Peer(s)], kind)
      BY <1>1, AppendIsConcat
<1>3. Len(<<kind>>) = 1
      OBVIOUS
<1> QED BY <1>2, <1>3 DEF Sent

\* The oldest packet leaves: it may be the CONNECTION_CLOSE.
LEMMA TailFacts ==
    ASSUME NEW w \in Seq(Kinds), w # <<>>
    PROVE  /\ Head(w) \in Kinds
           /\ Tail(w) \in Seq(Kinds)
           /\ Head(w) = "close" \/ HasClose(Tail(w)) => HasClose(w)
           /\ HelloFirst(w) => HelloFirst(Tail(w))
           /\ NoHello(w) => NoHello(Tail(w))
           /\ Head(w) = "close" /\ HelloFirst(w) => NoHello(Tail(w))
<1>1. /\ Head(w) \in Kinds
      /\ Tail(w) \in Seq(Kinds)
      /\ Len(Tail(w)) = Len(w) - 1
      /\ \A i \in 1..Len(Tail(w)) : Tail(w)[i] = w[i + 1]
      BY HeadTailProperties
<1>2. Len(w) \in Nat \ {0} /\ Head(w) = w[1]
      BY EmptySeq
<1> DEFINE t == Tail(w)
           n == Len(w)
<1>3. n \in Nat \ {0} /\ Len(t) = n - 1 /\ \A i \in 1..n - 1 : i + 1 \in 1..n /\ t[i] = w[i + 1]
      BY <1>1, <1>2
<1> HIDE DEF t
<1>4. Head(w) = "close" \/ HasClose(t) => HasClose(w)
      BY <1>2, <1>3 DEF HasClose
<1>5. HelloFirst(w) => HelloFirst(t)
      BY <1>3 DEF HelloFirst
<1>6. Head(w) = "close" /\ HelloFirst(w) => NoHello(t)
      BY <1>2, <1>3 DEF HelloFirst, NoHello
<1>7. NoHello(w) => NoHello(t)
      BY <1>3 DEF NoHello
<1> QED BY <1>1, <1>4, <1>5, <1>6, <1>7 DEF t

\* A packet is sent behind the others: anything by a client that has not closed,
\* stream data by any.
LEMMA AppendFacts ==
    ASSUME NEW w \in Seq(Kinds), NEW kind \in Kinds
    PROVE  /\ Append(w, kind) \in Seq(Kinds)
           /\ HasClose(Append(w, kind)) => HasClose(w) \/ kind = "close"
           /\ ~HasClose(w) => HelloFirst(Append(w, kind))
           /\ HelloFirst(w) /\ kind = "data" => HelloFirst(Append(w, kind))
           /\ NoHello(w) /\ kind = "data" => NoHello(Append(w, kind))
<1> DEFINE a == Append(w, kind)
           n == Len(w)
<1>1. /\ a \in Seq(Kinds)
      /\ n \in Nat
      /\ Len(a) = n + 1
      /\ \A i \in 1..n : a[i] = w[i]
      /\ a[n + 1] = kind
      BY AppendProperties, LenProperties
<1> HIDE DEF a
<1>2. \A i \in 1..Len(a) : (i \in 1..n /\ a[i] = w[i]) \/ (i = n + 1 /\ a[i] = kind)
      BY <1>1
<1>3. HasClose(a) => HasClose(w) \/ kind = "close"
  <2>1. SUFFICES ASSUME NEW i \in 1..Len(a), a[i] = "close", kind # "close"
                 PROVE  \E j \in 1..n : w[j] = "close"
        BY DEF HasClose
  <2> QED BY <1>2, <2>1
<1>4. ~HasClose(w) => HelloFirst(a)
  <2>1. SUFFICES ASSUME ~HasClose(w),
                        NEW i \in 1..Len(a), NEW j \in 1..Len(a), i < j, a[i] = "close"
                 PROVE  FALSE
        BY DEF HelloFirst
  <2>2. i \in 1..n /\ a[i] = w[i]
        BY <1>1, <2>1
  <2> QED BY <2>1, <2>2 DEF HasClose
<1>5. HelloFirst(w) /\ kind = "data" => HelloFirst(a)
  <2>1. SUFFICES ASSUME HelloFirst(w), kind = "data",
                        NEW i \in 1..Len(a), NEW j \in 1..Len(a), i < j, a[i] = "close"
                 PROVE  a[j] # "hello"
        BY DEF HelloFirst
  <2>2. i \in 1..n /\ a[i] = w[i]
        BY <1>1, <2>1
  <2> QED BY <1>2, <2>1, <2>2 DEF HelloFirst
<1>6. NoHello(w) /\ kind = "data" => NoHello(a)
      BY <1>2 DEF NoHello
<1> QED BY <1>1, <1>3, <1>4, <1>5, <1>6 DEF a

-----------------------------------------------------------------------------
(* What an arrival does.                                                   *)

\* Only a hello opens a session, and only at the server; a closed one stays so.
LEMMA ProcessedFacts ==
    ASSUME NEW s \in Sides, session \in [Sides -> {"none", "open", "closed"}], NEW kind \in Kinds
    PROVE  /\ Processed(s, kind) \in {"none", "open", "closed"}
           /\ kind = "close" => Processed(s, kind) # "open"
           /\ session[s] = "closed" => Processed(s, kind) = "closed"
           /\ Processed(s, kind) = "open"
                => \/ session[s] = "open"
                   \/ s = "server" /\ session[s] = "none" /\ kind = "hello"
           /\ Processed(s, kind) # "closed" => session[s] # "closed"
BY DEF Processed, ProcessUdpPacket, Dispatched

LEMMA AnswersFacts ==
    ASSUME NEW s \in Sides, session \in [Sides -> {"none", "open", "closed"}], NEW kind \in Kinds,
           NEW answer \in Answers(s, kind)
    PROVE  \/ answer = <<>>
           \/ answer = <<"data">>
           \/ answer = <<"close">> /\ s = "server"
<1>1. CASE session[s] = "open"
      BY <1>1 DEF Answers
<1>2. CASE session[s] = "none"
      BY <1>2 DEF Answers
<1>3. CASE session[s] = "closed"
      BY <1>3 DEF Answers
<1> QED BY <1>1, <1>2, <1>3

\* One packet comes, one is read: the socket of a running side holds as many as
\* before.  What the peer gets is an answer or nothing.
LEMMA ArrivalFacts ==
    ASSUME TypeOK, NEW s \in Sides, ArriveRunning(s)
    PROVE  \E kind \in Kinds :
           /\ queue[s] = <<>> => kind = Head(wire[s])
           /\ queue' = [queue EXCEPT ![s] = queue'[s]]
           /\ queue'[s] \in Seq(Kinds)
           /\ Len(queue'[s]) = Len(queue[s])
           /\ session' = [session EXCEPT ![s] = Processed(s, kind)]
           /\ \/ wire' = [wire EXCEPT ![s] = Tail(@)]
              \/ wire' = [wire EXCEPT ![s] = Tail(@), ![Peer(s)] = Append(@, "data")]
              \/ /\ wire' = [wire EXCEPT ![s] = Tail(@), ![Peer(s)] = Append(@, "close")]
                 /\ s = "server"
           /\ seq' = [seq EXCEPT ![s] = seq'[s]]
           /\ seq'[s] \in 0..MaxSeq
<1>1. /\ wire[s] # <<>>
      /\ wire[s] \in Seq(Kinds)
      /\ queue[s] \in Seq(Kinds)
      /\ seq[s] \in Nat
      BY DEF ArriveRunning, TypeOK
<1> DEFINE q == Append(queue[s], Head(wire[s]))
<1>2. Head(wire[s]) \in Kinds
      BY <1>1, HeadTailProperties
<1>3. /\ q \in Seq(Kinds)
      /\ q # <<>>
      /\ Len(q) = Len(queue[s]) + 1
      /\ queue[s] = <<>> => Head(q) = Head(wire[s])
      BY <1>1, <1>2, AppendProperties, HeadTailAppend
<1>4. /\ Head(q) \in Kinds
      /\ Tail(q) \in Seq(Kinds)
      /\ Len(Tail(q)) = Len(q) - 1
      BY <1>3, HeadTailProperties
<1>5. Len(Tail(q)) = Len(queue[s])
      BY <1>1, <1>3, <1>4, LenProperties
<1>6. PICK answer \in Answers(s, Head(q)) :
          /\ seq[s] + Len(answer) <= MaxSeq
          /\ queue' = [queue EXCEPT ![s] = Tail(q)]
          /\ session' = [session EXCEPT ![s] = Processed(s, Head(q))]
          /\ wire' = [wire EXCEPT ![s] = Tail(@), ![Peer(s)] = @ \o answer]
          /\ seq' = [seq EXCEPT ![s] = @ + Len(answer)]
      BY DEF ArriveRunning, RecvPacket
<1> HIDE DEF q
<1>7. queue'[s] = Tail(q) /\ queue' = [queue EXCEPT ![s] = queue'[s]]
      BY <1>6 DEF TypeOK
<1>8. Peer(s) \in Sides /\ Peer(s) # s
      BY PeerOfSides
<1>9. wire[Peer(s)] \in Seq(Kinds)
      BY <1>8 DEF TypeOK
<1>10. \/ answer = <<>>
       \/ answer = <<"data">>
       \/ answer = <<"close">> /\ s = "server"
      BY <1>4, AnswersFacts DEF TypeOK
<1>11. Len(answer) \in Nat
      BY <1>10
<1>12. seq'[s] = seq[s] + Len(answer) /\ seq' = [seq EXCEPT ![s] = seq'[s]]
      BY <1>6 DEF TypeOK
<1>13. seq'[s] \in 0..MaxSeq
      BY <1>1, <1>6, <1>11, <1>12
<1>14. \/ wire' = [wire EXCEPT ![s] = Tail(@)]
       \/ wire' = [wire EXCEPT ![s] = Tail(@), ![Peer(s)] = Append(@, "data")]
       \/ /\ wire' = [wire EXCEPT ![s] = Tail(@), ![Peer(s)] = Append(@, "close")]
          /\ s = "server"
  <2>1. CASE answer = <<>>
    <3>1. wire[Peer(s)] \o answer = wire[Peer(s)]
          BY <1>9, <2>1, ConcatEmptySeq
    <3> QED BY <1>6, <1>8, <3>1 DEF TypeOK
  <2>2. CASE answer = <<"data">>
    <3>1. wire[Peer(s)] \o answer = Append(wire[Peer(s)], "data")
          BY <1>9, <2>2, AppendIsConcat DEF Kinds
    <3> QED BY <1>6, <1>8, <3>1 DEF TypeOK
  <2>3. CASE answer = <<"close">> /\ s = "server"
    <3>1. wire[Peer(s)] \o answer = Append(wire[Peer(s)], "close")
          BY <1>9, <2>3, AppendIsConcat DEF Kinds
    <3> QED BY <1>6, <1>8, <2>3, <3>1 DEF TypeOK
  <2> QED BY <1>10, <2>1, <2>2, <2>3
<1> USE <1>4
<1> WITNESS Head(q) \in Kinds
<1> QED BY <1>3, <1>4, <1>5, <1>6, <1>7, <1>12, <1>13, <1>14

-----------------------------------------------------------------------------
(* The steps.                                                              *)

\* What reaches the server keeps its order when a packet leaves or stream data is
\* sent behind it.
LEMMA HellosAreKept ==
    ASSUME TypeOK, CloseEndsTheHellos,
           told'["server"] = told["server"],
           session["client"] = "closed" => session'["client"] = "closed",
           \/ wire'["server"] = wire["server"]
           \/ wire["server"] # <<>> /\ wire'["server"] = Tail(wire["server"])
           \/ wire'["server"] = Append(wire["server"], "data")
    PROVE  CloseEndsTheHellos'
<1> DEFINE w == wire["server"]
<1>1. w \in Seq(Kinds) /\ "data" \in Kinds
      BY PeerOfSides DEF TypeOK, Kinds
<1>2. CASE wire'["server"] = w
      BY <1>2 DEF CloseEndsTheHellos
<1>3. CASE w # <<>> /\ wire'["server"] = Tail(w)
      BY <1>1, <1>3, TailFacts DEF CloseEndsTheHellos
<1>4. CASE wire'["server"] = Append(w, "data")
      BY <1>1, <1>4, AppendFacts DEF CloseEndsTheHellos
<1> QED BY <1>2, <1>3, <1>4

\* The server starts.
LEMMA StartServerKeepsInvariant ==
    ASSUME IInv, StartServer
    PROVE  IInv'
<1>1. /\ life["server"] = "bound"
      /\ life' = [life EXCEPT !["server"] = "running"]
      /\ UNCHANGED <<shipped, session, queue, wire, seq, early, told>>
      BY DEF StartServer, Starts
<1>2. TypeOK'
      BY <1>1, PeerOfSides DEF IInv, TypeOK
<1>3. BoundIsUntouched'
      BY <1>1, PeerOfSides DEF IInv, TypeOK, BoundIsUntouched
<1>4. OnlyCloseIsBeyond'
      BY <1>1, PeerOfSides DEF IInv, TypeOK, OnlyCloseIsBeyond
<1>5. BacklogNeverShrinks'
      BY <1>1, PeerOfSides DEF IInv, TypeOK, BacklogNeverShrinks, BoundIsUntouched
<1>6. ServerStopsLast'
      BY <1>1, PeerOfSides DEF IInv, TypeOK, ServerStopsLast
<1>7. CloseEndsTheHellos'
      BY <1>1, PeerOfSides DEF IInv, TypeOK, CloseEndsTheHellos
<1>8. CloseIsHeard'
      BY <1>1, PeerOfSides DEF IInv, TypeOK, CloseIsHeard
<1> QED BY <1>2, <1>3, <1>4, <1>5, <1>6, <1>7, <1>8 DEF IInv

\* The client starts: its session was none, so no CONNECTION_CLOSE of it is about.
LEMMA StartClientKeepsInvariant ==
    ASSUME IInv, StartClient
    PROVE  IInv'
<1>1. /\ life["client"] = "bound"
      /\ life' = [life EXCEPT !["client"] = "running"]
      /\ session' = [session EXCEPT !["client"] = "open"]
      /\ seq' = [seq EXCEPT !["client"] = 1]
      /\ UNCHANGED <<shipped, queue, early, told>>
  <2>1. "hello" \in Kinds /\ seq \in [Sides -> Int] /\ seq["client"] = 0
        BY PeerOfSides DEF StartClient, Starts, Kinds, IInv, TypeOK, BoundIsUntouched
  <2>2. seq' = [seq EXCEPT !["client"] = @ + 1]
        BY <2>1, SentFacts, PeerOfSides DEF StartClient, InitialAndConnect, IInv, TypeOK
  <2> QED BY <2>1, <2>2 DEF StartClient, Starts, InitialAndConnect, AsynConnect
<1>2. /\ wire["server"] \in Seq(Kinds)
      /\ wire'["server"] = Append(wire["server"], "hello")
      /\ wire' \in [Sides -> Seq(Kinds)]
  <2>1. "hello" \in Kinds /\ seq \in [Sides -> Int] /\ wire["server"] \in Seq(Kinds)
        BY PeerOfSides DEF Kinds, IInv, TypeOK
  <2>2. wire' = [wire EXCEPT !["server"] = Append(@, "hello")]
        BY <2>1, SentFacts, PeerOfSides DEF StartClient, InitialAndConnect, IInv, TypeOK
  <2>3. Append(wire["server"], "hello") \in Seq(Kinds)
        BY <2>1, AppendFacts
  <2> QED BY <2>1, <2>2, <2>3, PeerOfSides DEF IInv, TypeOK
<1>3. TypeOK'
      BY <1>1, <1>2, PeerOfSides DEF IInv, TypeOK
<1>4. BoundIsUntouched'
      BY <1>1, PeerOfSides DEF IInv, TypeOK, BoundIsUntouched
<1>5. OnlyCloseIsBeyond'
      BY <1>1, PeerOfSides DEF IInv, TypeOK, OnlyCloseIsBeyond
<1>6. BacklogNeverShrinks'
      BY <1>1, PeerOfSides DEF IInv, TypeOK, BacklogNeverShrinks, BoundIsUntouched
<1>7. ServerStopsLast'
      BY <1>1, <1>2, PeerOfSides DEF IInv, TypeOK, ServerStopsLast
<1>8. CloseEndsTheHellos'
  <2>1. ~HasClose(wire["server"]) /\ ~told["server"]
        BY <1>1, PeerOfSides DEF IInv, BoundIsUntouched, CloseEndsTheHellos
  <2>2. HelloFirst(wire'["server"]) /\ ~HasClose(wire'["server"])
        BY <1>2, <2>1, AppendFacts DEF Kinds
  <2> QED BY <1>1, <2>1, <2>2 DEF CloseEndsTheHellos
<1>9. CloseIsHeard'
      BY <1>1, PeerOfSides DEF IInv, TypeOK, CloseIsHeard, BoundIsUntouched
<1> QED BY <1>3, <1>4, <1>5, <1>6, <1>7, <1>8, <1>9 DEF IInv

\* The client stops, and says so if its session is open.
LEMMA StopClientKeepsInvariant ==
    ASSUME IInv, StopClient
    PROVE  IInv'
<1>1. /\ life["client"] = "running"
      /\ life' = [life EXCEPT !["client"] = "stopped"]
      /\ session' = [session EXCEPT !["client"] = IF @ = "open" THEN "closed" ELSE @]
      /\ seq' = [seq EXCEPT !["client"] = IF session["client"] = "open" THEN @ + 1 ELSE @]
      /\ UNCHANGED <<shipped, queue, early, told>>
  <2>1. "close" \in Kinds /\ seq \in [Sides -> Int]
        BY DEF Kinds, IInv, TypeOK
  <2>2. CASE session["client"] = "open"
        BY <2>1, <2>2, SentFacts, PeerOfSides DEF StopClient, Stops, Closes, IInv, TypeOK
  <2>3. CASE session["client"] # "open"
        BY <2>1, <2>3 DEF StopClient, Stops, Closes, IInv, TypeOK
  <2> QED BY <2>2, <2>3
<1>2. /\ wire["server"] \in Seq(Kinds)
      /\ wire'["client"] = wire["client"]
      /\ IF session["client"] = "open"
         THEN wire'["server"] = Append(wire["server"], "close")
         ELSE wire'["server"] = wire["server"]
      /\ wire' \in [Sides -> Seq(Kinds)]
  <2>1. /\ "close" \in Kinds
        /\ seq \in [Sides -> Int]
        /\ wire["server"] \in Seq(Kinds)
        /\ wire \in [Sides -> Seq(Kinds)]
        BY PeerOfSides DEF Kinds, IInv, TypeOK
  <2>2. CASE session["client"] = "open"
    <3>1. wire' = [wire EXCEPT !["server"] = Append(@, "close")]
          BY <2>1, <2>2, SentFacts, PeerOfSides DEF StopClient, Closes
    <3>2. Append(wire["server"], "close") \in Seq(Kinds)
          BY <2>1, AppendFacts
    <3> QED BY <2>1, <2>2, <3>1, <3>2, PeerOfSides
  <2>3. CASE session["client"] # "open"
        BY <2>1, <2>3 DEF StopClient, Closes
  <2> QED BY <2>2, <2>3
<1>3. TypeOK'
  <2>1. TypeOK /\ "client" \in Sides
        BY PeerOfSides DEF IInv
  <2>2. /\ life' \in [Sides -> {"bound", "running", "stopped"}]
        /\ session' \in [Sides -> {"none", "open", "closed"}]
        BY <1>1, <2>1 DEF TypeOK
  <2>3. seq' \in [Sides -> 0..MaxSeq + 1]
    <3> DEFINE n == IF session["client"] = "open" THEN seq["client"] + 1 ELSE seq["client"]
    <3>1. seq["client"] \in 0..MaxSeq + 1 /\ seq \in [Sides -> 0..MaxSeq + 1]
          BY <2>1 DEF TypeOK
    <3>2. session["client"] = "open" => seq["client"] <= MaxSeq
          BY <2>1 DEF IInv, OnlyCloseIsBeyond
    <3>3. n \in 0..MaxSeq + 1
          BY <3>1, <3>2, ApplicationsAssumption
    <3>4. seq' = [seq EXCEPT !["client"] = n]
          BY <1>1, <2>1, <3>1
    <3> HIDE DEF n
    <3> QED BY <2>1, <3>1, <3>3, <3>4
  <2>4. \A t \in Sides : session'[t] = "open" => life'[t] = "running"
        BY <1>1, <2>1 DEF TypeOK
  <2> QED BY <1>1, <1>2, <2>1, <2>2, <2>3, <2>4 DEF TypeOK
<1>4. BoundIsUntouched'
      BY <1>1, PeerOfSides DEF IInv, TypeOK, BoundIsUntouched
<1>5. OnlyCloseIsBeyond'
      BY <1>1, PeerOfSides DEF IInv, TypeOK, OnlyCloseIsBeyond
<1>6. BacklogNeverShrinks'
      BY <1>1, PeerOfSides DEF IInv, TypeOK, BacklogNeverShrinks
<1>7. ServerStopsLast'
      BY <1>1, PeerOfSides DEF IInv, TypeOK, ServerStopsLast, StopClient, Stops, InTime
<1>8. CloseEndsTheHellos'
  <2>1. CASE session["client"] = "open"
    <3>1. ~HasClose(wire["server"]) /\ ~told["server"]
          BY <2>1 DEF IInv, CloseEndsTheHellos
    <3>2. HelloFirst(wire'["server"])
      <4>1. "close" \in Kinds
            BY DEF Kinds
      <4>2. HelloFirst(Append(wire["server"], "close"))
            BY <1>2, <3>1, <4>1, AppendFacts
      <4> QED BY <1>2, <2>1, <4>2
    <3>3. session'["client"] = "closed"
          BY <1>1, <2>1, PeerOfSides DEF IInv, TypeOK
    <3> QED BY <1>1, <3>1, <3>2, <3>3 DEF CloseEndsTheHellos
  <2>2. CASE session["client"] # "open"
    <3>1. session'["client"] = session["client"] /\ wire'["server"] = wire["server"]
          BY <1>1, <1>2, <2>2, PeerOfSides DEF IInv, TypeOK
    <3> QED BY <1>1, <3>1, HellosAreKept DEF IInv
  <2> QED BY <2>1, <2>2
<1>9. CloseIsHeard'
      BY <1>1, PeerOfSides DEF IInv, TypeOK, CloseIsHeard
<1> QED BY <1>3, <1>4, <1>5, <1>6, <1>7, <1>8, <1>9 DEF IInv

\* The server stops, and says so if its session is open.
LEMMA StopServerKeepsInvariant ==
    ASSUME IInv, StopServer
    PROVE  IInv'
<1>1. /\ life["server"] = "running"
      /\ life' = [life EXCEPT !["server"] = "stopped"]
      /\ session' = [session EXCEPT !["server"] = IF @ = "open" THEN "closed" ELSE @]
      /\ seq' = [seq EXCEPT !["server"] = IF session["server"] = "open" THEN @ + 1 ELSE @]
      /\ UNCHANGED <<shipped, queue, early, told>>
  <2>1. "close" \in Kinds /\ seq \in [Sides -> Int]
        BY DEF Kinds, IInv, TypeOK
  <2>2. CASE session["server"] = "open"
        BY <2>1, <2>2, SentFacts, PeerOfSides DEF StopServer, Stops, Closes, IInv, TypeOK
  <2>3. CASE session["server"] # "open"
        BY <2>1, <2>3 DEF StopServer, Stops, Closes, IInv, TypeOK
  <2> QED BY <2>2, <2>3
<1>2. /\ wire["client"] \in Seq(Kinds)
      /\ wire'["server"] = wire["server"]
      /\ IF session["server"] = "open"
         THEN wire'["client"] = Append(wire["client"], "close")
         ELSE wire'["client"] = wire["client"]
      /\ wire' \in [Sides -> Seq(Kinds)]
  <2>1. /\ "close" \in Kinds
        /\ seq \in [Sides -> Int]
        /\ wire["client"] \in Seq(Kinds)
        /\ wire \in [Sides -> Seq(Kinds)]
        BY PeerOfSides DEF Kinds, IInv, TypeOK
  <2>2. CASE session["server"] = "open"
    <3>1. wire' = [wire EXCEPT !["client"] = Append(@, "close")]
          BY <2>1, <2>2, SentFacts, PeerOfSides DEF StopServer, Closes
    <3>2. Append(wire["client"], "close") \in Seq(Kinds)
          BY <2>1, AppendFacts
    <3> QED BY <2>1, <2>2, <3>1, <3>2, PeerOfSides
  <2>3. CASE session["server"] # "open"
        BY <2>1, <2>3 DEF StopServer, Closes
  <2> QED BY <2>2, <2>3
<1>3. TypeOK'
  <2>1. TypeOK /\ "server" \in Sides
        BY PeerOfSides DEF IInv
  <2>2. /\ life' \in [Sides -> {"bound", "running", "stopped"}]
        /\ session' \in [Sides -> {"none", "open", "closed"}]
        BY <1>1, <2>1 DEF TypeOK
  <2>3. seq' \in [Sides -> 0..MaxSeq + 1]
    <3> DEFINE n == IF session["server"] = "open" THEN seq["server"] + 1 ELSE seq["server"]
    <3>1. seq["server"] \in 0..MaxSeq + 1 /\ seq \in [Sides -> 0..MaxSeq + 1]
          BY <2>1 DEF TypeOK
    <3>2. session["server"] = "open" => seq["server"] <= MaxSeq
          BY <2>1 DEF IInv, OnlyCloseIsBeyond
    <3>3. n \in 0..MaxSeq + 1
          BY <3>1, <3>2, ApplicationsAssumption
    <3>4. seq' = [seq EXCEPT !["server"] = n]
          BY <1>1, <2>1, <3>1
    <3> HIDE DEF n
    <3> QED BY <2>1, <3>1, <3>3, <3>4
  <2>4. \A t \in Sides : session'[t] = "open" => life'[t] = "running"
        BY <1>1, <2>1 DEF TypeOK
  <2> QED BY <1>1, <1>2, <2>1, <2>2, <2>3, <2>4 DEF TypeOK
<1>4. BoundIsUntouched'
      BY <1>1, PeerOfSides DEF IInv, TypeOK, BoundIsUntouched
<1>5. OnlyCloseIsBeyond'
      BY <1>1, PeerOfSides DEF IInv, TypeOK, OnlyCloseIsBeyond
<1>6. BacklogNeverShrinks'
      BY <1>1, PeerOfSides DEF IInv, TypeOK, BacklogNeverShrinks
<1>7. ServerStopsLast'
      BY <1>1, <1>2, PeerOfSides DEF IInv, TypeOK, ServerStopsLast, StopServer, Stops, InTime
<1>8. CloseEndsTheHellos'
  <2>1. session'["client"] = session["client"] /\ wire'["server"] = wire["server"]
        BY <1>1, <1>2, PeerOfSides DEF IInv, TypeOK
  <2> QED BY <1>1, <2>1, HellosAreKept DEF IInv
<1>9. CloseIsHeard'
      BY <1>1, PeerOfSides DEF IInv, TypeOK, CloseIsHeard
<1> QED BY <1>3, <1>4, <1>5, <1>6, <1>7, <1>8, <1>9 DEF IInv

\* A packet is lost.
LEMMA LoseKeepsInvariant ==
    ASSUME IInv, NEW s \in Sides, Lose(s)
    PROVE  IInv'
<1>1. UNCHANGED <<shipped, life, session, queue, seq, early, told>>
      BY DEF Lose
<1>2. /\ wire[s] # <<>>
      /\ wire' = [wire EXCEPT ![s] = Tail(@)]
      /\ wire' \in [Sides -> Seq(Kinds)]
  <2>1. wire[s] # <<>> /\ wire' = [wire EXCEPT ![s] = Tail(@)]
        BY DEF Lose
  <2>2. wire[s] \in Seq(Kinds)
        BY DEF IInv, TypeOK
  <2>3. Tail(wire[s]) \in Seq(Kinds)
        BY <2>1, <2>2, TailFacts
  <2> QED BY <2>1, <2>3 DEF IInv, TypeOK
<1>3. TypeOK'
      BY <1>1, <1>2, PeerOfSides DEF IInv, TypeOK
<1>4. BoundIsUntouched'
      BY <1>1, PeerOfSides DEF IInv, TypeOK, BoundIsUntouched
<1>5. OnlyCloseIsBeyond'
      BY <1>1, PeerOfSides DEF IInv, TypeOK, OnlyCloseIsBeyond
<1>6. BacklogNeverShrinks'
      BY <1>1, PeerOfSides DEF IInv, TypeOK, BacklogNeverShrinks
<1>7. ServerStopsLast'
  <2>1. wire["server"] = <<>> => wire'["server"] = <<>>
        BY <1>2, PeerOfSides DEF IInv, TypeOK
  <2> QED BY <1>1, <2>1 DEF IInv, ServerStopsLast
<1>8. CloseEndsTheHellos'
  <2>1. \/ wire'["server"] = wire["server"]
        \/ wire["server"] # <<>> /\ wire'["server"] = Tail(wire["server"])
        BY <1>2, PeerOfSides DEF IInv, TypeOK
  <2> QED BY <1>1, <2>1, HellosAreKept DEF IInv
<1>9. CloseIsHeard'
      BY <1>1, PeerOfSides DEF IInv, TypeOK, CloseIsHeard
<1> QED BY <1>3, <1>4, <1>5, <1>6, <1>7, <1>8, <1>9 DEF IInv

\* A packet is left in the socket of a side that does not run.  In the shipped
\* schedule that is never the server's: nothing comes before its start, and nothing
\* is on its way when it stops.
LEMMA ArriveIdleKeepsInvariant ==
    ASSUME IInv, NEW s \in Sides, ArriveIdle(s)
    PROVE  IInv'
<1>1. /\ life[s] # "running"
      /\ shipped /\ s = "server" => life[s] = "stopped" /\ wire[s] # <<>>
      /\ queue' = [queue EXCEPT ![s] = queue'[s]]
      /\ queue'[s] \in Seq(Kinds)
      /\ Len(queue'[s]) = Len(queue[s]) + 1
      /\ early' = [early EXCEPT ![s] = IF life[s] = "bound" THEN @ + 1 ELSE @]
      /\ UNCHANGED <<shipped, life, session, seq, told>>
  <2>1. /\ wire[s] \in Seq(Kinds)
        /\ wire[s] # <<>>
        /\ queue[s] \in Seq(Kinds)
        /\ queue' = [queue EXCEPT ![s] = Append(@, Head(wire[s]))]
        BY DEF ArriveIdle, IInv, TypeOK
  <2>2. queue'[s] = Append(queue[s], Head(wire[s]))
        BY <2>1 DEF IInv, TypeOK
  <2>3. /\ Append(queue[s], Head(wire[s])) \in Seq(Kinds)
        /\ Len(Append(queue[s], Head(wire[s]))) = Len(queue[s]) + 1
        BY <2>1, HeadTailProperties, AppendProperties
  <2>4. queue' = [queue EXCEPT ![s] = queue'[s]]
        BY <2>1, <2>2
  <2>5. shipped /\ s = "server" => life[s] = "stopped"
        BY DEF ArriveIdle, InTime, IInv, TypeOK
  <2> QED BY <2>1, <2>2, <2>3, <2>4, <2>5 DEF ArriveIdle
<1>2. /\ wire[s] # <<>>
      /\ wire' = [wire EXCEPT ![s] = Tail(@)]
      /\ wire' \in [Sides -> Seq(Kinds)]
  <2>1. wire[s] # <<>> /\ wire' = [wire EXCEPT ![s] = Tail(@)]
        BY DEF ArriveIdle
  <2>2. wire[s] \in Seq(Kinds)
        BY DEF IInv, TypeOK
  <2>3. Tail(wire[s]) \in Seq(Kinds)
        BY <2>1, <2>2, TailFacts
  <2> QED BY <2>1, <2>3 DEF IInv, TypeOK
<1>3. TypeOK'
  <2>1. TypeOK
        BY DEF IInv
  <2>2. queue' \in [Sides -> Seq(Kinds)]
        BY <1>1, <2>1 DEF TypeOK
  <2>3. early' \in [Sides -> Nat]
        BY <1>1, <2>1 DEF TypeOK
  <2> QED BY <1>1, <1>2, <2>1, <2>2, <2>3 DEF TypeOK
<1>4. BoundIsUntouched'
      BY <1>1, PeerOfSides DEF IInv, TypeOK, BoundIsUntouched
<1>5. OnlyCloseIsBeyond'
      BY <1>1, PeerOfSides DEF IInv, TypeOK, OnlyCloseIsBeyond
<1>6. BacklogNeverShrinks'
  <2>1. ~ (shipped /\ s = "server")
        BY <1>1 DEF IInv, ServerStopsLast
  <2> QED BY <1>1, <2>1, PeerOfSides DEF IInv, TypeOK, BacklogNeverShrinks
<1>7. ServerStopsLast'
  <2>1. wire["server"] = <<>> => wire'["server"] = <<>>
        BY <1>2, PeerOfSides DEF IInv, TypeOK
  <2> QED BY <1>1, <2>1 DEF IInv, ServerStopsLast
<1>8. CloseEndsTheHellos'
  <2>1. \/ wire'["server"] = wire["server"]
        \/ wire["server"] # <<>> /\ wire'["server"] = Tail(wire["server"])
        BY <1>2, PeerOfSides DEF IInv, TypeOK
  <2> QED BY <1>1, <2>1, HellosAreKept DEF IInv
<1>9. CloseIsHeard'
      BY <1>1, PeerOfSides DEF IInv, TypeOK, CloseIsHeard
<1> QED BY <1>3, <1>4, <1>5, <1>6, <1>7, <1>8, <1>9 DEF IInv

\* A session closes without a word.
LEMMA IdleTimeoutKeepsInvariant ==
    ASSUME IInv, NEW s \in Sides, IdleTimeout(s)
    PROVE  IInv'
<1>1. /\ session[s] = "open"
      /\ session' = [session EXCEPT ![s] = "closed"]
      /\ UNCHANGED <<shipped, life, queue, wire, seq, early, told>>
      BY DEF IdleTimeout
<1>2. TypeOK'
      BY <1>1, PeerOfSides DEF IInv, TypeOK
<1>3. BoundIsUntouched'
      BY <1>1, PeerOfSides DEF IInv, TypeOK, BoundIsUntouched
<1>4. OnlyCloseIsBeyond'
      BY <1>1, PeerOfSides DEF IInv, TypeOK, OnlyCloseIsBeyond
<1>5. BacklogNeverShrinks'
      BY <1>1, PeerOfSides DEF IInv, TypeOK, BacklogNeverShrinks
<1>6. ServerStopsLast'
      BY <1>1, PeerOfSides DEF IInv, TypeOK, ServerStopsLast
<1>7. CloseEndsTheHellos'
      BY <1>1, PeerOfSides DEF IInv, TypeOK, CloseEndsTheHellos
<1>8. CloseIsHeard'
      BY <1>1, PeerOfSides DEF IInv, TypeOK, CloseIsHeard
<1> QED BY <1>2, <1>3, <1>4, <1>5, <1>6, <1>7, <1>8 DEF IInv

\* An open session sends, so the client has not closed if it is the client's.
LEMMA SendPacketKeepsInvariant ==
    ASSUME IInv, NEW s \in Sides, SendPacket(s)
    PROVE  IInv'
<1>1. /\ session[s] = "open"
      /\ life[s] = "running"
      /\ seq[s] < MaxSeq
      /\ seq' = [seq EXCEPT ![s] = @ + 1]
      /\ UNCHANGED <<shipped, life, session, queue, early, told>>
  <2>1. PICK kind \in IF s = "client" THEN {"hello", "data"} ELSE {"data"} : Sent(s, <<kind>>)
        BY DEF SendPacket
  <2>2. kind \in Kinds /\ seq \in [Sides -> Int] /\ wire \in [Sides -> Seq(Kinds)]
        BY DEF Kinds, IInv, TypeOK
  <2>3. seq' = [seq EXCEPT ![s] = @ + 1]
        BY <2>1, <2>2, SentFacts
  <2> QED BY <2>3 DEF SendPacket, IInv, TypeOK
<1>2. PICK kind \in Kinds :
          /\ kind # "close"
          /\ wire' = [wire EXCEPT ![Peer(s)] = Append(@, kind)]
          /\ wire' \in [Sides -> Seq(Kinds)]
  <2>1. PICK kind \in IF s = "client" THEN {"hello", "data"} ELSE {"data"} : Sent(s, <<kind>>)
        BY DEF SendPacket
  <2>2. kind \in Kinds /\ seq \in [Sides -> Int] /\ wire \in [Sides -> Seq(Kinds)] /\ kind # "close"
        BY DEF Kinds, IInv, TypeOK
  <2>3. wire' = [wire EXCEPT ![Peer(s)] = Append(@, kind)]
        BY <2>1, <2>2, SentFacts
  <2>4. Peer(s) \in Sides /\ wire[Peer(s)] \in Seq(Kinds)
        BY <2>2, PeerOfSides
  <2>5. Append(wire[Peer(s)], kind) \in Seq(Kinds)
        BY <2>2, <2>4, AppendFacts
  <2>6. wire' \in [Sides -> Seq(Kinds)]
        BY <2>2, <2>3, <2>5
  <2> QED BY <2>2, <2>3, <2>6
<1>3. TypeOK'
      BY <1>1, <1>2, PeerOfSides DEF IInv, TypeOK
<1>4. BoundIsUntouched'
      BY <1>1, PeerOfSides DEF IInv, TypeOK, BoundIsUntouched
<1>5. OnlyCloseIsBeyond'
      BY <1>1, PeerOfSides DEF IInv, TypeOK, OnlyCloseIsBeyond
<1>6. BacklogNeverShrinks'
      BY <1>1, PeerOfSides DEF IInv, TypeOK, BacklogNeverShrinks
<1>7. ServerStopsLast'
  <2>1. s = "server" => wire'["server"] = wire["server"]
        BY <1>2, PeerOfSides DEF IInv, TypeOK
  <2> QED BY <1>1, <2>1, PeerOfSides DEF IInv, ServerStopsLast
<1>8. CloseEndsTheHellos'
  <2>1. CASE s = "client"
    <3>1. ~HasClose(wire["server"]) /\ ~told["server"] /\ wire["server"] \in Seq(Kinds)
          BY <1>1, <2>1, PeerOfSides DEF IInv, TypeOK, CloseEndsTheHellos
    <3>2. wire'["server"] = Append(wire["server"], kind)
          BY <1>2, <2>1, PeerOfSides DEF IInv, TypeOK
    <3>3. HelloFirst(wire'["server"]) /\ ~HasClose(wire'["server"])
          BY <1>2, <3>1, <3>2, AppendFacts
    <3> QED BY <1>1, <3>1, <3>3 DEF CloseEndsTheHellos
  <2>2. CASE s = "server"
    <3>1. wire'["server"] = wire["server"]
          BY <1>2, <2>2, PeerOfSides DEF IInv, TypeOK
    <3> QED BY <1>1, <3>1, HellosAreKept DEF IInv
  <2> QED BY <2>1, <2>2, PeerOfSides
<1>9. CloseIsHeard'
      BY <1>1, PeerOfSides DEF IInv, TypeOK, CloseIsHeard
<1> QED BY <1>3, <1>4, <1>5, <1>6, <1>7, <1>8, <1>9 DEF IInv

\* A running side reads a packet.  If none was left behind by a late start, it is
\* the one that came; a hello cannot come once the client's CONNECTION_CLOSE has.
LEMMA ArriveRunningKeepsInvariant ==
    ASSUME IInv, NEW s \in Sides, ArriveRunning(s)
    PROVE  IInv'
<1>1. PICK kind \in Kinds :
          /\ queue[s] = <<>> => kind = Head(wire[s])
          /\ queue' = [queue EXCEPT ![s] = queue'[s]]
          /\ queue'[s] \in Seq(Kinds)
          /\ Len(queue'[s]) = Len(queue[s])
          /\ session' = [session EXCEPT ![s] = Processed(s, kind)]
          /\ \/ wire' = [wire EXCEPT ![s] = Tail(@)]
             \/ wire' = [wire EXCEPT ![s] = Tail(@), ![Peer(s)] = Append(@, "data")]
             \/ /\ wire' = [wire EXCEPT ![s] = Tail(@), ![Peer(s)] = Append(@, "close")]
                /\ s = "server"
          /\ seq' = [seq EXCEPT ![s] = seq'[s]]
          /\ seq'[s] \in 0..MaxSeq
      BY ArrivalFacts DEF IInv
<1>2. /\ wire[s] # <<>>
      /\ wire[s] \in Seq(Kinds)
      /\ wire'[s] = Tail(wire[s])
      /\ wire' \in [Sides -> Seq(Kinds)]
      /\ s = "client" => wire'["server"] \in {wire["server"], Append(wire["server"], "data")}
  <2>1. /\ wire[s] # <<>>
        /\ wire[s] \in Seq(Kinds)
        /\ Peer(s) \in Sides
        /\ Peer(s) # s
        /\ wire[Peer(s)] \in Seq(Kinds)
        /\ {"data", "close"} \subseteq Kinds
        /\ wire \in [Sides -> Seq(Kinds)]
        BY PeerOfSides DEF ArriveRunning, IInv, TypeOK, Kinds
  <2>2. /\ Tail(wire[s]) \in Seq(Kinds)
        /\ Append(wire[Peer(s)], "data") \in Seq(Kinds)
        /\ Append(wire[Peer(s)], "close") \in Seq(Kinds)
        BY <2>1, TailFacts, AppendFacts
  <2>3. wire'[s] = Tail(wire[s]) /\ wire' \in [Sides -> Seq(Kinds)]
        BY <1>1, <2>1, <2>2
  <2>4. s = "client" => wire'["server"] \in {wire["server"], Append(wire["server"], "data")}
        BY <1>1, <2>1, PeerOfSides
  <2> QED BY <2>1, <2>3, <2>4
<1>3. /\ life[s] = "running"
      /\ told' = [told EXCEPT ![s] = @ \/ Head(wire[s]) = "close"]
      /\ UNCHANGED <<shipped, life, early>>
      BY DEF ArriveRunning
<1>4. /\ Processed(s, kind) \in {"none", "open", "closed"}
      /\ kind = "close" => Processed(s, kind) # "open"
      /\ session[s] = "closed" => Processed(s, kind) = "closed"
      /\ Processed(s, kind) = "open"
           => \/ session[s] = "open"
              \/ s = "server" /\ session[s] = "none" /\ kind = "hello"
      /\ Processed(s, kind) # "closed" => session[s] # "closed"
      BY ProcessedFacts DEF IInv, TypeOK
<1>5. TypeOK'
  <2>1. told' \in [Sides -> BOOLEAN]
        BY <1>3 DEF IInv, TypeOK
  <2>2. queue' \in [Sides -> Seq(Kinds)]
        BY <1>1 DEF IInv, TypeOK
  <2>5. seq' \in [Sides -> 0..MaxSeq + 1]
    <3>1. seq'[s] \in 0..MaxSeq + 1 /\ seq \in [Sides -> 0..MaxSeq + 1]
          BY <1>1 DEF IInv, TypeOK
    <3> QED BY <1>1, <3>1
  <2>3. session' \in [Sides -> {"none", "open", "closed"}]
        BY <1>1, <1>4 DEF IInv, TypeOK
  <2>4. \A t \in Sides : session'[t] = "open" => life'[t] = "running"
        BY <1>1, <1>3 DEF IInv, TypeOK
  <2> QED BY <1>2, <1>3, <2>1, <2>2, <2>3, <2>4, <2>5 DEF IInv, TypeOK
<1>6. BoundIsUntouched'
      BY <1>1, <1>3 DEF IInv, TypeOK, BoundIsUntouched
<1>7. OnlyCloseIsBeyond'
      BY <1>1, <1>4 DEF IInv, TypeOK, OnlyCloseIsBeyond
<1>8. BacklogNeverShrinks'
  <2>1. \A t \in Sides : Len(queue'[t]) = Len(queue[t])
        BY <1>1 DEF IInv, TypeOK
  <2>2. \A t \in Sides : queue[t] \in Seq(Kinds) /\ queue'[t] \in Seq(Kinds)
        BY <1>1 DEF IInv, TypeOK
  <2>3. queue["server"] = <<>> => queue'["server"] = <<>>
        BY <2>1, <2>2, EmptySeq, PeerOfSides
  <2> QED BY <1>3, <2>1, <2>3 DEF IInv, BacklogNeverShrinks
<1>9. ServerStopsLast'
  <2>1. s = "client" \/ s = "server"
        BY PeerOfSides
  <2> QED BY <1>3, <2>1 DEF IInv, ServerStopsLast
<1>10. CloseEndsTheHellos'
  <2>1. CASE s = "client"
    <3>1. session["client"] = "closed" => session'["client"] = "closed"
          BY <1>1, <1>4, <2>1, PeerOfSides DEF IInv, TypeOK
    <3>2. told'["server"] = told["server"]
          BY <1>3, <2>1, PeerOfSides DEF IInv, TypeOK
    <3> QED BY <1>2, <2>1, <3>1, <3>2, HellosAreKept DEF IInv
  <2>2. CASE s = "server"
    <3>1. session'["client"] = session["client"]
          BY <1>1, <2>2, PeerOfSides DEF IInv, TypeOK
    <3>2. CASE Head(wire[s]) = "close"
      <4>1. HasClose(wire["server"]) /\ HelloFirst(wire["server"])
            BY <1>2, <2>2, <3>2, TailFacts DEF IInv, CloseEndsTheHellos
      <4>2. NoHello(wire'["server"]) /\ HelloFirst(wire'["server"])
            BY <1>2, <2>2, <3>2, <4>1, TailFacts
      <4> QED BY <3>1, <4>1, <4>2 DEF IInv, CloseEndsTheHellos
    <3>3. CASE Head(wire[s]) # "close"
      <4>1. told'["server"] = told["server"]
            BY <1>3, <2>2, <3>3, PeerOfSides DEF IInv, TypeOK
      <4> QED BY <1>2, <2>2, <3>1, <4>1, HellosAreKept DEF IInv
    <3> QED BY <3>2, <3>3
  <2> QED BY <2>1, <2>2, PeerOfSides
<1>11. CloseIsHeard'
  <2>1. SUFFICES ASSUME told'[s], early[s] = 0
                 PROVE  session'[s] # "open"
        BY <1>1, <1>3 DEF IInv, TypeOK, CloseIsHeard
  <2>2. session'[s] = Processed(s, kind)
        BY <1>1 DEF IInv, TypeOK
  <2>3. kind = Head(wire[s])
    <3>1. Len(queue[s]) = 0 /\ queue[s] \in Seq(Kinds)
          BY <1>3, <2>1 DEF IInv, TypeOK, BacklogNeverShrinks
    <3> QED BY <1>1, <3>1, EmptySeq
  <2>4. CASE Head(wire[s]) = "close"
        BY <1>4, <2>2, <2>3, <2>4
  <2>5. CASE Head(wire[s]) # "close"
    <3>1. told[s]
          BY <1>3, <2>1, <2>5 DEF IInv, TypeOK
    <3>2. session[s] # "open"
          BY <2>1, <3>1 DEF IInv, CloseIsHeard
    <3>3. s = "server" => kind # "hello"
      <4>1. SUFFICES ASSUME s = "server"
                     PROVE  Head(wire["server"]) # "hello"
            BY <2>3
      <4>2. NoHello(wire["server"]) /\ Len(wire["server"]) >= 1
            BY <1>2, <3>1, <4>1, EmptySeq DEF IInv, CloseEndsTheHellos
      <4> QED BY <1>2, <4>1, <4>2 DEF NoHello
    <3> QED BY <1>4, <2>2, <3>2, <3>3
  <2> QED BY <2>4, <2>5
<1> QED BY <1>5, <1>6, <1>7, <1>8, <1>9, <1>10, <1>11 DEF IInv

-----------------------------------------------------------------------------
(* The theorems.                                                           *)

\* The inductive invariant of the client and the server application.
THEOREM Invariant == Spec => []IInv
<1>1. Init => IInv
  <2> SUFFICES ASSUME Init
               PROVE  IInv
      OBVIOUS
  <2>1. <<>> \in Seq(Kinds) /\ Len(<<>>) = 0
        BY EmptySeq
  <2>2. TypeOK
        BY <2>1 DEF Init, TypeOK
  <2>3. BoundIsUntouched /\ OnlyCloseIsBeyond /\ BacklogNeverShrinks
        BY <2>1, PeerOfSides
        DEF Init, BoundIsUntouched, OnlyCloseIsBeyond, BacklogNeverShrinks
  <2>4. ServerStopsLast /\ CloseIsHeard
        BY PeerOfSides DEF Init, ServerStopsLast, CloseIsHeard
  <2>5. CloseEndsTheHellos
        BY <2>1, PeerOfSides DEF Init, CloseEndsTheHellos, HasClose, HelloFirst, NoHello
  <2> QED BY <2>2, <2>3, <2>4, <2>5 DEF IInv
<1>2. IInv /\ [Next]_vars => IInv'
  <2> SUFFICES ASSUME IInv, [Next]_vars
               PROVE  IInv'
      OBVIOUS
  <2>1. CASE StartServer
        BY <2>1, StartServerKeepsInvariant
  <2>2. CASE StartClient
        BY <2>2, StartClientKeepsInvariant
  <2>3. CASE StopClient
        BY <2>3, StopClientKeepsInvariant
  <2>4. CASE StopServer
        BY <2>4, StopServerKeepsInvariant
  <2>5. ASSUME NEW s \in Sides, ArriveRunning(s)
        PROVE  IInv'
        BY <2>5, ArriveRunningKeepsInvariant
  <2>6. ASSUME NEW s \in Sides, ArriveIdle(s)
        PROVE  IInv'
        BY <2>6, ArriveIdleKeepsInvariant
  <2>7. ASSUME NEW s \in Sides, Lose(s)
        PROVE  IInv'
        BY <2>7, LoseKeepsInvariant
  <2>8. ASSUME NEW s \in Sides, SendPacket(s)
        PROVE  IInv'
        BY <2>8, SendPacketKeepsInvariant
  <2>9. ASSUME NEW s \in Sides, IdleTimeout(s)
        PROVE  IInv'
        BY <2>9, IdleTimeoutKeepsInvariant
  <2>10. CASE UNCHANGED vars
        BY <2>10 DEF vars, IInv, TypeOK, BoundIsUntouched, OnlyCloseIsBeyond,
                     BacklogNeverShrinks, ServerStopsLast, CloseEndsTheHellos, HasClose,
                     HelloFirst, NoHello, CloseIsHeard
  <2> QED BY <2>1, <2>2, <2>3, <2>4, <2>5, <2>6, <2>7, <2>8, <2>9, <2>10 DEF Next
<1> QED BY <1>1, <1>2, PTL DEF Spec

\* TypeOK: queues and wires hold packets, and only a side that runs has an open
\* session.
THEOREM TypeCorrect == Spec => []TypeOK
<1>1. IInv => TypeOK
      BY DEF IInv
<1> QED BY <1>1, Invariant, PTL

\* BacklogNeverShrinks: a late start is never caught up with, and the shipped
\* schedule leaves nothing unread at the server.
THEOREM BacklogStays == Spec => []BacklogNeverShrinks
<1>1. IInv => BacklogNeverShrinks
      BY DEF IInv
<1> QED BY <1>1, Invariant, PTL

\* CloseIsHeard: a side started in time has no open session once the peer's
\* CONNECTION_CLOSE has come, whatever comes behind it.
THEOREM CloseEndsSession == Spec => []CloseIsHeard
<1>1. IInv => CloseIsHeard
      BY DEF IInv
<1> QED BY <1>1, Invariant, PTL

\* StopIsAnnounced: the step that stops a side with an open session sends its
\* CONNECTION_CLOSE, and no later step makes that side send.
THEOREM StopIsLastWord == Spec => StopIsAnnounced
<1> DEFINE Announced ==
        \A s \in Sides :
            /\ life[s] = "running" /\ life'[s] = "stopped" /\ session[s] = "open"
                => wire'[Peer(s)] = Append(wire[Peer(s)], "close")
            /\ life[s] = "stopped" => seq'[s] = seq[s]
<1>1. TypeOK /\ [Next]_vars => [Announced]_vars
  <2> SUFFICES ASSUME TypeOK, Next
               PROVE  Announced
      BY DEF vars
  <2>1. ASSUME NEW s \in Sides, life[s] # "stopped", life' = [life EXCEPT ![s] = "running"],
               seq' = [seq EXCEPT ![s] = seq'[s]]
        PROVE  Announced
        BY <2>1 DEF TypeOK
  <2>2. ASSUME NEW s \in Sides, life[s] = "running", UNCHANGED life,
               seq' = [seq EXCEPT ![s] = seq'[s]]
        PROVE  Announced
        BY <2>2 DEF TypeOK
  <2>3. ASSUME UNCHANGED <<life, seq>>
        PROVE  Announced
        BY <2>3 DEF TypeOK
  <2>4. ASSUME NEW s \in Sides, life[s] = "running", life' = [life EXCEPT ![s] = "stopped"],
               Closes(s)
        PROVE  Announced
    <3>1. "close" \in Kinds /\ seq \in [Sides -> Int] /\ wire \in [Sides -> Seq(Kinds)]
          BY DEF Kinds, TypeOK
    <3>2. session[s] = "open" =>
              /\ wire' = [wire EXCEPT ![Peer(s)] = Append(@, "close")]
              /\ seq' = [seq EXCEPT ![s] = @ + 1]
          BY <3>1, <2>4, SentFacts DEF Closes
    <3>3. session[s] # "open" => UNCHANGED seq
          BY <2>4 DEF Closes
    <3>4. session[s] = "open" => wire'[Peer(s)] = Append(wire[Peer(s)], "close")
          BY <3>1, <3>2, PeerOfSides
    <3>5. \A t \in Sides : t # s => life'[t] = life[t] /\ seq'[t] = seq[t]
          BY <2>4, <3>2, <3>3, PeerOfSides DEF TypeOK
    <3> QED BY <2>4, <3>4, <3>5
  <2>5. CASE StartServer
        BY <2>5, <2>1, PeerOfSides DEF StartServer, Starts, TypeOK
  <2>6. CASE StartClient
    <3>1. "hello" \in Kinds /\ seq \in [Sides -> Int] /\ wire \in [Sides -> Seq(Kinds)]
          BY DEF Kinds, TypeOK
    <3>2. seq' = [seq EXCEPT !["client"] = @ + 1]
          BY <2>6, <3>1, SentFacts, PeerOfSides DEF StartClient, InitialAndConnect
    <3>3. seq' = [seq EXCEPT !["client"] = seq'["client"]]
          BY <3>1, <3>2, PeerOfSides
    <3> QED BY <2>6, <2>1, <3>3, PeerOfSides DEF StartClient, Starts
  <2>7. CASE StopClient
        BY <2>7, <2>4, PeerOfSides DEF StopClient, Stops
  <2>8. CASE StopServer
        BY <2>8, <2>4, PeerOfSides DEF StopServer, Stops
  <2>9. ASSUME NEW s \in Sides, ArriveRunning(s)
        PROVE  Announced
    <3>1. seq' = [seq EXCEPT ![s] = seq'[s]]
          BY <2>9, ArrivalFacts
    <3> QED BY <2>9, <2>2, <3>1 DEF ArriveRunning
  <2>10. ASSUME NEW s \in Sides, ArriveIdle(s) \/ Lose(s) \/ IdleTimeout(s)
         PROVE  Announced
         BY <2>10, <2>3 DEF ArriveIdle, Lose, IdleTimeout
  <2>11. ASSUME NEW s \in Sides, SendPacket(s)
         PROVE  Announced
    <3>1. PICK kind \in {"hello", "data"} : Sent(s, <<kind>>)
          BY <2>11 DEF SendPacket
    <3>2. kind \in Kinds /\ seq \in [Sides -> Int] /\ wire \in [Sides -> Seq(Kinds)]
          BY DEF Kinds, TypeOK
    <3>3. seq' = [seq EXCEPT ![s] = @ + 1]
          BY <3>1, <3>2, SentFacts
    <3>4. seq' = [seq EXCEPT ![s] = seq'[s]]
          BY <3>2, <3>3
    <3> QED BY <2>2, <2>11, <3>4 DEF SendPacket, TypeOK
  <2> HIDE DEF Announced
  <2> QED BY <2>5, <2>6, <2>7, <2>8, <2>9, <2>10, <2>11 DEF Next
<1> QED BY <1>1, TypeCorrect, PTL DEF Spec, StopIsAnnounced
=============================================================================
