# TLA+ models of quic-on-ns3

quic-on-ns3 runs Google's QUIC stack (quiche) inside the ns-3 network simulator. What the
repository adds to the two is glue and a few algorithms: an alarm engine that serves quiche's
alarms from one simulator event, sessions, endpoints and channels that connect streams to
small applications, three congestion controllers, the ns-3 applications with their start and
stop, packet tags and traces. This directory specifies that glue, model-checks it with TLC and
proves part of it with TLAPS. quiche and ns-3 themselves are not here; they appear only as the
environment that calls the code, and such actions say so.

Contents: [inventory](#inventory) · [modules and code](#modules-and-the-code) · [runs](#runs) ·
[fairness](#fairness) · [proofs](#proofs) · [findings](#findings) ·
[not modelled](#what-is-not-modelled) · [plan](#plan) · [how to run](#how-to-run).

## Inventory

Everything runs in one thread, in events of the ns-3 simulator. Concurrency is therefore the
*order* of events and calls: which alarm, packet, handshake, close or destructor comes first,
and which call comes in the middle of a callback.

| Component (src/quic/model) | State | Operations | What is hard |
|---|---|---|---|
| Alarm engine (`ns3-quic-alarm-engine`) | `alarm_map_`, `all_alarms_`, `timer_`; per alarm `deadline_`, `registered_`, `token_` | Set, Update, Cancel, destroy an alarm; destroy the engine; `OnTimeout` | callbacks re-enter the engine while it works on a batch; timers are left stale on purpose; raw tokens and a raw `this` |
| Client and server session, endpoints (`…-session`, `…-backend`) | `ready_`, `endpoint_`, `channel_`, the channels' `notifier_` | handshake completes, incoming stream, stream destroyed, close, session destroyed | two raw pointers between objects of different owners, cleared by destructors in either order |
| Transport stream, channels (`ns3-transport-stream`, `ns3-quic-channel`) | write alarm, `write_bytes_`, `read_bytes_`, quiche's send buffer | `Write`, `Read`, `OnDataAvailable`, `OnCanWriteNewData`, alarm | two callers of one writer; liveness under flow and congestion control; reordering; FIN on the first echo |
| Vegas (`cc-algo/vegas_sender`) | window, threshold, recovery marks, epoch, minimum RTTs, mode | `OnPacketSent`, `OnCongestionEvent` | many acknowledgements and losses in one event; epoch and filter have different lifetimes |
| Copa (`cc-algo/copa_sender`) | window, `velocityState_`, slow start | `OnCongestionEvent` | velocity and direction kept in two places, 64-bit arithmetic |
| CDG (`cc-algo/cdg_sender`, a draft that is not in the wscript) | window, shadow window, ring and sum of RTT gradients, `cdg_state_`, `cong_state_` | `OnPacketSent`, `OnCongestionEvent`, `OnRetransmissionTimeout` | a running sum over a ring that wraps; two state words set one after the other in one event |
| Congestion factory (`ns3-quic-congestion-factory`) | – | `Create` for a type, from the sender the connection began with | two types outside quiche's enumeration; a BBRv2 that takes over from a BBR |
| Applications (`ns3-quic-client-app`, `…-server-app`) | `m_running`, socket, `m_impl`, `m_seq` | Bind, Start, Stop, `RecvPacket`, `SendToNetwork` | packets before the start, closing through gates that the stop itself shuts |
| QUIC client, server, dispatcher | quiche's session map | connect, `ProcessPacket`, `CreateQuicSession`, shutdown | mostly quiche's |
| Tag (`ns3-quic-tag`) | sequence number, time | size, `Serialize`, `Deserialize` | buffer of an exact size, zero |
| Server traces (`ns3-quic-trace`) | loss counters; goodput marks; map of traces; total | `OnOwd`, `LogGoodput`, `LogLostPackets`, `Shutdown`, `CalculateUtil` | loss and reordering; intervals and tail; one dispatcher for two servers |
| Client traces (`ns3-quic-trace`, `ns3-quic-client-app`) | files; the values of the packet before; the callbacks | `OnCwnd`, `OnInFlight`, `OnSendRate`, called from `SendToNetwork` | three records of one value, written on a change only |
| Address pair (`ns3-quic-addr-pair.h`) | the red-black tree of `m_traceDb`, whose key it is | `operator<`, under `find` and `insert` | not an ordering |
| Simulation (`scratch/quic-main.cc`) | options, topology, schedule | links and queues of an instance, clients and their controllers, start and stop times, random loss, utilisation | who starts and stops first; 32-bit products |
| Trace folder (`ns3-quic-util`) | the directories there are | `MakePath`, `IsDirExist`, `set_quic_trace_folder` | a recursion over a file system that other simulations change meanwhile |
| Adapters: packet writer, connection helper, clock, address conversion, flags | none that changes | – | – |

How they interact: quiche calls the alarm engine for every timer; the engine calls quiche back.
A client application owns a client with one session and an engine; a server application owns a
dispatcher whose sessions share an engine. A session owns its endpoint and its streams, a stream
its channel, and endpoint and channel point at each other. The channels write through the stream
into quiche, whose packets go through `SendToNetwork`, which adds a tag, to the peer's
`RecvPacket`, which gives the tag to the trace dispatcher and the packet to the session.

What makes each one correct:

* engine: a set alarm is never lost, late, early or called twice, whatever is called in between;
* sessions: no object uses another after it is destroyed;
* streams: the writer never stalls nor overfills the buffer; what is written is read; streams end;
* controllers: the window respects its minimum (CDG's on a loss or a timeout), reacts once per
  loss event and never moves on inconsistent records; the CHECKs in the code hold; a flow runs
  the one its option names;
* applications: a stop is announced and then silent; a close is heard;
* traces: the count of lost packets, the goodput lines, the total and the client's files mean
  what they say, and a packet is counted for its own pair of addresses;
* simulation: queues hold the round trips an instance asks for, the folder is there when the
  trace files are opened, the utilisation is close to what the link carried.

The hazards, line by line and with the properties that cover them, are in `PROJECT.json`.

## Modules and the code

`AlarmPromise` – the abstract specification of the alarms: armed, moved, disarmed, rung once per
arming at its deadline, one at a time, and time never leaves an armed alarm behind.

`AlarmEngine` – the engine, BaseAlarm and Ns3Alarm. `alarm_map_`/`all_alarms_` are one function
from alarms to `[time, rank]`: an alarm has at most one entry, and `rank` is its place among
entries with an equal key, which is all a multimap's order says. `timer` is the simulator event.
`OnTimeout` is three actions, because callbacks run inside it: `TimerExpire` takes the batch out
of the map into `cbs`, `FireNext`/`EndCallback` are one callback each, during which every
operation of the program is possible (`MayCall`), and `FinishTimeout` is the last `UpdateTimer`.
`fault` names the failed assertion or the undefined behaviour that ends a run. A deadline may lie
up to `MaxLag` in the past, since quiche computes some from earlier times.
`AlarmEngineLive` adds fairness, `MCAlarmEngine` three symmetric alarms and the two claims of
the source that fail, `AlarmEngine_proofs` the theorems.

`SessionChannels` – one session with its endpoint, streams and channels, parameterised by
`Role`. Destructors are whole actions in the order C++ runs them: the endpoint (a member of the
derived session class) before the streams (members of QuicSession). `Connection` composes two of
them, `INSTANCE … WITH`, with the streams that are on their way; `shipped` says whether each
side's peer is the other one or any QUIC program. `MCConnection` gives it three streams,
`Connection_proofs` has the theorems about any number of them.

`BandwidthStream` – one bandwidth transfer, writer to reader: the alarm, quiche's write
callback, send buffer, congestion and flow control window, and chunks that arrive in any order.
`HelloExchange` – a hello of several pieces and the echo, with FINs and the end of both streams.
`ByteStream` – the abstract specification of one direction of a stream: what is read is a
beginning of what was written, the end is told after all of it and only after a FIN, and all of it
arrives unless the connection goes away. The bandwidth transfer and both directions of the hello
exchange implement it (`CarriesBytes`). `Streams_proofs` proves that of all three, but for the
arrival.

`VegasSender` – all fields of the class as one record `sender`; an event folds `OnPacketLost`
and `OnPacketAcked` over its losses and acknowledgements, as the code's loops do. The windowed
filter keeps exactly the samples that can still be the minimum (quiche keeps three estimates of
it). `CopaSender` – every branch of `OnPacketAcked`, with `velocity` in `VelocityBits` bits; the
two RTT filters are any values in the order minimum ≤ standing ≤ latest. `CdgSender` – the draft,
as far as it is written; its header says how each missing word is read. The backoff's random key
is a choice (`drawn`), and so is what hybrid slow start answers (`exits`). The loops over an
event's losses and acknowledgements are recursive functions over the packet numbers (`LoseAll`,
`AckAll`). `Controllers` puts the three together; its CONSTANTS are theirs, `Controllers.cfg` gives a
small instance and `Controllers_proofs` proves its properties for any.

`CongestionChoice` – from a command line over the clients' names and types to the senders the
factory makes, with what a debug build asserts and an optimised one lets pass.

`Applications` – both applications with socket queues, the wire in each direction, and of QUIC
the hello, data and close packets. `shipped` chooses quic-main's schedule (`InTime`) or any.
`Applications_proofs` has the theorems.

`LossTrace` – sequence numbers, losses and the trace's counters, on a path that keeps the order
or not (`fifo`). `TagCodec` – the tag's encoding as pure operators. `TaggedTrace` extends both:
the trace gets what is decoded from the tag. `ServerTrace` – goodput files and total of two
servers with one dispatcher. `AddrPairMap` – the dispatcher's `std::map` over
`Ns3QuicAddressPair::operator<`. Since that is no order, what is found depends on the shape of the
tree, and the module has libstdc++'s red-black tree as a record of records, with its insertion,
rotations and lookup as recursive functions over its subtrees (`Subtrees`). `ClientTrace` – quiche's answers, the values the application
remembers and the lines of the files. `Traces` puts them together; `Traces_proofs` has the theorems.

`Topology` – the links of every instance, the queues in 32-bit products (all are multiples of 64,
so that they are counted in 64ths modulo 2^26), and the utilisation at the end. `TraceFolder` –
several processes in `MakePath`, each with its stack of calls, one system call at a time; a path
is its names and the number of slashes behind them. `Simulation` puts them and `CongestionChoice`
together; how long a simulation runs, how many make their folders, of which names and how deep,
and which other options and controllers are asked for are its CONSTANTS. `Simulation_proofs` has the
theorems.

`Controllers`, `Traces` and `Simulation` are compositions of parts that share no state: a flow has
one controller, each trace file has its own records, and `main` does one thing after the other. No
interleaving of two parts can reach a state of one part that it does not reach alone; therefore
one part moves at a time (`running`, `subject` name it) and the states are the sum of the parts'
and not their product. `Connection`, by contrast, is a composition whose parts do interact.

`Recursion` is not about the code: it has the lemmas on recursive functions and on sums that the
proofs of `Controllers`, `Streams`, `Traces` and `Simulation` share.

Units: time is counted in the clock's ticks (the code's clock cuts nanoseconds to microseconds),
windows in a divisor of the segment size, data in chunks or pieces. Mistaken variants of an
operator (`X_NoFloor` before `X`, and the like) stand in the modules to document what each
property is sensitive to: replacing `X` by its variant violates that property. No specification
uses them.

## Runs

| Run (config) | What it shows | Bounds |
|---|---|---|
| `alarm_engine` (`AlarmEngineLive.cfg`) | `SetAlarmIsHeld`, `TimerCovers`: nothing is lost and the one event always covers the map. `LateSetIsClamped`: `UpdateTimer`'s assertion fails in the step that moves an entry to before now, and in no other; requests are up to one instant late, so it does fail here. `StaleTokenOnlyInBatch`: an erased iterator is used only from a delegate with a batch left. `KeepsPromise`: the engine implements `AlarmPromise`. `SetAlarmIsAnswered`: every set alarm is answered | 3 alarms (a batch of two and one outside it), 4 instants, deadlines one instant late, 4 calls per instant |
| `connection` (`MCConnection.cfg`) | `ChannelIsLive`, `OneChannelIsSafe`, `AlarmHasItsStream` for any peer, `ShippedPairIsSafe` for the two shipped ends | 3 streams, one of them bidirectional: one superseded, one current, one not yet seen |
| `controllers` (`Controllers.cfg`) | Vegas: `EpochHasSamples`; `ChecksHoldInWindow`: the CHECKs hold while no sample can have expired. Copa: `VelocityCountsRtts`, `SlowStartPace`, `NoFastStepBackwards`. CDG: `SumIsOfTheLastRounds`. Vegas and CDG: `RecoveryIsNamed`, `CutIsBounded`. The windows' floors in `TypeOK` | Vegas: 5 packets, 4 in flight, 5 instants; one halving of the initial window stays above the floor and a second reaches it, slow start can end both ways; filter window 2, so an epoch can outlive it. Copa: RTTs 1 and 2, up to 2 acknowledgements, 8 instants (enough RTTs in one direction for velocity to wrap at 3 bits), stop above window 24. CDG: 4 packets, 3 in flight, RTTs 1 and 2, a ring of 2 (it wraps), the two members that are not initialised small or large, segments of 10 units so that 0.707 differs from a half |
| `bandwidth_stream` (`BandwidthStream.cfg`) | `BufferIsBounded`, `NeverStalls`, `CarriesBytes`: the transfer implements `ByteStream` | 6 chunks: more than the threshold (2), the congestion window (3) and the flow window (4) |
| `hello_exchange` (`HelloExchange.cfg`) | `BothStreamsEnd`, and `CarriesBytes` in each direction, on bidirectional and unidirectional streams | 6 pieces, in frames of every size and order |
| `applications` (`Applications.cfg`) | `BacklogNeverShrinks`, `CloseIsHeard`, `StopIsAnnounced` | 4 packets per side: hello, data, one more, close |
| `traces` (`Traces.cfg`) | `LossIsExact` in order, `LossIsNeverUnderstated` out of order, `TagRoundTrips`; `LinesTile`, `TotalCountsEveryByte`; `OnlyCrossedPairsAreLost`, `ShippedPairsAreTraced`; `FileShowsSamples` | 5 packets, base 2 (so that numbers above 3 take three digits), times 0, 1 and 6; two servers of one client, 7 instants (two intervals and a tail), 5 bytes; up to 4 of 18 address pairs, more than quic-main adds of each kind of crossing and enough for a rotation on either side; 4 packets with 3 values of each kind, under every set of flags |
| `simulation` (`Simulation.cfg`) | `BottleneckHoldsItsRtts`, `UtilisationIsNear`; `RunningHasItsFolder`, `InTheEndItRuns`; `FlowRunsWhatIsNamed` | every instance and the other topology, exactly as they are, over 5 half seconds (two whole seconds and a rest); two simulations with folders of up to two of two names, in any tree with at most one file in the way; the six names of controllers and one that is none, any quic-main options and one it does not have, three default types |
| `trace_folder_tree`, `only_alarm_moved`, `engine_freed`, `copa_velocity` | four claims of the source that do not hold, see [findings](#findings) | as above, with one simulation, alarms without late deadlines |

The bounds are far below the real numbers and are chosen so that each mechanism comes into
play at least once and, where it repeats, twice: two alarms in a batch and a third outside, two
epochs, two intervals and a tail, a buffer above and below its threshold, a ring that wraps. Names of bounds are
the CONSTANTS marked `bound:` in the modules; `Traces` gives them in its `INSTANCE` statements, the
others in their configurations. Every run finishes in two minutes or less.
Deadlock is switched off where the modelled system ends: at the horizon, at a failed assertion,
or when all is sent and destroyed.

`StaleTokenOnlyInBatch`, `LateSetIsClamped` and `ChecksHoldInWindow` mark out faults that do exist. A delegate that
cancels, moves or destroys another alarm of *its own batch* makes the engine use an erased
iterator; the property says this is the only way to get there. `RegisterAlarm` raises a late deadline to
now and `ReregisterAlarm` does not, so that a late move fails the assertion of `UpdateTimer`
(`ns3-quic-alarm-engine.cc:99`); the property says that every such move does and nothing else can.
And the CHECK
`min_rtt_ >= base_rtt` of Vegas fails after an epoch that is longer than the 10 s filter window;
the property says it does not before. `OnlyCrossedPairsAreLost` is of the same kind: it says of
which pairs the map may lose one (each must be less than the other), `ShippedPairsAreTraced` that
it loses none of those quic-main adds. And `UtilisationIsNear` allows what is known to be wrong:
up to a second of the link's bandwidth too much, and five sixths in the instances of `topoinfo1`.

The modules also define invariants that no run lists (`TypeOK` of most modules, `WriterStaysArmed`,
`EndpointIsMade`, `AssertionsHold`): most are parts of the inductive invariants below and proved
with them.

## Fairness

* `AlarmEngineLive`: weak fairness of the event loop. `Simulator::Run` takes events until none is
  left, so an event that stays possible happens. Of the program nothing is assumed but that it
  makes finitely many calls at one instant (`MaxOps`); otherwise simulated time need not pass.
* `BandwidthStream`: a set alarm fires (this is `SetAlarmIsAnswered`); quiche calls a stream that
  can send again, resends a chunk until it arrives, acknowledges it and announces what was
  read. Start and close are free. Under this fairness the transfer implements the liveness of
  `ByteStream` too.
* `HelloExchange`: a ready client sends; quiche resends until all has arrived; a closed stream is
  cleaned up.
* `Simulation`: weak fairness of each simulation that makes its folder: the operating system runs
  every process, and the user starts one that was refused again. How often the others are run in
  between is not restricted.

The other specifications state safety only.

## Proofs

What the runs show for small instances the theorems say for every value of the constants. Each
`_proofs` module extends the module it is about; in each the argument is an inductive invariant
(`IInv`, or one with a name of its own), with one proof step per action, and the properties follow
from it. An invariant a run checks is seldom inductive by itself, and what has to be added is told
below.

`AlarmEngine_proofs`, for every finite set of alarms, every horizon and every lag:

* `TypeCorrect`; then an inductive invariant that joins the three records the code keeps of an
  alarm. `SetAlarmIsHeld` alone is not inductive: a step of `OnTimeout` needs to know that
  entries in `cbs` are due exactly now (`BatchIsATie`), that a callback runs only inside
  `OnTimeout`, that an entry's key is the requested deadline raised to the time of the request
  (never more than `MaxLag` above the deadline), and that the timer, when it runs, is not in the
  past and not after the first entry (`TimerCovers`).
* From it: `NoAlarmLost` (`SetAlarmIsHeld`), `TimerAlwaysCovers` (`TimerCovers`),
  `NoAlarmOverdue` (`NeverOverdue`), `BatchIsAlwaysATie` (`BatchIsATie`), `AssertionsNeverFail`
  (`AssertionsHold`), `StaleTokenNeedsABatch` (`StaleTokenOnlyInBatch`), `AlarmsArePunctual`
  (`Punctual`), `LateSetsAreClamped` (`LateSetIsClamped`: `UpdateTimer`'s assertion fails exactly in a
  move of an entry from now or later to before now) and the refinement `EngineKeepsPromise` (`KeepsPromise`): `Init` maps to the
  abstract `Init`, every step to a step of `AlarmPromise` or a stutter.

`Connection_proofs`, for every set of streams, of any size and not even finite:

* Each session's invariant is proved once per operation of `SessionChannels`, in lemmas about the
  two instances, and holds whatever the peer does (`SessionsAreInvariant`). `OneChannelIsSafe` says
  what a destructor does that comes later, so that the invariant has to speak of the state before:
  a live channel that points at an endpoint that does not point back is one of several
  (`ForgottenIsOneOfSeveral`), a session with a channel has made its endpoint (`EndpointIsMade`),
  and a stream that is open has had its channel (`ChannelHasItsStream`).
* `PointersAreLive` (`ChannelIsLive`), `AlarmsEndWithStreams` (`AlarmHasItsStream`),
  `OneChannelNeverFaults` (`OneChannelIsSafe`). For the shipped pair two facts about both sides are
  added: the client opens one stream, and the server has seen none the client has not opened
  (`PairInv`); with them a session has one channel, and `ShippedPairNeverFaults`
  (`ShippedPairIsSafe`) follows from `OneChannelIsSafe`.

`Streams_proofs`, for every threshold, both windows and every number of chunks and pieces:

* `BufferStaysBounded` (`BufferIsBounded`) and `WriterIsAlwaysArmed` (`WriterStaysArmed`), with two
  facts of the environment (the sender stays within both windows) and one about the reader, which
  has read the longest beginning that has arrived (`ReaderHasTheBeginning`).
* `ImplementsByteStream`: every step is a step of `ByteStream` or a stutter. A chunk that arrives
  may let the reader read several; that these are a beginning of what was written is
  `ReadsTheBeginning`. It is the safety half of `CarriesBytes`.
* `ExchangeImplementsByteStreams`: the same for both directions of the hello exchange, on
  bidirectional and unidirectional streams. `HelloInv` ties the ends to each other: a side that
  has not closed its writing has written nothing, so that its one write is all it ever writes; and
  what has arrived or is read was written. A step that reads on one side is a step of one byte
  stream; the echo that it may set off is one of the other.

`Applications_proofs`, for any number of packets:

* `BacklogStays` (`BacklogNeverShrinks`), `CloseEndsSession` (`CloseIsHeard`). The second needs an
  order on the wire: no hello comes behind a CONNECTION_CLOSE (`CloseEndsTheHellos`), else a server
  that has heard the close would open a new session; and the first, for the shipped schedule,
  that the server stops when nothing is on its way to it (`ServerStopsLast`).
* `StopIsLastWord`, an action property (`StopIsAnnounced`).

`Controllers_proofs`, for every segment, initial and maximal window, clock, filter window, width of
velocity and number of packets:

* The loops of an event are recursive functions. `Recursion` proves that such a function exists
  and stays in a set its step does not leave (by the least number at which it would, `LeastNatural`);
  `LossesCutOnce`, `AcksMove` and their like are invariants of the loops, and the lemma of each
  operation (`OnPacketLost`, `OnPacketAcked`, `EndEpoch`, `CdgBackoff`, …) says what it leaves.
* Vegas: `TypeCorrect` with the floor of the window, `RecoveryStaysNamed`, `EpochsHaveSamples`,
  `ChecksHold`. The last needs that an epoch with samples has one in the filter that is not above
  the epoch's minimum (`SamplesOK`), which holds only while none can have left it. The window may
  pass the floor inside a decision, which ends with the clamp; and an event takes one segment at
  most beside its cut, since only an epoch with samples takes one and the next has none
  (`TakesLittle`).
* Copa: the floor, `VelocityAgrees` (`VelocityCountsRtts`), `SlowStartKeepsPace` (`SlowStartPace`) with
  the time of the last doubling (`DoubledTimes`), and the action property `NoFastStep`
  (`NoFastStepBackwards`).
* CDG: types, its part of `RecoveryIsNamed`, and that a backoff is of a round that began after
  the one before (`CdgInv`: what was sent at the last backoff is at or before the end of the current
  round).
* CDG's sum (`SumStaysOfTheLastRounds`, `SumIsOfTheLastRounds`). The code takes away what it is
  about to overwrite and adds what it writes; that this is the sum of the last `kRttWin` gradients
  needs to know what every place of the ring holds: place `i` the gradient of `Age(i, tail)` rounds
  ago, and nothing yet in the first rounds (`RingHolds`). A longer history adds its last gradient to
  the sum (`SumGrows`), and beyond `kRttWin` rounds the oldest one leaves it (`OldestLeaves`).
* `CutsAreBounded`, an action property (`CutIsBounded`), of Vegas and CDG: the losses of an event
  either find the cut already made or make one, after which no packet of the event is new.

`Simulation_proofs`, for every horizon, set of simulations, set of names, depth, and other names and
options:

* `ReportStaysNear` (`UtilisationIsNear`): what was received has crossed the bottleneck in the steps
  before, `m_readBytes + credit <= Width * now`; the rest is arithmetic about the division into
  whole seconds.
* `BufferIsAsked` (`BottleneckHoldsItsRtts`), for the instances as they are. `BuiltInv` says that
  the topology is what `Build` makes of the instance. The path between a client and its server is
  the only set of links that meets those two nodes once and every other one not at all or
  twice (`OnlyPath`, `DumbbellPaths`); its round trip is a sum over these links (`RttIsTotal`),
  and the bottleneck is one of them. The products stay below 2^32 there, so that the division is
  exact to the packet (`QueueHoldsIt`).
* `FoldersAreMade` (`RunningHasItsFolder`): directories are never removed, a simulation that is in its
  second call finds the first one's directory, and a path of one name never recurses.
* `FlowsRunWhatIsNamed` (`FlowRunsWhatIsNamed`): the checked options say which names a flow can have; a
  name's type and the sender a connection began with say which sender the factory makes.

`Traces_proofs`, for every number of packets and bytes, base, set of times, horizon, interval, number
of servers, sets of addresses and ports, and set of values:

* The map (`OnlyCrossedPairsAreLostHolds`). What a lookup finds depends on the shape of a tree, but
  what can be lost does not. The lemmas follow the keys in order as a sequence: a node's keys are
  its left subtree's, its own, its right subtree's (`OrderUnfolds`); rotations and recolouring
  change the shape and not that sequence (`RebalanceIsATree`, `TopIsATree`); `Put` places the new
  key at one position of it (`PutSplits`). `operator<` orders nothing, but for a pair that is
  crossed with none of those added it splits the sequence into the keys less than the pair, the
  pair itself and those it is less than (`Ordered`, part of `MapInv`), so that the search ends
  at it (`UncrossedIsFound`). That the tree is balanced is not needed.
* quic-main's own pairs (`ShippedPairsStayTraced`, `ShippedPairsAreTraced`). Those of one link, and
  the first two of the dumbbell, do not cross and are covered by the theorem before. The dumbbell's second and
  third do cross; here the shape matters. `DumbbellInv` gives the tree after each of the four
  insertions (`Shape`), which `ThirdGrows` and `FourthGrows` follow through the rotation that
  puts the third pair on top and the recolouring; in these trees every search finds its pair.
* The client's files (`FilesShowSamples`). `ClientInv` says of each file that its lines are the
  samples that differ from the one before, in their order (`FileFits`), and that the application
  remembers the last line's value; a sample then adds a line or is the value of the last one.
* The goodput (`LinesAlwaysTile`, `TotalAlwaysCountsEveryByte`). `ServerInv` says of each pair
  what its lines and marks together hold (`PairOK`): the lines end where the next begins, the last
  ends at the mark, and the bytes in lines, in the open interval and in the total are those read. The
  total is a sum over a finite set of lines (`SumsTakeOut`: any element may be taken out first).
* The tag (`TagsAlwaysRoundTrip`). By strong induction on the number: its code has the length the
  size operator announces, has continuation bits on all bytes but the last, and is the number when
  it is read (`CodeOfANumber`); two of them one after the other are read apart again
  (`TagsRoundTrip`). `TagInv` says the same of every tag on its way.
* The tagged trace implements the trace that counts plain numbers (`TaggedTraceCountsNumbers`:
  `TaggedSpec => Spec`), since every tag that arrives is read as what was written. With it
  the count of losses carries over: `LossCountIsExact`, `LossNeverUnderstated`,
  `RatioAlwaysAPercentage`, from an invariant (`LossInv`) relating `lostPackets` to the
  cardinality of the numbers up to `lastSeq` that have not arrived, and, when `fifo`, ordering what
  is on the wire above what has arrived.

`Recursion`. The induction theorems of the library take an operator as parameter, which the
provers do not instantiate. These lemmas take sets in the place of predicates and functions in the
place of steps: that a set of naturals that is not empty has a least member comes from
the well-founded order of the finite sets (`LeastNatural`), induction and strong induction from
that, then that functions recurse from zero (`Recursion`), down to any smaller number
(`StrongRecursion`), or by taking elements out of a finite set (`FoldExists`, for the folds of the
community modules), and sums over finite sets on top of them (`SumsTakeOut`, `TotalAdds`). So what
these computations yield is proved for every input.

Assumptions are those the modules name, and TLC evaluates all of them: `EngineAssumption` (the
alarms are a finite set, `NoAlarm` is none of them, bounds are naturals, the horizon positive),
`ConnectionAssumption` (some of the streams are bidirectional), `StreamAssumption`, `HelloAssumption`,
`ApplicationsAssumption`, `TraceAssumption` (bounds are natural numbers; windows, thresholds and the
like positive), `TagAssumption` (a base above 1) and `TimesAssumption`, `TracesAssumption` (of the three other
traces: the intervals are at least a millisecond, servers and clients are finitely many, addresses and ports are numbers, 0 is a value), `ControllersAssumption` (segments are
positive; initial windows at least the minimum and not above the maximum, Vegas's 4 and CDG's 2
segments, Copa's at least 4; the clock of Vegas stays below its infinite RTT), `SimulationAssumption`
(there is a name for a folder; other names and options are none of quic-main's).

Only model-checked is liveness: `SetAlarmIsAnswered`, `NeverStalls`, `BothStreamsEnd`,
`InTheEndItRuns` and the arrival in both `CarriesBytes`. It needs fairness and ENABLED, which the
provers do not handle. Every invariant and every action property of a passing run is a theorem.

## Findings

1. **Moving the only alarm fails an assertion** (`only_alarm_moved`,
   `ns3-quic-alarm-engine.cc:75`). `ReregisterAlarm` takes the entry out and then asserts
   `!alarm_map_.empty()`. With `NS_ASSERT` live, as in waf's default profile, Create, Set, Update
   of one alarm ends the program.
2. **The simulator event outlives the engine** (`engine_freed`, `ns3-quic-alarm-engine.cc:21`).
   Neither the destructor nor `Shutdown` cancels `timer_`, which holds a raw `this`; `quic-main`
   runs on for 20 s after its clients have stopped.
3. **Copa's velocity wraps to 0** (`copa_velocity`, `copa_sender.cc:268`), after 64 doublings;
   then the window no longer moves and the resets, guarded by `velocity > 1`, do not apply.
   `VelocityBits = 3` stands for 64.
4. **`MakePath` makes a folder and answers that it could not** (`trace_folder_tree`,
   `ns3-quic-util.cc:69`). The path ends in a slash, so that its "parent" is the directory itself:
   the recursion makes it and the second `mkdir` finds it there. `--folder=a/b` is refused the
   first time and runs the second (`InTheEndItRuns`); a folder of one name is not affected
   (`RunningHasItsFolder`).

Seen while reading and modelling, without a run of their own:

* **A late Update** fails the assertion at `ns3-quic-alarm-engine.cc:99`, a late Set does not
  (`LateSetIsClamped`, above).
* **CDG** (outside the build, so nothing here is about the program that runs). A delay backoff
  takes 0.707 of the window with no lower bound (`cdg_sender.cc:550`), while losses and timeouts keep to `min_congestion_window_`; the module
  has no floor there. `round_start` is assigned for every packet of an event (`:166`), so that the
  second packet of a new round hides the first and the round's RTT is not taken over; `RoundStart` asks
  the last packet only. `BACKOFF` outlives a loss during CWR, after which a later loss cuts by
  0.707 instead of a half; and a backoff may follow a loss's cut in the same event. `CutIsBounded`
  is stated with these in it.
* `src/README.md:52` runs the example with `--cc=bbr`; quic-main has `cc1` and `cc2`
  (`quic-main.cc:488`), and ns-3 ends the program at an option it does not know.
* `bottleneck_bw` is 12 Mbit/s by the time it is divided by (`quic-main.cc:459`) in the instances
  of `topoinfo1` as well, whose bottleneck has 10.
* `bps * buffer_ms` wraps in 32 bits at 100 Mbit/s (`quic-main.cc:90`): the access queues get 142,
  34, 284 or 68 packets for 60, 90, 120 or 180 ms, and 308, 284, 259 or 210 for 80, 120, 160 or 240. The
  bottleneck's product does not wrap.
* The callback for the congestion window is never set by quic-main, so that file stays empty; the
  `CONNECTION_CLOSE` of a client that is being destroyed is sent but in no client trace; the utilisation's file is opened for any of the flags.
* `set_quic_trace_folder` looks for the slash in the previous folder, at the new one's last index
  (`ns3-quic-trace.cc:18`). A path with one slash too many or too few of these still names the
  same directory.
* Vegas and Copa set `max_congestion_window_` and never compare the window with it;
  `VegasSender::GetDebugState` calls itself copa.
* A server application that is started a second time finds `m_backend` moved away
  (`ns3-quic-server-app.cc:208`); ns-3 starts an application once.

## What is not modelled

* Several client sessions of one server on its shared engine, in the order `StopApplication`
  destroys them; one session per application is modelled, and the engine's order of destruction
  for one client (`engine_freed`).
* CDG's PRR and hybrid slow start (quiche's), its migration, resumption and pacing; the pacing
  gains of Vegas and Copa.
* File names, text of lines and the print-outs of quic-main.
* Certificates, proof verification, flags, logging, address conversion, packet writer and
  connection helper: no state that changes.
* Starting without `QUICHE_SRC_DIR`: `std::string(envValue)` of a null pointer
  (`quic-main.cc:546`), which no valid set-up reaches.
* The order of registering the congestion factory and making the clients: quic-main does both
  without returning to the simulator, and `CongestionChoice` in one step.
* quiche's own work (handshake, packet protection, loss detection, flow control) and ns-3's:
  reduced to the choices they leave to this code.
* The build and plot scripts.

## Plan

Done: the alarm engine with its promise; sessions and connection; streams with their
abstract byte stream; all three controllers and the choice among them; applications; tag, loss,
goodput and client traces; the map over address pairs; topologies and utilisation; the trace
folder. Proved: all safety properties the runs check, and four refinements (the engine's promise,
the bandwidth stream and the hello exchange as byte streams, the tagged trace as the plain one).

Left, if more is to be modelled: the server's sessions on one shared engine, `AlarmEngine` under
the alarms of `Connection`.

## How to run

    tlc -workers 2 -config AlarmEngineLive.cfg AlarmEngineLive
    tlapm AlarmEngine_proofs.tla

(that of `Traces_proofs` takes the longest, about ten minutes) and likewise for the module and configuration of each run above.
