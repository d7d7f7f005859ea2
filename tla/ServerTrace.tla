---------------------------- MODULE ServerTrace ----------------------------
(***************************************************************************)
(* The goodput files of the servers.  A trace dispatcher holds one trace   *)
(* for every pair of a client and a server; each server hands it what it   *)
(* reads.  A trace writes a line when an interval has passed, with the     *)
(* rate since its last line, and one more when it is destroyed.            *)
(*                                                                         *)
(* The dumbbell has two servers and one dispatcher between them, and a     *)
(* server that stops shuts the dispatcher down: it destroys the traces of  *)
(* the other server too.                                                   *)
(***************************************************************************)
EXTENDS Integers, Sequences, FiniteSets, Functions

CONSTANTS
    Servers,    \* the server applications of one dispatcher
    Clients,    \* the clients of each of them
    Interval,   \* g_goodputInterval
    Millisecond, \* units of time in a millisecond
    MaxTime,    \* bound: the simulated time
    MaxBytes    \* bound: the bytes all the servers read

\* What the constants are assumed to be.
ServerTraceAssumption ==
    /\ IsFiniteSet(Servers) /\ IsFiniteSet(Clients)
    /\ Millisecond \in Nat \ {0}
    /\ Interval \in Nat /\ Interval >= Millisecond
    /\ MaxTime \in Nat /\ MaxBytes \in Nat

VARIABLES
    owd_file,   \* E_QS_OWD is enabled beside E_QS_GOODPUT
    now,        \* Simulator::Now
    running,    \* the servers that run and have their m_trace
    traces,     \* the pairs with a trace in m_traceDb
    trace,      \* the members of each trace
    total,      \* m_readBytes of the dispatcher
    lines,      \* the goodput file of each pair
    read        \* history: bytes its server has read of each pair

vars == <<owd_file, now, running, traces, trace, total, lines, read>>

Pairs == Servers \X Clients
NewTrace == [first |-> 0, bytes |-> 0, rateBytes |-> 0, rateTime |-> 0, receipt |-> 0]

\* Both servers have started and every pair was added.
Init ==
    /\ owd_file \in BOOLEAN
    /\ now = 0
    /\ running = Servers
    /\ traces = Pairs
    /\ trace = [p \in Pairs |-> NewTrace]
    /\ total = 0
    /\ lines = [p \in Pairs |-> <<>>]
    /\ read = [p \in Pairs |-> 0]

\* The rate of a line is bytes over millis, the milliseconds from from to to,
\* rounded down.
Line(t) ==
    [from |-> t.rateTime, to |-> t.receipt, bytes |-> t.bytes - t.rateBytes,
     millis |-> (t.receipt - t.rateTime) \div Millisecond]

\* Mistake: the bytes of a line are counted again in the next one.
LogGoodput_KeepsBytes(p, t) ==
    LET due == t.receipt >= t.rateTime + Interval
    IN  /\ trace' = [trace EXCEPT ![p] = IF due THEN [t EXCEPT !.rateTime = t.receipt] ELSE t]
        /\ lines' = IF due THEN [lines EXCEPT ![p] = Append(@, Line(t))] ELSE lines

\* LogGoodput(false) of p, whose members are t: a line if an interval is over.
LogGoodput(p, t) ==
    LET due == t.receipt >= t.rateTime + Interval
    IN  /\ trace' = [trace EXCEPT ![p] =
                IF due THEN [t EXCEPT !.rateBytes = t.bytes, !.rateTime = t.receipt] ELSE t]
        /\ lines' = IF due THEN [lines EXCEPT ![p] = Append(@, Line(t))] ELSE lines

\* A trace is given a byte.  The time of its receipt is kept only together
\* with a line of the owd file.
OnOwd(p) ==
    LET t == trace[p]
    IN  LogGoodput(p, [t EXCEPT !.first = IF @ = 0 THEN now ELSE @,
                                !.rateTime = IF t.first = 0 THEN now ELSE @,
                                !.bytes = @ + 1,
                                !.receipt = IF owd_file THEN now ELSE @])

\* Mistake: the dispatcher counts the traced bytes only.
RecvPacket_CountsTraced(p) ==
    /\ p[1] \in running
    /\ total < MaxBytes
    /\ total' = IF p \in traces THEN total + 1 ELSE total
    /\ read' = [read EXCEPT ![p] = @ + 1]
    /\ IF p \in traces THEN OnOwd(p) ELSE UNCHANGED <<trace, lines>>
    /\ UNCHANGED <<owd_file, now, running, traces>>

\* A running server reads a byte of p and hands it to the dispatcher, which
\* counts it and gives it to the trace of p, if it has one.
RecvPacket(p) ==
    /\ p[1] \in running
    /\ total < MaxBytes
    /\ total' = total + 1
    /\ read' = [read EXCEPT ![p] = @ + 1]
    /\ IF p \in traces THEN OnOwd(p) ELSE UNCHANGED <<trace, lines>>
    /\ UNCHANGED <<owd_file, now, running, traces>>

\* The traces are destroyed and write what came since their last line.
Shutdown ==
    /\ traces' = {}
    /\ lines' = [p \in Pairs |->
            IF p \in traces /\ trace[p].receipt > trace[p].rateTime
            THEN Append(lines[p], Line(trace[p]))
            ELSE lines[p]]

StopApplication(s) ==
    /\ s \in running
    /\ Shutdown
    /\ running' = running \ {s}
    /\ UNCHANGED <<owd_file, now, trace, total, read>>

Tick ==
    /\ now < MaxTime
    /\ now' = now + 1
    /\ UNCHANGED <<owd_file, running, traces, trace, total, lines, read>>

Next ==
    \/ \E p \in Pairs : RecvPacket(p)
    \/ \E s \in Servers : StopApplication(s)
    \/ Tick

Spec == Init /\ [][Next]_vars

-----------------------------------------------------------------------------
\* A trace has not seen the future, and not the past of its last line.
TypeOK ==
    /\ owd_file \in BOOLEAN
    /\ now \in 0..MaxTime
    /\ running \subseteq Servers
    /\ traces \in {{}, Pairs}
    /\ total \in 0..MaxBytes
    /\ \A p \in Pairs :
        /\ trace[p].rateTime <= now /\ trace[p].receipt <= now
        /\ trace[p].rateBytes <= trace[p].bytes
        /\ read[p] \in 0..MaxBytes

Reported(p) == FoldFunction(LAMBDA line, sum : line.bytes + sum, 0, lines[p])

(***************************************************************************)
(* The lines of a pair adjoin, and no byte is in two of them.  When the    *)
(* trace is gone, every byte it was given is in one, unless all that came  *)
(* after the last line came at the very instant of that line.  All this    *)
(* rests on the owd file: without it the time of receipt is never set, and *)
(* the goodput file stays empty.                                           *)
(***************************************************************************)
LinesTile ==
    \A p \in Pairs :
        /\ ~owd_file => lines[p] = <<>>
        /\ \A k \in 2..Len(lines[p]) : lines[p][k].from = lines[p][k - 1].to
        /\ lines[p] # <<>> => lines[p][1].from = trace[p].first
        /\ Reported(p) <= trace[p].bytes
        /\ owd_file /\ p \notin traces /\ Reported(p) # trace[p].bytes => trace[p].receipt = trace[p].rateTime

(***************************************************************************)
(* Only the last line of a file, the destructor's, may be of less than a   *)
(* millisecond, and so divide by zero; no line is of no time at all.       *)
(***************************************************************************)
OnlyTheTailIsShort ==
    \A p \in Pairs, k \in 1..MaxTime : k \in DOMAIN lines[p] =>
        /\ lines[p][k].from < lines[p][k].to
        /\ lines[p][k].millis = 0 => k = Len(lines[p]) /\ p \notin traces

(***************************************************************************)
(* The utilisation counts every byte a server has read, those read after   *)
(* the other server has destroyed the traces included; the traces count    *)
(* every byte as long as both servers run.                                 *)
(***************************************************************************)
TotalCountsEveryByte ==
    /\ total = SumFunction(read)
    /\ running = Servers => \A p \in Pairs : trace[p].bytes = read[p]
=============================================================================
