------------------------------- MODULE Traces -------------------------------
(***************************************************************************)
(* The traces of a simulation on small instances: the tags and the loss    *)
(* count (TaggedTrace), the goodput files of two servers (ServerTrace),    *)
(* the map that finds the trace of a packet (AddrPairMap) and the files of *)
(* a client (ClientTrace).  They write different files from different      *)
(* records, so that one of them moves at a time: subject is the one that   *)
(* is looked at, and the others stay as they begin.                        *)
(***************************************************************************)
EXTENDS TaggedTrace

CONSTANTS           \* those of the parts
    Servers, Clients, Interval, Millisecond, MaxTime, MaxBytes,
    ClientIps, ServerIps, ClientPorts, MaxOpened,
    Values, MaxSent

VARIABLES
    subject,
    sOwdFile, sNow, sRunning, sTraces, sTrace, sTotal, sLines, sRead,
    m_traceDb, opened,
    cOpen, cCallbacks, cImpl, cCurrent, cLast, cSeq, cFile, cSamples

serverVars == <<sOwdFile, sNow, sRunning, sTraces, sTrace, sTotal, sLines, sRead>>
mapVars == <<m_traceDb, opened>>
clientVars == <<cOpen, cCallbacks, cImpl, cCurrent, cLast, cSeq, cFile, cSamples>>
tracesVars == <<subject, taggedVars, serverVars, mapVars, clientVars>>

Server == INSTANCE ServerTrace WITH
    owd_file <- sOwdFile, now <- sNow, running <- sRunning, traces <- sTraces,
    trace <- sTrace, total <- sTotal, lines <- sLines, read <- sRead

Map == INSTANCE AddrPairMap

Client == INSTANCE ClientTrace WITH
    open <- cOpen, callbacks <- cCallbacks, impl <- cImpl, current <- cCurrent,
    last <- cLast, m_seq <- cSeq, file <- cFile, samples <- cSamples

ASSUME TracesAssumption ==
    Server!ServerTraceAssumption /\ Map!PairAssumption /\ Client!ValuesAssumption

TracesInit ==
    /\ subject \in {"tags", "goodput", "map", "client"}
    /\ TaggedInit
    /\ Server!Init
    /\ Map!Init
    /\ Client!Init
    /\ subject # "tags" => fifo
    /\ subject # "goodput" => sOwdFile
    /\ subject # "client" => cOpen = {}

TracesNext ==
    \/ subject = "tags" /\ TaggedNext /\ UNCHANGED <<subject, serverVars, mapVars, clientVars>>
    \/ subject = "goodput" /\ Server!Next /\ UNCHANGED <<subject, taggedVars, mapVars, clientVars>>
    \/ subject = "map" /\ Map!Next /\ UNCHANGED <<subject, taggedVars, serverVars, clientVars>>
    \/ subject = "client" /\ Client!Next /\ UNCHANGED <<subject, taggedVars, serverVars, mapVars>>

TracesSpec == TracesInit /\ [][TracesNext]_tracesVars

-----------------------------------------------------------------------------
(***************************************************************************)
(* The lines of a goodput file adjoin, no byte is in two of them, and only *)
(* the last one, the destructor's, may be of less than the millisecond its *)
(* rate is divided by.                                                     *)
(***************************************************************************)
LinesTile == Server!LinesTile /\ Server!OnlyTheTailIsShort

(***************************************************************************)
(* The utilisation counts every byte a server has read, those read after   *)
(* the other server has destroyed the traces included.                     *)
(***************************************************************************)
TotalCountsEveryByte == Server!TotalCountsEveryByte

(***************************************************************************)
(* A pair that was added and whose packets are not traced crosses another  *)
(* one, each being less than the other; without crossings the map is a     *)
(* map; and no packet is ever counted for another pair than its own.       *)
(***************************************************************************)
OnlyCrossedPairsAreLost ==
    Map!LostPairsCross /\ Map!UncrossedPairsAreAMap /\ Map!FoundIsItself

(***************************************************************************)
(* The pairs quic-main adds, in its order, are all found, although two of  *)
(* the dumbbell's cross.                                                   *)
(***************************************************************************)
ShippedPairsAreTraced == Map!ShippedPairsAreTraced

(***************************************************************************)
(* A client's file, written only when a value changes, shows for every     *)
(* packet what quiche answered for it.                                     *)
(***************************************************************************)
FileShowsSamples == Client!FileShowsSamples
=============================================================================
