---------------------------- MODULE TaggedTrace ----------------------------
(***************************************************************************)
(* The loss count as the packets really carry it: LossTrace, where the     *)
(* trace is given what RecvPacket decodes from the packet's tag and not    *)
(* the number itself.  A tag is a buffer of the size it asked for, written *)
(* at one end of the path and read at the other.                           *)
(***************************************************************************)
EXTENDS LossTrace, TagCodec

CONSTANT Times      \* the milliseconds in which packets are sent

ASSUME TimesAssumption == Times \subseteq Nat

VARIABLES
    tag,        \* the tags of the packets on their way
    overrun     \* a tag was read behind its end, and the simulation has stopped

taggedVars == <<vars, tag, overrun>>

NewTag(n, t) == [time |-> t, size |-> GetSerializedSize(n, t), buffer |-> Serialize(n, t)]

TaggedInit ==
    /\ Init
    /\ tag = [p \in {} |-> NewTag(0, 0)]
    /\ overrun = FALSE

TaggedSend(t) ==
    /\ ~overrun
    /\ SendToNetwork
    /\ tag' = [p \in wire' |-> IF p \in wire THEN tag[p] ELSE NewTag(p, t)]
    /\ UNCHANGED overrun

TaggedDrop(p) ==
    /\ ~overrun
    /\ Drop(p)
    /\ tag' = Restrict(tag, wire')
    /\ UNCHANGED overrun

\* RecvPacket of a server that runs decodes the tag.
TaggedRecv(p) ==
    /\ ~overrun
    /\ p \in wire
    /\ LET read == Deserialize(tag[p].buffer)
       IN  IF running /\ read = Overrun
           THEN overrun' = TRUE /\ UNCHANGED <<vars, tag>>
           ELSE /\ Receive(p, read[1])
                /\ tag' = Restrict(tag, wire')
                /\ UNCHANGED overrun

TaggedStop ==
    /\ ~overrun
    /\ StopApplication
    /\ UNCHANGED <<tag, overrun>>

TaggedNext ==
    \/ \E t \in Times : TaggedSend(t)
    \/ \E p \in wire : TaggedDrop(p) \/ TaggedRecv(p)
    \/ TaggedStop

TaggedSpec == TaggedInit /\ [][TaggedNext]_taggedVars

-----------------------------------------------------------------------------
(***************************************************************************)
(* A tag fills its buffer and reads back as the numbers it was made of,    *)
(* however many digits they have.  Zero is the one value that cannot be    *)
(* read back: it has no byte.  A sequence number is never zero, and        *)
(* quic-main starts its applications a millisecond after time zero; a      *)
(* packet of the first one stops the simulation, and nothing else does.    *)
(***************************************************************************)
TagRoundTrips ==
    /\ \A p \in wire :
        /\ Len(tag[p].buffer) = tag[p].size
        /\ Deserialize(tag[p].buffer) = IF tag[p].time = 0 THEN Overrun ELSE <<p, tag[p].time>>
    /\ overrun => \E p \in wire : tag[p].time = 0
=============================================================================
