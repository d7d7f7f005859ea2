------------------------------ MODULE TagCodec ------------------------------
(***************************************************************************)
(* The tag a packet carries through the simulation (Ns3QuicTag): its       *)
(* sequence number and the time it was sent, in milliseconds, as two       *)
(* variable-length integers.  An ns-3 packet keeps a tag in a buffer of    *)
(* the size the tag asks for, and a read behind its end is an assertion.   *)
(*                                                                         *)
(* A byte carries a digit of the base, 128 in the code, the lowest digit   *)
(* first, and says whether another byte follows.                           *)
(***************************************************************************)
EXTENDS Integers, Sequences, SequencesExt

CONSTANT Base       \* 128: the values of a digit

ASSUME TagAssumption == Base \in Nat /\ Base > 1

\* The reader has come to the end of the buffer before the end of an integer.
Overrun == <<"overrun">>

\* Zero takes no byte.
varint_length(v) ==
    LET Length[n \in Nat] == IF n = 0 THEN 0 ELSE 1 + Length[n \div Base]
    IN  Length[v]

\* Mistake: every byte says that another one follows, unless it is zero.
VarintEncode_AlwaysMore(v) ==
    LET Bytes[n \in Nat] ==
            IF n = 0 THEN <<>>
            ELSE <<[digit |-> n % Base, more |-> n >= 1]>> \o Bytes[n \div Base]
    IN  Bytes[v]

VarintEncode(v) ==
    LET Bytes[n \in Nat] ==
            IF n = 0 THEN <<>>
            ELSE <<[digit |-> n % Base, more |-> n >= Base]>> \o Bytes[n \div Base]
    IN  Bytes[v]

GetSerializedSize(s, t) == varint_length(s) + varint_length(t)

Serialize(s, t) == VarintEncode(s) \o VarintEncode(t)

\* The bytes of the first integer of b: up to one that says no more follow, or
\* all of them and a read behind the end.
FirstInteger(b) ==
    LET ends == SelectInSeq(b, LAMBDA byte : ~byte.more)
    IN  IF ends = 0 THEN <<>> ELSE SubSeq(b, 1, ends)

\* The digits read so far, each times its power of the base.
Value(bytes) == FoldRight(LAMBDA byte, sum : byte.digit + Base * sum, bytes, 0)

\* Two integers, one behind the other.  The loop reads at least one byte.
Deserialize(b) ==
    LET one == FirstInteger(b)
        two == FirstInteger(SubSeq(b, Len(one) + 1, Len(b)))
    IN  IF one = <<>> \/ two = <<>> THEN Overrun ELSE <<Value(one), Value(two)>>
=============================================================================
