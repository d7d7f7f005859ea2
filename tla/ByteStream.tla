----------------------------- MODULE ByteStream -----------------------------
(***************************************************************************)
(* What one direction of a Ns3TransportStream promises the channels at its *)
(* ends, whatever quiche and the path do in between: the reader is given   *)
(* what was written, in its order, each piece once, and the end after all  *)
(* of it.  A stream whose connection goes away keeps the first part of the *)
(* promise only.                                                           *)
(*                                                                         *)
(* What is read is always a beginning of what is written, so that the two  *)
(* are counted and not compared.                                           *)
(***************************************************************************)
EXTENDS Integers

CONSTANT MaxWritten     \* bound: pieces written

VARIABLES
    written,    \* pieces Write has taken
    fin,        \* a Write with FIN was taken
    aborted,    \* the connection or the stream is gone
    read,       \* pieces Read has returned
    eof         \* the reader was told that this is all

vars == <<written, fin, aborted, read, eof>>

Init ==
    /\ written = 0
    /\ fin = FALSE
    /\ aborted = FALSE
    /\ read = 0
    /\ eof = FALSE

\* Any number of pieces is taken, with or without FIN; none after it.
Write ==
    /\ ~fin /\ ~aborted
    /\ written' \in written..MaxWritten
    /\ fin' \in BOOLEAN
    /\ UNCHANGED <<aborted, read, eof>>

\* The reader gets more of what was written, or its end, or both.
Read ==
    /\ read' \in read..written
    /\ eof' \in {eof, eof \/ (fin /\ read' = written)}
    /\ UNCHANGED <<written, fin, aborted>>

Abort ==
    /\ aborted' = TRUE
    /\ UNCHANGED <<written, fin, read, eof>>

Next == Write \/ Read \/ Abort

Spec == Init /\ [][Next]_vars

(***************************************************************************)
(* What was taken is read in the end, and a FIN is heard, unless the       *)
(* connection goes away.                                                   *)
(***************************************************************************)
Arrives ==
    /\ \A n \in 1..MaxWritten : written >= n ~> read >= n \/ aborted
    /\ fin ~> eof \/ aborted

LiveSpec == Spec /\ Arrives
=============================================================================
