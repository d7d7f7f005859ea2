---------------------------- MODULE MCConnection ----------------------------
(* Two sessions, the shipped pair or with foreign peers, and the three     *)
(* streams they could see.                                                 *)
EXTENDS Connection

CONSTANTS s1, s2, s3

MCStreams == {s1, s2, s3}
MCBidi == {s3}
=============================================================================
