---------------------------- MODULE MCInsertRetry ----------------------------
(***************************************************************************)
(* Instances of InsertRetry for TLC.                                        *)
(***************************************************************************)
EXTENDS InsertRetry

CONSTANTS c1, c2, e1, e2, s1, s2, s3

TwoClients == {c1, c2}
TwoEvents == {e1, e2}
PoisonEvent == {e2}
ThreeSessions == {s1, s2, s3}
=============================================================================
