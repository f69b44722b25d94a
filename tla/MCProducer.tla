------------------------------ MODULE MCProducer ------------------------------
(***************************************************************************)
(* Instances of Producer for TLC.                                           *)
(***************************************************************************)
EXTENDS Producer

CONSTANTS u1, u2

TwoUsers == {u1, u2}
TwoPartitions == {0, 1}

(* The hash sends each user somewhere else. *)
Hashed == [u \in TwoUsers |-> IF u = u1 THEN 0 ELSE 1]
=============================================================================
