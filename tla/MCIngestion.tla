----------------------------- MODULE MCIngestion -----------------------------
(***************************************************************************)
(* Instances of Ingestion for TLC.                                          *)
(***************************************************************************)
EXTENDS Ingestion, TLC

CONSTANTS c1, c2, e1, e2

OneConsumer  == {c1}
TwoConsumers == {c1, c2}
Events == {e1, e2}

Valid(id) == [kind |-> "valid", id |-> id]
Poison == [kind |-> "poison", id |-> e2]
Invalid == [kind |-> "invalid", id |-> e2]
Unparseable == [kind |-> "unparseable", id |-> e2]
Crashing == [kind |-> "crashing", id |-> e2]

OnePartition == {0}
TwoPartitions == {0, 1}

RejectLog == [p \in {0} |-> <<Unparseable, Invalid, Valid(e1)>>]
PoisonLog == [p \in {0} |-> <<Valid(e1), Poison, Valid(e1)>>]

(* A message the service can reject and two it can do nothing with. *)
ToxicLog == 0 :> <<Invalid, Crashing>> @@ 1 :> <<Valid(e1), Poison>>

(* Two partitions that share a duplicated event. *)
SplitLog == 0 :> <<Valid(e1), Invalid>> @@ 1 :> <<Valid(e1), Valid(e2)>>

ConsumerSymmetry == Permutations(TwoConsumers)
=============================================================================
