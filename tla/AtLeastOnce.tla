----------------------------- MODULE AtLeastOnce -----------------------------
(***************************************************************************)
(* What a consumer group that processes each partition in order promises of *)
(* a log, whoever happens to read it: messages get their outcome one event  *)
(* at a time, none before all earlier ones of its partition have theirs,    *)
(* and an offset is committed only when everything below it is settled.     *)
(* A committed offset may go back: that costs a redelivery, not a message.  *)
(***************************************************************************)
EXTENDS Naturals

CONSTANTS
    Partitions,
    Messages,      \* the <<partition, offset>> pairs of the log
    SameEvent      \* for each message, the messages its outcome settles: its duplicates

VARIABLES
    settled,       \* messages that have their outcome
    committed      \* committed offset of each partition

Before(p, n) == { <<p, o>> : o \in 0 .. n - 1 }

Init ==
    /\ settled = {}
    /\ committed = [p \in Partitions |-> 0]

(* A message whose predecessors are settled is settled, with its duplicates. *)
Settle ==
    /\ \E m \in Messages :
          /\ Before(m[1], m[2]) \subseteq settled
          /\ settled' = settled \cup SameEvent[m]
    /\ UNCHANGED committed

Commit ==
    /\ committed' \in [Partitions -> Nat]
    /\ \A p \in Partitions : Before(p, committed'[p]) \subseteq settled
    /\ UNCHANGED settled

Next == Settle \/ Commit

Spec == Init /\ [][Next]_<<settled, committed>>
=============================================================================
