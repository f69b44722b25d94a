---------------------------- MODULE ForgetfulSet ----------------------------
(***************************************************************************)
(* What ingestion asks of its deduplication cache: a set of ids that may    *)
(* forget, never invents, keeps the id just added, and keeps everything     *)
(* else as long as there is room and nothing is looked up.                  *)
(***************************************************************************)
EXTENDS Naturals, FiniteSets

CONSTANTS Ids, MaxSize

VARIABLE held

Init == held = {}

(* A lookup may find that ids are too old to keep. *)
Lookup == held' \in SUBSET held

(* Past MaxSize, adding an id drops others, no more than it has to. *)
Add(id) ==
    /\ held' \subseteq held \cup {id}
    /\ id \in held'
    /\ Cardinality(held') <= MaxSize
    /\ held' = held \cup {id} \/ Cardinality(held') = MaxSize

Next == Lookup \/ \E id \in Ids : Add(id)

Spec == Init /\ [][Next]_held
=============================================================================
