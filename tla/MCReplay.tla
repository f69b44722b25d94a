------------------------------ MODULE MCReplay ------------------------------
(***************************************************************************)
(* Instances of Replay for TLC.                                             *)
(***************************************************************************)
EXTENDS Replay

CONSTANTS bad, odd, good, poison, junk, list

AllKinds ==
    [m \in {bad, odd, good, poison, junk, list} |->
        CASE m = bad -> "invalid"
          [] m = odd -> "mangled"
          [] m = good -> "valid"
          [] m = poison -> "poison"
          [] m = junk -> "garbage"
          [] m = list -> "raising"]

Kinds(set) == [m \in set |-> AllKinds[m]]

OnlyOdd == {odd}
BadAndOdd == {bad, odd}
EveryMessage == {bad, good, poison, junk, list}

(* One operator who replays everything or picks records, and a careful one. *)
AnyHabit == {{"all", "one"}, {"unexhausted"}}

KindsOfOdd == Kinds(OnlyOdd)
KindsOfBadAndOdd == Kinds(BadAndOdd)
KindsOfEvery == Kinds(EveryMessage)
=============================================================================
