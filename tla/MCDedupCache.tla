---------------------------- MODULE MCDedupCache ----------------------------
(***************************************************************************)
(* Instances of DedupCache for TLC.                                         *)
(***************************************************************************)
EXTENDS DedupCache

CONSTANTS e1, e2, e3

ThreeIds == {e1, e2, e3}
=============================================================================
