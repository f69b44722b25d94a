----------------------------- MODULE MCWarehouse -----------------------------
(***************************************************************************)
(* Instances of Warehouse for TLC.                                          *)
(***************************************************************************)
EXTENDS Warehouse

CONSTANTS o1, o2

TwoOrders == {o1, o2}
OneInterval == {"12:00"}
SameInterval == [o \in TwoOrders |-> "12:00"]
=============================================================================
