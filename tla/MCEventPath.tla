----------------------------- MODULE MCEventPath -----------------------------
(***************************************************************************)
(* Instances of EventPath for TLC.                                          *)
(***************************************************************************)
EXTENDS EventPath

SomeTypes == {"PURCHASE", "purchase", "PRODUCT_VIEW", "OTHER", "absent", "list"}
SomeIds == {"text", "empty", "whole", "list", "absent"}
SomeStamps == {"stamp", "text", "null"}
SomeTexts == {"text", "absent", "nul"}
AllNumbers == IntValues \cup FloatValues \cup {"digits", "lone nan", "lone inf", "text",
                                               "null", "true", "list", "absent"}
=============================================================================
