------------------------------- MODULE MCProvider -------------------------------
(***************************************************************************)
(* Provider for TLC.  The rules are records of one zone that differ in name *)
(* or in type only.                                                         *)
(***************************************************************************)
EXTENDS Provider

HomeA == [name |-> "home", type |-> "A"]
HomeAAAA == [name |-> "home", type |-> "AAAA"]
ApexA == [name |-> "@", type |-> "A"]

OneRule == {HomeA}
ThreeRules == {HomeA, HomeAAAA, ApexA}
=============================================================================
