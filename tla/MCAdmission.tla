------------------------------ MODULE MCAdmission ------------------------------
(***************************************************************************)
(* Instances of Admission for TLC: two upgrades that share a scaling       *)
(* group, and two with a group each.                                       *)
(***************************************************************************)
EXTENDS Admission, TLC

CONSTANTS c1, c2, g1, g2

SharedASG   == (c1 :> g1) @@ (c2 :> g1)
SeparateASG == (c1 :> g1) @@ (c2 :> g2)
================================================================================
