------------------------------ MODULE MCEarlyCordon ------------------------------
(***************************************************************************)
(* Early cordoning by itself: a group of two nodes, and a node outside it. *)
(***************************************************************************)
EXTENDS EarlyCordon

CONSTANTS n1, n2, n3

AllNodes == {n1, n2, n3}
TwoNodes == {n1, n2}
================================================================================
