----------------------------- MODULE MCVdecCore -----------------------------
(* Every decoder of the tree asks for both cores with an input.            *)
EXTENDS VdecCore, TLC

CONSTANTS v1, v2, v3

MCNeeds == [v \in Vdecs |-> Cores]
=============================================================================
