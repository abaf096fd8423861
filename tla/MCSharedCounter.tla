--------------------------- MODULE MCSharedCounter ---------------------------
(* Instances of SharedCounter for TLC: three threads, and a node more than    *)
(* they can hold at once, so that addresses are used again in any order.      *)
EXTENDS SharedCounter
=============================================================================
