------------------------------ MODULE MCSnapshot ------------------------------
(* Instances of Snapshot for TLC. *)
EXTENDS Snapshot
=============================================================================
