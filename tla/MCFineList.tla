------------------------------ MODULE MCFineList ------------------------------
(* Instances of FineList for TLC. *)
EXTENDS FineList
=============================================================================
