------------------------------- MODULE MCOptList -------------------------------
(* Instances of OptList for TLC. *)
EXTENDS OptList
=============================================================================
