------------------------------ MODULE MCDetection ------------------------------
(* The instances of MCDatabase, with the search on every lock table they reach. *)
EXTENDS MCDatabase, DeadlockDetection
=============================================================================
