------------------------------ MODULE MCDatabase ------------------------------
(* Instances of Database for TLC.  Threads and records are only compared for   *)
(* equality, so both are symmetric in the runs without liveness.               *)
EXTENDS Database

Symmetry == Permutations(Threads) \cup Permutations(Records)
=============================================================================
