------------------------------ MODULE MCRWLock ------------------------------
(* Instance of RWLock for TLC: four threads, without symmetry, which is not   *)
(* sound for the liveness properties.                                         *)
EXTENDS RWLock
=============================================================================
