----------------------------- MODULE MCThreadPool -----------------------------
(* Instances of ThreadPool for TLC.  The workers are not interchangeable: each *)
(* has its own bit of flag.                                                    *)
EXTENDS ThreadPool
=============================================================================
