----------------------------- MODULE GlobalMutex -----------------------------
(***************************************************************************)
(* What the reader-writer lock of project2 and its database have in        *)
(* common: the worker threads, each at some stage of its work, and the one *)
(* mutex that all calls of the lock table are made with (database.hpp:12). *)
(***************************************************************************)
CONSTANTS Threads, \* the worker threads
          Nobody   \* the value of gM when it is free

ASSUME NobodyAssumption == Nobody \notin Threads

VARIABLES gM, \* owner of globalMutex
          pc  \* where each thread is

Goto(t, l) == pc' = [pc EXCEPT ![t] = l]
=============================================================================
