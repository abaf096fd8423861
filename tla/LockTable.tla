------------------------------ MODULE LockTable ------------------------------
(***************************************************************************)
(* Class locktable of project2: one waiting list per record, and for each  *)
(* thread the list info of the records it holds or waits for, in the order *)
(* in which it asked for them.  info is what the deadlock detection walks  *)
(* over.  Every function of the class runs with the global mutex held.     *)
(*                                                                         *)
(* The bool of an info element is a mark that only lives inside one run of *)
(* the detection, which resets it first; DeadlockDetection models it.      *)
(***************************************************************************)
EXTENDS WaitingList, GlobalMutex

CONSTANT Records

VARIABLES
  locks,  \* locks[r]: the waiting list of record r
  info    \* info[t]: the records thread t has an element for

LockTableTypeOK ==
  /\ locks \in [Records -> Seq(infoLock(Threads))]
  /\ info \in [Threads -> Seq(Records)]

LockTableInit ==
  /\ locks = [r \in Records |-> <<>>]
  /\ info = [t \in Threads |-> <<>>]

(***************************************************************************)
(* Deadlock detection.                                                     *)
(***************************************************************************)

\* A request for r is not granted at once.
needDetect(r, isRead) ==
  ~(IF isRead THEN Shareable(locks[r]) ELSE Exclusive(locks[r]))

\* The threads the detection visits from thread t: for every record t has an
\* element for, t itself and the threads before it in the list.
Visits(t) ==
  UNION {{locks[r][m].tid : m \in 1 .. PositionOf(locks[r], t)} :
           r \in {info[t][n] : n \in DOMAIN info[t]}}

\* A set of threads that the detection, once inside it, does not leave.
Closed(C) == \A u \in C : Visits(u) \subseteq C

\* A detection that does not follow what the threads found hold (mutant).
detectOneLevel(r, dst) ==
  \E t \in Tids(locks[r]) : dst \in Visits(t)

\* The detection reaches dst, starting from the last element of record r and
\* thus from all of its list: dst is in every closed set around the list.
detectDeadlock(r, dst) ==
  \A C \in SUBSET Threads : Tids(locks[r]) \subseteq C /\ Closed(C) => dst \in C

Refused(t, r, isRead) == needDetect(r, isRead) /\ detectDeadlock(r, t)

(***************************************************************************)
(* Operations.                                                             *)
(***************************************************************************)

\* readlockRecord and writelockRecord of a request that is not refused, up to
\* the point where it is granted or has to wait.
LockRecord(t, r, isRead) ==
  /\ info' = [info EXCEPT ![t] = Append(@, r)]
  /\ locks' = [locks EXCEPT ![r] = Enter(@, t, isRead, ~needDetect(r, isRead))]

\* A waiting thread finds that its turn has come.
MayGo(t, r, isRead) ==
  IF isRead THEN ReaderMayGo(locks[r], t) ELSE WriterMayGo(locks[r], t)

GrantRecord(t, r) ==
  /\ locks' = [locks EXCEPT ![r] = Grant(@, t)]
  /\ UNCHANGED info

\* A release that forgets the record asked for last (mutant).
UnlockAllButLast(t, rs) ==
  /\ locks' = [r \in Records |->
                 IF \E n \in 1 .. Len(rs) - 1 : rs[n] = r THEN Leave(locks[r], t) ELSE locks[r]]
  /\ info' = [info EXCEPT ![t] = SubSeq(@, Len(rs) + 1, Len(@))]

\* A sequence of readUnlockRecord and writeUnlockRecord calls, one for each
\* record of rs (they are distinct).  Each erases the element of t in one list
\* and pops the oldest element of info[t], whichever record that one names.
UnlockRecords(t, rs) ==
  /\ locks' = [r \in Records |->
                 IF \E n \in DOMAIN rs : rs[n] = r THEN Leave(locks[r], t) ELSE locks[r]]
  /\ info' = [info EXCEPT ![t] = SubSeq(@, Len(rs) + 1, Len(@))]

(***************************************************************************)
(* The wait-for relation.                                                  *)
(***************************************************************************)

\* The threads that stand before an element of t that is not granted yet.
WaitsFor(t) ==
  {u \in Threads : \E r \in Records : \E m, n \in DOMAIN locks[r] :
      /\ locks[r][n].tid = t /\ ~locks[r][n].isLocked
      /\ m < n /\ locks[r][m].tid = u}

\* No set of threads in which everybody waits for somebody of the set: the
\* wait-for relation has no cycle.  The detection runs once, when a request
\* enters a list, and has to see every cycle that request could close
\* (locktable.cpp:34-53,66-84).
DeadlockFree ==
  \A S \in SUBSET Threads : S # {} => \E t \in S : WaitsFor(t) \cap S = {}
=============================================================================
