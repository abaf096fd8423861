--------------------------- MODULE DeadlockDetection ---------------------------
(***************************************************************************)
(* The recursion of locktable::detectDeadlock, call by call: it scans a    *)
(* waiting list backwards from the last element of a thread, and follows   *)
(* every record of every thread it meets, unless that (thread, record)     *)
(* pair is marked.  LockTable only says what the search finds; this module *)
(* computes it, on the lock tables that arise in Database.                 *)
(***************************************************************************)
EXTENDS Database

\* A search from the last element of the list, whoever owns it (mutant).
StartAtBack(r, t) == Len(locks[r])

\* The last element of thread t in the list of record r; 0 if there is none.
Start(r, t) ==
  LET own == {n \in DOMAIN locks[r] : locks[r][n].tid = t}
  IN  IF own = {} THEN 0 ELSE CHOOSE n \in own : \A m \in own : m <= n

\* What a call returns, with the marks it leaves behind: marks holds <<t, j>>
\* when the jth element of info[t] is marked.
Marks == SUBSET (Threads \X Nat)
Result(found, marks) == [found |-> found, marks |-> marks]

\* Where a call is: at element n of the list of record r, and at element j of the info of
\* its thread.  n is 0 when the list has been scanned.
Calls ==
  {c \in [r : Records, n : Nat, j : Nat \ {0}, dst : Threads, marks : Marks] :
     c.n <= Len(locks[c.r])}

Owner(c) == locks[c.r][c.n].tid

NextElement(c) == [r |-> c.r, n |-> c.n - 1, j |-> 1, dst |-> c.dst, marks |-> c.marks]
NextInfo(c, marks) ==
  [r |-> c.r, n |-> c.n, j |-> c.j + 1, dst |-> c.dst, marks |-> marks]

\* The call it makes for the record at j, once it has marked it.
Called(c) ==
  LET r == info[Owner(c)][c.j]
  IN  [r |-> r, n |-> Start(r, Owner(c)), j |-> 1, dst |-> c.dst,
       marks |-> c.marks \cup {<<Owner(c), c.j>>}]

\* What remains of a call: the two loops from c on.
search[c \in Calls] ==
  IF c.n = 0 THEN Result(FALSE, c.marks)
  ELSE IF Owner(c) = c.dst THEN Result(TRUE, c.marks)
  ELSE IF c.j > Len(info[Owner(c)]) THEN search[NextElement(c)]
  ELSE IF <<Owner(c), c.j>> \in c.marks THEN search[NextInfo(c, c.marks)]
  ELSE LET call == search[Called(c)]
       IN  IF call.found THEN call ELSE search[NextInfo(c, call.marks)]

\* The marks readlockRecord and writelockRecord set before the search: the one
\* of the record whose list is scanned first, for the thread at its end.
FirstMarks(r, k) == {<<k, j>> : j \in {n \in DOMAIN info[k] : info[k][n] = r}}

\* The call readlockRecord and writelockRecord make for a request of thread dst for record
\* r that is not granted at once.
FirstCall(r, dst) ==
  LET k == Last(locks[r]).tid
  IN  [r |-> r, n |-> Start(r, k), j |-> 1, dst |-> dst, marks |-> FirstMarks(r, k)]

Search(r, dst) == search[FirstCall(r, dst)].found

\* The recursion with its marks finds the requesting thread exactly when every
\* closed set around the list contains it: a mark never hides a path that the
\* search still needed, neither within one search nor from an earlier one
\* (locktable.cpp:34-53,69-84).
SearchAgrees ==
  \A t \in Threads :
    pc[t] = "request" /\ needDetect(Target(t), Reading(t)) =>
      Search(Target(t), t) = detectDeadlock(Target(t), t)
=============================================================================
