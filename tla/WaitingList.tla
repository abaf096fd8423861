----------------------------- MODULE WaitingList -----------------------------
(***************************************************************************)
(* The waiting list of project2's reader-writer lock as a pure data        *)
(* structure: class infoLock and the member `list<infoLock> waiting' of    *)
(* class rwlock (include/rwlock.hpp).  The list is in order of arrival;    *)
(* an element stays in it from the call that requests the lock until the   *)
(* call that releases it, and isLocked tells whether it has been granted.  *)
(***************************************************************************)
EXTENDS Integers, Sequences, SequencesExt

\* One element of the list: the request of a thread.
infoLock(tids) == [isRead : BOOLEAN, isLocked : BOOLEAN, tid : tids]

\* The threads that have an element in list.
Tids(list) == {list[n].tid : n \in DOMAIN list}

\* A read request that looks at the front of the list (mutant).
ShareableFront(list) ==
  \/ list = <<>>
  \/ Head(list).isRead /\ Head(list).isLocked

\* rwlock.cpp:7: a new read request is granted at once.
Shareable(list) ==
  \/ list = <<>>
  \/ Last(list).isRead /\ Last(list).isLocked

\* rwlock.cpp:35: a new write request is granted at once.
Exclusive(list) == list = <<>>

\* The last two arguments of emplace_back swapped: an int converts to a bool and
\* back without a word from the compiler (mutant).
EnterSwapped(list, t, isRead, isLocked) ==
  Append(list, [isRead |-> isRead, isLocked |-> t, tid |-> isLocked])

\* emplace_back of the request of thread t, granted or not.
Enter(list, t, isRead, isLocked) ==
  Append(list, [isRead |-> isRead, isLocked |-> isLocked, tid |-> t])

\* The first element of thread t, as the loops of the unlock functions find it.
PositionOf(list, t) ==
  CHOOSE n \in DOMAIN list :
    /\ list[n].tid = t
    /\ \A m \in 1 .. n - 1 : list[m].tid # t

\* One evaluation of the loop condition of a waiting reader: it is first, or
\* the element before it is a granted reader.
ReaderMayGo(list, t) ==
  LET n == PositionOf(list, t)
  IN  n = 1 \/ (list[n - 1].isRead /\ list[n - 1].isLocked)

\* A writer that only waits for the writers before it (mutant).
WriterMayGoPastReaders(list, t) == \A m \in 1 .. PositionOf(list, t) - 1 : list[m].isRead

\* A writer that waits until it is the only one in the list (mutant).
WriterMayGoAlone(list, t) == Len(list) = 1

\* One evaluation of the loop condition of a waiting writer: it is first.
WriterMayGo(list, t) == PositionOf(list, t) = 1

\* The waiting thread t marks its element granted and leaves the loop.
Grant(list, t) == [list EXCEPT ![PositionOf(list, t)].isLocked = TRUE]

\* Erase the first element of thread t, wherever it stands.
Leave(list, t) == RemoveAt(list, PositionOf(list, t))

-----------------------------------------------------------------------------
\* Every thread has at most one element.
OneEach(list) == \A m, n \in DOMAIN list : list[m].tid = list[n].tid => m = n

\* The granted elements are at the front; more than one of them are readers.
GrantedFirst(list) ==
  \A m, n \in DOMAIN list :
    m < n /\ list[n].isLocked => list[m].isLocked /\ list[m].isRead /\ list[n].isRead
=============================================================================
