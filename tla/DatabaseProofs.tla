---------------------------- MODULE DatabaseProofs ----------------------------
(***************************************************************************)
(* The locks of project2, in three parts, for every set of threads and of  *)
(* records.  The waiting list of one rwlock describes its threads, and     *)
(* therefore it excludes and serves in order.  The lock table of Database  *)
(* agrees with the progress of the threads; therefore writers exclude, the *)
(* detection leaves no cycle of waiting transactions, and the committed    *)
(* transactions are a serial execution.  The recursive search finds what   *)
(* the second part takes the detection to find.                            *)
(***************************************************************************)
EXTENDS RWLock, DeadlockDetection, SequenceTheorems, FiniteSetTheorems, WellFoundedInduction, TLAPS

(***************************************************************************)
(* What the operators of WaitingList do to a list in which every thread    *)
(* has at most one element.                                                *)
(***************************************************************************)
\* In such a list the search of the unlock functions finds the one element of
\* the thread (rwlock.cpp:54-55).
LEMMA PositionIsUnique ==
  ASSUME NEW S, NEW list \in Seq(S), OneEach(list), NEW n \in DOMAIN list
  PROVE  PositionOf(list, list[n].tid) = n
<1> DEFINE Found(k) == /\ list[k].tid = list[n].tid
                       /\ \A m \in 1 .. k - 1 : list[m].tid # list[n].tid
<1>1. DOMAIN list = 1 .. Len(list) /\ Len(list) \in Nat
  BY LenProperties
<1>2. ASSUME NEW m \in 1 .. n - 1 PROVE m \in DOMAIN list /\ m # n
  BY <1>1
<1>3. Found(n)
  BY <1>2 DEF OneEach
<1>4. ASSUME NEW k \in DOMAIN list, Found(k) PROVE k = n
  BY <1>4 DEF OneEach
<1> QED BY <1>3, <1>4 DEF PositionOf

\* A new request is appended behind the others, which keep their places.
LEMMA EnterElements ==
  ASSUME NEW T, NEW list \in Seq(infoLock(T)), NEW t \in T,
         NEW r \in BOOLEAN, NEW l \in BOOLEAN
  PROVE  LET new == Enter(list, t, r, l)
         IN  /\ new \in Seq(infoLock(T))
             /\ DOMAIN list = 1 .. Len(list) /\ Len(list) \in Nat
             /\ Len(new) = Len(list) + 1
             /\ DOMAIN new = 1 .. Len(list) + 1
             /\ \A n \in 1 .. Len(list) : new[n] = list[n]
             /\ new[Len(list) + 1] = [isRead |-> r, isLocked |-> l, tid |-> t]
<1>1. [isRead |-> r, isLocked |-> l, tid |-> t] \in infoLock(T)
  BY DEF infoLock
<1> QED BY <1>1, AppendProperties, LenProperties DEF Enter

\* A grant changes nothing but the mark of the element.
LEMMA GrantElements ==
  ASSUME NEW T, NEW list \in Seq(infoLock(T)), OneEach(list),
         NEW n \in DOMAIN list
  PROVE  LET new == Grant(list, list[n].tid)
         IN  /\ new \in Seq(infoLock(T))
             /\ DOMAIN new = DOMAIN list
             /\ DOMAIN list = 1 .. Len(list) /\ Len(list) \in Nat
             /\ \A m \in DOMAIN list :
                  /\ list[m] \in infoLock(T)
                  /\ new[m].tid = list[m].tid
                  /\ new[m].isRead = list[m].isRead
                  /\ new[m].isLocked <=> (list[m].isLocked \/ m = n)
<1>1. Grant(list, list[n].tid) = [list EXCEPT ![n] = [list[n] EXCEPT !.isLocked = TRUE]]
  BY PositionIsUnique DEF Grant
<1>2. \A m \in DOMAIN list : list[m] \in infoLock(T)
  BY ElementOfSeq
<1>3. [list[n] EXCEPT !.isLocked = TRUE] \in infoLock(T)
  BY <1>2 DEF infoLock
<1>4. Grant(list, list[n].tid) \in Seq(infoLock(T))
  BY <1>1, <1>3, ExceptSeq
<1>5. DOMAIN Grant(list, list[n].tid) = DOMAIN list
  BY <1>1
<1>6. ASSUME NEW m \in DOMAIN list
      PROVE  LET new == Grant(list, list[n].tid)
             IN  /\ new[m].tid = list[m].tid
                 /\ new[m].isRead = list[m].isRead
                 /\ new[m].isLocked <=> (list[m].isLocked \/ m = n)
  BY <1>1, <1>2 DEF infoLock
<1> QED BY <1>2, <1>4, <1>5, <1>6, LenProperties

\* A release takes the one element of the thread out; the others move up.
LEMMA LeaveElements ==
  ASSUME NEW T, NEW list \in Seq(infoLock(T)), OneEach(list),
         NEW n \in DOMAIN list
  PROVE  LET new == Leave(list, list[n].tid)
         IN  /\ new \in Seq(infoLock(T))
             /\ DOMAIN list = 1 .. Len(list) /\ Len(list) \in Nat
             /\ DOMAIN new = 1 .. Len(list) - 1
             /\ \A m \in 1 .. Len(list) - 1 : new[m] = list[IF m < n THEN m ELSE m + 1]
<1> DEFINE front == SubSeq(list, 1, n - 1)
           back == SubSeq(list, n + 1, Len(list))
<1>1. DOMAIN list = 1 .. Len(list) /\ Len(list) \in Nat
  BY LenProperties
<1>2. Leave(list, list[n].tid) = front \o back
  BY PositionIsUnique DEF Leave, RemoveAt
<1>3. /\ front \in Seq(infoLock(T)) /\ Len(front) = n - 1
      /\ \A m \in 1 .. n - 1 : front[m] = list[m]
  BY <1>1, SubSeqProperties
<1>4. /\ back \in Seq(infoLock(T)) /\ Len(back) = Len(list) - n
      /\ \A m \in 1 .. Len(list) - n : back[m] = list[m + n]
  BY <1>1, SubSeqProperties
<1> HIDE DEF front, back
<1>n. n \in 1 .. Len(list) /\ n - 1 + (Len(list) - n) = Len(list) - 1
  BY <1>1
<1>5. /\ front \o back \in Seq(infoLock(T))
      /\ Len(front \o back) = Len(list) - 1
      /\ \A m \in 1 .. Len(list) - 1 :
           (front \o back)[m] = IF m <= n - 1 THEN front[m] ELSE back[m - (n - 1)]
  <2>1. /\ front \o back \in Seq(infoLock(T))
        /\ Len(front \o back) = Len(front) + Len(back)
        /\ \A m \in 1 .. Len(front) + Len(back) :
             (front \o back)[m] = IF m <= Len(front) THEN front[m] ELSE back[m - Len(front)]
    BY <1>3, <1>4, ConcatProperties, Zenon
  <2>2. Len(front) + Len(back) = Len(list) - 1
    BY <1>1, <1>3, <1>4, <1>n
  <2> QED BY <1>3, <2>1, <2>2, Zenon
<1>6. DOMAIN (front \o back) = 1 .. Len(list) - 1
  BY <1>5, LenProperties
<1>7. ASSUME NEW m \in 1 .. Len(list) - 1
      PROVE  (front \o back)[m] = list[IF m < n THEN m ELSE m + 1]
  <2>1. CASE m < n
    <3>1. m <= n - 1 /\ m \in 1 .. n - 1
      BY <1>1, <1>n, <2>1
    <3> QED BY <1>3, <1>5, <2>1, <3>1
  <2>2. CASE ~(m < n)
    <3>1. ~(m <= n - 1) /\ m - (n - 1) \in 1 .. Len(list) - n /\ m - (n - 1) + n = m + 1
      BY <1>1, <1>n, <2>2
    <3> QED BY <1>4, <1>5, <2>2, <3>1
  <2> QED BY <2>1, <2>2
<1> QED BY <1>1, <1>2, <1>5, <1>6, <1>7

-----------------------------------------------------------------------------
\* A request of a thread without an element keeps the list well-formed, when it
\* is granted under the conditions of readLock and writeLock
\* (rwlock.cpp:7-11,35-39).
LEMMA EnterKeeps ==
  ASSUME NEW T, NEW list \in Seq(infoLock(T)), OneEach(list), GrantedFirst(list),
         NEW t \in T, t \notin Tids(list), NEW r \in BOOLEAN, NEW l \in BOOLEAN,
         l => Exclusive(list) \/ (r /\ Shareable(list))
  PROVE  LET new == Enter(list, t, r, l)
         IN  /\ OneEach(new)
             /\ GrantedFirst(new)
             /\ Tids(new) = Tids(list) \cup {t}
<1> DEFINE new == Enter(list, t, r, l)
           N == Len(list)
<1>1. /\ DOMAIN list = 1 .. N /\ N \in Nat
      /\ DOMAIN new = 1 .. N + 1
      /\ \A n \in 1 .. N : new[n] = list[n]
      /\ new[N + 1] = [isRead |-> r, isLocked |-> l, tid |-> t]
  BY EnterElements
<1>2. \A n \in 1 .. N : list[n].tid # t
  BY <1>1 DEF Tids
<1>3. new[N + 1].tid = t /\ (new[N + 1].isLocked <=> l) /\ (new[N + 1].isRead <=> r)
  BY <1>1
<1> HIDE DEF new, N
<1>4. OneEach(new)
  BY <1>1, <1>2, <1>3 DEF OneEach
<1>5. GrantedFirst(new)
  <2> SUFFICES ASSUME NEW m \in 1 .. N + 1, NEW n \in 1 .. N + 1, m < n, new[n].isLocked
               PROVE  new[m].isLocked /\ new[m].isRead /\ new[n].isRead
    BY <1>1 DEF GrantedFirst
  <2>1. m \in 1 .. N
    BY <1>1
  <2>2. CASE n \in 1 .. N
    BY <1>1, <2>1, <2>2 DEF GrantedFirst
  <2>3. CASE n = N + 1
    <3>1. l
      BY <1>3, <2>3
    <3>2. list # <<>>
      BY <1>1, <2>1 DEF N
    <3>3. r /\ list[N].isRead /\ list[N].isLocked
      BY <3>1, <3>2 DEF Exclusive, Shareable, Last, N
    <3>4. N \in 1 .. N /\ (m = N \/ m < N)
      BY <1>1, <2>1
    <3>5. list[m].isLocked /\ list[m].isRead
      BY <1>1, <2>1, <3>3, <3>4 DEF GrantedFirst
    <3> QED BY <1>1, <1>3, <2>1, <2>3, <3>3, <3>5
  <2> QED BY <1>1, <2>2, <2>3
<1>6. Tids(new) = Tids(list) \cup {t}
  <2>1. ASSUME NEW u \in Tids(new) PROVE u \in Tids(list) \cup {t}
    <3>1. PICK n \in 1 .. N + 1 : u = new[n].tid
      BY <1>1, <2>1 DEF Tids
    <3>2. n = N + 1 \/ n \in 1 .. N
      BY <1>1
    <3> QED BY <1>1, <1>3, <3>1, <3>2 DEF Tids
  <2>2. Tids(list) \subseteq Tids(new)
    <3>1. 1 .. N \subseteq 1 .. N + 1
      BY <1>1
    <3> QED BY <1>1, <3>1 DEF Tids
  <2>3. t \in Tids(new)
    <3>1. N + 1 \in 1 .. N + 1
      BY <1>1
    <3> QED BY <1>1, <1>3, <3>1 DEF Tids
  <2> QED BY <2>1, <2>2, <2>3
<1> QED BY <1>4, <1>5, <1>6 DEF new

\* So does a grant under the conditions of the waiting loops
\* (rwlock.cpp:15-24,42-48).
LEMMA GrantKeeps ==
  ASSUME NEW T, NEW list \in Seq(infoLock(T)), OneEach(list), GrantedFirst(list),
         NEW n \in DOMAIN list,
         \/ WriterMayGo(list, list[n].tid)
         \/ list[n].isRead /\ ReaderMayGo(list, list[n].tid)
  PROVE  LET new == Grant(list, list[n].tid)
         IN  /\ OneEach(new)
             /\ GrantedFirst(new)
             /\ Tids(new) = Tids(list)
<1> DEFINE new == Grant(list, list[n].tid)
<1>1. /\ DOMAIN new = DOMAIN list
      /\ DOMAIN list = 1 .. Len(list) /\ Len(list) \in Nat
      /\ \A m \in DOMAIN list :
           /\ new[m].tid = list[m].tid
           /\ new[m].isRead = list[m].isRead
           /\ new[m].isLocked <=> (list[m].isLocked \/ m = n)
  BY GrantElements
<1>2. n = 1 \/ (list[n].isRead /\ list[n - 1].isRead /\ list[n - 1].isLocked)
  BY PositionIsUnique DEF WriterMayGo, ReaderMayGo
<1> HIDE DEF new
<1>3. OneEach(new)
  BY <1>1 DEF OneEach
<1>4. Tids(new) = Tids(list)
  BY <1>1 DEF Tids
<1>5. GrantedFirst(new)
  <2> SUFFICES ASSUME NEW i \in 1 .. Len(list), NEW k \in 1 .. Len(list), i < k, new[k].isLocked
               PROVE  new[i].isLocked /\ new[i].isRead /\ new[k].isRead
    BY <1>1 DEF GrantedFirst
  <2>1. CASE list[k].isLocked
    BY <1>1, <2>1 DEF GrantedFirst
  <2>2. CASE k = n
    <3>1. list[n].isRead /\ list[n - 1].isRead /\ list[n - 1].isLocked
      BY <1>1, <1>2, <2>2
    <3>2. n - 1 \in 1 .. Len(list) /\ (i = n - 1 \/ i < n - 1)
      BY <1>1, <2>2
    <3>3. list[i].isLocked /\ list[i].isRead
      BY <1>1, <3>1, <3>2 DEF GrantedFirst
    <3> QED BY <1>1, <2>2, <3>1, <3>3
  <2> QED BY <1>1, <2>1, <2>2
<1> QED BY <1>3, <1>4, <1>5 DEF new

\* So does a release, which removes the thread from the list.
LEMMA LeaveKeeps ==
  ASSUME NEW T, NEW list \in Seq(infoLock(T)), OneEach(list), GrantedFirst(list),
         NEW n \in DOMAIN list
  PROVE  LET new == Leave(list, list[n].tid)
         IN  /\ OneEach(new)
             /\ GrantedFirst(new)
             /\ Tids(new) = Tids(list) \ {list[n].tid}
<1> DEFINE new == Leave(list, list[n].tid)
           old(m) == IF m < n THEN m ELSE m + 1
           N == Len(list)
<1>1. /\ DOMAIN list = 1 .. N /\ N \in Nat
      /\ DOMAIN new = 1 .. N - 1
      /\ \A m \in 1 .. N - 1 : new[m] = list[old(m)]
  BY LeaveElements
<1>2. n \in 1 .. N
  BY <1>1
<1>3. ASSUME NEW m \in 1 .. N - 1
      PROVE  old(m) \in 1 .. N /\ old(m) # n /\ (old(m) = m \/ old(m) = m + 1)
  BY <1>1, <1>2 DEF old
<1>4. ASSUME NEW i \in 1 .. N - 1, NEW k \in 1 .. N - 1
      PROVE  (old(i) = old(k) => i = k) /\ (i < k => old(i) < old(k))
  BY <1>1, <1>2 DEF old
<1>5. ASSUME NEW m \in 1 .. N, m # n PROVE \E i \in 1 .. N - 1 : old(i) = m
  <2>1. CASE m < n
    <3>1. m \in 1 .. N - 1 /\ old(m) = m
      BY <1>1, <1>2, <2>1
    <3> QED BY <3>1
  <2>2. CASE m > n
    <3>1. m - 1 \in 1 .. N - 1 /\ old(m - 1) = m
      BY <1>1, <1>2, <2>2
    <3> QED BY <3>1
  <2> QED BY <1>1, <1>2, <1>5, <2>1, <2>2
<1> HIDE DEF new, old, N
<1>6. OneEach(new)
  BY <1>1, <1>3, <1>4 DEF OneEach
<1>7. GrantedFirst(new)
  BY <1>1, <1>3, <1>4 DEF GrantedFirst
<1>8. Tids(new) = Tids(list) \ {list[n].tid}
  <2>1. Tids(new) \subseteq Tids(list) \ {list[n].tid}
    BY <1>1, <1>2, <1>3 DEF Tids, OneEach
  <2>2. Tids(list) \ {list[n].tid} \subseteq Tids(new)
    <3> SUFFICES ASSUME NEW m \in 1 .. N, m # n PROVE list[m].tid \in Tids(new)
      BY <1>1 DEF Tids
    <3>1. PICK i \in 1 .. N - 1 : old(i) = m
      BY <1>5
    <3> QED BY <1>1, <3>1 DEF Tids
  <2> QED BY <2>1, <2>2
<1> QED BY <1>6, <1>7, <1>8 DEF new

-----------------------------------------------------------------------------

InList == {"spin", "check"} \cup Granted

LEMMA RWInvInitially == RWInit => RWInv
BY EmptySeq DEF RWInit, RWInv, RWTypeOK, ListDescribesThreads, RWStages, Granted, OneEach,
  GrantedFirst, Tids

\* An element belongs to a thread; a thread in the list has an element.
LEMMA Elements ==
  ASSUME RWInv
  PROVE  /\ DOMAIN waiting = 1 .. Len(waiting) /\ Len(waiting) \in Nat
         /\ \A n \in DOMAIN waiting : waiting[n] \in infoLock(Threads) /\ waiting[n].tid \in Threads
         /\ \A t \in Threads : pc[t] \in InList => \E n \in DOMAIN waiting : waiting[n].tid = t
<1>1. DOMAIN waiting = 1 .. Len(waiting) /\ Len(waiting) \in Nat
  BY LenProperties DEF RWInv, RWTypeOK
<1>2. \A n \in DOMAIN waiting : waiting[n] \in infoLock(Threads)
  BY <1>1, ElementOfSeq DEF RWInv, RWTypeOK
<1> QED BY <1>1, <1>2 DEF RWInv, ListDescribesThreads, Tids, infoLock, InList

\* readLock and writeLock: the request is granted exactly under the condition
\* that keeps the list well-formed.
LEMMA RequestKeepsInv ==
  ASSUME RWInv, NEW t \in Threads, readLock(t) \/ writeLock(t)
  PROVE  RWInv'
<1> DEFINE l == IF isReader[t] THEN Shareable(waiting) ELSE Exclusive(waiting)
<1>1. /\ pc[t] = "entry"
      /\ isReader[t] \in BOOLEAN
      /\ waiting' = Enter(waiting, t, isReader[t], l)
      /\ pc' = [pc EXCEPT ![t] = IF l THEN "inside" ELSE "spin"]
      /\ gM' = Nobody
      /\ isReader' = isReader
  BY DEF RWInv, RWTypeOK, readLock, writeLock, RWRequest, Goto
<1>2. \A n \in DOMAIN waiting : waiting[n].isRead \in BOOLEAN /\ waiting[n].isLocked \in BOOLEAN
  BY Elements DEF infoLock
<1>3. l \in BOOLEAN
  <2>1. waiting # <<>> => Last(waiting) \in infoLock(Threads)
    BY Elements DEF Last, RWInv, RWTypeOK
  <2> QED BY <2>1 DEF Shareable, Exclusive, infoLock
<1>4. waiting \in Seq(infoLock(Threads)) /\ OneEach(waiting) /\ GrantedFirst(waiting) /\ t \notin Tids(waiting)
  BY <1>1 DEF RWInv, RWTypeOK, ListDescribesThreads, Granted
<1>5. l => Exclusive(waiting) \/ (isReader[t] /\ Shareable(waiting))
  OBVIOUS
<1> HIDE DEF l
<1>6. /\ waiting' \in Seq(infoLock(Threads))
      /\ DOMAIN waiting = 1 .. Len(waiting) /\ Len(waiting) \in Nat
      /\ DOMAIN waiting' = 1 .. Len(waiting) + 1
      /\ \A n \in 1 .. Len(waiting) : waiting'[n] = waiting[n]
      /\ waiting'[Len(waiting) + 1] = [isRead |-> isReader[t], isLocked |-> l, tid |-> t]
  <2> DEFINE r == isReader[t]
  <2>1. r \in BOOLEAN /\ waiting' = Enter(waiting, t, r, l)
    BY <1>1
  <2> HIDE DEF r
  <2>2. LET new == Enter(waiting, t, r, l)
        IN  /\ new \in Seq(infoLock(Threads))
            /\ DOMAIN waiting = 1 .. Len(waiting) /\ Len(waiting) \in Nat
            /\ DOMAIN new = 1 .. Len(waiting) + 1
            /\ \A n \in 1 .. Len(waiting) : new[n] = waiting[n]
            /\ new[Len(waiting) + 1] = [isRead |-> r, isLocked |-> l, tid |-> t]
    BY <1>3, <1>4, <2>1, EnterElements
  <2>3. r = isReader[t]
    BY DEF r
  <2> QED BY <2>1, <2>2, <2>3, Zenon
<1>7. OneEach(waiting') /\ GrantedFirst(waiting') /\ Tids(waiting') = Tids(waiting) \cup {t}
  BY <1>1, <1>3, <1>4, <1>5, EnterKeeps
<1>8. RWTypeOK'
  BY <1>1, <1>3, <1>6 DEF RWInv, RWTypeOK, RWStages
<1>9. \A u \in Threads : u \in Tids(waiting') <=> pc'[u] \in {"spin", "check"} \cup Granted
  BY <1>1, <1>3, <1>7 DEF RWInv, RWTypeOK, ListDescribesThreads, Granted
<1>10. ASSUME NEW n \in DOMAIN waiting'
       PROVE  /\ waiting'[n].isRead <=> isReader'[waiting'[n].tid]
              /\ waiting'[n].isLocked <=> pc'[waiting'[n].tid] \in Granted
  <2>1. CASE n \in 1 .. Len(waiting)
    <3>1. waiting[n].tid # t /\ waiting[n].tid \in Threads
      BY <1>4, <1>6, <2>1, Elements DEF Tids
    <3> QED BY <1>1, <1>6, <2>1, <3>1 DEF RWInv, RWTypeOK, ListDescribesThreads
  <2>2. CASE n = Len(waiting) + 1
    <3>1. /\ waiting'[n].tid = t
          /\ waiting'[n].isRead = isReader[t]
          /\ waiting'[n].isLocked = l
      BY <1>6, <2>2
    <3>2. pc'[t] \in Granted <=> l
      BY <1>1, <1>3 DEF RWInv, RWTypeOK, Granted
    <3> QED BY <1>1, <3>1, <3>2
  <2> QED BY <1>6, <2>1, <2>2
<1> QED BY <1>7, <1>8, <1>9, <1>10 DEF RWInv, ListDescribesThreads

\* One turn of a waiting loop: a thread that goes on is granted its element
\* under the condition that keeps the list well-formed.
LEMMA TurnKeepsInv ==
  ASSUME RWInv, NEW t \in Threads, readSpin(t) \/ writeSpin(t)
  PROVE  RWInv'
<1> DEFINE l == IF isReader[t] THEN ReaderMayGo(waiting, t) ELSE WriterMayGo(waiting, t)
<1>1. /\ pc[t] = "check"
      /\ waiting' = IF l THEN Grant(waiting, t) ELSE waiting
      /\ pc' = [pc EXCEPT ![t] = IF l THEN "inside" ELSE "spin"]
      /\ gM' = Nobody
      /\ isReader' = isReader
  BY DEF RWInv, RWTypeOK, readSpin, writeSpin, Turn, Goto
<1>2. PICK n \in DOMAIN waiting : waiting[n].tid = t
  BY <1>1, Elements DEF InList
<1>3. waiting \in Seq(infoLock(Threads)) /\ OneEach(waiting) /\ GrantedFirst(waiting)
  BY DEF RWInv, RWTypeOK, ListDescribesThreads
<1>4. CASE l
  <2>1. waiting' = Grant(waiting, waiting[n].tid) /\ pc' = [pc EXCEPT ![t] = "inside"]
    BY <1>1, <1>2, <1>4
  <2>2. \/ WriterMayGo(waiting, waiting[n].tid)
        \/ waiting[n].isRead /\ ReaderMayGo(waiting, waiting[n].tid)
    BY <1>2, <1>4 DEF RWInv, ListDescribesThreads
  <2> HIDE DEF l
  <2>3. /\ waiting' \in Seq(infoLock(Threads))
        /\ DOMAIN waiting' = DOMAIN waiting
        /\ \A m \in DOMAIN waiting :
             /\ waiting'[m].tid = waiting[m].tid
             /\ waiting'[m].isRead = waiting[m].isRead
             /\ waiting'[m].isLocked <=> (waiting[m].isLocked \/ m = n)
    BY <1>3, <2>1, GrantElements
  <2>4. OneEach(waiting') /\ GrantedFirst(waiting') /\ Tids(waiting') = Tids(waiting)
    BY <1>3, <2>1, <2>2, GrantKeeps
  <2>5. RWTypeOK'
    BY <1>1, <2>1, <2>3 DEF RWInv, RWTypeOK, RWStages
  <2>6. \A u \in Threads : u \in Tids(waiting') <=> pc'[u] \in {"spin", "check"} \cup Granted
    BY <1>1, <2>1, <2>4 DEF RWInv, RWTypeOK, ListDescribesThreads, Granted
  <2>7. ASSUME NEW m \in DOMAIN waiting'
        PROVE  /\ waiting'[m].isRead <=> isReader'[waiting'[m].tid]
               /\ waiting'[m].isLocked <=> pc'[waiting'[m].tid] \in Granted
    <3>1. waiting[m].tid \in Threads /\ (m # n => waiting[m].tid # t)
      BY <1>2, <1>3, <2>3, Elements DEF OneEach
    <3>2. pc'[t] = "inside" /\ "inside" \in Granted /\ \A u \in Threads : u # t => pc'[u] = pc[u]
      BY <2>1 DEF RWInv, RWTypeOK, Granted
    <3> QED BY <1>1, <1>2, <2>3, <3>1, <3>2 DEF RWInv, ListDescribesThreads
  <2> QED BY <2>4, <2>5, <2>6, <2>7 DEF RWInv, ListDescribesThreads
<1>5. CASE ~l
  <2>1. waiting' = waiting /\ pc' = [pc EXCEPT ![t] = "spin"]
    BY <1>1, <1>5
  <2>2. RWTypeOK'
    BY <1>1, <2>1 DEF RWInv, RWTypeOK, RWStages
  <2>3. \A u \in Threads : pc'[u] \in Granted <=> pc[u] \in Granted
    BY <1>1, <2>1 DEF RWInv, RWTypeOK, Granted
  <2>4. \A u \in Threads : pc'[u] \in {"spin", "check"} \cup Granted <=> pc[u] \in {"spin", "check"} \cup Granted
    BY <1>1, <2>1, <2>3 DEF RWInv, RWTypeOK
  <2> HIDE DEF l
  <2> QED BY <1>1, <2>1, <2>2, <2>3, <2>4, Elements DEF RWInv, ListDescribesThreads
<1> QED BY <1>4, <1>5

\* A release takes the element of the thread out and nothing else.
LEMMA UnlockKeepsInv ==
  ASSUME RWInv, NEW t \in Threads, unlock(t)
  PROVE  RWInv'
<1>1. /\ pc[t] = "leave"
      /\ waiting' = Leave(waiting, t)
      /\ pc' = [pc EXCEPT ![t] = "outside"]
      /\ gM' = Nobody
      /\ isReader' = [isReader EXCEPT ![t] = FALSE]
  BY DEF unlock, Goto
<1>2. PICK n \in DOMAIN waiting : waiting[n].tid = t
  BY <1>1, Elements DEF InList, Granted
<1>3. waiting \in Seq(infoLock(Threads)) /\ OneEach(waiting) /\ GrantedFirst(waiting)
  BY DEF RWInv, RWTypeOK, ListDescribesThreads
<1>4. /\ waiting' \in Seq(infoLock(Threads))
      /\ DOMAIN waiting = 1 .. Len(waiting) /\ Len(waiting) \in Nat
      /\ DOMAIN waiting' = 1 .. Len(waiting) - 1
      /\ \A m \in 1 .. Len(waiting) - 1 : waiting'[m] = waiting[IF m < n THEN m ELSE m + 1]
  BY <1>1, <1>2, <1>3, LeaveElements
<1>5. OneEach(waiting') /\ GrantedFirst(waiting') /\ Tids(waiting') = Tids(waiting) \ {t}
  BY <1>1, <1>2, <1>3, LeaveKeeps
<1>6. RWTypeOK'
  BY <1>1, <1>4 DEF RWInv, RWTypeOK, RWStages
<1>7. \A u \in Threads : u \in Tids(waiting') <=> pc'[u] \in {"spin", "check"} \cup Granted
  BY <1>1, <1>5 DEF RWInv, RWTypeOK, ListDescribesThreads, Granted
<1>8. ASSUME NEW m \in DOMAIN waiting'
      PROVE  /\ waiting'[m].isRead <=> isReader'[waiting'[m].tid]
             /\ waiting'[m].isLocked <=> pc'[waiting'[m].tid] \in Granted
  <2>1. PICK k \in DOMAIN waiting : waiting'[m] = waiting[k]
    BY <1>4
  <2>2. waiting[k].tid \in Threads /\ waiting[k].tid # t
    <3>1. waiting[k].tid \in Tids(waiting')
      BY <2>1 DEF Tids
    <3> QED BY <1>5, <2>1, <3>1, Elements
  <2> QED BY <1>1, <2>1, <2>2 DEF RWInv, RWTypeOK, ListDescribesThreads
<1> QED BY <1>5, <1>6, <1>7, <1>8 DEF RWInv, ListDescribesThreads

\* The steps that do not touch the list.
LEMMA OtherStepsKeepInv ==
  ASSUME RWInv, NEW t \in Threads, Choose(t) \/ RWLockGlobal(t) \/ Finish(t)
  PROVE  RWInv'
<1>1. /\ waiting' = waiting
      /\ pc' \in [Threads -> RWStages]
      /\ isReader' \in [Threads -> BOOLEAN]
      /\ gM' \in Threads \cup {Nobody}
      /\ \A u \in Threads : /\ pc'[u] \in Granted <=> pc[u] \in Granted
                            /\ pc'[u] \in InList <=> pc[u] \in InList
                            /\ pc[u] \in InList => isReader'[u] = isReader[u]
  BY DEF RWInv, RWTypeOK, Choose, RWLockGlobal, Finish, Goto, RWStages, InList, Granted
<1>2. RWTypeOK'
  BY <1>1 DEF RWInv, RWTypeOK
<1>3. \A n \in DOMAIN waiting : waiting[n].tid \in Threads /\ pc[waiting[n].tid] \in InList
  BY Elements DEF RWInv, ListDescribesThreads, Tids, InList
<1> QED BY <1>1, <1>2, <1>3 DEF RWInv, ListDescribesThreads, InList

THEOREM RWInvariance == RWSpec => []RWInv
<1>1. RWInv /\ [RWNext]_rwVars => RWInv'
  <2> SUFFICES ASSUME RWInv, [RWNext]_rwVars PROVE RWInv'
    OBVIOUS
  <2>1. ASSUME NEW t \in Threads, Choose(t) \/ RWLockGlobal(t) \/ RWStep(t) \/ Finish(t) PROVE RWInv'
    BY <2>1, RequestKeepsInv, TurnKeepsInv, UnlockKeepsInv, OtherStepsKeepInv DEF RWStep
  <2>2. CASE UNCHANGED rwVars
    BY <2>2 DEF rwVars, RWInv, RWTypeOK, ListDescribesThreads
  <2> QED BY <2>1, <2>2 DEF RWNext
<1> QED BY <1>1, RWInvInitially, PTL DEF RWSpec

\* The list always is a list of requests, and every thread is at one of its
\* stages.
THEOREM RWTypeCorrect == RWSpec => []RWTypeOK
BY RWInvariance, PTL DEF RWInv

\* Two threads inside the lock of one record are both readers: both have marked
\* elements, and of two marked elements neither is a writer's (rwlock.cpp:6-50).
THEOREM Exclusion == RWSpec => []MutualExclusion
<1>1. RWInv => MutualExclusion
  <2> SUFFICES ASSUME RWInv, NEW t \in Threads, NEW u \in Threads, t # u,
                      pc[t] \in Granted, pc[u] \in Granted
               PROVE  isReader[t] /\ isReader[u]
    BY DEF MutualExclusion
  <2>1. PICK m \in DOMAIN waiting : waiting[m].tid = t
    BY Elements DEF InList
  <2>2. PICK n \in DOMAIN waiting : waiting[n].tid = u
    BY Elements DEF InList
  <2>3. waiting[m].isLocked /\ waiting[n].isLocked
    BY <2>1, <2>2 DEF RWInv, ListDescribesThreads
  <2>4. m < n \/ n < m
    BY <2>1, <2>2, Elements
  <2>5. waiting[m].isRead /\ waiting[n].isRead
    BY <2>3, <2>4 DEF RWInv, ListDescribesThreads, GrantedFirst
  <2> QED BY <2>1, <2>2, <2>5 DEF RWInv, ListDescribesThreads
<1> QED BY <1>1, RWInvariance, PTL

\* A thread is let in ahead of an earlier request only if both are readers and
\* the earlier one has been let in: what a request or a turn looks at, the last
\* element or the one before its own, answers for all the elements before it
\* (rwlock.cpp:7,20,42).
THEOREM Order == RWSpec => FirstComeFirstServed
<1>1. RWInv /\ [RWNext]_rwVars => [GrantsInTurn]_rwVars
  <2> SUFFICES ASSUME RWInv, RWNext PROVE GrantsInTurn
    OBVIOUS
  <2> SUFFICES ASSUME NEW t \in Threads, NEW u \in Threads, t # u,
                      pc[t] \notin Granted, pc'[t] \in Granted,
                      u \in Tids(waiting),
                      t \in Tids(waiting) => PositionOf(waiting, u) < PositionOf(waiting, t)
               PROVE  isReader[t] /\ isReader[u] /\ pc[u] \in Granted
    BY DEF GrantsInTurn
  <2>1. PICK m \in DOMAIN waiting : waiting[m].tid = u /\ PositionOf(waiting, u) = m
    BY PositionIsUnique DEF Tids, RWInv, RWTypeOK, ListDescribesThreads
  <2>2. /\ DOMAIN waiting = 1 .. Len(waiting) /\ Len(waiting) \in Nat
        /\ m \in 1 .. Len(waiting)
    BY Elements
  <2>3. SUFFICES /\ isReader[t]
                 /\ \E n \in DOMAIN waiting :
                      m <= n /\ waiting[n].isRead /\ waiting[n].isLocked
    <3>1. PICK n \in DOMAIN waiting : m <= n /\ waiting[n].isRead /\ waiting[n].isLocked
      BY <2>3
    <3>2. waiting[m].isRead /\ waiting[m].isLocked
      BY <2>2, <3>1 DEF RWInv, ListDescribesThreads, GrantedFirst
    <3> QED BY <2>1, <2>3, <3>2 DEF RWInv, ListDescribesThreads
  <2>4. readLock(t) \/ writeLock(t) \/ readSpin(t) \/ writeSpin(t)
    <3>1. PICK v \in Threads : Choose(v) \/ RWLockGlobal(v) \/ RWStep(v) \/ Finish(v)
      BY DEF RWNext
    <3>2. v = t
      BY <3>1 DEF Choose, RWLockGlobal, RWStep, Finish, readLock, writeLock, readSpin, writeSpin,
                  unlock, RWRequest, Turn, Goto, RWInv, RWTypeOK
    <3>3. ~Choose(t) /\ ~RWLockGlobal(t) /\ ~unlock(t) /\ ~Finish(t)
      BY DEF Choose, RWLockGlobal, unlock, Finish, Goto, RWInv, RWTypeOK, Granted
    <3> QED BY <3>1, <3>2, <3>3 DEF RWStep
  <2>5. CASE readLock(t) \/ writeLock(t)
    <3>1. IF isReader[t] THEN Shareable(waiting) ELSE Exclusive(waiting)
      BY <2>5 DEF readLock, writeLock, RWRequest, Goto, RWInv, RWTypeOK, Granted
    <3>2. waiting # <<>>
      BY <2>2
    <3>3. isReader[t] /\ Last(waiting).isRead /\ Last(waiting).isLocked
      BY <3>1, <3>2 DEF Shareable, Exclusive
    <3> QED BY <2>2, <3>3 DEF Last
  <2>6. CASE readSpin(t) \/ writeSpin(t)
    <3>1. /\ pc[t] = "check"
          /\ IF isReader[t] THEN ReaderMayGo(waiting, t) ELSE WriterMayGo(waiting, t)
      BY <2>6 DEF readSpin, writeSpin, Turn, Goto, RWInv, RWTypeOK, Granted
    <3>2. t \in Tids(waiting)
      BY <3>1 DEF RWInv, ListDescribesThreads
    <3>3. PICK n \in DOMAIN waiting : waiting[n].tid = t /\ PositionOf(waiting, t) = n
      BY <3>2, PositionIsUnique DEF Tids, RWInv, RWTypeOK, ListDescribesThreads
    <3>4. m < n
      BY <2>1, <3>2, <3>3
    <3>5. isReader[t] /\ waiting[n - 1].isRead /\ waiting[n - 1].isLocked
      BY <2>2, <3>1, <3>3, <3>4 DEF ReaderMayGo, WriterMayGo
    <3>6. n - 1 \in DOMAIN waiting /\ m <= n - 1
      BY <2>2, <3>4
    <3> QED BY <3>5, <3>6
  <2> QED BY <2>4, <2>5, <2>6
<1> QED BY <1>1, RWInvariance, PTL DEF RWSpec, FirstComeFirstServed

-----------------------------------------------------------------------------
(***************************************************************************)
(* The lock table and the transactions.                                    *)
(***************************************************************************)
\* Neither conjunct is inductive alone: the lists stay lists of requests only
\* because an unlock finds the element it looks for.
Inv == TypeOK /\ LockTableAgrees

-----------------------------------------------------------------------------
\* The three records of a transaction are a sequence of distinct records.
LEMMA PickFacts ==
  ASSUME Inv, NEW t \in Threads
  PROVE  /\ pick[t] \in [1 .. 3 -> Records]
         /\ pick[t] \in Seq(Records)
         /\ Len(pick[t]) = 3
         /\ DOMAIN pick[t] = 1 .. 3
         /\ \A m, n \in 1 .. 3 : m # n => pick[t][m] # pick[t][n]
<1>1. pick[t] \in [1 .. 3 -> Records] /\ \A m, n \in 1 .. 3 : m # n => pick[t][m] # pick[t][n]
  BY DEF Inv, TypeOK, Picks, Serial!Picks
<1>2. pick[t] \in Seq(Records)
  BY <1>1, SeqDef
<1>3. DOMAIN pick[t] = 1 .. Len(pick[t]) /\ Len(pick[t]) \in Nat
  BY <1>2, LenProperties
<1>4. Len(pick[t]) = 3
  BY <1>1, <1>3
<1> QED BY <1>1, <1>2, <1>4

\* Asking for the nth record extends the list info of the records asked for.
LEMMA InfoGrows ==
  ASSUME NEW S, NEW s \in Seq(S), NEW n \in 1 .. Len(s)
  PROVE  Append(SubSeq(s, 1, n - 1), s[n]) = SubSeq(s, 1, n)
<1>1. Len(s) \in Nat /\ 1 \in 1 .. Len(s) /\ n \in 1 .. Len(s)
  BY LenProperties
<1>2. SubSeq(s, 1, n) = SubSeq(s, 1, n - 1) \o <<s[n]>>
  BY <1>1, SubSeqRecursiveSecond
<1>3. s[n] \in S
  BY ElementOfSeq
<1>4. SubSeq(s, 1, n - 1) \in Seq(S)
  BY <1>1, SubSeqProperties, ElementOfSeq
<1> QED BY <1>2, <1>3, <1>4, AppendIsConcat

\* Popping as many elements as there are leaves nothing.
LEMMA InfoEmptied ==
  ASSUME NEW S, NEW s \in Seq(S)
  PROVE  SubSeq(s, Len(s) + 1, Len(s)) = <<>>
BY LenProperties, SubSeqEmpty

\* The first n records of a transaction.
LEMMA InfoElements ==
  ASSUME NEW S, NEW s \in Seq(S), NEW n \in 0 .. Len(s)
  PROVE  /\ SubSeq(s, 1, n) \in Seq(S)
         /\ Len(SubSeq(s, 1, n)) = n
         /\ DOMAIN SubSeq(s, 1, n) = 1 .. n
         /\ \A m \in 1 .. n : SubSeq(s, 1, n)[m] = s[m]
<1>1. Len(s) \in Nat /\ n \in Nat /\ \A m \in 1 .. n : s[m] \in S
  BY LenProperties, ElementOfSeq
<1>2. /\ SubSeq(s, 1, n) \in Seq(S)
      /\ Len(SubSeq(s, 1, n)) = IF 1 <= n THEN n - 1 + 1 ELSE 0
      /\ \A m \in 1 .. n - 1 + 1 : SubSeq(s, 1, n)[m] = s[1 + m - 1]
  BY <1>1, SubSeqProperties
<1>3. Len(SubSeq(s, 1, n)) = n
  BY <1>1, <1>2
<1>4. DOMAIN SubSeq(s, 1, n) = 1 .. n
  BY <1>2, <1>3, LenProperties
<1>5. \A m \in 1 .. n : SubSeq(s, 1, n)[m] = s[m]
  BY <1>1, <1>2
<1> QED BY <1>2, <1>3, <1>4, <1>5

\* The part of the type invariant that says where the threads are.
LEMMA Progress ==
  ASSUME Inv
  PROVE  /\ pc \in [Threads -> Stages]
         /\ nth \in [Threads -> 1 .. 4]
         /\ pick \in [Threads -> Picks]
         /\ \A t \in Threads : NthAgrees(t)
BY DEF Inv, TypeOK

\* How far a thread can be at each stage.
LEMMA EnteredRange ==
  ASSUME Inv, NEW t \in Threads
  PROVE  /\ Entered(t) \in 0 .. 3
         /\ GrantedTo(t) \in 0 .. Entered(t)
         /\ nth[t] \in 1 .. 4
         /\ pc[t] \in {"request", "spin", "poll", "read", "write"} => nth[t] \in 1 .. 3
<1> DEFINE n == nth[t]
           p == pc[t]
<1>1. /\ n \in 1 .. 4 /\ p \in Stages
      /\ p \in {"loop", "done"} => n = 1
      /\ p \in {"request", "spin", "poll", "read"} => n \in 1 .. 3
      /\ p = "write" => n \in 2 .. 3
      /\ p \in {"release", "finish"} => n = 4
  BY Progress DEF NthAgrees
<1>2. /\ Entered(t) = IF p \in {"loop", "done", "finish"} THEN 0
                      ELSE IF p \in {"lock", "request", "release"} THEN n - 1 ELSE n
      /\ GrantedTo(t) = IF p \in {"spin", "poll"} THEN n - 1 ELSE Entered(t)
  BY DEF Entered, GrantedTo
<1> HIDE DEF n, p
<1>3. p \in {"request", "spin", "poll", "read", "write"} => n \in 1 .. 3
  BY <1>1
<1>4. Entered(t) \in 0 .. 3
  BY <1>1, <1>2 DEF Stages
<1>5. GrantedTo(t) \in 0 .. Entered(t)
  BY <1>1, <1>2, <1>4 DEF Stages
<1> QED BY <1>1, <1>3, <1>4, <1>5 DEF n, p

\* A list and its elements.
LEMMA ListFacts ==
  ASSUME Inv, NEW r \in Records
  PROVE  /\ locks[r] \in Seq(infoLock(Threads))
         /\ OneEach(locks[r]) /\ GrantedFirst(locks[r])
         /\ DOMAIN locks[r] = 1 .. Len(locks[r]) /\ Len(locks[r]) \in Nat
         /\ \A n \in DOMAIN locks[r] : /\ locks[r][n] \in infoLock(Threads)
                                       /\ locks[r][n].tid \in Threads
                                       /\ locks[r][n].isRead \in BOOLEAN
                                       /\ locks[r][n].isLocked \in BOOLEAN
<1>1. locks[r] \in Seq(infoLock(Threads))
  BY DEF Inv, TypeOK, LockTableTypeOK
<1>2. DOMAIN locks[r] = 1 .. Len(locks[r]) /\ Len(locks[r]) \in Nat
  BY <1>1, LenProperties
<1>3. \A n \in DOMAIN locks[r] : locks[r][n] \in infoLock(Threads)
  BY <1>1, <1>2, ElementOfSeq
<1> QED BY <1>1, <1>2, <1>3 DEF infoLock, Inv, LockTableAgrees, ListAgrees

\* A thread that stays where it is keeps its records.
LEMMA OthersKeep ==
  ASSUME NEW u, pc'[u] = pc[u], nth'[u] = nth[u], pick'[u] = pick[u]
  PROVE  /\ Entered(u)' = Entered(u)
         /\ GrantedTo(u)' = GrantedTo(u)
         /\ Held(u)' = Held(u)
         /\ \A n : FirstOf(u, n)' = FirstOf(u, n)
BY DEF Entered, GrantedTo, Held, FirstOf

-----------------------------------------------------------------------------
\* A step that leaves the lock table alone keeps its type.
LEMMA TypingOfTable == Inv /\ UNCHANGED lockVars => LockTableTypeOK'
BY DEF Inv, TypeOK, LockTableTypeOK, lockVars

\* A step of thread t, seen from the other threads.
OnlyMoves(t) ==
  \A u \in Threads : u # t => pc'[u] = pc[u] /\ nth'[u] = nth[u] /\ pick'[u] = pick[u]

\* A step that leaves the lock table alone, and the thread as far as it was.
LEMMA SameLocks ==
  ASSUME Inv, NEW t \in Threads, OnlyMoves(t), UNCHANGED lockVars,
         Entered(t)' = Entered(t), GrantedTo(t)' = GrantedTo(t),
         pick'[t] = pick[t] \/ Entered(t) = 0
  PROVE  LockTableAgrees'
<1>1. \A u \in Threads : Entered(u)' = Entered(u) /\ GrantedTo(u)' = GrantedTo(u)
  BY OthersKeep DEF OnlyMoves
<1>2. \A u \in Threads : pick'[u] = pick[u] \/ Entered(u) = 0
  BY DEF OnlyMoves
<1>3. ASSUME NEW u \in Threads
      PROVE  /\ FirstOf(u, Entered(u))' = FirstOf(u, Entered(u))
             /\ Held(u)' = Held(u)
             /\ SubSeq(pick'[u], 1, Entered(u)) = SubSeq(pick[u], 1, Entered(u))
  <2>1. CASE pick'[u] = pick[u]
    BY <1>1, <2>1 DEF FirstOf, Held
  <2>2. CASE Entered(u) = 0
    <3>1. GrantedTo(u) = 0
      BY <2>2, EnteredRange
    <3>2. FirstOf(u, 0) = {} /\ FirstOf(u, 0)' = {}
      BY DEF FirstOf
    <3>3. SubSeq(pick'[u], 1, 0) = <<>> /\ SubSeq(pick[u], 1, 0) = <<>>
      BY SubSeqEmpty
    <3> QED BY <1>1, <2>2, <3>1, <3>2, <3>3 DEF Held, FirstOf
  <2> QED BY <1>2, <2>1, <2>2
<1>4. ASSUME NEW u \in Threads PROVE InfoAgrees(u)'
  BY <1>1, <1>3 DEF Inv, LockTableAgrees, InfoAgrees, lockVars
<1>5. ASSUME NEW r \in Records PROVE ListAgrees(r)'
  <2>1. locks' = locks /\ ListAgrees(r)
    BY DEF lockVars, Inv, LockTableAgrees
  <2>2. \A u \in Threads : u \in Tids(locks'[r]) <=> r \in FirstOf(u, Entered(u))'
    BY <1>3, <2>1 DEF ListAgrees
  <2>3. ASSUME NEW u \in Threads, NEW n \in DOMAIN locks[r], locks[r][n].tid = u
        PROVE  /\ locks[r][n].isRead <=> r = pick'[u][1]
               /\ locks[r][n].isLocked <=> r \in Held(u)'
    <3>1. u \in Tids(locks[r])
      BY <2>3 DEF Tids
    <3>2. r \in FirstOf(u, Entered(u))
      BY <2>1, <3>1 DEF ListAgrees
    <3>3. Entered(u) # 0
      BY <3>2 DEF FirstOf
    <3>4. pick'[u] = pick[u] /\ Held(u)' = Held(u)
      BY <1>2, <1>3, <3>3
    <3> QED BY <2>1, <2>3, <3>4 DEF ListAgrees
  <2> QED BY <2>1, <2>2, <2>3 DEF ListAgrees
<1> QED BY <1>4, <1>5 DEF LockTableAgrees

\* Both ends of a transaction: one unlock for every record asked for.
LEMMA UnlockKeeps ==
  ASSUME Inv, NEW t \in Threads, OnlyMoves(t),
         UnlockRecords(t, SubSeq(pick[t], 1, Entered(t))), Entered(t)' = 0, GrantedTo(t)' = 0
  PROVE  LockTableTypeOK' /\ LockTableAgrees'
<1> DEFINE k == Entered(t)
           rs == SubSeq(pick[t], 1, k)
<1>0. k \in 0 .. 3
  BY EnteredRange
<1>1. /\ Len(rs) = k
      /\ DOMAIN rs = 1 .. k
      /\ \A m \in 1 .. k : rs[m] = pick[t][m]
  BY <1>0, PickFacts, InfoElements
<1>2. \A r \in Records : (\E n \in DOMAIN rs : rs[n] = r) <=> r \in FirstOf(t, k)
  BY <1>1 DEF FirstOf
<1>3. /\ locks' = [r \in Records |-> IF r \in FirstOf(t, k) THEN Leave(locks[r], t) ELSE locks[r]]
      /\ info' = [info EXCEPT ![t] = SubSeq(@, Len(rs) + 1, Len(@))]
  BY <1>2 DEF UnlockRecords
<1>4. info[t] = rs /\ info \in [Threads -> Seq(Records)] /\ rs \in Seq(Records)
  BY <1>0, PickFacts, InfoElements DEF Inv, TypeOK, LockTableTypeOK, LockTableAgrees, InfoAgrees
<1>5. SubSeq(rs, Len(rs) + 1, Len(rs)) = <<>>
  BY <1>4, InfoEmptied
<1>6. info' = [info EXCEPT ![t] = <<>>]
  BY <1>3, <1>4, <1>5
<1>7. \A r \in Records : r \in FirstOf(t, k) <=> t \in Tids(locks[r])
  BY DEF Inv, LockTableAgrees, ListAgrees
<1> HIDE DEF k, rs
<1>8. FirstOf(t, 0)' = {} /\ Held(t)' = {}
  BY DEF FirstOf, Held
<1>9. ASSUME NEW r \in Records
      PROVE  /\ locks'[r] \in Seq(infoLock(Threads))
             /\ OneEach(locks'[r]) /\ GrantedFirst(locks'[r])
             /\ Tids(locks'[r]) = Tids(locks[r]) \ {t}
             /\ \A m \in DOMAIN locks'[r] : \E n \in DOMAIN locks[r] : locks'[r][m] = locks[r][n]
  <2>1. CASE r \in FirstOf(t, k)
    <3>1. PICK n \in DOMAIN locks[r] : locks[r][n].tid = t
      BY <1>7, <2>1 DEF Tids
    <3>2. locks'[r] = Leave(locks[r], locks[r][n].tid)
      BY <1>3, <2>1, <3>1
    <3>3. /\ locks'[r] \in Seq(infoLock(Threads))
          /\ DOMAIN locks[r] = 1 .. Len(locks[r]) /\ Len(locks[r]) \in Nat
          /\ DOMAIN locks'[r] = 1 .. Len(locks[r]) - 1
          /\ \A m \in 1 .. Len(locks[r]) - 1 : locks'[r][m] = locks[r][IF m < n THEN m ELSE m + 1]
      BY <3>2, ListFacts, LeaveElements
    <3>4. OneEach(locks'[r]) /\ GrantedFirst(locks'[r]) /\ Tids(locks'[r]) = Tids(locks[r]) \ {t}
      BY <3>1, <3>2, ListFacts, LeaveKeeps
    <3>5. \A m \in 1 .. Len(locks[r]) - 1 : (IF m < n THEN m ELSE m + 1) \in DOMAIN locks[r]
      BY <3>3
    <3> QED BY <3>3, <3>4, <3>5
  <2>2. CASE r \notin FirstOf(t, k)
    <3>1. locks'[r] = locks[r]
      BY <1>3, <2>2
    <3> QED BY <1>7, <2>2, <3>1, ListFacts
  <2> QED BY <2>1, <2>2
<1>10. LockTableTypeOK'
  <2>1. info' \in [Threads -> Seq(Records)]
    BY <1>4, <1>6, EmptySeq
  <2>2. locks' = [r \in Records |-> locks'[r]]
    BY <1>3
  <2> QED BY <1>9, <2>1, <2>2 DEF LockTableTypeOK
<1>11. ASSUME NEW u \in Threads PROVE InfoAgrees(u)'
  <2>1. CASE u = t
    <3>1. info'[t] = <<>> /\ SubSeq(pick'[t], 1, 0) = <<>>
      BY <1>4, <1>6, SubSeqEmpty
    <3> QED BY <2>1, <3>1 DEF InfoAgrees
  <2>2. CASE u # t
    <3>1. info'[u] = info[u] /\ pick'[u] = pick[u] /\ Entered(u)' = Entered(u)
      BY <1>4, <1>6, <2>2, OthersKeep DEF OnlyMoves
    <3> QED BY <3>1 DEF InfoAgrees, Inv, LockTableAgrees
  <2> QED BY <2>1, <2>2
<1>12. ASSUME NEW r \in Records PROVE ListAgrees(r)'
  <2>1. ASSUME NEW u \in Threads
        PROVE  u \in Tids(locks'[r]) <=> r \in FirstOf(u, Entered(u))'
    <3>1. CASE u = t
      BY <1>8, <1>9, <3>1 DEF FirstOf
    <3>2. CASE u # t
      <4>1. FirstOf(u, Entered(u))' = FirstOf(u, Entered(u))
        BY <3>2, OthersKeep DEF OnlyMoves, FirstOf
      <4> QED BY <1>9, <3>2, <4>1 DEF Inv, LockTableAgrees, ListAgrees
    <3> QED BY <3>1, <3>2
  <2>2. ASSUME NEW u \in Threads, NEW m \in DOMAIN locks'[r], locks'[r][m].tid = u
        PROVE  /\ locks'[r][m].isRead <=> r = pick'[u][1]
               /\ locks'[r][m].isLocked <=> r \in Held(u)'
    <3>1. PICK n \in DOMAIN locks[r] : locks'[r][m] = locks[r][n]
      BY <1>9
    <3>2. u # t
      BY <1>9, <2>2 DEF Tids
    <3>3. pick'[u] = pick[u] /\ Held(u)' = Held(u)
      BY <3>2, OthersKeep DEF OnlyMoves
    <3> QED BY <2>2, <3>1, <3>3 DEF Inv, LockTableAgrees, ListAgrees
  <2> QED BY <1>9, <2>1, <2>2 DEF ListAgrees
<1> QED BY <1>10, <1>11, <1>12 DEF LockTableAgrees

\* A request that goes ahead, granted exactly when it need not wait.
LEMMA RequestKeeps ==
  ASSUME Inv, NEW t \in Threads, OnlyMoves(t), pick'[t] = pick[t], nth'[t] = nth[t],
         pc[t] = "request", LockRecord(t, Target(t), Reading(t)),
         pc'[t] = IF needDetect(Target(t), Reading(t)) THEN "spin" ELSE "read"
  PROVE  LockTableTypeOK' /\ LockTableAgrees'
<1> DEFINE k == nth[t]
           x == Target(t)
           b == Reading(t)
           l == ~needDetect(x, b)
<1>1. k \in 1 .. 3 /\ Entered(t) = k - 1 /\ GrantedTo(t) = k - 1
  BY EnteredRange DEF Entered, GrantedTo
<1>2. /\ x = pick[t][k] /\ x \in Records
      /\ b \in BOOLEAN /\ (b <=> x = pick[t][1])
      /\ l \in BOOLEAN
  BY <1>1, PickFacts DEF Target, Reading, needDetect
<1>3. l => Exclusive(locks[x]) \/ (b /\ Shareable(locks[x]))
  BY DEF needDetect
<1>4. /\ info' = [info EXCEPT ![t] = Append(@, x)]
      /\ locks' = [locks EXCEPT ![x] = Enter(@, t, b, l)]
  BY DEF LockRecord
<1>5. (l => pc'[t] = "read") /\ (~l => pc'[t] = "spin")
  OBVIOUS
<1> HIDE DEF k, x, b, l
<1>6. /\ Entered(t)' = k
      /\ l => GrantedTo(t)' = k
      /\ ~l => GrantedTo(t)' = k - 1
  BY <1>2, <1>5 DEF Entered, GrantedTo, k
<1>7. /\ FirstOf(t, k) = FirstOf(t, k - 1) \cup {x}
      /\ x \notin FirstOf(t, k - 1)
      /\ \A n : FirstOf(t, n)' = FirstOf(t, n)
  <2>1. /\ \A m \in 1 .. k : m \in 1 .. k - 1 \/ m = k
        /\ \A m \in 1 .. k - 1 : m \in 1 .. k /\ m \in 1 .. 3 /\ m # k
        /\ k \in 1 .. k
    BY <1>1
  <2>2. \A m \in 1 .. k - 1 : pick[t][m] # x
    BY <1>1, <1>2, <2>1, PickFacts
  <2> QED BY <1>2, <2>1, <2>2 DEF FirstOf
<1>8. locks \in [Records -> Seq(infoLock(Threads))] /\ info \in [Threads -> Seq(Records)]
  BY DEF Inv, TypeOK, LockTableTypeOK
<1>9. t \notin Tids(locks[x])
  BY <1>1, <1>2, <1>7 DEF Inv, LockTableAgrees, ListAgrees
<1>10. LET new == Enter(locks[x], t, b, l)
           N == Len(locks[x])
       IN  /\ new \in Seq(infoLock(Threads))
           /\ DOMAIN locks[x] = 1 .. N /\ N \in Nat
           /\ DOMAIN new = 1 .. N + 1
           /\ \A n \in 1 .. N : new[n] = locks[x][n]
           /\ new[N + 1] = [isRead |-> b, isLocked |-> l, tid |-> t]
  BY <1>2, ListFacts, EnterElements
<1>11. LET new == Enter(locks[x], t, b, l)
       IN  OneEach(new) /\ GrantedFirst(new) /\ Tids(new) = Tids(locks[x]) \cup {t}
  BY <1>2, <1>3, <1>9, ListFacts, EnterKeeps
<1>12. locks'[x] = Enter(locks[x], t, b, l) /\ \A r \in Records : r # x => locks'[r] = locks[r]
  BY <1>2, <1>4, <1>8
<1>13. LockTableTypeOK'
  BY <1>2, <1>4, <1>8, <1>10, AppendProperties DEF LockTableTypeOK
<1>14. ASSUME NEW u \in Threads PROVE InfoAgrees(u)'
  <2>1. CASE u = t
    <3>1. info[t] = SubSeq(pick[t], 1, k - 1)
      BY <1>1 DEF Inv, LockTableAgrees, InfoAgrees
    <3>2. info'[t] = Append(SubSeq(pick[t], 1, k - 1), pick[t][k])
      BY <1>2, <1>4, <1>8, <3>1
    <3>3. info'[t] = SubSeq(pick[t], 1, k)
      BY <1>1, <3>2, PickFacts, InfoGrows
    <3> QED BY <1>6, <2>1, <3>3 DEF InfoAgrees
  <2>2. CASE u # t
    <3>1. info'[u] = info[u] /\ pick'[u] = pick[u] /\ Entered(u)' = Entered(u)
      BY <1>4, <1>8, <2>2, OthersKeep DEF OnlyMoves
    <3> QED BY <3>1 DEF InfoAgrees, Inv, LockTableAgrees
  <2> QED BY <2>1, <2>2
<1>15. ASSUME NEW r \in Records, NEW u \in Threads
       PROVE  /\ r \in FirstOf(u, Entered(u))' <=> r \in FirstOf(u, Entered(u)) \/ (u = t /\ r = x)
              /\ u # t \/ r # x => (r \in Held(u)' <=> r \in Held(u))
              /\ u = t /\ r = x => (r \in Held(u)' <=> l)
              /\ pick'[u] = pick[u]
  <2>1. CASE u = t
    <3>1. FirstOf(t, Entered(t))' = FirstOf(t, k) /\ FirstOf(t, Entered(t)) = FirstOf(t, k - 1)
      BY <1>1, <1>6, <1>7 DEF FirstOf
    <3>2. Held(t) = FirstOf(t, k - 1) /\ Held(t)' = FirstOf(t, IF l THEN k ELSE k - 1)
      BY <1>1, <1>6, <1>7 DEF Held, FirstOf
    <3> QED BY <1>7, <2>1, <3>1, <3>2
  <2>2. CASE u # t
    <3>1. FirstOf(u, Entered(u))' = FirstOf(u, Entered(u)) /\ Held(u)' = Held(u)
      BY <2>2, OthersKeep DEF OnlyMoves, FirstOf
    <3> QED BY <2>2, <3>1 DEF OnlyMoves
  <2> QED BY <2>1, <2>2
<1>16. ASSUME NEW r \in Records PROVE ListAgrees(r)'
  <2>1. ListAgrees(r)
    BY DEF Inv, LockTableAgrees
  <2>2. CASE r # x
    <3>1. locks'[r] = locks[r]
      BY <1>12, <2>2
    <3> QED BY <1>15, <2>1, <2>2, <3>1 DEF ListAgrees
  <2>3. CASE r = x
    <3> DEFINE N == Len(locks[x])
    <3>1. /\ DOMAIN locks[x] = 1 .. N /\ N \in Nat
          /\ DOMAIN locks'[x] = 1 .. N + 1
          /\ \A n \in 1 .. N : locks'[x][n] = locks[x][n]
          /\ locks'[x][N + 1].tid = t
          /\ locks'[x][N + 1].isRead = b
          /\ locks'[x][N + 1].isLocked = l
      BY <1>10, <1>12
    <3> HIDE DEF N
    <3>2. OneEach(locks'[x]) /\ GrantedFirst(locks'[x]) /\ Tids(locks'[x]) = Tids(locks[x]) \cup {t}
      BY <1>11, <1>12
    <3>3. \A u \in Threads : u \in Tids(locks'[x]) <=> x \in FirstOf(u, Entered(u))'
      BY <1>2, <1>15, <2>1, <2>3, <3>2 DEF ListAgrees
    <3>4. ASSUME NEW u \in Threads, NEW n \in DOMAIN locks'[x], locks'[x][n].tid = u
          PROVE  /\ locks'[x][n].isRead <=> x = pick'[u][1]
                 /\ locks'[x][n].isLocked <=> x \in Held(u)'
      <4>1. CASE n \in 1 .. N
        <5>1. locks'[x][n] = locks[x][n] /\ n \in DOMAIN locks[x]
          BY <3>1, <4>1
        <5>2. u # t
          BY <1>9, <3>4, <5>1 DEF Tids
        <5> QED BY <1>2, <1>15, <2>1, <2>3, <3>4, <5>1, <5>2 DEF ListAgrees
      <4>2. CASE n = N + 1
        <5>1. u = t
          BY <3>1, <3>4, <4>2
        <5> QED BY <1>2, <1>15, <3>1, <4>2, <5>1
      <4> QED BY <3>1, <4>1, <4>2
    <3> QED BY <2>3, <3>2, <3>3, <3>4 DEF ListAgrees
  <2> QED BY <2>2, <2>3
<1> QED BY <1>13, <1>14, <1>16 DEF LockTableAgrees

\* A waiting thread whose turn has come.
LEMMA GrantKeepsTable ==
  ASSUME Inv, NEW t \in Threads, OnlyMoves(t), pick'[t] = pick[t], nth'[t] = nth[t],
         pc[t] = "poll", MayGo(t, Target(t), Reading(t)), GrantRecord(t, Target(t)),
         pc'[t] = "read"
  PROVE  LockTableTypeOK' /\ LockTableAgrees'
<1> DEFINE k == nth[t]
           x == Target(t)
<1>1. /\ k \in 1 .. 3 /\ Entered(t) = k /\ GrantedTo(t) = k - 1
      /\ Entered(t)' = k /\ GrantedTo(t)' = k
  BY EnteredRange DEF Entered, GrantedTo
<1>2. x = pick[t][k] /\ x \in Records
  BY <1>1, PickFacts DEF Target
<1>3. /\ info' = info
      /\ locks' = [locks EXCEPT ![x] = Grant(@, t)]
  BY DEF GrantRecord
<1>4. IF Reading(t) THEN ReaderMayGo(locks[x], t) ELSE WriterMayGo(locks[x], t)
  BY DEF MayGo
<1>5. Reading(t) <=> x = pick[t][1]
  BY <1>1, <1>2, PickFacts DEF Reading
<1> HIDE DEF k, x
<1>6. /\ FirstOf(t, k) = FirstOf(t, k - 1) \cup {x}
      /\ \A n : FirstOf(t, n)' = FirstOf(t, n)
  <2>1. /\ \A m \in 1 .. k : m \in 1 .. k - 1 \/ m = k
        /\ \A m \in 1 .. k - 1 : m \in 1 .. k
        /\ k \in 1 .. k
    BY <1>1
  <2> QED BY <1>2, <2>1 DEF FirstOf
<1>7. x \in FirstOf(t, Entered(t))
  BY <1>1, <1>6
<1>8. PICK n \in DOMAIN locks[x] : locks[x][n].tid = t
  BY <1>2, <1>7 DEF Inv, LockTableAgrees, ListAgrees, Tids
<1>9. locks \in [Records -> Seq(infoLock(Threads))] /\ info \in [Threads -> Seq(Records)]
  BY DEF Inv, TypeOK, LockTableTypeOK
<1>10. /\ locks'[x] = Grant(locks[x], locks[x][n].tid)
       /\ \A r \in Records : r # x => locks'[r] = locks[r]
       /\ locks' = [r \in Records |-> locks'[r]]
  BY <1>2, <1>3, <1>8, <1>9
<1>11. /\ locks'[x] \in Seq(infoLock(Threads))
       /\ DOMAIN locks'[x] = DOMAIN locks[x]
       /\ \A m \in DOMAIN locks[x] :
            /\ locks'[x][m].tid = locks[x][m].tid
            /\ locks'[x][m].isRead = locks[x][m].isRead
            /\ locks'[x][m].isLocked <=> (locks[x][m].isLocked \/ m = n)
  <2> DEFINE new == Grant(locks[x], locks[x][n].tid)
  <2>1. /\ new \in Seq(infoLock(Threads))
        /\ DOMAIN new = DOMAIN locks[x]
        /\ \A m \in DOMAIN locks[x] :
             /\ new[m].tid = locks[x][m].tid
             /\ new[m].isRead = locks[x][m].isRead
             /\ new[m].isLocked <=> (locks[x][m].isLocked \/ m = n)
    BY <1>2, ListFacts, GrantElements
  <2>2. locks'[x] = new
    BY <1>10
  <2> HIDE DEF new
  <2> QED BY <2>1, <2>2
<1>12. \/ WriterMayGo(locks[x], locks[x][n].tid)
       \/ locks[x][n].isRead /\ ReaderMayGo(locks[x], locks[x][n].tid)
  BY <1>2, <1>4, <1>5, <1>8 DEF Inv, LockTableAgrees, ListAgrees
<1>13. OneEach(locks'[x]) /\ GrantedFirst(locks'[x]) /\ Tids(locks'[x]) = Tids(locks[x])
  BY <1>2, <1>10, <1>12, ListFacts, GrantKeeps
<1>14. LockTableTypeOK'
  <2>1. \A r \in Records : locks'[r] \in Seq(infoLock(Threads))
    BY <1>9, <1>10, <1>11
  <2> QED BY <1>3, <1>9, <1>10, <2>1 DEF LockTableTypeOK
<1>15. ASSUME NEW u \in Threads
       PROVE  /\ FirstOf(u, Entered(u))' = FirstOf(u, Entered(u))
              /\ Held(u)' = IF u = t THEN Held(u) \cup {x} ELSE Held(u)
              /\ Entered(u)' = Entered(u)
              /\ pick'[u] = pick[u]
  <2>1. CASE u = t
    <3>1. Entered(t)' = Entered(t) /\ pick'[t] = pick[t]
      BY <1>1
    <3>2. FirstOf(t, Entered(t))' = FirstOf(t, Entered(t))
      BY <3>1 DEF FirstOf
    <3>3. Held(t) = FirstOf(t, k - 1) /\ Held(t)' = FirstOf(t, k)
      BY <1>1, <1>6 DEF Held, FirstOf
    <3> QED BY <1>6, <2>1, <3>1, <3>2, <3>3
  <2>2. CASE u # t
    BY <2>2, OthersKeep DEF OnlyMoves, FirstOf
  <2> QED BY <2>1, <2>2
<1>16. ASSUME NEW u \in Threads PROVE InfoAgrees(u)'
  BY <1>3, <1>15 DEF InfoAgrees, Inv, LockTableAgrees
<1>17. ASSUME NEW r \in Records PROVE ListAgrees(r)'
  <2>1. ListAgrees(r)
    BY DEF Inv, LockTableAgrees
  <2>2. CASE r # x
    <3>1. locks'[r] = locks[r]
      BY <1>10, <2>2
    <3> QED BY <1>15, <2>1, <2>2, <3>1 DEF ListAgrees
  <2>3. CASE r = x
    <3>1. \A u \in Threads : u \in Tids(locks'[x]) <=> x \in FirstOf(u, Entered(u))'
      BY <1>13, <1>15, <2>1, <2>3 DEF ListAgrees
    <3>2. ASSUME NEW u \in Threads, NEW m \in DOMAIN locks'[x], locks'[x][m].tid = u
          PROVE  /\ locks'[x][m].isRead <=> x = pick'[u][1]
                 /\ locks'[x][m].isLocked <=> x \in Held(u)'
      <4>1. m \in DOMAIN locks[x] /\ locks[x][m].tid = u
        BY <1>11, <3>2
      <4>2. m = n <=> u = t
        BY <1>2, <1>8, <4>1, ListFacts DEF OneEach
      <4>3. locks[x][m].isRead <=> x = pick[u][1]
        BY <2>1, <2>3, <4>1 DEF ListAgrees
      <4>4. locks[x][m].isLocked <=> x \in Held(u)
        BY <2>1, <2>3, <4>1 DEF ListAgrees
      <4> QED BY <1>11, <1>15, <4>1, <4>2, <4>3, <4>4
    <3> QED BY <1>13, <2>3, <3>1, <3>2 DEF ListAgrees
  <2> QED BY <2>2, <2>3
<1> QED BY <1>14, <1>16, <1>17 DEF LockTableAgrees

-----------------------------------------------------------------------------
\* The values written stay within long long.
LEMMA WrapRange ==
  ASSUME NEW x \in Int
  PROVE  Serial!Wrap(x) \in LongLong
<1>1. LLONG_MAX \in Nat /\ 2 * LLONG_MAX + 2 \in Nat \ {0}
  BY DatabaseAssumption
<1>2. \A y \in Int, d \in Nat \ {0} : y % d \in 0 .. d - 1
  OBVIOUS
<1>3. (x + LLONG_MAX + 1) % (2 * LLONG_MAX + 2) \in 0 .. 2 * LLONG_MAX + 1
  BY <1>1, <1>2
<1> QED BY <1>1, <1>3 DEF Serial!Wrap, LongLong, Serial!LongLong

LEMMA LongLongInt == LongLong \subseteq Int
BY DatabaseAssumption DEF LongLong, Serial!LongLong

LEMMA InvInitially == Init => Inv
<1> SUFFICES ASSUME Init PROVE Inv
  OBVIOUS
<1>1. LockTableTypeOK
  BY EmptySeq DEF Init, LockTableInit, LockTableTypeOK
<1>2. 0 \in LongLong /\ INIT_VALUE \in LongLong
  BY DatabaseAssumption DEF LongLong, Serial!LongLong
<1>3. TypeOK
  BY <1>1, <1>2, EmptySeq DEF Init, TypeOK, Stages, NthAgrees, NoLocals
<1>4. ASSUME NEW t \in Threads PROVE Entered(t) = 0 /\ GrantedTo(t) = 0 /\ InfoAgrees(t)
  <2>1. Entered(t) = 0 /\ GrantedTo(t) = 0
    BY DEF Init, Entered, GrantedTo
  <2> QED BY <2>1, SubSeqEmpty DEF Init, LockTableInit, InfoAgrees
<1>5. ASSUME NEW r \in Records PROVE ListAgrees(r)
  <2>1. locks[r] = <<>> /\ DOMAIN locks[r] = {}
    BY DEF Init, LockTableInit
  <2> QED BY <1>4, <2>1 DEF ListAgrees, OneEach, GrantedFirst, Tids, FirstOf
<1> QED BY <1>3, <1>4, <1>5 DEF Inv, LockTableAgrees

\* The lock table through every step.
LEMMA TableStep ==
  ASSUME Inv, NEW t \in Threads, LockGlobal(t) \/ Step(t)
  PROVE  LockTableTypeOK' /\ LockTableAgrees'
<1>1. OnlyMoves(t)
  BY Progress DEF OnlyMoves, Step, LockGlobal, CheckCommitId, Request, Abort, Poll, ReadRecord,
         WriteRecord, Release, LogCommit, UndoCommit, Goto, GotoNth, Return, clientVars
<1>2. CASE LockGlobal(t)
  <2>1. /\ UNCHANGED lockVars
        /\ Entered(t)' = Entered(t) /\ GrantedTo(t)' = GrantedTo(t) /\ pick'[t] = pick[t]
    BY <1>2, Progress DEF LockGlobal, Goto, clientVars, Entered, GrantedTo, NthAgrees
  <2> QED BY <1>1, <2>1, TypingOfTable, SameLocks
<1>3. CASE CheckCommitId(t)
  <2>1. /\ UNCHANGED lockVars
        /\ Entered(t)' = Entered(t) /\ GrantedTo(t)' = GrantedTo(t) /\ pick'[t] = pick[t]
    BY <1>3, Progress DEF CheckCommitId, Goto, clientVars, Entered, GrantedTo, NthAgrees
  <2> QED BY <1>1, <2>1, TypingOfTable, SameLocks
<1>4. CASE Request(t)
  BY <1>1, <1>4, RequestKeeps DEF Request, Goto, clientVars, Inv, TypeOK
<1>5. CASE Abort(t)
  <2>1. Entered(t) = nth[t] - 1 /\ Entered(t)' = 0 /\ GrantedTo(t)' = 0
    BY <1>5, Progress DEF Abort, Return, GotoNth, Goto, Entered, GrantedTo, NthAgrees
  <2> QED BY <1>1, <1>5, <2>1, UnlockKeeps DEF Abort
<1>6. CASE Poll(t)
  <2>1. CASE MayGo(t, Target(t), Reading(t))
    BY <1>1, <1>6, <2>1, GrantKeepsTable DEF Poll, Goto, clientVars, Inv, TypeOK
  <2>2. CASE ~MayGo(t, Target(t), Reading(t))
    <3>1. /\ UNCHANGED lockVars
          /\ Entered(t)' = Entered(t) /\ GrantedTo(t)' = GrantedTo(t) /\ pick'[t] = pick[t]
      BY <1>6, <2>2, Progress DEF Poll, Goto, clientVars, Entered, GrantedTo, NthAgrees
    <3> QED BY <1>1, <3>1, TypingOfTable, SameLocks
  <2> QED BY <2>1, <2>2
<1>7. CASE ReadRecord(t)
  <2>1. /\ UNCHANGED lockVars
        /\ Entered(t)' = Entered(t) /\ GrantedTo(t)' = GrantedTo(t) /\ pick'[t] = pick[t]
    BY <1>7, Progress DEF ReadRecord, Reading, Goto, GotoNth, Entered, GrantedTo, NthAgrees
  <2> QED BY <1>1, <2>1, TypingOfTable, SameLocks
<1>8. CASE WriteRecord(t)
  <2>1. /\ UNCHANGED lockVars
        /\ Entered(t)' = Entered(t) /\ GrantedTo(t)' = GrantedTo(t) /\ pick'[t] = pick[t]
    BY <1>8, Progress DEF WriteRecord, Goto, GotoNth, Entered, GrantedTo, NthAgrees
  <2> QED BY <1>1, <2>1, TypingOfTable, SameLocks
<1>9. CASE Release(t)
  <2>1. Entered(t) = 3 /\ Entered(t)' = 0 /\ GrantedTo(t)' = 0
    BY <1>9, Progress DEF Release, Goto, Entered, GrantedTo, NthAgrees
  <2>2. pick[t] = SubSeq(pick[t], 1, Entered(t))
    BY <2>1, PickFacts, SubSeqFull
  <2> QED BY <1>1, <1>9, <2>1, <2>2, UnlockKeeps DEF Release
<1>10. CASE LogCommit(t) \/ UndoCommit(t)
  <2>1. /\ UNCHANGED lockVars /\ Entered(t) = 0
        /\ Entered(t)' = Entered(t) /\ GrantedTo(t)' = GrantedTo(t)
    BY <1>10, Progress DEF LogCommit, UndoCommit, Return, Goto, GotoNth, Entered, GrantedTo, NthAgrees
  <2> QED BY <1>1, <2>1, TypingOfTable, SameLocks
<1> QED BY <1>2, <1>3, <1>4, <1>5, <1>6, <1>7, <1>8, <1>9, <1>10 DEF Step
\* The values a transaction writes and remembers are values of a record.
LEMMA ValuesInRange ==
  ASSUME Inv
  PROVE  /\ \A r \in Records : records[r] \in LongLong
         /\ \A t \in Threads : saved[t] \in [1 .. 3 -> LongLong]
         /\ \A x, y \in LongLong : Serial!AddRead(x, y) \in LongLong /\ Serial!SubRead(x, y) \in LongLong
         /\ 0 \in LongLong
<1>1. \A x, y \in LongLong : x + y + 1 \in Int /\ x - y \in Int
  BY LongLongInt
<1>2. \A x, y \in LongLong : Serial!AddRead(x, y) \in LongLong /\ Serial!SubRead(x, y) \in LongLong
  BY <1>1, WrapRange DEF Serial!AddRead, Serial!SubRead
<1>3. 0 \in LongLong
  BY DatabaseAssumption DEF LongLong, Serial!LongLong
<1> QED BY <1>2, <1>3 DEF Inv, TypeOK

\* The line of a commit that counts.
LEMMA LineInRange ==
  ASSUME Inv, NEW t \in Threads
  PROVE  Serial!Line(commit_id, pick[t], records) \in
           [id : Nat, pick : Picks, values : [1 .. 3 -> LongLong]]
<1>1. pick[t] \in Picks /\ commit_id \in Nat
  BY DEF Inv, TypeOK
<1>2. [n \in 1 .. 3 |-> records[pick[t][n]]] \in [1 .. 3 -> LongLong]
  BY PickFacts, ValuesInRange
<1> QED BY <1>1, <1>2 DEF Serial!Line

\* The part of the type invariant about one thread's progress, through a step.
LEMMA ProgressStep ==
  ASSUME Inv, NEW t \in Threads, LockGlobal(t) \/ Step(t)
  PROVE  /\ gM' \in Threads \cup {Nobody}
         /\ pick' \in [Threads -> Picks]
         /\ nth' \in [Threads -> 1 .. 4]
         /\ pc' \in [Threads -> Stages]
         /\ \A u \in Threads : NthAgrees(u)'
<1>0. /\ gM \in Threads \cup {Nobody}
      /\ pick \in [Threads -> Picks]
      /\ nth \in [Threads -> 1 .. 4]
      /\ pc \in [Threads -> Stages]
      /\ \A u \in Threads : NthAgrees(u)
  BY DEF Inv, TypeOK
<1> USE DEF Goto, GotoNth, Return, clientVars
<1>1. gM' \in Threads \cup {Nobody}
  BY <1>0 DEF LockGlobal, Step, CheckCommitId, Request, Abort, Poll, ReadRecord, WriteRecord,
              Release, LogCommit, UndoCommit
<1>2. pick' \in [Threads -> Picks]
  BY <1>0 DEF LockGlobal, Step, CheckCommitId, Request, Abort, Poll, ReadRecord, WriteRecord,
              Release, LogCommit, UndoCommit
<1>3. \E l \in Stages, n \in 1 .. 4 :
        /\ pc' = [pc EXCEPT ![t] = l]
        /\ nth' = [nth EXCEPT ![t] = n]
        /\ l \in {"loop", "done"} => n = 1
        /\ l \in {"request", "spin", "poll", "read"} => n \in 1 .. 3
        /\ l = "write" => n \in 2 .. 3
        /\ l \in {"release", "finish"} => n = 4
  <2>0. nth = [nth EXCEPT ![t] = nth[t]] /\ nth[t] \in 1 .. 4 /\ NthAgrees(t)
    BY <1>0
  <2>1. CASE LockGlobal(t)
    BY <2>0, <2>1 DEF LockGlobal, NthAgrees, Stages
  <2>2. CASE CheckCommitId(t)
    BY <2>0, <2>2 DEF CheckCommitId, NthAgrees, Stages
  <2>3. CASE Request(t)
    BY <2>0, <2>3 DEF Request, NthAgrees, Stages
  <2>4. CASE Abort(t) \/ LogCommit(t) \/ UndoCommit(t)
    BY <2>4 DEF Abort, LogCommit, UndoCommit, Stages
  <2>5. CASE Poll(t)
    BY <2>0, <2>5 DEF Poll, NthAgrees, Stages
  <2>6. CASE ReadRecord(t)
    BY <2>0, <2>6 DEF ReadRecord, Reading, NthAgrees, Stages
  <2>7. CASE WriteRecord(t)
    <3>1. nth[t] \in 2 .. 3 /\ nth[t] + 1 \in 1 .. 4
      BY <2>0, <2>7 DEF WriteRecord, NthAgrees
    <3>2. pc' = [pc EXCEPT ![t] = "lock"] /\ nth' = [nth EXCEPT ![t] = nth[t] + 1]
      BY <2>7 DEF WriteRecord
    <3> QED BY <3>1, <3>2 DEF Stages
  <2>8. CASE Release(t)
    BY <2>0, <2>8 DEF Release, NthAgrees, Stages
  <2> QED BY <2>1, <2>2, <2>3, <2>4, <2>5, <2>6, <2>7, <2>8 DEF Step
<1>4. nth' \in [Threads -> 1 .. 4] /\ pc' \in [Threads -> Stages]
  BY <1>0, <1>3
<1>5. \A u \in Threads : NthAgrees(u)'
  BY <1>0, <1>3 DEF NthAgrees
<1> QED BY <1>1, <1>2, <1>4, <1>5

\* The rest of the type invariant: values, commit count and logs.
LEMMA ValuesStep ==
  ASSUME Inv, NEW t \in Threads, LockGlobal(t) \/ Step(t)
  PROVE  /\ records' \in [Records -> LongLong]
         /\ commit_id' \in Nat
         /\ log' \in [Threads -> Seq([id : Nat, pick : Picks, values : [1 .. 3 -> LongLong]])]
         /\ saved' \in [Threads -> [1 .. 3 -> LongLong]]
<1>0. /\ records \in [Records -> LongLong]
      /\ commit_id \in Nat
      /\ log \in [Threads -> Seq([id : Nat, pick : Picks, values : [1 .. 3 -> LongLong]])]
      /\ saved \in [Threads -> [1 .. 3 -> LongLong]]
  BY DEF Inv, TypeOK
<1>1. NoLocals \in [1 .. 3 -> LongLong] /\ \A n \in 1 .. 3 : saved[t][n] \in LongLong
  BY ValuesInRange DEF NoLocals
<1>2. nth[t] \in 1 .. 4 /\ (pc[t] \in {"read", "write"} => nth[t] \in 1 .. 3 /\ Target(t) \in Records)
  BY EnteredRange, PickFacts DEF Target
<1>3. CASE LockGlobal(t) \/ CheckCommitId(t) \/ Request(t) \/ Poll(t)
  BY <1>0, <1>3 DEF LockGlobal, CheckCommitId, Request, Poll, clientVars
<1>4. CASE Abort(t)
  <2>1. records' \in [Records -> LongLong]
    BY <1>0, <1>1, <1>4, PickFacts DEF Abort
  <2>2. saved' \in [Threads -> [1 .. 3 -> LongLong]]
    BY <1>0, <1>1, <1>4 DEF Abort, Return
  <2> QED BY <1>0, <1>4, <2>1, <2>2 DEF Abort
<1>5. CASE ReadRecord(t)
  <2>1. records[Target(t)] \in LongLong
    BY <1>2, <1>5, ValuesInRange DEF ReadRecord
  <2> QED BY <1>0, <1>2, <1>5, <2>1 DEF ReadRecord
<1>6. CASE WriteRecord(t)
  <2>1. /\ Serial!AddRead(records[Target(t)], saved[t][1]) \in LongLong
        /\ Serial!SubRead(records[Target(t)], saved[t][1]) \in LongLong
    BY <1>1, <1>2, <1>6, ValuesInRange DEF WriteRecord
  <2> QED BY <1>0, <1>6, <2>1 DEF WriteRecord
<1>7. CASE Release(t)
  <2>1. commit_id' = commit_id + 1 /\ UNCHANGED <<records, log, saved>>
    BY <1>7 DEF Release
  <2>2. commit_id' \in Nat
    BY <1>0, <2>1
  <2> QED BY <1>0, <2>1, <2>2
<1>8. CASE LogCommit(t)
  <2>1. log' \in [Threads -> Seq([id : Nat, pick : Picks, values : [1 .. 3 -> LongLong]])]
    BY <1>0, <1>8, LineInRange, AppendProperties DEF LogCommit
  <2> QED BY <1>0, <1>1, <1>8, <2>1 DEF LogCommit, Return
<1>9. CASE UndoCommit(t)
  <2>1. /\ records' = [records EXCEPT ![pick[t][2]] = saved[t][2], ![pick[t][3]] = saved[t][3]]
        /\ saved' = [saved EXCEPT ![t] = NoLocals]
        /\ UNCHANGED <<commit_id, log>>
    BY <1>9 DEF UndoCommit, Return
  <2>2. saved[t][2] \in LongLong /\ saved[t][3] \in LongLong
    BY <1>1
  <2>3. records' \in [Records -> LongLong]
    BY <1>0, <2>1, <2>2
  <2> QED BY <1>0, <1>1, <2>1, <2>3
<1> QED BY <1>3, <1>4, <1>5, <1>6, <1>7, <1>8, <1>9 DEF Step

LEMMA InvStep == Inv /\ [Next]_vars => Inv'
<1> SUFFICES ASSUME Inv, [Next]_vars PROVE Inv'
  OBVIOUS
<1>1. ASSUME NEW t \in Threads, LockGlobal(t) \/ Step(t) PROVE Inv'
  BY <1>1, TableStep, ProgressStep, ValuesStep DEF Inv, TypeOK
<1>2. CASE UNCHANGED vars
  <2>1. TypeOK'
    BY <1>2 DEF vars, lockVars, clientVars, Inv, TypeOK, LockTableTypeOK, NthAgrees
  <2>2. LockTableAgrees'
    BY <1>2 DEF vars, lockVars, clientVars, Inv, LockTableAgrees, InfoAgrees, ListAgrees,
                Entered, GrantedTo, FirstOf, Held
  <2> QED BY <2>1, <2>2 DEF Inv
<1> QED BY <1>1, <1>2 DEF Next, Finished

\* The lock table and the progress of the threads agree in every reachable
\* state, and all variables keep their types.
THEOREM Invariance == Spec => []Inv
BY InvInitially, InvStep, PTL DEF Spec

\* All variables keep their types; in particular a thread only ever is at a
\* stage with a request that the stage can have.
THEOREM TypeCorrect == Spec => []TypeOK
BY Invariance, PTL DEF Inv

\* info, which the release pops unseen, and the lists agree with how far each
\* thread has come (locktable.cpp:115-127).
THEOREM TableCorrect == Spec => []LockTableAgrees
BY Invariance, PTL DEF Inv

-----------------------------------------------------------------------------
\* Two transactions with one record: only readers hold it together.
LEMMA HeldTogether ==
  ASSUME Inv, NEW t \in Threads, NEW u \in Threads, t # u,
         NEW r \in Records, r \in Held(t), r \in Held(u)
  PROVE  r = pick[t][1]
<1>1. GrantedTo(t) \in 0 .. Entered(t) /\ GrantedTo(u) \in 0 .. Entered(u)
  BY EnteredRange
<1>2. r \in FirstOf(t, Entered(t)) /\ r \in FirstOf(u, Entered(u))
  <2>1. ASSUME NEW v \in {t, u} PROVE Held(v) \subseteq FirstOf(v, Entered(v))
    <3>1. Entered(v) \in 0 .. 3 /\ GrantedTo(v) \in 0 .. Entered(v)
      BY <2>1, EnteredRange
    <3>2. 1 .. GrantedTo(v) \subseteq 1 .. Entered(v)
      BY <3>1
    <3> QED BY <3>2 DEF Held, FirstOf
  <2> QED BY <2>1
<1>3. ListAgrees(r)
  BY DEF Inv, LockTableAgrees
<1>4. PICK m \in DOMAIN locks[r] : locks[r][m].tid = t
  BY <1>2, <1>3 DEF ListAgrees, Tids
<1>5. PICK n \in DOMAIN locks[r] : locks[r][n].tid = u
  BY <1>2, <1>3 DEF ListAgrees, Tids
<1>6. locks[r][m].isLocked /\ locks[r][n].isLocked
  BY <1>3, <1>4, <1>5 DEF ListAgrees
<1>7. m < n \/ n < m
  BY <1>4, <1>5, ListFacts
<1>8. locks[r][m].isRead
  BY <1>3, <1>6, <1>7 DEF ListAgrees, GrantedFirst
<1> QED BY <1>3, <1>4, <1>8 DEF ListAgrees

LEMMA WritersFromInv == Inv => WritersExclude
<1> SUFFICES ASSUME Inv, NEW t \in Threads, NEW u \in Threads, t # u, NEW n \in 2 .. 3,
                    pick[t][n] \in Held(t), pick[t][n] \in Held(u)
             PROVE  FALSE
  BY DEF WritersExclude
<1>1. pick[t][n] \in Records /\ pick[t][n] # pick[t][1]
  BY PickFacts
<1> QED BY <1>1, HeldTogether

\* A record locked for writing by one transaction is locked by no other: the
\* accesses to the records outside the mutex never collide
\* (database.cpp:28,37-38,49-50).
THEOREM Writers == Spec => []WritersExclude
BY WritersFromInv, Invariance, PTL

-----------------------------------------------------------------------------
\* A cycle of waiting threads needs a new wait.
LEMMA FewerWaits ==
  ASSUME DeadlockFree, \A u \in Threads : WaitsFor(u)' \subseteq WaitsFor(u)
  PROVE  DeadlockFree'
BY DEF DeadlockFree

\* Every list is left as it was, or loses or grants an element: nobody waits for
\* anybody else than before.
LEMMA NoNewWaits ==
  ASSUME \A r \in Records :
           \E f \in [DOMAIN locks'[r] -> DOMAIN locks[r]] :
             /\ \A m, n \in DOMAIN locks'[r] : m < n => f[m] < f[n]
             /\ \A n \in DOMAIN locks'[r] :
                  /\ locks'[r][n].tid = locks[r][f[n]].tid
                  /\ locks[r][f[n]].isLocked => locks'[r][n].isLocked,
         NEW u \in Threads
  PROVE  WaitsFor(u)' \subseteq WaitsFor(u)
<1> SUFFICES ASSUME NEW v \in WaitsFor(u)' PROVE v \in WaitsFor(u)
  OBVIOUS
<1>1. v \in Threads
  BY DEF WaitsFor
<1>2. PICK r \in Records : \E m, n \in DOMAIN locks'[r] :
        /\ locks'[r][n].tid = u /\ ~locks'[r][n].isLocked
        /\ m < n /\ locks'[r][m].tid = v
  BY DEF WaitsFor
<1>3. PICK m \in DOMAIN locks'[r], n \in DOMAIN locks'[r] :
        /\ locks'[r][n].tid = u /\ ~locks'[r][n].isLocked
        /\ m < n /\ locks'[r][m].tid = v
  BY <1>2
<1>4. PICK f \in [DOMAIN locks'[r] -> DOMAIN locks[r]] :
        /\ \A i, j \in DOMAIN locks'[r] : i < j => f[i] < f[j]
        /\ \A i \in DOMAIN locks'[r] :
             /\ locks'[r][i].tid = locks[r][f[i]].tid
             /\ locks[r][f[i]].isLocked => locks'[r][i].isLocked
  OBVIOUS
<1>5. /\ f[m] \in DOMAIN locks[r] /\ f[n] \in DOMAIN locks[r] /\ f[m] < f[n]
      /\ locks[r][f[n]].tid = u /\ ~locks[r][f[n]].isLocked /\ locks[r][f[m]].tid = v
  BY <1>3, <1>4
<1> QED BY <1>1, <1>5 DEF WaitsFor

\* The detection visits every thread that a thread it visits waits for.
LEMMA DetectionFollowsWaits ==
  ASSUME Inv, NEW u \in Threads
  PROVE  WaitsFor(u) \subseteq Visits(u)
<1> SUFFICES ASSUME NEW v \in WaitsFor(u) PROVE v \in Visits(u)
  OBVIOUS
<1>1. PICK r \in Records : \E m, n \in DOMAIN locks[r] :
        locks[r][n].tid = u /\ m < n /\ locks[r][m].tid = v
  BY DEF WaitsFor
<1>2. PICK m \in DOMAIN locks[r], n \in DOMAIN locks[r] :
        locks[r][n].tid = u /\ m < n /\ locks[r][m].tid = v
  BY <1>1
<1>3. PositionOf(locks[r], u) = n
  BY <1>2, ListFacts, PositionIsUnique
<1>4. m \in 1 .. PositionOf(locks[r], u)
  BY <1>2, <1>3, ListFacts
<1>5. r \in FirstOf(u, Entered(u))
  BY <1>2 DEF Inv, LockTableAgrees, ListAgrees, Tids
<1>6. PICK i \in 1 .. Entered(u) : r = pick[u][i]
  BY <1>5 DEF FirstOf
<1>7. i \in DOMAIN info[u] /\ info[u][i] = r
  <2>1. Entered(u) \in 0 .. Len(pick[u])
    BY EnteredRange, PickFacts
  <2> QED BY <1>6, <2>1, PickFacts, InfoElements DEF Inv, LockTableAgrees, InfoAgrees
<1>8. r \in {info[u][j] : j \in DOMAIN info[u]}
  BY <1>7
<1>9. v \in {locks[r][j].tid : j \in 1 .. PositionOf(locks[r], u)}
  BY <1>2, <1>4
<1> QED BY <1>8, <1>9 DEF Visits

\* Unlocking only takes elements out of the lists.
LEMMA UnlockKeepsFree ==
  ASSUME Inv, DeadlockFree, NEW t \in Threads,
         UnlockRecords(t, SubSeq(pick[t], 1, Entered(t)))
  PROVE  DeadlockFree'
<1> DEFINE rs == SubSeq(pick[t], 1, Entered(t))
<1>1. \A r \in Records : (\E n \in DOMAIN rs : rs[n] = r) => t \in Tids(locks[r])
  <2> DEFINE k == Entered(t)
  <2>1. k \in 0 .. Len(pick[t]) /\ pick[t] \in Seq(Records)
    BY EnteredRange, PickFacts
  <2>2. \A n \in DOMAIN rs : n \in 1 .. Entered(t) /\ rs[n] = pick[t][n]
    <3> HIDE DEF k
    <3>1. DOMAIN SubSeq(pick[t], 1, k) = 1 .. k
      BY <2>1, InfoElements
    <3>2. \A n \in 1 .. k : SubSeq(pick[t], 1, k)[n] = pick[t][n]
      BY <2>1, InfoElements
    <3> QED BY <3>1, <3>2 DEF k
  <2>3. \A r \in Records : r \in FirstOf(t, Entered(t)) => t \in Tids(locks[r])
    BY DEF Inv, LockTableAgrees, ListAgrees
  <2> QED BY <2>2, <2>3 DEF FirstOf
<1>2. \A r \in Records :
        locks'[r] = IF \E n \in DOMAIN rs : rs[n] = r THEN Leave(locks[r], t) ELSE locks[r]
  BY DEF UnlockRecords
<1> HIDE DEF rs
<1>3. ASSUME NEW r \in Records
      PROVE  \E f \in [DOMAIN locks'[r] -> DOMAIN locks[r]] :
               /\ \A m, n \in DOMAIN locks'[r] : m < n => f[m] < f[n]
               /\ \A n \in DOMAIN locks'[r] :
                    /\ locks'[r][n].tid = locks[r][f[n]].tid
                    /\ locks[r][f[n]].isLocked => locks'[r][n].isLocked
  <2>1. CASE \E n \in DOMAIN rs : rs[n] = r
    <3>1. PICK p \in DOMAIN locks[r] : locks[r][p].tid = t
      BY <1>1, <2>1 DEF Tids
    <3>2. locks'[r] = Leave(locks[r], locks[r][p].tid)
      BY <1>2, <2>1, <3>1
    <3>3. /\ DOMAIN locks[r] = 1 .. Len(locks[r]) /\ Len(locks[r]) \in Nat
          /\ DOMAIN locks'[r] = 1 .. Len(locks[r]) - 1
          /\ \A n \in 1 .. Len(locks[r]) - 1 : locks'[r][n] = locks[r][IF n < p THEN n ELSE n + 1]
      BY <3>2, ListFacts, LeaveElements
    <3> DEFINE f == [n \in DOMAIN locks'[r] |-> IF n < p THEN n ELSE n + 1]
    <3>4. f \in [DOMAIN locks'[r] -> DOMAIN locks[r]]
      BY <3>1, <3>3
    <3>5. \A m, n \in DOMAIN locks'[r] : m < n => f[m] < f[n]
      BY <3>1, <3>3
    <3>6. \A n \in DOMAIN locks'[r] : locks'[r][n] = locks[r][f[n]]
      BY <3>3
    <3> HIDE DEF f
    <3> QED BY <3>4, <3>5, <3>6
  <2>2. CASE ~\E n \in DOMAIN rs : rs[n] = r
    <3>1. locks'[r] = locks[r]
      BY <1>2, <2>2
    <3> DEFINE f == [n \in DOMAIN locks[r] |-> n]
    <3>2. f \in [DOMAIN locks[r] -> DOMAIN locks[r]] /\ \A n \in DOMAIN locks[r] : f[n] = n
      OBVIOUS
    <3> HIDE DEF f
    <3> QED BY <3>1, <3>2
  <2> QED BY <2>1, <2>2
<1> QED BY <1>3, NoNewWaits, FewerWaits

\* A grant ends a wait.
LEMMA GrantKeepsFree ==
  ASSUME Inv, DeadlockFree, NEW t \in Threads, pc[t] = "poll", GrantRecord(t, Target(t))
  PROVE  DeadlockFree'
<1> DEFINE x == Target(t)
<1>1. nth[t] \in 1 .. 3 /\ Entered(t) = nth[t]
  BY EnteredRange DEF Entered
<1>2. x \in Records /\ x \in FirstOf(t, Entered(t))
  BY <1>1, PickFacts DEF Target, FirstOf
<1>3. PICK p \in DOMAIN locks[x] : locks[x][p].tid = t
  BY <1>2 DEF Inv, LockTableAgrees, ListAgrees, Tids
<1>4. /\ locks'[x] = Grant(locks[x], locks[x][p].tid)
      /\ \A r \in Records : r # x => locks'[r] = locks[r]
  BY <1>2, <1>3 DEF GrantRecord, Inv, TypeOK, LockTableTypeOK
<1>5. /\ DOMAIN locks'[x] = DOMAIN locks[x]
      /\ \A n \in DOMAIN locks[x] :
           /\ locks'[x][n].tid = locks[x][n].tid
           /\ locks[x][n].isLocked => locks'[x][n].isLocked
  BY <1>2, <1>4, ListFacts, GrantElements
<1> HIDE DEF x
<1>6. ASSUME NEW r \in Records
      PROVE  \E f \in [DOMAIN locks'[r] -> DOMAIN locks[r]] :
               /\ \A m, n \in DOMAIN locks'[r] : m < n => f[m] < f[n]
               /\ \A n \in DOMAIN locks'[r] :
                    /\ locks'[r][n].tid = locks[r][f[n]].tid
                    /\ locks[r][f[n]].isLocked => locks'[r][n].isLocked
  <2> DEFINE f == [n \in DOMAIN locks[r] |-> n]
  <2>1. f \in [DOMAIN locks[r] -> DOMAIN locks[r]] /\ \A n \in DOMAIN locks[r] : f[n] = n
    OBVIOUS
  <2>2. /\ DOMAIN locks'[r] = DOMAIN locks[r]
        /\ \A n \in DOMAIN locks[r] :
             /\ locks'[r][n].tid = locks[r][n].tid
             /\ locks[r][n].isLocked => locks'[r][n].isLocked
    BY <1>4, <1>5
  <2> HIDE DEF f
  <2> QED BY <2>1, <2>2
<1> QED BY <1>6, NoNewWaits, FewerWaits

\* A request: a thread that goes on at once closes no cycle, and the detection
\* has excluded that one that waits does.
LEMMA RequestKeepsFree ==
  ASSUME Inv, DeadlockFree, NEW t \in Threads, Request(t)
  PROVE  DeadlockFree'
<1> DEFINE x == Target(t)
           b == Reading(t)
           l == ~needDetect(x, b)
           N == Len(locks[x])
<1>1. nth[t] \in 1 .. 3 /\ Entered(t) = nth[t] - 1 /\ GrantedTo(t) = nth[t] - 1 /\ pc[t] = "request"
  BY EnteredRange DEF Entered, GrantedTo, Request
<1>2. x \in Records /\ b \in BOOLEAN /\ l \in BOOLEAN
  BY <1>1, PickFacts DEF Target, Reading, needDetect
<1>3. ~l => ~detectDeadlock(x, t)
  BY DEF Request, Refused
<1>4. locks' = [locks EXCEPT ![x] = Enter(@, t, b, l)]
  BY DEF Request, LockRecord
<1> HIDE DEF x, b, l
<1>5. locks'[x] = Enter(locks[x], t, b, l) /\ \A r \in Records : r # x => locks'[r] = locks[r]
  BY <1>2, <1>4 DEF Inv, TypeOK, LockTableTypeOK
<1>6. /\ DOMAIN locks[x] = 1 .. N /\ N \in Nat
      /\ DOMAIN locks'[x] = 1 .. N + 1
      /\ \A n \in 1 .. N : locks'[x][n] = locks[x][n]
      /\ locks'[x][N + 1].tid = t
      /\ locks'[x][N + 1].isLocked = l
  <2> DEFINE new == Enter(locks[x], t, b, l)
  <2>1. /\ DOMAIN locks[x] = 1 .. N /\ N \in Nat
        /\ DOMAIN new = 1 .. N + 1
        /\ \A n \in 1 .. N : new[n] = locks[x][n]
        /\ new[N + 1] = [isRead |-> b, isLocked |-> l, tid |-> t]
    BY <1>2, ListFacts, EnterElements
  <2>2. locks'[x] = new
    BY <1>5
  <2> HIDE DEF new, N
  <2> QED BY <2>1, <2>2
<1>7. WaitsFor(t) = {}
  <2>1. ASSUME NEW r \in Records, NEW n \in DOMAIN locks[r], locks[r][n].tid = t
        PROVE  locks[r][n].isLocked
    <3>1. r \in FirstOf(t, Entered(t))
      BY <2>1 DEF Inv, LockTableAgrees, ListAgrees, Tids
    <3>2. r \in Held(t)
      BY <1>1, <3>1 DEF Held
    <3> QED BY <2>1, <3>2 DEF Inv, LockTableAgrees, ListAgrees
  <2> QED BY <2>1 DEF WaitsFor
<1>8. ASSUME NEW u \in Threads, NEW v \in WaitsFor(u)'
      PROVE  \/ v \in WaitsFor(u)
             \/ u = t /\ ~l /\ v \in Tids(locks[x])
  <2>1. PICK r \in Records : \E m, n \in DOMAIN locks'[r] :
          /\ locks'[r][n].tid = u /\ ~locks'[r][n].isLocked
          /\ m < n /\ locks'[r][m].tid = v
    BY <1>8 DEF WaitsFor
  <2>2. PICK m \in DOMAIN locks'[r], n \in DOMAIN locks'[r] :
          /\ locks'[r][n].tid = u /\ ~locks'[r][n].isLocked
          /\ m < n /\ locks'[r][m].tid = v
    BY <2>1
  <2>3. v \in Threads
    BY <1>8 DEF WaitsFor
  <2>4. CASE r # x
    BY <1>5, <2>2, <2>3, <2>4 DEF WaitsFor
  <2>5. CASE r = x /\ n # N + 1
    <3>1. m \in DOMAIN locks[x] /\ n \in DOMAIN locks[x]
      BY <1>6, <2>2, <2>5
    <3>2. locks'[x][m] = locks[x][m] /\ locks'[x][n] = locks[x][n]
      BY <1>6, <3>1
    <3> QED BY <1>2, <2>2, <2>3, <2>5, <3>1, <3>2 DEF WaitsFor
  <2>6. CASE r = x /\ n = N + 1
    <3>1. m \in DOMAIN locks[x]
      BY <1>6, <2>2, <2>6
    <3>2. locks[x][m].tid = v
      BY <1>6, <2>2, <2>6, <3>1
    <3> QED BY <1>6, <2>2, <2>6, <3>1, <3>2 DEF Tids
  <2> QED BY <2>4, <2>5, <2>6
<1>9. CASE l
  BY <1>8, <1>9, FewerWaits
<1>10. CASE ~l
  <2>1. PICK C \in SUBSET Threads : Tids(locks[x]) \subseteq C /\ Closed(C) /\ t \notin C
    BY <1>3, <1>10 DEF detectDeadlock
  <2>2. SUFFICES ASSUME NEW S \in SUBSET Threads, S # {}, \A u \in S : WaitsFor(u)' \cap S # {}
                 PROVE  FALSE
    BY DEF DeadlockFree
  <2>3. \A u \in Threads : u # t => WaitsFor(u)' \subseteq WaitsFor(u)
    BY <1>8
  <2>4. t \in S
    BY <2>2, <2>3 DEF DeadlockFree
  <2>5. WaitsFor(t)' \subseteq C
    BY <1>7, <1>8, <2>1
  <2>6. S \cap C # {}
    BY <2>2, <2>4, <2>5
  <2>7. ASSUME NEW u \in S \cap C PROVE WaitsFor(u) \cap (S \cap C) # {}
    <3>1. u \in Threads /\ u # t
      BY <2>1, <2>7
    <3>2. WaitsFor(u) \subseteq C
      BY <2>1, <3>1, DetectionFollowsWaits DEF Closed
    <3> QED BY <2>2, <2>3, <3>1, <3>2
  <2> QED BY <2>6, <2>7 DEF DeadlockFree
<1> QED BY <1>9, <1>10

\* The detection finds every deadlock: at no time does a cycle of transactions
\* wait for one another (locktable.cpp:34-53,66-113).
THEOREM NoDeadlock == Spec => []DeadlockFree
<1>1. Init => DeadlockFree
  <2> SUFFICES ASSUME Init PROVE DeadlockFree
    OBVIOUS
  <2>1. \A r \in Records : DOMAIN locks[r] = {}
    BY DEF Init, LockTableInit
  <2>2. \A t \in Threads : WaitsFor(t) = {}
    BY <2>1 DEF WaitsFor
  <2> QED BY <2>2 DEF DeadlockFree
<1>2. Inv /\ DeadlockFree /\ [Next]_vars => DeadlockFree'
  <2> SUFFICES ASSUME Inv, DeadlockFree, [Next]_vars PROVE DeadlockFree'
    OBVIOUS
  <2>1. CASE UNCHANGED lockVars
    BY <2>1 DEF lockVars, DeadlockFree, WaitsFor
  <2>2. ASSUME NEW t \in Threads, LockGlobal(t) \/ Step(t) PROVE DeadlockFree'
    <3>1. CASE Request(t)
      BY <3>1, RequestKeepsFree
    <3>2. CASE Abort(t)
      <4>1. Entered(t) = nth[t] - 1
        BY <3>2 DEF Abort, Entered
      <4> QED BY <3>2, <4>1, UnlockKeepsFree DEF Abort
    <3>3. CASE Release(t)
      <4>1. pc[t] = "release" /\ Entered(t) = 3
        BY <3>3, Progress DEF Release, Entered, NthAgrees
      <4>2. pick[t] = SubSeq(pick[t], 1, Entered(t))
        BY <4>1, PickFacts, SubSeqFull
      <4> QED BY <3>3, <4>2, UnlockKeepsFree DEF Release
    <3>4. CASE Poll(t)
      BY <2>1, <3>4, GrantKeepsFree DEF Poll
    <3>5. CASE LockGlobal(t) \/ CheckCommitId(t) \/ ReadRecord(t) \/ WriteRecord(t) \/ LogCommit(t) \/ UndoCommit(t)
      BY <2>1, <3>5 DEF LockGlobal, CheckCommitId, ReadRecord, WriteRecord, LogCommit, UndoCommit
    <3> QED BY <2>2, <3>1, <3>2, <3>3, <3>4, <3>5 DEF Step
  <2> QED BY <2>1, <2>2 DEF Next, Finished, vars
<1> QED BY <1>1, <1>2, Invariance, PTL DEF Spec

-----------------------------------------------------------------------------
(***************************************************************************)
(* The database implements SerialDatabase.  What a transaction remembers   *)
(* of the records it has locked is still true when it commits: the locks   *)
(* protect its records up to the release, and the mutex, which it keeps    *)
(* until it has logged or undone its writes, does after the release.       *)
(***************************************************************************)

\* The mutex is owned exactly by the thread that is inside a critical section.
MutexAgrees == \A t \in Threads : pc[t] \in OwnsMutex <=> gM = t

\* The records no other transaction can write: the locked ones, and after the release
\* phase those just given back (database.cpp:54-69).
Reserved(t) == IF pc[t] = "finish" THEN FirstOf(t, 3) ELSE Held(t)

ReservedExclude ==
  \A t, u \in Threads : t # u =>
    \A n \in 2 .. 3 : pick[t][n] \in Reserved(t) => pick[t][n] \notin Reserved(u)

\* A record read has not changed; a record written holds what was computed from the values
\* remembered.
ValuesAgree ==
  \A t \in Threads :
    /\ nth[t] > 1 => saved[t][1] = records[pick[t][1]]
    /\ nth[t] > 2 => records[pick[t][2]] = Serial!AddRead(saved[t][2], saved[t][1])
    /\ nth[t] > 3 => records[pick[t][3]] = Serial!SubRead(saved[t][3], saved[t][1])
    /\ pc[t] = "write" => saved[t][nth[t]] = records[Target(t)]

\* The ids up to commit_id have been logged, but for the one of a commit in progress and
\* those beyond txnNum.
CommitsAgree ==
  /\ IsFiniteSet(Serial!Lines)
  /\ Cardinality(Serial!Lines) =
       IF commit_id > txnNum THEN txnNum
       ELSE IF \E t \in Threads : pc[t] = "finish" THEN commit_id - 1 ELSE commit_id
  /\ \A t \in Threads : pc[t] = "done" => commit_id >= txnNum

CommitInv == Inv /\ MutexAgrees /\ ReservedExclude /\ ValuesAgree /\ CommitsAgree

LEMMA MutexStep ==
  ASSUME Inv, MutexAgrees, NEW t \in Threads, LockGlobal(t) \/ Step(t)
  PROVE  MutexAgrees'
<1>1. pc \in [Threads -> Stages] /\ Nobody \notin Threads
  BY Progress, DatabaseAssumption, NobodyAssumption
<1>2. CASE LockGlobal(t)
  <2>1. gM = Nobody /\ gM' = t /\ \E l \in {"release", "request", "poll"} : pc' = [pc EXCEPT ![t] = l]
    BY <1>2 DEF LockGlobal, Goto
  <2> QED BY <1>1, <2>1 DEF MutexAgrees, OwnsMutex
<1>3. CASE CheckCommitId(t) \/ ReadRecord(t) \/ WriteRecord(t) \/ Release(t)
  <2>1. gM' = gM /\ \E l \in Stages : /\ pc' = [pc EXCEPT ![t] = l]
                                      /\ l \in OwnsMutex <=> pc[t] \in OwnsMutex
    BY <1>3 DEF CheckCommitId, ReadRecord, WriteRecord, Release, Goto, GotoNth, OwnsMutex, Stages
  <2> QED BY <1>1, <2>1 DEF MutexAgrees
<1>4. CASE Request(t) \/ Abort(t) \/ Poll(t) \/ LogCommit(t) \/ UndoCommit(t)
  <2>1. /\ pc[t] \in OwnsMutex /\ gM' = Nobody
        /\ \E l \in {"spin", "read", "loop"} : pc' = [pc EXCEPT ![t] = l]
    BY <1>4 DEF Request, Abort, Poll, LogCommit, UndoCommit, Return, Goto, GotoNth, OwnsMutex
  <2> QED BY <1>1, <2>1 DEF MutexAgrees, OwnsMutex
<1> QED BY <1>2, <1>3, <1>4 DEF Step

\* What is reserved: all records that have been read or written, none before the grant.
LEMMA ReservedFacts ==
  ASSUME Inv, NEW t \in Threads
  PROVE  /\ \A k \in 1 .. 3 : k < nth[t] => pick[t][k] \in Reserved(t)
         /\ pc[t] \in {"read", "write"} => nth[t] \in 1 .. 3 /\ Target(t) \in Reserved(t)
         /\ pc[t] # "finish" => Reserved(t) = Held(t)
<1>1. pc[t] \in Stages /\ nth[t] \in 1 .. 4 /\ NthAgrees(t)
  BY Progress
<1>2. /\ \A k \in 1 .. 3 : k < nth[t] /\ pc[t] # "finish" => k \in 1 .. GrantedTo(t)
      /\ pc[t] \in {"read", "write"} => nth[t] \in 1 .. 3 /\ GrantedTo(t) = nth[t]
  BY <1>1 DEF GrantedTo, Entered, NthAgrees, Stages
<1>3. pc[t] # "finish" => Reserved(t) = Held(t)
  BY DEF Reserved
<1>4. ASSUME NEW k \in 1 .. 3, k < nth[t] PROVE pick[t][k] \in Reserved(t)
  <2>1. CASE pc[t] = "finish"
    BY <1>4, <2>1 DEF Reserved, FirstOf
  <2>2. CASE pc[t] # "finish"
    BY <1>2, <1>3, <1>4, <2>2 DEF Held, FirstOf
  <2> QED BY <2>1, <2>2
<1>5. ASSUME pc[t] \in {"read", "write"} PROVE nth[t] \in 1 .. 3 /\ Target(t) \in Reserved(t)
  <2>1. nth[t] \in 1 .. GrantedTo(t) /\ nth[t] \in 1 .. 3 /\ pc[t] # "finish"
    BY <1>2, <1>5
  <2> QED BY <1>3, <2>1 DEF Held, FirstOf, Target
<1> QED BY <1>3, <1>4, <1>5

LEMMA WritersAfter == Inv' => WritersExclude'
BY WritersFromInv, PTL

\* A step that reserves more is taken with the mutex, when nobody is between its release
\* phase and its return.
LEMMA ReservedStep ==
  ASSUME Inv, Inv', MutexAgrees, ReservedExclude, NEW t \in Threads, LockGlobal(t) \/ Step(t)
  PROVE  ReservedExclude'
<1>1. pc \in [Threads -> Stages] /\ nth \in [Threads -> 1 .. 4] /\ pick \in [Threads -> Picks]
      /\ NthAgrees(t)
  BY Progress
<1>2. CASE LockGlobal(t) \/ CheckCommitId(t) \/ ReadRecord(t) \/ WriteRecord(t) \/ Release(t)
  <2>1. pick' = pick
    BY <1>2 DEF LockGlobal, CheckCommitId, ReadRecord, WriteRecord, Release, clientVars
  <2>2. \A u \in Threads : u # t => pc'[u] = pc[u] /\ nth'[u] = nth[u]
    BY <1>1, <1>2 DEF LockGlobal, CheckCommitId, ReadRecord, WriteRecord, Release, Goto, GotoNth
  <2>3. \A u \in Threads : u # t => Reserved(u)' = Reserved(u)
    BY <2>1, <2>2 DEF Reserved, Held, FirstOf, GrantedTo, Entered
  <2>4. CASE ~Release(t)
    <3>1. GrantedTo(t)' = GrantedTo(t) /\ pc[t] # "finish" /\ pc'[t] # "finish"
      BY <1>1, <1>2, <2>4 DEF LockGlobal, CheckCommitId, ReadRecord, WriteRecord, Goto, GotoNth,
        GrantedTo, Entered, NthAgrees, Reading, Stages
    <3>2. Reserved(t)' = Reserved(t)
      BY <2>1, <3>1 DEF Reserved, Held, FirstOf
    <3> QED BY <2>1, <2>3, <3>2 DEF ReservedExclude
  <2>5. CASE Release(t)
    <3>1. pc[t] = "release" /\ pc'[t] = "finish" /\ nth[t] = 4 /\ GrantedTo(t) = 3
      BY <1>1, <2>5 DEF Release, Goto, NthAgrees, GrantedTo, Entered
    <3>2. Reserved(t)' = Reserved(t)
      BY <2>1, <3>1 DEF Reserved, Held, FirstOf
    <3> QED BY <2>1, <2>3, <3>2 DEF ReservedExclude
  <2> QED BY <2>4, <2>5
<1>3. CASE Request(t) \/ Abort(t) \/ Poll(t) \/ LogCommit(t) \/ UndoCommit(t)
  <2>1. pc[t] \in OwnsMutex /\ \E l \in {"spin", "read", "loop"} : pc' = [pc EXCEPT ![t] = l]
    BY <1>3 DEF Request, Abort, Poll, LogCommit, UndoCommit, Return, Goto, GotoNth, OwnsMutex
  <2>2. \A u \in Threads : pc'[u] # "finish"
    BY <1>1, <2>1 DEF MutexAgrees, OwnsMutex
  <2>3. \A u \in Threads : Reserved(u)' = Held(u)'
    BY <2>2 DEF Reserved
  <2> QED BY <2>3, WritersAfter DEF WritersExclude, ReservedExclude
<1> QED BY <1>2, <1>3 DEF Step

\* A step of another transaction leaves the reserved records alone.
LEMMA OthersWriteElsewhere ==
  ASSUME Inv, ReservedExclude, NEW t \in Threads, LockGlobal(t) \/ Step(t),
         NEW u \in Threads, t # u, NEW r \in Reserved(u)
  PROVE  records'[r] = records[r]
<1>0. r \in Records
  <2>1. \A n \in 1 .. 3 : pick[u][n] \in Records
    BY PickFacts
  <2>2. GrantedTo(u) \in 0 .. 3
    BY EnteredRange
  <2> QED BY <2>1, <2>2 DEF Reserved, Held, FirstOf
<1>1. NthAgrees(t) /\ records \in [Records -> LongLong]
  BY Progress DEF Inv, TypeOK
<1>2. ASSUME NEW n \in 2 .. 3, pick[t][n] \in Reserved(t) PROVE pick[t][n] # r
  BY <1>2 DEF ReservedExclude
<1>3. CASE WriteRecord(t)
  <2>1. nth[t] \in 2 .. 3 /\ pick[t][nth[t]] # r
    BY <1>1, <1>2, <1>3, ReservedFacts DEF WriteRecord, NthAgrees, Target
  <2>2. PICK x : records' = [records EXCEPT ![pick[t][nth[t]]] = x]
    BY <1>3 DEF WriteRecord, Target
  <2>3. r \in DOMAIN records' => records'[r] = records[r]
    BY <2>1, <2>2
  <2>4. DOMAIN records' = Records
    BY <1>1, <2>2
  <2> QED BY <1>0, <2>3, <2>4
<1>4. CASE Abort(t)
  <2>1. nth[t] = 3 => pick[t][2] # r
    BY <1>2, ReservedFacts
  <2> QED BY <1>1, <1>4, <2>1 DEF Abort
<1>5. CASE UndoCommit(t)
  <2>1. pick[t][2] # r /\ pick[t][3] # r
    BY <1>1, <1>2, <1>5, ReservedFacts DEF UndoCommit, NthAgrees
  <2>2. records' = [records EXCEPT ![pick[t][2]] = saved[t][2], ![pick[t][3]] = saved[t][3]]
    BY <1>5 DEF UndoCommit
  <2> QED BY <1>0, <1>1, <2>1, <2>2
<1>6. CASE ~WriteRecord(t) /\ ~Abort(t) /\ ~UndoCommit(t)
  BY <1>6 DEF LockGlobal, Step, CheckCommitId, Request, Poll, ReadRecord, Release, LogCommit,
    clientVars
<1> QED BY <1>3, <1>4, <1>5, <1>6

LEMMA OthersStay ==
  ASSUME Inv, NEW t \in Threads, LockGlobal(t) \/ Step(t), NEW u \in Threads, t # u
  PROVE  pc'[u] = pc[u] /\ nth'[u] = nth[u] /\ pick'[u] = pick[u] /\ saved'[u] = saved[u]
<1>1. /\ pc \in [Threads -> Stages] /\ nth \in [Threads -> 1 .. 4]
      /\ pick \in [Threads -> Picks] /\ saved \in [Threads -> [1 .. 3 -> LongLong]]
  BY DEF Inv, TypeOK
<1>2. pc'[u] = pc[u] /\ nth'[u] = nth[u]
  BY <1>1 DEF LockGlobal, Step, CheckCommitId, Request, Abort, Poll, ReadRecord, WriteRecord, Release,
    LogCommit, UndoCommit, Return, Goto, GotoNth, clientVars
<1>3. pick'[u] = pick[u] /\ saved'[u] = saved[u]
  BY <1>1 DEF LockGlobal, Step, CheckCommitId, Request, Abort, Poll, ReadRecord, WriteRecord, Release,
    LogCommit, UndoCommit, Return, Goto, GotoNth, clientVars
<1> QED BY <1>2, <1>3

LEMMA ValuesAgreeStep ==
  ASSUME Inv, ReservedExclude, ValuesAgree, NEW t \in Threads, LockGlobal(t) \/ Step(t)
  PROVE  ValuesAgree'
<1> DEFINE Agrees(u) ==
      /\ nth[u] > 1 => saved[u][1] = records[pick[u][1]]
      /\ nth[u] > 2 => records[pick[u][2]] = Serial!AddRead(saved[u][2], saved[u][1])
      /\ nth[u] > 3 => records[pick[u][3]] = Serial!SubRead(saved[u][3], saved[u][1])
      /\ pc[u] = "write" => saved[u][nth[u]] = records[Target(u)]
<1>1. /\ pc \in [Threads -> Stages] /\ nth \in [Threads -> 1 .. 4] /\ NthAgrees(t)
      /\ pick \in [Threads -> Picks] /\ saved \in [Threads -> [1 .. 3 -> LongLong]]
      /\ records \in [Records -> LongLong]
  BY DEF Inv, TypeOK
<1>2. ASSUME NEW u \in Threads, u # t PROVE Agrees(u)'
  <2>1. pc'[u] = pc[u] /\ nth'[u] = nth[u] /\ pick'[u] = pick[u] /\ saved'[u] = saved[u]
    BY <1>2, OthersStay
  <2>2. \A r \in Reserved(u) : records'[r] = records[r]
    BY <1>2, OthersWriteElsewhere
  <2>3. /\ nth[u] > 1 => records'[pick[u][1]] = records[pick[u][1]]
        /\ nth[u] > 2 => records'[pick[u][2]] = records[pick[u][2]]
        /\ nth[u] > 3 => records'[pick[u][3]] = records[pick[u][3]]
        /\ pc[u] = "write" => records'[Target(u)] = records[Target(u)]
    BY <1>1, <2>2, ReservedFacts
  <2> QED BY <2>1, <2>3 DEF ValuesAgree, Target
<1>3. Agrees(t)'
  <2>1. CASE LockGlobal(t) \/ CheckCommitId(t) \/ Request(t) \/ Poll(t) \/ Release(t)
    <3>1. /\ nth' = nth /\ pick' = pick /\ saved' = saved /\ records' = records
          /\ pc'[t] # "write"
      BY <1>1, <2>1 DEF LockGlobal, CheckCommitId, Request, Poll, Release, clientVars, Goto
    <3> QED BY <3>1 DEF ValuesAgree
  <2>2. CASE Abort(t) \/ LogCommit(t) \/ UndoCommit(t)
    <3>1. nth'[t] = 1 /\ pc'[t] = "loop"
      BY <1>1, <2>2 DEF Abort, LogCommit, UndoCommit, Return, GotoNth, Goto
    <3> QED BY <3>1
  <2>3. CASE ReadRecord(t)
    <3>1. nth[t] \in 1 .. 3 /\ records' = records /\ pick' = pick
      BY <1>1, <2>3 DEF ReadRecord, NthAgrees
    <3>2. \A k \in 1 .. 3 : saved'[t][k] = IF k = nth[t] THEN records[Target(t)] ELSE saved[t][k]
      BY <1>1, <2>3 DEF ReadRecord
    <3>3. CASE nth[t] = 1
      <4>1. nth'[t] = 2 /\ pc'[t] = "lock"
        BY <1>1, <2>3, <3>3 DEF ReadRecord, Reading, GotoNth, Goto
      <4> QED BY <3>1, <3>2, <3>3, <4>1 DEF Target
    <3>4. CASE nth[t] # 1
      <4>1. nth'[t] = nth[t] /\ Target(t)' = Target(t)
        BY <2>3, <3>4 DEF ReadRecord, Reading, Target
      <4> QED BY <3>1, <3>2, <3>4, <4>1 DEF ValuesAgree
    <3> QED BY <3>3, <3>4
  <2>4. CASE WriteRecord(t)
    <3>1. /\ nth[t] \in 2 .. 3 /\ pick' = pick /\ saved' = saved
          /\ nth'[t] = nth[t] + 1 /\ pc'[t] = "lock" /\ saved[t][nth[t]] = records[Target(t)]
      BY <1>1, <2>4 DEF WriteRecord, NthAgrees, ValuesAgree, GotoNth, Goto
    <3>2. \A k \in 1 .. 3 :
            records'[pick[t][k]] =
              IF k # nth[t] THEN records[pick[t][k]]
              ELSE IF nth[t] = 2 THEN Serial!AddRead(saved[t][2], saved[t][1])
              ELSE Serial!SubRead(saved[t][3], saved[t][1])
      <4>1. pick[t] \in [1 .. 3 -> Records] /\ \A m, n \in 1 .. 3 : m # n => pick[t][m] # pick[t][n]
        BY PickFacts
      <4>2. CASE nth[t] = 2
        <5>0. saved[t][2] = records[pick[t][2]]
          BY <3>1, <4>2 DEF Target
        <5>1. records' = [records EXCEPT ![pick[t][2]] = Serial!AddRead(saved[t][2], saved[t][1])]
          BY <2>4, <4>2, <5>0 DEF WriteRecord, Target
        <5> QED BY <1>1, <4>1, <4>2, <5>1
      <4>3. CASE nth[t] = 3
        <5>0. saved[t][3] = records[pick[t][3]]
          BY <3>1, <4>3 DEF Target
        <5>1. records' = [records EXCEPT ![pick[t][3]] = Serial!SubRead(saved[t][3], saved[t][1])]
          BY <2>4, <4>3, <5>0 DEF WriteRecord, Target
        <5> QED BY <1>1, <4>1, <4>3, <5>1
      <4> QED BY <3>1, <4>2, <4>3
    <3> QED BY <3>1, <3>2 DEF ValuesAgree
  <2> QED BY <2>1, <2>2, <2>3, <2>4 DEF Step
<1> QED BY <1>2, <1>3 DEF ValuesAgree

\* What the records would be without the writes in progress.
CommittedReads ==
  /\ Committed = [r \in Records |-> Committed[r]]
  /\ \A t \in Threads : \A n \in 2 .. 3 : n < nth[t] => Committed[pick[t][n]] = saved[t][n]
  /\ \A r \in Records : (\A t \in Threads : \A n \in 2 .. 3 : n < nth[t] => pick[t][n] # r)
       => Committed[r] = records[r]

LEMMA CommittedFacts == Inv /\ ReservedExclude => CommittedReads
<1> SUFFICES ASSUME Inv, ReservedExclude PROVE CommittedReads
  OBVIOUS
<1>1. Committed = [r \in Records |-> Committed[r]]
  BY DEF Committed
<1>2. ASSUME NEW t \in Threads, NEW n \in 2 .. 3, n < nth[t]
      PROVE  Committed[pick[t][n]] = saved[t][n]
  <2>1. pick[t][n] \in Records
    BY PickFacts
  <2>2. <<t, n>> \in Uncommitted(pick[t][n])
    BY <1>2 DEF Uncommitted
  <2>3. ASSUME NEW w \in Uncommitted(pick[t][n]) PROVE w = <<t, n>>
    <3>1. /\ w[1] \in Threads /\ w[2] \in 2 .. 3 /\ w = <<w[1], w[2]>>
          /\ w[2] < nth[w[1]] /\ pick[w[1]][w[2]] = pick[t][n]
      BY DEF Uncommitted
    <3>2. pick[t][n] \in Reserved(t) /\ pick[t][n] \in Reserved(w[1])
      BY <1>2, <3>1, ReservedFacts
    <3>3. w[1] = t
      BY <3>1, <3>2 DEF ReservedExclude
    <3>4. w[2] = n
      BY <3>1, <3>3, PickFacts
    <3> QED BY <3>1, <3>3, <3>4
  <2>4. Uncommitted(pick[t][n]) = {<<t, n>>}
    BY <2>2, <2>3
  <2>5. Committed[pick[t][n]] =
          LET w == CHOOSE w \in {<<t, n>>} : TRUE IN saved[w[1]][w[2]]
    BY <2>1, <2>4 DEF Committed
  <2>6. (CHOOSE w \in {<<t, n>>} : TRUE) = <<t, n>>
    OBVIOUS
  <2> QED BY <2>5, <2>6
<1>3. ASSUME NEW r \in Records, \A t \in Threads : \A n \in 2 .. 3 : n < nth[t] => pick[t][n] # r
      PROVE  Committed[r] = records[r]
  <2>1. Uncommitted(r) = {}
    BY <1>3 DEF Uncommitted
  <2> QED BY <2>1 DEF Committed
<1> QED BY <1>1, <1>2, <1>3 DEF CommittedReads

LEMMA CommittedAfter == Inv' /\ ReservedExclude' => CommittedReads'
BY CommittedFacts, PTL

\* How a step that commits nothing treats the records of its thread: it leaves them
\* alone, reads the first or writes one more of them, or undoes all its writes.
LEMMA StepWithoutCommit ==
  ASSUME Inv, NEW t \in Threads, LockGlobal(t) \/ Step(t), ~LogCommit(t)
  PROVE  /\ pick' = pick /\ log' = log
         /\ \/ /\ nth'[t] = nth[t] \/ (nth[t] = 1 /\ nth'[t] = 2)
               /\ records' = records
               /\ \A n \in 2 .. 3 : n < nth[t] => saved'[t][n] = saved[t][n]
            \/ /\ nth[t] \in 2 .. 3 /\ nth'[t] = nth[t] + 1 /\ saved' = saved /\ pc[t] = "write"
               /\ \A r \in Records : r # Target(t) => records'[r] = records[r]
            \/ /\ nth'[t] = 1
               /\ \A n \in 2 .. 3 : n < nth[t] => records'[pick[t][n]] = saved[t][n]
               /\ \A r \in Records :
                    (\A n \in 2 .. 3 : n < nth[t] => pick[t][n] # r) => records'[r] = records[r]
<1>1. /\ nth \in [Threads -> 1 .. 4] /\ NthAgrees(t)
      /\ saved \in [Threads -> [1 .. 3 -> LongLong]] /\ records \in [Records -> LongLong]
      /\ \A m, n \in 1 .. 3 : m # n => pick[t][m] # pick[t][n]
      /\ \A n \in 1 .. 3 : pick[t][n] \in Records
  BY PickFacts DEF Inv, TypeOK
<1>2. pick' = pick /\ log' = log
  BY DEF LockGlobal, Step, CheckCommitId, Request, Abort, Poll, ReadRecord, WriteRecord, Release,
    UndoCommit, clientVars
<1>3. CASE LockGlobal(t) \/ CheckCommitId(t) \/ Request(t) \/ Poll(t) \/ Release(t)
  <2>1. nth' = nth /\ records' = records /\ saved' = saved
    BY <1>3 DEF LockGlobal, CheckCommitId, Request, Poll, Release, clientVars
  <2> QED BY <1>2, <2>1
<1>4. CASE ReadRecord(t)
  <2>1. nth'[t] = nth[t] \/ (nth[t] = 1 /\ nth'[t] = 2)
    BY <1>1, <1>4 DEF ReadRecord, Reading, GotoNth
  <2>2. records' = records
    BY <1>4 DEF ReadRecord
  <2>3. \A n \in 2 .. 3 : n < nth[t] => saved'[t][n] = saved[t][n]
    BY <1>1, <1>4 DEF ReadRecord
  <2> QED BY <1>2, <2>1, <2>2, <2>3
<1>5. CASE WriteRecord(t)
  <2>1. nth[t] \in 2 .. 3 /\ nth'[t] = nth[t] + 1 /\ saved' = saved /\ pc[t] = "write"
    BY <1>1, <1>5 DEF WriteRecord, NthAgrees, GotoNth
  <2>2. PICK x : records' = [records EXCEPT ![Target(t)] = x]
    BY <1>5 DEF WriteRecord
  <2>3. \A r \in Records : r # Target(t) => records'[r] = records[r]
    BY <1>1, <2>2
  <2> QED BY <1>2, <2>1, <2>3
<1>6. CASE Abort(t)
  <2>1. nth[t] \in 1 .. 3 /\ nth'[t] = 1
    BY <1>1, <1>6 DEF Abort, NthAgrees, Return, GotoNth
  <2>2. records' = IF nth[t] = 3 THEN [records EXCEPT ![pick[t][2]] = saved[t][2]] ELSE records
    BY <1>6 DEF Abort
  <2> QED BY <1>1, <1>2, <2>1, <2>2
<1>7. CASE UndoCommit(t)
  <2>1. nth[t] = 4 /\ nth'[t] = 1
    BY <1>1, <1>7 DEF UndoCommit, NthAgrees, Return, GotoNth
  <2>2. records' = [records EXCEPT ![pick[t][2]] = saved[t][2], ![pick[t][3]] = saved[t][3]]
    BY <1>7 DEF UndoCommit
  <2> QED BY <1>1, <1>2, <2>1, <2>2
<1> QED BY <1>3, <1>4, <1>5, <1>6, <1>7 DEF Step

\* Whatever is written, refused or undone, only a logged commit shows.
LEMMA NothingCommitted ==
  ASSUME Inv, Inv', ReservedExclude, ReservedExclude', ValuesAgree,
         NEW t \in Threads, LockGlobal(t) \/ Step(t), ~LogCommit(t)
  PROVE  Committed' = Committed /\ log' = log
<1>1. CommittedReads /\ CommittedReads'
  BY CommittedFacts, CommittedAfter
<1>2. pick' = pick /\ log' = log /\ nth[t] \in 1 .. 4
  BY StepWithoutCommit, Progress
<1>3. \A u \in Threads : u # t => nth'[u] = nth[u] /\ saved'[u] = saved[u]
  BY OthersStay
<1>4. ASSUME NEW r \in Records PROVE Committed'[r] = Committed[r]
  <2>1. CASE \E u \in Threads : u # t /\ \E n \in 2 .. 3 : n < nth[u] /\ pick[u][n] = r
    <3>1. PICK u \in Threads, n \in 2 .. 3 : u # t /\ n < nth[u] /\ pick[u][n] = r
      BY <2>1
    <3>2. Committed[r] = saved[u][n]
      BY <1>1, <3>1 DEF CommittedReads
    <3>3. Committed'[r] = saved'[u][n]
      BY <1>1, <1>2, <1>3, <3>1 DEF CommittedReads
    <3> QED BY <1>3, <3>1, <3>2, <3>3
  <2>2. CASE /\ \A u \in Threads : u # t => \A n \in 2 .. 3 : n < nth[u] => pick[u][n] # r
             /\ \E n \in 2 .. 3 : n < nth[t] /\ pick[t][n] = r
    <3>1. PICK n \in 2 .. 3 : n < nth[t] /\ pick[t][n] = r
      BY <2>2
    <3>2. Committed[r] = saved[t][n]
      BY <1>1, <3>1 DEF CommittedReads
    <3>3. CASE n < nth'[t]
      <4>1. Committed'[r] = saved'[t][n]
        BY <1>1, <1>2, <3>1, <3>3 DEF CommittedReads
      <4>2. saved'[t][n] = saved[t][n]
        BY <3>1, <3>3, StepWithoutCommit
      <4> QED BY <3>2, <4>1, <4>2
    <3>4. CASE ~(n < nth'[t])
      <4>1. nth'[t] = 1 /\ records'[r] = saved[t][n]
        BY <1>2, <3>1, <3>4, StepWithoutCommit
      <4>2. \A u \in Threads : \A m \in 2 .. 3 : m < nth'[u] => pick'[u][m] # r
        BY <1>2, <1>3, <2>2, <4>1
      <4> QED BY <1>1, <3>2, <4>1, <4>2 DEF CommittedReads
    <3> QED BY <3>3, <3>4
  <2>3. CASE \A u \in Threads : \A n \in 2 .. 3 : n < nth[u] => pick[u][n] # r
    <3>1. Committed[r] = records[r]
      BY <1>1, <2>3 DEF CommittedReads
    <3>2. CASE pc[t] = "write" /\ Target(t) = r /\ nth[t] \in 2 .. 3 /\ nth'[t] = nth[t] + 1 /\ saved' = saved
      <4>1. nth[t] < nth'[t] /\ pick'[t][nth[t]] = r
        BY <1>2, <3>2 DEF Target
      <4>2. Committed'[r] = saved[t][nth[t]]
        BY <1>1, <3>2, <4>1 DEF CommittedReads
      <4> QED BY <3>1, <3>2, <4>2 DEF ValuesAgree
    <3>3. CASE ~(pc[t] = "write" /\ Target(t) = r /\ nth[t] \in 2 .. 3 /\ nth'[t] = nth[t] + 1 /\ saved' = saved)
      <4>1. records'[r] = records[r]
        BY <2>3, <3>3, StepWithoutCommit
      <4>2. \A n \in 2 .. 3 : n < nth'[t] => pick[t][n] # r
        BY <1>2, <2>3, <3>3, StepWithoutCommit DEF Target
      <4>3. \A u \in Threads : \A n \in 2 .. 3 : n < nth'[u] => pick'[u][n] # r
        BY <1>2, <1>3, <2>3, <4>2
      <4> QED BY <1>1, <3>1, <4>1, <4>3 DEF CommittedReads
    <3> QED BY <3>2, <3>3
  <2> QED BY <2>1, <2>2, <2>3
<1> QED BY <1>1, <1>2, <1>4 DEF CommittedReads

\* The operators the abstract database counts with are those of the detailed one.
LEMMA SameCardinality == \A S : Cardinality(S) = Serial!Cardinality(S)
BY DEF Cardinality, Serial!Cardinality

\* A commit that is logged is the next transaction of the serial execution, with what it
\* computed from the values it remembers.
LEMMA CommitImplements ==
  ASSUME Inv, Inv', MutexAgrees, ReservedExclude, ReservedExclude', ValuesAgree, CommitsAgree,
         NEW t \in Threads, LogCommit(t)
  PROVE  Serial!Commit(t, pick[t])
<1> DEFINE p == pick[t]
<1>1. CommittedReads /\ CommittedReads'
  BY CommittedFacts, CommittedAfter
<1>2. /\ pc[t] = "finish" /\ nth[t] = 4 /\ records' = records /\ nth'[t] = 1
      /\ log' = [log EXCEPT ![t] = Append(@, Serial!Line(commit_id, p, records))]
      /\ commit_id <= txnNum
  BY Progress DEF LogCommit, NthAgrees, Return, GotoNth
<1>3. \A u \in Threads : u # t => nth'[u] = nth[u] /\ saved'[u] = saved[u] /\ pick'[u] = pick[u]
  BY OthersStay DEF Step
<1>4. /\ \A n \in 1 .. 3 : p[n] \in Records /\ p[n] \in Reserved(t)
      /\ \A m, n \in 1 .. 3 : m # n => p[m] # p[n]
  BY <1>2, PickFacts, ReservedFacts
<1>5. ASSUME NEW n \in 1 .. 3, NEW u \in Threads, u # t, NEW m \in 2 .. 3, m < nth[u]
      PROVE  pick[u][m] # p[n]
  <2>1. pick[u][m] \in Reserved(u)
    BY <1>5, ReservedFacts
  <2> QED BY <1>4, <1>5, <2>1 DEF ReservedExclude
<1>6. /\ Committed[p[1]] = saved[t][1] /\ Committed[p[2]] = saved[t][2] /\ Committed[p[3]] = saved[t][3]
  <2>1. Committed[p[2]] = saved[t][2] /\ Committed[p[3]] = saved[t][3]
    BY <1>1, <1>2 DEF CommittedReads
  <2>2. \A u \in Threads : \A m \in 2 .. 3 : m < nth[u] => pick[u][m] # p[1]
    BY <1>4, <1>5
  <2>3. Committed[p[1]] = records[p[1]]
    BY <1>1, <1>4, <2>2 DEF CommittedReads
  <2> QED BY <1>2, <2>1, <2>3 DEF ValuesAgree
<1>7. \A n \in 1 .. 3 : Committed'[p[n]] = records[p[n]]
  <2> SUFFICES ASSUME NEW n \in 1 .. 3 PROVE Committed'[p[n]] = records[p[n]]
    OBVIOUS
  <2>1. \A u \in Threads : \A m \in 2 .. 3 : m < nth'[u] => pick'[u][m] # p[n]
    BY <1>2, <1>3, <1>5
  <2> QED BY <1>1, <1>2, <1>4, <2>1 DEF CommittedReads
<1>8. /\ Committed'[p[2]] = Serial!AddRead(Committed[p[2]], Committed[p[1]])
      /\ Committed'[p[3]] = Serial!SubRead(Committed[p[3]], Committed[p[1]])
  BY <1>2, <1>6, <1>7 DEF ValuesAgree
<1>9. ASSUME NEW r \in Records, r # p[2], r # p[3] PROVE Committed'[r] = Committed[r]
  <2>1. \A m \in 2 .. 3 : p[m] # r
    BY <1>9
  <2>2. CASE \E u \in Threads : \E m \in 2 .. 3 : m < nth[u] /\ pick[u][m] = r
    <3>1. PICK u \in Threads, m \in 2 .. 3 : m < nth[u] /\ pick[u][m] = r
      BY <2>2
    <3>2. u # t
      BY <2>1, <3>1
    <3>3. Committed[r] = saved[u][m]
      BY <1>1, <3>1 DEF CommittedReads
    <3>4. Committed'[r] = saved'[u][m]
      BY <1>1, <1>3, <3>1, <3>2 DEF CommittedReads
    <3> QED BY <1>3, <3>2, <3>3, <3>4
  <2>3. CASE ~\E u \in Threads : \E m \in 2 .. 3 : m < nth[u] /\ pick[u][m] = r
    <3>1. \A u \in Threads : \A m \in 2 .. 3 : m < nth'[u] => pick'[u][m] # r
      BY <1>2, <1>3, <2>3
    <3> QED BY <1>1, <1>2, <2>3, <3>1 DEF CommittedReads
  <2> QED BY <2>2, <2>3
<1>10. Committed' = Serial!Effect(Committed, p)
  BY <1>1, <1>4, <1>8, <1>9 DEF CommittedReads, Serial!Effect
<1>11. commit_id = Serial!Cardinality(Serial!Lines) + 1
  <2>1. commit_id \in Nat /\ txnNum \in Nat
    BY DatabaseAssumption, NobodyAssumption DEF Inv, TypeOK
  <2>2. Cardinality(Serial!Lines) = commit_id - 1
    BY <1>2, <2>1 DEF CommitsAgree
  <2> QED BY <2>1, <2>2, SameCardinality
<1>12. Serial!Line(commit_id, p, records) = Serial!Line(commit_id, p, Committed')
  BY <1>7 DEF Serial!Line
<1> HIDE DEF p
<1>13. Serial!Commit(t, p)
  BY <1>2, <1>10, <1>11, <1>12 DEF Serial!Commit
<1> QED BY <1>13 DEF p

\* A line more is an id more.
LEMMA OneMoreLine ==
  ASSUME Inv, IsFiniteSet(Serial!Lines), NEW t \in Threads, LogCommit(t)
  PROVE  /\ IsFiniteSet(Serial!Lines')
         /\ Cardinality(Serial!Lines') = Cardinality(Serial!Lines) + 1
<1>1. /\ log \in [Threads -> Seq([id : Nat, pick : Picks, values : [1 .. 3 -> LongLong]])]
      /\ log' = [log EXCEPT ![t] = Append(@, Serial!Line(commit_id, pick[t], records))]
      /\ Serial!Line(commit_id, pick[t], records)
           \in [id : Nat, pick : Picks, values : [1 .. 3 -> LongLong]]
  BY LineInRange DEF LogCommit, Inv, TypeOK
<1> DEFINE l == Len(log[t])
<1>2. /\ l \in Nat /\ DOMAIN log[t] = 1 .. l /\ DOMAIN log'[t] = 1 .. l + 1
      /\ \A u \in Threads : u # t => log'[u] = log[u]
  <2>1. log[t] \in Seq([id : Nat, pick : Picks, values : [1 .. 3 -> LongLong]])
    BY <1>1
  <2>2. log'[t] = Append(log[t], Serial!Line(commit_id, pick[t], records))
    BY <1>1
  <2>3. Len(log'[t]) = l + 1 /\ log'[t] \in Seq([id : Nat, pick : Picks, values : [1 .. 3 -> LongLong]])
    BY <1>1, <2>1, <2>2, AppendProperties
  <2> QED BY <1>1, <2>1, <2>3, LenProperties
<1> HIDE DEF l
<1>3. DOMAIN log'[t] = DOMAIN log[t] \cup {l + 1} /\ l + 1 \notin DOMAIN log[t]
  BY <1>2
<1>4. Serial!Lines' = Serial!Lines \cup {<<t, l + 1>>} /\ <<t, l + 1>> \notin Serial!Lines
  BY <1>2, <1>3 DEF Serial!Lines
<1> QED BY <1>4, FS_AddElement

LEMMA CommitsAgreeStep ==
  ASSUME Inv, MutexAgrees, MutexAgrees', CommitsAgree, NEW t \in Threads, LockGlobal(t) \/ Step(t)
  PROVE  CommitsAgree'
<1> DEFINE AtFinish == \E u \in Threads : pc[u] = "finish"
<1>1. /\ pc \in [Threads -> Stages] /\ commit_id \in Nat /\ txnNum \in Nat
      /\ Nobody \notin Threads
  BY DatabaseAssumption, NobodyAssumption DEF Inv, TypeOK
<1>2. \A u \in Threads : u # t => pc'[u] = pc[u]
  BY OthersStay
<1>3. pc[t] \in OwnsMutex => \A u \in Threads : u # t => pc[u] # "finish"
  BY DEF MutexAgrees, OwnsMutex
<1>4. CASE LogCommit(t)
  <2>1. /\ pc[t] = "finish" /\ pc'[t] = "loop" /\ commit_id' = commit_id /\ commit_id <= txnNum
    BY <1>1, <1>4 DEF LogCommit, Return, GotoNth, Goto
  <2>2. AtFinish /\ ~AtFinish'
    BY <1>2, <1>3, <2>1 DEF OwnsMutex
  <2>3. /\ IsFiniteSet(Serial!Lines') /\ Cardinality(Serial!Lines') = Cardinality(Serial!Lines) + 1
        /\ Cardinality(Serial!Lines) = commit_id - 1
    BY <1>1, <1>4, <2>1, <2>2, OneMoreLine DEF CommitsAgree
  <2>4. Cardinality(Serial!Lines') = commit_id
    BY <1>1, <2>3
  <2>5. \A u \in Threads : pc'[u] = "done" => pc[u] = "done"
    BY <1>2, <2>1
  <2> QED BY <1>1, <2>1, <2>2, <2>3, <2>4, <2>5 DEF CommitsAgree
<1>5. CASE Release(t)
  <2>1. /\ pc[t] = "release" /\ pc'[t] = "finish" /\ commit_id' = commit_id + 1 /\ log' = log
    BY <1>1, <1>5 DEF Release, Goto
  <2>2. ~AtFinish /\ AtFinish'
    BY <1>2, <1>3, <2>1 DEF OwnsMutex
  <2>3. Serial!Lines' = Serial!Lines
    BY <2>1 DEF Serial!Lines
  <2>4. \A u \in Threads : pc'[u] = "done" => pc[u] = "done"
    BY <1>2, <2>1
  <2> QED BY <1>1, <2>1, <2>2, <2>3, <2>4 DEF CommitsAgree
<1>6. CASE UndoCommit(t)
  <2>1. /\ pc[t] = "finish" /\ pc'[t] = "loop" /\ commit_id' = commit_id /\ log' = log
        /\ commit_id > txnNum
    BY <1>1, <1>6 DEF UndoCommit, Return, GotoNth, Goto
  <2>2. Serial!Lines' = Serial!Lines
    BY <2>1 DEF Serial!Lines
  <2>3. \A u \in Threads : pc'[u] = "done" => pc[u] = "done"
    BY <1>2, <2>1
  <2> QED BY <1>1, <2>1, <2>2, <2>3 DEF CommitsAgree
<1>7. CASE ~LogCommit(t) /\ ~Release(t) /\ ~UndoCommit(t)
  <2>1. commit_id' = commit_id /\ log' = log
    BY <1>7 DEF LockGlobal, Step, CheckCommitId, Request, Abort, Poll, ReadRecord, WriteRecord,
      clientVars
  <2>2. pc[t] # "finish" /\ pc'[t] # "finish"
    BY <1>1, <1>7 DEF LockGlobal, Step, CheckCommitId, Request, Abort, Poll, ReadRecord, WriteRecord,
      Goto, GotoNth, Return
  <2>3. pc'[t] = "done" => commit_id >= txnNum
    BY <1>1, <1>7 DEF LockGlobal, Step, CheckCommitId, Request, Abort, Poll, ReadRecord, WriteRecord,
      Goto, GotoNth, Return
  <2>4. AtFinish' <=> AtFinish
    BY <1>2, <2>2
  <2>5. Serial!Lines' = Serial!Lines
    BY <2>1 DEF Serial!Lines
  <2>6. \A u \in Threads : pc'[u] = "done" => commit_id >= txnNum
    BY <1>2, <2>3 DEF CommitsAgree
  <2> QED BY <2>1, <2>4, <2>5, <2>6 DEF CommitsAgree
<1> QED BY <1>4, <1>5, <1>6, <1>7

LEMMA CommitInvInitially == Init => CommitInv
<1> SUFFICES ASSUME Init PROVE CommitInv
  OBVIOUS
<1>1. Inv
  BY InvInitially
<1>2. \A t \in Threads : pc[t] = "loop" /\ nth[t] = 1
  BY DEF Init
<1>3. MutexAgrees
  BY <1>2, DatabaseAssumption, NobodyAssumption DEF Init, MutexAgrees, OwnsMutex
<1>4. \A t \in Threads : Reserved(t) = {}
  BY <1>2 DEF Reserved, Held, GrantedTo, Entered, FirstOf
<1>5. ReservedExclude
  BY <1>4 DEF ReservedExclude
<1>6. ValuesAgree
  BY <1>2 DEF ValuesAgree
<1>7. Serial!Lines = {} /\ commit_id = 0
  BY DEF Init, Serial!Lines
<1>8. CommitsAgree
  BY <1>2, <1>7, FS_EmptySet, DatabaseAssumption DEF CommitsAgree
<1> QED BY <1>1, <1>3, <1>5, <1>6, <1>8 DEF CommitInv

LEMMA CommitInvStep == CommitInv /\ [Next]_vars => CommitInv'
<1> SUFFICES ASSUME CommitInv, [Next]_vars PROVE CommitInv'
  OBVIOUS
<1>1. Inv'
  BY InvStep DEF CommitInv
<1>2. ASSUME NEW t \in Threads, LockGlobal(t) \/ Step(t) PROVE CommitInv'
  <2>1. MutexAgrees'
    BY <1>2, MutexStep DEF CommitInv
  <2>2. ReservedExclude'
    BY <1>1, <1>2, ReservedStep DEF CommitInv
  <2>3. ValuesAgree'
    BY <1>2, ValuesAgreeStep DEF CommitInv
  <2>4. CommitsAgree'
    BY <1>2, <2>1, CommitsAgreeStep DEF CommitInv
  <2> QED BY <1>1, <2>1, <2>2, <2>3, <2>4 DEF CommitInv
<1>3. CASE UNCHANGED vars
  <2>1. UNCHANGED <<gM, records, commit_id, log, pc, pick, nth, saved>>
    BY <1>3 DEF vars, clientVars
  <2>2. MutexAgrees' /\ CommitsAgree'
    BY <2>1 DEF CommitInv, MutexAgrees, CommitsAgree, Serial!Lines
  <2>3. \A t \in Threads : Reserved(t)' = Reserved(t)
    BY <2>1 DEF Reserved, Held, GrantedTo, Entered, FirstOf
  <2>4. ReservedExclude'
    BY <2>1, <2>3 DEF CommitInv, ReservedExclude
  <2>5. ValuesAgree'
    BY <2>1 DEF CommitInv, ValuesAgree, Target
  <2> QED BY <1>1, <2>2, <2>4, <2>5 DEF CommitInv
<1> QED BY <1>2, <1>3 DEF Next, Finished

\* The mutex, the locks, what the transactions remember and the ids given out agree in
\* every reachable state.
THEOREM CommitInvariance == Spec => []CommitInv
BY CommitInvInitially, CommitInvStep, PTL DEF Spec

\* The committed transactions are a serial execution in the order of their ids, with the
\* log lines of that execution (database.cpp:30-69).
THEOREM SerialExecution == Spec => Serializable
<1>1. Init => Serial!SerialInit
  <2> SUFFICES ASSUME Init PROVE Serial!SerialInit
    OBVIOUS
  <2>1. CommitInv /\ \A t \in Threads : nth[t] = 1
    BY CommitInvInitially DEF Init
  <2>2. Committed = [r \in Records |-> INIT_VALUE]
    BY <2>1, CommittedFacts DEF CommittedReads, CommitInv, Init
  <2> QED BY <2>2 DEF Serial!SerialInit, Init
<1>2. CommitInv /\ CommitInv' /\ [Next]_vars => [Serial!SerialNext]_(Serial!serialVars)
  <2> SUFFICES ASSUME CommitInv, CommitInv', [Next]_vars
               PROVE  [Serial!SerialNext]_(Serial!serialVars)
    OBVIOUS
  <2>1. ASSUME NEW t \in Threads, LogCommit(t) PROVE Serial!SerialNext
    <3>1. Serial!Commit(t, pick[t]) /\ pick[t] \in Serial!Picks
      BY <2>1, CommitImplements, Progress DEF CommitInv, Picks
    <3> QED BY <3>1 DEF Serial!SerialNext
  <2>2. ASSUME NEW t \in Threads, LockGlobal(t) \/ Step(t), ~LogCommit(t)
        PROVE  UNCHANGED Serial!serialVars
    BY <2>2, NothingCommitted DEF CommitInv, Serial!serialVars
  <2>3. CASE UNCHANGED vars
    BY <2>3 DEF vars, clientVars, Serial!serialVars, Committed, Uncommitted
  <2> QED BY <2>1, <2>2, <2>3 DEF Next, Finished
<1> QED BY <1>1, <1>2, CommitInvariance, PTL DEF Spec, Serializable, Serial!SerialSpec

\* With a thread at all, when all have ended exactly txnNum commits have been logged
\* (database.cpp:57-66, main.cpp:19).
THEOREM ExactlyTxnNum ==
  ASSUME Threads # {} PROVE Spec => []ExactlyE
<1>1. CommitInv => ExactlyE
  <2> SUFFICES ASSUME CommitInv, \A t \in Threads : pc[t] = "done"
               PROVE  Cardinality(Serial!Lines) = txnNum
    BY DEF ExactlyE
  <2>1. commit_id >= txnNum /\ commit_id \in Nat /\ txnNum \in Nat
    BY DatabaseAssumption DEF CommitInv, CommitsAgree, Inv, TypeOK
  <2>2. ~\E t \in Threads : pc[t] = "finish"
    OBVIOUS
  <2> QED BY <2>1, <2>2 DEF CommitInv, CommitsAgree
<1> QED BY <1>1, CommitInvariance, PTL
-----------------------------------------------------------------------------
(***************************************************************************)
(* The recursive search of DeadlockDetection decides what LockTable says   *)
(* of it.                                                                  *)
(***************************************************************************)
\* A set of numbers has a smallest one.
LEMMA Smallest ==
  ASSUME NEW T, T \subseteq Nat, T # {}
  PROVE  \E x \in T : \A y \in T : x <= y
<1>1. PICK x \in T : \A y \in T : <<y, x>> \notin OpToRel(<, Nat)
  BY NatLessThanWellFounded, WFMin
<1>2. ASSUME NEW y \in T PROVE x <= y
  <2>1. x \in Nat /\ y \in Nat
    OBVIOUS
  <2>2. ~(y < x)
    BY <1>1, <2>1 DEF OpToRel
  <2> QED BY <2>1, <2>2
<1> QED BY <1>2

\* Induction, for a property given as the set of the numbers that have it.
LEMMA SetInduction ==
  ASSUME NEW A, 0 \in A, \A n \in Nat : n \in A => n + 1 \in A
  PROVE  Nat \subseteq A
<1> SUFFICES ASSUME Nat \ A # {} PROVE FALSE
  OBVIOUS
<1>1. PICK x \in Nat \ A : \A y \in Nat \ A : x <= y
  <2>1. Nat \ A \subseteq Nat
    OBVIOUS
  <2> QED BY <2>1, Smallest
<1>2. x - 1 \in Nat /\ (x - 1) + 1 = x
  BY <1>1
<1> QED BY <1>1, <1>2

-----------------------------------------------------------------------------
\* The last element of a thread is its only one.
LEMMA StartFacts ==
  ASSUME Inv, NEW r \in Records, NEW t \in Threads
  PROVE  /\ Start(r, t) \in 0 .. Len(locks[r])
         /\ Start(r, t) # 0 => t \in Tids(locks[r])
         /\ t \in Tids(locks[r]) =>
              Start(r, t) \in DOMAIN locks[r] /\ locks[r][Start(r, t)].tid = t
         /\ Start(r, t) # 0 => PositionOf(locks[r], t) = Start(r, t)
<1> DEFINE own == {n \in DOMAIN locks[r] : locks[r][n].tid = t}
<1>1. /\ DOMAIN locks[r] = 1 .. Len(locks[r]) /\ Len(locks[r]) \in Nat
      /\ OneEach(locks[r])
  BY ListFacts
<1>2. CASE own = {}
  <2>1. Start(r, t) = 0
    BY <1>2 DEF Start
  <2>2. t \notin Tids(locks[r])
    BY <1>2 DEF Tids
  <2> QED BY <1>1, <2>1, <2>2
<1>3. CASE own # {}
  <2>1. PICK n \in own : TRUE
    BY <1>3
  <2>2. \A m \in own : m = n
    BY <1>1, <2>1 DEF OneEach
  <2>3. n \in 1 .. Len(locks[r])
    BY <1>1, <2>1
  <2>4. \A m \in own : \A i \in own : i <= m
    BY <2>2, <2>3
  <2>5. Start(r, t) = CHOOSE m \in own : \A i \in own : i <= m
    BY <1>3 DEF Start
  <2> HIDE DEF own
  <2>6. Start(r, t) \in own
    BY <2>1, <2>4, <2>5
  <2>7. Start(r, t) = n
    BY <2>2, <2>6
  <2>8. \A m \in DOMAIN locks[r] : locks[r][m].tid = t => m = n
    BY <2>2 DEF own
  <2>9. n \in DOMAIN locks[r] /\ locks[r][n].tid = t
    BY <2>1 DEF own
  <2>10. \A m \in 1 .. n - 1 : locks[r][m].tid # t
    <3>1. \A m \in 1 .. n - 1 : m \in DOMAIN locks[r] /\ m # n
      BY <1>1, <2>3
    <3> QED BY <2>8, <3>1
  <2>11. PositionOf(locks[r], t) = n
    BY <2>8, <2>9, <2>10 DEF PositionOf
  <2> QED BY <2>3, <2>7, <2>9, <2>11 DEF Tids
<1> QED BY <1>2, <1>3

\* The records a thread has an element for.
LEMMA InfoFacts ==
  ASSUME Inv, NEW t \in Threads
  PROVE  /\ info[t] \in Seq(Records)
         /\ DOMAIN info[t] = 1 .. Len(info[t]) /\ Len(info[t]) \in 0 .. 3
         /\ \A j \in DOMAIN info[t] : info[t][j] \in Records /\ t \in Tids(locks[info[t][j]])
<1> DEFINE k == Entered(t)
<1>1. k \in 0 .. 3
  BY EnteredRange
<1>2. info[t] = SubSeq(pick[t], 1, k)
  BY DEF Inv, LockTableAgrees, InfoAgrees
<1> HIDE DEF k
<1>3. /\ info[t] \in Seq(Records)
      /\ Len(info[t]) = k
      /\ DOMAIN info[t] = 1 .. k
      /\ \A j \in 1 .. k : info[t][j] = pick[t][j]
  BY <1>1, <1>2, PickFacts, InfoElements
<1>4. ASSUME NEW j \in 1 .. k PROVE info[t][j] \in Records /\ t \in Tids(locks[info[t][j]])
  <2>1. info[t][j] \in Records
    BY <1>3, <1>4, ElementOfSeq
  <2>2. info[t][j] \in FirstOf(t, k)
    BY <1>3 DEF FirstOf
  <2> QED BY <2>1, <2>2 DEF k, Inv, LockTableAgrees, ListAgrees
<1> QED BY <1>1, <1>3, <1>4

\* What the loops of a call go on with is a call again.
LEMMA CallFacts ==
  ASSUME Inv, NEW c \in Calls, c.n # 0
  PROVE  /\ c.r \in Records /\ c.n \in DOMAIN locks[c.r] /\ Owner(c) \in Threads
         /\ NextElement(c) \in Calls
         /\ \A m \in Marks : NextInfo(c, m) \in Calls
         /\ c.j <= Len(info[Owner(c)]) =>
              c.j \in DOMAIN info[Owner(c)] /\ c.j \in 1 .. 3 /\ Called(c) \in Calls
<1> DEFINE u == Owner(c)
<1>1. /\ c.r \in Records /\ c.n \in Nat /\ c.n <= Len(locks[c.r])
      /\ c.j \in Nat \ {0} /\ c.dst \in Threads /\ c.marks \in Marks
      /\ c = [r |-> c.r, n |-> c.n, j |-> c.j, dst |-> c.dst, marks |-> c.marks]
  BY DEF Calls
<1>2. DOMAIN locks[c.r] = 1 .. Len(locks[c.r]) /\ Len(locks[c.r]) \in Nat
  BY <1>1, ListFacts
<1>3. c.n \in DOMAIN locks[c.r]
  BY <1>1, <1>2
<1>4. u \in Threads
  BY <1>1, <1>3, ListFacts DEF Owner
<1>5. NextElement(c) \in Calls
  <2>1. NextElement(c) = [r |-> c.r, n |-> c.n - 1, j |-> 1, dst |-> c.dst, marks |-> c.marks]
    BY <1>1 DEF NextElement
  <2>2. c.n - 1 \in Nat /\ c.n - 1 <= Len(locks[c.r])
    BY <1>1, <1>2
  <2> QED BY <1>1, <2>1, <2>2 DEF Calls
<1>6. ASSUME NEW m \in Marks PROVE NextInfo(c, m) \in Calls
  <2>1. NextInfo(c, m) = [r |-> c.r, n |-> c.n, j |-> c.j + 1, dst |-> c.dst, marks |-> m]
    BY <1>1 DEF NextInfo
  <2> QED BY <1>1, <2>1 DEF Calls
<1>7. ASSUME c.j <= Len(info[u])
      PROVE  c.j \in DOMAIN info[u] /\ c.j \in 1 .. 3 /\ Called(c) \in Calls
  <2> HIDE DEF u
  <2>1. c.j \in DOMAIN info[u] /\ c.j \in 1 .. 3
    BY <1>1, <1>4, <1>7, InfoFacts
  <2>2. info[u][c.j] \in Records
    BY <1>4, <2>1, InfoFacts
  <2>3. Start(info[u][c.j], u) \in Nat /\ Start(info[u][c.j], u) <= Len(locks[info[u][c.j]])
    BY <1>4, <2>2, StartFacts, ListFacts
  <2>4. c.marks \cup {<<u, c.j>>} \in Marks
    BY <1>1, <1>4 DEF Marks
  <2>5. Called(c) = [r |-> info[u][c.j], n |-> Start(info[u][c.j], u), j |-> 1, dst |-> c.dst,
                     marks |-> c.marks \cup {<<u, c.j>>}]
    BY DEF Called, u
  <2> QED BY <1>1, <2>1, <2>2, <2>3, <2>4, <2>5 DEF Calls
<1> QED BY <1>1, <1>3, <1>4, <1>5, <1>6, <1>7

-----------------------------------------------------------------------------
(***************************************************************************)
(* The recursion ends.  A call that follows a record marks it first, and   *)
(* there are at most three for each thread; every other call goes on to    *)
(* the next record or to the element before.                               *)
(***************************************************************************)
Places == Threads \X (1 .. 3)
Unmarked(c) == Cardinality(Places \ c.marks)
InfoLeft(c) == IF c.j <= 4 THEN 4 - c.j ELSE 0

Before(d, c) ==
  \/ Unmarked(d) < Unmarked(c)
  \/ Unmarked(d) = Unmarked(c) /\ d.n < c.n
  \/ Unmarked(d) = Unmarked(c) /\ d.n = c.n /\ InfoLeft(d) < InfoLeft(c)

LEMMA UnmarkedFacts ==
  ASSUME IsFiniteSet(Threads), NEW m
  PROVE  /\ Cardinality(Places \ m) \in Nat
         /\ \A k : m \subseteq k => Cardinality(Places \ k) <= Cardinality(Places \ m)
         /\ \A k, p : m \subseteq k /\ p \in Places /\ p \in k /\ p \notin m =>
                        Cardinality(Places \ k) < Cardinality(Places \ m)
<1>1. IsFiniteSet(Places)
  <2>1. IsFiniteSet(1 .. 3)
    <3>1. 1 \in Int /\ 3 \in Int
      OBVIOUS
    <3> QED BY <3>1, FS_Interval, Zenon
  <2> QED BY <2>1, FS_Product DEF Places
<1>2. \A k : IsFiniteSet(Places \ k) /\ Cardinality(Places \ k) \in Nat
  BY <1>1, FS_Subset, FS_CardinalityType
<1>3. ASSUME NEW k, m \subseteq k
      PROVE  /\ Cardinality(Places \ k) <= Cardinality(Places \ m)
             /\ Cardinality(Places \ k) = Cardinality(Places \ m) => Places \ m = Places \ k
  <2>1. Places \ k \in SUBSET (Places \ m)
    BY <1>3
  <2> QED BY <1>2, <2>1, FS_Subset
<1>4. ASSUME NEW k, NEW p, m \subseteq k, p \in Places, p \in k, p \notin m
      PROVE  Cardinality(Places \ k) < Cardinality(Places \ m)
  <2>1. Places \ m # Places \ k
    BY <1>4
  <2>2. /\ Cardinality(Places \ k) <= Cardinality(Places \ m)
        /\ Cardinality(Places \ k) # Cardinality(Places \ m)
    BY <1>3, <1>4, <2>1
  <2> QED BY <1>2, <2>2
<1> QED BY <1>2, <1>3, <1>4, Zenon

\* The calls that the loops go on with come before, once the marks have not shrunk.
LEMMA SubcallsBefore ==
  ASSUME Inv, IsFiniteSet(Threads), NEW c \in Calls, c.n # 0
  PROVE  /\ Before(NextElement(c), c)
         /\ \A m \in Marks : c.marks \subseteq m /\ c.j <= Len(info[Owner(c)]) =>
                               Before(NextInfo(c, m), c)
         /\ c.j <= Len(info[Owner(c)]) /\ <<Owner(c), c.j>> \notin c.marks =>
              Before(Called(c), c)
<1>1. c.n \in Nat /\ c.j \in Nat /\ c.marks \in Marks
  BY DEF Calls
<1>2. Before(NextElement(c), c)
  BY <1>1, UnmarkedFacts DEF Before, NextElement, Unmarked
<1>3. ASSUME NEW m \in Marks, c.marks \subseteq m, c.j <= Len(info[Owner(c)])
      PROVE  Before(NextInfo(c, m), c)
  <2>1. c.j \in 1 .. 3
    BY <1>3, CallFacts
  <2>2. Cardinality(Places \ m) <= Cardinality(Places \ c.marks)
    BY <1>3, UnmarkedFacts
  <2>3. Cardinality(Places \ m) \in Nat /\ Cardinality(Places \ c.marks) \in Nat
    BY UnmarkedFacts
  <2>4. /\ NextInfo(c, m).marks = m /\ NextInfo(c, m).n = c.n /\ NextInfo(c, m).j = c.j + 1
    BY DEF NextInfo
  <2>5. InfoLeft(NextInfo(c, m)) < InfoLeft(c)
    BY <2>1, <2>4 DEF InfoLeft
  <2> QED BY <1>1, <2>2, <2>3, <2>4, <2>5 DEF Before, Unmarked
<1>4. ASSUME c.j <= Len(info[Owner(c)]), <<Owner(c), c.j>> \notin c.marks
      PROVE  Before(Called(c), c)
  <2> DEFINE p == <<Owner(c), c.j>>
  <2>1. c.j \in 1 .. 3 /\ Owner(c) \in Threads
    BY <1>4, CallFacts
  <2>2. p \in Places
    BY <2>1 DEF Places
  <2>3. Called(c).marks = c.marks \cup {p}
    BY DEF Called
  <2>4. c.marks \subseteq Called(c).marks /\ p \in Called(c).marks /\ p \notin c.marks
    BY <1>4, <2>3
  <2> HIDE DEF p
  <2>5. Cardinality(Places \ Called(c).marks) < Cardinality(Places \ c.marks)
    BY <2>2, <2>4, UnmarkedFacts
  <2> QED BY <2>5 DEF Before, Unmarked
<1> QED BY <1>2, <1>3, <1>4

\* Induction over the calls, for a property given as the set of the calls that have it.
LEMMA SearchInduction ==
  ASSUME Inv, IsFiniteSet(Threads), NEW A,
         \A c \in Calls : (\A d \in Calls : Before(d, c) => d \in A) => c \in A
  PROVE  Calls \subseteq A
<1> DEFINE B == Calls \ A
<1> SUFFICES ASSUME B # {} PROVE FALSE
  OBVIOUS
<1>1. \A c \in B : c \in Calls /\ Unmarked(c) \in Nat /\ c.n \in Nat /\ InfoLeft(c) \in Nat
  <2>1. ASSUME NEW c \in Calls PROVE Unmarked(c) \in Nat /\ c.n \in Nat /\ InfoLeft(c) \in Nat
    <3>1. c.n \in Nat /\ c.j \in Nat
      BY DEF Calls
    <3>2. Unmarked(c) \in Nat
      BY UnmarkedFacts DEF Unmarked
    <3> QED BY <3>1, <3>2 DEF InfoLeft
  <2> QED BY <2>1
<1>2. \A c \in B : \E d \in B : Before(d, c)
  OBVIOUS
<1> HIDE DEF B
<1> DEFINE T == {Unmarked(c) : c \in B}
<1>3. PICK a \in T : \A x \in T : a <= x
  <2>1. T \subseteq Nat /\ T # {}
    BY <1>1
  <2> QED BY <2>1, Smallest
<1> DEFINE B1 == {c \in B : Unmarked(c) = a}
           T1 == {c.n : c \in B1}
<1>4. PICK b \in T1 : \A x \in T1 : b <= x
  <2>1. T1 \subseteq Nat /\ T1 # {}
    BY <1>1, <1>3
  <2> QED BY <2>1, Smallest
<1> DEFINE B2 == {c \in B1 : c.n = b}
           T2 == {InfoLeft(c) : c \in B2}
<1>5. PICK e \in T2 : \A x \in T2 : e <= x
  <2>1. T2 \subseteq Nat /\ T2 # {}
    BY <1>1, <1>4
  <2> QED BY <2>1, Smallest
<1>6. PICK c \in B2 : InfoLeft(c) = e
  BY <1>5
<1>7. PICK d \in B : Before(d, c)
  BY <1>2, <1>6
<1>8. a <= Unmarked(d) /\ a \in Nat /\ b \in Nat /\ e \in Nat
  BY <1>1, <1>3, <1>4, <1>5, <1>7
<1>9. Unmarked(d) = a => b <= d.n
  BY <1>4, <1>7
<1>10. Unmarked(d) = a /\ d.n = b => e <= InfoLeft(d)
  BY <1>5, <1>7
<1>11. /\ Unmarked(c) = a /\ c.n = b /\ InfoLeft(c) = e
       /\ Unmarked(d) \in Nat /\ d.n \in Nat /\ InfoLeft(d) \in Nat
  BY <1>1, <1>6, <1>7
<1> QED BY <1>7, <1>8, <1>9, <1>10, <1>11 DEF Before

-----------------------------------------------------------------------------
(***************************************************************************)
(* The function that the search recurs on exists: it is the limit of the   *)
(* searches cut off after n nested calls, each of which is the body of     *)
(* search applied to the one before.                                       *)
(***************************************************************************)
Results == [found : BOOLEAN, marks : Marks]

\* The body of search, with f for the calls it makes.
SearchStep(f, c) ==
  IF c.n = 0 THEN Result(FALSE, c.marks)
  ELSE IF Owner(c) = c.dst THEN Result(TRUE, c.marks)
  ELSE IF c.j > Len(info[Owner(c)]) THEN f[NextElement(c)]
  ELSE IF <<Owner(c), c.j>> \in c.marks THEN f[NextInfo(c, c.marks)]
  ELSE LET call == f[Called(c)]
       IN  IF call.found THEN call ELSE f[NextInfo(c, call.marks)]

\* No search takes a mark away.
Growing == {f \in [Calls -> Results] : \A c \in Calls : c.marks \subseteq f[c].marks}

LEMMA StepGrows ==
  ASSUME Inv, IsFiniteSet(Threads), NEW c \in Calls, NEW f,
         \A d \in Calls : Before(d, c) => f[d] \in Results /\ d.marks \subseteq f[d].marks
  PROVE  SearchStep(f, c) \in Results /\ c.marks \subseteq SearchStep(f, c).marks
<1>1. c.marks \in Marks /\ c.j \in Nat
  BY DEF Calls
<1>2. CASE c.n = 0 \/ Owner(c) = c.dst
  BY <1>1, <1>2 DEF SearchStep, Result, Results
<1>3. CASE c.n # 0 /\ Owner(c) # c.dst /\ c.j > Len(info[Owner(c)])
  <2>1. SearchStep(f, c) = f[NextElement(c)]
    BY <1>3 DEF SearchStep
  <2>2. NextElement(c) \in Calls /\ NextElement(c).marks = c.marks
    BY <1>3, CallFacts DEF NextElement
  <2>3. Before(NextElement(c), c)
    BY <1>3, SubcallsBefore
  <2> QED BY <2>1, <2>2, <2>3
<1>4. CASE /\ c.n # 0 /\ Owner(c) # c.dst /\ ~(c.j > Len(info[Owner(c)]))
           /\ <<Owner(c), c.j>> \in c.marks
  <2>1. SearchStep(f, c) = f[NextInfo(c, c.marks)]
    BY <1>4 DEF SearchStep
  <2>2. NextInfo(c, c.marks) \in Calls /\ NextInfo(c, c.marks).marks = c.marks
    BY <1>1, <1>4, CallFacts DEF NextInfo
  <2>3. c.j <= Len(info[Owner(c)])
    BY <1>1, <1>4, CallFacts, InfoFacts
  <2>4. Before(NextInfo(c, c.marks), c)
    BY <1>1, <1>4, <2>3, SubcallsBefore
  <2> QED BY <2>1, <2>2, <2>4
<1>5. CASE /\ c.n # 0 /\ Owner(c) # c.dst /\ ~(c.j > Len(info[Owner(c)]))
           /\ <<Owner(c), c.j>> \notin c.marks
  <2> DEFINE call == f[Called(c)]
  <2>1. SearchStep(f, c) = IF call.found THEN call ELSE f[NextInfo(c, call.marks)]
    BY <1>5 DEF SearchStep
  <2>2. c.j <= Len(info[Owner(c)])
    BY <1>1, <1>5, CallFacts, InfoFacts
  <2>3. Called(c) \in Calls /\ c.marks \subseteq Called(c).marks /\ Before(Called(c), c)
    BY <1>5, <2>2, CallFacts, SubcallsBefore DEF Called
  <2>4. call \in Results /\ c.marks \subseteq call.marks
    BY <2>3
  <2>5. call.marks \in Marks
    BY <2>4 DEF Results
  <2> HIDE DEF call
  <2>6. NextInfo(c, call.marks) \in Calls /\ NextInfo(c, call.marks).marks = call.marks
    BY <1>5, <2>5, CallFacts DEF NextInfo
  <2>7. Before(NextInfo(c, call.marks), c)
    BY <1>5, <2>2, <2>4, <2>5, SubcallsBefore
  <2> QED BY <2>1, <2>4, <2>6, <2>7
<1> QED BY <1>2, <1>3, <1>4, <1>5

\* A function can be applied again and again.
LEMMA Iterates ==
  ASSUME NEW V, NEW a \in V, NEW G \in [V -> V]
  PROVE  \E F \in [Nat -> V] : F[0] = a /\ \A n \in Nat : F[n + 1] = G[F[n]]
<1> DEFINE Upto(n, g) == g[0] = a /\ \A k \in 1 .. n : g[k] = G[g[k - 1]]
           A == {n \in Nat : \E g \in [0 .. n -> V] : Upto(n, g)}
           B == {n \in Nat : \A i, j \in Nat : \A g \in [0 .. i -> V], h \in [0 .. j -> V] :
                    Upto(i, g) /\ Upto(j, h) /\ n <= i /\ n <= j => g[n] = h[n]}
           f(n) == CHOOSE g \in [0 .. n -> V] : Upto(n, g)
           F == [n \in Nat |-> f(n)[n]]
<1>1. Nat \subseteq A
  <2>1. 0 \in A
    <3> DEFINE z == [x \in 0 .. 0 |-> a]
    <3>1. z \in [0 .. 0 -> V] /\ Upto(0, z)
      OBVIOUS
    <3> QED BY <3>1
  <2>2. ASSUME NEW n \in Nat, n \in A PROVE n + 1 \in A
    <3>1. PICK g \in [0 .. n -> V] : Upto(n, g)
      BY <2>2
    <3> DEFINE h == [k \in 0 .. n + 1 |-> IF k = n + 1 THEN G[g[n]] ELSE g[k]]
    <3>2. g[n] \in V /\ G[g[n]] \in V
      OBVIOUS
    <3>3. h \in [0 .. n + 1 -> V] /\ h[0] = a
      BY <3>1, <3>2
    <3>4. ASSUME NEW k \in 1 .. n + 1 PROVE h[k] = G[h[k - 1]]
      <4>1. CASE k = n + 1
        BY <4>1
      <4>2. CASE k # n + 1
        <5>1. k \in 1 .. n /\ k - 1 \in 0 .. n /\ k - 1 # n + 1 /\ k \in 0 .. n + 1
          BY <4>2
        <5> QED BY <3>1, <4>2, <5>1
      <4> QED BY <4>1, <4>2
    <3> HIDE DEF h
    <3>5. Upto(n + 1, h)
      BY <3>3, <3>4
    <3> QED BY <3>3, <3>5
  <2> HIDE DEF A
  <2> QED BY <2>1, <2>2, SetInduction
<1>2. Nat \subseteq B
  <2>1. 0 \in B
    OBVIOUS
  <2>2. ASSUME NEW n \in Nat, n \in B PROVE n + 1 \in B
    <3>1. ASSUME NEW i \in Nat, NEW j \in Nat, NEW g \in [0 .. i -> V], NEW h \in [0 .. j -> V],
                 Upto(i, g), Upto(j, h), n + 1 <= i, n + 1 <= j
          PROVE  g[n + 1] = h[n + 1]
      <4>1. n <= i /\ n <= j
        BY <3>1
      <4>2. g[n] = h[n]
        <5> HIDE DEF Upto
        <5> QED BY <2>2, <3>1, <4>1
      <4>3. n + 1 \in 1 .. i /\ n + 1 \in 1 .. j /\ (n + 1) - 1 = n
        BY <3>1
      <4>4. g[n + 1] = G[g[n]] /\ h[n + 1] = G[h[n]]
        BY <3>1, <4>3
      <4> QED BY <4>2, <4>4
    <3> HIDE DEF Upto
    <3> QED BY <3>1
  <2> HIDE DEF B
  <2> QED BY <2>1, <2>2, SetInduction
<1>3. ASSUME NEW n \in Nat PROVE f(n) \in [0 .. n -> V] /\ Upto(n, f(n))
  BY <1>1
<1> HIDE DEF f
<1>4. F \in [Nat -> V]
  <2>1. ASSUME NEW n \in Nat PROVE f(n)[n] \in V
    <3>1. f(n) \in [0 .. n -> V] /\ n \in 0 .. n
      BY <1>3
    <3> QED BY <3>1
  <2> QED BY <2>1
<1>5. F[0] = a
  BY <1>3
<1>6. ASSUME NEW n \in Nat PROVE F[n + 1] = G[F[n]]
  <2> HIDE DEF Upto
  <2>1. n + 1 \in Nat /\ n <= n /\ n <= n + 1
    OBVIOUS
  <2>2. f(n) \in [0 .. n -> V] /\ Upto(n, f(n))
    BY <1>3
  <2>3. f(n + 1) \in [0 .. n + 1 -> V] /\ Upto(n + 1, f(n + 1))
    BY <1>3, <2>1
  <2>4. f(n + 1)[n] = f(n)[n]
    BY <1>2, <2>1, <2>2, <2>3
  <2>5. f(n + 1)[n + 1] = G[f(n + 1)[n]]
    <3>1. n + 1 \in 1 .. n + 1 /\ (n + 1) - 1 = n
      OBVIOUS
    <3> QED BY <2>3, <3>1 DEF Upto
  <2> QED BY <2>1, <2>4, <2>5
<1> HIDE DEF F
<1> QED BY <1>4, <1>5, <1>6

LEMMA SearchEquation ==
  ASSUME Inv, IsFiniteSet(Threads)
  PROVE  search \in Growing /\ \A c \in Calls : search[c] = SearchStep(search, c)
<1> DEFINE a == [c \in Calls |-> Result(FALSE, c.marks)]
           G == [f \in Growing |-> [c \in Calls |-> SearchStep(f, c)]]
<1>1. a \in Growing
  <2>1. \A c \in Calls : c.marks \in Marks
    BY DEF Calls
  <2> QED BY <2>1 DEF Growing, Result, Results
<1>2. G \in [Growing -> Growing]
  <2>1. ASSUME NEW f \in Growing PROVE [c \in Calls |-> SearchStep(f, c)] \in Growing
    <3>1. \A c \in Calls : f[c] \in Results /\ c.marks \subseteq f[c].marks
      BY DEF Growing
    <3>2. \A c \in Calls : SearchStep(f, c) \in Results /\ c.marks \subseteq SearchStep(f, c).marks
      BY <3>1, StepGrows
    <3> QED BY <3>2 DEF Growing
  <2> QED BY <2>1
<1>3. PICK F \in [Nat -> Growing] : F[0] = a /\ \A n \in Nat : F[n + 1] = G[F[n]]
  <2> HIDE DEF a, G
  <2> QED BY <1>1, <1>2, Iterates
<1>4. \A n \in Nat : F[n] \in Growing
  BY <1>3
<1>5. ASSUME NEW n \in Nat, NEW c \in Calls PROVE F[n + 1][c] = SearchStep(F[n], c)
  <2>1. F[n + 1] = G[F[n]]
    BY <1>3
  <2>2. G[F[n]] = [d \in Calls |-> SearchStep(F[n], d)]
    BY <1>4
  <2> QED BY <2>1, <2>2
<1> HIDE DEF a, G
<1> DEFINE From(N, c, x) == \A n \in Nat : N <= n => F[n][c] = x
           S == [c \in Calls |-> CHOOSE x : \E N \in Nat : From(N, c, x)]
           A == {c \in Calls : (\E N \in Nat : From(N, c, S[c])) /\ S[c] = SearchStep(S, c)}
<1>6. ASSUME NEW c \in Calls, NEW N \in Nat, NEW x, From(N, c, x)
      PROVE  S[c] = x
  <2>1. \E y : \E M \in Nat : From(M, c, y)
    BY <1>6
  <2>2. PICK M \in Nat : From(M, c, S[c])
    BY <2>1
  <2>3. N <= N + M /\ M <= N + M /\ N + M \in Nat
    BY <1>6, <2>2
  <2> QED BY <1>6, <2>2, <2>3
<1>7. ASSUME NEW c \in Calls, NEW N \in Nat, From(N, c, S[c])
      PROVE  S[c] \in Results /\ c.marks \subseteq S[c].marks
  <2>1. N \in Nat /\ N <= N /\ F[N] \in Growing
    BY <1>4
  <2>2. F[N][c] = S[c]
    BY <1>7, <2>1
  <2> QED BY <2>1, <2>2 DEF Growing
<1>8. ASSUME NEW c \in Calls, NEW N \in Nat, \A n \in Nat : N <= n => SearchStep(F[n], c) = SearchStep(S, c)
      PROVE  c \in A
  <2> HIDE DEF S
  <2>1. ASSUME NEW n \in Nat, N + 1 <= n PROVE F[n][c] = SearchStep(S, c)
    <3>1. n - 1 \in Nat /\ N <= n - 1 /\ (n - 1) + 1 = n
      BY <2>1
    <3>2. F[(n - 1) + 1][c] = SearchStep(F[n - 1], c)
      BY <1>5, <3>1
    <3> QED BY <1>8, <3>1, <3>2
  <2>2. N + 1 \in Nat /\ From(N + 1, c, SearchStep(S, c))
    BY <2>1
  <2>3. S[c] = SearchStep(S, c)
    BY <1>6, <2>2
  <2> QED BY <2>2, <2>3
<1>9. ASSUME NEW c \in Calls, \A d \in Calls : Before(d, c) => d \in A
      PROVE  c \in A
  <2>1. \A d \in Calls : Before(d, c) => \E N \in Nat : From(N, d, S[d])
    BY <1>9
  <2>2. \A d \in Calls : Before(d, c) => S[d] \in Results /\ d.marks \subseteq S[d].marks
    <3> HIDE DEF From, S, A
    <3> QED BY <1>7, <2>1
  <2> HIDE DEF S, A
  <2>3. c.marks \in Marks /\ c.j \in Nat /\ (c.n # 0 => Len(info[Owner(c)]) \in Nat)
    BY CallFacts, InfoFacts DEF Calls
  <2>4. CASE c.n = 0 \/ Owner(c) = c.dst
    <3>1. \A n \in Nat : SearchStep(F[n], c) = SearchStep(S, c)
      BY <2>4 DEF SearchStep
    <3>2. 0 \in Nat
      OBVIOUS
    <3> QED BY <1>8, <3>1, <3>2
  <2>5. CASE c.n # 0 /\ Owner(c) # c.dst /\ c.j > Len(info[Owner(c)])
    <3>1. NextElement(c) \in Calls /\ Before(NextElement(c), c)
      BY <2>5, CallFacts, SubcallsBefore
    <3>2. PICK N \in Nat : From(N, NextElement(c), S[NextElement(c)])
      BY <2>1, <3>1
    <3>3. \A n \in Nat : N <= n => SearchStep(F[n], c) = SearchStep(S, c)
      BY <2>5, <3>2 DEF SearchStep
    <3> QED BY <1>8, <3>3
  <2>6. CASE /\ c.n # 0 /\ Owner(c) # c.dst /\ ~(c.j > Len(info[Owner(c)]))
             /\ <<Owner(c), c.j>> \in c.marks
    <3> DEFINE d == NextInfo(c, c.marks)
    <3>1. d \in Calls /\ Before(d, c)
      BY <2>3, <2>6, CallFacts, SubcallsBefore
    <3>2. \A f : SearchStep(f, c) = f[d]
      BY <2>6 DEF SearchStep
    <3> HIDE DEF d
    <3>3. PICK N \in Nat : From(N, d, S[d])
      BY <2>1, <3>1
    <3>4. \A n \in Nat : N <= n => SearchStep(F[n], c) = SearchStep(S, c)
      BY <3>2, <3>3
    <3> QED BY <1>8, <3>4
  <2>7. CASE /\ c.n # 0 /\ Owner(c) # c.dst /\ ~(c.j > Len(info[Owner(c)]))
             /\ <<Owner(c), c.j>> \notin c.marks
    <3> DEFINE d == Called(c)
               x == S[d]
               e == NextInfo(c, x.marks)
    <3>1. d \in Calls /\ Before(d, c) /\ c.marks \subseteq d.marks
      BY <2>3, <2>7, CallFacts, SubcallsBefore DEF Called
    <3>2. x \in Results /\ c.marks \subseteq x.marks /\ x.marks \in Marks
      BY <2>2, <3>1 DEF Results
    <3>3. e \in Calls /\ Before(e, c)
      <4> HIDE DEF x
      <4> QED BY <2>3, <2>7, <3>2, CallFacts, SubcallsBefore
    <3>4. \A f : f[d] = x => SearchStep(f, c) = IF x.found THEN x ELSE f[e]
      BY <2>7 DEF SearchStep
    <3>5. PICK N \in Nat : From(N, d, S[d])
      BY <2>1, <3>1
    <3>6. PICK M \in Nat : From(M, e, S[e])
      BY <2>1, <3>3
    <3> HIDE DEF d, e
    <3>7. ASSUME NEW n \in Nat, N + M <= n PROVE SearchStep(F[n], c) = SearchStep(S, c)
      <4>1. N <= n /\ M <= n
        BY <3>7
      <4>2. F[n][d] = x /\ F[n][e] = S[e]
        BY <3>5, <3>6, <4>1
      <4> QED BY <3>4, <4>2
    <3>8. N + M \in Nat
      OBVIOUS
    <3> QED BY <1>8, <3>7, <3>8
  <2> QED BY <2>4, <2>5, <2>6, <2>7
<1>10. Calls \subseteq A
  <2> HIDE DEF A
  <2> QED BY <1>9, SearchInduction
<1>11. S = [c \in Calls |-> SearchStep(S, c)]
  <2>1. \A c \in Calls : S[c] = SearchStep(S, c)
    BY <1>10
  <2> QED BY <2>1
<1> HIDE DEF S, A
<1>12. search = [c \in Calls |-> SearchStep(search, c)]
  BY <1>11 DEF search, SearchStep
<1>13. search \in Growing
  <2> DEFINE B == {c \in Calls : search[c] \in Results /\ c.marks \subseteq search[c].marks}
  <2>1. ASSUME NEW c \in Calls, \A d \in Calls : Before(d, c) => d \in B PROVE c \in B
    BY <1>12, <2>1, StepGrows
  <2>2. Calls \subseteq B
    <3> HIDE DEF B
    <3> QED BY <2>1, SearchInduction
  <2> QED BY <1>12, <2>2 DEF Growing
<1> QED BY <1>12, <1>13

-----------------------------------------------------------------------------
(***************************************************************************)
(* What the search finds.  A mark stands for a promise: when the whole     *)
(* search fails, every record it marked was scanned from the thread that   *)
(* the mark is for, all threads before it have all their records marked,   *)
(* and none of them is the thread looked for.                              *)
(***************************************************************************)

\* The first n threads of the list of record r.
Prefix(r, n) == {locks[r][m].tid : m \in 1 .. n}

\* Nothing of the threads in U is left to follow, and dst is not among them.
Exhausted(U, dst, marks) ==
  \A u \in U : u # dst /\ \A j \in DOMAIN info[u] : <<u, j>> \in marks

\* The marks of new have been followed.
Followed(new, dst, marks) ==
  \A p \in new :
    /\ p[1] \in Threads /\ p[2] \in DOMAIN info[p[1]]
    /\ LET r == info[p[1]][p[2]] IN Exhausted(Prefix(r, Start(r, p[1])), dst, marks)

\* What the call c may return.
Found(c) ==
  \A C \in SUBSET Threads : Closed(C) /\ Prefix(c.r, c.n) \subseteq C => c.dst \in C

NotFound(c, marks) ==
  /\ Exhausted(Prefix(c.r, c.n - 1), c.dst, marks)
  /\ c.n # 0 => /\ Owner(c) # c.dst
                /\ \A j \in DOMAIN info[Owner(c)] : c.j <= j => <<Owner(c), j>> \in marks
  /\ Followed(marks \ c.marks, c.dst, marks)

Right(c, res) == IF res.found THEN Found(c) ELSE NotFound(c, res.marks)

LEMMA MoreMarks ==
  ASSUME NEW U, NEW dst, NEW m, NEW k, m \subseteq k
  PROVE  /\ Exhausted(U, dst, m) => Exhausted(U, dst, k)
         /\ Followed(U, dst, m) => Followed(U, dst, k)
<1>1. \A W : Exhausted(W, dst, m) => Exhausted(W, dst, k)
  BY DEF Exhausted
<1> QED BY <1>1, Zenon DEF Followed

\* The list before an element is the list before the one before it, and that one.
LEMMA PrefixGrows ==
  ASSUME NEW r, NEW n \in Nat, n # 0
  PROVE  Prefix(r, n) = Prefix(r, n - 1) \cup {locks[r][n].tid}
<1>1. \A m \in 1 .. n : m \in 1 .. n - 1 \/ m = n
  OBVIOUS
<1>2. n \in 1 .. n /\ \A m \in 1 .. n - 1 : m \in 1 .. n
  OBVIOUS
<1> QED BY <1>1, <1>2 DEF Prefix

\* A thread in whose list a call goes on is visited from its owner.
LEMMA PrefixVisited ==
  ASSUME Inv, NEW u \in Threads, NEW j \in DOMAIN info[u]
  PROVE  Prefix(info[u][j], Start(info[u][j], u)) \subseteq Visits(u)
<1> DEFINE r == info[u][j]
<1>1. r \in Records /\ u \in Tids(locks[r])
  BY InfoFacts
<1>2. r \in {info[u][n] : n \in DOMAIN info[u]}
  OBVIOUS
<1> HIDE DEF r
<1>3. Start(r, u) # 0
  BY <1>1, ListFacts, StartFacts
<1>4. PositionOf(locks[r], u) = Start(r, u)
  BY <1>1, <1>3, StartFacts
<1>5. Prefix(r, Start(r, u)) \subseteq Visits(u)
  BY <1>2, <1>4 DEF Visits, Prefix
<1> QED BY <1>5 DEF r

\* Each step of a call is right when the calls it goes on with are.
LEMMA StepRight ==
  ASSUME Inv, IsFiniteSet(Threads), NEW c \in Calls,
         \A d \in Calls : Before(d, c) => Right(d, search[d])
  PROVE  Right(c, search[c])
<1> DEFINE u == Owner(c)
           S == search[c]
<1>1. S = SearchStep(search, c) /\ \A d \in Calls : search[d] \in Results /\ d.marks \subseteq search[d].marks
  BY SearchEquation DEF Growing
<1>2. /\ c.r \in Records /\ c.n \in Nat /\ c.n <= Len(locks[c.r]) /\ c.j \in Nat \ {0}
      /\ c.dst \in Threads /\ c.marks \in Marks
  BY DEF Calls
<1>3. c.n # 0 => /\ u \in Threads /\ Len(info[u]) \in 0 .. 3 /\ DOMAIN info[u] = 1 .. Len(info[u])
                 /\ Prefix(c.r, c.n) = Prefix(c.r, c.n - 1) \cup {u}
  BY <1>2, CallFacts, InfoFacts, PrefixGrows DEF Owner
<1>4. CASE c.n = 0
  <2>1. S = Result(FALSE, c.marks)
    BY <1>1, <1>4 DEF SearchStep
  <2>2. ~S.found /\ S.marks = c.marks
    BY <2>1 DEF Result
  <2>3. Prefix(c.r, c.n - 1) = {}
    BY <1>4 DEF Prefix
  <2> HIDE DEF S
  <2>4. NotFound(c, S.marks)
    BY <1>4, <2>2, <2>3 DEF NotFound, Exhausted, Followed
  <2> QED BY <2>2, <2>4 DEF S, Right
<1>5. CASE c.n # 0 /\ u = c.dst
  <2>1. S = Result(TRUE, c.marks)
    BY <1>1, <1>5 DEF SearchStep
  <2>2. S.found
    BY <2>1 DEF Result
  <2>3. Found(c)
    BY <1>3, <1>5 DEF Found
  <2> QED BY <2>2, <2>3 DEF Right
<1>6. CASE c.n # 0 /\ u # c.dst /\ c.j > Len(info[u])
  <2> DEFINE d == NextElement(c)
  <2>1. d \in Calls /\ Before(d, c)
    BY <1>6, CallFacts, SubcallsBefore
  <2>2. S = search[d]
    BY <1>1, <1>6 DEF SearchStep
  <2>3. Right(d, S)
    BY <2>1, <2>2
  <2>4. d.r = c.r /\ d.n = c.n - 1 /\ d.j = 1 /\ d.dst = c.dst /\ d.marks = c.marks
    BY DEF NextElement
  <2> HIDE DEF d, S
  <2>5. CASE S.found
    <3>1. Found(d)
      BY <2>3, <2>5 DEF Right
    <3>2. Found(c)
      BY <1>3, <1>6, <2>4, <3>1 DEF Found
    <3> QED BY <2>5, <3>2 DEF S, Right
  <2>6. CASE ~S.found
    <3>1. NotFound(d, S.marks)
      BY <2>3, <2>6 DEF Right
    <3>2. Exhausted(Prefix(c.r, c.n - 1), c.dst, S.marks)
      <4>1. CASE c.n - 1 = 0
        <5>1. Prefix(c.r, c.n - 1) = {}
          BY <4>1 DEF Prefix
        <5> QED BY <5>1 DEF Exhausted
      <4>2. CASE c.n - 1 # 0
        <5>1. Prefix(d.r, d.n) = Prefix(d.r, d.n - 1) \cup {Owner(d)}
          BY <1>2, <1>6, <2>4, <4>2, PrefixGrows DEF Owner
        <5>2. Owner(d) \in Threads
          BY <2>1, <2>4, <4>2, CallFacts
        <5>3. \A j \in DOMAIN info[Owner(d)] : d.j <= j
          BY <2>4, <5>2, InfoFacts
        <5>4. Exhausted(Prefix(d.r, d.n), d.dst, S.marks)
          BY <2>4, <3>1, <4>2, <5>1, <5>3 DEF NotFound, Exhausted
        <5> QED BY <2>4, <5>4
      <4> QED BY <4>1, <4>2
    <3>3. \A j \in DOMAIN info[u] : ~(c.j <= j)
      BY <1>2, <1>3, <1>6
    <3>4. Followed(S.marks \ c.marks, c.dst, S.marks)
      BY <2>4, <3>1 DEF NotFound
    <3>5. NotFound(c, S.marks)
      BY <1>6, <3>2, <3>3, <3>4 DEF NotFound
    <3> QED BY <2>6, <3>5 DEF S, Right
  <2> QED BY <2>5, <2>6
<1>7. CASE c.n # 0 /\ u # c.dst /\ c.j <= Len(info[u]) /\ <<u, c.j>> \in c.marks
  <2> DEFINE d == NextInfo(c, c.marks)
  <2>1. d \in Calls /\ Before(d, c)
    BY <1>2, <1>7, CallFacts, SubcallsBefore
  <2>2. S = search[d]
    BY <1>1, <1>2, <1>3, <1>7 DEF SearchStep
  <2>3. Right(d, S) /\ c.marks \subseteq S.marks
    BY <1>1, <2>1, <2>2
  <2>4. d.r = c.r /\ d.n = c.n /\ d.j = c.j + 1 /\ d.dst = c.dst /\ d.marks = c.marks /\ Owner(d) = u
    BY DEF NextInfo, Owner
  <2> HIDE DEF d, S
  <2>5. CASE S.found
    BY <2>3, <2>4, <2>5 DEF Right, Found, S
  <2>6. CASE ~S.found
    <3>1. NotFound(d, S.marks)
      BY <2>3, <2>6 DEF Right
    <3>2. \A j \in DOMAIN info[u] : c.j <= j => <<u, j>> \in S.marks
      <4>1. \A j \in DOMAIN info[u] : c.j <= j => j = c.j \/ c.j + 1 <= j
        BY <1>2, <1>3, <1>7
      <4> QED BY <1>7, <2>3, <2>4, <3>1, <4>1 DEF NotFound
    <3>3. NotFound(c, S.marks)
      BY <1>7, <2>4, <3>1, <3>2 DEF NotFound
    <3> QED BY <2>6, <3>3 DEF S, Right
  <2> QED BY <2>5, <2>6
<1>8. CASE c.n # 0 /\ u # c.dst /\ c.j <= Len(info[u]) /\ <<u, c.j>> \notin c.marks
  <2> DEFINE r == info[u][c.j]
             d == Called(c)
             x == search[d]
             e == NextInfo(c, x.marks)
  <2>1. d \in Calls /\ Before(d, c)
    BY <1>8, CallFacts, SubcallsBefore
  <2>2. S = IF x.found THEN x ELSE search[e]
    BY <1>1, <1>2, <1>3, <1>8 DEF SearchStep
  <2>3. /\ d.r = r /\ d.n = Start(r, u) /\ d.j = 1 /\ d.dst = c.dst
        /\ d.marks = c.marks \cup {<<u, c.j>>}
    BY DEF Called
  <2>4. Right(d, x) /\ d.marks \subseteq x.marks /\ x.marks \in Marks
    BY <1>1, <2>1 DEF Results
  <2>5. c.j \in DOMAIN info[u] /\ u \in Threads
    BY <1>3, <1>8, CallFacts
  <2>6. e \in Calls /\ Before(e, c)
    <3>1. c.marks \subseteq x.marks
      BY <2>3, <2>4
    <3> HIDE DEF x
    <3> QED BY <1>8, <2>4, <3>1, CallFacts, SubcallsBefore
  <2>7. e.r = c.r /\ e.n = c.n /\ e.j = c.j + 1 /\ e.dst = c.dst /\ e.marks = x.marks /\ Owner(e) = u
    BY DEF NextInfo, Owner
  <2>8. Right(e, search[e]) /\ x.marks \subseteq search[e].marks
    BY <1>1, <2>6, <2>7
  <2>9. Prefix(d.r, d.n) \subseteq Visits(u)
    BY <2>3, <2>5, PrefixVisited
  <2> HIDE DEF d, x, e, r, S
  <2>10. CASE x.found
    <3>1. Found(d)
      BY <2>4, <2>10 DEF Right
    <3>2. Found(c)
      BY <1>3, <1>8, <2>3, <2>9, <3>1 DEF Found, Closed
    <3> QED BY <2>2, <2>10, <3>2 DEF S, Right
  <2>11. CASE ~x.found /\ S.found
    <3>1. S = search[e]
      BY <2>2, <2>11
    <3>2. Found(e)
      BY <2>8, <2>11, <3>1 DEF Right
    <3>3. Found(c)
      BY <2>7, <3>2 DEF Found
    <3> QED BY <2>11, <3>3 DEF S, Right
  <2>12. CASE ~x.found /\ ~S.found
    <3>1. S = search[e]
      BY <2>2, <2>12
    <3>2. NotFound(d, x.marks) /\ NotFound(e, S.marks) /\ x.marks \subseteq S.marks
      BY <2>4, <2>8, <2>12, <3>1 DEF Right
    <3>3. Exhausted(Prefix(r, Start(r, u)), c.dst, x.marks)
      <4>1. CASE d.n = 0
        <5>1. Prefix(r, Start(r, u)) = {}
          BY <2>3, <4>1 DEF Prefix
        <5> QED BY <5>1 DEF Exhausted
      <4>2. CASE d.n # 0
        <5>1. d.n \in Nat
          BY <2>1 DEF Calls
        <5>2. Prefix(d.r, d.n) = Prefix(d.r, d.n - 1) \cup {Owner(d)}
          BY <4>2, <5>1, PrefixGrows DEF Owner
        <5>3. Owner(d) \in Threads
          BY <2>1, <4>2, CallFacts
        <5>4. \A j \in DOMAIN info[Owner(d)] : d.j <= j
          BY <2>3, <5>3, InfoFacts
        <5>5. Exhausted(Prefix(d.r, d.n), d.dst, x.marks)
          BY <3>2, <4>2, <5>2, <5>4 DEF NotFound, Exhausted
        <5> QED BY <2>3, <5>5
      <4> QED BY <4>1, <4>2
    <3>4. \A j \in DOMAIN info[u] : c.j <= j => <<u, j>> \in S.marks
      <4>1. \A j \in DOMAIN info[u] : c.j <= j => j = c.j \/ c.j + 1 <= j
        BY <1>2, <1>3, <1>8
      <4>2. <<u, c.j>> \in S.marks
        BY <2>3, <2>4, <3>2
      <4> QED BY <1>8, <2>7, <3>2, <4>1, <4>2 DEF NotFound
    <3>5. Followed(S.marks \ c.marks, c.dst, S.marks)
      <4>1. Followed(x.marks \ d.marks, c.dst, S.marks)
        BY <2>3, <3>2, MoreMarks DEF NotFound
      <4>2. Followed(S.marks \ x.marks, c.dst, S.marks)
        BY <2>7, <3>2 DEF NotFound
      <4>3. Followed({<<u, c.j>>}, c.dst, S.marks)
        <5>1. Exhausted(Prefix(r, Start(r, u)), c.dst, S.marks)
          BY <3>2, <3>3, MoreMarks
        <5> QED BY <2>5, <5>1 DEF Followed, r
      <4>4. S.marks \ c.marks \subseteq (x.marks \ d.marks) \cup (S.marks \ x.marks) \cup {<<u, c.j>>}
        BY <2>3
      <4> QED BY <4>1, <4>2, <4>3, <4>4, Zenon DEF Followed
    <3>6. NotFound(c, S.marks)
      BY <1>8, <2>7, <3>2, <3>4, <3>5 DEF NotFound
    <3> QED BY <2>12, <3>6 DEF S, Right
  <2> QED BY <2>10, <2>11, <2>12
<1>9. c.n # 0 => c.j > Len(info[u]) \/ c.j <= Len(info[u])
  BY <1>2, <1>3
<1> QED BY <1>4, <1>5, <1>6, <1>7, <1>8, <1>9

\* The search of a request that has to wait, against every closed set of threads.
LEMMA SearchDetects ==
  ASSUME Inv, IsFiniteSet(Threads), NEW x \in Records, NEW dst \in Threads, locks[x] # <<>>
  PROVE  Search(x, dst) = detectDeadlock(x, dst)
<1> DEFINE N == Len(locks[x])
           k == Last(locks[x]).tid
           c == FirstCall(x, dst)
           S == search[c]
<1>1. /\ DOMAIN locks[x] = 1 .. N /\ N \in Nat \ {0}
      /\ k = locks[x][N].tid /\ k \in Threads /\ k \in Tids(locks[x])
  <2>1. DOMAIN locks[x] = 1 .. N /\ N \in Nat /\ locks[x] \in Seq(infoLock(Threads))
    BY ListFacts
  <2>2. N # 0
    BY <2>1, EmptySeq
  <2>3. k = locks[x][N].tid
    BY DEF Last
  <2>4. N \in DOMAIN locks[x]
    BY <2>1, <2>2
  <2> QED BY <2>1, <2>2, <2>3, <2>4, ListFacts DEF Tids
<1>2. Start(x, k) = N
  <2>1. Start(x, k) \in DOMAIN locks[x] /\ locks[x][Start(x, k)].tid = k
    BY <1>1, StartFacts
  <2>2. N \in DOMAIN locks[x] /\ OneEach(locks[x])
    BY <1>1, ListFacts
  <2> QED BY <1>1, <2>1, <2>2 DEF OneEach
<1>3. c = [r |-> x, n |-> N, j |-> 1, dst |-> dst, marks |-> FirstMarks(x, k)]
  BY <1>2 DEF FirstCall
<1>4. Prefix(x, N) = Tids(locks[x])
  BY <1>1 DEF Prefix, Tids
<1>5. \A p \in FirstMarks(x, k) : /\ p[1] = k /\ p[2] \in DOMAIN info[k] /\ info[k][p[2]] = x
                                  /\ p[2] \in Nat
  BY <1>1, InfoFacts DEF FirstMarks
<1>6. FirstMarks(x, k) \in Marks
  BY <1>1, InfoFacts DEF FirstMarks, Marks
<1> HIDE DEF N, k, c
<1>7. c \in Calls
  BY <1>1, <1>3, <1>6 DEF Calls, N
<1>8. Right(c, S)
  <2> DEFINE A == {d \in Calls : Right(d, search[d])}
  <2>1. \A d \in Calls : (\A e \in Calls : Before(e, d) => e \in A) => d \in A
    BY StepRight
  <2>2. Calls \subseteq A
    <3> HIDE DEF A
    <3> QED BY <2>1, SearchInduction
  <2> QED BY <1>7, <2>2
<1>9. Search(x, dst) = S.found /\ S.found \in BOOLEAN
  <2>1. S \in Results
    BY <1>7, SearchEquation DEF Growing
  <2> QED BY <2>1 DEF Search, c, Results
<1> HIDE DEF S
<1>10. CASE S.found
  <2>1. Found(c)
    BY <1>8, <1>10 DEF Right
  <2>2. detectDeadlock(x, dst) = TRUE
    BY <1>3, <1>4, <2>1 DEF Found, detectDeadlock
  <2> QED BY <1>9, <1>10, <2>2
<1>11. CASE ~S.found
  <2>1. NotFound(c, S.marks)
    BY <1>8, <1>11 DEF Right
  <2>2. Exhausted(Prefix(x, N), dst, S.marks)
    <3>1. Prefix(x, N) = Prefix(x, N - 1) \cup {Owner(c)}
      BY <1>1, <1>3, PrefixGrows DEF Owner
    <3>2. \A j \in DOMAIN info[Owner(c)] : 1 <= j
      BY <1>1, <1>3, <1>7, CallFacts, InfoFacts
    <3> QED BY <1>1, <1>3, <2>1, <3>1, <3>2 DEF NotFound, Exhausted
  <2>3. Followed(S.marks, dst, S.marks)
    <3>1. Followed(FirstMarks(x, k), dst, S.marks)
      BY <1>1, <1>2, <1>5, <2>2 DEF Followed
    <3>2. Followed(S.marks \ FirstMarks(x, k), dst, S.marks)
      BY <1>3, <2>1 DEF NotFound
    <3> QED BY <3>1, <3>2, Zenon DEF Followed
  <2> DEFINE C == {u \in Threads : u # dst /\ \A j \in DOMAIN info[u] : <<u, j>> \in S.marks}
  <2>4. Tids(locks[x]) \subseteq C
    <3>1. Tids(locks[x]) \subseteq Threads
      BY ListFacts DEF Tids
    <3> QED BY <1>4, <2>2, <3>1 DEF Exhausted
  <2>5. Closed(C)
    <3>1. ASSUME NEW u \in C, NEW j \in DOMAIN info[u],
                 NEW m \in 1 .. PositionOf(locks[info[u][j]], u)
          PROVE  locks[info[u][j]][m].tid \in C
      <4> DEFINE r == info[u][j]
                 v == locks[r][m].tid
      <4>1. r \in Records /\ u \in Tids(locks[r]) /\ u \in Threads
        BY InfoFacts
      <4>2. /\ Start(r, u) \in 1 .. Len(locks[r]) /\ PositionOf(locks[r], u) = Start(r, u)
            /\ DOMAIN locks[r] = 1 .. Len(locks[r]) /\ Len(locks[r]) \in Nat
        BY <4>1, StartFacts, ListFacts
      <4>3. m \in 1 .. Start(r, u) /\ m \in DOMAIN locks[r]
        BY <4>2
      <4>4. v \in Threads /\ v \in Prefix(r, Start(r, u))
        BY <4>1, <4>3, ListFacts DEF Prefix
      <4>5. Exhausted(Prefix(r, Start(r, u)), dst, S.marks)
        <5>1. <<u, j>> \in S.marks
          BY <3>1
        <5> QED BY <2>3, <5>1 DEF Followed
      <4> HIDE DEF v
      <4>6. v # dst /\ \A i \in DOMAIN info[v] : <<v, i>> \in S.marks
        BY <4>4, <4>5 DEF Exhausted
      <4>7. v \in C
        BY <4>4, <4>6
      <4> QED BY <4>7 DEF v
    <3> HIDE DEF C
    <3> QED BY <3>1 DEF Closed, Visits
  <2>6. dst \notin C
    OBVIOUS
  <2>7. C \in SUBSET Threads
    OBVIOUS
  <2> HIDE DEF C
  <2>8. detectDeadlock(x, dst) = FALSE
    BY <2>4, <2>5, <2>6, <2>7 DEF detectDeadlock
  <2> QED BY <1>9, <1>11, <2>8
<1> QED BY <1>9, <1>10, <1>11

\* The search of locktable.cpp, with its marks, refuses a request exactly when the threads
\* it would wait for wait for it, in every lock table that arises (locktable.cpp:34-109).
THEOREM SearchFinds ==
  ASSUME IsFiniteSet(Threads)
  PROVE  Spec => []SearchAgrees
<1>1. ASSUME Inv PROVE SearchAgrees
  <2> SUFFICES ASSUME NEW t \in Threads, pc[t] = "request", needDetect(Target(t), Reading(t))
               PROVE  Search(Target(t), t) = detectDeadlock(Target(t), t)
    BY DEF SearchAgrees
  <2>1. nth[t] \in 1 .. 3
    BY <1>1, EnteredRange
  <2>2. Target(t) \in Records
    BY <1>1, <2>1, PickFacts DEF Target
  <2>3. locks[Target(t)] # <<>>
    BY DEF needDetect, Shareable, Exclusive
  <2> QED BY <1>1, <2>2, <2>3, SearchDetects
<1> QED BY <1>1, Invariance, PTL
=============================================================================
