------------------------------- MODULE Database -------------------------------
(***************************************************************************)
(* project2: class database and the worker threads of main.cpp.  A         *)
(* transaction read-locks record i, write-locks j and k, and releases all  *)
(* three when it commits.  The global mutex protects the lock table and    *)
(* commit_id; the records are read and written outside it, under the       *)
(* record locks alone.                                                     *)
(***************************************************************************)
EXTENDS LockTable, TLC

CONSTANTS
  txnNum,      \* E: the commits after which the threads stop
  INIT_VALUE,  \* initial value of every record
  LLONG_MAX    \* largest value of a record

ASSUME DatabaseAssumption ==
  /\ txnNum \in Nat
  /\ LLONG_MAX \in Nat
  /\ INIT_VALUE \in (-LLONG_MAX - 1) .. LLONG_MAX

VARIABLES
  records,    \* the records
  commit_id,
  log,        \* log[t]: the lines written to thread t's file
  pick,       \* the records <<i, j, k>> of each thread's transaction
  nth,        \* which of the three is being locked or accessed; 4: all are done
  saved       \* the locals vi, vj, vk of each thread

clientVars == <<records, commit_id, log, pick, saved>>
lockVars == <<locks, info>>
vars == <<lockVars, clientVars, gM, pc, nth>>

(***************************************************************************)
(* "loop"    work() is about to read commit_id    "done"   work() ended    *)
(* "lock"    wants gM, for the nth request or for the commit               *)
(* "request" has it, for a request                "release" for the commit *)
(* "spin"    waits for the nth lock, wants gM     "poll"   has it          *)
(* "read"    was granted the nth lock             "write"  has read it     *)
(* "finish"  has released all locks, still owns gM                         *)
(***************************************************************************)
Stages == {"loop", "done", "lock", "request", "spin", "poll", "read", "write",
           "release", "finish"}
OwnsMutex == {"request", "poll", "release", "finish"}

\* The writes of transactions that have neither committed nor been undone:
\* thread t has changed its nth record, n \in 2..3, and holds the old value.
Uncommitted(r) ==
  {w \in Threads \X (2 .. 3) : w[2] < nth[w[1]] /\ pick[w[1]][w[2]] = r}

\* The records as they would be if all those writes were undone.
Committed ==
  [r \in Records |->
     IF Uncommitted(r) = {} THEN records[r]
     ELSE LET w == CHOOSE w \in Uncommitted(r) : TRUE IN saved[w[1]][w[2]]]

Serial == INSTANCE SerialDatabase WITH db <- Committed

Picks == Serial!Picks
LongLong == Serial!LongLong
NoLocals == [n \in 1 .. 3 |-> 0]

Init ==
  /\ LockTableInit
  /\ gM = Nobody
  /\ records = [r \in Records |-> INIT_VALUE]
  /\ commit_id = 0
  /\ log = [t \in Threads |-> <<>>]
  /\ pc = [t \in Threads |-> "loop"]
  /\ pick \in [Threads -> Picks]
  /\ nth = [t \in Threads |-> 1]
  /\ saved = [t \in Threads |-> NoLocals]

-----------------------------------------------------------------------------
GotoNth(t, l, n) == Goto(t, l) /\ nth' = [nth EXCEPT ![t] = n]

\* The record and the mode of the request in progress: i for reading, j and k
\* for writing.
Target(t) == pick[t][nth[t]]
Reading(t) == nth[t] = 1

\* transaction() returns: the locals are gone.
Return(t) ==
  /\ GotoNth(t, "loop", 1)
  /\ saved' = [saved EXCEPT ![t] = NoLocals]
  /\ gM' = Nobody

\* while(db->getCommitId() < E): commit_id is read without the mutex.
CheckCommitId(t) ==
  /\ pc[t] = "loop"
  /\ Goto(t, IF commit_id < txnNum THEN "lock" ELSE "done")
  /\ UNCHANGED <<lockVars, clientVars, gM, nth>>

\* globalMutex->lock(), and gM->lock() in the waiting loops of rwlock.
LockGlobal(t) ==
  /\ gM = Nobody
  /\ \/ pc[t] = "lock" /\ Goto(t, IF nth[t] = 4 THEN "release" ELSE "request")
     \/ pc[t] = "spin" /\ Goto(t, "poll")
  /\ gM' = t
  /\ UNCHANGED <<lockVars, clientVars, nth>>

\* readlockRecord or writelockRecord goes ahead; the caller unlocks gM when it
\* is granted, the waiting loop does when it is not.
Request(t) ==
  /\ pc[t] = "request"
  /\ ~Refused(t, Target(t), Reading(t))
  /\ LockRecord(t, Target(t), Reading(t))
  /\ Goto(t, IF needDetect(Target(t), Reading(t)) THEN "spin" ELSE "read")
  /\ gM' = Nobody
  /\ UNCHANGED <<clientVars, nth>>

\* An abort that leaves the write to j in place (mutant).
AbortWithoutUndo(t) ==
  /\ pc[t] = "request"
  /\ Refused(t, Target(t), Reading(t))
  /\ UnlockRecords(t, SubSeq(pick[t], 1, nth[t] - 1))
  /\ Return(t)
  /\ UNCHANGED <<records, commit_id, log, pick>>

\* The detection refuses the request: undo the write to j, release the locks
\* held, return false.  work() tries again with the same three records.
Abort(t) ==
  /\ pc[t] = "request"
  /\ Refused(t, Target(t), Reading(t))
  /\ UnlockRecords(t, SubSeq(pick[t], 1, nth[t] - 1))
  /\ records' = IF nth[t] = 3 THEN [records EXCEPT ![pick[t][2]] = saved[t][2]] ELSE records
  /\ Return(t)
  /\ UNCHANGED <<commit_id, log, pick>>

\* One turn of a waiting loop of rwlock.
Poll(t) ==
  /\ pc[t] = "poll"
  /\ IF MayGo(t, Target(t), Reading(t))
     THEN GrantRecord(t, Target(t)) /\ Goto(t, "read")
     ELSE UNCHANGED lockVars /\ Goto(t, "spin")
  /\ gM' = Nobody
  /\ UNCHANGED <<clientVars, nth>>

\* vi = records[i], vj = records[j] or vk = records[k].
ReadRecord(t) ==
  /\ pc[t] = "read"
  /\ saved' = [saved EXCEPT ![t][nth[t]] = records[Target(t)]]
  /\ IF Reading(t) THEN GotoNth(t, "lock", 2) ELSE Goto(t, "write") /\ UNCHANGED nth
  /\ UNCHANGED <<lockVars, gM, records, commit_id, log, pick>>

\* records[j] += vi + 1 or records[k] -= vi.
WriteRecord(t) ==
  /\ pc[t] = "write"
  /\ records' = [records EXCEPT ![Target(t)] =
                   IF nth[t] = 2 THEN Serial!AddRead(@, saved[t][1])
                                 ELSE Serial!SubRead(@, saved[t][1])]
  /\ GotoNth(t, "lock", nth[t] + 1)
  /\ UNCHANGED <<lockVars, gM, commit_id, log, pick, saved>>

\* A release phase that gives the mutex back too early (mutant).
ReleaseMutexToo(t) ==
  /\ pc[t] = "release"
  /\ UnlockRecords(t, pick[t])
  /\ commit_id' = commit_id + 1
  /\ Goto(t, "finish")
  /\ gM' = Nobody
  /\ UNCHANGED <<records, log, pick, nth, saved>>

\* The release phase: all three locks, then commit_id++.
Release(t) ==
  /\ pc[t] = "release"
  /\ UnlockRecords(t, pick[t])
  /\ commit_id' = commit_id + 1
  /\ Goto(t, "finish")
  /\ UNCHANGED <<gM, records, log, pick, nth, saved>>

\* The commit counts: log it, return true, and work() picks three new records.
LogCommit(t) ==
  /\ pc[t] = "finish"
  /\ commit_id <= txnNum
  /\ log' = [log EXCEPT ![t] = Append(@, Serial!Line(commit_id, pick[t], records))]
  /\ \E p \in Picks : pick' = [pick EXCEPT ![t] = p]
  /\ Return(t)
  /\ UNCHANGED <<lockVars, records, commit_id>>

\* One commit too many: undo both writes, although the locks have been given
\* back already, and return false.
UndoCommit(t) ==
  /\ pc[t] = "finish"
  /\ commit_id > txnNum
  /\ records' = [records EXCEPT ![pick[t][2]] = saved[t][2], ![pick[t][3]] = saved[t][3]]
  /\ Return(t)
  /\ UNCHANGED <<lockVars, commit_id, log, pick>>

Finished == (\A t \in Threads : pc[t] = "done") /\ UNCHANGED vars

Step(t) ==
  \/ CheckCommitId(t) \/ Request(t) \/ Abort(t) \/ Poll(t)
  \/ ReadRecord(t) \/ WriteRecord(t) \/ Release(t) \/ LogCommit(t) \/ UndoCommit(t)

Next == (\E t \in Threads : LockGlobal(t) \/ Step(t)) \/ Finished

Spec == Init /\ [][Next]_vars

(***************************************************************************)
(* Fairness: a running thread runs on, and a thread that wants gM, which   *)
(* the others take and release again and again, gets it in the end (see    *)
(* RWLock).                                                                *)
(***************************************************************************)
FairSpec == Spec /\ \A t \in Threads : WF_vars(Step(t)) /\ SF_vars(LockGlobal(t))

-----------------------------------------------------------------------------
\* The stages a thread is at for each nth.
NthAgrees(t) ==
  /\ pc[t] \in {"loop", "done"} => nth[t] = 1
  /\ pc[t] \in {"request", "spin", "poll", "read"} => nth[t] \in 1 .. 3
  /\ pc[t] = "write" => nth[t] \in 2 .. 3
  /\ pc[t] \in {"release", "finish"} => nth[t] = 4

TypeOK ==
  /\ LockTableTypeOK
  /\ gM \in Threads \cup {Nobody}
  /\ records \in [Records -> LongLong]
  /\ commit_id \in Nat
  /\ log \in [Threads -> Seq([id : Nat, pick : Picks, values : [1 .. 3 -> LongLong]])]
  /\ pick \in [Threads -> Picks]
  /\ nth \in [Threads -> 1 .. 4]
  /\ pc \in [Threads -> Stages]
  /\ \A t \in Threads : NthAgrees(t)
  /\ saved \in [Threads -> [1 .. 3 -> LongLong]]

\* How many elements thread t has in the waiting lists, from where it is.
Entered(t) ==
  IF pc[t] \in {"loop", "done", "finish"} THEN 0
  ELSE IF pc[t] \in {"lock", "request", "release"} THEN nth[t] - 1
  ELSE nth[t]

\* How many of them are granted: all, unless it waits for the last one.
GrantedTo(t) == IF pc[t] \in {"spin", "poll"} THEN nth[t] - 1 ELSE Entered(t)

\* The first n records of the transaction of thread t.
FirstOf(t, n) == {pick[t][m] : m \in 1 .. n}

Held(t) == FirstOf(t, GrantedTo(t))

\* info lists the records of a thread in order.
InfoAgrees(t) == info[t] = SubSeq(pick[t], 1, Entered(t))

\* The waiting list of a record holds one element for each thread that has asked
\* for the record, for reading if it is the first of its transaction, marked
\* when it has been granted.
ListAgrees(r) ==
  /\ OneEach(locks[r])
  /\ GrantedFirst(locks[r])
  /\ \A t \in Threads : t \in Tids(locks[r]) <=> r \in FirstOf(t, Entered(t))
  /\ \A t \in Threads : \A n \in DOMAIN locks[r] :
       locks[r][n].tid = t => /\ locks[r][n].isRead <=> r = pick[t][1]
                              /\ locks[r][n].isLocked <=> r \in Held(t)

\* The lock table agrees with the progress of the threads, although every
\* release pops the oldest element of info unseen (locktable.cpp:116,123).  In
\* particular a thread that aborted leaves nothing behind.
LockTableAgrees ==
  /\ \A t \in Threads : InfoAgrees(t)
  /\ \A r \in Records : ListAgrees(r)

\* A record locked for writing by one transaction is locked by no other, from
\* the grant to the release: the accesses outside the mutex cannot collide
\* (database.cpp:28,37-38,49-50).
WritersExclude ==
  \A t, u \in Threads : t # u => \A n \in 2 .. 3 : pick[t][n] \in Held(t) => pick[t][n] \notin Held(u)

\* Strict two-phase locking at work: the committed transactions are a serial
\* execution in commit-id order, with the log lines of that execution, whatever
\* was aborted, undone or overtaken meanwhile (database.cpp:30-69).
Serializable == Serial!SerialSpec

\* When all threads have ended, exactly txnNum commits are logged: the last
\* ones compete for the remaining ids and the losers are undone
\* (database.cpp:57-66, main.cpp:19).
ExactlyE ==
  (\A t \in Threads : pc[t] = "done") => Cardinality(Serial!Lines) = txnNum

\* A request that has to wait is granted in the end: no deadlock goes
\* undetected, every holder commits or aborts, and no waiting thread misses its
\* turn (rwlock.cpp:14-29,42-48, locktable.cpp:34-53).
WaitersGranted == \A t \in Threads : (pc[t] = "spin") ~> (pc[t] = "read")

\* All threads end, so that main() can join them, unless transactions are refused for
\* ever: a refused one starts again at once with the same records, and two that read one
\* record can refuse each other in turn, since the search takes the second reader of a
\* list to wait for the first (main.cpp:19-28,52-55, locktable.cpp:41).
EndsUnlessRefused ==
  <>(\A t \in Threads : pc[t] = "done") \/ []<><<\E t \in Threads : Abort(t)>>_vars
=============================================================================
