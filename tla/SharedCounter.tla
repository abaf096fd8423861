---------------------------- MODULE SharedCounter ----------------------------
(***************************************************************************)
(* lab10, lab6: programs whose threads count on one shared variable.  In   *)
(* lab10 each thread adds NUM_WORK times under a spin lock: "tas"          *)
(* (prac_taslock.cpp), "ttas" (prac_ttaslock.cpp), "clh" (prac_clhlock.    *)
(* cpp).  In lab6 the handlers of two timers count up to a limit, each on  *)
(* its own io thread: "strand" (timer_2thread.cpp with USE_STRAND, and     *)
(* timer_async_arg.cpp for one timer) lets one handler run at a time,      *)
(* "race" (timer_2thread.cpp without, timer_fix_race.cpp) does not.  An    *)
(* increment is a load and a store.                                        *)
(***************************************************************************)
EXTENDS Integers, FiniteSets, Sequences

CONSTANTS
  Threads,
  NUM_WORK,
  TwoTimers, \* the threads that stand for the handlers of the timers
  Limit,     \* the count at which the timers are not set again
  Nodes,     \* the memory for the flags of the queue lock
  NULL

ASSUME CounterAssumption ==
  /\ IsFiniteSet(Threads) /\ Threads # {} /\ IsFiniteSet(Nodes)
  /\ Cardinality(Nodes) > Cardinality(Threads)
  /\ TwoTimers \subseteq Threads /\ Cardinality(TwoTimers) = 2
  /\ NUM_WORK \in Nat \ {0} /\ Limit \in Nat \ {0} /\ NULL \notin Nodes

VARIABLES
  program,
  cnt_global,     \* count in lab6
  lock_object,    \* object_tas, object_ttas; whether a handler of the strand runs
  tail,
  value,          \* value[n]: what flag n holds
  allocated,      \* the flags that have been allocated and not deleted
  flag, before,   \* locals of thread_work and lock, NULL when no longer used
  i,              \* how often a thread has unlocked
  loaded,         \* the count a thread has loaded
  pc, main,
  printed,        \* the counts printed by the handlers
  waiting         \* auxiliary: the queue; a thread enters it with swap, the first leaves with unlock

nodeVars == <<value, allocated>>
queueVars == <<tail, flag, before, waiting>>
vars == <<program, cnt_global, lock_object, nodeVars, queueVars, i, loaded, pc, main, printed>>

Locks == {"tas", "ttas", "clh"}
Timers == {"strand", "race"}

\* tail = new bool: what the first flag holds is left to chance.
Init ==
  /\ program \in Locks \cup Timers
  /\ cnt_global = 0 /\ lock_object = 0
  /\ tail = CHOOSE n \in Nodes : TRUE
  /\ allocated = {tail}
  /\ \E garbage \in BOOLEAN : value = [n \in Nodes |-> n = tail /\ garbage]
  /\ flag = [t \in Threads |-> NULL] /\ before = [t \in Threads |-> NULL]
  /\ i = [t \in Threads |-> 0] /\ loaded = [t \in Threads |-> 0]
  /\ pc = [t \in Threads |->
             IF program \in Timers /\ t \notin TwoTimers THEN "done" ELSE "begin"]
  /\ main = "join"
  /\ printed = <<>> /\ waiting = <<>>

Goto(t, l) == pc' = [pc EXCEPT ![t] = l]

-----------------------------------------------------------------------------
(***************************************************************************)
(* Before the critical section.                                            *)
(***************************************************************************)

\* The next turn of the loop of thread_work, or the expiry of a timer.
Begin(t) ==
  /\ pc[t] = "begin"
  /\ Goto(t, CASE program = "tas" -> "set" [] program = "ttas" -> "look"
               [] program = "clh" -> "new" [] OTHER -> "handler")
  /\ UNCHANGED <<program, cnt_global, lock_object, nodeVars, queueVars, i, loaded, main, printed>>

\* ttas: while(*lock_object == 1) {}
Look(t) ==
  /\ pc[t] = "look" /\ lock_object = 0 /\ Goto(t, "set")
  /\ UNCHANGED <<program, cnt_global, lock_object, nodeVars, queueVars, i, loaded, main, printed>>

\* A store where there should be an exchange (mutant).
SetAnyway(t) ==
  /\ pc[t] = "set" /\ Goto(t, "load")
  /\ lock_object' = 1
  /\ UNCHANGED <<program, cnt_global, nodeVars, queueVars, i, loaded, main, printed>>

\* __sync_lock_test_and_set(lock_object, 1).  When it returns 1 ttas looks again; tas tries
\* again at once, which changes nothing.
TestAndSet(t) ==
  /\ pc[t] = "set" /\ lock_object' = 1
  /\ \/ lock_object = 0 /\ Goto(t, "load")
     \/ lock_object = 1 /\ program = "ttas" /\ Goto(t, "look")
  /\ UNCHANGED <<program, cnt_global, nodeVars, queueVars, i, loaded, main, printed>>

\* A flag that is not set (mutant).
NewFlagClear(t) ==
  /\ pc[t] = "new" /\ Goto(t, "swap")
  /\ \E n \in Nodes \ allocated :
       allocated' = allocated \cup {n} /\ flag' = [flag EXCEPT ![t] = n]
  /\ UNCHANGED <<program, cnt_global, lock_object, value, tail, before, waiting, i, loaded, main,
                 printed>>

\* clh: new bool(true), at any address that is free.
NewFlag(t) ==
  /\ pc[t] = "new" /\ Goto(t, "swap")
  /\ \E n \in Nodes \ allocated :
       /\ allocated' = allocated \cup {n}
       /\ value' = [value EXCEPT ![n] = TRUE]
       /\ flag' = [flag EXCEPT ![t] = n]
  /\ UNCHANGED <<program, cnt_global, lock_object, tail, before, waiting, i, loaded, main, printed>>

\* clh: a load of tail where there should be an exchange (mutant).
LoadTail(t) ==
  /\ pc[t] = "swap" /\ Goto(t, "spin")
  /\ before' = [before EXCEPT ![t] = tail]
  /\ waiting' = Append(waiting, t)
  /\ UNCHANGED <<program, cnt_global, lock_object, nodeVars, tail, flag, i, loaded, main, printed>>

\* clh: before = __sync_lock_test_and_set(&tail, flag).
Swap(t) ==
  /\ pc[t] = "swap" /\ Goto(t, "spin")
  /\ before' = [before EXCEPT ![t] = tail]
  /\ tail' = flag[t]
  /\ waiting' = Append(waiting, t)
  /\ UNCHANGED <<program, cnt_global, lock_object, nodeVars, flag, i, loaded, main, printed>>

\* clh: while(*before == true), then delete before.
Spin(t) ==
  /\ pc[t] = "spin" /\ ~value[before[t]] /\ Goto(t, "load")
  /\ allocated' = allocated \ {before[t]} /\ before' = [before EXCEPT ![t] = NULL]
  /\ UNCHANGED <<program, cnt_global, lock_object, value, tail, flag, waiting, i, loaded, main, printed>>

\* A test that lets the limit through (mutant).
UpToLimit == cnt_global <= Limit

BelowLimit == cnt_global < Limit

\* A wrapped handler runs when no other handler of the strand does; if(count < limit).
Handler(t) ==
  /\ pc[t] = "handler" /\ (program = "strand" => lock_object = 0)
  /\ Goto(t, IF BelowLimit THEN "print" ELSE "done")
  /\ lock_object' = IF program = "strand" /\ BelowLimit THEN 1 ELSE 0
  /\ UNCHANGED <<program, cnt_global, nodeVars, queueVars, i, loaded, main, printed>>

PrintCount(t) ==
  /\ pc[t] = "print" /\ Goto(t, "load")
  /\ printed' = Append(printed, cnt_global)
  /\ UNCHANGED <<program, cnt_global, lock_object, nodeVars, queueVars, i, loaded, main>>

-----------------------------------------------------------------------------
(***************************************************************************)
(* The increment, and what follows.                                        *)
(***************************************************************************)
Load(t) ==
  /\ pc[t] = "load" /\ Goto(t, "store")
  /\ loaded' = [loaded EXCEPT ![t] = cnt_global]
  /\ UNCHANGED <<program, cnt_global, lock_object, nodeVars, queueVars, i, main, printed>>

Store(t) ==
  /\ pc[t] = "store" /\ Goto(t, "unlock")
  /\ cnt_global' = loaded[t] + 1 /\ loaded' = [loaded EXCEPT ![t] = 0]
  /\ UNCHANGED <<program, lock_object, nodeVars, queueVars, i, main, printed>>

AnotherTurn(t) == i[t] + 1 < NUM_WORK

\* A lock word that is cleared while the flag is not (mutant).
ReleaseWord(t) == lock_object' = 0 /\ UNCHANGED <<value, flag, waiting>>

\* unlock; the strand is free when its handler returns.
Release(t) ==
  IF program = "clh"
  THEN /\ value' = [value EXCEPT ![flag[t]] = FALSE] /\ flag' = [flag EXCEPT ![t] = NULL]
       /\ waiting' = Tail(waiting)
       /\ UNCHANGED lock_object
  ELSE lock_object' = 0 /\ UNCHANGED <<value, flag, waiting>>

\* The end of a turn of thread_work; a handler sets its timer again and returns.
Unlock(t) ==
  /\ pc[t] = "unlock" /\ Release(t)
  /\ IF program \in Locks
     THEN i' = [i EXCEPT ![t] = @ + 1] /\ Goto(t, IF AnotherTurn(t) THEN "begin" ELSE "done")
     ELSE Goto(t, "begin") /\ UNCHANGED i
  /\ UNCHANGED <<program, cnt_global, allocated, tail, before, loaded, main, printed>>

\* All joined: the count is printed, and clh deletes the last flag.
Join ==
  /\ main = "join" /\ (\A t \in Threads : pc[t] = "done") /\ main' = "end"
  /\ allocated' = allocated \ {tail}
  /\ UNCHANGED <<program, cnt_global, lock_object, value, queueVars, i, loaded, pc, printed>>

Run(t) ==
  \/ Begin(t) \/ Look(t) \/ TestAndSet(t) \/ NewFlag(t) \/ Swap(t) \/ Spin(t) \/ Handler(t)
  \/ PrintCount(t) \/ Load(t) \/ Store(t) \/ Unlock(t)

Ended == main = "end" /\ UNCHANGED vars

Next == (\E t \in Threads : Run(t)) \/ Join \/ Ended

Spec == Init /\ [][Next]_vars

(***************************************************************************)
(* Fairness: threads run on.  The locks do not promise their turn to the   *)
(* spinning threads, but the others stop after NUM_WORK times.             *)
(***************************************************************************)
FairSpec == Spec /\ WF_vars(Join) /\ \A t \in Threads : WF_vars(Run(t))

-----------------------------------------------------------------------------
TypeOK ==
  /\ program \in Locks \cup Timers /\ cnt_global \in Nat /\ lock_object \in 0 .. 1
  /\ tail \in Nodes /\ value \in [Nodes -> BOOLEAN] /\ allocated \subseteq Nodes
  /\ flag \in [Threads -> Nodes \cup {NULL}] /\ before \in [Threads -> Nodes \cup {NULL}]
  /\ i \in [Threads -> 0 .. NUM_WORK] /\ loaded \in [Threads -> Nat]
  /\ pc \in [Threads -> {"begin", "look", "set", "new", "swap", "spin", "handler", "print",
                         "load", "store", "unlock", "done"}]
  /\ main \in {"join", "end"}
  /\ printed \in Seq(Nat) /\ waiting \in Seq(Threads)

\* Which stages belong to which program; a thread that is not done has turns left.
StagesAgree ==
  \A t \in Threads :
    /\ pc[t] = "set" => program \in {"tas", "ttas"}
    /\ pc[t] \in {"new", "swap", "spin"} => program = "clh"
    /\ pc[t] \in {"handler", "print"} => program \in Timers
    /\ pc[t] = "look" => program = "ttas"
    /\ program \in Locks /\ pc[t] # "done" => i[t] < NUM_WORK

Critical(t) == pc[t] \in {"print", "load", "store", "unlock"}

\* One thread at a time counts, under each of the locks and in the strand
\* (prac_taslock.cpp:12-19, prac_ttaslock.cpp:11-23, prac_clhlock.cpp:12-23).
MutualExclusion ==
  program # "race" => \A t, u \in Threads : Critical(t) /\ Critical(u) => t = u

\* A lock word that is 0 says that nobody is in.
WordAgrees ==
  program \in {"tas", "ttas", "strand"} /\ lock_object = 0 => \A t \in Threads : ~Critical(t)

Queued(t) == pc[t] = "spin" \/ Critical(t)
Owner(t) == pc[t] = "swap" \/ Queued(t)

\* The queue: behind the first all spin, each on the flag of the thread before it, and the
\* flag of the last is the tail (prac_clhlock.cpp:12-33).
QueueAgrees ==
  /\ \A t \in Threads : Queued(t) <=> \E k \in 1 .. Len(waiting) : waiting[k] = t
  /\ \A k, m \in 1 .. Len(waiting) : waiting[k] = waiting[m] => k = m
  /\ \A k \in 2 .. Len(waiting) :
       pc[waiting[k]] = "spin" /\ before[waiting[k]] = flag[waiting[k - 1]]
  /\ waiting # <<>> => tail = flag[waiting[Len(waiting)]]

\* The flags: each owner has one of its own, which is set, nobody has the one the first of
\* the queue spins on, and no other flags are allocated (prac_clhlock.cpp:14-30,48).
FlagsAgree ==
  /\ \A t \in Threads : Owner(t) => flag[t] \in Nodes /\ value[flag[t]]
  /\ \A t, u \in Threads : Owner(t) /\ Owner(u) /\ flag[t] = flag[u] => t = u
  /\ \A t \in Threads : pc[t] = "swap" => flag[t] # tail
  /\ \A t \in Threads : pc[t] = "spin" <=> before[t] \in Nodes
  /\ \A t \in Threads : waiting # <<>> /\ Owner(t) => flag[t] # before[waiting[1]]
  /\ main = "join" =>
       allocated = {tail} \cup {flag[t] : t \in {u \in Threads : Owner(u)}}
                          \cup {before[t] : t \in {u \in Threads : pc[u] = "spin"}}
  /\ main = "end" => allocated = {} /\ \A t \in Threads : pc[t] = "done"

\* One thread at a time counts, and why (prac_taslock.cpp:12-26, prac_ttaslock.cpp:11-30,
\* prac_clhlock.cpp:12-33, timer_2thread.cpp:47-60).
LockInv ==
  /\ TypeOK /\ StagesAgree /\ MutualExclusion /\ WordAgrees
  /\ program = "clh" => QueueAgrees /\ FlagsAgree

\* The increments of a thread, and the turns of thread_work whose increment is done.
Turned(t) == i[t] + (IF pc[t] = "unlock" THEN 1 ELSE 0)
Turns == {x \in Threads \X (1 .. NUM_WORK) : x[2] <= Turned(x[1])}

\* Under a lock the count is the number of these turns, and is not stale when it is stored.
LocksCount ==
  program \in Locks =>
    /\ cnt_global = Cardinality(Turns)
    /\ \A t \in Threads : pc[t] = "store" => loaded[t] = cnt_global
    /\ \A t \in Threads : pc[t] = "done" => i[t] = NUM_WORK

\* In the strand each number is printed before the next, and a handler that goes on is below
\* the limit.
StrandCounts ==
  program = "strand" =>
    /\ cnt_global <= Limit
    /\ Len(printed) = cnt_global + (IF \E t \in Threads : pc[t] \in {"load", "store"} THEN 1 ELSE 0)
    /\ \A n \in 1 .. Len(printed) : printed[n] = n - 1
    /\ \A t \in Threads : pc[t] \in {"print", "load", "store"} => cnt_global < Limit
    /\ \A t \in Threads : pc[t] = "store" => loaded[t] = cnt_global
    /\ \A t \in TwoTimers : pc[t] = "done" => cnt_global = Limit

\* Only t may still increment without another look at the limit.
LastToCount(t) ==
  \A u \in Threads \ {t} : pc[u] \in {"unlock", "begin", "handler", "done"}

\* Without the strand a handler that has passed the test may find the count at the limit, but
\* then the other has not passed it.
RaceCounts ==
  program = "race" =>
    /\ cnt_global <= Limit + 1
    /\ \A t \in Threads \ TwoTimers : pc[t] = "done"
    /\ \A t \in Threads : pc[t] \in {"print", "load"} =>
         cnt_global < Limit \/ (cnt_global = Limit /\ LastToCount(t))
    /\ \A t \in Threads : pc[t] = "store" =>
         loaded[t] < Limit \/ (loaded[t] = Limit /\ cnt_global >= Limit /\ LastToCount(t))
    /\ (\A t \in Threads : pc[t] = "done") => cnt_global >= Limit

\* main prints after the threads have ended.
JoinedAll == main = "end" => \A t \in Threads : pc[t] = "done"

\* The inductive invariant: the types, one thread at a time, the queue and its flags, and what
\* has been counted so far (prac_taslock.cpp:12-44, prac_ttaslock.cpp:11-30,
\* prac_clhlock.cpp:12-33, timer_2thread.cpp:36-81, timer_fix_race.cpp:20-42).
Inv == LockInv /\ LocksCount /\ StrandCounts /\ RaceCounts /\ JoinedAll

\* The queue lock is given in the order of the exchanges on tail (prac_clhlock.cpp:13-16).
FirstComeFirstServed ==
  program = "clh" => \A t \in Threads : Critical(t) => Head(waiting) = t

\* A flag that is read or written has been allocated and not yet deleted, although each is
\* deleted by the thread behind its owner; at the end none is left (prac_clhlock.cpp:14-22,48).
FlagsAreLive ==
  program = "clh" =>
    /\ \A t \in Threads :
         /\ pc[t] = "spin" => before[t] \in allocated
         /\ pc[t] = "swap" \/ Critical(t) => flag[t] \in allocated
    /\ main = "end" => allocated = {}

\* What is printed at the end.  Under a lock no increment is lost.  In the strand the timers
\* print and count each number once.  For the timers without it ("race") lost increments,
\* numbers printed twice and a count of one beyond the limit are accepted: all that is said
\* is where the count stops
\* (prac_taslock.cpp:40, timer_2thread.cpp:41,51-53,81, timer_fix_race.cpp:20-42).
FinalCount ==
  main = "end" =>
    CASE program \in Locks -> cnt_global = NUM_WORK * Cardinality(Threads)
      [] program = "strand" -> cnt_global = Limit /\ printed = [n \in 1 .. Limit |-> n - 1]
      [] program = "race" -> cnt_global \in Limit .. Limit + 1

\* The first flag of the queue lock, allocated by main and not by a thread.
FirstFlagSet == program = "clh" /\ value[tail] /\ \A t \in Threads : flag[t] = NULL

\* The program ends (prac_clhlock.cpp:14,37, prac_taslock.cpp:13, prac_ttaslock.cpp:12-17).
\* It says nothing of the queue lock whose first flag happens to be set, under which all wait.
ProgramEnds == <>(main = "end" \/ FirstFlagSet)

=============================================================================
