------------------------------ MODULE PrimePool ------------------------------
(***************************************************************************)
(* lab4, lab6, lab7: programs that count the primes of ranges with worker  *)
(* threads.  "join" (lab4/prime_mt.cpp) creates the workers anew for every *)
(* range; "lab4" and "lab6" (prime_cond.cpp) keep them and wake them with  *)
(* a condition variable.  In lab6 a worker goes to sleep with the mutex,   *)
(* under which it has stored its result; in lab4 it tests without it.      *)
(* Loads and stores of the shared variables are steps of their own where   *)
(* another thread can tell.  The input is one of Inputs.                   *)
(***************************************************************************)
EXTENDS Integers, Sequences, FiniteSets

CONSTANTS
  NUM_THREAD,
  Inputs,       \* sequences of ranges, each <<range_start, range_end>>
  MaxSpurious,  \* bound on wake-ups without a broadcast
  Nobody        \* owner of the free mutex

Workers == 0 .. NUM_THREAD - 1

ASSUME PrimePoolAssumption ==
  /\ NUM_THREAD \in Nat \ {0} /\ MaxSpurious \in Nat /\ Nobody \notin Workers
  /\ \A r \in Inputs : r \in Seq(Nat \X Nat)

VARIABLES
  program, ranges,
  round,        \* how many ranges have been read
  main,
  range_start, range_end,
  is_done,      \* lab6
  cond, thread_work,  \* lab4
  thread_ret,
  mutex,
  pc,           \* where each worker is
  start, cnt,   \* its locals
  printed,      \* the counts of primes printed
  spurious, missed, stale  \* auxiliary: see WakeSpuriously, Sleep, TestWork

input == <<program, ranges>>
range == <<range_start, range_end>>
workVars == <<cond, thread_work>>
locals == <<start, cnt>>
history == <<spurious, missed, stale>>
vars == <<input, round, main, range, is_done, workVars, thread_ret, mutex, pc, locals, printed,
          history>>

Start(programs) ==
  /\ program \in programs /\ ranges \in Inputs
  /\ round = 0 /\ main = IF program = "join" THEN "input" ELSE "create"
  /\ range_start = 0 /\ range_end = 0
  /\ is_done = FALSE /\ cond = NUM_THREAD
  /\ thread_work = [w \in Workers |-> 0] /\ thread_ret = [w \in Workers |-> 0]
  /\ mutex = Nobody
  /\ pc = [w \in Workers |-> "new"]
  /\ start = [w \in Workers |-> 0] /\ cnt = [w \in Workers |-> 0]
  /\ printed = <<>>
  /\ spurious = 0 /\ missed = FALSE /\ stale = FALSE

Init == Start({"join", "lab4", "lab6"})

IsPrime(n) == n >= 2 /\ \A i \in 2 .. n : i * i <= n => n % i # 0

\* The primes in start .. end - 1.
CountPrimes(first, end) == Cardinality({n \in first .. end - 1 : IsPrime(n)})

\* Division rounds towards zero: a range may end before it begins.
Share(a, b) ==
  IF b >= a THEN (b - a + 1) \div NUM_THREAD ELSE -((a - b - 1) \div NUM_THREAD)

\* Where the part of worker w ends; the last takes what the division leaves.
EndOfPart(w, a, b) == IF w = NUM_THREAD - 1 THEN b + 1 ELSE a + Share(a, b) * (w + 1)

-----------------------------------------------------------------------------
(***************************************************************************)
(* The main thread.                                                        *)
(***************************************************************************)
Go(l) == main' = l

\* A thread that is not waited for (mutant).
NotWaitedFor(w) == TRUE

Reported(w) == thread_ret[w] = -1

\* lab6 waits for each thread to store -1 before it creates the next.
Create ==
  /\ main = "create"
  /\ \/ /\ program = "lab6"
        /\ \E w \in Workers :
             /\ pc[w] = "new"
             /\ \A u \in 0 .. w - 1 : pc[u] # "new" /\ (u = w - 1 => Reported(u))
             /\ pc' = [pc EXCEPT ![w] = "first"]
        /\ UNCHANGED main
     \/ /\ program = "lab6" /\ \A w \in Workers : pc[w] # "new"
        /\ Reported(NUM_THREAD - 1)
        /\ Go("input") /\ UNCHANGED pc
     \/ /\ program = "lab4" /\ Go("input") /\ pc' = [w \in Workers |-> "cond"]
     \/ /\ program = "join" /\ Go("join") /\ pc' = [w \in Workers |-> "start"]
  /\ UNCHANGED <<input, round, range, is_done, workVars, thread_ret, mutex, locals, printed,
                 history>>

\* scanf of range_start: -1 ends the program.
Input ==
  /\ main = "input"
  /\ \/ /\ round < Len(ranges) /\ Go("range_end")
        /\ range_start' = ranges[round + 1][1]
     \/ /\ round = Len(ranges)
        /\ Go(CASE program = "join" -> "end" [] program = "lab4" -> "cond" [] OTHER -> "done")
        /\ range_start' = -1
  /\ UNCHANGED <<input, round, range_end, is_done, workVars, thread_ret, mutex, pc, locals,
                 printed, history>>

InputEnd ==
  /\ main = "range_end" /\ round' = round + 1
  /\ range_end' = ranges[round + 1][2]
  /\ Go(CASE program = "join" -> "create" [] program = "lab4" -> "cond" [] OTHER -> "reset")
  /\ UNCHANGED <<input, range_start, is_done, workVars, thread_ret, mutex, pc, locals, printed,
                 history>>

\* lab6.
ResetResults ==
  /\ main = "reset" /\ Go("broadcast")
  /\ thread_ret' = [w \in Workers |-> -1]
  /\ UNCHANGED <<input, round, range, is_done, workVars, mutex, pc, locals, printed, history>>

\* An end without a broadcast (mutant).
SetDoneOnly ==
  /\ main = "done" /\ Go("join")
  /\ is_done' = TRUE
  /\ UNCHANGED <<input, round, range, workVars, thread_ret, mutex, pc, locals, printed, history>>

\* lab6.
SetDone ==
  /\ main = "done" /\ Go("broadcast")
  /\ is_done' = TRUE
  /\ UNCHANGED <<input, round, range, workVars, thread_ret, mutex, pc, locals, printed, history>>

\* lab4.
ResetCond ==
  /\ main = "cond" /\ Go("broadcast")
  /\ cond' = 0
  /\ UNCHANGED <<input, round, range, is_done, thread_work, thread_ret, mutex, pc, locals,
                 printed, history>>

\* Lock the mutex, wake all who sleep, unlock it.
Broadcast ==
  /\ main = "broadcast" /\ mutex = Nobody
  /\ pc' = [w \in Workers |-> IF pc[w] = "asleep" THEN "awake" ELSE pc[w]]
  /\ Go(IF range_start = -1 THEN "join" ELSE "wait")
  /\ UNCHANGED <<input, round, range, is_done, workVars, thread_ret, mutex, locals, printed,
                 history>>

\* lab6 waits for the results, lab4 for the count of the workers that are done.
WaitForWorkers ==
  /\ main = "wait" /\ Go("collect")
  /\ IF program = "lab6" THEN \A w \in Workers : thread_ret[w] >= 0 ELSE cond >= NUM_THREAD
  /\ UNCHANGED <<input, round, range, is_done, workVars, thread_ret, mutex, pc, locals,
                 printed, history>>

Join ==
  /\ main = "join" /\ \A w \in Workers : pc[w] = "done"
  /\ Go(IF program = "join" THEN "collect" ELSE "end")
  /\ UNCHANGED <<input, round, range, is_done, workVars, thread_ret, mutex, pc, locals,
                 printed, history>>

Sum(f) == LET upTo[n \in 0 .. NUM_THREAD] == IF n = 0 THEN 0 ELSE upTo[n - 1] + f[n - 1]
          IN  upTo[NUM_THREAD]

\* Add up and print.
Collect ==
  /\ main = "collect" /\ Go(IF program = "lab4" THEN "clear" ELSE "input")
  /\ printed' = Append(printed, Sum(thread_ret))
  /\ UNCHANGED <<input, round, range, is_done, workVars, thread_ret, mutex, pc, locals, history>>

\* lab4.
ClearWork ==
  /\ main = "clear" /\ Go("input")
  /\ thread_work' = [w \in Workers |-> 0]
  /\ UNCHANGED <<input, round, range, is_done, cond, thread_ret, mutex, pc, locals, printed,
                 history>>

Main ==
  \/ Create \/ Input \/ InputEnd \/ ResetResults \/ SetDone \/ ResetCond \/ Broadcast
  \/ WaitForWorkers \/ Join \/ Collect \/ ClearWork

-----------------------------------------------------------------------------
(***************************************************************************)
(* A worker.                                                               *)
(***************************************************************************)
Goto(w, l) == pc' = [pc EXCEPT ![w] = l]

shared == <<input, round, main, range, is_done, printed>>

\* lab4: the load of cond in the test.
TestCond(w) ==
  /\ pc[w] = "cond"
  /\ Goto(w, IF cond >= NUM_THREAD THEN "sleep" ELSE "work")
  /\ UNCHANGED <<shared, workVars, thread_ret, mutex, locals, history>>

\* lab4: the load of thread_work.  stale: cond has reached its limit since.
TestWork(w) ==
  /\ pc[w] = "work"
  /\ Goto(w, IF thread_work[w] = 1 THEN "sleep" ELSE "start")
  /\ stale' = (stale \/ (thread_work[w] = 0 /\ cond >= NUM_THREAD))
  /\ UNCHANGED <<shared, workVars, thread_ret, mutex, locals, spurious, missed>>

\* lab4: lock, and release the mutex asleep.  missed: there is work, and the broadcast for
\* it has been made.
Sleep(w) ==
  /\ pc[w] = "sleep" /\ mutex = Nobody /\ Goto(w, "asleep")
  /\ missed' = (missed \/ (main # "broadcast" /\ cond < NUM_THREAD /\ thread_work[w] = 0))
  /\ UNCHANGED <<shared, workVars, thread_ret, mutex, locals, spurious, stale>>

\* lab6: the worker reports that it is there.
First(w) ==
  /\ pc[w] = "first" /\ mutex = Nobody /\ Goto(w, "wait")
  /\ mutex' = w
  /\ thread_ret' = [thread_ret EXCEPT ![w] = -1]
  /\ UNCHANGED <<shared, workVars, locals, history>>

\* lab6: lock and store the result.
StoreLocked(w) ==
  /\ program = "lab6" /\ pc[w] = "store" /\ mutex = Nobody /\ Goto(w, "wait")
  /\ mutex' = w
  /\ thread_ret' = [thread_ret EXCEPT ![w] = cnt[w]]
  /\ UNCHANGED <<shared, workVars, locals, history>>

\* pthread_cond_wait releases the mutex.
CondWait(w) ==
  /\ pc[w] = "wait" /\ Goto(w, "asleep")
  /\ mutex' = Nobody
  /\ UNCHANGED <<shared, workVars, thread_ret, locals, history>>

\* pthread_cond_wait may return without a broadcast.
WakeSpuriously(w) ==
  /\ pc[w] = "asleep" /\ spurious < MaxSpurious /\ Goto(w, "awake")
  /\ spurious' = spurious + 1
  /\ UNCHANGED <<shared, workVars, thread_ret, mutex, locals, missed, stale>>

\* A woken worker gets the mutex, returns it, and looks at what it was woken for.
Awake(w) ==
  /\ pc[w] = "awake" /\ mutex = Nobody
  /\ \/ program = "lab4" /\ Goto(w, "cond")
     \/ program = "lab6" /\ is_done /\ Goto(w, "done")
     \/ program = "lab6" /\ ~is_done /\ Goto(w, "start")
  /\ UNCHANGED <<shared, workVars, thread_ret, mutex, locals, history>>

\* The loads of range_start (none sees another value, see Undisturbed); -1 ends a worker of lab4.
LoadStart(w) ==
  /\ pc[w] = "start"
  /\ start' = [start EXCEPT ![w] = range_start]
  /\ IF program = "lab4" /\ range_start = -1
     THEN Goto(w, "done") /\ thread_ret' = [thread_ret EXCEPT ![w] = 0]
     ELSE Goto(w, "count") /\ UNCHANGED thread_ret
  /\ UNCHANGED <<shared, workVars, mutex, cnt, history>>

\* Parts of equal size for all, the last included (mutant).
CountEqualPart(w) ==
  /\ pc[w] = "count" /\ Goto(w, "store")
  /\ LET s == Share(start[w], range_end)
     IN  cnt' = [cnt EXCEPT ![w] = CountPrimes(start[w] + s * w, start[w] + s * (w + 1))]
  /\ UNCHANGED <<shared, workVars, thread_ret, mutex, start, history>>

\* The load of range_end, and the primes of the part.
Count(w) ==
  /\ pc[w] = "count" /\ Goto(w, "store")
  /\ cnt' = [cnt EXCEPT ![w] =
       CountPrimes(start[w] + Share(start[w], range_end) * w,
                   EndOfPart(w, start[w], range_end))]
  /\ UNCHANGED <<shared, workVars, thread_ret, mutex, start, history>>

Store(w) ==
  /\ pc[w] = "store"
  /\ \/ program = "join" /\ Goto(w, "done")
     \/ program = "lab4" /\ Goto(w, "mark")
  /\ thread_ret' = [thread_ret EXCEPT ![w] = cnt[w]]
  /\ UNCHANGED <<shared, workVars, mutex, locals, history>>

\* lab4.
Mark(w) ==
  /\ pc[w] = "mark" /\ Goto(w, "add")
  /\ thread_work' = [thread_work EXCEPT ![w] = 1]
  /\ UNCHANGED <<shared, cond, thread_ret, mutex, locals, history>>

\* lab4: __sync_fetch_and_add(&cond, 1).
Add(w) ==
  /\ pc[w] = "add" /\ Goto(w, "cond")
  /\ cond' = cond + 1
  /\ UNCHANGED <<shared, thread_work, thread_ret, mutex, locals, history>>

Run(w) ==
  \/ TestCond(w) \/ TestWork(w) \/ Sleep(w)
  \/ First(w) \/ StoreLocked(w) \/ CondWait(w) \/ Awake(w)
  \/ LoadStart(w) \/ Count(w) \/ Store(w) \/ Mark(w) \/ Add(w)

Ended == main = "end" /\ UNCHANGED vars

Next == Main \/ (\E w \in Workers : Run(w) \/ WakeSpuriously(w)) \/ Ended

Spec == Init /\ [][Next]_vars

(***************************************************************************)
(* Fairness: threads run on, and one that waits for the mutex gets it: it  *)
(* is held only from the store of a result to the sleep that follows.      *)
(***************************************************************************)
FairSpec == Spec /\ WF_vars(Main) /\ \A w \in Workers : WF_vars(Run(w))

-----------------------------------------------------------------------------
TypeOK ==
  /\ program \in {"join", "lab4", "lab6"} /\ ranges \in Inputs
  /\ round \in 0 .. Len(ranges) /\ printed \in Seq(Int)
  /\ main \in {"create", "input", "range_end", "reset", "done", "cond", "broadcast", "wait",
               "join", "collect", "clear", "end"}
  /\ range_start \in Nat \cup {-1} /\ range_end \in Nat
  /\ is_done \in BOOLEAN /\ cond \in Nat
  /\ thread_work \in [Workers -> 0 .. 1] /\ thread_ret \in [Workers -> Nat \cup {-1}]
  /\ mutex \in Workers \cup {Nobody} /\ \A w \in Workers : mutex = w <=> pc[w] = "wait"
  /\ pc \in [Workers -> {"new", "first", "cond", "work", "sleep", "wait", "asleep", "awake",
                         "start", "count", "store", "mark", "add", "done"}]
  /\ start \in [Workers -> Nat \cup {-1}] /\ cnt \in [Workers -> Nat]
  /\ spurious \in 0 .. MaxSpurious /\ missed \in BOOLEAN /\ stale \in BOOLEAN

\* The range has been read, and what the workers count has not been printed.
InRound ==
  IF program = "join" THEN main \in {"create", "join", "collect"}
  ELSE main \in {"reset", "cond", "broadcast", "wait", "collect"} /\ range_start # -1

\* main is at a stage of its program, and has printed a count for each range but the one it
\* is about.
RoundAgrees ==
  /\ Len(printed) = round - (IF InRound THEN 1 ELSE 0)
  /\ InRound => range_start = ranges[round][1] /\ range_end = ranges[round][2]
  /\ main = "range_end" => round < Len(ranges) /\ range_start = ranges[round + 1][1]
  /\ main \in {"reset", "done"} => program = "lab6"
  /\ main \in {"cond", "clear"} => program = "lab4"
  /\ main \in {"broadcast", "wait"} => program # "join"
  /\ main \in {"reset", "wait", "collect"} => range_start # -1
  /\ main = "done" \/ (main = "join" /\ program # "join") => range_start = -1
  /\ \A w \in Workers : pc[w] = "first" => program = "lab6"
  /\ program # "lab6" => mutex = Nobody

\* The result of worker w for the range.
Part(w) ==
  CountPrimes(range_start + Share(range_start, range_end) * w,
              EndOfPart(w, range_start, range_end))

\* A worker that counts does so for the range that main is about.
CountsRange(w) ==
  /\ pc[w] = "count" => start[w] = range_start
  /\ pc[w] = "store" => cnt[w] = Part(w)

JoinAgrees ==
  program = "join" =>
    \A w \in Workers :
      /\ main \in {"create", "input", "range_end", "end"} => pc[w] \in {"new", "done"}
      /\ main = "collect" => pc[w] = "done"
      /\ main = "join" => pc[w] \in {"start", "count", "store", "done"} /\ CountsRange(w)
      /\ main \in {"join", "collect"} /\ pc[w] = "done" => thread_ret[w] = Part(w)

\* lab6, undisturbed: a worker has been created when the one before it is about to sleep,
\* all are when main reads a range, and -1 stands for each result that is not there.
Lab6Worker(w) ==
  /\ main = "create" =>
       /\ pc[w] \in {"new", "first", "wait", "asleep"}
       /\ Reported(w) => pc[w] \in {"wait", "asleep"}
       /\ pc[w] # "new" => \A u \in 0 .. w - 1 : Reported(u)
  /\ main \in {"input", "range_end", "reset", "done", "broadcast", "collect"} =>
       pc[w] \in {"wait", "asleep"}
  /\ main = "broadcast" /\ range_start # -1 => thread_ret[w] = -1
  /\ main = "wait" =>
       pc[w] \in {"awake", "start", "count", "store", "wait", "asleep"} /\ CountsRange(w)
  /\ main \in {"wait", "collect"} =>
       thread_ret[w] = IF pc[w] \in {"wait", "asleep"} THEN Part(w) ELSE -1
  /\ main = "join" => pc[w] \in {"awake", "done"}
  /\ main = "end" => pc[w] = "done"

Lab6Agrees ==
  program = "lab6" /\ spurious = 0 =>
    /\ \A w \in Workers : Lab6Worker(w)
    /\ main \in {"broadcast", "join"} => (is_done <=> range_start = -1)
    /\ main \notin {"broadcast", "join", "end"} => ~is_done

Resting == {"cond", "work", "sleep", "asleep", "awake"}
Busy == {"start", "count", "store", "mark"}

\* lab4, undisturbed: a worker does its part once, between the reset of cond and the moment
\* that cond, the number of the workers that have, is NUM_THREAD again.
Lab4Worker(w) ==
  /\ main = "create" => pc[w] = "new"
  /\ main \in {"input", "range_end", "cond"} => pc[w] \in Resting
  /\ main \in {"create", "input", "range_end", "cond"} => thread_work[w] = 0
  /\ main \in {"broadcast", "wait"} /\ range_start # -1 =>
       /\ pc[w] \in Resting \cup Busy \cup {"add"} /\ CountsRange(w)
       /\ pc[w] \in Busy => thread_work[w] = 0
       /\ pc[w] = "add" => thread_work[w] = 1
       /\ pc[w] = "mark" \/ thread_work[w] = 1 => thread_ret[w] = Part(w)
  /\ main = "collect" => thread_ret[w] = Part(w)
  /\ main \in {"collect", "clear"} => pc[w] \in Resting /\ thread_work[w] = 1
  /\ main = "end" \/ (main \in {"broadcast", "join"} /\ range_start = -1) =>
       pc[w] \in Resting \cup {"start", "done"} /\ thread_work[w] = 0

\* The workers that cond counts.
Added == {w \in Workers : thread_work[w] = 1 /\ pc[w] # "add"}

Lab4Agrees ==
  program = "lab4" /\ ~stale =>
    /\ \A w \in Workers : Lab4Worker(w)
    /\ main \in {"create", "input", "range_end", "cond", "collect", "clear"} => cond = NUM_THREAD
    /\ main \in {"broadcast", "wait"} => cond = Cardinality(Added)
    /\ main \in {"join", "end"} => cond = 0 /\ range_start = -1

\* A worker of lab6 that is woken too early has no predicate to send it back to sleep; one
\* of lab4 has.
Undisturbed == ~stale /\ (program = "lab6" => spurious = 0)

\* Every count that is printed is the number of primes of its range: no part is left out,
\* counted twice or added up before it is there, nor counted for another range
\* (lab6/prime_cond.cpp:39-60,93-121, lab4/prime_cond.cpp:38-61,98-110).  It says nothing of
\* an execution that is not Undisturbed: a worker of lab4 that tests thread_work late counts
\* twice, and a worker of lab6 that wakes by itself reports a range that is not there.
RightCounts ==
  Undisturbed =>
    \A n \in DOMAIN printed : printed[n] = CountPrimes(ranges[n][1], ranges[n][2] + 1)

\* When lab6 wakes its workers all of them are asleep: none has yet to go to sleep, and to
\* miss what it is woken for (lab6/prime_cond.cpp:34-37,55-59,86-99).  A worker that wakes up
\* by itself counts then, and is not asleep: Undisturbed leaves that out.
NoLostWakeup ==
  program = "lab6" /\ Undisturbed /\ main = "broadcast" /\ mutex = Nobody =>
    \A w \in Workers : pc[w] = "asleep"

\* The program ends (lab4/prime_cond.cpp:38-42,110,117-121, lab6/prime_cond.cpp:123-131).  It
\* says nothing of the executions in which it may not: of lab4 those where a worker falls
\* asleep after the broadcast for it or starts on a range that is over, of lab6 those with a
\* spurious wake-up.
ProgramEnds == <>(main = "end" \/ missed \/ ~Undisturbed)
=============================================================================
