----------------------------- MODULE ThreadGroup -----------------------------
(***************************************************************************)
(* lab7/prac_threadgroup.cpp, the program "group": main posts the ranges   *)
(* to the io_service of the producers, a producer counts the primes of a   *)
(* whole range and posts the result to the io_service of the consumer, who *)
(* prints it.  run() of an io_service takes one handler after the other;   *)
(* it returns when there is no handler, none is running, and the object of *)
(* class work has been deleted.  Input, main thread and workers are those  *)
(* of PrimePool; the last worker is the consumer.                          *)
(***************************************************************************)
EXTENDS PrimePool, Functions

VARIABLES
  posted,         \* the handlers of producer: the numbers of ranges
  running,        \* running[w]: the range producer w works on, or 0
  results,        \* the handlers of consumer: <<seq, result>>
  consumed,       \* the results printed
  pwork, cwork    \* whether the objects that keep run() waiting exist

groupVars == <<posted, running, results, consumed, pwork, cwork>>
poolVars == <<input, range, is_done, workVars, thread_ret, mutex, locals, printed, history>>
allVars == <<vars, groupVars>>

Consumer == NUM_THREAD - 1
Producers == Workers \ {Consumer}

GroupInit ==
  /\ Start({"join", "lab4", "lab6", "group"})
  /\ posted = <<>> /\ running = [w \in Workers |-> 0] /\ results = <<>> /\ consumed = <<>>
  /\ pwork = FALSE /\ cwork = FALSE

CreateGroup ==
  /\ program = "group" /\ main = "create" /\ Go("post")
  /\ pwork' = TRUE /\ cwork' = TRUE
  /\ pc' = [w \in Workers |-> "run"]
  /\ UNCHANGED <<poolVars, round, posted, running, results, consumed>>

\* producer.post, until the input ends.
Post ==
  /\ main = "post"
  /\ IF round < Len(ranges)
     THEN round' = round + 1 /\ posted' = Append(posted, round + 1) /\ UNCHANGED main
     ELSE Go("delete pwork") /\ UNCHANGED <<round, posted>>
  /\ UNCHANGED <<poolVars, pc, running, results, consumed, pwork, cwork>>

\* Both guards go at once (mutant).
DeleteBoth ==
  /\ main = "delete pwork" /\ Go("join producers")
  /\ pwork' = FALSE /\ cwork' = FALSE
  /\ UNCHANGED <<poolVars, round, pc, posted, running, results, consumed>>

DeleteProducerWork ==
  /\ main = "delete pwork" /\ Go("join producers")
  /\ pwork' = FALSE
  /\ UNCHANGED <<poolVars, round, pc, posted, running, results, consumed, cwork>>

\* producers.join_all(), delete cwork.
DeleteConsumerWork ==
  /\ main = "join producers" /\ (\A w \in Producers : pc[w] = "done")
  /\ Go("join consumers")
  /\ cwork' = FALSE
  /\ UNCHANGED <<poolVars, round, pc, posted, running, results, consumed, pwork>>

JoinConsumers ==
  /\ main = "join consumers" /\ pc[Consumer] = "done" /\ Go("end")
  /\ UNCHANGED <<poolVars, round, pc, groupVars>>

Take(w) ==
  /\ pc[w] = "run" /\ w # Consumer /\ posted # <<>> /\ Goto(w, "produce")
  /\ running' = [running EXCEPT ![w] = Head(posted)] /\ posted' = Tail(posted)
  /\ UNCHANGED <<poolVars, round, main, results, consumed, pwork, cwork>>

\* What consume is called with for range n: seq counts from 0.
ResultOf(n) == <<n - 1, CountPrimes(ranges[n][1], ranges[n][2] + 1)>>

Produce(w) ==
  /\ pc[w] = "produce" /\ Goto(w, "run")
  /\ results' = Append(results, ResultOf(running[w]))
  /\ running' = [running EXCEPT ![w] = 0]
  /\ UNCHANGED <<poolVars, round, main, posted, consumed, pwork, cwork>>

Consume(w) ==
  /\ pc[w] = "run" /\ w = Consumer /\ results # <<>>
  /\ consumed' = Append(consumed, Head(results)) /\ results' = Tail(results)
  /\ UNCHANGED <<poolVars, round, main, pc, posted, running, pwork, cwork>>

\* run() returns.
Return(w) ==
  /\ pc[w] = "run" /\ Goto(w, "done")
  /\ IF w = Consumer THEN ~cwork /\ results = <<>>
     ELSE ~pwork /\ posted = <<>> /\ \A u \in Producers : running[u] = 0
  /\ UNCHANGED <<poolVars, round, main, groupVars>>

GroupMain ==
  CreateGroup \/ Post \/ DeleteProducerWork \/ DeleteConsumerWork \/ JoinConsumers

GroupRun(w) == Take(w) \/ Produce(w) \/ Consume(w) \/ Return(w)

GroupNext ==
  \/ Next /\ UNCHANGED groupVars
  \/ GroupMain \/ \E w \in Workers : GroupRun(w)

GroupSpec == GroupInit /\ [][GroupNext]_allVars

(***************************************************************************)
(* Fairness: as in PrimePool.                                              *)
(***************************************************************************)
FairGroupSpec ==
  /\ GroupSpec
  /\ WF_allVars(Main /\ UNCHANGED groupVars) /\ WF_allVars(GroupMain)
  /\ \A w \in Workers : WF_allVars(Run(w) /\ UNCHANGED groupVars) /\ WF_allVars(GroupRun(w))

-----------------------------------------------------------------------------
GroupTypeOK ==
  IF program = "group"
  THEN /\ ranges \in Inputs /\ round \in 0 .. Len(ranges)
       /\ main \in {"create", "post", "delete pwork", "join producers", "join consumers", "end"}
       /\ pc \in [Workers -> {"new", "run", "produce", "done"}]
       /\ running \in [Workers -> 0 .. round]
       /\ \A w \in Workers : running[w] # 0 <=> pc[w] = "produce"
       /\ posted \in Seq(1 .. round)
       /\ results \in Seq((0 .. round - 1) \X Nat) /\ consumed \in Seq((0 .. round - 1) \X Nat)
       /\ pwork \in BOOLEAN /\ cwork \in BOOLEAN /\ printed = <<>>
  ELSE TypeOK /\ posted = <<>> /\ results = <<>>

\* Where a range is that has been posted.
Somewhere(n) ==
  \/ \E k \in DOMAIN posted : posted[k] = n
  \/ \E w \in Workers : running[w] = n
  \/ \E k \in DOMAIN results : results[k] = ResultOf(n)
  \/ \E k \in DOMAIN consumed : consumed[k] = ResultOf(n)

\* No range gets lost or is counted twice, and run() of an io_service does not return before
\* the handlers it still has to take are known to be all.
GroupAgrees ==
  program = "group" =>
    /\ \A n \in 1 .. round : Somewhere(n)
    /\ round = Len(posted) + Cardinality({w \in Workers : running[w] # 0})
               + Len(results) + Len(consumed)
    /\ main = "create" => round = 0 /\ \A w \in Workers : pc[w] = "new"
    /\ main # "create" => \A w \in Workers : pc[w] # "new"
    /\ main \notin {"create", "post"} => round = Len(ranges)
    /\ pwork <=> main \in {"post", "delete pwork"}
    /\ cwork <=> main \in {"post", "delete pwork", "join producers"}
    /\ pc[Consumer] # "produce"
    /\ \A w \in Producers : pc[w] = "done" =>
         ~pwork /\ posted = <<>> /\ \A u \in Producers : running[u] = 0
    /\ main \in {"join consumers", "end"} => \A w \in Producers : pc[w] = "done"
    /\ pc[Consumer] = "done" => main \in {"join consumers", "end"} /\ results = <<>>
    /\ main = "end" => pc[Consumer] = "done"

\* When main returns every range that was posted has been counted and printed once, although
\* it asks no queue whether it is empty (prac_threadgroup.cpp:42,61-73).
AllConsumed ==
  program = "group" /\ main = "end" =>
    /\ Len(consumed) = Len(ranges)
    /\ \A n \in DOMAIN ranges : \E k \in DOMAIN consumed :
         consumed[k] = ResultOf(n)

\* The invariant of all the programs: each worker and main are at stages of their own
\* program, the mutex belongs to a worker that is about to wait, the results that are there
\* are those of the range, and a thread group ends with every result printed
\* (prime_cond.cpp:30-63, prac_threadgroup.cpp:45-75).
GroupInv ==
  /\ GroupTypeOK /\ AllConsumed /\ GroupAgrees
  /\ program # "group" => RoundAgrees /\ JoinAgrees /\ Lab6Agrees /\ Lab4Agrees
=============================================================================
