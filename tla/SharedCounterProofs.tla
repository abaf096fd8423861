-------------------------- MODULE SharedCounterProofs --------------------------
(***************************************************************************)
(* One thread at a time counts, whatever the number of threads, and the    *)
(* flags of the queue lock are used only while they are allocated.  At the *)
(* end no turn has been lost, and the timers are where they should stop.   *)
(***************************************************************************)
EXTENDS SharedCounter, SequenceTheorems, FiniteSetTheorems, TLAPS

LEMMA LocksInitially == Init => LockInv
<1> SUFFICES ASSUME Init PROVE LockInv
  OBVIOUS
<1>1. tail \in Nodes
  <2>1. Cardinality(Threads) \in Nat /\ Cardinality(Nodes) \in Nat
    BY FS_CardinalityType, CounterAssumption
  <2>2. Cardinality(Nodes) # 0
    BY <2>1, CounterAssumption
  <2>3. Nodes # {}
    BY <2>2, FS_EmptySet
  <2> QED BY <2>3 DEF Init
<1>2. TypeOK
  BY <1>1, CounterAssumption, EmptySeq DEF Init, TypeOK, Locks, Timers
<1>3. \A t \in Threads : pc[t] \in {"begin", "done"} /\ before[t] = NULL
  BY DEF Init
<1>4. StagesAgree /\ MutualExclusion /\ WordAgrees
  BY <1>3, CounterAssumption DEF Init, StagesAgree, MutualExclusion, WordAgrees, Critical
<1>5. waiting = <<>> /\ Len(waiting) = 0
  BY EmptySeq DEF Init
<1>6. QueueAgrees
  BY <1>3, <1>5 DEF QueueAgrees, Queued, Critical
<1>7. FlagsAgree
  BY <1>3, <1>5, CounterAssumption DEF Init, FlagsAgree, Owner, Queued, Critical
<1> QED BY <1>2, <1>4, <1>6, <1>7 DEF LockInv

-----------------------------------------------------------------------------
(***************************************************************************)
(* Types and stages.                                                       *)
(***************************************************************************)

\* A thread in the critical section is the first of the queue; behind the first all spin.
LEMMA CriticalIsFirst ==
  ASSUME TypeOK, QueueAgrees, NEW t \in Threads, Critical(t)
  PROVE  waiting # <<>> /\ waiting[1] = t /\ Head(waiting) = t
<1>1. Len(waiting) \in Nat
  BY LenProperties DEF TypeOK
<1>2. PICK k \in 1 .. Len(waiting) : waiting[k] = t
  BY DEF QueueAgrees, Queued
<1>3. k = 1
  BY <1>1, <1>2 DEF QueueAgrees, Critical
<1>4. waiting # <<>>
  BY <1>1, <1>2, EmptySeq
<1> QED BY <1>2, <1>3, <1>4

LEMMA TypesKept ==
  ASSUME LockInv, Next
  PROVE  TypeOK' /\ StagesAgree'
<1> USE DEF LockInv
<1>1. ASSUME NEW t \in Threads, Begin(t) PROVE TypeOK' /\ StagesAgree'
  BY <1>1 DEF Begin, Goto, TypeOK, StagesAgree, nodeVars, queueVars, Locks, Timers
<1>2. ASSUME NEW t \in Threads, Look(t) PROVE TypeOK' /\ StagesAgree'
  BY <1>2 DEF Look, Goto, TypeOK, StagesAgree, nodeVars, queueVars, Locks, Timers
<1>3. ASSUME NEW t \in Threads, TestAndSet(t) PROVE TypeOK' /\ StagesAgree'
  <2>1. PICK l \in {"load", "look"} : pc' = [pc EXCEPT ![t] = l] /\ (l = "look" => program = "ttas")
    BY <1>3 DEF TestAndSet, Goto
  <2>2. TypeOK'
    BY <1>3, <2>1 DEF TestAndSet, TypeOK, nodeVars, queueVars
  <2> QED BY <1>3, <2>1, <2>2 DEF TestAndSet, TypeOK, StagesAgree, Locks, Timers
<1>4. ASSUME NEW t \in Threads, NewFlag(t) PROVE TypeOK' /\ StagesAgree'
  BY <1>4 DEF NewFlag, Goto, TypeOK, StagesAgree, Locks, Timers
<1>5. ASSUME NEW t \in Threads, Swap(t) PROVE TypeOK' /\ StagesAgree'
  <2>1. flag[t] \in Nodes
    BY <1>5 DEF Swap, StagesAgree, FlagsAgree, Owner
  <2>2. waiting' \in Seq(Threads)
    BY <1>5, AppendProperties DEF Swap, TypeOK
  <2> QED BY <1>5, <2>1, <2>2 DEF Swap, Goto, TypeOK, StagesAgree, nodeVars, Locks, Timers
<1>6. ASSUME NEW t \in Threads, Spin(t) PROVE TypeOK' /\ StagesAgree'
  BY <1>6 DEF Spin, Goto, TypeOK, StagesAgree, Locks, Timers
<1>7. ASSUME NEW t \in Threads, Handler(t) PROVE TypeOK' /\ StagesAgree'
  BY <1>7 DEF Handler, Goto, TypeOK, StagesAgree, nodeVars, queueVars, Locks, Timers
<1>8. ASSUME NEW t \in Threads, PrintCount(t) PROVE TypeOK' /\ StagesAgree'
  <2>1. printed' \in Seq(Nat)
    BY <1>8, AppendProperties DEF PrintCount, TypeOK
  <2> QED BY <1>8, <2>1 DEF PrintCount, Goto, TypeOK, StagesAgree, nodeVars, queueVars, Locks, Timers
<1>9. ASSUME NEW t \in Threads, Load(t) PROVE TypeOK' /\ StagesAgree'
  BY <1>9 DEF Load, Goto, TypeOK, StagesAgree, nodeVars, queueVars, Locks, Timers
<1>10. ASSUME NEW t \in Threads, Store(t) PROVE TypeOK' /\ StagesAgree'
  BY <1>10 DEF Store, Goto, TypeOK, StagesAgree, nodeVars, queueVars, Locks, Timers
<1>11. ASSUME NEW t \in Threads, Unlock(t) PROVE TypeOK' /\ StagesAgree'
  <2>1. program = "clh" => waiting # <<>>
    BY <1>11, CriticalIsFirst DEF Unlock, Critical
  <2>2. waiting' \in Seq(Threads)
    <3>1. waiting # <<>> => Tail(waiting) \in Seq(Threads)
      BY HeadTailProperties DEF TypeOK
    <3> QED BY <1>11, <2>1, <3>1 DEF Unlock, Release, TypeOK
  <2>3. /\ value' \in [Nodes -> BOOLEAN]
        /\ flag' \in [Threads -> Nodes \cup {NULL}] /\ lock_object' \in 0 .. 1
    <3>1. CASE program = "clh"
      <4>1. /\ value' = [value EXCEPT ![flag[t]] = FALSE]
            /\ flag' = [flag EXCEPT ![t] = NULL] /\ lock_object' = lock_object
        BY <1>11, <3>1 DEF Unlock, Release
      <4>2. value' \in [Nodes -> BOOLEAN]
        BY <4>1, Zenon DEF TypeOK
      <4> QED BY <4>1, <4>2 DEF TypeOK
    <3>2. CASE program # "clh"
      BY <1>11, <3>2 DEF Unlock, Release, TypeOK
    <3> QED BY <3>1, <3>2
  <2>4. i' \in [Threads -> 0 .. NUM_WORK]
    <3>1. CASE program \in Locks
      <4>1. i' = [i EXCEPT ![t] = i[t] + 1]
        BY <1>11, <3>1 DEF Unlock
      <4>2. i[t] \in 0 .. NUM_WORK /\ i[t] < NUM_WORK /\ NUM_WORK \in Nat
        BY <1>11, <3>1, CounterAssumption DEF Unlock, TypeOK, StagesAgree
      <4>3. i[t] + 1 \in 0 .. NUM_WORK
        BY <4>2
      <4> QED BY <4>1, <4>3 DEF TypeOK
    <3>2. CASE program \notin Locks
      BY <1>11, <3>2 DEF Unlock, TypeOK
    <3> QED BY <3>1, <3>2
  <2>5. TypeOK'
    BY <1>11, <2>2, <2>3, <2>4 DEF Unlock, Goto, TypeOK
  <2> QED BY <1>11, <2>5 DEF Unlock, Goto, TypeOK, StagesAgree, AnotherTurn, Locks, Timers
<1>12. ASSUME Join PROVE TypeOK' /\ StagesAgree'
  BY <1>12 DEF Join, TypeOK, StagesAgree, queueVars
<1>13. ASSUME Ended PROVE TypeOK' /\ StagesAgree'
  BY <1>13 DEF Ended, vars, TypeOK, StagesAgree, nodeVars, queueVars
<1> QED BY <1>1, <1>2, <1>3, <1>4, <1>5, <1>6, <1>7, <1>8, <1>9, <1>10, <1>11, <1>12, <1>13
  DEF Next, Run

-----------------------------------------------------------------------------
(***************************************************************************)
(* The lock word: test-and-set, test and test-and-set, and the strand.     *)
(***************************************************************************)
LEMMA WordKeepsLocks ==
  ASSUME LockInv, Next, program # "clh"
  PROVE  MutualExclusion' /\ WordAgrees'
<1>1. TypeOK /\ StagesAgree /\ MutualExclusion /\ WordAgrees /\ program' = program
  BY DEF LockInv, Next, Run, Begin, Look, TestAndSet, NewFlag, Swap, Spin, Handler, PrintCount, Load,
    Store, Unlock, Join, Ended, vars
<1>2. CASE program = "race"
  BY <1>1, <1>2 DEF MutualExclusion, WordAgrees
<1>3. CASE program # "race"
  <2>1. program \in {"tas", "ttas", "strand"}
    BY <1>1, <1>3 DEF TypeOK, Locks, Timers
  <2>2. ASSUME NEW t \in Threads, Begin(t) \/ Look(t) \/ PrintCount(t) \/ Load(t) \/ Store(t)
        PROVE  MutualExclusion' /\ WordAgrees'
    <3>1. /\ lock_object' = lock_object
          /\ \A u \in Threads : Critical(u)' <=> Critical(u)
      BY <1>1, <2>1, <2>2 DEF Begin, Look, PrintCount, Load, Store, Goto, TypeOK, Critical
    <3> QED BY <1>1, <3>1 DEF MutualExclusion, WordAgrees
  <2>3. ASSUME NEW t \in Threads, TestAndSet(t) \/ Handler(t)
        PROVE  MutualExclusion' /\ WordAgrees'
    <3>1. \A u \in Threads : u # t => pc'[u] = pc[u]
      BY <1>1, <2>3 DEF TestAndSet, Handler, Goto, TypeOK
    <3>2. CASE lock_object = 0
      <4>1. \A u \in Threads : u # t => ~Critical(u)'
        BY <1>1, <2>1, <3>1, <3>2 DEF WordAgrees, Critical
      <4>2. lock_object' = 0 => ~Critical(t)'
        BY <1>1, <2>1, <2>3 DEF TestAndSet, Handler, Goto, TypeOK, StagesAgree, Critical, Timers
      <4> QED BY <4>1, <4>2 DEF MutualExclusion, WordAgrees
    <3>3. CASE lock_object # 0
      <4>1. TestAndSet(t) /\ lock_object' = 1 /\ pc' = [pc EXCEPT ![t] = "look"]
        BY <1>1, <2>1, <2>3, <3>3 DEF TestAndSet, Handler, Goto, StagesAgree, Timers
      <4>2. \A u \in Threads : Critical(u)' => Critical(u)
        BY <1>1, <4>1 DEF TypeOK, Critical
      <4> QED BY <1>1, <4>1, <4>2 DEF MutualExclusion, WordAgrees
    <3> QED BY <3>2, <3>3
  <2>4. ASSUME NEW t \in Threads, Unlock(t)
        PROVE  MutualExclusion' /\ WordAgrees'
    <3>1. Critical(t) /\ ~Critical(t)' /\ \A u \in Threads : u # t => pc'[u] = pc[u]
      BY <1>1, <2>4 DEF Unlock, Goto, TypeOK, Critical
    <3>2. \A u \in Threads : ~Critical(u)'
      BY <1>1, <1>3, <3>1 DEF MutualExclusion, Critical
    <3> QED BY <3>2 DEF MutualExclusion, WordAgrees
  <2>5. ASSUME Join \/ Ended
        PROVE  MutualExclusion' /\ WordAgrees'
    BY <1>1, <2>5 DEF Join, Ended, vars, queueVars, MutualExclusion, WordAgrees, Critical
  <2>6. ASSUME NEW t \in Threads, NewFlag(t) \/ Swap(t) \/ Spin(t)
        PROVE  FALSE
    BY <1>1, <2>1, <2>6 DEF NewFlag, Swap, Spin, StagesAgree
  <2> QED BY <2>2, <2>3, <2>4, <2>5, <2>6 DEF Next, Run
<1> QED BY <1>2, <1>3

-----------------------------------------------------------------------------
(***************************************************************************)
(* The queue lock.                                                         *)
(***************************************************************************)

\* The elements of the queue.
LEMMA Elements ==
  ASSUME TypeOK
  PROVE  /\ Len(waiting) \in Nat /\ (waiting = <<>> <=> Len(waiting) = 0)
         /\ \A k \in 1 .. Len(waiting) : waiting[k] \in Threads
BY LenProperties, ElementOfSeq, EmptySeq DEF TypeOK

\* A step that moves no thread in or out of the queue and leaves the flags alone.
LEMMA SameQueueKeeps ==
  ASSUME TypeOK, TypeOK', QueueAgrees, FlagsAgree, main = "join",
         UNCHANGED <<value, allocated, tail, flag, before, waiting, main>>,
         \A u \in Threads :
           /\ pc'[u] = "swap" <=> pc[u] = "swap"
           /\ pc'[u] = "spin" <=> pc[u] = "spin"
           /\ Critical(u)' <=> Critical(u)
  PROVE  QueueAgrees' /\ FlagsAgree'
<1>1. \A u \in Threads : (Queued(u)' <=> Queued(u)) /\ (Owner(u)' <=> Owner(u))
  BY DEF Queued, Owner
<1>2. QueueAgrees'
  BY <1>1, Elements DEF QueueAgrees
<1>3. /\ {u \in Threads : Owner(u)'} = {u \in Threads : Owner(u)}
      /\ {u \in Threads : pc'[u] = "spin"} = {u \in Threads : pc[u] = "spin"}
  BY <1>1
<1>4. allocated' = {tail'} \cup {flag'[t] : t \in {u \in Threads : Owner(u)'}}
                           \cup {before'[t] : t \in {u \in Threads : pc'[u] = "spin"}}
  BY <1>3 DEF FlagsAgree
<1>5. FlagsAgree'
  BY <1>1, <1>4 DEF FlagsAgree
<1> QED BY <1>2, <1>5

\* A new flag is none of those in use.
LEMMA NewFlagKeeps ==
  ASSUME TypeOK, TypeOK', QueueAgrees, FlagsAgree, main = "join",
         NEW t \in Threads, NewFlag(t)
  PROVE  QueueAgrees' /\ FlagsAgree'
<1>1. PICK n \in Nodes \ allocated :
        /\ allocated' = allocated \cup {n} /\ value' = [value EXCEPT ![n] = TRUE]
        /\ flag' = [flag EXCEPT ![t] = n]
  BY DEF NewFlag
<1>2. /\ pc[t] = "new" /\ pc' = [pc EXCEPT ![t] = "swap"]
      /\ tail' = tail /\ before' = before /\ waiting' = waiting /\ main' = main
  BY DEF NewFlag, Goto
<1>3. /\ \A u \in Threads : Queued(u)' <=> Queued(u)
      /\ \A u \in Threads : Owner(u)' <=> Owner(u) \/ u = t
      /\ \A u \in Threads : pc'[u] = "spin" <=> pc[u] = "spin"
      /\ ~Owner(t)
  BY <1>2 DEF TypeOK, Owner, Queued, Critical
<1>4. \A u \in Threads : flag'[u] = IF u = t THEN n ELSE flag[u]
  BY <1>1 DEF TypeOK
<1>5. /\ n # tail
      /\ \A u \in Threads : Owner(u) => flag[u] # n
      /\ \A u \in Threads : before[u] # n
  BY <1>1, CounterAssumption DEF TypeOK, FlagsAgree
<1>6. \A k \in 1 .. Len(waiting) : waiting[k] # t /\ waiting[k] \in Threads
  BY <1>3, Elements DEF QueueAgrees, Owner
<1>7. QueueAgrees'
  <2>1. \A k \in 2 .. Len(waiting) : k \in 1 .. Len(waiting) /\ k - 1 \in 1 .. Len(waiting)
    BY Elements
  <2>2. waiting # <<>> => Len(waiting) \in 1 .. Len(waiting)
    BY Elements
  <2> QED BY <1>2, <1>3, <1>4, <1>6, <2>1, <2>2 DEF QueueAgrees
<1>8. \A u \in Threads : Owner(u)' => flag'[u] \in Nodes /\ value'[flag'[u]]
  BY <1>1, <1>3, <1>4, <1>5 DEF TypeOK, FlagsAgree
<1>9. \A u, v \in Threads : Owner(u)' /\ Owner(v)' /\ flag'[u] = flag'[v] => u = v
  BY <1>3, <1>4, <1>5 DEF FlagsAgree
<1>10. \A u \in Threads : pc'[u] = "swap" => flag'[u] # tail'
  BY <1>2, <1>4, <1>5 DEF FlagsAgree, TypeOK
<1>11. \A u \in Threads : waiting' # <<>> /\ Owner(u)' => flag'[u] # before'[waiting'[1]]
  BY <1>2, <1>3, <1>4, <1>5, <1>6, Elements DEF FlagsAgree
<1>12. allocated' = {tail'} \cup {flag'[u] : u \in {v \in Threads : Owner(v)'}}
                            \cup {before'[u] : u \in {v \in Threads : pc'[v] = "spin"}}
  <2>1. {v \in Threads : Owner(v)'} = {v \in Threads : Owner(v)} \cup {t}
    BY <1>3
  <2>2. {v \in Threads : pc'[v] = "spin"} = {v \in Threads : pc[v] = "spin"}
    BY <1>3
  <2>3. {flag'[u] : u \in {v \in Threads : Owner(v)'}}
          = {flag[u] : u \in {v \in Threads : Owner(v)}} \cup {n}
    BY <1>3, <1>4, <2>1
  <2> QED BY <1>1, <1>2, <2>2, <2>3 DEF FlagsAgree
<1> QED BY <1>2, <1>3, <1>7, <1>8, <1>9, <1>10, <1>11, <1>12 DEF FlagsAgree

\* A thread that enters the queue spins on the flag of the thread that was its last.
LEMMA SwapKeeps ==
  ASSUME TypeOK, TypeOK', QueueAgrees, FlagsAgree, main = "join",
         NEW t \in Threads, Swap(t)
  PROVE  QueueAgrees' /\ FlagsAgree'
<1>1. /\ pc[t] = "swap" /\ pc' = [pc EXCEPT ![t] = "spin"]
      /\ before' = [before EXCEPT ![t] = tail] /\ tail' = flag[t]
      /\ waiting' = Append(waiting, t)
      /\ flag' = flag /\ value' = value /\ allocated' = allocated /\ main' = main
  BY DEF Swap, Goto, nodeVars
<1>2. /\ \A u \in Threads : Queued(u)' <=> Queued(u) \/ u = t
      /\ \A u \in Threads : Owner(u)' <=> Owner(u)
      /\ \A u \in Threads : pc'[u] = "spin" <=> pc[u] = "spin" \/ u = t
      /\ \A u \in Threads : pc'[u] = "swap" <=> pc[u] = "swap" /\ u # t
      /\ Owner(t) /\ ~Queued(t)
  BY <1>1 DEF TypeOK, Owner, Queued, Critical
<1>3. \A u \in Threads : before'[u] = IF u = t THEN tail ELSE before[u]
  BY <1>1 DEF TypeOK
<1>4. /\ Len(waiting) \in Nat /\ Len(waiting') = Len(waiting) + 1
      /\ \A k \in 1 .. Len(waiting) : waiting'[k] = waiting[k]
      /\ waiting'[Len(waiting) + 1] = t
  BY <1>1, AppendProperties, Elements DEF TypeOK
<1>5. \A k \in 1 .. Len(waiting) : waiting[k] # t /\ waiting[k] \in Threads
  BY <1>2, Elements DEF QueueAgrees
<1>6. QueueAgrees'
  <2>1. \A u \in Threads : Queued(u)' <=> \E k \in 1 .. Len(waiting') : waiting'[k] = u
    BY <1>2, <1>4 DEF QueueAgrees
  <2>2. ASSUME NEW k \in 1 .. Len(waiting'), NEW m \in 1 .. Len(waiting'), waiting'[k] = waiting'[m]
        PROVE  k = m
    <3>1. CASE k \in 1 .. Len(waiting) /\ m \in 1 .. Len(waiting)
      BY <1>4, <2>2, <3>1 DEF QueueAgrees
    <3>2. k \in 1 .. Len(waiting) \/ k = Len(waiting) + 1
      BY <1>4
    <3>3. m \in 1 .. Len(waiting) \/ m = Len(waiting) + 1
      BY <1>4
    <3> QED BY <1>4, <1>5, <2>2, <3>1, <3>2, <3>3
  <2>3. ASSUME NEW k \in 2 .. Len(waiting')
        PROVE  pc'[waiting'[k]] = "spin" /\ before'[waiting'[k]] = flag'[waiting'[k - 1]]
    <3>1. CASE k \in 1 .. Len(waiting)
      <4>1. k \in 2 .. Len(waiting) /\ k - 1 \in 1 .. Len(waiting)
        BY <1>4, <2>3, <3>1
      <4> QED BY <1>1, <1>2, <1>3, <1>4, <1>5, <3>1, <4>1 DEF QueueAgrees
    <3>2. CASE k = Len(waiting) + 1
      <4>1. waiting # <<>> /\ k - 1 = Len(waiting) /\ Len(waiting) \in 1 .. Len(waiting)
        BY <1>4, <2>3, <3>2, Elements
      <4>2. waiting'[k] = t /\ waiting'[k - 1] = waiting[Len(waiting)]
        BY <1>4, <3>2, <4>1
      <4> QED BY <1>1, <1>2, <1>3, <4>1, <4>2 DEF QueueAgrees
    <3> QED BY <1>4, <2>3, <3>1, <3>2
  <2>4. tail' = flag'[waiting'[Len(waiting')]]
    BY <1>1, <1>4
  <2> QED BY <2>1, <2>2, <2>3, <2>4 DEF QueueAgrees
<1>7. \A u \in Threads : pc'[u] = "swap" => flag'[u] # tail'
  BY <1>1, <1>2 DEF FlagsAgree, Owner
<1>8. ASSUME NEW u \in Threads, Owner(u)'
      PROVE  flag'[u] # before'[waiting'[1]]
  <2>1. CASE waiting # <<>>
    <3>1. 1 \in 1 .. Len(waiting)
      BY <2>1, Elements
    <3>2. waiting'[1] = waiting[1] /\ waiting[1] # t /\ waiting[1] \in Threads
      BY <1>4, <1>5, <3>1
    <3> QED BY <1>1, <1>2, <1>3, <1>8, <2>1, <3>2 DEF FlagsAgree
  <2>2. CASE waiting = <<>>
    <3>1. waiting'[1] = t
      BY <1>4, <2>2, Elements
    <3>2. ~Queued(u)
      BY <1>4, <2>2, Elements DEF QueueAgrees
    <3>3. flag[u] # tail
      BY <1>2, <1>8, <3>2 DEF Owner, FlagsAgree
    <3> QED BY <1>1, <1>3, <3>1, <3>3
  <2> QED BY <2>1, <2>2
<1>9. allocated' = {tail'} \cup {flag'[u] : u \in {v \in Threads : Owner(v)'}}
                           \cup {before'[u] : u \in {v \in Threads : pc'[v] = "spin"}}
  <2>1. {v \in Threads : Owner(v)'} = {v \in Threads : Owner(v)}
    BY <1>2
  <2>2. flag[t] \in {flag[u] : u \in {v \in Threads : Owner(v)}}
    BY <1>2
  <2>3. {before'[u] : u \in {v \in Threads : pc'[v] = "spin"}}
          = {before[u] : u \in {v \in Threads : pc[v] = "spin"}} \cup {tail}
    <3>1. pc[t] # "spin"
      BY <1>1
    <3> QED BY <1>2, <1>3, <3>1
  <2> QED BY <1>1, <2>1, <2>2, <2>3 DEF FlagsAgree
<1>10. \A u \in Threads : pc'[u] = "spin" <=> before'[u] \in Nodes
  BY <1>2, <1>3 DEF FlagsAgree, TypeOK
<1> QED BY <1>1, <1>2, <1>6, <1>7, <1>8, <1>9, <1>10 DEF FlagsAgree

\* A thread that finds the flag before it cleared is the first of the queue, since the
\* flags of the others are set; it deletes a flag nobody else uses.
LEMMA SpinKeeps ==
  ASSUME TypeOK, TypeOK', QueueAgrees, FlagsAgree, main = "join",
         NEW t \in Threads, Spin(t)
  PROVE  QueueAgrees' /\ FlagsAgree'
<1>1. /\ pc[t] = "spin" /\ ~value[before[t]] /\ pc' = [pc EXCEPT ![t] = "load"]
      /\ before' = [before EXCEPT ![t] = NULL] /\ allocated' = allocated \ {before[t]}
      /\ tail' = tail /\ waiting' = waiting
      /\ flag' = flag /\ value' = value /\ main' = main
  BY DEF Spin, Goto
<1>2. /\ \A u \in Threads : Queued(u)' <=> Queued(u)
      /\ \A u \in Threads : Owner(u)' <=> Owner(u)
      /\ \A u \in Threads : pc'[u] = "spin" <=> pc[u] = "spin" /\ u # t
      /\ \A u \in Threads : pc'[u] = "swap" <=> pc[u] = "swap"
      /\ Owner(t) /\ Queued(t)
  BY <1>1 DEF TypeOK, Owner, Queued, Critical
<1>3. \A u \in Threads : before'[u] = IF u = t THEN NULL ELSE before[u]
  BY <1>1 DEF TypeOK
<1>4. Len(waiting) \in Nat /\ \A k \in 1 .. Len(waiting) : waiting[k] \in Threads /\ Queued(waiting[k])
  BY Elements DEF QueueAgrees
<1>5. waiting # <<>> /\ waiting[1] = t
  <2>1. PICK k \in 1 .. Len(waiting) : waiting[k] = t
    BY <1>2 DEF QueueAgrees
  <2>2. ASSUME k # 1 PROVE FALSE
    <3>1. k \in 2 .. Len(waiting) /\ k - 1 \in 1 .. Len(waiting)
      BY <1>4, <2>1, <2>2
    <3>2. before[t] = flag[waiting[k - 1]] /\ Owner(waiting[k - 1]) /\ waiting[k - 1] \in Threads
      BY <1>4, <2>1, <3>1 DEF QueueAgrees, Owner
    <3> QED BY <1>1, <3>2 DEF FlagsAgree
  <2>3. waiting # <<>>
    BY <1>4, <2>1, Elements
  <2> QED BY <2>1, <2>2, <2>3
<1>6. \A k \in 2 .. Len(waiting) :
        k \in 1 .. Len(waiting) /\ k - 1 \in 1 .. Len(waiting) /\ waiting[k] # t
  <2>1. 1 \in 1 .. Len(waiting)
    BY <1>4, <1>5, Elements
  <2> QED BY <1>4, <1>5, <2>1 DEF QueueAgrees
<1>7. QueueAgrees'
  <2>1. \A k \in 2 .. Len(waiting) :
          pc'[waiting[k]] = "spin" /\ before'[waiting[k]] = flag[waiting[k - 1]]
    BY <1>2, <1>3, <1>4, <1>6 DEF QueueAgrees
  <2> QED BY <1>1, <1>2, <2>1 DEF QueueAgrees
<1>8. \A u \in Threads : Owner(u) => flag[u] # before[t]
  BY <1>5 DEF FlagsAgree
<1>9. tail # before[t]
  <2>1. Len(waiting) \in 1 .. Len(waiting)
    BY <1>4, <1>5, Elements
  <2>2. Owner(waiting[Len(waiting)]) /\ tail = flag[waiting[Len(waiting)]]
    BY <1>4, <1>5, <2>1 DEF QueueAgrees, Owner
  <2> QED BY <1>4, <1>8, <2>1, <2>2
<1>10. \A u \in Threads : pc[u] = "spin" /\ u # t => before[u] # before[t]
  <2>1. ASSUME NEW u \in Threads, pc[u] = "spin", u # t PROVE before[u] # before[t]
    <3>1. PICK k \in 1 .. Len(waiting) : waiting[k] = u
      BY <2>1 DEF QueueAgrees, Queued
    <3>2. k \in 2 .. Len(waiting)
      BY <1>4, <1>5, <2>1, <3>1
    <3>3. before[u] = flag[waiting[k - 1]] /\ waiting[k - 1] \in Threads /\ Owner(waiting[k - 1])
      BY <1>4, <1>6, <3>1, <3>2 DEF QueueAgrees, Owner
    <3> QED BY <1>8, <3>3
  <2> QED BY <2>1
<1>11. allocated' = {tail'} \cup {flag'[u] : u \in {v \in Threads : Owner(v)'}}
                            \cup {before'[u] : u \in {v \in Threads : pc'[v] = "spin"}}
  <2>1. {v \in Threads : Owner(v)'} = {v \in Threads : Owner(v)}
    BY <1>2
  <2>2. {before'[u] : u \in {v \in Threads : pc'[v] = "spin"}}
          = {before[u] : u \in {v \in Threads : pc[v] = "spin"}} \ {before[t]}
    BY <1>2, <1>3, <1>10
  <2>3. {flag[u] : u \in {v \in Threads : Owner(v)}}
          = {flag[u] : u \in {v \in Threads : Owner(v)}} \ {before[t]}
    BY <1>8
  <2> QED BY <1>1, <1>9, <2>1, <2>2, <2>3 DEF FlagsAgree
<1>12. \A u \in Threads : pc'[u] = "spin" <=> before'[u] \in Nodes
  BY <1>2, <1>3, CounterAssumption DEF FlagsAgree
<1>13. \A u \in Threads : Owner(u)' => flag'[u] # before'[waiting'[1]]
  BY <1>1, <1>2, <1>3, <1>5, CounterAssumption DEF FlagsAgree
<1> QED BY <1>1, <1>2, <1>7, <1>11, <1>12, <1>13 DEF FlagsAgree

\* The first of the queue leaves it and clears its flag, which the next one spins on.
LEMMA UnlockKeeps ==
  ASSUME TypeOK, TypeOK', QueueAgrees, FlagsAgree, main = "join", program = "clh",
         NEW t \in Threads, Unlock(t)
  PROVE  QueueAgrees' /\ FlagsAgree'
<1>1. /\ pc[t] = "unlock" /\ \E l \in {"begin", "done"} : pc' = [pc EXCEPT ![t] = l]
      /\ value' = [value EXCEPT ![flag[t]] = FALSE] /\ flag' = [flag EXCEPT ![t] = NULL]
      /\ waiting' = Tail(waiting)
      /\ tail' = tail /\ before' = before /\ allocated' = allocated /\ main' = main
  BY DEF Unlock, Release, Goto, Locks
<1>2. /\ \A u \in Threads : Queued(u)' <=> Queued(u) /\ u # t
      /\ \A u \in Threads : Owner(u)' <=> Owner(u) /\ u # t
      /\ \A u \in Threads : pc'[u] = "spin" <=> pc[u] = "spin"
      /\ \A u \in Threads : pc'[u] = "swap" <=> pc[u] = "swap"
      /\ Owner(t) /\ Queued(t) /\ Critical(t) /\ pc[t] # "swap"
  <2>1. PICK l \in {"begin", "done"} : \A u \in Threads : pc'[u] = IF u = t THEN l ELSE pc[u]
    BY <1>1 DEF TypeOK
  <2> QED BY <1>1, <2>1 DEF Owner, Queued, Critical
<1>3. \A u \in Threads : flag'[u] = IF u = t THEN NULL ELSE flag[u]
  BY <1>1 DEF TypeOK
<1>4. waiting # <<>> /\ waiting[1] = t
  BY <1>2, CriticalIsFirst
<1>5. /\ Len(waiting) \in Nat \ {0} /\ Len(waiting') = Len(waiting) - 1
      /\ \A k \in 1 .. Len(waiting') : waiting'[k] = waiting[k + 1]
  BY <1>1, <1>4, HeadTailProperties, Elements DEF TypeOK
<1>6. \A k \in 1 .. Len(waiting) : waiting[k] \in Threads /\ Owner(waiting[k])
  BY Elements DEF QueueAgrees, Owner
<1>7. \A k \in 2 .. Len(waiting) : k \in 1 .. Len(waiting) /\ waiting[k] # t
  BY <1>4, <1>5 DEF QueueAgrees
<1>8. QueueAgrees'
  <2>1. ASSUME NEW u \in Threads
        PROVE  Queued(u)' <=> \E k \in 1 .. Len(waiting') : waiting'[k] = u
    <3>1. ASSUME Queued(u)' PROVE \E k \in 1 .. Len(waiting') : waiting'[k] = u
      <4>1. PICK m \in 1 .. Len(waiting) : waiting[m] = u
        BY <1>2, <3>1 DEF QueueAgrees
      <4>2. m - 1 \in 1 .. Len(waiting') /\ (m - 1) + 1 = m
        BY <1>2, <1>4, <1>5, <3>1, <4>1
      <4>3. waiting'[m - 1] = u
        BY <1>5, <4>1, <4>2
      <4> QED BY <4>2, <4>3
    <3>2. ASSUME NEW k \in 1 .. Len(waiting'), waiting'[k] = u PROVE Queued(u)'
      <4>1. k + 1 \in 2 .. Len(waiting) /\ waiting[k + 1] = u
        BY <1>5, <3>2
      <4> QED BY <1>2, <1>7, <4>1 DEF QueueAgrees
    <3> QED BY <3>1, <3>2
  <2>2. ASSUME NEW k \in 1 .. Len(waiting'), NEW m \in 1 .. Len(waiting'), waiting'[k] = waiting'[m]
        PROVE  k = m
    <3>1. k + 1 \in 1 .. Len(waiting) /\ m + 1 \in 1 .. Len(waiting) /\ waiting[k + 1] = waiting[m + 1]
      BY <1>5, <2>2
    <3> QED BY <3>1 DEF QueueAgrees
  <2>3. ASSUME NEW k \in 2 .. Len(waiting')
        PROVE  pc'[waiting'[k]] = "spin" /\ before'[waiting'[k]] = flag'[waiting'[k - 1]]
    <3>1. k + 1 \in 2 .. Len(waiting) /\ k \in 2 .. Len(waiting)
      BY <1>5
    <3>2. waiting'[k] = waiting[k + 1] /\ waiting'[k - 1] = waiting[k]
      BY <1>5
    <3>3. pc[waiting[k + 1]] = "spin" /\ before[waiting[k + 1]] = flag[waiting[k]]
      BY <3>1 DEF QueueAgrees
    <3>4. /\ waiting[k + 1] \in Threads
          /\ waiting[k] \in Threads /\ waiting[k] # t
      BY <1>6, <1>7, <3>1
    <3> QED BY <1>1, <1>2, <1>3, <3>2, <3>3, <3>4
  <2>4. waiting' # <<>> => tail' = flag'[waiting'[Len(waiting')]]
    <3>1. ASSUME waiting' # <<>> PROVE tail' = flag'[waiting'[Len(waiting')]]
      <4>1. Len(waiting') \in 1 .. Len(waiting') /\ Len(waiting) \in 2 .. Len(waiting)
        BY <1>5, <3>1, EmptySeq, LenProperties DEF TypeOK
      <4>2. waiting'[Len(waiting')] = waiting[Len(waiting)]
        BY <1>5, <4>1
      <4>3. waiting[Len(waiting)] \in Threads /\ waiting[Len(waiting)] # t
        BY <1>6, <1>7, <4>1
      <4> QED BY <1>1, <1>3, <1>4, <4>2, <4>3 DEF QueueAgrees
    <3> QED BY <3>1
  <2> QED BY <2>1, <2>2, <2>3, <2>4 DEF QueueAgrees
<1>9. \A u \in Threads : Owner(u) /\ u # t => flag[u] # flag[t]
  BY <1>2 DEF FlagsAgree
<1>10. \A u \in Threads : Owner(u)' => flag'[u] \in Nodes /\ value'[flag'[u]]
  BY <1>1, <1>2, <1>3, <1>9 DEF FlagsAgree, TypeOK
<1>11. ASSUME NEW u \in Threads, waiting' # <<>>, Owner(u)'
       PROVE  flag'[u] # before'[waiting'[1]]
  <2>1. 1 \in 1 .. Len(waiting') /\ 2 \in 2 .. Len(waiting)
    BY <1>5, <1>11, EmptySeq, LenProperties DEF TypeOK
  <2>2. waiting'[1] = waiting[2] /\ before[waiting[2]] = flag[t]
    BY <1>4, <1>5, <2>1 DEF QueueAgrees
  <2> QED BY <1>1, <1>2, <1>3, <1>9, <1>11, <2>2
<1>12. allocated' = {tail'} \cup {flag'[u] : u \in {v \in Threads : Owner(v)'}}
                            \cup {before'[u] : u \in {v \in Threads : pc'[v] = "spin"}}
  <2>1. {flag[u] : u \in {v \in Threads : Owner(v)}}
          = {flag'[u] : u \in {v \in Threads : Owner(v)'}} \cup {flag[t]}
    BY <1>2, <1>3
  <2>2. {v \in Threads : pc'[v] = "spin"} = {v \in Threads : pc[v] = "spin"}
    BY <1>2
  <2>3. flag[t] = tail \/ flag[t] \in {before[u] : u \in {v \in Threads : pc[v] = "spin"}}
    <3>1. CASE Len(waiting) = 1
      BY <1>4, <3>1 DEF QueueAgrees
    <3>2. CASE Len(waiting) # 1
      <4>1. 2 \in 2 .. Len(waiting)
        BY <1>5, <3>2
      <4>2. waiting[2] \in Threads /\ pc[waiting[2]] = "spin" /\ before[waiting[2]] = flag[t]
        BY <1>4, <1>6, <1>7, <4>1 DEF QueueAgrees
      <4> QED BY <4>2
    <3> QED BY <3>1, <3>2
  <2>4. {before'[u] : u \in {v \in Threads : pc'[v] = "spin"}}
          = {before[u] : u \in {v \in Threads : pc[v] = "spin"}}
    BY <1>1, <2>2
  <2>5. allocated = {tail} \cup {flag[u] : u \in {v \in Threads : Owner(v)}}
                           \cup {before[u] : u \in {v \in Threads : pc[v] = "spin"}}
    BY DEF FlagsAgree
  <2> QED BY <1>1, <2>1, <2>3, <2>4, <2>5, Zenon
<1> QED BY <1>1, <1>2, <1>3, <1>8, <1>10, <1>11, <1>12 DEF FlagsAgree

\* At the end the last flag is deleted.
LEMMA JoinKeeps ==
  ASSUME TypeOK, TypeOK', QueueAgrees, FlagsAgree, Join
  PROVE  QueueAgrees' /\ FlagsAgree'
<1>1. /\ \A u \in Threads : pc[u] = "done" /\ ~Owner(u) /\ ~Queued(u)
      /\ main = "join" /\ main' = "end" /\ allocated' = allocated \ {tail}
      /\ UNCHANGED <<pc, value, tail, flag, before, waiting>>
  BY DEF Join, queueVars, Owner, Queued, Critical
<1>2. QueueAgrees'
  BY <1>1, Elements DEF QueueAgrees, Queued, Critical
<1>3. waiting = <<>>
  BY <1>1, Elements DEF QueueAgrees
<1>4. allocated = {tail}
  BY <1>1 DEF FlagsAgree
<1>5. FlagsAgree'
  BY <1>1, <1>3, <1>4 DEF FlagsAgree, Owner, Queued, Critical
<1> QED BY <1>2, <1>5

LEMMA QueueKeepsLocks ==
  ASSUME LockInv, Next, program = "clh", TypeOK'
  PROVE  QueueAgrees' /\ FlagsAgree' /\ MutualExclusion' /\ WordAgrees' /\ program' = program
<1>1. TypeOK /\ StagesAgree /\ QueueAgrees /\ FlagsAgree
  BY DEF LockInv
<1>2. program' = program
  BY DEF Next, Run, Begin, Look, TestAndSet, NewFlag, Swap, Spin, Handler, PrintCount, Load,
    Store, Unlock, Join, Ended, vars
<1>3. QueueAgrees' /\ FlagsAgree'
  <2>1. ASSUME NEW t \in Threads, Run(t) PROVE QueueAgrees' /\ FlagsAgree'
    <3>1. main = "join"
      BY <1>1, <2>1 DEF TypeOK, FlagsAgree, Run, Begin, Look, TestAndSet, NewFlag, Swap, Spin,
        Handler, PrintCount, Load, Store, Unlock
    <3>2. ASSUME Begin(t) \/ Load(t) \/ Store(t) PROVE QueueAgrees' /\ FlagsAgree'
      <4>1. UNCHANGED <<value, allocated, tail, flag, before, waiting, main>>
        BY <3>2 DEF Begin, Load, Store, nodeVars, queueVars
      <4>2. PICK l \in {"new", "store", "unlock"} :
              /\ pc' = [pc EXCEPT ![t] = l]
              /\ l = "new" <=> pc[t] = "begin"
              /\ pc[t] \in {"begin", "load", "store"}
        BY <3>2 DEF Begin, Load, Store, Goto
      <4>3. \A u \in Threads :
              /\ pc'[u] = "swap" <=> pc[u] = "swap"
              /\ pc'[u] = "spin" <=> pc[u] = "spin"
              /\ Critical(u)' <=> Critical(u)
        BY <1>1, <4>2 DEF TypeOK, Critical
      <4> QED BY <1>1, <3>1, <4>1, <4>3, SameQueueKeeps
    <3>3. ~Look(t) /\ ~TestAndSet(t) /\ ~Handler(t) /\ ~PrintCount(t)
      BY <1>1 DEF StagesAgree, Look, TestAndSet, Handler, PrintCount, Timers
    <3> QED BY <1>1, <2>1, <3>1, <3>2, <3>3, NewFlagKeeps, SwapKeeps, SpinKeeps, UnlockKeeps DEF Run
  <2>2. ASSUME Ended PROVE QueueAgrees' /\ FlagsAgree'
    BY <1>1, <2>2 DEF Ended, vars, nodeVars, queueVars, QueueAgrees, FlagsAgree, Owner, Queued,
      Critical
  <2> QED BY <1>1, <2>1, <2>2, JoinKeeps DEF Next
<1>4. MutualExclusion'
  <2>1. ASSUME NEW t \in Threads, Critical(t)' PROVE waiting'[1] = t
    <3>1. PICK k \in 1 .. Len(waiting') : waiting'[k] = t
      BY <1>3, <2>1 DEF QueueAgrees, Queued
    <3>2. Len(waiting') \in Nat
      BY LenProperties DEF TypeOK
    <3>3. k = 1
      BY <1>3, <2>1, <3>1, <3>2 DEF QueueAgrees, Critical
    <3> QED BY <3>1, <3>3
  <2> QED BY <2>1 DEF MutualExclusion
<1>5. WordAgrees'
  BY <1>2 DEF WordAgrees
<1> QED BY <1>2, <1>3, <1>4, <1>5

LEMMA LocksStep == LockInv /\ [Next]_vars => LockInv'
<1>1. ASSUME LockInv, Next PROVE LockInv'
  <2>1. TypeOK' /\ StagesAgree'
    BY <1>1, TypesKept
  <2>2. CASE program = "clh"
    BY <1>1, <2>1, <2>2, QueueKeepsLocks DEF LockInv
  <2>3. CASE program # "clh"
    <3>1. program' = program
      BY <1>1 DEF Next, Run, Begin, Look, TestAndSet, NewFlag, Swap, Spin, Handler, PrintCount,
        Load, Store, Unlock, Join, Ended, vars
    <3> QED BY <1>1, <2>1, <2>3, <3>1, WordKeepsLocks DEF LockInv
  <2> QED BY <2>2, <2>3
<1>2. ASSUME LockInv, UNCHANGED vars PROVE LockInv'
  <2>1. TypeOK' /\ StagesAgree' /\ MutualExclusion' /\ WordAgrees' /\ program' = program
    BY <1>2 DEF vars, nodeVars, queueVars, LockInv, TypeOK, StagesAgree, MutualExclusion, WordAgrees,
      Critical
  <2>2. program = "clh" => QueueAgrees'
    BY <1>2 DEF vars, nodeVars, queueVars, LockInv, QueueAgrees, Queued, Critical
  <2>3. program = "clh" => FlagsAgree'
    BY <1>2 DEF vars, nodeVars, queueVars, LockInv, FlagsAgree, Owner, Queued, Critical
  <2> QED BY <2>1, <2>2, <2>3 DEF LockInv
<1> QED BY <1>1, <1>2

-----------------------------------------------------------------------------
(***************************************************************************)
(* What is counted under a lock: each turn of thread_work once.            *)
(***************************************************************************)
LEMMA TurnsAreFinite == IsFiniteSet(Threads \X (1 .. NUM_WORK)) /\ IsFiniteSet(Turns)
<1>1. IsFiniteSet(1 .. NUM_WORK)
  BY FS_Interval, CounterAssumption
<1>2. IsFiniteSet(Threads \X (1 .. NUM_WORK))
  BY <1>1, FS_Product, CounterAssumption
<1> QED BY <1>2, FS_Subset DEF Turns

LEMMA SameTurns ==
  ASSUME \A t \in Threads : Turned(t)' = Turned(t)
  PROVE  Turns' = Turns
BY DEF Turns

\* An increment is one more turn.
LEMMA StoreCounts ==
  ASSUME LockInv, LocksCount, program \in Locks, NEW t \in Threads, Store(t)
  PROVE  LocksCount'
<1>1. TypeOK /\ StagesAgree /\ MutualExclusion
  BY DEF LockInv
<1>2. /\ \A u \in Threads : pc'[u] = IF u = t THEN "unlock" ELSE pc[u]
      /\ \A u \in Threads : i'[u] = i[u]
      /\ program' = program /\ pc[t] = "store" /\ cnt_global' = loaded[t] + 1
  BY <1>1 DEF Store, Goto, TypeOK
<1>3. i[t] \in Nat /\ i[t] + 1 \in 1 .. NUM_WORK
  <2>1. i[t] \in 0 .. NUM_WORK /\ i[t] < NUM_WORK
    BY <1>1, <1>2 DEF TypeOK, StagesAgree
  <2> QED BY <2>1, CounterAssumption
<1>4. \A u \in Threads : Turned(u)' = IF u = t THEN i[t] + 1 ELSE Turned(u)
  BY <1>2 DEF Turned
<1>5. Turned(t) = i[t]
  BY <1>2, <1>3 DEF Turned
<1>6. Turns' = Turns \cup {<<t, i[t] + 1>>}
  <2>1. ASSUME NEW x \in Threads \X (1 .. NUM_WORK)
        PROVE  x[2] <= Turned(x[1])' <=> x[2] <= Turned(x[1]) \/ x = <<t, i[t] + 1>>
    <3>1. x[1] \in Threads /\ x[2] \in Nat /\ x = <<x[1], x[2]>>
      BY <2>1, CounterAssumption
    <3>2. CASE x[1] = t
      <4>1. x[2] <= i[t] + 1 <=> x[2] <= i[t] \/ x[2] = i[t] + 1
        BY <1>3, <3>1
      <4> QED BY <1>4, <1>5, <3>1, <3>2, <4>1
    <3>3. CASE x[1] # t
      BY <1>4, <3>1, <3>3
    <3> QED BY <3>2, <3>3
  <2>2. <<t, i[t] + 1>> \in Threads \X (1 .. NUM_WORK)
    BY <1>3
  <2> QED BY <2>1, <2>2 DEF Turns
<1>7. <<t, i[t] + 1>> \notin Turns
  BY <1>3, <1>5 DEF Turns
<1>8. Cardinality(Turns') = Cardinality(Turns) + 1
  BY <1>6, <1>7, TurnsAreFinite, FS_AddElement
<1>9. cnt_global' = cnt_global + 1
  BY <1>2 DEF LocksCount
<1>10. \A u \in Threads : pc'[u] # "store"
  BY <1>1, <1>2 DEF MutualExclusion, Critical, Locks
<1> QED BY <1>2, <1>8, <1>9, <1>10 DEF LocksCount

LEMMA LocksCountStep ==
  ASSUME LockInv, LocksCount, Next
  PROVE  LocksCount'
<1>1. TypeOK /\ StagesAgree /\ MutualExclusion
  BY DEF LockInv
<1>2. program' = program
  BY DEF Next, Run, Begin, Look, TestAndSet, NewFlag, Swap, Spin, Handler, PrintCount, Load,
    Store, Unlock, Join, Ended, vars
<1> SUFFICES ASSUME program \in Locks PROVE LocksCount'
  BY <1>2 DEF LocksCount
<1>3. /\ cnt_global = Cardinality(Turns)
      /\ \A t \in Threads : pc[t] = "store" => loaded[t] = cnt_global
      /\ \A t \in Threads : pc[t] = "done" => i[t] = NUM_WORK
  BY DEF LocksCount
<1>4. ASSUME NEW t \in Threads,
             Begin(t) \/ Look(t) \/ TestAndSet(t) \/ NewFlag(t) \/ Swap(t) \/ Spin(t) \/ Load(t)
      PROVE  LocksCount'
  <2>1. cnt_global' = cnt_global /\ i' = i
    BY <1>4 DEF Begin, Look, TestAndSet, NewFlag, Swap, Spin, Load
  <2>2. pc[t] # "unlock" /\ \E l : pc' = [pc EXCEPT ![t] = l] /\ l \notin {"unlock", "done"}
    BY <1>4 DEF Begin, Look, TestAndSet, NewFlag, Swap, Spin, Load, Goto, Locks
  <2>3. \A u \in Threads : /\ pc'[u] = "unlock" <=> pc[u] = "unlock"
                           /\ pc'[u] = "done" => pc[u] = "done"
    BY <1>1, <2>2 DEF TypeOK
  <2>4. Turns' = Turns
    BY <2>1, <2>3, SameTurns DEF Turned
  <2>5. \A u \in Threads : pc'[u] = "store" => loaded'[u] = cnt_global
    <3>1. CASE Load(t)
      BY <1>1, <1>3, <3>1 DEF Load, Goto, TypeOK
    <3>2. CASE ~Load(t)
      BY <1>1, <1>3, <1>4, <3>2 DEF Begin, Look, TestAndSet, NewFlag, Swap, Spin, Goto, TypeOK
    <3> QED BY <3>1, <3>2
  <2> QED BY <1>3, <2>1, <2>3, <2>4, <2>5 DEF LocksCount
<1>5. ASSUME NEW t \in Threads, Unlock(t) PROVE LocksCount'
  <2>1. /\ i' = [i EXCEPT ![t] = @ + 1] /\ cnt_global' = cnt_global /\ loaded' = loaded
        /\ pc' = [pc EXCEPT ![t] = IF AnotherTurn(t) THEN "begin" ELSE "done"] /\ pc[t] = "unlock"
    BY <1>5 DEF Unlock, Goto
  <2>2. i[t] \in Nat /\ i[t] < NUM_WORK /\ NUM_WORK \in Nat
    BY <1>1, <2>1, CounterAssumption DEF TypeOK, StagesAgree
  <2>3. \A u \in Threads : Turned(u)' = Turned(u)
    BY <1>1, <2>1, <2>2 DEF TypeOK, Turned
  <2>4. pc'[t] = "done" => i'[t] = NUM_WORK
    BY <1>1, <2>1, <2>2 DEF TypeOK, AnotherTurn
  <2>5. \A u \in Threads : u # t => pc'[u] = pc[u] /\ i'[u] = i[u]
    BY <1>1, <2>1 DEF TypeOK
  <2>6. pc'[t] # "store"
    BY <1>1, <2>1 DEF TypeOK
  <2> QED BY <1>3, <2>1, <2>3, <2>4, <2>5, <2>6, SameTurns DEF LocksCount
<1>6. ASSUME NEW t \in Threads, Handler(t) \/ PrintCount(t) PROVE FALSE
  BY <1>1, <1>6 DEF Handler, PrintCount, StagesAgree, Locks, Timers
<1>7. ASSUME Join \/ Ended PROVE LocksCount'
  <2>1. UNCHANGED <<cnt_global, i, loaded, pc>>
    BY <1>7 DEF Join, Ended, vars
  <2> QED BY <1>3, <2>1, SameTurns DEF LocksCount, Turned
<1> QED BY <1>4, <1>5, <1>6, <1>7, StoreCounts DEF Next, Run

-----------------------------------------------------------------------------
(***************************************************************************)
(* What is counted by the timers.                                          *)
(***************************************************************************)

\* The steps of a handler, and what the others of a program of timers keep.
LEMMA TimerSteps ==
  ASSUME TypeOK, StagesAgree, program \in Timers, NEW t \in Threads, Run(t)
  PROVE  /\ Begin(t) \/ Handler(t) \/ PrintCount(t) \/ Load(t) \/ Store(t) \/ Unlock(t)
         /\ \A u \in Threads \ {t} : pc'[u] = pc[u]
         /\ Begin(t) => pc[t] = "begin" /\ pc'[t] = "handler"
         /\ Unlock(t) => pc[t] = "unlock" /\ pc'[t] = "begin"
         /\ Begin(t) \/ Unlock(t) \/ Handler(t) => UNCHANGED <<cnt_global, loaded, printed>>
BY DEF TypeOK, StagesAgree, Run, Begin, Look, TestAndSet, NewFlag, Swap, Spin, Handler, PrintCount,
  Load, Store, Unlock, Goto, Locks, Timers

LEMMA StrandCountsStep ==
  ASSUME LockInv, StrandCounts, Next
  PROVE  StrandCounts'
<1>1. TypeOK /\ StagesAgree /\ MutualExclusion /\ WordAgrees
  BY DEF LockInv
<1>2. program' = program
  BY DEF Next, Run, Begin, Look, TestAndSet, NewFlag, Swap, Spin, Handler, PrintCount, Load,
    Store, Unlock, Join, Ended, vars
<1> SUFFICES ASSUME program = "strand" PROVE StrandCounts'
  BY <1>2 DEF StrandCounts
<1>3. cnt_global \in Nat /\ Limit \in Nat /\ Len(printed) \in Nat /\ TwoTimers \subseteq Threads
  BY <1>1, CounterAssumption, LenProperties DEF TypeOK
<1>4. ASSUME NEW t \in Threads, Run(t) PROVE StrandCounts'
  <2>1. /\ Begin(t) \/ Handler(t) \/ PrintCount(t) \/ Load(t) \/ Store(t) \/ Unlock(t)
        /\ \A u \in Threads \ {t} : pc'[u] = pc[u]
        /\ Begin(t) => pc[t] = "begin" /\ pc'[t] = "handler"
        /\ Unlock(t) => pc[t] = "unlock" /\ pc'[t] = "begin"
        /\ Begin(t) \/ Unlock(t) \/ Handler(t) => UNCHANGED <<cnt_global, loaded, printed>>
    BY <1>1, <1>4, TimerSteps DEF Timers
  <2>2. Critical(t) => \A u \in Threads \ {t} : ~Critical(u)
    BY <1>1 DEF MutualExclusion
  <2>3. CASE Begin(t) \/ Unlock(t)
    BY <1>2, <1>3, <2>1, <2>3 DEF StrandCounts
  <2>4. CASE Handler(t)
    <3>1. pc[t] = "handler" /\ pc'[t] = IF cnt_global < Limit THEN "print" ELSE "done"
      BY <1>1, <2>4 DEF Handler, Goto, TypeOK, BelowLimit
    <3>2. UNCHANGED <<cnt_global, loaded, printed>>
      BY <2>1, <2>4
    <3>3. CASE cnt_global < Limit
      BY <1>2, <1>3, <2>1, <3>1, <3>2, <3>3 DEF StrandCounts
    <3>4. CASE ~(cnt_global < Limit)
      <4>1. cnt_global = Limit
        BY <1>3, <3>4 DEF StrandCounts
      <4> QED BY <1>2, <1>3, <2>1, <3>1, <3>2, <4>1 DEF StrandCounts
    <3> QED BY <3>3, <3>4
  <2>5. CASE PrintCount(t)
    <3>1. /\ pc[t] = "print" /\ pc'[t] = "load" /\ UNCHANGED <<cnt_global, loaded>>
          /\ printed' = Append(printed, cnt_global)
      BY <1>1, <2>5 DEF PrintCount, Goto, TypeOK
    <3>2. Critical(t) /\ \A u \in Threads : pc[u] \notin {"load", "store"}
      BY <2>2, <3>1 DEF Critical
    <3>3. Len(printed) = cnt_global
      BY <1>3, <3>2 DEF StrandCounts
    <3>4. /\ Len(printed') = cnt_global + 1
          /\ \A n \in 1 .. Len(printed) : printed'[n] = printed[n]
          /\ printed'[Len(printed) + 1] = cnt_global
      <4>1. printed \in Seq(Nat)
        BY <1>1 DEF TypeOK
      <4>2. /\ Len(Append(printed, cnt_global)) = Len(printed) + 1
            /\ \A n \in 1 .. Len(printed) : Append(printed, cnt_global)[n] = printed[n]
            /\ Append(printed, cnt_global)[Len(printed) + 1] = cnt_global
        BY <1>3, <4>1, AppendProperties
      <4> QED BY <3>1, <3>3, <4>2
    <3>5. \A n \in 1 .. Len(printed') : printed'[n] = n - 1
      <4>1. \A n \in 1 .. Len(printed') : n \in 1 .. Len(printed) \/ n = Len(printed) + 1
        BY <1>3, <3>3, <3>4
      <4> QED BY <1>3, <3>3, <3>4, <4>1 DEF StrandCounts
    <3> QED BY <1>2, <1>3, <2>1, <3>1, <3>2, <3>4, <3>5 DEF StrandCounts
  <2>6. CASE Load(t)
    <3>1. /\ pc[t] = "load" /\ pc'[t] = "store" /\ UNCHANGED <<cnt_global, printed>>
          /\ \A u \in Threads : loaded'[u] = IF u = t THEN cnt_global ELSE loaded[u]
      BY <1>1, <2>6 DEF Load, Goto, TypeOK
    <3> QED BY <1>2, <1>3, <2>1, <3>1 DEF StrandCounts
  <2>7. CASE Store(t)
    <3>1. /\ pc[t] = "store" /\ pc'[t] = "unlock" /\ printed' = printed
          /\ cnt_global' = loaded[t] + 1 /\ \A u \in Threads \ {t} : loaded'[u] = loaded[u]
      BY <1>1, <2>7 DEF Store, Goto, TypeOK
    <3>2. cnt_global' = cnt_global + 1 /\ cnt_global < Limit /\ Len(printed) = cnt_global + 1
      BY <3>1 DEF StrandCounts
    <3>3. \A u \in Threads : pc'[u] \notin {"print", "load", "store"}
      BY <2>1, <2>2, <3>1 DEF Critical
    <3>4. \A u \in TwoTimers : pc'[u] # "done"
      BY <1>3, <2>1, <3>1, <3>2 DEF StrandCounts
    <3> QED BY <1>2, <1>3, <3>1, <3>2, <3>3, <3>4 DEF StrandCounts
  <2> QED BY <2>1, <2>3, <2>4, <2>5, <2>6, <2>7
<1>5. ASSUME Join \/ Ended PROVE StrandCounts'
  <2>1. UNCHANGED <<cnt_global, loaded, pc, printed>>
    BY <1>5 DEF Join, Ended, vars
  <2> QED BY <1>2, <2>1 DEF StrandCounts
<1> QED BY <1>4, <1>5 DEF Next
\* There are two timers and no third.
LEMMA TwoExist == TwoTimers \subseteq Threads /\ \E t \in TwoTimers : TRUE
<1>1. IsFiniteSet(TwoTimers)
  BY FS_Subset, CounterAssumption
<1> QED BY <1>1, FS_EmptySet, CounterAssumption

LEMMA TwoOnly ==
  ASSUME NEW t \in TwoTimers, NEW u \in TwoTimers, t # u
  PROVE  \A v \in TwoTimers : v \in {t, u}
<1>1. IsFiniteSet(TwoTimers)
  BY FS_Subset, CounterAssumption
<1>2. IsFiniteSet(TwoTimers \ {t}) /\ Cardinality(TwoTimers \ {t}) = 1
  BY <1>1, FS_RemoveElement, CounterAssumption
<1>3. IsFiniteSet((TwoTimers \ {t}) \ {u}) /\ Cardinality((TwoTimers \ {t}) \ {u}) = 0
  BY <1>2, FS_RemoveElement
<1>4. (TwoTimers \ {t}) \ {u} = {}
  BY <1>3, FS_EmptySet
<1> QED BY <1>4

\* Two handlers that both pass the test end the count one beyond the limit, not further:
\* the second to store has loaded at most the limit, and the first does not pass again.
LEMMA RaceCountsStep ==
  ASSUME LockInv, RaceCounts, Next
  PROVE  RaceCounts'
<1>1. TypeOK /\ StagesAgree
  BY DEF LockInv
<1>2. program' = program
  BY DEF Next, Run, Begin, Look, TestAndSet, NewFlag, Swap, Spin, Handler, PrintCount, Load,
    Store, Unlock, Join, Ended, vars
<1> SUFFICES ASSUME program = "race" PROVE RaceCounts'
  BY <1>2 DEF RaceCounts
<1>3. cnt_global \in Nat /\ Limit \in Nat /\ \A t \in Threads : loaded[t] \in Nat
  BY <1>1, CounterAssumption DEF TypeOK
<1>4. ASSUME NEW t \in Threads, Run(t) PROVE RaceCounts'
  <2>1. /\ Begin(t) \/ Handler(t) \/ PrintCount(t) \/ Load(t) \/ Store(t) \/ Unlock(t)
        /\ \A u \in Threads \ {t} : pc'[u] = pc[u]
        /\ Begin(t) => pc[t] = "begin" /\ pc'[t] = "handler"
        /\ Unlock(t) => pc[t] = "unlock" /\ pc'[t] = "begin"
        /\ Begin(t) \/ Unlock(t) \/ Handler(t) => UNCHANGED <<cnt_global, loaded, printed>>
    BY <1>1, <1>4, TimerSteps DEF Timers
  <2>2. pc[t] # "done" /\ t \in TwoTimers /\ \A u \in Threads \ TwoTimers : pc'[u] = "done"
    BY <1>4, <2>1 DEF RaceCounts, Begin, Handler, PrintCount, Load, Store, Unlock
  <2>3. CASE Begin(t) \/ Unlock(t)
    BY <1>2, <1>3, <2>1, <2>2, <2>3 DEF RaceCounts, LastToCount
  <2>4. CASE Handler(t)
    <3>1. pc[t] = "handler" /\ pc'[t] = IF cnt_global < Limit THEN "print" ELSE "done"
      BY <1>1, <2>4 DEF Handler, Goto, TypeOK, BelowLimit
    <3>2. UNCHANGED <<cnt_global, loaded, printed>>
      BY <2>1, <2>4
    <3>3. CASE cnt_global < Limit
      BY <1>2, <1>3, <2>1, <2>2, <3>1, <3>2, <3>3 DEF RaceCounts, LastToCount
    <3>4. CASE ~(cnt_global < Limit)
      BY <1>2, <1>3, <2>1, <2>2, <3>1, <3>2, <3>4 DEF RaceCounts, LastToCount
    <3> QED BY <3>3, <3>4
  <2>5. CASE PrintCount(t)
    <3>1. pc[t] = "print" /\ pc'[t] = "load" /\ UNCHANGED <<cnt_global, loaded>>
      BY <1>1, <2>5 DEF PrintCount, Goto, TypeOK
    <3> QED BY <1>2, <1>3, <2>1, <2>2, <3>1 DEF RaceCounts, LastToCount
  <2>6. CASE Load(t)
    <3>1. /\ pc[t] = "load" /\ pc'[t] = "store" /\ UNCHANGED cnt_global
          /\ \A u \in Threads : loaded'[u] = IF u = t THEN cnt_global ELSE loaded[u]
      BY <1>1, <2>6 DEF Load, Goto, TypeOK
    <3> QED BY <1>2, <1>3, <2>1, <2>2, <3>1 DEF RaceCounts, LastToCount
  <2>7. CASE Store(t)
    <3>1. /\ pc[t] = "store" /\ pc'[t] = "unlock" /\ cnt_global' = loaded[t] + 1
          /\ \A u \in Threads \ {t} : loaded'[u] = loaded[u]
      BY <1>1, <2>7 DEF Store, Goto, TypeOK
    <3>2. loaded[t] <= Limit /\ cnt_global' <= Limit + 1
      BY <1>3, <3>1 DEF RaceCounts
    <3>3. \A u \in Threads \ {t} : pc[u] = "store" => loaded[u] < Limit
      BY <1>3, <3>1 DEF RaceCounts, LastToCount
    <3>4. \A u \in Threads : pc'[u] = "store" => loaded'[u] < Limit
      BY <2>1, <3>1, <3>3
    <3>5. ASSUME NEW u \in Threads, pc'[u] \in {"print", "load"}
          PROVE  cnt_global' < Limit \/ (cnt_global' = Limit /\ LastToCount(u)')
      <4>1. u # t /\ pc[u] \in {"print", "load"} /\ u \in TwoTimers
        BY <2>1, <2>2, <3>1, <3>5
      <4>2. ~LastToCount(t)
        BY <4>1 DEF LastToCount
      <4>3. loaded[t] < Limit
        BY <3>1, <4>2 DEF RaceCounts
      <4>4. \A v \in TwoTimers : v \in {t, u}
        BY <2>2, <4>1, TwoOnly
      <4>5. LastToCount(u)'
        BY <2>2, <3>1, <4>4 DEF LastToCount
      <4>6. loaded[t] + 1 < Limit \/ loaded[t] + 1 = Limit
        BY <1>3, <4>3
      <4> QED BY <3>1, <4>5, <4>6
    <3>6. ~(\A u \in Threads : pc'[u] = "done")
      BY <3>1
    <3> QED BY <1>2, <2>2, <3>2, <3>4, <3>5, <3>6 DEF RaceCounts
  <2> QED BY <2>1, <2>3, <2>4, <2>5, <2>6, <2>7
<1>5. ASSUME Join \/ Ended PROVE RaceCounts'
  <2>1. UNCHANGED <<cnt_global, loaded, pc>>
    BY <1>5 DEF Join, Ended, vars
  <2> QED BY <1>2, <2>1 DEF RaceCounts, LastToCount
<1> QED BY <1>4, <1>5 DEF Next

LEMMA CountsInitially ==
  ASSUME Init
  PROVE  LocksCount /\ StrandCounts /\ RaceCounts /\ JoinedAll
<1>1. /\ cnt_global = 0 /\ main = "join" /\ printed = <<>> /\ Len(printed) = 0
      /\ \A t \in Threads : i[t] = 0 /\ loaded[t] = 0
      /\ \A t \in Threads :
           pc[t] = IF program \in Timers /\ t \notin TwoTimers THEN "done" ELSE "begin"
  BY EmptySeq DEF Init
<1>2. Limit \in Nat \ {0} /\ NUM_WORK \in Nat \ {0} /\ TwoTimers \subseteq Threads
  BY CounterAssumption
<1>3. LocksCount
  <2>1. Turns = {}
    BY <1>1, <1>2 DEF Turns, Turned
  <2>2. program \in Locks => \A t \in Threads : pc[t] = "begin"
    BY <1>1 DEF Locks, Timers
  <2> QED BY <1>1, <2>1, <2>2, FS_EmptySet DEF LocksCount
<1>4. StrandCounts
  BY <1>1, <1>2 DEF StrandCounts, Timers
<1>5. RaceCounts
  <2>1. \E t \in Threads : t \in TwoTimers
    BY <1>2, TwoExist
  <2> QED BY <1>1, <1>2, <2>1 DEF RaceCounts, Timers
<1> QED BY <1>1, <1>3, <1>4, <1>5 DEF JoinedAll

LEMMA JoinedStep ==
  ASSUME JoinedAll, TypeOK, Next
  PROVE  JoinedAll'
<1>1. ASSUME NEW t \in Threads, Run(t) PROVE main' = main /\ pc[t] # "done"
  BY <1>1 DEF Run, Begin, Look, TestAndSet, NewFlag, Swap, Spin, Handler, PrintCount, Load, Store,
    Unlock
<1>2. Join \/ Ended => JoinedAll'
  BY DEF Join, Ended, vars, JoinedAll
<1> QED BY <1>1, <1>2 DEF Next, JoinedAll

LEMMA NextKeepsInv == Inv /\ [Next]_vars => Inv'
<1>1. ASSUME Inv, Next PROVE Inv'
  <2>1. LockInv'
    BY <1>1, LocksStep DEF Inv
  <2> QED BY <1>1, <2>1, LocksCountStep, StrandCountsStep, RaceCountsStep, JoinedStep
       DEF Inv, LockInv
<1>2. ASSUME Inv, UNCHANGED vars PROVE Inv'
  <2>1. LockInv'
    BY <1>2, LocksStep DEF Inv
  <2>2. LocksCount'
    BY <1>2, SameTurns DEF vars, Inv, LocksCount, Turned
  <2> QED BY <1>2, <2>1, <2>2 DEF vars, Inv, StrandCounts, RaceCounts, LastToCount, JoinedAll
<1> QED BY <1>1, <1>2

-----------------------------------------------------------------------------
\* The locks and the strand let one thread at a time count; the queue and the flags of the
\* queue lock agree with the threads, and the count with the turns that are done
\* (prac_taslock.cpp:12-44, prac_ttaslock.cpp:11-30, prac_clhlock.cpp:12-33,
\* timer_2thread.cpp:36-81, timer_fix_race.cpp:20-42).
THEOREM Invariance == Spec => []Inv
<1>1. Init => Inv
  BY LocksInitially, CountsInitially DEF Inv
<1> QED BY <1>1, NextKeepsInv, PTL DEF Spec

\* No increment under a lock is lost, however many threads and turns there are; the strand
\* counts and prints each number below the limit once; two timers without it stop at the limit
\* or one beyond, whatever increments they lose
\* (prac_taslock.cpp:40, timer_2thread.cpp:41,51-53,81, timer_fix_race.cpp:20-42).
THEOREM CountAtTheEnd == Spec => []FinalCount
<1>1. Inv => FinalCount
  <2> SUFFICES ASSUME Inv, main = "end" PROVE FinalCount
    BY DEF FinalCount
  <2>1. TypeOK /\ \A t \in Threads : pc[t] = "done"
    BY DEF Inv, LockInv, JoinedAll
  <2>2. CASE program \in Locks
    <3>1. cnt_global = Cardinality(Turns) /\ \A t \in Threads : Turned(t) = NUM_WORK
      BY <2>1, <2>2, CounterAssumption DEF Inv, LocksCount, Turned
    <3>2. Turns = Threads \X (1 .. NUM_WORK)
      BY <3>1, CounterAssumption DEF Turns
    <3>3. IsFiniteSet(1 .. NUM_WORK) /\ Cardinality(1 .. NUM_WORK) = NUM_WORK
      BY FS_Interval, CounterAssumption
    <3>4. Cardinality(Turns) = Cardinality(Threads) * NUM_WORK
      BY <3>2, <3>3, FS_Product, CounterAssumption
    <3>5. Cardinality(Threads) \in Nat /\ NUM_WORK \in Nat
      BY FS_CardinalityType, CounterAssumption
    <3>6. cnt_global = NUM_WORK * Cardinality(Threads)
      BY <3>1, <3>4, <3>5
    <3> QED BY <2>2, <3>6 DEF FinalCount, Locks
  <2>3. CASE program = "strand"
    <3>1. cnt_global = Limit /\ Limit \in Nat
      BY <2>1, <2>3, TwoExist, CounterAssumption DEF Inv, StrandCounts
    <3>2. Len(printed) = Limit /\ \A n \in 1 .. Limit : printed[n] = n - 1
      BY <2>1, <2>3, <3>1 DEF Inv, StrandCounts
    <3>3. printed = [n \in 1 .. Limit |-> n - 1]
      BY <2>1, <3>2, LenProperties DEF TypeOK
    <3> QED BY <2>3, <3>1, <3>3 DEF FinalCount, Locks
  <2>4. CASE program = "race"
    <3>1. cnt_global \in Nat /\ Limit \in Nat /\ cnt_global >= Limit /\ cnt_global <= Limit + 1
      BY <2>1, <2>4, CounterAssumption DEF Inv, RaceCounts, TypeOK
    <3> QED BY <2>4, <3>1 DEF FinalCount, Locks
  <2> QED BY <2>1, <2>2, <2>3, <2>4 DEF TypeOK, Timers
<1> QED BY <1>1, Invariance, PTL

\* The thread that counts under the queue lock is the one whose exchange on tail was the
\* earliest (prac_clhlock.cpp:13-16).
THEOREM InOrder == Spec => []FirstComeFirstServed
<1>1. Inv => FirstComeFirstServed
  BY CriticalIsFirst DEF Inv, LockInv, FirstComeFirstServed
<1> QED BY <1>1, Invariance, PTL

\* No flag is read or written after its deletion, and none is left at the end
\* (prac_clhlock.cpp:14-22,48).
THEOREM NoFlagUsedAfterDelete == Spec => []FlagsAreLive
<1>1. Inv => FlagsAreLive
  <2> SUFFICES ASSUME Inv, program = "clh" PROVE FlagsAreLive
    BY DEF FlagsAreLive
  <2>1. TypeOK /\ FlagsAgree
    BY DEF Inv, LockInv
  <2>2. CASE main = "join"
    BY <2>1, <2>2 DEF FlagsAgree, FlagsAreLive, Owner, Queued
  <2>3. CASE main = "end"
    BY <2>1, <2>3 DEF FlagsAgree, FlagsAreLive, Critical
  <2> QED BY <2>1, <2>2, <2>3 DEF TypeOK
<1> QED BY <1>1, Invariance, PTL

=============================================================================
