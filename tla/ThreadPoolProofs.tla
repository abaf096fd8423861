--------------------------- MODULE ThreadPoolProofs ---------------------------
(***************************************************************************)
(* Project4's pool initialises the blocks of one chunk once, and before    *)
(* they are listed, for every number of workers below the width of an int  *)
(* and every number of blocks that the ring has room for.                  *)
(***************************************************************************)
EXTENDS ThreadPool, TLAPS

\* What the code gets wrong otherwise: jobs of a second chunk are skipped (patchfile:51), a
\* full ring is overwritten (:43), and 1 << 31 is negative (:100).
OneChunk == Chunks = 1 /\ Blocks <= QUEUE_SIZE /\ size < IntBits

LEMMA Sizes ==
  ASSUME OneChunk
  PROVE  /\ Blocks \in Nat /\ Blocks > 0 /\ Jobs = 0 .. Blocks - 1 /\ Chunks * Blocks = Blocks
         /\ size \in Nat /\ size > 0 /\ Workers = 0 .. size - 1
         /\ \A n \in Jobs : Slot(n) = n /\ n \in Slots
<1>1. Blocks \in Nat /\ Blocks > 0 /\ QUEUE_SIZE \in Nat /\ QUEUE_SIZE > 0 /\ size \in Nat /\ size > 0
  BY ThreadPoolAssumption
<1>2. Chunks * Blocks = Blocks
  BY <1>1 DEF OneChunk
<1>3. Jobs = 0 .. Blocks - 1
  BY <1>2 DEF Jobs
<1>4. \A n \in 0 .. QUEUE_SIZE - 1 : n % QUEUE_SIZE = n
  BY <1>1
<1> QED BY <1>1, <1>2, <1>3, <1>4 DEF OneChunk, Workers, Slot, Slots

LEMMA OwnBit ==
  ASSUME OneChunk, NEW w \in Workers
  PROVE  Bit(w) = {w} /\ w \in 0 .. LongBits - 1 /\ w < size
<1>1. w \in Nat /\ w < size /\ size \in Nat /\ size < IntBits /\ IntBits \in Nat /\ LongBits \in Nat /\ IntBits <= LongBits
  BY ThreadPoolAssumption DEF Workers, OneChunk
<1>2. w % IntBits = w
  BY <1>1
<1> QED BY <1>1, <1>2 DEF Bit

LEMMA EveryNthBlock ==
  ASSUME OneChunk, NEW n \in 1 .. Blocks
  PROVE  n % Blocks = 0 <=> n = Blocks
<1>1. Blocks \in Nat /\ Blocks > 0
  BY Sizes
<1> QED BY <1>1

-----------------------------------------------------------------------------
LEMMA TypeStep ==
  ASSUME OneChunk, TypeOK, MainAgrees, PlacesAgree, Next PROVE TypeOK'
<1>0. /\ rear \in Nat /\ rear <= Blocks /\ Blocks \in Nat /\ Blocks > 0
      /\ \A n \in Nat : n < Blocks => n \in Jobs /\ Slot(n) \in Slots
      /\ \A w \in Workers : myfront[w] \in Nat
  <2>1. rear \in 0 .. Blocks
    BY Sizes DEF TypeOK
  <2>2. \A n \in Nat : n < Blocks => n \in Jobs
    BY Sizes
  <2>3. \A w \in Workers : myfront[w] \in Nat
    BY DEF TypeOK
  <2> QED BY <2>1, <2>2, <2>3, Sizes
<1>1. CASE Main
  <2>1. CASE Push
    <3>1. rear' \in 0 .. Chunks * Blocks
      BY <1>0, <2>1, Sizes DEF MainAgrees, Push
    <3> QED BY <2>1, <3>1 DEF TypeOK, Push, poolVars, workerVars
  <2>2. CASE Put
    <3>1. rear - 1 \in Jobs /\ Slot(rear - 1) \in Slots
      BY <1>0, <2>2 DEF MainAgrees, Put
    <3>2. queue' \in [Slots -> Jobs] /\ slotFlag[Slot(rear - 1)] \in Nat
      BY <2>2, <3>1 DEF TypeOK, Put
    <3> QED BY <2>2, <3>2 DEF TypeOK, Put, poolVars, workerVars
  <2>11. CASE Fill
    <3>1. rear - 1 \in Jobs /\ Slot(rear - 1) \in Slots
      BY <1>0, <2>11 DEF MainAgrees, Fill
    <3>2. lap + 1 \in Nat
      BY DEF TypeOK
    <3>3. slotFlag' \in [Slots -> Nat]
      BY <2>11, <3>1, <3>2 DEF TypeOK, Fill
    <3> QED BY <2>11, <3>3 DEF TypeOK, Fill, poolVars, workerVars
  <2>3. CASE Clear
    BY <2>3 DEF TypeOK, Clear, queueVars, workerVars
  <2>4. CASE Start
    BY <2>4 DEF TypeOK, Start, queueVars, workerVars
  <2>5. CASE Wait
    BY <2>5 DEF TypeOK, Wait, queueVars, poolVars, workerVars
  <2>6. CASE Stop
    BY <2>6 DEF TypeOK, Stop, queueVars, workerVars
  <2>7. CASE AddToFreeList
    BY <2>7 DEF TypeOK, AddToFreeList, queueVars, poolVars, workerVars
  <2>8. CASE Close
    BY <2>8 DEF TypeOK, Close, queueVars, workerVars
  <2>9. CASE exit_loop
    BY <2>9 DEF TypeOK, exit_loop, poolVars, workerVars
  <2>10. CASE Join
    BY <2>10 DEF TypeOK, Join, queueVars, poolVars, workerVars
  <2> QED BY <1>1, <2>1, <2>2, <2>3, <2>4, <2>5, <2>6, <2>7, <2>8, <2>9, <2>10, <2>11 DEF Main
<1>2. ASSUME NEW w \in Workers, Worker(w) PROVE TypeOK'
  <2>1. CASE Loop(w)
    BY <2>1 DEF TypeOK, Loop, Goto, queueVars, poolVars
  <2>2. CASE Draw(w)
    BY <2>2 DEF TypeOK, Draw, Goto, poolVars
  <2>3. CASE Check(w)
    <3>1. \/ UNCHANGED seen
          \/ seen' = [seen EXCEPT ![w] = rear]
          \/ myfront[w] < rear /\ seen' = [seen EXCEPT ![w] = slotFlag[Slot(myfront[w])]]
      BY <2>3 DEF Check
    <3>2. myfront[w] < rear => slotFlag[Slot(myfront[w])] \in Nat
      BY <1>0 DEF TypeOK
    <3>3. seen' \in [Workers -> Nat]
      BY <1>0, <3>1, <3>2 DEF TypeOK
    <3> QED BY <2>3, <3>3 DEF TypeOK, Check, Goto, queueVars, poolVars
  <2>4. CASE Reset(w)
    BY <2>4 DEF TypeOK, Reset, Goto, poolVars
  <2>5. CASE Take(w)
    <3>1. Slot(myfront[w]) \in Slots
      BY <1>0, <2>5 DEF PlacesAgree, Take
    <3>2. slotFlag' \in [Slots -> Nat]
      <4>1. slotFlag[Slot(myfront[w])] \in Nat /\ seen[w] \in Nat
        BY <3>1 DEF TypeOK
      <4>2. PICK v \in Nat : slotFlag' = [slotFlag EXCEPT ![Slot(myfront[w])] = v + 1]
        BY <2>5, <4>1 DEF Take
      <4>3. slotFlag \in [Slots -> Nat]
        BY DEF TypeOK
      <4> DEFINE s == Slot(myfront[w])
      <4>4. slotFlag' = [slotFlag EXCEPT ![s] = v + 1] /\ v + 1 \in Nat
        BY <4>2
      <4> HIDE DEF s
      <4> QED BY <4>3, <4>4
    <3> QED BY <2>5, <3>2 DEF TypeOK, Take, Goto, poolVars
  <2>6. CASE Work(w)
    <3>1. Slot(myfront[w]) \in Slots
      BY <1>0, <2>6 DEF PlacesAgree, Work
    <3>2. worked' \in [Jobs -> Nat]
      <4>1. queue[Slot(myfront[w])] \in Jobs
        BY <3>1 DEF TypeOK
      <4> QED BY <2>6, <4>1 DEF TypeOK, Work
    <3> QED BY <2>6, <3>2 DEF TypeOK, Work, Return, Goto, queueVars, poolVars
  <2>7. CASE LoadFlag(w)
    BY <2>7 DEF TypeOK, LoadFlag, Goto, queueVars, poolVars
  <2>8. CASE StoreFlag(w)
    <3>1. Bit(w) \subseteq 0 .. LongBits - 1
      BY OwnBit
    <3> QED BY <2>8, <3>1 DEF TypeOK, StoreFlag, Return, Goto, queueVars
  <2> QED BY <1>2, <2>1, <2>2, <2>3, <2>4, <2>5, <2>6, <2>7, <2>8 DEF Worker
<1>3. CASE Finished
  BY <1>3 DEF TypeOK, Finished, vars, queueVars, poolVars, workerVars
<1> QED BY <1>1, <1>2, <1>3 DEF Next

-----------------------------------------------------------------------------
\* What is inductive.
PoolInv == Inv /\ InitialisedWhenListed

\* Before the chunk has been enqueued no worker does anything; at the end nothing is to do.
LEMMA WorkersWait ==
  ASSUME OneChunk, PoolInv, NEW w \in Workers, Worker(w)
  PROVE  /\ main \notin {"push", "put", "fill", "clear", "start"} /\ rear = Blocks
         /\ signal => \A n \in Jobs : worked[n] > 0
<1>1. main \notin {"push", "put", "fill", "clear", "start"}
  BY DEF PoolInv, Inv, MainAgrees, Worker, Loop, Draw, Check, Reset, Take, Work, LoadFlag, StoreFlag
<1>2. rear = Blocks
  BY <1>1 DEF PoolInv, Inv, MainAgrees
<1>3. signal => \A n \in 0 .. rear - 1 : worked[n] > 0
  BY DEF PoolInv, Inv, MainAgrees, InitialisedWhenListed
<1> QED BY <1>1, <1>2, <1>3, Sizes

LEMMA OthersStay ==
  ASSUME TypeOK, NEW w \in Workers, Worker(w), NEW u \in Workers, u # w
  PROVE  pc'[u] = pc[u] /\ myfront'[u] = myfront[u] /\ seen'[u] = seen[u] /\ old'[u] = old[u]
BY DEF TypeOK, Worker, Loop, Draw, Check, Reset, Take, Work, LoadFlag, StoreFlag, Return, Goto

\* How a step of a worker changes who holds which job.
LEMMA HoldsStep ==
  ASSUME OneChunk, PoolInv, NEW w \in Workers, Worker(w)
  PROVE  /\ Draw(w) =>
              /\ worked' = worked /\ front' = front + 1
              /\ \A u \in Workers, n \in Jobs : Holds(u, n)' <=> Holds(u, n) \/ (u = w /\ n = front)
         /\ Work(w) =>
              /\ front' = front
              /\ \E n \in Jobs :
                   /\ Holds(w, n) /\ worked' = [worked EXCEPT ![n] = @ + 1]
                   /\ \A u \in Workers, m \in Jobs : Holds(u, m)' <=> Holds(u, m) /\ m # n
         /\ ~Draw(w) /\ ~Work(w) =>
              /\ worked' = worked /\ \A n \in Jobs : n < front' <=> n < front
              /\ \A u \in Workers, n \in Jobs : Holds(u, n)' <=> Holds(u, n)
<1>1. TypeOK /\ rear = Blocks
  BY WorkersWait DEF PoolInv, Inv
<1>2. \A u \in Workers, n \in Jobs : u # w => (Holds(u, n)' <=> Holds(u, n))
  BY <1>1, OthersStay DEF Holds
<1>3. CASE Draw(w)
  <2>1. \A n \in Jobs : Holds(w, n)' <=> n = front
    BY <1>1, <1>3 DEF TypeOK, Draw, Goto, Holds
  <2>2. ~Work(w) /\ \A n \in Jobs : ~Holds(w, n)
    BY <1>3 DEF Draw, Holds, Work
  <2> QED BY <1>2, <1>3, <2>1, <2>2 DEF Draw
<1>4. CASE Work(w)
  <2> DEFINE n == myfront[w]
  <2>1. n \in Nat /\ n < Blocks /\ pc[w] = "work"
    BY <1>1, <1>4 DEF TypeOK, Work, PoolInv, Inv, PlacesAgree
  <2>2. n \in Jobs /\ Slot(n) = n /\ n \in 0 .. rear - 1
    BY <1>1, <2>1, Sizes
  <2>3. queue[Slot(n)] = n
    BY <2>2, WorkersWait DEF PoolInv, Inv, MainAgrees
  <2>4. worked' = [worked EXCEPT ![n] = @ + 1] /\ front' = front
    BY <1>4, <2>3 DEF Work, queueVars
  <2>5. \A m \in Jobs : ~Holds(w, m)'
    BY <1>1, <1>4 DEF TypeOK, Work, Return, Goto, Holds
  <2>6. Holds(w, n) /\ \A m \in Jobs : Holds(w, m) => m = n
    BY <2>1 DEF Holds
  <2>7. \A u \in Workers : Holds(u, n) => u = w
    BY <2>2, <2>6 DEF PoolInv, Inv, JobsAgree
  <2>8. \A u \in Workers, m \in Jobs : Holds(u, m)' <=> Holds(u, m) /\ m # n
    <3> HIDE DEF n
    <3> QED BY <1>2, <2>5, <2>6, <2>7
  <2>9. ~Draw(w)
    BY <2>1 DEF Draw
  <2>10. /\ Holds(w, n) /\ worked' = [worked EXCEPT ![n] = @ + 1]
         /\ \A u \in Workers, m \in Jobs : Holds(u, m)' <=> Holds(u, m) /\ m # n
    BY <2>4, <2>6, <2>8
  <2>11. n \in Jobs /\ front' = front
    BY <2>2, <2>4
  <2> HIDE DEF n
  <2> QED BY <1>4, <2>9, <2>10, <2>11
<1>5. CASE ~Draw(w) /\ ~Work(w)
  <2>1. CASE Check(w)
    <3>1. signal => \A n \in Jobs : ~Holds(w, n)
      BY WorkersWait DEF PoolInv, Inv, JobsAgree
    <3>2. ~signal /\ myfront[w] >= rear => \A n \in Jobs : ~Holds(w, n)
      BY <1>1, Sizes DEF Holds
    <3>3. \A n \in Jobs : Holds(w, n)' <=> Holds(w, n)
      BY <1>1, <2>1, <3>1, <3>2 DEF TypeOK, Check, Goto, Holds
    <3> QED BY <1>2, <1>5, <2>1, <3>3 DEF Check, queueVars
  <2>2. CASE Reset(w)
    <3>1. \A n \in Jobs : n < front /\ n < front'
      <4>1. front >= Blocks /\ front' = Blocks
        BY <1>1, <2>2, Sizes DEF Reset, PoolInv, Inv, PlacesAgree, TypeOK
      <4>2. front \in Nat /\ Blocks \in Nat /\ \A n \in Jobs : n \in Nat /\ n < Blocks
        BY <1>1, Sizes DEF TypeOK
      <4> QED BY <4>1, <4>2
    <3>2. \A n \in Jobs : Holds(w, n)' <=> Holds(w, n)
      BY <1>1, <2>2 DEF TypeOK, Reset, Goto, Holds
    <3> QED BY <1>2, <1>5, <2>2, <3>1, <3>2 DEF Reset
  <2>3. CASE Loop(w) \/ Take(w) \/ LoadFlag(w) \/ StoreFlag(w)
    <3>1. \A n \in Jobs : Holds(w, n)' <=> Holds(w, n)
      BY <1>1, <2>3 DEF TypeOK, Loop, Take, LoadFlag, StoreFlag, Return, Goto, Holds
    <3>2. worked' = worked /\ front' = front
      BY <2>3 DEF Loop, Take, LoadFlag, StoreFlag, queueVars
    <3> QED BY <1>2, <1>5, <3>1, <3>2
  <2> QED BY <1>5, <2>1, <2>2, <2>3 DEF Worker
<1> QED BY <1>3, <1>4, <1>5

-----------------------------------------------------------------------------
(***************************************************************************)
(* The parts of the invariant, step by step.                               *)
(***************************************************************************)
LEMMA MainAgreesStep ==
  ASSUME OneChunk, PoolInv, Next PROVE MainAgrees'
<1>0. /\ rear \in Nat /\ rear <= Blocks /\ Blocks \in Nat /\ Blocks > 0 /\ Chunks * Blocks = Blocks
      /\ \A n \in 0 .. Blocks - 1 : Slot(n) = n /\ n \in Slots
      /\ queue \in [Slots -> Jobs]
  <2>1. rear \in 0 .. Blocks /\ queue \in [Slots -> Jobs]
    BY Sizes DEF PoolInv, Inv, TypeOK
  <2>2. \A n \in 0 .. Blocks - 1 : Slot(n) = n /\ n \in Slots
    BY Sizes
  <2> QED BY <2>1, <2>2, Sizes
<1>1. CASE Main
  <2>1. CASE Push
    BY <1>0, <2>1 DEF Push, PoolInv, Inv, MainAgrees, poolVars, workerVars
  <2>2. CASE Put
    <3>1. /\ rear > 0 /\ rear' = rear /\ front' = front /\ signal' = signal
          /\ main = "put" /\ main' = "fill"
      BY <2>2 DEF Put, PoolInv, Inv, MainAgrees
    <3>2. \A n \in 0 .. rear' - 1 : queue'[Slot(n)] = n
      <4>1. queue' = [queue EXCEPT ![rear - 1] = rear - 1]
        <5>1. queue' = [queue EXCEPT ![Slot(rear - 1)] = rear - 1]
          BY <2>2 DEF Put
        <5>2. rear - 1 \in 0 .. Blocks - 1
          BY <1>0, <3>1
        <5>3. Slot(rear - 1) = rear - 1
          BY <1>0, <5>2
        <5> QED BY <5>1, <5>3
      <4>2. \A n \in 0 .. rear - 2 : queue[n] = n
        BY <1>0, <3>1 DEF PoolInv, Inv, MainAgrees
      <4>3. \A n \in 0 .. rear - 1 : queue'[n] = n
        BY <1>0, <3>1, <4>1, <4>2
      <4> QED BY <1>0, <3>1, <4>3
    <3> QED BY <1>0, <2>2, <3>1, <3>2 DEF Put, PoolInv, Inv, MainAgrees, poolVars, workerVars
  <2>6. CASE Fill
    <3>1. main = "fill" /\ main' = IF rear = Blocks THEN "clear" ELSE "push"
      <4>1. main = "fill" /\ rear > 0
        BY <2>6 DEF Fill, PoolInv, Inv, MainAgrees
      <4> QED BY <1>0, <2>6, <4>1, EveryNthBlock DEF Fill
    <3> QED BY <1>0, <2>6, <3>1 DEF Fill, PoolInv, Inv, MainAgrees, poolVars, workerVars
  <2>3. CASE Clear \/ Start
    BY <1>0, <2>3 DEF Clear, Start, PoolInv, Inv, MainAgrees, queueVars, workerVars
  <2>4. CASE Wait \/ Stop \/ AddToFreeList \/ Join
    BY <1>0, <2>4
    DEF Wait, Stop, AddToFreeList, Join, PoolInv, Inv, MainAgrees, queueVars, poolVars, workerVars
  <2>5. CASE Close \/ exit_loop
    BY <1>0, <2>5 DEF Close, exit_loop, PoolInv, Inv, MainAgrees, queueVars, poolVars, workerVars
  <2> QED BY <1>1, <2>1, <2>2, <2>3, <2>4, <2>5, <2>6 DEF Main
<1>2. ASSUME NEW w \in Workers, Worker(w) PROVE MainAgrees'
  <2>1. main \notin {"push", "put", "fill", "clear", "start"} /\ rear = Blocks
    BY <1>2, WorkersWait
  <2>2. main' = main /\ rear' = rear /\ queue' = queue /\ signal' = signal
    BY <1>2 DEF Worker, Loop, Draw, Check, Reset, Take, Work, LoadFlag, StoreFlag, queueVars
  <2> QED BY <2>1, <2>2 DEF PoolInv, Inv, MainAgrees
<1>3. CASE Finished
  BY <1>3 DEF Finished, vars, queueVars, poolVars, workerVars, PoolInv, Inv, MainAgrees
<1> QED BY <1>1, <1>2, <1>3 DEF Next

LEMMA JobsStep ==
  ASSUME OneChunk, PoolInv, NEW w \in Workers, Worker(w)
  PROVE  JobsAgree' /\ RunOnce' /\ \A n \in Jobs : worked[n] > 0 => worked'[n] > 0
<1>1. /\ worked \in [Jobs -> Nat] /\ front \in Nat /\ \A n \in Jobs : n \in Nat
      /\ RunOnce /\ JobsAgree
  BY Sizes DEF PoolInv, Inv, TypeOK
<1>2. CASE Draw(w)
  <2>1. \A n \in Jobs : n < front' <=> n < front \/ n = front
    BY <1>1, <1>2, HoldsStep
  <2> QED BY <1>1, <1>2, <2>1, HoldsStep DEF JobsAgree, RunOnce
<1>3. CASE Work(w)
  <2>1. PICK n \in Jobs :
          /\ Holds(w, n) /\ worked' = [worked EXCEPT ![n] = @ + 1]
          /\ \A u \in Workers, m \in Jobs : Holds(u, m)' <=> Holds(u, m) /\ m # n
    BY <1>3, HoldsStep
  <2>2. worked[n] = 0 /\ n < front /\ front' = front
    BY <1>3, <2>1, HoldsStep DEF PoolInv, Inv, JobsAgree
  <2>3. worked'[n] = 1 /\ \A m \in Jobs : m # n => worked'[m] = worked[m]
    BY <1>1, <2>1, <2>2
  <2> QED BY <1>1, <2>1, <2>2, <2>3 DEF JobsAgree, RunOnce
<1>4. CASE ~Draw(w) /\ ~Work(w)
  BY <1>1, <1>4, HoldsStep DEF JobsAgree, RunOnce
<1> QED BY <1>2, <1>3, <1>4

LEMMA PlacesStep ==
  ASSUME OneChunk, PoolInv, NEW w \in Workers, Worker(w)
  PROVE  PlacesAgree' /\ (front >= Blocks => front' >= Blocks)
<1>1. /\ TypeOK /\ rear = Blocks /\ Blocks \in Nat /\ Blocks > 0
      /\ front \in Nat /\ \A u \in Workers : myfront[u] \in Nat
  BY Sizes, WorkersWait DEF PoolInv, Inv, TypeOK
<1>2. front >= Blocks => front' >= Blocks
  <2>1. CASE Reset(w)
    BY <1>1, <2>1 DEF Reset, PoolInv, Inv, PlacesAgree, TypeOK
  <2>2. CASE ~Reset(w)
    BY <1>1, <2>2 DEF Worker, Loop, Draw, Check, Take, Work, LoadFlag, StoreFlag, queueVars
  <2> QED BY <2>1, <2>2
<1>3. signal => front >= Blocks
  <2>1. Blocks - 1 \in Jobs
    BY <1>1, Sizes
  <2> QED BY <1>1, <2>1, WorkersWait DEF PoolInv, Inv, JobsAgree, TypeOK
<1>4. ASSUME NEW u \in Workers, u # w
      PROVE  /\ pc'[u] \in {"take", "work"} => myfront'[u] < Blocks
             /\ myfront'[u] >= Blocks \/ pc'[u] \in {"reset", "null", "mark"} => front' >= Blocks
             /\ pc'[u] = "reset" => seen'[u] = Blocks
  BY <1>1, <1>2, <1>4, OthersStay DEF PoolInv, Inv, PlacesAgree
<1>5. /\ pc'[w] \in {"take", "work"} => myfront'[w] < Blocks
      /\ myfront'[w] >= Blocks \/ pc'[w] \in {"reset", "null", "mark"} => front' >= Blocks
      /\ pc'[w] = "reset" => seen'[w] = Blocks
  <2>1. CASE Loop(w) \/ Take(w)
    BY <1>1, <1>2, <2>1 DEF TypeOK, Loop, Take, Goto, queueVars, PoolInv, Inv, PlacesAgree
  <2>2. CASE Draw(w)
    BY <1>1, <2>2 DEF TypeOK, Draw, Goto
  <2>3. CASE Check(w)
    BY <1>1, <1>2, <1>3, <2>3 DEF TypeOK, Check, Goto, queueVars, PoolInv, Inv, PlacesAgree
  <2>4. CASE Reset(w)
    BY <1>1, <1>2, <2>4 DEF TypeOK, Reset, Goto, PoolInv, Inv, PlacesAgree
  <2>5. CASE Work(w) \/ StoreFlag(w)
    BY <1>1, <1>2, <2>5 DEF TypeOK, Work, StoreFlag, Return, Goto, PoolInv, Inv, PlacesAgree
  <2>6. CASE LoadFlag(w)
    BY <1>1, <1>2, <2>6 DEF TypeOK, LoadFlag, Goto, queueVars, PoolInv, Inv, PlacesAgree
  <2> QED BY <2>1, <2>2, <2>3, <2>4, <2>5, <2>6 DEF Worker
<1> QED BY <1>2, <1>4, <1>5 DEF PlacesAgree

LEMMA ReportsStep ==
  ASSUME OneChunk, PoolInv, NEW w \in Workers, Worker(w)
  PROVE  ReportsAgree'
<1>1. ASSUME NEW b, NothingToDo(b) PROVE NothingToDo(b)'
  <2>1. b \in Workers /\ front >= Blocks /\ front' >= Blocks /\ \A n \in Jobs : ~Holds(b, n)
    BY <1>1, PlacesStep DEF NothingToDo
  <2>2. \A n \in Jobs : n < front
    <3>1. front \in Nat /\ Blocks \in Nat /\ \A n \in Jobs : n \in Nat /\ n < Blocks
      BY Sizes DEF PoolInv, Inv, TypeOK
    <3> QED BY <2>1, <3>1
  <2>3. front \notin Jobs
    BY <2>2 DEF PoolInv, Inv, TypeOK
  <2> QED BY <2>1, <2>3, HoldsStep DEF NothingToDo
<1>2. CASE StoreFlag(w)
  <2>1. pc[w] = "mark" /\ flag' = old[w] \cup {w} /\ old' = [old EXCEPT ![w] = {}]
    BY <1>2, OwnBit DEF StoreFlag, Return
  <2>2. NothingToDo(w)
    BY <2>1 DEF NothingToDo, Holds, PoolInv, Inv, PlacesAgree
  <2> QED BY <1>1, <2>1, <2>2 DEF ReportsAgree, PoolInv, Inv, TypeOK
<1>3. CASE ~StoreFlag(w)
  <2>1. flag' = flag /\ \A u \in Workers : old'[u] \in {old[u], {}, flag}
    BY <1>3 DEF Worker, Loop, Draw, Check, Reset, Take, Work, LoadFlag, Return, poolVars,
       PoolInv, Inv, TypeOK
  <2> QED BY <1>1, <2>1 DEF ReportsAgree, PoolInv, Inv
<1> QED BY <1>2, <1>3

LEMMA MainStep ==
  ASSUME OneChunk, PoolInv, Main
  PROVE  JobsAgree' /\ RunOnce' /\ PlacesAgree' /\ ReportsAgree' /\ InitialisedWhenListed'
<1>1. front' = front /\ UNCHANGED workerVars
  BY DEF Main, Push, Put, Fill, Clear, Start, Wait, Stop, AddToFreeList, Close, exit_loop, Join,
     queueVars
<1>2. JobsAgree' /\ RunOnce' /\ PlacesAgree'
  BY <1>1 DEF PoolInv, Inv, JobsAgree, RunOnce, PlacesAgree, Holds, workerVars
<1>3. \A b : NothingToDo(b) => NothingToDo(b)'
  BY <1>1 DEF NothingToDo, Holds, workerVars
<1>4. flag' \in {flag, {}} /\ old' = old
  BY <1>1 DEF Main, Push, Put, Fill, Clear, Start, Wait, Stop, AddToFreeList, Close, exit_loop, Join,
     poolVars, workerVars
<1>5. ReportsAgree'
  BY <1>3, <1>4 DEF PoolInv, Inv, ReportsAgree
<1>6. CASE Wait
  <2>1. \A b \in flag : NothingToDo(b) /\ b < size
    BY OwnBit DEF PoolInv, Inv, ReportsAgree, NothingToDo
  <2>2. Workers \subseteq flag
    <3>1. \A b \in flag : b \in Workers
      BY <2>1 DEF NothingToDo
    <3>2. ~\E b \in flag : b >= size
      BY <3>1, Sizes
    <3> QED BY <1>6, <3>2 DEF Wait, FlagsComplete
  <2>3. front >= Blocks /\ \A w \in Workers, n \in Jobs : ~Holds(w, n)
    <3>1. 0 \in Workers
      BY Sizes
    <3> QED BY <2>1, <2>2, <3>1 DEF NothingToDo
  <2>4. \A n \in Jobs : n < front
    <3>1. front \in Nat /\ Blocks \in Nat /\ \A n \in Jobs : n \in Nat /\ n < Blocks
      BY Sizes DEF PoolInv, Inv, TypeOK
    <3> QED BY <2>3, <3>1
  <2>5. \A n \in Jobs : worked[n] > 0
    BY <2>3, <2>4 DEF PoolInv, Inv, JobsAgree, TypeOK
  <2>6. 0 .. rear' - 1 \subseteq Jobs /\ worked' = worked
    <3>1. rear' = rear /\ rear \in Nat /\ rear <= Blocks
      BY <1>6, Sizes DEF Wait, queueVars, PoolInv, Inv, TypeOK
    <3> QED BY <1>1, <3>1, Sizes DEF workerVars
  <2>7. \A n \in 0 .. rear' - 1 : worked'[n] > 0
    BY <2>5, <2>6
  <2> QED BY <1>2, <1>5, <2>7 DEF InitialisedWhenListed
<1>7. CASE ~Wait
  <2>1. main' \notin {"push", "put", "fill", "clear", "start", "wait"} =>
          main \notin {"push", "put", "fill", "clear", "start", "wait"} /\ rear' = rear
    <3>1. CASE Push \/ Put \/ Fill \/ Clear \/ Start
      BY <3>1 DEF Push, Put, Fill, Clear, Start
    <3>2. CASE Stop \/ AddToFreeList \/ Close \/ exit_loop \/ Join
      BY <3>2 DEF Stop, AddToFreeList, Close, exit_loop, Join, queueVars
    <3> QED BY <1>7, <3>1, <3>2 DEF Main
  <2>2. worked' = worked
    BY <1>1 DEF workerVars
  <2> QED BY <1>2, <1>5, <2>1, <2>2 DEF PoolInv, InitialisedWhenListed
<1> QED BY <1>6, <1>7

LEMMA PoolInvInitially == OneChunk /\ Init => PoolInv
<1> SUFFICES ASSUME OneChunk, Init PROVE PoolInv
  OBVIOUS
<1>1. Blocks \in Nat /\ Blocks > 0 /\ 0 \in Jobs /\ 0 <= Chunks * Blocks
  BY Sizes
<1>2. TypeOK
  <2>1. rear \in 0 .. Chunks * Blocks
    BY <1>1, Sizes DEF Init
  <2>2. queue \in [Slots -> Jobs] /\ worked \in [Jobs -> Nat]
    BY <1>1 DEF Init
  <2> QED BY <2>1, <2>2 DEF Init, TypeOK
<1>3. MainAgrees
  BY <1>1 DEF Init, MainAgrees
<1>4. \A n \in Jobs : n \in Nat
  BY Sizes
<1>5. JobsAgree /\ RunOnce /\ PlacesAgree /\ ReportsAgree
  BY <1>1, <1>4 DEF Init, JobsAgree, RunOnce, PlacesAgree, ReportsAgree, Holds
<1> QED BY <1>2, <1>3, <1>5 DEF Init, PoolInv, Inv, InitialisedWhenListed

LEMMA PoolInvStep == OneChunk /\ PoolInv /\ [Next]_vars => PoolInv'
<1> SUFFICES ASSUME OneChunk, PoolInv, [Next]_vars PROVE PoolInv'
  OBVIOUS
<1>1. CASE Main
  BY <1>1, TypeStep, MainAgreesStep, MainStep DEF PoolInv, Inv, Next
<1>2. ASSUME NEW w \in Workers, Worker(w) PROVE PoolInv'
  <2>1. InitialisedWhenListed'
    <3>1. main' = main /\ rear' = rear /\ 0 .. rear - 1 \subseteq Jobs
      <4>1. main' = main /\ rear' = rear
        BY <1>2 DEF Worker, Loop, Draw, Check, Reset, Take, Work, LoadFlag, StoreFlag, queueVars
      <4> QED BY <1>2, <4>1, WorkersWait, Sizes
    <3> QED BY <1>2, <3>1, JobsStep DEF PoolInv, InitialisedWhenListed
  <2> QED BY <1>2, <2>1, TypeStep, MainAgreesStep, JobsStep, PlacesStep, ReportsStep
      DEF PoolInv, Inv, Next
<1>3. CASE UNCHANGED vars
  <2>1. TypeOK' /\ MainAgrees'
    BY <1>3 DEF PoolInv, Inv, TypeOK, MainAgrees, vars, queueVars, poolVars, workerVars
  <2>2. JobsAgree' /\ RunOnce' /\ PlacesAgree' /\ ReportsAgree' /\ InitialisedWhenListed'
    BY <1>3 DEF PoolInv, Inv, JobsAgree, RunOnce, PlacesAgree, ReportsAgree, NothingToDo, Holds,
       InitialisedWhenListed, vars, queueVars, poolVars, workerVars
  <2> QED BY <2>1, <2>2 DEF PoolInv, Inv
<1> QED BY <1>1, <1>2, <1>3 DEF Next, Finished

LEMMA PoolInvariance == OneChunk => (Spec => []PoolInv)
<1> SUFFICES ASSUME OneChunk PROVE Spec => []PoolInv
  OBVIOUS
<1>1. Init => PoolInv
  BY PoolInvInitially
<1>2. PoolInv /\ [Next]_vars => PoolInv'
  BY PoolInvStep
<1> QED BY <1>1, <1>2, PTL DEF Spec

\* Of one chunk no job is run twice or held by two workers, however draws and resets of front
\* interleave (patchfile:39-61,88-109).
THEOREM Invariance == OneChunk => (Spec => []Inv)
<1> SUFFICES ASSUME OneChunk PROVE Spec => []Inv
  OBVIOUS
<1>1. Spec => []PoolInv
  BY PoolInvariance
<1> QED BY <1>1, PTL DEF PoolInv

\* main_sleep does not return before every block of the chunk has been initialised, although
\* the workers can take back each other's reports (patchfile:100,124-132).
THEOREM ListedBlocks == OneChunk => (Spec => []InitialisedWhenListed)
<1> SUFFICES ASSUME OneChunk PROVE Spec => []InitialisedWhenListed
  OBVIOUS
<1>1. Spec => []PoolInv
  BY PoolInvariance
<1> QED BY <1>1, PTL DEF PoolInv
=============================================================================
