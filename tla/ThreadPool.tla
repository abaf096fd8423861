------------------------------ MODULE ThreadPool ------------------------------
(***************************************************************************)
(* project4: the thread pool that initialises the blocks of the buffer     *)
(* pool, and its queue.  The main thread enqueues one job per block of a   *)
(* chunk, activates the workers, and spins in main_sleep until every       *)
(* worker has reported an empty queue; then the next chunk.  Nothing is    *)
(* locked and no variable is atomic but for the fetch-and-add on front, so *)
(* that loads and stores of shared words are steps here, but for those     *)
(* nobody can tell apart (Put, Check).  A load the compiler may leave out  *)
(* or repeat gives any value the word had since.                           *)
(***************************************************************************)
EXTENDS Integers, FiniteSets

CONSTANTS
  size,        \* the number of workers
  Chunks,      \* chunks of the buffer pool
  Blocks,      \* blocks of a chunk: one job each
  QUEUE_SIZE,
  IntBits,     \* width of int
  LongBits     \* width of ulint

ASSUME ThreadPoolAssumption ==
  /\ size \in 1 .. LongBits - 1
  /\ Chunks \in Nat \ {0} /\ Blocks \in Nat \ {0} /\ QUEUE_SIZE \in Nat \ {0}
  /\ IntBits \in 1 .. LongBits /\ LongBits \in Nat

VARIABLES
  front, rear,
  queue,     \* queue[s]: the job in slot s; jobs are numbered in order of enqueue
  slotFlag,  \* my_queue::flag: odd when the slot is full, half of it the lap
  signal,
  is_active, is_live,
  flag,      \* my_thread_pool::flag as the set of its bits: who found no job
  main,      \* where the main thread is
  lap,       \* the slot flag it has loaded for its ++
  pc,        \* where each worker is
  myfront,   \* myfront[w]: the index worker w has drawn
  seen,      \* the last rear or slot flag worker w has loaded
  old,       \* the flag worker w has loaded for its |=
  worked     \* worked[n]: how often job n was run (and deleted)

queueVars == <<front, rear, queue, slotFlag, signal>>
poolVars == <<is_active, is_live, flag>>
workerVars == <<pc, myfront, seen, old, worked>>
vars == <<queueVars, poolVars, main, lap, workerVars>>

Workers == 0 .. size - 1
Slots == 0 .. QUEUE_SIZE - 1
Jobs == 0 .. Chunks * Blocks - 1
Slot(n) == n % QUEUE_SIZE

\* 1 << id, an int, converted to ulint: its sign fills the upper half.
Bit(id) ==
  IF id % IntBits = IntBits - 1 THEN IntBits - 1 .. LongBits - 1 ELSE {id % IntBits}

\* !(flag < cur_flag), for the size lowest bits set in cur_flag.
FlagsComplete == Workers \subseteq flag \/ \E b \in flag : b >= size

Init ==
  /\ front = 0 /\ rear = 0
  /\ queue = [s \in Slots |-> 0]
  /\ slotFlag = [s \in Slots |-> 0]
  /\ signal = FALSE /\ is_active = FALSE /\ is_live = TRUE
  /\ flag = {}
  /\ main = "push" /\ lap = 0
  /\ pc = [w \in Workers |-> "loop"]
  /\ myfront = [w \in Workers |-> 0]
  /\ seen = [w \in Workers |-> 0]
  /\ old = [w \in Workers |-> {}]
  /\ worked = [n \in Jobs |-> 0]

-----------------------------------------------------------------------------
(***************************************************************************)
(* The main thread.                                                        *)
(***************************************************************************)

\* enqueue, first step: ulint myrear = rear++.
Push ==
  /\ main = "push" /\ main' = "put"
  /\ rear' = rear + 1
  /\ UNCHANGED <<front, queue, slotFlag, signal, lap, poolVars, workerVars>>

\* enqueue, the store of the job and the load of its slot's flag: no step of a worker has to
\* do with both.  There is no test for a full queue.
Put ==
  /\ main = "put" /\ main' = "fill"
  /\ queue' = [queue EXCEPT ![Slot(rear - 1)] = rear - 1]
  /\ lap' = slotFlag[Slot(rear - 1)]
  /\ UNCHANGED <<front, rear, slotFlag, signal, poolVars, workerVars>>

\* enqueue, the store of the flag.
Fill ==
  /\ main = "fill"
  /\ slotFlag' = [slotFlag EXCEPT ![Slot(rear - 1)] = lap + 1] /\ lap' = 0
  /\ main' = IF rear % Blocks = 0 THEN "clear" ELSE "push"
  /\ UNCHANGED <<front, rear, queue, signal, poolVars, workerVars>>

\* main_sleep.
Clear ==
  /\ main = "clear" /\ main' = "start"
  /\ flag' = {}
  /\ UNCHANGED <<queueVars, lap, is_active, is_live, workerVars>>

Start ==
  /\ main = "start" /\ main' = "wait"
  /\ is_active' = TRUE
  /\ UNCHANGED <<queueVars, lap, is_live, flag, workerVars>>

\* A main thread that waits for the first worker only (mutant).
WaitForOne ==
  /\ main = "wait" /\ flag # {} /\ main' = "stop"
  /\ UNCHANGED <<queueVars, lap, poolVars, workerVars>>

Wait ==
  /\ main = "wait" /\ FlagsComplete /\ main' = "stop"
  /\ UNCHANGED <<queueVars, lap, poolVars, workerVars>>

Stop ==
  /\ main = "stop" /\ main' = "list"
  /\ is_active' = FALSE
  /\ UNCHANGED <<queueVars, lap, is_live, flag, workerVars>>

\* The blocks of the chunk go to the free list.
AddToFreeList ==
  /\ main = "list"
  /\ main' = IF rear < Chunks * Blocks THEN "push" ELSE "close"
  /\ UNCHANGED <<queueVars, lap, poolVars, workerVars>>

\* A destructor that relies on exit_loop (mutant).
CloseStillLive ==
  /\ main = "close" /\ main' = "signal"
  /\ UNCHANGED <<queueVars, lap, poolVars, workerVars>>

\* ~my_thread_pool.
Close ==
  /\ main = "close" /\ main' = "signal"
  /\ is_live' = FALSE
  /\ UNCHANGED <<queueVars, lap, is_active, flag, workerVars>>

exit_loop ==
  /\ main = "signal" /\ main' = "join"
  /\ signal' = TRUE
  /\ UNCHANGED <<front, rear, queue, slotFlag, lap, poolVars, workerVars>>

Join ==
  /\ main = "join" /\ (\A w \in Workers : pc[w] = "done") /\ main' = "end"
  /\ UNCHANGED <<queueVars, lap, poolVars, workerVars>>

Main ==
  \/ Push \/ Put \/ Fill \/ Clear \/ Start \/ Wait \/ Stop \/ AddToFreeList
  \/ Close \/ exit_loop \/ Join

-----------------------------------------------------------------------------
(***************************************************************************)
(* A worker.                                                               *)
(***************************************************************************)
Goto(w, l) == pc' = [pc EXCEPT ![w] = l]

\* The locals of one turn of working() are gone.
Return(w) ==
  /\ Goto(w, "loop")
  /\ myfront' = [myfront EXCEPT ![w] = 0]
  /\ seen' = [seen EXCEPT ![w] = 0]
  /\ old' = [old EXCEPT ![w] = {}]

\* if(!is_live) break; if(!is_active) continue;
Loop(w) ==
  /\ pc[w] = "loop"
  /\ \/ ~is_live /\ Goto(w, "done")
     \/ is_live /\ is_active /\ Goto(w, "draw")
  /\ UNCHANGED <<queueVars, poolVars, main, lap, myfront, seen, old, worked>>

\* A load of front for the fetch-and-add (mutant).
DrawWithoutAdd(w) ==
  /\ pc[w] = "draw" /\ Goto(w, "check")
  /\ myfront' = [myfront EXCEPT ![w] = front]
  /\ UNCHANGED <<queueVars, poolVars, main, lap, seen, old, worked>>

\* myfront = __sync_fetch_and_add(&front, 1).
Draw(w) ==
  /\ pc[w] = "draw" /\ Goto(w, "check")
  /\ myfront' = [myfront EXCEPT ![w] = front]
  /\ front' = front + 1
  /\ UNCHANGED <<rear, queue, slotFlag, signal, poolVars, main, lap, seen, old, worked>>

\* A lap that is not halved (mutant).
FullByFlag(n) == slotFlag[Slot(n)] % 2 = 1 /\ n \div QUEUE_SIZE = slotFlag[Slot(n)]

\* The slot holds a job of the lap the index belongs to.
Full(n) == slotFlag[Slot(n)] % 2 = 1 /\ n \div QUEUE_SIZE = slotFlag[Slot(n)] \div 2

\* The turn of the loop in dequeue that leaves it.  The three loads are one step:
\* rear only grows and signal is the last store of the main thread.
Check(w) ==
  /\ pc[w] = "check"
  /\ \/ signal /\ Goto(w, "null") /\ UNCHANGED seen
     \/ /\ ~signal /\ myfront[w] >= rear
        /\ Goto(w, "reset") /\ seen' = [seen EXCEPT ![w] = rear]
     \/ /\ ~signal /\ myfront[w] < rear /\ Full(myfront[w])
        /\ Goto(w, "take") /\ seen' = [seen EXCEPT ![w] = slotFlag[Slot(myfront[w])]]
  /\ UNCHANGED <<queueVars, poolVars, main, lap, myfront, old, worked>>

\* front = rear, with the rear of the test or a newer one.
Reset(w) ==
  /\ pc[w] = "reset" /\ Goto(w, "null")
  /\ front' \in seen[w] .. rear
  /\ UNCHANGED <<rear, queue, slotFlag, signal, poolVars, main, lap, myfront, seen, old, worked>>

\* flag[myfront % QUEUE_SIZE]++, from the value of the test or a newer one.
Take(w) ==
  /\ pc[w] = "take" /\ Goto(w, "work")
  /\ \E v \in {seen[w], slotFlag[Slot(myfront[w])]} :
       slotFlag' = [slotFlag EXCEPT ![Slot(myfront[w])] = v + 1]
  /\ UNCHANGED <<front, rear, queue, signal, poolVars, main, lap, myfront, seen, old, worked>>

\* Read the slot, run and delete the job.
Work(w) ==
  /\ pc[w] = "work" /\ Return(w)
  /\ worked' = [worked EXCEPT ![queue[Slot(myfront[w])]] = @ + 1]
  /\ UNCHANGED <<queueVars, poolVars, main, lap>>

\* flag |= (1 << id): a load and a store.
LoadFlag(w) ==
  /\ pc[w] = "null" /\ Goto(w, "mark")
  /\ old' = [old EXCEPT ![w] = flag]
  /\ UNCHANGED <<queueVars, poolVars, main, lap, myfront, seen, worked>>

StoreFlag(w) ==
  /\ pc[w] = "mark" /\ Return(w)
  /\ flag' = old[w] \cup Bit(w)
  /\ UNCHANGED <<queueVars, is_active, is_live, main, lap, worked>>

Worker(w) ==
  \/ Loop(w) \/ Draw(w) \/ Check(w) \/ Reset(w) \/ Take(w) \/ Work(w)
  \/ LoadFlag(w) \/ StoreFlag(w)

Finished == main = "end" /\ UNCHANGED vars

Next == Main \/ (\E w \in Workers : Worker(w)) \/ Finished

Spec == Init /\ [][Next]_vars

(***************************************************************************)
(* Fairness: running threads run on.                                       *)
(***************************************************************************)
FairSpec == Spec /\ WF_vars(Main) /\ \A w \in Workers : WF_vars(Worker(w))

-----------------------------------------------------------------------------
TypeOK ==
  /\ front \in Nat /\ rear \in 0 .. Chunks * Blocks
  /\ queue \in [Slots -> Jobs]
  /\ slotFlag \in [Slots -> Nat]
  /\ signal \in BOOLEAN /\ is_active \in BOOLEAN /\ is_live \in BOOLEAN
  /\ flag \subseteq 0 .. LongBits - 1
  /\ main \in {"push", "put", "fill", "clear", "start", "wait", "stop", "list", "close",
               "signal", "join", "end"}
  /\ pc \in [Workers -> {"loop", "draw", "check", "reset", "take", "work", "null",
                         "mark", "done"}]
  /\ myfront \in [Workers -> Nat]
  /\ seen \in [Workers -> Nat] /\ lap \in Nat
  /\ old \in [Workers -> SUBSET (0 .. LongBits - 1)]
  /\ worked \in [Jobs -> Nat]

\* When main_sleep returns every block enqueued so far has been initialised:
\* "The main thread remains in the spin lock until all operations are completed"
\* (README.md:80); the blocks go to the free list next (patchfile:126-132,188-194).
InitialisedWhenListed ==
  main \notin {"push", "put", "fill", "clear", "start", "wait"} =>
    \A n \in 0 .. rear - 1 : worked[n] > 0

\* No job is run twice: it was deleted by the first run (patchfile:102-103).
RunOnce == \A n \in Jobs : worked[n] <= 1

\* The workers run every job of a chunk, whatever becomes of the reports: none
\* keeps waiting for a slot while the jobs are there (patchfile:45-61,88-109).
JobsRun == (main = "wait") ~> (\A n \in 0 .. rear - 1 : worked[n] > 0)

\* The destructor joins all workers, wherever main_sleep has left them, in
\* particular those that are about to wait for the next chunk (patchfile:91-95,117-124).
PoolCloses == (main = "close") ~> (main = "end")

\* Worker w has drawn job n and has not run it.
Holds(w, n) == myfront[w] = n /\ pc[w] \in {"check", "take", "work"}

\* The workers do nothing before the chunk has been enqueued; then rear stands still.
MainAgrees ==
  /\ main \in {"push", "put", "fill", "clear", "start"} =>
       /\ ~is_active /\ is_live /\ front = 0 /\ flag = {}
       /\ \A w \in Workers : pc[w] = "loop"
  /\ main = "push" => rear < Blocks
  /\ main \in {"put", "fill"} => rear > 0
  /\ main \notin {"push", "put", "fill"} => rear = Blocks
  /\ \A n \in 0 .. (IF main = "put" THEN rear - 2 ELSE rear - 1) : queue[Slot(n)] = n
  /\ signal => main \in {"join", "end"}

\* A job is still to be drawn, or one worker holds it, or it has been run.
JobsAgree ==
  /\ \A n \in Jobs : worked[n] > 0 => n < front
  /\ \A n \in Jobs : n < front /\ worked[n] = 0 => \E w \in Workers : Holds(w, n)
  /\ \A n \in Jobs, w \in Workers : Holds(w, n) =>
       /\ worked[n] = 0 /\ n < front
       /\ \A u \in Workers : Holds(u, n) => u = w

\* A worker is past the jobs when it resets front or reports, and never gets back to them.
PlacesAgree ==
  \A w \in Workers :
    /\ pc[w] \in {"take", "work"} => myfront[w] < Blocks
    /\ myfront[w] >= Blocks \/ pc[w] \in {"reset", "null", "mark"} => front >= Blocks
    /\ pc[w] = "reset" => seen[w] = Blocks

\* A bit of flag, or of a value that may be stored to it, is that of such a worker.
NothingToDo(w) == w \in Workers /\ front >= Blocks /\ \A n \in Jobs : ~Holds(w, n)

ReportsAgree ==
  /\ \A b \in flag : NothingToDo(b)
  /\ \A w \in Workers : \A b \in old[w] : NothingToDo(b)

\* The invariant of the queue for one chunk: however draws, resets and late reports
\* interleave, each job is with one worker at most, no slot hands out its job again, and who
\* has reported has no job (patchfile:39-61,88-109).
Inv ==
  /\ TypeOK /\ RunOnce
  /\ MainAgrees /\ JobsAgree /\ PlacesAgree /\ ReportsAgree
=============================================================================
