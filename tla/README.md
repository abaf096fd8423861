# TLA+ for 2019-3-2-Multicore-Programming

The repository holds the four projects and the lab exercises of a course on
multicore programming. This directory holds their TLA+ models, the TLC
configurations that check them on small instances, and TLAPS proofs about
project2, the transactional database, which is the repository's largest piece
of concurrent logic, about the snapshot of project3 and the thread pool of
project4, about the external sort of project1, and about the lists, the prime counters, the spin locks and the timers
of the labs.

How to run: `tlc -config X.cfg M` for a run listed below, `tlapm M.tla` for a
module whose name ends in `Proofs`.

1. Inventory of the system
2. Modules
3. Runs: what is checked, on which bounds
4. Findings
5. Fairness
6. Proofs
7. What is only model-checked, and what is not modelled
8. Plan

## 1. Inventory

### project2: reader-writer locks, lock table, database (modelled)

`work()` (`main.cpp:17-34`) runs one thread per worker. A worker picks three
distinct records i, j, k and calls `database::transaction()` until it commits,
as long as fewer than E commits have been counted. A transaction read-locks i,
write-locks j and k, does `records[j] += records[i] + 1` and
`records[k] -= records[i]`, releases the three locks, takes the next commit id,
and appends a line to its thread's log file.

| part | state | operations |
|---|---|---|
| `rwlock` | the list `waiting` of (mode, granted, thread) in order of arrival | `readLock`, `writeLock`, each with a loop that releases the global mutex, yields, takes it again and looks at the list; `readUnlock`, `writeUnlock` |
| `locktable` | one `rwlock` per record; for each thread the list `info` of the records it has an element for, each with a mark for the search | `readlockRecord`, `writelockRecord` (need to wait? then search; refuse or enter), `readUnlockRecord`, `writeUnlockRecord` (pop the oldest `info` element) |
| `database` | `records`, `commit_id`, `globalMutex` | `transaction` with its abort and undo paths, `getCommitId` (read without the mutex) |

Everything but the accesses to `records` and the read of `commit_id` happens
with `globalMutex` held. Hard: the interleavings of the waiting loops with
arrivals and releases; whether a detection that runs only when a request enters
a list sees every cycle; undo after a refusal and after a commit too many;
accesses outside the mutex. Correct means: writers exclude; first come, first
served; no request is lost; no deadlock; serializable log files; exactly E
commits.

### project4: thread pool for MariaDB's buffer pool (modelled)

`patchfile` adds `my_queue` (a ring buffer), `my_thread_pool`, and their use in
`buf_chunk_init` and `buf_pool_init_instance`. The main thread enqueues one job
per block of a chunk, calls `main_sleep()`, which activates the workers and
spins until every worker has reported an empty queue in the bits of `flag`, and
puts the blocks on the free list. State: `front`, `rear`, the slots and their
lap flags, `signal`; `is_active`, `is_live`, `flag`. Nothing is locked; only
`front` is drawn with an atomic fetch-and-add. Hard: everything a worker does
late. Correct means: every block is initialised exactly once before it is
listed; the pool ends.

### project3: wait-free snapshot (modelled)

`WFSnapshot::update` scans the table of entries (label, value, snapshot), then
overwrites its own entry; `scan` compares two copies of the table, and borrows
the snapshot of a thread that it has seen to move twice. When the minute is over
each thread adds its label to `throughput`, without a lock. Correct means: a scan
returns a content the table once had, and ends whatever the others do.

### lab11: lists as sets (modelled)

`list_coarse.cpp` (one mutex), `list_fine.cpp` (hand over hand),
`list_opt.cpp` and `list_free.cpp` (optimistic: search without locks, then lock
and validate), `list_template.cpp` (the exercise, which does not compile).
State: the nodes with key, next and mutex. Operations: add, remove, contains.
Correct means: an operation takes effect at one moment, no freed node is used,
every call returns.

### project1: external sort (modelled)

`main` cuts the input into runs of LIMIT_MEM bytes. For each run 32 threads read
and sort a block each (`worker`), and a heap of the 32 blocks (`myHeap`) merges
them. The first `buffer_size` bytes of the merged run stay in memory
(`temp_buf`), the rest is written to a temporary file through `buffer`. A last
merge takes the least of the runs' next tuples and reads a run's next piece when
the piece in memory is used up. A single run goes to the output directly. State:
the offsets into blocks, pieces and files, the heap, the set of used-up blocks or
runs as bits. Hard: the offset that belongs to a piece, the last, shorter piece,
sizes that do not divide, errors that are not seen because `ret` is unsigned.
Correct means: the output is the sorted input, no buffer is overrun, it ends.

### lab4 to lab7: prime counters (modelled)

Four ways to share the numbers of a range among threads: `prime_mt.cpp` creates
and joins threads for each range; lab4's `prime_cond.cpp` keeps them and tests
`cond` and `thread_work` outside the mutex before it waits; that of lab6 (lab7
has a copy, and one that does not compile) sleeps at a fixed place, under the
mutex; `prac_threadgroup.cpp` posts ranges to the `io_service` of a group of
producers, which post their results to that of a consumer. Hard: wake-ups that
come too early, or without a broadcast; results of the range before; the end.
Correct means: each count printed is the number of primes of its range, and the
program ends.

### lab10 spin locks, lab6 timers (modelled)

Threads that count on one variable: under a test-and-set, a test and test-and-set
or a CLH lock; or as the handlers of two timers on two threads, with a strand or
without. The CLH lock queues by an exchange on `tail`; a thread spins on its
predecessor's flag and deletes it. Correct means: mutual exclusion, order of
arrival (CLH), no use of a deleted flag, no increment lost.

### Not modelled

- **lab5, memcheck and helgrind examples**: faulty on purpose, a few lines.
- **lab6, `timer_sync.cpp`, `timer_async.cpp`, lab10, `test.cpp`**: they print
  and end.
- **lab11, `list_template.cpp`**: the exercise, which does not compile.

The places where this code is hard to test are in `PROJECT.json` under
"hazards", each with the properties that would show it going wrong.

## 2. Modules

    WaitingList, GlobalMutex ─┬─ RWLock ─┬─ MCRWLock
                              │          └──────────────────────┬─ DatabaseProofs
                              └─ LockTable ── Database          │
        Database ─┬─ MCDatabase ─────────┐                      │
           ┆      └─ DeadlockDetection ─┬┴─ MCDetection         │
           ┆                            └───────────────────────┘
    SerialDatabase    (INSTANCE: what Database implements)

    ThreadPool ─┬─ MCThreadPool       Snapshot ─┬─ MCSnapshot
                └─ ThreadPoolProofs             └─ SnapshotProofs
    ExternalSort ─┬─ MCExternalSort
                  └─ ExternalSortProofs
    PrimePool ── ThreadGroup ─┬─ MCPrimePool
                              └─ PrimePoolProofs
    SharedCounter ─┬─ MCSharedCounter
                   └─ SharedCounterProofs
    ListSet ─┬─ FineList ─┬─ MCFineList      ListSet ┄ AbstractSet
             │            └─ FineListProofs  (INSTANCE: what the lists implement)
             └─ OptList ─┬─ MCOptList
                         └─ OptListProofs

`DatabaseProofs` is about both the lock and the database, which need the same lemmas
about waiting lists; the definitions of `RWLock` are therefore prefixed (`RWInit`,
`RWNext`, ...). `OptListProofs` takes lemmas about lists from `FineListProofs`, by
INSTANCE.

| module | models |
|---|---|
| `WaitingList` | class `infoLock` and the list operations of `rwlock.cpp` as operators on sequences: when a request is granted at once, when a waiting one may go, enter, grant, leave |
| `GlobalMutex` | the worker threads of project2, their places in the code, and the owner of `globalMutex` |
| `RWLock` | one lock and its threads. A step is a critical section of the global mutex; the waiting loop is one step per turn |
| `LockTable` | class `locktable`: the lists of all records, `info`, and the detection as "the requester is in every set that contains the threads of the list and is closed under what the search visits" |
| `DeadlockDetection` | `detectDeadlock` as it is written: the recursion that sets and tests marks in `info`, from the last element of the list. `search` is a recursive function on the places where a call can be, `Calls`; every turn of a loop is one application |
| `Database` | `transaction()` and `work()`: requests, polls, reads, writes, abort with undo, release, commit or undo of a commit too many. `nth` says which of the three records is dealt with, `pc` where in the code the thread is |
| `SerialDatabase` | the abstract database: one action, which commits a whole transaction with the next id and logs it |
| `ThreadPool` | the loads and stores of the shared words of `patchfile` are actions; `flag` is the set of its bits. Two are taken together where no other thread can tell: the loads of one test in `dequeue` (`Check`), and in `enqueue` the store of the job with the load of its slot's flag (`Put`; a worker reads the slot after the flag has been stored, by `Fill`). `rear++` is the main thread's own, one store for the others |
| `Snapshot` | every load and store of an entry's member, of an element of a borrowed snapshot, and of `throughput`, is an action. `during` and `over` are history variables that only the properties read |
| `ExternalSort` | `project1/src/main.cpp`: an action for each turn of a merge loop, for each worker and each phase in between; a tuple stands for its key. The heap operations are functions. A system call fails for a whole piece or not at all, `MaxErrors` of them at most |
| `PrimePool` | the main thread and the workers of three programs (`program` says which): every load and store of a shared word that another thread can tell from the next |
| `ThreadGroup` | lab7's thread groups: adds the queues of the two `io_service`s to `PrimePool`; `run()` takes a handler or returns |
| `SharedCounter` | lab10's locks around the load and the store of an increment, lab6's handlers around the same; the flags of the CLH lock have addresses that are used again |
| `ListSet` | what the lists have in common: nodes, locals, the beginning and the end of a call, what add and remove do at their place; `NodesFrom`, the nodes a walk from the head can meet, as the least set closed under `next` |
| `FineList` | `list_fine.cpp`: every lock operation is an action, together with the accesses made under the lock taken; `free` is one of its own |
| `OptList` | `list_opt.cpp` and `list_free.cpp`: every load of a `next` during the walk and the validation is an action; removed nodes stay allocated |
| `AbstractSet` | a set with add, remove, contains that take effect in one step. It is also what `list_coarse.cpp` does, operation by operation, inside its one mutex |

`Database` refines `SerialDatabase` by `db <- Committed`: the records with the
writes of transactions in progress taken back. A write to a record is taken
back from the moment it is made until `Release` or the undo, and `LogCommit` is
the abstract `Commit`. `FineList` and `OptList` refine `AbstractSet` by
`members <- Keyset`, the keys found by a walk from the head; the step that relinks, or that finds the
place, is the abstract `Effect`.

Some definitions marked "(mutant)" stand before the one they vary. They are
plausible bugs; `PROJECT.json` names the property that each one breaks. No
specification uses them.

## 3. Runs

| run | configuration | shows |
|---|---|---|
| `rwlock` | `MCRWLock.cfg` | exclusion, the list's invariant, first come first served, no request lost, readers join readers |
| `database_safety` | `MCDetection.cfg` | the lock table agrees with the transactions, writers exclude, no wait-for cycle, exactly E commits logged, the marked recursion equals the closure |
| `database_serial` | `MCDatabaseSerial.cfg` | the refinement of `SerialDatabase`; a waiting request is granted in the end; the threads end or refusals go on for ever |
| `pool` | `MCThreadPool.cfg` | one chunk: every block initialised once before it is listed, all jobs run, the pool closes |
| `pool_early_return` | `MCThreadPoolEarly.cfg` | violated with two chunks, see Findings |
| `snapshot` | `MCSnapshot.cfg` | a scan ends whatever the others do; a thread seen to move twice has ended an update; the throughput is that of some of the threads |
| `snapshot_atomic` | `MCSnapshotAtomic.cfg` | violated, see Findings |
| `fine_list` | `MCFineList.cfg` | operations are those of a set, no freed node is used, every call returns |
| `opt_list` | `MCOptList.cfg` | what is validated stays so under the locks, operations are those of a set, some call always gets through if `list_contains` is not called |
| `external_sort` | `MCExternalSort.cfg` | the output is the sorted input, the heap is one, buffers hold, the sort ends |
| `prime_pool` | `MCPrimePool.cfg` | counts are right, lab6 loses no wake-up, a thread group prints every result, the programs end |
| `counters` | `MCSharedCounter.cfg` | mutual exclusion, order of arrival, no deleted flag used, the final count, the programs end |

`Inv` is a module's type invariant together with the invariant its other
properties rest on (`ListDescribesThreads`, `RunOnce`, `PreviousUpdateOver`,
`HeapOrdered`, the mutual exclusion of `SharedCounter`; `RWInv` for the reader-writer lock). In all
modules but `ExternalSort`, whose inductive invariant, `IInv`, is only stated with its
proofs, it is strong enough for the proofs of section 6 (for the prime
counters as `GroupInv`, for `ThreadPool` together with `InitialisedWhenListed`),
and the runs check all of it.

Bounds, and why they are enough:

- `rwlock`: 4 threads. The loops look at one neighbour, so that a granted reader,
  a waiting reader, a writer and one more behind it already give every relation
  an element can have to those before it. No other bound: threads come back for
  ever.
- `database_safety`: 3 threads and 3 records, so that every pick conflicts with
  every other in all ways, cycles of two and of three arise, and a refused
  thread holds locks others wait for. `txnNum = 1`, so that two threads lose the
  competition for the last commit. Threads and records are symmetric (no
  liveness in this run).
- `database_serial`: 2 threads and `txnNum = 2`; the liveness part forbids
  symmetry. Values range over -8..7 with wrap-around (`LLONG_MAX = 7`), so that
  they overflow.
- `pool`: 3 workers, one chunk of 3 blocks, a ring of 4 slots. An `int` of 4 bits and
  a `ulint` of 8, so that three workers are the most that have a positive bit of
  their own, as 31 have of 32. `pool_early_return` has the least that shows it: one worker
  and two chunks.
- `snapshot`: 2 threads, labels modulo 3, so that a label that went round is
  among the cases. Control does not depend on values: one suffices.
  `snapshot_atomic` has 3 threads and 2 values: a thread's own entry stands still
  during its scan, so that it takes two others to store something between the loads of
  two values.
- `fine_list`, `opt_list`: 2 threads, keys 1 and 2, 3 nodes: the list can be
  full, an add can allocate a node freed a moment ago, and the operations meet
  on the same and on neighbouring nodes. Nodes that nobody knows are reset to their first
  content to keep the number of states down. `opt_list` does
  not check for deadlock, since `list_contains` does end in one.
- `external_sort`: 5 blocks of 2 tuples, so that the heap has three levels and
  both a parent with one child and one with two; tuples of 3 bytes and 36 bytes of
  memory for the first parts of the runs: one run needs none, of two runs six
  tuples each stay, of three four, so that they are read back in a cut piece, or in a
  whole and a cut one, much as 2 and 4 GB. Of four runs three tuples each stay, which is no
  whole number of buffers, as of 25 GB; of five no whole number of tuples, as of
  3 GB; of 37 none. `IntBits = 6`, so that six runs are what 32 are to an `int`. Keys
  repeat. Inputs shorter than a run, or that end within one, are among
  the files. Up to two calls fail, for five of the inputs: one shorter than a run, two
  of one run, one of two and one of three. Two, so that what one
  leaves behind, a block or a piece of old tuples, meets the other.
- `prime_pool`: 3 workers, one spurious wake-up; a range of 7 numbers, or an empty
  range followed by one of two numbers. Two ranges are what it takes for a worker
  that is late for the first to meet the second. No check for deadlock: a
  missed wake-up ends in one.
- `counters`: 3 threads, 2 turns each, 4 addresses for flags, so that a thread
  is in front of, behind, and two places behind another, and every address is
  used again. No check for deadlock: the first CLH flag may be set.

## 4. Findings

The violated runs are disagreements between the code and what the repository
says of it; `PROJECT.json` quotes the lines.

- **`main_sleep` returns early** (`patchfile:51`). A worker that found the queue
  empty stores `front = rear` after the next chunk has been enqueued; its jobs
  are skipped, and their blocks go to the free list uninitialised.
- **Snapshots that never were** (`project3/src/main.cpp:63`). Both copies are
  pointers to the same entries, so that each label is loaded twice in a row, and the
  values are read later, without a check. Thread 0 finds all labels equal and reads
  the values of 0 and 1; thread 1 stores its value 1, then thread 2; thread 0 reads the
  value of 2. It returns (0,0,1); the table held (0,0,0), (0,1,0) and (0,1,1).
  `ScanIsAtomic` is about scans that see nobody move.

Other behaviour that properties state as a condition, and that TLC finds when the
condition is left out:

- **Transactions that refuse each other for ever** (`main.cpp:24`). The search
  follows every thread that stands before another in a list, granted or not
  (`locktable.cpp:41`): of two readers of the same record the second counts as
  waiting for the first, and a request can be refused although nobody would wait
  in a circle. A refused transaction is retried at once with the same records.
  Two transactions that read the same record can take turns in being refused,
  with nobody ever waiting, so that `join` need not return under a fair
  scheduler.
  `EndsUnlessRefused` says that nothing else keeps the threads from ending.
- **Borrowed arrays that are gone** (`project3/src/main.cpp:17-19`, `:96`). The array of an
  entry belongs to a local of `update` too, whose destructor deletes it when `update`
  returns; the first one has never been written. A scan that borrows it may get
  anything (`Delete`, `Invalid`, `Borrow`). No property says what such a scan returns.
- **Lost labels** (`project3/src/main.cpp:122`). Two threads that add to `throughput` at
  once lose one of their labels. `ThroughputIsPartial` accepts that, and says what
  remains true of the sum.
- **A search that never ends** (`list_opt.cpp:155`). `list_contains` locks its
  two nodes a second time where it should unlock them. `SomeCallReturns` is
  about executions in which it is not called.
- **Missed and unexpected wake-ups** (`lab4/prime_cond.cpp:38`,
  `lab6/prime_cond.cpp:57`). A worker of lab4 tests `cond` without the mutex and
  can fall asleep after the broadcast, with its part of the range still to do (`missed`;
  one that falls asleep between `cond = 0` and the broadcast is woken by it). It can also find `cond` below
  its limit, and `thread_work` cleared for the next range after `cond` has
  reached it, and count a range that is over (`stale`). A worker of lab6
  that is woken without a broadcast (`spurious`) counts the old range.
  `ProgramEnds` of `PrimePool` excludes all three, `RightCounts` and `NoLostWakeup` the
  last two (`Undisturbed`): they say that nothing else goes wrong.
- **Timers that race** (`timer_fix_race.cpp:30`). The strand is declared and not used:
  two handlers can load the same count. `FinalCount` accepts lost increments and a count of
  `Limit + 1` there, and is exact for the strand and the locks.
- **A lock that is held from the beginning** (`prac_clhlock.cpp:37`). `new bool`
  leaves the first flag to chance; if it is true no thread gets in
  (`FirstFlagSet`).
- **Errors that are not seen** (`project1/src/main.cpp:317`, `:326`). `ret < 0` is
  never true of a `size_t`. After a failed `pread` the block of the previous run
  is sorted again, after a failed `pwrite` a piece is missing, and a piece beyond
  the end of a file is asked for without end. An input of less than LIMIT_MEM
  divides by zero (`:162`); three runs make `buffer_size` no whole number of
  tuples, and the last tuple goes beyond `temp_buf` (`:214`). 25 runs make it no whole
  number of buffers: the end of each run stays in `buffer` and is never
  written, and `file_read` asks for it without end (`:223`, `:315`). With 32 runs
  `FLAG(file_num)` shifts by the width of an `int` (`:267`). `Terminates`,
  `OutputSorted` and `BuffersHold` name these cases.

Not a run, but in the model: the bits of `ThreadPool` have the widths of `int`
and `ulint`, and with `IntBits = 2`, `LongBits = 4` and `size = 2` in the place of
32, 64 and 32 TLC finds `InitialisedWhenListed` violated: `1 << id`
(`patchfile:100`) is negative for the 32nd worker and becomes a `ulint` with all
upper bits set, which `main_sleep` takes for the report of everybody. And with two chunks of
two blocks and two workers `RunOnce` is violated as well: an index is drawn twice, and a
worker that has drawn one that was skipped spins in `dequeue` for a slot that never
becomes full (`patchfile:56`). `PoolCloses` holds there too, with `CHECK_DEADLOCK FALSE`: the
destructor's `signal` releases that worker. One worker runs no block twice with two chunks.

## 5. Fairness

- A thread that can run does run (weak fairness of its steps): the threads
  are ordinary preemptively scheduled threads.
- `std::mutex` (project2) and the nodes' pthread mutexes (lab11) are free again
  and again rather than continuously while others take them in turn, so the lock
  operations are strongly fair. Neither type promises that by contract;
  `std::this_thread::yield()` between unlock and lock is the code's own means
  to that end in project2, and in lab11 the holder of a node moves on.
- Holders give locks back (`HoldersLeave`) only where it is needed: it is the
  hypothesis of `EveryRequestServed`, and `ReadersJoin` does without it. In
  `Database` it need not be assumed, since a holder is a transaction.
- A worker of the pool and the main thread are weakly fair, nothing more. So are
  the threads of `ExternalSort`, `PrimePool`, `ThreadGroup` and `SharedCounter`:
  the mutex of `PrimePool` is held only on the way into `pthread_cond_wait`, and
  the spin locks, which promise nobody a turn, are free for good once the others
  have had their `NUM_WORK` turns. Nobody assumes that a spurious wake-up comes or
  that a system call fails.
- `WaitFree` assumes nothing but that the scanning thread itself runs on: the
  others may stop anywhere or update for ever.
- In `FineList` and `OptList` calls come at any time and need never come. A call
  of `OptList` can be overtaken for ever, so that `SomeCallReturns` is about the
  threads together.

## 6. Proofs

A theorem holds for all values of the constants that satisfy the module's named
assumption, and assumes nothing else but what is said here:

- project2: every set of threads and of records, finite or not, all values of
  `txnNum`, `INIT_VALUE` and `LLONG_MAX` in their types. The value of a free
  mutex is no thread (`NobodyAssumption`).
  `ExactlyTxnNum` is about at least one thread: with none, all have ended at once.
  `SearchFinds` is about finitely many threads.
- Lists: every set of threads, of keys strictly between `INT_MIN` and `INT_MAX`,
  and of nodes, which are neither the head, the tail nor `NULL` (`ListAssumption`).
- Prime counters: every number of workers and of spurious wake-ups, every set of
  sequences of ranges as input (`PrimePoolAssumption`). `Invariance` needs two
  workers, since the last one is the consumer of a thread group and the others
  the producers: the code has nine and one.
- Spin locks and timers: every finite set of threads, all values of `NUM_WORK`
  and `Limit`; there is memory for the flags (`CounterAssumption`).
- Snapshot: every number of threads and of labels, every set of values
  (`SnapshotAssumption`).
- Thread pool: all widths and sizes (`ThreadPoolAssumption`), for one chunk that
  fits into the ring and fewer workers than an int has bits. The theorems state
  this as their hypothesis, `OneChunk`, since without any of the three they are false: a
  late worker skips jobs of a second chunk (section 4), a full ring is overwritten
  (`patchfile:42`), and `1 << 31` is negative (section 4). There is one worker less than
  processors (`patchfile:211`), so that up to 32 processors are covered.
- External sort: every number of threads, all sizes of tuples, blocks and buffers, every
  set of files, with keys from any set of positive numbers, and any number of failing system
  calls (`SortAssumption`). Blocks and buffers are whole tuples, and the LIMIT_MEM bytes of a run
  are whole buffers, as 10^9 and 10^7 are (`main.cpp:21-29`). Without the last of these,
  the end of a run would stay in `buffer` and be lost.

**DatabaseProofs, the lock.** It begins with what each list operation does to the
elements and the positions of a list, to `OneEach` (one element per thread) and
to `GrantedFirst` (granted elements are a prefix; more than one are all
readers). The shift of positions is what `erase` in the middle of the list
needs. The proofs about the database cite the same lemmas for the list of each record.

The inductive invariant is `RWInv`, `RWTypeOK /\ ListDescribesThreads`;
neither is inductive alone, since the list stays a list of requests only because
a thread that looks for its element finds it. (That the mutex has one owner is
not needed: a critical section is one step.) `MutualExclusion` follows
from the list being a description of the threads together with `GrantedFirst`. `FirstComeFirstServed` is shown action by
action: the loop looks at one neighbour only, and `GrantedFirst` extends what it
sees there to everything further ahead.

**DatabaseProofs, the database.** The inductive invariant is `TypeOK /\ LockTableAgrees`.
`LockTableAgrees` fixes both `info` and the lists
as functions of the progress of each transaction; without it a release, which
pops `info` unseen and erases by thread id, could not be shown to remove what
belongs to it. From it follow

- `Writers`: `WritersExclude`, by `GrantedFirst` and the modes of the elements;
- `NoDeadlock`: `DeadlockFree`. Suppose a step closes a cycle: a set S in which
  everybody waits for somebody of S. Grants, releases and accesses only take
  edges away, so the step is a request of a thread t that has to wait, and t is
  in S. The step was not refused, so some set C is closed under the search,
  contains the threads of the list and not t. What a thread waits for it also
  visits (lemma `DetectionFollowsWaits`), so that nobody in C waits for anybody
  outside C. t waits only for threads in C; hence S meets C, and S ∩ C, which
  does not contain t, is a cycle that existed before the step.

That the search follows more than waits does not disturb this
argument: it refuses too much, never too little.

`LockTable` says what the search finds by a closure, and the proofs above use that;
`SearchFinds` (`SearchAgrees`) says that the recursion of the code finds the same. It
takes three steps:

- `SearchInduction`: the recursion ends. A call that follows a record marks it first,
  and there are three records for each thread (this is where there have to be finitely many
  threads); otherwise it goes on to the next record, or to the element before.
- `SearchEquation`: there is a function that satisfies the definition of `search`. It is the
  limit of the searches that are cut off after n nested calls (`Iterates`).
- `StepRight`: what is found is in every closed set around the list; and when
  nothing is found, every record marked was followed up to the end (`Followed`): all threads
  in its list before the owner of the mark have all their records marked, and none is the
  requester. The mark set before the search starts is for the list that is searched first.
  Then the threads whose records are all marked are a closed set without
  the requester (`SearchDetects`).

The commit needs more: `CommitInv` adds to the invariant

- `MutexAgrees`: the mutex belongs to the thread that is between two of its
  operations on it;
- `ReservedExclude`: a record that a transaction will write is reserved for it, by
  its lock, or, once the locks are given back, by the mutex, which the thread
  keeps until it has logged or undone its writes;
- `ValuesAgree`: a record read still has the value read, a record written has the
  value computed from those remembered in `saved`;
- `CommitsAgree`: the number of lines logged is `commit_id`, without the commit
  in progress and those beyond `txnNum`.

`SerialExecution` (`Serializable`) follows: taking back all uncommitted writes
gives the same records before and after every step but `LogCommit`, as no two
transactions have written the same record; and at `LogCommit` the three records
of the transaction hold what the abstract `Commit` computes, because what it
read and overwrote was committed and has not changed. `ExactlyTxnNum` (`ExactlyE`)
is read off `CommitsAgree`: a thread ends only when `commit_id >= txnNum`, and
when all have ended no commit is in progress.

**FineListProofs, OptListProofs.** `IsList` says that a set of
nodes is the list: each node's successor has the next larger key, and every
closed set of nodes contains them all. Linking a node between two neighbours and
unlinking one keep it (`LinkKeepsList`, `UnlinkKeepsList`), and the keys found by
a walk are those of the list (`WalkFindsList`). `OptListProofs` cites these lemmas
of `FineListProofs`.

- `FineList`: all allocated nodes are in the list but for at most one per thread,
  which has it for itself (`OneOwner`): a new one, or one it has taken out.
  A thread on its way has the mutexes of two neighbours of the list, the first
  with a smaller key than the one looked for (`LocksAgree`). Hence a node that is
  unlinked has no other thread on it or waiting for it, and is nobody else's when
  `free` is called although its mutex has been given back (`NodesAreThere`).
- `OptList`: nodes stay allocated, so that the walks may meet nodes that have been
  taken out; all that is known of these is that every way leads to larger
  keys and to the tail (`LinksAgree`). The second walk of a thread holds the two
  mutexes. If `prev` can still be met from where it is, then `prev` is in the
  list (last line of `PlaceAgrees`): a walk from the head starts among the nodes of
  the list; nobody else takes `prev` out while its mutex is held; and if it was
  taken out before, no step of another thread leads the walk back to it
  (`CutOffStays`). So a walk that arrives at `prev` establishes `ValidatedStays`.

`Linearizable` (`IsASet`) is the refinement of `AbstractSet`: a thread at its place
has found the key if and only if it is a member (`FoundIsMember`), the step there
is the abstract `Effect` (`TakesEffect`), and no other step changes the keys.

**PrimePoolProofs.** Workers are numbers below `NUM_THREAD`, and the programs add
up their results; `PartsMakeTheRange` shows that the parts of a range add up to
the primes of the range, also when it does not divide evenly or is empty. This is
an induction. A theorem of the library that has the induction predicate as an
operator cannot be used (section 7); `SetInduction` says the same of a set
that contains 0 and with n also n + 1. The rest is an invariant for each program:

- `JoinAgrees`: results are read only after all workers have ended.
- `Lab6Agrees`: outside a range all workers are about to sleep or asleep, and within
  one `thread_ret` is -1 unless the worker has reported and sleeps again. As
  `main` goes on only when nothing is -1, and a worker holds the mutex on its
  way to sleep, the broadcast finds all asleep (`AllAreAsleep`, `NoLostWakeup`).
- `Lab4Agrees`: `cond` is the number of workers whose mark `thread_work` is set and
  that have incremented it; hence it reaches `NUM_THREAD` only with all results
  there.
- `GroupAgrees`: a range that has been posted is in the queue of the producers,
  with one of them, or its result is in the queue of the consumer or printed; and
  the number of ranges posted is the sum of the sizes of these four places, so
  that none is there twice. `run` returns only when its `work` is deleted and its queue
  empty; at the end everything has been printed (`AllConsumed`).

`CountsAreRight` (`RightCounts`) has no hypothesis on the number of workers. It is about
executions that are `Undisturbed`, as is `AllAreAsleep`: lab4's late test and lab6's
spurious wake-up do lead to wrong counts (section 4).

**SharedCounterProofs.** `MutualExclusion` is not inductive. For the lock words
and the strand it needs `WordAgrees`: a word that is 0 says that nobody is in.
For the CLH lock it needs `QueueAgrees` and `FlagsAgree`: behind the first of
the queue all spin, each on the flag of the thread before it, and every flag in
use is set and has one owner. A thread that leaves its loop has found a cleared
flag, so it is the first. `FlagsAgree` also accounts for every allocated flag,
as the tail, an owner's or the one a thread spins on; hence `new` returns an
address none of the others uses, and a thread deletes a flag nobody else has.
`InOrder` and `NoFlagUsedAfterDelete` are read off the invariant. `NextKeepsInv`
has a lemma for each action on the queue (`NewFlagKeeps`, `SwapKeeps`,
`SpinKeeps`, `UnlockKeeps`, `JoinKeeps`), and one for the lock words.

The final count is no sum over the threads but the cardinality of a set, the
pairs of a thread and a turn whose increment is done (`Turns`, `LocksCount`). Each
store adds one pair, as the value loaded is not stale while the lock is held. Under
the strand the count is the number of lines printed (`StrandCounts`). Without
it, a handler that passed the test may find the count at the limit, but then
the other one is before its test and will stop there (`LastToCount`), so that
the count ends at the limit or one beyond (`RaceCounts`).

**SnapshotProofs.** `PreviousUpdateOver` rests on `MovesAgree`: a thread that a scan
has seen to move has stored a label since the scan began, in an update that is over
or still goes on (`HasStored`). The copies of the table are made entry by entry, so
that a second move is another store of the label; the thread has begun a new update
for it, and the one before is over. When labels go round, a store can be missed, but
none is seen that has not been made. A
sum is again the cardinality of a set, `UpdatesOf(S)`, the updates of the threads of
S that their labels count. `SumsAgree`: what is in `throughput`, and what a thread has
loaded to add its label to, are the updates of some threads that have added theirs.
A store replaces the sum, so that updates of others are lost, but it has its own
thread's in it, once (`OneThreadMore`). When all have ended the threads
counted are not none, which is `ThroughputIsPartial`.

**ThreadPoolProofs.** What makes late steps harmless within one chunk:

- `MainAgrees`: while jobs are enqueued no worker does anything; afterwards `rear` and
  the slots stand still, and slot n holds job n.
- `JobsAgree`: a job is still to be drawn, or one worker holds it, or it has been run.
- `PlacesAgree`: a worker resets `front`, or reports, only when `front` has passed the
  last job, and what it sets it to is `rear` too. So `front` never goes back to a
  job (`PlacesStep`).
- `ReportsAgree`: a bit of `flag`, or of a value some worker has loaded and may store,
  is that of a worker that holds no job, with all jobs drawn. That holds for ever,
  so that an old value that overwrites `flag` can lose reports but invents none.

`main_sleep` returns when all bits are set, or one beyond the last worker's; the second
cannot be (`OwnBit`). Then all jobs have been drawn and nobody holds one, so all have been
run (`MainStep`), which is `InitialisedWhenListed`. It is needed for the induction in turn:
`signal`, which lets a worker drop the index it has drawn, comes after it.

**ExternalSortProofs.** The heap operations, the filling of the heap and the choice of the
least run are recursive functions, and TLA+ has to be shown that there are functions
that satisfy these definitions. `Loop` does that for a loop that makes a measure less, and
`Recurrence` for one that counts up; both rest on `Iterates`, that a function can be
applied any number of times. Then `SiftUpRight` and `SiftDownRight` show by induction over
sets that a heap in which one element is out of place becomes a heap (`RisesFrom`,
`SinksFrom`), and `PushFacts`, `PopFacts` and `TopIsLeast` are what the merge uses.

That nothing is lost or written twice is a statement about counts: `Count(f, k)` is how
often k is a value of f. `Merging(done, left, all)` says what a merge keeps: what is
done is in order, nothing left is less than anything done, and every key is counted as
often in done and left together as in all. Taking a least one of what is left
keeps it (`MergeStep`), and when nothing is left, all is done (`MergeEnds`). Both merges
of the program are of that kind, so that the inductive invariant `IInv` says it twice:

- `Workers`: a block whose worker is done is in order, and has the tuples of its part of
  the run (`SortFacts`: the sorted block is a permutation);
- `MergeBounds`, `MergeRight`: within a run, the tuples taken lie one after the other in
  `temp_buf`, the file and `buffer` (`Merged`); the tuples left are those of the blocks
  from `partial_offset` on; each block is in order, so that the least of the first ones, which
  is on top of the heap, is the least of all;
- `RunsStored`: a run that has been merged is in order, its first part in memory and the
  rest in its file (`Stored`), and it has the tuples of its run of the input;
- `LastBounds`, `LastRight`: in the last merge, what is written is in the output and in
  `buffer` (`Out`); what is left of a run is, up to the end of the piece loaded, in
  `temp_buf`, behind that in its file (`Value`). A piece that is loaded moves this border
  and nothing else (`PieceLoaded`);
- `AtEnd`: the output, from the last merge or, for a single run, from the first.

The bounds hold whatever fails, the contents while nothing has failed. `Sorting`
(`OutputSorted`) is `AtEnd`, with the offsets from 1 of the input; `InBounds`
(`BuffersHold`) is read off the bounds, as is the heap of `Invariance` (`Inv`). The file of a run
ends, at the latest, with the run, since `Limit` is a multiple of `Buffer`; it may lack its
end when `buffer_size` is no multiple of BUFFER_SIZE, and then `Refill` goes on to the "spin"
of `file_read`, so that `LastRight` speaks of the contents only where all runs are whole.

The proof corrected the model in one place: `Documented` also has to exclude
`buffer_size = 0`, with which the first tuple already overflows `temp_buf`. That takes more
runs than there are bytes of memory for them; `external_sort` has since had an input of that
kind, and one whose runs lack their ends. TLC has also checked `IInv` on that instance.

| theorem | property |
|---|---|
| `DatabaseProofs!RWInvariance`, `Exclusion`, `Order` | `RWInv`, `MutualExclusion`, `FirstComeFirstServed` |
| `DatabaseProofs!TypeCorrect`, `TableCorrect`, `Writers`, `NoDeadlock` | `TypeOK`, `LockTableAgrees`, `WritersExclude`, `DeadlockFree` |
| `DatabaseProofs!SerialExecution`, `ExactlyTxnNum` | `Serializable`, `ExactlyE` |
| `DatabaseProofs!SearchFinds` | `SearchAgrees` |
| `FineListProofs!Invariance`, `Linearizable` | `Inv`, `IsASet` |
| `OptListProofs!Invariance`, `Linearizable` | `Inv`, `IsASet` |
| `PrimePoolProofs!Invariance`, `CountsAreRight`, `AllAreAsleep` | `GroupInv`, `RightCounts`, `NoLostWakeup` |
| `SnapshotProofs!Invariance`, `Throughput` | `Inv`, `ThroughputIsPartial` |
| `ThreadPoolProofs!Invariance`, `ListedBlocks` | `Inv`, `InitialisedWhenListed` |
| `ExternalSortProofs!Invariance`, `Sorting`, `InBounds` | `Inv`, `OutputSorted`, `BuffersHold` |
| `SharedCounterProofs!Invariance`, `CountAtTheEnd`, `InOrder`, `NoFlagUsedAfterDelete` | `Inv`, `FinalCount`, `FirstComeFirstServed`, `FlagsAreLive` |

## 7. Limits

Only model-checked:

- all liveness properties: the prover does not deal with fairness or ENABLED;
- `InitialisedWhenListed` and `Inv` of `ThreadPool` where `OneChunk` does not hold.

Abstracted: file I/O, the text of the log lines, timing. Overflow of `long long`
wraps around, as the usual builds do. Loads of plain variables that race in
project4 may give any value the variable had since the last load of it; all
stores are in program order. In lab4, lab6 and lab10 loads and stores are as in
the source: no compiler keeps a shared word in a register, and `thread_work` of
lab10, which has no return statement, returns. `FLAG(32)` of project1 shifts an
int by its width; it is all bits, as g++ folds it; a shift by `file_num` that is too wide is
not folded, and not followed ("shift"), nor is a copy beyond `temp_buf` ("overflow"). `pthread_create` succeeds (its
errors are positive numbers, which the code does not look for). In project3 the stores to an entry are in the order
of its members. Keys of
lab11 lie strictly between `INT_MIN` and `INT_MAX`.

Not claimed: that `main_sleep` ever returns. Workers that do
`flag |= 1 << id` in lockstep can take back each other's bits for ever; only
chance ends that.

Not modelled: see the end of section 1; `PROJECT.json` gives the reason for each
component.

## 8. Plan

Every safety property that a run checks is proved, for `ThreadPool` under `OneChunk`. What
is left to prove is more about `ThreadPool` with several chunks: which jobs a late worker
can skip, and that the blocks listed are initialised in all executions in which it does not.
