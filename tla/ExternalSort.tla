----------------------------- MODULE ExternalSort -----------------------------
(***************************************************************************)
(* project1: the external sort.  A file is cut into file_num runs of       *)
(* LIMIT_MEM bytes.  THREAD_NUM threads read and sort the blocks of a run, *)
(* a heap merges the blocks; of each run the first buffer_size bytes stay  *)
(* in memory and the rest goes to a temporary file.  A last merge reads    *)
(* the runs back piece by piece.  A tuple stands for its key; offsets      *)
(* count tuples, the sizes that are constants count bytes.  A failed pread *)
(* or pwrite is modelled where it is the first call for its piece.         *)
(***************************************************************************)
EXTENDS Integers, FiniteSets, SequencesExt

CONSTANTS
  THREAD_NUM, TUPLE_SIZE, BLOCK_SIZE, BUFFER_SIZE,
  REMAINED,    \* REMAIN * BUFFER_SIZE * FILE_DIV: what stays in memory of all runs
  Keys,
  Files,       \* the input files, as sequences of keys
  FaultyFiles, \* those of them during whose sort system calls may fail
  MaxErrors,   \* bound on the system calls that fail
  IntBits      \* the bits of an int

ASSUME SortAssumption ==
  /\ THREAD_NUM \in Nat \ {0} /\ TUPLE_SIZE \in Nat \ {0} /\ REMAINED \in Nat \ {0}
  /\ BLOCK_SIZE \in Nat \ {0} /\ BLOCK_SIZE % TUPLE_SIZE = 0
  /\ BUFFER_SIZE \in Nat \ {0} /\ BUFFER_SIZE % TUPLE_SIZE = 0
  /\ (THREAD_NUM * BLOCK_SIZE) % BUFFER_SIZE = 0
  /\ Keys \subseteq Nat \ {0}
  /\ \A f \in Files : f \in Seq(Keys)
  /\ FaultyFiles \subseteq Files /\ MaxErrors \in Nat /\ IntBits \in Nat

VARIABLES
  file,        \* the input
  errors,      \* auxiliary: how many system calls have failed
  main,        \* where the main thread is
  run,         \* i, the run it reads or merges
  worker,      \* where the threads of the run are
  data, partial_offset, heap,
  flag,        \* the blocks, in the last merge the runs, that are used up
  fflag,       \* the part of the run that stays in memory is complete
  temp_buf,
  buffer,      \* buffer up to buffer_offset; write_buf up to offset
  out_offset,  \* output_offset, temp_out_offset
  temp_file, output,
  idx, temp_in_offset, temp_used

runVars == <<worker, data, partial_offset, heap>>
bufVars == <<buffer, out_offset>>
keptVars == <<fflag, temp_buf>>
fileVars == <<temp_file, output>>
lastVars == <<idx, temp_in_offset, temp_used>>
vars == <<file, errors, main, run, runVars, keptVars, flag, bufVars, fileVars, lastVars>>

Threads == 0 .. THREAD_NUM - 1
Block == BLOCK_SIZE \div TUPLE_SIZE
Limit == THREAD_NUM * Block
Buffer == BUFFER_SIZE \div TUPLE_SIZE
file_num == ((Len(file) * TUPLE_SIZE) \div BLOCK_SIZE) \div THREAD_NUM
buffer_size == REMAINED \div file_num
Runs == 0 .. file_num - 1

Garbage == 0   \* what new char[] and holes of files contain
NoFile == [o \in {} |-> Garbage]

Init ==
  /\ file \in Files
  /\ errors = 0 /\ main = "start" /\ run = 0
  /\ worker = [j \in Threads |-> "idle"]
  /\ data = [o \in 0 .. Limit - 1 |-> Garbage]
  /\ partial_offset = [j \in Threads |-> 0]
  /\ heap = <<>> /\ flag = {} /\ fflag = FALSE
  /\ temp_buf = <<>> /\ buffer = <<>> /\ out_offset = 0
  /\ temp_file = <<>> /\ output = NoFile
  /\ idx = 0 /\ temp_in_offset = <<>> /\ temp_used = <<>>

-----------------------------------------------------------------------------
(***************************************************************************)
(* System calls.                                                           *)
(***************************************************************************)
Succeeds == UNCHANGED errors
Fails == file \in FaultyFiles /\ errors < MaxErrors /\ errors' = errors + 1

\* open: the program goes on at l, or prints an error and returns.
Open(l) ==
  \/ Succeeds /\ main' = l
  \/ Fails /\ main' = "failed"

Try(ok) == IF ok THEN Succeeds ELSE Fails

\* file_write: ret is a size_t, so that an error is never less than 0; offset
\* becomes the greatest size_t, the loop ends, and nothing has been written.
file_write(f, new, start, ok) ==
  LET place == start .. start + Len(new) - 1
  IN  IF ok THEN [o \in DOMAIN f \cup place |-> IF o \in place THEN new[o - start + 1] ELSE f[o]]
      ELSE f

\* The n tuples of file f from start; holes read as zeros.
Piece(f, start, n) ==
  [k \in 1 .. n |-> IF start + k - 1 \in DOMAIN f THEN f[start + k - 1] ELSE Garbage]

\* At the end of the file pread returns 0: file_read asks again for ever.
BeyondEnd(f, last) == \A o \in DOMAIN f : o < last

-----------------------------------------------------------------------------
(***************************************************************************)
(* myHeap: threads, ordered by the tuple their partial_offset points to.   *)
(***************************************************************************)
Exchange(h, a, b) == [h EXCEPT ![a] = h[b], ![b] = h[a]]

\* The tuple of the block at place n of heap h.
At(h, n, offset) == data[offset[h[n]]]

\* heapify(0): the last element rises.
SiftUp(h, offset) ==
  LET rise[s \in {p \in Seq(Threads) \X Nat : p[2] \in DOMAIN p[1]}] ==
        IF s[2] > 1 /\ At(s[1], s[2], offset) < At(s[1], s[2] \div 2, offset)
        THEN rise[<<Exchange(s[1], s[2], s[2] \div 2), s[2] \div 2>>]
        ELSE s[1]
  IN  rise[<<h, Len(h)>>]

\* A descent along the left children only (mutant).
LeftChild(h, n, offset) == 2 * n

\* The lesser of the one or two children.
LesserChild(h, n, offset) ==
  IF 2 * n = Len(h) \/ At(h, 2 * n, offset) <= At(h, 2 * n + 1, offset)
  THEN 2 * n ELSE 2 * n + 1

\* heapify(1): the first element sinks.
SiftDown(h, offset) ==
  LET sink[s \in Seq(Threads) \X (Nat \ {0})] ==
        IF /\ 2 * s[2] <= Len(s[1])
           /\ At(s[1], s[2], offset) > At(s[1], LesserChild(s[1], s[2], offset), offset)
        THEN sink[<<Exchange(s[1], s[2], LesserChild(s[1], s[2], offset)),
                    LesserChild(s[1], s[2], offset)>>]
        ELSE s[1]
  IN  sink[<<h, 1>>]

push(h, offset, j) == SiftUp(Append(h, j), offset)

\* arr[1] = arr[size--], once h[1] has been returned.
pop(h, offset) == SiftDown(SubSeq([h EXCEPT ![1] = Last(h)], 1, Len(h) - 1), offset)

\* The heap of all blocks.
Filled(offset) ==
  LET fill[n \in 0 .. THREAD_NUM] ==
        IF n = 0 THEN <<>> ELSE push(fill[n - 1], offset, n - 1)
  IN  fill[THREAD_NUM]

-----------------------------------------------------------------------------
(***************************************************************************)
(* A run: read, sort, merge.                                               *)
(***************************************************************************)

\* A file of less than LIMIT_MEM has no run: the division by file_num traps.
Start ==
  /\ main = "start"
  /\ Open(IF file_num = 0 THEN "trap" ELSE "spawn")
  /\ temp_buf' = [f \in Runs |-> <<>>]
  /\ temp_file' = [f \in Runs |-> NoFile]
  /\ UNCHANGED <<file, run, runVars, flag, fflag, bufVars, output, lastVars>>

Spawn ==
  /\ main = "spawn" /\ main' = "join"
  /\ worker' = [j \in Threads |-> "running"]
  /\ partial_offset' = [j \in Threads |-> j * Block]
  /\ UNCHANGED <<file, errors, run, data, heap, flag, keptVars, bufVars, fileVars,
                 lastVars>>

\* The place of the nth element of seq among all when they are sorted.
Place(seq, n) ==
  Cardinality({m \in DOMAIN seq : seq[m] < seq[n] \/ (seq[m] = seq[n] /\ m <= n)})

\* sort: equal tuples are not told apart, so that it may as well be stable.
sort(seq) == [p \in DOMAIN seq |-> seq[CHOOSE n \in DOMAIN seq : Place(seq, n) = p]]

\* Block j of data, sorted.
Sorted(j, block) ==
  LET sorted == sort(block)
  IN  [o \in DOMAIN data |-> IF o \div Block = j THEN sorted[(o % Block) + 1] ELSE data[o]]

\* A worker that reads the same block in every run (mutant).
WorkerOfFirstRun(j) ==
  /\ worker[j] = "running" /\ worker' = [worker EXCEPT ![j] = "done"]
  /\ \/ Succeeds /\ data' = Sorted(j, SubSeq(file, j * Block + 1, (j + 1) * Block))
     \/ Fails /\ data' = Sorted(j, Piece(data, j * Block, Block))
  /\ UNCHANGED <<file, main, run, partial_offset, heap, flag, keptVars, bufVars, fileVars,
                 lastVars>>

\* worker(): when the read fails it sorts what has been in the block before.
Worker(j) ==
  /\ worker[j] = "running" /\ worker' = [worker EXCEPT ![j] = "done"]
  /\ LET start == (THREAD_NUM * run + j) * Block
     IN  \/ Succeeds /\ data' = Sorted(j, SubSeq(file, start + 1, start + Block))
         \/ Fails /\ data' = Sorted(j, Piece(data, j * Block, Block))
  /\ UNCHANGED <<file, main, run, partial_offset, heap, flag, keptVars, bufVars, fileVars,
                 lastVars>>

\* Join the workers, open the file for the run, fill the heap.
Join ==
  /\ main = "join" /\ (\A j \in Threads : worker[j] = "done")
  /\ Open("merge")
  /\ heap' = Filled(partial_offset)
  /\ flag' = {} /\ buffer' = <<>> /\ out_offset' = 0
  /\ fflag' = (file_num <= 1)
  /\ UNCHANGED <<file, run, worker, data, partial_offset, temp_buf, fileVars, lastVars>>

\* Take the least tuple from the heap; its block comes back unless it is used up.
\* FLAG(THREAD_NUM) shifts an int by its width; g++ folds it to all bits.
Advance ==
  LET j == Head(heap)
      offset == [partial_offset EXCEPT ![j] = @ + 1]
      rest == pop(heap, partial_offset)
      usedUp == offset[j] >= Block * (j + 1)
  IN  /\ flag # Threads
      /\ partial_offset' = offset
      /\ heap' = IF usedUp THEN rest ELSE push(rest, offset, j)
      /\ flag' = IF usedUp THEN flag \cup {j} ELSE flag
      /\ UNCHANGED <<file, run, worker, data, lastVars>>

Least == data[partial_offset[Head(heap)]]

\* A first part that ends one tuple late (mutant).
CompleteTooLate(kept) == Len(kept) * TUPLE_SIZE > buffer_size

Complete(kept) == Len(kept) * TUPLE_SIZE >= buffer_size

\* The first buffer_size bytes of a run stay in temp_buf and leave a hole in the
\* file.  A copy beyond the end of temp_buf is undefined and not followed.
Remember ==
  /\ main = "merge" /\ ~fflag /\ Advance
  /\ LET kept == Append(temp_buf[run], Least)
     IN  /\ temp_buf' = [temp_buf EXCEPT ![run] = kept]
         /\ main' = IF Len(kept) * TUPLE_SIZE > buffer_size THEN "overflow" ELSE main
         /\ IF Complete(kept)
            THEN fflag' = TRUE /\ out_offset' = buffer_size \div TUPLE_SIZE
            ELSE UNCHANGED <<fflag, out_offset>>
  /\ UNCHANGED <<errors, buffer, fileVars>>

Full(b) == Len(b) * TUPLE_SIZE >= BUFFER_SIZE

\* One more tuple for buffer, which goes to file f when it is full.
Put(t) ==
  IF Full(Append(buffer, t))
  THEN buffer' = <<>> /\ out_offset' = out_offset + Buffer
  ELSE buffer' = Append(buffer, t) /\ UNCHANGED out_offset

Flushed(t, f, ok) ==
  IF Full(Append(buffer, t)) THEN file_write(f, Append(buffer, t), out_offset, ok) ELSE f

Merge ==
  /\ main = "merge" /\ fflag /\ Advance
  /\ Put(Least)
  /\ \E ok \in BOOLEAN :
       /\ ok \/ Full(Append(buffer, Least))
       /\ Try(ok)
       /\ IF file_num <= 1
          THEN output' = Flushed(Least, output, ok) /\ UNCHANGED temp_file
          ELSE /\ temp_file' = [temp_file EXCEPT ![run] = Flushed(Least, @, ok)]
               /\ UNCHANGED output
  /\ UNCHANGED <<main, keptVars>>

\* The next run, the last merge, or, for a single run, the end.
EndOfRun ==
  /\ main = "merge" /\ flag = Threads
  /\ run' = run + 1
  /\ main' = CASE run + 1 < file_num -> "spawn" [] file_num <= 1 -> "end" [] OTHER -> "open"
  /\ UNCHANGED <<file, errors, runVars, flag, keptVars, bufVars, fileVars, lastVars>>

-----------------------------------------------------------------------------
(***************************************************************************)
(* The last merge.                                                         *)
(***************************************************************************)
\* The last merge.  FLAG(file_num) is undefined, and not followed, when there are
\* as many runs as an int has bits.
OpenTemps ==
  /\ main = "open" /\ Open(IF file_num < IntBits THEN "last" ELSE "shift")
  /\ flag' = {} /\ buffer' = <<>> /\ out_offset' = 0 /\ output' = NoFile
  /\ idx' = 0
  /\ temp_in_offset' = [f \in Runs |-> 0] /\ temp_used' = [f \in Runs |-> 0]
  /\ UNCHANGED <<file, run, runVars, keptVars, temp_file>>

First(f) == temp_buf[f][temp_in_offset[f] + 1]

\* The choice starts from the run that was last chosen.
LeastRun ==
  LET least[n \in 0 .. file_num] ==
        IF n = 0 THEN idx
        ELSE LET a == least[n - 1]
                 f == n - 1
             IN  IF f # a /\ f \notin flag /\ First(a) > First(f) THEN f ELSE a
  IN  least[file_num]

TakeTuple ==
  /\ main = "last" /\ flag # Runs /\ main' = "piece"
  /\ idx' = LeastRun
  /\ temp_in_offset' = [temp_in_offset EXCEPT ![LeastRun] = @ + 1]
  /\ Put(First(LeastRun))
  /\ \E ok \in BOOLEAN :
       /\ ok \/ Full(Append(buffer, First(LeastRun)))
       /\ Try(ok)
       /\ output' = Flushed(First(LeastRun), output, ok)
  /\ UNCHANGED <<file, run, runVars, flag, keptVars, temp_file, temp_used>>

Read(f) == temp_in_offset[f] + temp_used[f]
UsedUp(f) == Read(f) >= Limit
PieceRead(f) == temp_in_offset[f] * TUPLE_SIZE >= buffer_size

GoOn ==
  /\ main = "piece" /\ ~UsedUp(idx) /\ ~PieceRead(idx) /\ main' = "last"
  /\ UNCHANGED <<file, errors, run, runVars, flag, keptVars, bufVars, fileVars, lastVars>>

NextPiece ==
  /\ main = "piece" /\ (UsedUp(idx) \/ PieceRead(idx))
  /\ temp_used' = [temp_used EXCEPT ![idx] = Read(idx)]
  /\ temp_in_offset' = [temp_in_offset EXCEPT ![idx] = 0]
  /\ UNCHANGED <<file, run, runVars, fflag, bufVars, fileVars>>

\* The run is flagged, and the choice starts from the first that is not.
RunUsedUp ==
  /\ NextPiece /\ UsedUp(idx) /\ main' = "last"
  /\ flag' = flag \cup {idx}
  /\ idx' = IF flag' = Runs THEN idx ELSE Min(Runs \ flag')
  /\ UNCHANGED <<errors, temp_buf>>

\* A piece that is always as large as the first (mutant).
FullPiece(f) == buffer_size \div TUPLE_SIZE

rsz(f) == Min({buffer_size \div TUPLE_SIZE, Limit - Read(f)})

\* The next piece overwrites the beginning of temp_buf.
Refill ==
  /\ NextPiece /\ ~UsedUp(idx)
  /\ LET n == rsz(idx)
         missing == BeyondEnd(temp_file[idx], Read(idx) + n - 1)
     IN  \/ /\ Succeeds
            /\ main' = IF missing THEN "spin" ELSE "last"
            /\ temp_buf' = [temp_buf EXCEPT ![idx] =
                 Piece(temp_file[idx], Read(idx), n) \o SubSeq(@, n + 1, Len(@))]
         \/ Fails /\ main' = "last" /\ UNCHANGED temp_buf
  /\ UNCHANGED <<flag, idx>>

EndOfLast ==
  /\ main = "last" /\ flag = Runs /\ main' = "end"
  /\ UNCHANGED <<file, errors, run, runVars, flag, keptVars, bufVars, fileVars, lastVars>>

\* Nothing follows; "spin" is the loop of file_read at the end of a file.
Stopped ==
  main \in {"end", "failed", "trap", "overflow", "shift", "spin"} /\ UNCHANGED vars

Step ==
  \/ Start \/ Spawn \/ Join \/ Remember \/ Merge \/ EndOfRun
  \/ OpenTemps \/ TakeTuple \/ GoOn \/ RunUsedUp \/ Refill \/ EndOfLast

Next == Step \/ (\E j \in Threads : Worker(j)) \/ Stopped

Spec == Init /\ [][Next]_vars

(***************************************************************************)
(* Fairness: threads that have been started run on.                        *)
(***************************************************************************)
FairSpec == Spec /\ WF_vars(Step) /\ \A j \in Threads : WF_vars(Worker(j))

-----------------------------------------------------------------------------
Tuples == Keys \cup {Garbage}

TypeOK ==
  /\ file \in Files /\ errors \in 0 .. MaxErrors
  /\ main \in {"start", "spawn", "join", "merge", "open", "last", "piece",
               "end", "failed", "trap", "overflow", "shift", "spin"}
  /\ run \in 0 .. file_num
  /\ worker \in [Threads -> {"idle", "running", "done"}]
  /\ data \in [0 .. Limit - 1 -> Tuples]
  /\ \A j \in Threads : partial_offset[j] \in 0 .. Block * (j + 1)
  /\ ToSet(heap) \subseteq Threads /\ fflag \in BOOLEAN
  /\ flag \subseteq Threads \cup Runs
  /\ ToSet(buffer) \subseteq Tuples /\ Len(buffer) * TUPLE_SIZE < BUFFER_SIZE
  /\ \A o \in DOMAIN output : o \in 0 .. Limit * file_num - 1 /\ output[o] \in Tuples

\* While a run is merged the heap holds each block that is not used up once, and no
\* block lies above one whose next tuple is less (main.cpp:67-96,208-233).
HeapOrdered ==
  main = "merge" =>
    /\ IsInjective(heap) /\ ToSet(heap) = Threads \ flag
    /\ \A n \in 2 .. Len(heap) :
         At(heap, n \div 2, partial_offset) <= At(heap, n, partial_offset)

\* The sizes for which the program was written: buffer_size is whole tuples.
Documented == file_num <= 1 \/ (buffer_size # 0 /\ buffer_size % TUPLE_SIZE = 0)

\* Without errors of the system the program ends with all whole runs of the input in
\* the output, in order, nothing lost or written twice (main.cpp:203-235,267-299).
OutputSorted ==
  main = "end" /\ errors = 0 =>
    LET all == 1 .. Limit * file_num
    IN  /\ DOMAIN output = {o - 1 : o \in all}
        /\ \A o, p \in DOMAIN output : o < p => output[o] <= output[p]
        /\ \A k \in Keys : Cardinality({o \in DOMAIN output : output[o] = k})
                           = Cardinality({o \in all : file[o] = k})

\* No tuple is copied beyond a buffer that holds whole tuples, and the last merge
\* compares only what has been loaded, even after errors (main.cpp:214-222,270,297).
BuffersHold ==
  /\ main = "overflow" => ~Documented
  /\ main = "last" => \A f \in Runs \ flag : temp_in_offset[f] < Len(temp_buf[f])

\* Where a sort without errors may end.
MayEnd(m) ==
  \/ m \in {"end", "trap", "overflow"}
  \/ m = "spin" /\ buffer_size % BUFFER_SIZE # 0
  \/ m = "shift" /\ file_num >= IntBits

\* The sort ends, unless a system call fails, the file is shorter than a run, or the pieces
\* in memory are not whole tuples, see BuffersHold, or not whole buffers, so that the end
\* of a run is never written, or there are too many runs (main.cpp:162,212,223,267,315).
Terminates == <>(errors > 0 \/ MayEnd(main))

\* The invariant of the merge: offsets, buffers and files stay within their bounds, and the
\* least tuple of those left is on top of the heap (main.cpp:38-97,203-235).
Inv == TypeOK /\ HeapOrdered
=============================================================================
