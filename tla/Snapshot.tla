------------------------------- MODULE Snapshot -------------------------------
(***************************************************************************)
(* project3: class WFSnapshot.  update() scans the table, then overwrites  *)
(* its own entry in place, member by member.  The copies that scan()       *)
(* collects are arrays of shared pointers to the entries themselves, which *)
(* never change: old and new copy point to the same entries, and comparing *)
(* them loads every label twice.  The stores and loads of the entries are  *)
(* the steps; collecting the pointers has no effect and is left out.       *)
(***************************************************************************)
EXTENDS Integers, FiniteSets

CONSTANTS
  N,         \* the number of threads
  Values,    \* what the threads write
  LabelMod   \* the labels of uint64_t, modulo a small number

ASSUME SnapshotAssumption ==
  N \in Nat \ {0} /\ 0 \in Values /\ LabelMod \in Nat \ {0, 1}

VARIABLES
  label, value, snap,  \* the members of each entry; snap: see Array
  pc, j,               \* where each thread is, and its loop index
  i,                   \* the loop index of the copy of a borrowed snapshot
  first,               \* the label loaded through the old copy
  moved,               \* the threads that have been seen to move
  result,              \* what the scan returns
  v,                   \* the value of the update in progress
  throughput, loaded,  \* the sum of the labels; what a thread has loaded of it
  during,              \* auxiliary: all contents of the table since the scan began,
  over                 \* and the threads that have ended an update since

table == <<label, value, snap>>
locals == <<j, i, first, moved, result, v>>
history == <<during, over>>
report == <<throughput, loaded>>
vars == <<table, pc, locals, report, history>>

Threads == 0 .. N - 1
Vectors == [Threads -> Values]

\* The array a member snap points to.  One that has not been written, or that has been
\* deleted, holds anything.
Array == [vals : Vectors, valid : BOOLEAN]
Invalid == [vals |-> [t \in Threads |-> 0], valid |-> FALSE]

Scanning == {"old", "new", "borrow", "result"}

Init ==
  /\ label = [t \in Threads |-> 0]
  /\ value = [t \in Threads |-> 0]
  /\ snap = [t \in Threads |-> Invalid]
  /\ pc = [t \in Threads |-> "idle"]
  /\ j = [t \in Threads |-> 0] /\ i = [t \in Threads |-> 0]
  /\ first = [t \in Threads |-> 0]
  /\ moved = [t \in Threads |-> {}]
  /\ result = [t \in Threads |-> [u \in Threads |-> 0]]
  /\ v = [t \in Threads |-> 0]
  /\ throughput = 0 /\ loaded = [t \in Threads |-> 0]
  /\ during = [t \in Threads |-> {}]
  /\ over = [t \in Threads |-> {}]

-----------------------------------------------------------------------------
Goto(t, l) == pc' = [pc EXCEPT ![t] = l]
At(t, n) == j' = [j EXCEPT ![t] = n]

\* update() begins with scan(), and that with the first two collects.
Begin(t) ==
  /\ pc[t] = "idle" /\ Goto(t, "old")
  /\ \E x \in Values : v' = [v EXCEPT ![t] = x]
  /\ during' = [during EXCEPT ![t] = {value}]
  /\ over' = [over EXCEPT ![t] = {}]
  /\ UNCHANGED <<table, j, i, first, moved, result, report>>

\* oldCopy[j]->label.
LoadOld(t) ==
  /\ pc[t] = "old" /\ Goto(t, "new")
  /\ first' = [first EXCEPT ![t] = label[j[t]]]
  /\ UNCHANGED <<table, j, i, moved, result, v, report, history>>

\* A scan that does not remember who has moved (mutant).
CompareForgetful(t) ==
  /\ pc[t] = "new"
  /\ IF label[j[t]] = first[t]
     THEN IF j[t] + 1 < N THEN Goto(t, "old") /\ At(t, j[t] + 1)
                          ELSE Goto(t, "result") /\ At(t, 0)
     ELSE Goto(t, "old") /\ At(t, 0)
  /\ UNCHANGED <<table, i, first, moved, result, v, report, history>>

\* A scan that borrows from a thread that has moved once (mutant).
CompareOnce(t) ==
  /\ pc[t] = "new"
  /\ \/ /\ label[j[t]] = first[t] /\ j[t] + 1 < N
        /\ Goto(t, "old") /\ At(t, j[t] + 1)
     \/ /\ label[j[t]] = first[t] /\ j[t] + 1 = N
        /\ Goto(t, "result") /\ At(t, 0)
     \/ /\ label[j[t]] # first[t]
        /\ Goto(t, "borrow") /\ UNCHANGED j
  /\ UNCHANGED <<table, i, first, moved, result, v, report, history>>

\* newCopy[j]->label, and what comes of the comparison: the next entry, all of
\* them are equal, the entry has moved twice, or another round.
Compare(t) ==
  /\ pc[t] = "new"
  /\ \/ /\ label[j[t]] = first[t] /\ j[t] + 1 < N
        /\ Goto(t, "old") /\ At(t, j[t] + 1) /\ UNCHANGED moved
     \/ /\ label[j[t]] = first[t] /\ j[t] + 1 = N
        /\ Goto(t, "result") /\ At(t, 0) /\ UNCHANGED moved
     \/ /\ label[j[t]] # first[t] /\ j[t] \in moved[t]
        /\ Goto(t, "borrow") /\ UNCHANGED <<j, moved>>
     \/ /\ label[j[t]] # first[t] /\ j[t] \notin moved[t]
        /\ Goto(t, "old") /\ At(t, 0) /\ moved' = [moved EXCEPT ![t] = @ \cup {j[t]}]
  /\ UNCHANGED <<table, i, first, result, v, report, history>>

\* oldCopy[j]->snap[i], for one i after the other: the snapshot of the thread that has
\* moved twice.
Borrow(t) ==
  /\ pc[t] = "borrow"
  /\ \E x \in Values :
       /\ snap[j[t]].valid => x = snap[j[t]].vals[i[t]]
       /\ result' = [result EXCEPT ![t][i[t]] = x]
  /\ \/ i[t] + 1 < N /\ i' = [i EXCEPT ![t] = @ + 1] /\ UNCHANGED pc
     \/ i[t] + 1 = N /\ Goto(t, "label") /\ UNCHANGED i
  /\ UNCHANGED <<table, j, first, moved, v, report, history>>

\* newCopy[j]->value, for one j after the other.
ReadValue(t) ==
  /\ pc[t] = "result"
  /\ result' = [result EXCEPT ![t][j[t]] = value[j[t]]]
  /\ IF j[t] + 1 < N THEN At(t, j[t] + 1) /\ UNCHANGED pc
                     ELSE Goto(t, "label") /\ UNCHANGED j
  /\ UNCHANGED <<table, i, first, moved, v, report, history>>

\* *a_table[tid] = newValue, member by member.
StoreLabel(t) ==
  /\ pc[t] = "label" /\ Goto(t, "value")
  /\ label' = [label EXCEPT ![t] = (@ + 1) % LabelMod]
  /\ UNCHANGED <<value, snap, locals, report, history>>

StoreValue(t) ==
  /\ pc[t] = "value" /\ Goto(t, "snap")
  /\ value' = [value EXCEPT ![t] = v[t]]
  /\ during' = [u \in Threads |->
                  IF pc[u] \in Scanning THEN during[u] \cup {value'} ELSE during[u]]
  /\ UNCHANGED <<label, snap, locals, report, over>>

StoreSnap(t) ==
  /\ pc[t] = "snap" /\ Goto(t, "delete")
  /\ snap' = [snap EXCEPT ![t] = [vals |-> result[t], valid |-> TRUE]]
  /\ UNCHANGED <<label, value, locals, report, history>>

\* newValue goes out of scope; its destructor deletes the array the entry shares.
Delete(t) ==
  /\ pc[t] = "delete" /\ Goto(t, "idle")
  /\ snap' = [snap EXCEPT ![t] = Invalid]
  /\ j' = [j EXCEPT ![t] = 0] /\ i' = [i EXCEPT ![t] = 0]
  /\ first' = [first EXCEPT ![t] = 0]
  /\ moved' = [moved EXCEPT ![t] = {}]
  /\ result' = [result EXCEPT ![t] = [u \in Threads |-> 0]]
  /\ v' = [v EXCEPT ![t] = 0]
  /\ during' = [during EXCEPT ![t] = {}]
  /\ over' = [u \in Threads |-> IF pc[u] \in Scanning THEN over[u] \cup {t} ELSE {}]
  /\ UNCHANGED <<label, value, report>>

\* The minute is over: work() leaves its loop between two updates, and loads throughput.
Leave(t) ==
  /\ pc[t] = "idle" /\ Goto(t, "add")
  /\ loaded' = [loaded EXCEPT ![t] = throughput]
  /\ UNCHANGED <<table, locals, throughput, history>>

\* One update more than there were (mutant).
AddOneMore(t) ==
  /\ pc[t] = "add" /\ Goto(t, "done")
  /\ throughput' = loaded[t] + label[t] + 1
  /\ UNCHANGED <<table, locals, loaded, history>>

\* throughput = throughput + k, with the value that was loaded.
Add(t) ==
  /\ pc[t] = "add" /\ Goto(t, "done")
  /\ throughput' = loaded[t] + label[t]
  /\ UNCHANGED <<table, locals, loaded, history>>

Step(t) ==
  \/ LoadOld(t) \/ Compare(t) \/ Borrow(t) \/ ReadValue(t)
  \/ StoreLabel(t) \/ StoreValue(t) \/ StoreSnap(t) \/ Delete(t) \/ Add(t)

Finished == (\A t \in Threads : pc[t] = "done") /\ UNCHANGED vars

Next == (\E t \in Threads : Begin(t) \/ Step(t) \/ Leave(t)) \/ Finished

Spec == Init /\ [][Next]_vars

-----------------------------------------------------------------------------
TypeOK ==
  /\ label \in [Threads -> 0 .. LabelMod - 1]
  /\ value \in Vectors
  /\ snap \in [Threads -> Array]
  /\ pc \in [Threads -> Scanning \cup {"idle", "label", "value", "snap", "delete", "add", "done"}]
  /\ j \in [Threads -> Threads] /\ i \in [Threads -> Threads]
  /\ first \in [Threads -> 0 .. LabelMod - 1]
  /\ moved \in [Threads -> SUBSET Threads]
  /\ result \in [Threads -> Vectors]
  /\ v \in [Threads -> Values]
  /\ throughput \in Nat /\ loaded \in [Threads -> Nat]
  /\ during \in [Threads -> SUBSET Vectors]
  /\ over \in [Threads -> SUBSET Threads]

\* Wait-freedom: a thread that runs on ends its scan, and with it its update,
\* whatever the others do: stop, or update for ever (main.cpp:54-100; README.md:5).
WaitFree ==
  \A t \in Threads :
    WF_vars(Step(t)) => ((pc[t] \in Scanning) ~> (pc[t] = "idle"))

\* A thread that has been seen to move twice has ended an update meanwhile: "The
\* thread moves twice, previous update is over" (README.md:5, main.cpp:63-70).
PreviousUpdateOver == \A t \in Threads : pc[t] = "borrow" => j[t] \in over[t]

\* What a scan that sees nobody move returns was the content of the table at one moment of
\* the scan: "if old copy and new copy are equal, return new copy" (README.md:3,19;
\* main.cpp:61-63,84-86).
ScanIsAtomic ==
  \A t \in Threads : pc[t] = "label" /\ moved[t] = {} => result[t] \in during[t]

\* The updates of the threads of S that their labels count.
UpdatesOf(S) == {u \in S \X (1 .. LabelMod - 1) : u[2] <= label[u[1]]}

\* The throughput that is printed is the number of updates of some of the threads, one at
\* least: two threads that add at once lose the updates of one of them, but they never
\* count an update twice, nor a part of a thread's (main.cpp:121-122,144).
ThroughputIsPartial ==
  (\A t \in Threads : pc[t] = "done") =>
    \E S \in (SUBSET Threads) \ {{}} : throughput = Cardinality(UpdatesOf(S))

\* Thread u has stored a label in an update that it ends, or has not ended, during t's scan.
HasStored(u, t) == u \in over[t] \/ pc[u] \in {"value", "snap", "delete"}

\* A thread seen to move once has stored a label, and when it stores another one it has ended
\* the update of the first.
MovesAgree ==
  \A t \in Threads :
    /\ pc[t] = "idle" => moved[t] = {}
    /\ pc[t] \in Scanning => \A u \in moved[t] : HasStored(u, t)
    /\ pc[t] = "new" /\ label[j[t]] # first[t] =>
         HasStored(j[t], t) /\ (j[t] \in moved[t] => j[t] \in over[t])

\* What has been added up so far, or has been loaded to be added to, are all the updates of
\* some threads that have added theirs.
Added == {t \in Threads : pc[t] = "done"}

SumsAgree ==
  /\ \E S \in SUBSET Added :
       throughput = Cardinality(UpdatesOf(S)) /\ (Added # {} => S # {})
  /\ \A t \in Threads : pc[t] = "add" =>
       \E S \in SUBSET Added : loaded[t] = Cardinality(UpdatesOf(S))

\* The invariant of the scans: all loads stay within the table, a scan that borrows does so
\* from a thread that has ended an update meanwhile, and sums are of whole threads
\* (main.cpp:54-92,121-122).
Inv == TypeOK /\ PreviousUpdateOver /\ MovesAgree /\ SumsAgree
=============================================================================
