---------------------------- MODULE SnapshotProofs ----------------------------
(***************************************************************************)
(* The invariant of project3's scans, for every number of threads, set of  *)
(* values and number of labels.                                            *)
(***************************************************************************)
EXTENDS Snapshot, FiniteSetTheorems, TLAPS

LEMMA ThreadsAreNumbers ==
  /\ 0 \in Threads /\ (\A t \in Threads : t + 1 < N => t + 1 \in Threads)
  /\ 0 \in Values /\ 0 \in 0 .. LabelMod - 1 /\ 0 .. LabelMod - 1 \subseteq Nat
BY SnapshotAssumption DEF Threads

LEMMA VectorFacts ==
  /\ [u \in Threads |-> 0] \in Vectors
  /\ \A f \in Vectors, t \in Threads, x \in Values : [f EXCEPT ![t] = x] \in Vectors
BY ThreadsAreNumbers DEF Vectors

LEMMA InvalidIsArray == Invalid \in Array
BY VectorFacts DEF Invalid, Array

LEMMA NextLabel ==
  ASSUME NEW n \in 0 .. LabelMod - 1 PROVE (n + 1) % LabelMod \in 0 .. LabelMod - 1
BY SnapshotAssumption

-----------------------------------------------------------------------------
LEMMA TypeStep == ASSUME TypeOK, NEW t \in Threads, Begin(t) \/ Step(t) \/ Leave(t) PROVE TypeOK'
<1>1. CASE Begin(t)
  BY <1>1 DEF TypeOK, Goto, Begin, Scanning, table, report
<1>2. CASE LoadOld(t)
  BY <1>2 DEF TypeOK, Goto, LoadOld, Scanning, table, report, history
<1>3. CASE Compare(t)
  <2>1. j' \in [Threads -> Threads]
    BY <1>3, ThreadsAreNumbers DEF TypeOK, Compare, At
  <2>2. moved' \in [Threads -> SUBSET Threads]
    BY <1>3 DEF TypeOK, Compare
  <2>3. \E l \in Scanning : Goto(t, l)
    BY <1>3 DEF Compare, Scanning
  <2> QED BY <1>3, <2>1, <2>2, <2>3 DEF TypeOK, Goto, Compare, table, report, history
<1>4. CASE Borrow(t)
  <2>1. PICK x \in Values : result' = [result EXCEPT ![t] = [@ EXCEPT ![i[t]] = x]]
    BY <1>4 DEF Borrow
  <2>2. [result[t] EXCEPT ![i[t]] = x] \in Vectors
    BY VectorFacts DEF TypeOK
  <2>3. result' \in [Threads -> Vectors]
    BY <2>1, <2>2 DEF TypeOK
  <2>4. i' \in [Threads -> Threads]
    BY <1>4, ThreadsAreNumbers DEF TypeOK, Borrow
  <2>5. pc' \in [Threads -> Scanning \cup {"idle", "label", "value", "snap", "delete", "add", "done"}]
    BY <1>4 DEF TypeOK, Borrow, Goto
  <2> QED BY <1>4, <2>3, <2>4, <2>5 DEF TypeOK, Borrow, table, report, history
<1>5. CASE ReadValue(t)
  <2>1. value[j[t]] \in Values
    BY DEF TypeOK, Vectors
  <2>2. result' \in [Threads -> Vectors]
    <3>1. result[t] \in Vectors /\ result' = [result EXCEPT ![t] = [@ EXCEPT ![j[t]] = value[j[t]]]]
      BY <1>5 DEF TypeOK, ReadValue
    <3>2. [result[t] EXCEPT ![j[t]] = value[j[t]]] \in Vectors
      BY <2>1, <3>1, VectorFacts DEF TypeOK
    <3> QED BY <3>1, <3>2 DEF TypeOK
  <2>3. j' \in [Threads -> Threads]
    <3>1. j' = j \/ (j[t] + 1 < N /\ j' = [j EXCEPT ![t] = j[t] + 1])
      BY <1>5 DEF ReadValue, At
    <3> QED BY <3>1, ThreadsAreNumbers DEF TypeOK
  <2>4. pc' \in [Threads -> Scanning \cup {"idle", "label", "value", "snap", "delete", "add", "done"}]
    BY <1>5 DEF TypeOK, ReadValue, Goto
  <2>5. UNCHANGED <<table, i, first, moved, v, report, history>>
    BY <1>5 DEF ReadValue
  <2> QED BY <2>2, <2>3, <2>4, <2>5 DEF TypeOK, table, report, history
<1>6. CASE StoreLabel(t)
  BY <1>6, NextLabel DEF TypeOK, Goto, StoreLabel, Scanning, locals, report, history
<1>7. CASE StoreValue(t)
  <2>1. value' \in Vectors
    BY <1>7, VectorFacts DEF TypeOK, StoreValue
  <2> QED BY <1>7, <2>1 DEF TypeOK, Goto, StoreValue, Scanning, locals, report
<1>8. CASE StoreSnap(t)
  BY <1>8 DEF TypeOK, Goto, StoreSnap, Array, Scanning, locals, report, history
<1>9. CASE Delete(t)
  <2>1. snap' \in [Threads -> Array]
    BY <1>9, InvalidIsArray DEF TypeOK, Delete
  <2>2. /\ j' \in [Threads -> Threads] /\ i' \in [Threads -> Threads]
        /\ first' \in [Threads -> 0 .. LabelMod - 1]
        /\ result' \in [Threads -> Vectors] /\ v' \in [Threads -> Values]
    BY <1>9, ThreadsAreNumbers, VectorFacts DEF TypeOK, Delete
  <2>3. /\ moved' \in [Threads -> SUBSET Threads] /\ during' \in [Threads -> SUBSET Vectors]
        /\ over' \in [Threads -> SUBSET Threads]
    BY <1>9 DEF TypeOK, Delete
  <2> QED BY <1>9, <2>1, <2>2, <2>3 DEF TypeOK, Goto, Delete, report
<1>10. CASE Add(t)
  <2>1. throughput' \in Nat
    BY <1>10, ThreadsAreNumbers DEF TypeOK, Add
  <2> QED BY <1>10, <2>1 DEF TypeOK, Goto, Add, table, locals, history
<1>11. CASE Leave(t)
  BY <1>11 DEF TypeOK, Goto, Leave, Scanning, table, locals, history
<1> QED BY <1>1, <1>2, <1>3, <1>4, <1>5, <1>6, <1>7, <1>8, <1>9, <1>10, <1>11 DEF Step

-----------------------------------------------------------------------------
(***************************************************************************)
(* A thread that is seen to move twice has ended an update.                *)
(***************************************************************************)

\* What a step does to the updates that other threads have begun or ended.
LEMMA StoredStays ==
  ASSUME TypeOK, NEW t \in Threads, Begin(t) \/ Step(t) \/ Leave(t),
         NEW u \in Threads, pc[u] \in Scanning, pc'[u] \in Scanning, NEW w \in Threads
  PROVE  /\ HasStored(w, u) => HasStored(w, u)'
         /\ w \in over[u] => w \in over'[u]
<1>1. CASE Delete(t)
  BY <1>1 DEF Delete, TypeOK, HasStored, Goto
<1>2. CASE Begin(t)
  BY <1>2 DEF Begin, TypeOK, HasStored, Goto, Scanning
<1>3. CASE StoreLabel(t) \/ StoreValue(t) \/ StoreSnap(t)
  BY <1>3 DEF StoreLabel, StoreValue, StoreSnap, TypeOK, HasStored, Goto, history
<1>4. CASE LoadOld(t) \/ Compare(t) \/ Borrow(t) \/ ReadValue(t) \/ Add(t) \/ Leave(t)
  BY <1>4 DEF LoadOld, Compare, Borrow, ReadValue, Add, Leave, TypeOK, HasStored, Goto, history
<1> QED BY <1>1, <1>2, <1>3, <1>4 DEF Step

LEMMA MovesStep ==
  ASSUME TypeOK, MovesAgree, PreviousUpdateOver,
         NEW t \in Threads, Begin(t) \/ Step(t) \/ Leave(t)
  PROVE  MovesAgree' /\ PreviousUpdateOver'
<1>1. ASSUME NEW u \in Threads, u # t
      PROVE  /\ pc'[u] = pc[u] /\ moved'[u] = moved[u] /\ j'[u] = j[u] /\ first'[u] = first[u]
  BY <1>1 DEF TypeOK, Begin, Step, Leave, LoadOld, Compare, Borrow, ReadValue, StoreLabel, StoreValue,
     StoreSnap, Delete, Add, Goto, At, table, locals, report, history
<1>2. label' = label \/ (StoreLabel(t) /\ \A u \in Threads : u # t => label'[u] = label[u])
  BY DEF TypeOK, Begin, Step, Leave, LoadOld, Compare, Borrow, ReadValue, StoreLabel, StoreValue,
     StoreSnap, Delete, Add, table
<1>3. ASSUME NEW u \in Threads, u # t
      PROVE  /\ pc'[u] = "idle" => moved'[u] = {}
             /\ pc'[u] \in Scanning => \A w \in moved'[u] : HasStored(w, u)'
             /\ pc'[u] = "new" /\ label'[j'[u]] # first'[u] =>
                  HasStored(j[u], u)' /\ (j'[u] \in moved'[u] => j'[u] \in over'[u])
             /\ pc'[u] = "borrow" => j'[u] \in over'[u]
  <2>1. pc'[u] = "idle" => moved'[u] = {}
    BY <1>1, <1>3 DEF MovesAgree
  <2>2. pc'[u] \in Scanning => \A w \in moved'[u] : HasStored(w, u)'
    BY <1>1, <1>3, StoredStays DEF MovesAgree, TypeOK
  <2>3. pc'[u] = "borrow" => j'[u] \in over'[u]
    BY <1>1, <1>3, StoredStays DEF PreviousUpdateOver, TypeOK, Scanning
  <2>4. ASSUME pc'[u] = "new", label'[j'[u]] # first'[u]
        PROVE  HasStored(j[u], u)' /\ (j'[u] \in moved'[u] => j'[u] \in over'[u])
    <3>1. pc[u] = "new" /\ pc[u] \in Scanning /\ pc'[u] \in Scanning /\ j[u] \in Threads
      BY <1>1, <1>3, <2>4 DEF Scanning, TypeOK
    <3>2. CASE label[j[u]] # first[u]
      BY <1>1, <1>3, <3>1, <3>2, StoredStays DEF MovesAgree
    <3>3. CASE label[j[u]] = first[u]
      <4>1. StoreLabel(t) /\ j[u] = t
        BY <1>1, <1>2, <1>3, <2>4, <3>1, <3>3
      <4>2. pc[t] = "label" /\ pc'[t] = "value"
        BY <4>1 DEF StoreLabel, Goto, TypeOK
      <4>3. t \in moved[u] => t \in over[u]
        BY <3>1, <4>2 DEF MovesAgree, HasStored
      <4> QED BY <1>1, <1>3, <3>1, <4>1, <4>2, <4>3, StoredStays DEF HasStored
    <3> QED BY <3>2, <3>3
  <2> QED BY <2>1, <2>2, <2>3, <2>4
<1>4. /\ pc'[t] = "idle" => moved'[t] = {}
      /\ pc'[t] \in Scanning => \A w \in moved'[t] : HasStored(w, t)'
      /\ pc'[t] = "new" => label'[j'[t]] = first'[t]
      /\ pc'[t] = "borrow" => j'[t] \in over'[t]
  <2>1. CASE Begin(t)
    BY <2>1 DEF Begin, TypeOK, MovesAgree, Goto, Scanning
  <2>2. CASE LoadOld(t)
    <3>1. pc[t] \in Scanning /\ pc'[t] = "new" /\ pc'[t] \in Scanning
      BY <2>2 DEF LoadOld, TypeOK, Goto, Scanning
    <3>2. moved' = moved /\ label' = label /\ j' = j /\ first'[t] = label[j[t]]
      BY <2>2 DEF LoadOld, TypeOK, table
    <3> QED BY <3>1, <3>2, StoredStays DEF MovesAgree, TypeOK
  <2>3. CASE Compare(t)
    <3>1. pc[t] = "new" /\ pc[t] \in Scanning /\ pc'[t] \in Scanning \ {"new"} /\ over' = over
      BY <2>3 DEF Compare, TypeOK, Goto, Scanning, history
    <3>2. \A w \in Threads : HasStored(w, t) => HasStored(w, t)'
      BY <3>1, StoredStays
    <3>3. moved'[t] = moved[t] \/ (label[j[t]] # first[t] /\ moved'[t] = moved[t] \cup {j[t]})
      BY <2>3 DEF Compare, TypeOK
    <3>4. \A w \in moved'[t] : w \in Threads /\ HasStored(w, t)
      BY <3>1, <3>3 DEF MovesAgree, TypeOK
    <3>5. pc'[t] = "borrow" => label[j[t]] # first[t] /\ j[t] \in moved[t] /\ j' = j
      BY <2>3 DEF Compare, TypeOK, Goto
    <3>6. pc'[t] = "borrow" => j'[t] \in over'[t]
      BY <3>1, <3>5 DEF MovesAgree
    <3> QED BY <3>1, <3>2, <3>4, <3>6 DEF Scanning
  <2>4. CASE ReadValue(t)
    <3>1. pc[t] = "result" /\ pc[t] \in Scanning /\ pc'[t] \in {"result", "label"} /\ moved' = moved
      BY <2>4 DEF ReadValue, TypeOK, Goto, Scanning
    <3> QED BY <3>1, StoredStays DEF MovesAgree, TypeOK, Scanning
  <2>5. CASE Borrow(t)
    <3>1. pc[t] = "borrow" /\ pc[t] \in Scanning /\ pc'[t] \in {"borrow", "label"}
      BY <2>5 DEF Borrow, TypeOK, Goto, Scanning
    <3>2. moved' = moved /\ j' = j
      BY <2>5 DEF Borrow
    <3> QED BY <3>1, <3>2, StoredStays DEF MovesAgree, PreviousUpdateOver, TypeOK, Scanning
  <2>6. CASE Delete(t)
    BY <2>6 DEF Delete, TypeOK, Goto, Scanning
  <2>7. CASE StoreLabel(t) \/ StoreValue(t) \/ StoreSnap(t) \/ Add(t) \/ Leave(t)
    BY <2>7 DEF StoreLabel, StoreValue, StoreSnap, Add, Leave, TypeOK, Goto, Scanning
  <2> QED BY <2>1, <2>2, <2>3, <2>4, <2>5, <2>6, <2>7 DEF Step
<1> QED BY <1>1, <1>3, <1>4 DEF MovesAgree, PreviousUpdateOver, HasStored

-----------------------------------------------------------------------------
(***************************************************************************)
(* A sum of throughput is that of some threads.                            *)
(***************************************************************************)

LEMMA UpdatesAreFinite ==
  ASSUME NEW S \in SUBSET Threads
  PROVE  IsFiniteSet(UpdatesOf(S)) /\ Cardinality(UpdatesOf(S)) \in Nat
<1>1. IsFiniteSet(Threads \X (1 .. LabelMod - 1))
  <2>1. IsFiniteSet(0 .. N - 1)
    BY FS_Interval, SnapshotAssumption
  <2>2. IsFiniteSet(1 .. LabelMod - 1)
    BY FS_Interval, SnapshotAssumption
  <2> QED BY <2>1, <2>2, FS_Product DEF Threads
<1>2. UpdatesOf(S) \subseteq Threads \X (1 .. LabelMod - 1)
  BY DEF UpdatesOf
<1> QED BY <1>1, <1>2, FS_Subset, FS_CardinalityType

\* The updates of one thread more are as many as its label says.
LEMMA OneThreadMore ==
  ASSUME TypeOK, NEW S \in SUBSET Threads, NEW t \in Threads, t \notin S
  PROVE  Cardinality(UpdatesOf(S \cup {t})) = Cardinality(UpdatesOf(S)) + label[t]
<1> DEFINE mine == {t} \X (1 .. label[t])
<1>1. label[t] \in Nat /\ label[t] <= LabelMod - 1 /\ LabelMod \in Nat
  BY SnapshotAssumption DEF TypeOK
<1>2. IsFiniteSet(1 .. label[t]) /\ Cardinality(1 .. label[t]) = label[t]
  BY <1>1, FS_Interval
<1>3. IsFiniteSet({t}) /\ Cardinality({t}) = 1
  BY FS_Singleton
<1>4. IsFiniteSet(mine) /\ Cardinality(mine) = label[t]
  <2>1. IsFiniteSet(mine) /\ Cardinality(mine) = Cardinality({t}) * Cardinality(1 .. label[t])
    BY <1>2, <1>3, FS_Product
  <2> QED BY <1>1, <1>2, <1>3, <2>1
<1>5. UpdatesOf(S \cup {t}) = UpdatesOf(S) \cup mine
  BY <1>1 DEF UpdatesOf
<1>6. UpdatesOf(S) \cap mine = {}
  BY DEF UpdatesOf
<1>7. IsFiniteSet(UpdatesOf(S))
  BY UpdatesAreFinite
<1>8. Cardinality(UpdatesOf(S) \cup mine) =
        Cardinality(UpdatesOf(S)) + Cardinality(mine) - Cardinality(UpdatesOf(S) \cap mine)
  BY <1>4, <1>7, FS_Union
<1>9. Cardinality(UpdatesOf(S) \cap mine) = 0
  <2> HIDE DEF mine
  <2> QED BY <1>6, FS_EmptySet
<1>10. Cardinality(UpdatesOf(S)) \in Nat
  BY UpdatesAreFinite
<1>11. Cardinality(UpdatesOf(S) \cup mine) = Cardinality(UpdatesOf(S)) + label[t]
  <2> HIDE DEF mine
  <2> QED BY <1>1, <1>4, <1>8, <1>9, <1>10
<1> QED BY <1>5, <1>11

LEMMA SumsStep ==
  ASSUME TypeOK, SumsAgree, NEW t \in Threads, Begin(t) \/ Step(t) \/ Leave(t)
  PROVE  SumsAgree'
<1>1. \A u \in Added : u \in Threads /\ label'[u] = label[u] /\ u \in Added'
  BY DEF TypeOK, Added, Begin, Step, Leave, LoadOld, Compare, Borrow, ReadValue, StoreLabel,
     StoreValue, StoreSnap, Delete, Add, Goto, table
<1>2. \A S \in SUBSET Added : UpdatesOf(S)' = UpdatesOf(S)
  BY <1>1 DEF UpdatesOf
<1>3. CASE Add(t)
  <2>1. PICK S \in SUBSET Added : loaded[t] = Cardinality(UpdatesOf(S))
    BY <1>3 DEF Add, SumsAgree
  <2>2. pc[t] = "add" /\ throughput' = loaded[t] + label[t] /\ label' = label /\ loaded' = loaded
    BY <1>3 DEF Add, table
  <2>3. t \notin S /\ S \in SUBSET Threads
    BY <2>2, <1>1 DEF Added
  <2>4. throughput' = Cardinality(UpdatesOf(S \cup {t}))
    BY <2>1, <2>2, <2>3, OneThreadMore
  <2>5. UpdatesOf(S \cup {t})' = UpdatesOf(S \cup {t})
    BY <2>2 DEF UpdatesOf
  <2>6. S \cup {t} \in SUBSET Added' /\ S \cup {t} # {}
    BY <1>1, <1>3 DEF Add, Added, Goto, TypeOK
  <2>7. \A u \in Threads : pc'[u] = "add" => pc[u] = "add"
    BY <1>3 DEF Add, Goto, TypeOK
  <2>8. \A u \in Threads : pc'[u] = "add" =>
          \E R \in SUBSET Added' : loaded'[u] = Cardinality(UpdatesOf(R)')
    BY <1>1, <1>2, <2>2, <2>7 DEF SumsAgree
  <2> QED BY <2>4, <2>5, <2>6, <2>8 DEF SumsAgree
<1>4. CASE ~Add(t)
  <2>1. throughput' = throughput /\ Added' = Added
    BY <1>4 DEF TypeOK, Added, Begin, Step, Leave, LoadOld, Compare, Borrow, ReadValue, StoreLabel,
       StoreValue, StoreSnap, Delete, Goto, report
  <2>2. \A u \in Threads : pc'[u] = "add" =>
          loaded'[u] = throughput \/ (pc[u] = "add" /\ loaded'[u] = loaded[u])
    BY <1>4 DEF TypeOK, Begin, Step, Leave, LoadOld, Compare, Borrow, ReadValue, StoreLabel,
       StoreValue, StoreSnap, Delete, Goto, report
  <2>3. \E S \in SUBSET Added' :
          throughput' = Cardinality(UpdatesOf(S)') /\ (Added' # {} => S # {})
    BY <1>2, <2>1 DEF SumsAgree
  <2>4. \A u \in Threads : pc'[u] = "add" =>
          \E S \in SUBSET Added' : loaded'[u] = Cardinality(UpdatesOf(S)')
    BY <1>2, <2>1, <2>2 DEF SumsAgree
  <2> QED BY <2>3, <2>4 DEF SumsAgree
<1> QED BY <1>3, <1>4

-----------------------------------------------------------------------------
LEMMA InvInitially == Init => Inv
<1> SUFFICES ASSUME Init PROVE Inv
  OBVIOUS
<1>1. TypeOK
  <2>1. snap \in [Threads -> Array]
    BY InvalidIsArray DEF Init
  <2> QED BY <2>1, ThreadsAreNumbers, VectorFacts DEF Init, TypeOK
<1>2. PreviousUpdateOver /\ MovesAgree
  BY DEF Init, PreviousUpdateOver, MovesAgree, Scanning
<1>3. UpdatesOf({}) = {} /\ Added = {}
  BY DEF UpdatesOf, Added, Init
<1>4. SumsAgree
  BY <1>3, FS_EmptySet DEF Init, SumsAgree
<1> QED BY <1>1, <1>2, <1>4 DEF Inv

LEMMA InvStep == Inv /\ [Next]_vars => Inv'
<1> SUFFICES ASSUME Inv, [Next]_vars PROVE Inv'
  OBVIOUS
<1>1. ASSUME NEW t \in Threads, Begin(t) \/ Step(t) \/ Leave(t) PROVE Inv'
  BY <1>1, TypeStep, MovesStep, SumsStep DEF Inv
<1>2. CASE UNCHANGED vars
  <2>1. TypeOK'
    BY <1>2 DEF Inv, TypeOK, vars, table, locals, report, history
  <2>2. PreviousUpdateOver' /\ MovesAgree'
    BY <1>2 DEF Inv, PreviousUpdateOver, MovesAgree, HasStored, vars, table, locals, history
  <2>3. SumsAgree'
    <3>1. Added' = Added /\ (\A S : UpdatesOf(S)' = UpdatesOf(S))
      BY <1>2 DEF Added, UpdatesOf, vars, table
    <3>2. throughput' = throughput /\ loaded' = loaded /\ pc' = pc
      BY <1>2 DEF vars, report
    <3> QED BY <3>1, <3>2 DEF Inv, SumsAgree
  <2> QED BY <2>1, <2>2, <2>3 DEF Inv
<1> QED BY <1>1, <1>2 DEF Next, Finished

\* All loads stay within the table; a thread that a scan has seen to move twice has ended an
\* update since the scan began (main.cpp:54-92); what has been added to the throughput are the
\* updates of whole threads (main.cpp:121-122).
THEOREM Invariance == Spec => []Inv
BY InvInitially, InvStep, PTL DEF Spec

\* The throughput printed counts the updates of some threads, at least one, and no part of a
\* thread's, however the unprotected additions interleave (main.cpp:121-122,144).
THEOREM Throughput == Spec => []ThroughputIsPartial
<1>1. Inv => ThroughputIsPartial
  <2> SUFFICES ASSUME Inv, \A t \in Threads : pc[t] = "done"
               PROVE  \E S \in (SUBSET Threads) \ {{}} : throughput = Cardinality(UpdatesOf(S))
    BY DEF ThroughputIsPartial
  <2>1. Added = Threads /\ Threads # {}
    BY ThreadsAreNumbers DEF Added
  <2>2. PICK S \in SUBSET Added :
          throughput = Cardinality(UpdatesOf(S)) /\ (Added # {} => S # {})
    BY DEF Inv, SumsAgree
  <2> QED BY <2>1, <2>2
<1> QED BY <1>1, Invariance, PTL
=============================================================================
