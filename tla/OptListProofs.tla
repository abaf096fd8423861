---------------------------- MODULE OptListProofs ----------------------------
(***************************************************************************)
(* The optimistic list is a set, for every number of threads, keys and     *)
(* nodes: what a thread has validated under the two locks stays so until   *)
(* it gives them back, and every operation takes effect between its call   *)
(* and its return.                                                         *)
(***************************************************************************)
EXTENDS OptList, TLAPS

\* The lists are those of the hand-over-hand list, with its lemmas about them.
Fine == INSTANCE FineListProofs

KeysOfNodes == [AllNodes -> Int]
Links == [AllNodes -> AllNodes \cup {NULL}]

LEMMA Ends == Head \notin Nodes /\ Tail \notin Nodes /\ Head # Tail
BY ListAssumption

LEMMA SameLists ==
  /\ \A L, k, nx : Fine!IsList(L, k, nx) <=> IsList(L, k, nx)
  /\ Fine!KeysOfNodes = KeysOfNodes /\ Fine!Links = Links /\ Fine!AllNodes = AllNodes
  /\ \A ns : Fine!NodesFrom(ns) = NodesFrom(ns) /\ Fine!NodesFrom(ns)' = NodesFrom(ns)'
BY DEF Fine!IsList, IsList, Fine!KeysOfNodes, KeysOfNodes, Fine!Links, Links, Fine!AllNodes, AllNodes,
   Fine!NodesFrom, NodesFrom


\* A step of thread t.
Acts(t) == Invoke(t) \/ LockPrev(t) \/ LockCur(t) \/ Step(t)

\* Those that change only its own locals and mutexes.
Moves(t) ==
  \/ Begin(t) \/ Advance(t) \/ LockPrev(t) \/ LockCur(t) \/ list_validate(t)
  \/ RetryPrev(t) \/ RetryCur(t) \/ UnlockFirst(t) \/ UnlockCur(t)

Operates(t) == list_add(t) \/ list_remove(t) \/ list_contains(t)

Calls == [op : Set!Ops, key : Keys, ret : {"pending", "true", "false"}]

\* What the other parts of the proof take from the type invariant.
LEMMA Types ==
  ASSUME Inv
  PROVE  /\ key \in KeysOfNodes /\ next \in Links
         /\ key \in [AllNodes -> Keys \cup {INT_MIN, INT_MAX}]
         /\ mutex \in [AllNodes -> Threads \cup {Nobody}]
         /\ unused \subseteq Nodes
         /\ prev \in [Threads -> AllNodes] /\ cur \in [Threads -> AllNodes]
         /\ node \in [Threads -> AllNodes] /\ it \in [Threads -> AllNodes]
         /\ pc \in [Threads -> Stages] /\ call \in [Threads -> {Set!None} \cup Calls]
<1>1. Keys \cup {INT_MIN, INT_MAX} \subseteq Int
  BY ListAssumption
<1> QED BY <1>1 DEF Inv, TypeOK, ListTypeOK, KeysOfNodes, Links, Calls

\* A thread with a call: its operation and its key.
LEMMA CallFacts ==
  ASSUME Inv, NEW t \in Threads, pc[t] # "idle"
  PROVE  /\ call[t] \in Calls /\ call[t].key \in Keys /\ call[t].key \in Int
         /\ INT_MIN < call[t].key /\ call[t].key < INT_MAX
<1>1. call[t] # Set!None
  BY DEF Inv, PlaceAgrees
<1>2. call[t] \in Calls
  BY <1>1, Types
<1>3. \A k \in Keys : k \in Int /\ INT_MIN < k /\ k < INT_MAX
  BY ListAssumption
<1> QED BY <1>2, <1>3 DEF Calls

LEMMA ActsSplit ==
  ASSUME NEW t \in Threads, Acts(t)
  PROVE  Invoke(t) \/ Moves(t) \/ Operates(t) \/ Return(t)
BY DEF Acts, Moves, Operates, Step

LEMMA MovesKeep ==
  ASSUME NEW t \in Threads, Moves(t)
  PROVE  UNCHANGED <<key, next, unused, node, call>>
BY DEF Moves, Begin, Advance, LockPrev, LockCur, list_validate, RetryPrev, RetryCur, UnlockFirst, UnlockPrev,
  UnlockCur

\* What an operation does besides setting pointers.
LEMMA OperatesKeep ==
  ASSUME Inv, NEW t \in Threads, Operates(t)
  PROVE  /\ UNCHANGED <<key, mutex, unused, prev, cur, node, it>> /\ pc[t] = "valid"
         /\ call[t] \in Calls /\ call[t].ret = "pending"
         /\ \E r \in {"true", "false"} : call' = [call EXCEPT ![t].ret = r] /\ call'[t] = [call[t] EXCEPT !.ret = r]
         /\ pc'[t] \in {"unlock", "relock"}
<1>1. UNCHANGED <<key, mutex, unused, prev, cur, node, it>> /\ pc[t] = "valid"
  BY DEF Operates, list_add, list_remove, list_contains, AddHere, RemoveHere, Answer
<1>2. call[t] \in Calls /\ call[t].ret = "pending"
  BY <1>1, CallFacts DEF Inv, PlaceAgrees, Calls
<1>3. pc'[t] \in {"unlock", "relock"}
  BY Types DEF Operates, list_add, list_remove, list_contains, AddHere, RemoveHere, Answer, Goto
<1>4. PICK r \in {"true", "false"} : call' = [call EXCEPT ![t].ret = r]
  BY DEF Operates, list_add, list_remove, list_contains, AddHere, RemoveHere, Answer
<1>5. call'[t] = [call[t] EXCEPT !.ret = r]
  BY <1>4, Types
<1> QED BY <1>1, <1>2, <1>3, <1>4, <1>5

\* No step of thread t touches the locals of the others.
LEMMA OthersStay ==
  ASSUME Inv, NEW t \in Threads, Acts(t), NEW u \in Threads, u # t
  PROVE  /\ pc'[u] = pc[u] /\ prev'[u] = prev[u] /\ cur'[u] = cur[u]
         /\ node'[u] = node[u] /\ it'[u] = it[u] /\ call'[u] = call[u]
         /\ Aside(u)' = Aside(u)
<1>1. CASE Invoke(t) \/ Return(t)
  <2>1. pc'[u] = pc[u] /\ call'[u] = call[u] /\ prev'[u] = prev[u] /\ cur'[u] = cur[u]
    BY <1>1, Types DEF Invoke, Call, Return, Leave, Goto
  <2>2. node'[u] = node[u] /\ it' = it
    BY <1>1, Types DEF Invoke, Call, Return, Leave
  <2> QED BY <2>1, <2>2 DEF Aside
<1>2. CASE Moves(t)
  <2>1. pc'[u] = pc[u] /\ prev'[u] = prev[u] /\ cur'[u] = cur[u] /\ it'[u] = it[u]
    BY <1>2, Types DEF Moves, Begin, Advance, LockPrev, LockCur, list_validate, RetryPrev, RetryCur,
      UnlockFirst, UnlockPrev, UnlockCur, Goto
  <2> QED BY <1>2, <2>1, MovesKeep DEF Aside
<1>3. CASE Operates(t)
  <2>1. pc'[u] = pc[u] /\ call'[u] = call[u]
    BY <1>3, Types DEF Operates, list_add, list_remove, list_contains, AddHere, RemoveHere, Answer, Goto
  <2> QED BY <1>3, <2>1, OperatesKeep DEF Aside
<1> QED BY <1>1, <1>2, <1>3, ActsSplit

-----------------------------------------------------------------------------
\* The steps that change the list.
Adds(t) == list_add(t) /\ ~Found(t)
Removes(t) == list_remove(t) /\ Found(t)

\* Nodes that are known stay known along their next pointers.
LEMMA KnownIsClosed ==
  ASSUME NEW t \in Threads
  PROVE  /\ KnownWithout(t) \subseteq Nodes /\ Linked \subseteq KnownWithout(t)
         /\ \A m \in KnownWithout(t) \cup {Head} : next[m] \in Nodes \cup {Tail} => next[m] \in KnownWithout(t) \cup {Tail}
         /\ \A u \in Threads \ {t} : \A n \in {prev[u], cur[u], node[u], it[u]} :
              n \in Nodes => n \in KnownWithout(t)
<1> DEFINE ns == UNION {{prev[u], cur[u], node[u], it[u]} : u \in Threads \ {t}}
<1>1. \A u \in Threads \ {t} : \A n \in {prev[u], cur[u], node[u], it[u]} : n \in ns
  OBVIOUS
<1> HIDE DEF ns
<1>2. KnownWithout(t) = NodesFrom(ns)
  BY DEF KnownWithout, ns
<1>3. NodesFrom(ns) \subseteq Nodes /\ Linked \subseteq NodesFrom(ns)
  BY DEF NodesFrom, Linked
<1>4. ASSUME NEW m \in NodesFrom(ns) \cup {Head}, next[m] \in Nodes
      PROVE  next[m] \in NodesFrom(ns)
  <2> SUFFICES ASSUME NEW S \in SUBSET Nodes, ns \subseteq S \cup {Head, Tail},
                      \A i \in S \cup {Head} : next[i] \in S \cup {Tail}
               PROVE  next[m] \in S
    BY <1>4 DEF NodesFrom
  <2>1. m \in S \cup {Head}
    BY <1>4 DEF NodesFrom
  <2> QED BY <1>4, <2>1, Ends
<1>5. \A n \in ns : n \in Nodes => n \in NodesFrom(ns)
  BY Ends DEF NodesFrom
<1> QED BY <1>1, <1>2, <1>3, <1>4, <1>5

\* The list is among the shared nodes, which lead only to one another.
LEMMA SharedFacts ==
  ASSUME Inv
  PROVE  /\ Shared \subseteq Nodes \ unused /\ Linked \subseteq Shared
         /\ Head \notin Shared /\ Tail \notin Shared
         /\ \A t \in Threads : Aside(t) \cap Shared = {}
         /\ \A m \in Shared \cup {Head} : next[m] \in Shared \cup {Tail} /\ key[m] < key[next[m]]
<1>1. Shared \subseteq Nodes \ unused /\ \A t \in Threads : Aside(t) \cap Shared = {}
  BY DEF Shared
<1>2. \A m \in Shared \cup {Head} : next[m] \in Shared \cup {Tail} /\ key[m] < key[next[m]]
  BY <1>1 DEF Inv, LinksAgree
<1>3. Linked \subseteq Shared
  BY <1>1, <1>2 DEF Linked, NodesFrom
<1> QED BY <1>1, <1>2, <1>3, Ends

\* What a thread has validated.
LEMMA WhenValid ==
  ASSUME Inv, NEW t \in Threads, pc[t] = "valid"
  PROVE  /\ prev[t] \in Linked \cup {Head} /\ next[prev[t]] = cur[t] /\ cur[t] \in Linked \cup {Tail}
         /\ key[prev[t]] < call[t].key /\ call[t].key <= key[cur[t]]
         /\ Found(t) => cur[t] \in Linked
         /\ mutex[prev[t]] = t /\ mutex[cur[t]] = t
<1>1. prev[t] \in Linked \cup {Head} /\ next[prev[t]] = cur[t]
  BY DEF Inv, ValidatedStays, Linked
<1>2. cur[t] \in Linked \cup {Tail}
  BY <1>1 DEF Inv, IsList
<1>3. /\ key[prev[t]] < call[t].key /\ key[cur[t]] >= call[t].key
      /\ mutex[prev[t]] = t /\ mutex[cur[t]] = t
  BY DEF Inv, PlaceAgrees
<1>4. key[cur[t]] \in Int /\ call[t].key \in Int
  BY Types, CallFacts DEF KeysOfNodes
<1>5. Found(t) => cur[t] # Tail
  BY CallFacts, ListAssumption DEF Found, Inv, KeysAgree
<1> QED BY <1>1, <1>2, <1>3, <1>4, <1>5

\* A node that a thread has for itself comes from the memory and goes to the list or back.
LEMMA AsideStep ==
  ASSUME Inv, NEW t \in Threads, Acts(t)
  PROVE  /\ Adds(t) => Aside(t) = {node[t]} /\ Aside(t)' = {} /\ unused' = unused
         /\ ~Adds(t) /\ ~Return(t) => /\ unused' \cup Aside(t)' = unused \cup Aside(t)
                                      /\ unused' \cap Aside(t)' = {}
         /\ Return(t) => Aside(t)' = {} /\ unused' = unused \cup (Nodes \ KnownWithout(t))
<1>0. /\ pc[t] \in {"unlock", "unlock cur", "return", "relock"} <=> call[t].ret # "pending"
      /\ pc[t] = "idle" <=> call[t] = Set!None
      /\ unused \cap Aside(t) = {}
      /\ node \in [Threads -> AllNodes] /\ call \in [Threads -> {Set!None} \cup Calls]
  BY Types DEF Inv, PlaceAgrees, OneOwner
<1>2. Set!None.op = "none" /\ Set!None.ret = "pending"
  BY DEF Set!None
<1>3. CASE Invoke(t)
  <2>1. pc[t] = "idle" /\ Aside(t) = {}
    BY <1>0, <1>2, <1>3 DEF Invoke, Call, Aside
  <2>2. ~Adds(t) /\ ~Return(t)
    BY <2>1 DEF Adds, list_add, Return, Leave
  <2>3. PICK o \in Set!Ops, k \in Keys :
          /\ call' = [call EXCEPT ![t] = [op |-> o, key |-> k, ret |-> "pending"]]
          /\ IF o = "add"
             THEN \E n \in unused :
                    /\ node' = [node EXCEPT ![t] = n]
                    /\ key' = [key EXCEPT ![n] = k]
                    /\ mutex' = [mutex EXCEPT ![n] = Nobody]
                    /\ unused' = unused \ {n}
             ELSE UNCHANGED <<node, key, mutex, unused>>
    BY <1>3 DEF Invoke, Call
  <2>4. call'[t].op = o /\ call'[t].ret = "pending"
    BY <1>0, <2>3
  <2>5. CASE o = "add"
    <3>1. PICK n \in unused : node' = [node EXCEPT ![t] = n] /\ unused' = unused \ {n}
      BY <2>3, <2>5
    <3>2. Aside(t)' = {n}
      BY <1>0, <2>4, <2>5, <3>1 DEF Aside
    <3> QED BY <2>1, <2>2, <3>1, <3>2
  <2>6. CASE o # "add"
    <3>1. Aside(t)' = {} /\ unused' = unused
      BY <2>3, <2>4, <2>6 DEF Aside
    <3> QED BY <2>1, <2>2, <3>1
  <2> QED BY <2>5, <2>6
<1>4. CASE Moves(t)
  <2>1. call' = call /\ node' = node /\ unused' = unused
    BY <1>4, MovesKeep
  <2>2. ~Adds(t)
    <3>1. ASSUME Adds(t) PROVE FALSE
      <4>1. Operates(t)
        BY <3>1 DEF Adds, Operates
      <4>2. PICK r \in {"true", "false"} : call'[t] = [call[t] EXCEPT !.ret = r]
        BY <4>1, OperatesKeep
      <4> QED BY <2>1, <4>1, <4>2, OperatesKeep DEF Calls
    <3> QED BY <3>1
  <2>3. ~Return(t)
    <3>1. ASSUME Return(t) PROVE FALSE
      <4>1. pc[t] = "return" /\ call'[t] = Set!None
        BY <1>0, <3>1 DEF Return, Leave
      <4> QED BY <1>0, <2>1, <4>1
    <3> QED BY <3>1
  <2>4. Aside(t)' = Aside(t)
    BY <2>1 DEF Aside
  <2> QED BY <1>0, <2>1, <2>2, <2>3, <2>4
<1>5. CASE Operates(t)
  <2>1. pc[t] = "valid" /\ call[t].ret = "pending" /\ unused' = unused /\ node' = node /\ call[t] \in Calls
    BY <1>5, OperatesKeep
  <2>2. ~Return(t)
    BY <2>1 DEF Return, Leave
  <2>3. call'[t].op = call[t].op
    BY <1>5, <2>1, OperatesKeep DEF Calls
  <2>4. CASE list_add(t)
    <3>1. /\ call[t].op = "add" /\ call' = [call EXCEPT ![t].ret = IF ~Found(t) THEN "true" ELSE "false"]
      BY <2>4 DEF list_add, AddHere, Answer
    <3>2. call'[t].ret = IF ~Found(t) THEN "true" ELSE "false"
      BY <1>0, <2>1, <3>1 DEF Calls
    <3>3. Aside(t) = {node[t]} /\ Aside(t)' = IF Found(t) THEN {node[t]} ELSE {}
      BY <2>1, <2>3, <3>1, <3>2 DEF Aside
    <3> QED BY <1>0, <2>1, <2>2, <2>4, <3>3 DEF Adds
  <2>5. CASE list_remove(t) \/ list_contains(t)
    <3>1. call[t].op # "add"
      BY <2>5 DEF list_remove, list_contains, RemoveHere
    <3>2. Aside(t) = {} /\ Aside(t)' = {}
      BY <2>3, <3>1 DEF Aside
    <3> QED BY <1>0, <2>1, <2>2, <3>1, <3>2 DEF Adds, list_add, AddHere
  <2> QED BY <1>5, <2>4, <2>5 DEF Operates
<1>6. CASE Return(t)
  <2>1. call'[t] = Set!None /\ unused' = unused \cup (Nodes \ KnownWithout(t)) /\ pc[t] = "return"
    BY <1>0, <1>6 DEF Return, Leave, Forget
  <2>2. Aside(t)' = {}
    BY <1>2, <2>1 DEF Aside
  <2> QED BY <1>6, <2>1, <2>2 DEF Adds, list_add
<1> QED BY <1>3, <1>4, <1>5, <1>6, ActsSplit

\* What is forgotten nobody else knows.
LEMMA KnownStay ==
  ASSUME Inv, NEW t \in Threads, Acts(t)
  PROVE  /\ unused' \subseteq Nodes /\ Linked \cap unused' = {}
         /\ \A u \in Threads \ {t} :
              \A n \in {prev[u], cur[u], node[u], it[u]} : n \notin unused => n \notin unused'
<1>1. unused \subseteq Nodes /\ Linked \cap unused = {} /\ Aside(t) \subseteq Nodes \ unused
  BY Types, SharedFacts DEF Inv, OneOwner
<1>2. CASE Return(t)
  BY <1>1, <1>2, AsideStep, KnownIsClosed
<1>3. CASE ~Return(t)
  <2>1. unused' \subseteq unused \cup Aside(t) /\ (Adds(t) => unused' = unused)
    BY <1>3, AsideStep
  <2>2. unused' \subseteq unused
    BY <1>3, AsideStep, ActsSplit, MovesKeep, OperatesKeep, Types DEF Invoke, Call
  <2> QED BY <1>1, <2>2
<1> QED BY <1>2, <1>3

LEMMA SharedStep ==
  ASSUME Inv, NEW t \in Threads, Acts(t)
  PROVE  /\ OneOwner'
         /\ Adds(t) => Shared' = Shared \cup {node[t]} /\ node[t] \in Nodes \ (Shared \cup unused)
         /\ ~Adds(t) /\ ~Return(t) => Shared' = Shared
         /\ Return(t) => Shared' = (Shared \cup Aside(t)) \ unused'
<1>1. /\ unused \subseteq Nodes
      /\ \A u \in Threads : u # t => Aside(u)' = Aside(u)
      /\ ~(Adds(t) /\ Return(t))
  BY Types, OthersStay DEF Adds, list_add, Return, Leave
<1>2. \A u \in Threads :
        /\ Aside(u) \subseteq Nodes \ unused
        /\ \A v \in Threads : u # v => Aside(u) \cap Aside(v) = {}
  BY DEF Inv, OneOwner
<1> DEFINE Others == UNION {Aside(u) : u \in Threads \ {t}}
<1>3. /\ Shared = Nodes \ (unused \cup Aside(t) \cup Others)
      /\ Shared' = Nodes \ (unused' \cup Aside(t)' \cup Others)
      /\ Others \cap (unused \cup Aside(t)) = {}
  <2>1. UNION {Aside(u) : u \in Threads} = Aside(t) \cup Others
    OBVIOUS
  <2>2. (UNION {Aside(u) : u \in Threads})' = Aside(t)' \cup Others
    BY <1>1
  <2>3. Others \cap (unused \cup Aside(t)) = {}
    BY <1>2
  <2> QED BY <2>1, <2>2, <2>3 DEF Shared
<1>4. CASE Adds(t)
  <2>1. Aside(t) = {node[t]} /\ Aside(t)' = {} /\ unused' = unused
    BY <1>4, AsideStep
  <2>2. OneOwner'
    BY <1>1, <1>2, <2>1 DEF OneOwner
  <2> HIDE DEF Others
  <2> QED BY <1>1, <1>2, <1>3, <1>4, <2>1, <2>2
<1>5. CASE ~Adds(t) /\ ~Return(t)
  <2>1. unused' \cup Aside(t)' = unused \cup Aside(t) /\ unused' \cap Aside(t)' = {}
    BY <1>5, AsideStep
  <2>2. OneOwner'
    BY <1>1, <1>2, <2>1 DEF OneOwner
  <2>3. Shared' = Shared
    BY <1>3, <2>1
  <2> QED BY <1>5, <2>2, <2>3
<1>6. CASE Return(t)
  <2>1. Aside(t)' = {} /\ unused \subseteq unused'
    BY <1>6, AsideStep
  <2>2. ASSUME NEW u \in Threads, u # t PROVE Aside(u) \subseteq Nodes \ unused'
    <3>1. Aside(u) = {} \/ Aside(u) = {node[u]}
      BY DEF Aside
    <3> QED BY <1>2, <2>2, <3>1, KnownStay
  <2>3. OneOwner'
    BY <1>1, <1>2, <2>1, <2>2 DEF OneOwner
  <2>4. Shared' = (Shared \cup Aside(t)) \ unused'
    <3>1. Aside(t) \subseteq Nodes
      BY <1>2
    <3> HIDE DEF Others
    <3> QED BY <1>3, <2>1, <3>1
  <2> QED BY <1>1, <1>6, <2>3, <2>4
<1> QED BY <1>4, <1>5, <1>6

\* What a step does to the members of the nodes.
LEMMA MembersStep ==
  ASSUME Inv, NEW t \in Threads, Acts(t)
  PROVE  /\ \A m \in AllNodes \ (unused \cup unused') : key'[m] = key[m]
         /\ Adds(t) \/ Removes(t) => key' = key /\ unused' = unused /\ pc[t] = "valid"
         /\ ~Adds(t) /\ ~Removes(t) => \A m \in AllNodes \ (unused \cup unused') : next'[m] = next[m]
         /\ Adds(t) => next' = [next EXCEPT ![prev[t]] = node[t], ![node[t]] = cur[t]]
         /\ Removes(t) => next' = [next EXCEPT ![prev[t]] = next[cur[t]]]
         /\ ~(Adds(t) /\ Removes(t))
<1>1. key \in [AllNodes -> Keys \cup {INT_MIN, INT_MAX}] /\ next \in [AllNodes -> AllNodes \cup {NULL}]
  BY Types DEF Links
<1>2. ~(Adds(t) /\ Removes(t))
  BY DEF Adds, Removes, list_add, list_remove, AddHere, RemoveHere
<1>3. CASE Operates(t)
  BY <1>2, <1>3, OperatesKeep DEF Operates, list_add, list_remove, list_contains, AddHere, RemoveHere, Adds, Removes
<1>4. CASE ~Operates(t)
  <2>1. ~Adds(t) /\ ~Removes(t)
    BY <1>4 DEF Adds, Removes, Operates
  <2>2. CASE Invoke(t)
    <3>1. next' = next /\ (key' = key \/ \E n \in unused, k \in Keys : key' = [key EXCEPT ![n] = k])
      BY <2>2 DEF Invoke, Call
    <3> QED BY <1>1, <2>1, <3>1
  <2>3. CASE Moves(t)
    BY <2>1, <2>3, MovesKeep
  <2>4. CASE Return(t)
    <3>1. PICK ns : Forget(ns)
      BY <2>4 DEF Return
    <3>2. \A m \in AllNodes \ ns : key'[m] = key[m] /\ next'[m] = next[m]
      BY <3>1 DEF Forget
    <3>3. ns \subseteq unused'
      BY <3>1 DEF Forget
    <3> QED BY <2>1, <3>2, <3>3
  <2> QED BY <1>4, <2>2, <2>3, <2>4, ActsSplit
<1> QED BY <1>3, <1>4

\* A mutex that somebody else has stays with him.
LEMMA MutexStep ==
  ASSUME Inv, NEW t \in Threads, Acts(t), NEW u \in Threads, u # t,
         NEW m \in AllNodes \ unused, mutex[m] = u
  PROVE  mutex'[m] = u
<1>1. mutex \in [AllNodes -> Threads \cup {Nobody}] /\ u # Nobody
  BY Types, ListAssumption
<1>2. CASE Invoke(t)
  <2>1. mutex' = mutex \/ \E n \in unused : mutex' = [mutex EXCEPT ![n] = Nobody]
    BY <1>2 DEF Invoke, Call
  <2> QED BY <1>1, <2>1
<1>3. CASE LockPrev(t) \/ LockCur(t)
  BY <1>1, <1>3 DEF LockPrev, LockCur, Lock
<1>4. CASE RetryPrev(t) \/ UnlockFirst(t)
  <2>1. mutex[prev[t]] = t
    BY <1>4 DEF RetryPrev, UnlockFirst, UnlockPrev, Inv, PlaceAgrees
  <2> QED BY <1>1, <1>4, <2>1 DEF RetryPrev, UnlockFirst, UnlockPrev, Unlock
<1>5. CASE RetryCur(t) \/ UnlockCur(t)
  <2>1. mutex[cur[t]] = t
    BY <1>5 DEF RetryCur, UnlockCur, Inv, PlaceAgrees
  <2> QED BY <1>1, <1>5, <2>1 DEF RetryCur, UnlockCur, Unlock
<1>6. CASE Begin(t) \/ Advance(t) \/ list_validate(t) \/ Operates(t) \/ Return(t)
  BY <1>6, OperatesKeep DEF Begin, Advance, list_validate, Return, Leave
<1> QED BY <1>2, <1>3, <1>4, <1>5, <1>6, ActsSplit DEF Moves

-----------------------------------------------------------------------------
\* The list remains one.
LEMMA ListStep ==
  ASSUME Inv, NEW t \in Threads, Acts(t)
  PROVE  /\ IsList(Linked', key', next')
         /\ Adds(t) => Linked' = Linked \cup {node[t]} /\ node[t] \in Nodes \ Linked
         /\ Removes(t) => Linked' = Linked \ {cur[t]} /\ cur[t] \in Linked
         /\ ~Adds(t) /\ ~Removes(t) => Linked' = Linked
<1>1. /\ IsList(Linked, key, next) /\ key \in KeysOfNodes /\ next \in Links
      /\ Linked \subseteq Shared /\ ~(Adds(t) /\ Removes(t))
  BY Types, SharedFacts, MembersStep DEF Inv
<1>2. \A L : IsList(L, key', next') => Linked' = L
  BY Fine!WalkFindsListAfter, SameLists, ListAssumption DEF Linked
<1>3. CASE Adds(t)
  <2>1. /\ node[t] \in Nodes \ Linked /\ pc[t] = "valid"
        /\ key' = key /\ next' = [next EXCEPT ![prev[t]] = node[t], ![node[t]] = cur[t]]
    BY <1>1, <1>3, SharedStep, MembersStep
  <2>2. /\ prev[t] \in Linked \cup {Head} /\ next[prev[t]] = cur[t]
        /\ key[prev[t]] < call[t].key /\ call[t].key <= key[cur[t]]
    BY <2>1, WhenValid
  <2>3. key[node[t]] = call[t].key
    BY <1>3, <2>1, OperatesKeep DEF Inv, KeysAgree, Adds, list_add, AddHere, Operates
  <2>4. key[node[t]] < key[cur[t]]
    <3>1. key[cur[t]] \in Int /\ call[t].key \in Int /\ key[cur[t]] # call[t].key
      BY <1>3, <2>1, Types, CallFacts DEF KeysOfNodes, Adds, Found
    <3> QED BY <2>2, <2>3, <3>1
  <2>5. IsList(Linked \cup {node[t]}, key', next')
    <3> DEFINE p == prev[t]
               n == node[t]
    <3>1. p \in Linked \cup {Head} /\ n \in Nodes \ Linked /\ key[p] < key[n] /\ key[n] < key[next[p]]
      BY <2>1, <2>2, <2>3, <2>4
    <3>2. next' = [next EXCEPT ![p] = n, ![n] = next[p]]
      BY <2>1, <2>2
    <3> HIDE DEF p, n
    <3>3. IsList(Linked \cup {n}, key, [next EXCEPT ![p] = n, ![n] = next[p]])
      BY <1>1, <3>1, Fine!LinkKeepsList, SameLists, ListAssumption
    <3>4. IsList(Linked \cup {n}, key', next')
      BY <2>1, <3>2, <3>3
    <3> QED BY <3>4 DEF n
  <2> QED BY <1>1, <1>2, <1>3, <2>1, <2>5
<1>4. CASE Removes(t)
  <2>1. pc[t] = "valid" /\ key' = key /\ next' = [next EXCEPT ![prev[t]] = next[cur[t]]]
    BY <1>4, MembersStep
  <2>2. prev[t] \in Linked \cup {Head} /\ next[prev[t]] = cur[t] /\ cur[t] \in Linked
    BY <1>4, <2>1, WhenValid DEF Removes
  <2>3. IsList(Linked \ {cur[t]}, key', next')
    <3> DEFINE p == prev[t]
    <3>1. p \in Linked \cup {Head} /\ next[p] \in Linked
      BY <2>2
    <3>2. cur[t] = next[p] /\ next' = [next EXCEPT ![p] = next[next[p]]]
      BY <2>1, <2>2
    <3> HIDE DEF p
    <3>3. IsList(Linked \ {next[p]}, key, [next EXCEPT ![p] = next[next[p]]])
      BY <1>1, <3>1, Fine!UnlinkKeepsList, SameLists, ListAssumption
    <3> QED BY <2>1, <3>2, <3>3
  <2> QED BY <1>1, <1>2, <1>4, <2>2, <2>3
<1>5. CASE ~Adds(t) /\ ~Removes(t)
  <2>1. Linked \cup {Head, Tail} \subseteq AllNodes \ (unused \cup unused')
    BY Types, Ends, SharedFacts, KnownStay DEF AllNodes
  <2>2. /\ \A m \in Linked \cup {Head, Tail} : key'[m] = key[m]
        /\ \A m \in Linked \cup {Head} : next'[m] = next[m]
    BY <1>5, <2>1, MembersStep
  <2>3. IsList(Linked, key', next')
    BY <1>1, <2>2, Fine!ListDependsOnIts, SameLists, ListAssumption
  <2> QED BY <1>2, <1>5, <2>3
<1> QED BY <1>3, <1>4, <1>5

LEMMA LinksStep ==
  ASSUME Inv, NEW t \in Threads, Acts(t)
  PROVE  LinksAgree'
<1>1. /\ \A m \in (Nodes \ unused) \cup {Head} : next[m] \in Shared \cup {Tail} /\ key[m] < key[next[m]]
      /\ \A n \in unused : next[n] = Tail
      /\ key \in [AllNodes -> Keys \cup {INT_MIN, INT_MAX}] /\ next \in [AllNodes -> AllNodes \cup {NULL}]
      /\ unused \subseteq Nodes /\ unused' \subseteq Nodes
  BY Types, KnownStay DEF Inv, LinksAgree, Links
<1>2. /\ Shared \subseteq Nodes \ unused /\ Linked \subseteq Shared
      /\ Head \notin Nodes /\ Tail \notin Nodes /\ Head # Tail
      /\ Nodes \cup {Head, Tail} = AllNodes
  BY Ends, SharedFacts DEF AllNodes
<1>3. CASE Adds(t)
  <2>1. /\ Shared' = Shared \cup {node[t]} /\ node[t] \in Nodes \ (Shared \cup unused) /\ unused' = unused
        /\ key' = key /\ next' = [next EXCEPT ![prev[t]] = node[t], ![node[t]] = cur[t]] /\ pc[t] = "valid"
    BY <1>3, SharedStep, MembersStep
  <2>2. /\ prev[t] \in Linked \cup {Head} /\ cur[t] \in Linked \cup {Tail}
        /\ key[prev[t]] < key[node[t]] /\ key[node[t]] < key[cur[t]]
    <3>1. /\ prev[t] \in Linked \cup {Head} /\ cur[t] \in Linked \cup {Tail}
          /\ key[prev[t]] < call[t].key /\ call[t].key <= key[cur[t]] /\ call[t].key # key[cur[t]]
      BY <1>3, <2>1, WhenValid DEF Adds, Found
    <3>2. key[node[t]] = call[t].key
      BY <1>3, OperatesKeep DEF Inv, KeysAgree, Adds, list_add, AddHere, Operates
    <3>3. key[cur[t]] \in Int /\ call[t].key \in Int
      BY <2>1, Types, CallFacts DEF KeysOfNodes
    <3> QED BY <3>1, <3>2, <3>3
  <2>3. \A m \in AllNodes : next'[m] = IF m = node[t] THEN cur[t] ELSE IF m = prev[t] THEN node[t] ELSE next[m]
    BY <1>1, <1>2, <2>1, <2>2
  <2>4. ASSUME NEW m \in (Nodes \ unused) \cup {Head}
        PROVE  next'[m] \in Shared' \cup {Tail} /\ key[m] < key[next'[m]]
    BY <1>1, <1>2, <2>1, <2>2, <2>3
  <2>5. \A n \in unused : next'[n] = Tail
    BY <1>1, <1>2, <2>1, <2>2, <2>3
  <2> QED BY <2>1, <2>4, <2>5 DEF LinksAgree
<1>4. CASE Removes(t)
  <2>1. /\ Shared' = Shared /\ unused' = unused /\ pc[t] = "valid"
        /\ key' = key /\ next' = [next EXCEPT ![prev[t]] = next[cur[t]]]
    BY <1>4, SharedStep, MembersStep DEF Return, Leave
  <2>2. prev[t] \in Linked \cup {Head} /\ cur[t] \in Linked /\ next[prev[t]] = cur[t]
    BY <1>4, <2>1, WhenValid DEF Removes
  <2>3. /\ next[cur[t]] \in Shared \cup {Tail} /\ key[prev[t]] < key[cur[t]] /\ key[cur[t]] < key[next[cur[t]]]
        /\ prev[t] \in AllNodes /\ cur[t] \in AllNodes /\ next[cur[t]] \in AllNodes
    BY <1>1, <1>2, <2>2
  <2>4. key[prev[t]] < key[next[cur[t]]]
    BY <2>3, Types DEF KeysOfNodes
  <2>5. \A m \in AllNodes : next'[m] = IF m = prev[t] THEN next[cur[t]] ELSE next[m]
    BY <1>1, <1>2, <2>1, <2>3
  <2>6. ASSUME NEW m \in (Nodes \ unused) \cup {Head}
        PROVE  next'[m] \in Shared \cup {Tail} /\ key[m] < key[next'[m]]
    BY <1>1, <1>2, <2>2, <2>3, <2>4, <2>5
  <2>7. \A n \in unused : next'[n] = Tail
    BY <1>1, <1>2, <2>2, <2>5
  <2> QED BY <2>1, <2>6, <2>7 DEF LinksAgree
<1>5. CASE ~Adds(t) /\ ~Removes(t) /\ ~Invoke(t) /\ ~Return(t)
  <2>1. key' = key /\ next' = next /\ unused' = unused
    <3>1. CASE Moves(t)
      BY <3>1, MovesKeep
    <3>2. CASE Operates(t)
      BY <1>5, <3>2, OperatesKeep DEF Operates, Adds, Removes, list_add, list_remove, list_contains, AddHere, RemoveHere
    <3> QED BY <1>5, <3>1, <3>2, ActsSplit
  <2>2. Shared' = Shared
    BY <1>5, SharedStep
  <2> QED BY <1>1, <2>1, <2>2 DEF LinksAgree
<1>6. CASE Invoke(t)
  <2>1. Shared' = Shared /\ next' = next
    BY <1>6, SharedStep DEF Invoke, Call, Adds, list_add, Return, Leave
  <2>2. \/ UNCHANGED <<key, unused>>
        \/ \E n \in unused, k \in Keys : key' = [key EXCEPT ![n] = k] /\ unused' = unused \ {n}
    BY <1>6 DEF Invoke, Call
  <2>3. CASE UNCHANGED <<key, unused>>
    BY <1>1, <2>1, <2>3 DEF LinksAgree
  <2>4. ASSUME NEW n \in unused, NEW k \in Keys, key' = [key EXCEPT ![n] = k], unused' = unused \ {n}
        PROVE  LinksAgree'
    <3>1. next[n] = Tail /\ key'[n] = k /\ key'[Tail] = INT_MAX /\ k < INT_MAX
      BY <1>1, <1>2, <2>4, ListAssumption DEF Inv, KeysAgree
    <3>2. \A m \in AllNodes \ {n} : key'[m] = key[m]
      BY <1>1, <2>4
    <3>3. ASSUME NEW m \in (Nodes \ unused) \cup {Head} PROVE key'[m] < key'[next[m]]
      BY <1>1, <1>2, <3>2
    <3> QED BY <1>1, <2>1, <2>4, <3>1, <3>3 DEF LinksAgree
  <2> QED BY <2>2, <2>3, <2>4
<1>7. CASE Return(t)
  <2>1. /\ unused' = unused \cup (Nodes \ KnownWithout(t)) /\ Shared' = (Shared \cup Aside(t)) \ unused'
        /\ next' = [n \in AllNodes |-> IF n \in Nodes \ KnownWithout(t) THEN Tail ELSE next[n]]
        /\ key' = [n \in AllNodes |-> IF n \in Nodes \ KnownWithout(t) THEN INT_MIN ELSE key[n]]
    BY <1>7, AsideStep, SharedStep DEF Return, Forget
  <2>2. \A n \in unused' : next'[n] = Tail
    BY <1>1, <1>2, <2>1
  <2>3. ASSUME NEW m \in (Nodes \ unused') \cup {Head}
        PROVE  next'[m] \in Shared' \cup {Tail} /\ key'[m] < key'[next'[m]]
    <3>1. m \in KnownWithout(t) \cup {Head} /\ m \in (Nodes \ unused) \cup {Head}
      BY <2>1, <2>3
    <3>2. next[m] \in Shared \cup {Tail} /\ key[m] < key[next[m]]
      BY <1>1, <3>1
    <3>3. next[m] \in KnownWithout(t) \cup {Tail}
      BY <1>2, <3>1, <3>2, KnownIsClosed
    <3>4. next[m] \in Shared' \cup {Tail}
      BY <1>2, <2>1, <3>2, <3>3
    <3>5. next'[m] = next[m] /\ key'[m] = key[m] /\ key'[next[m]] = key[next[m]]
      BY <1>2, <2>1, <3>1, <3>3, KnownIsClosed
    <3> QED BY <3>2, <3>4, <3>5
  <2> QED BY <2>2, <2>3 DEF LinksAgree
<1> QED BY <1>3, <1>4, <1>5, <1>6, <1>7

LEMMA KeysStep ==
  ASSUME Inv, NEW t \in Threads, Acts(t)
  PROVE  KeysAgree'
<1>1. /\ KeysAgree
      /\ key \in [AllNodes -> Keys \cup {INT_MIN, INT_MAX}] /\ node \in [Threads -> AllNodes]
      /\ call \in [Threads -> {Set!None} \cup Calls]
      /\ unused \subseteq Nodes /\ unused' \subseteq Nodes
  BY Types, KnownStay DEF Inv
<1>2. \A m \in AllNodes \ (unused \cup unused') : key'[m] = key[m]
  BY MembersStep
<1>3. key'[Head] = INT_MIN /\ key'[Tail] = INT_MAX
  BY <1>1, <1>2, Ends DEF KeysAgree, AllNodes
<1>4. ASSUME NEW n \in Nodes \ unused' PROVE key'[n] \in Keys
  <2>1. CASE n \notin unused
    BY <1>1, <1>2, <1>4, <2>1 DEF KeysAgree, AllNodes
  <2>2. CASE n \in unused
    <3>1. Invoke(t)
      BY <1>4, <2>2, ActsSplit, MovesKeep, OperatesKeep, AsideStep
    <3>2. PICK i \in unused, k \in Keys : key' = [key EXCEPT ![i] = k] /\ unused' = unused \ {i}
      BY <1>4, <2>2, <3>1 DEF Invoke, Call
    <3> QED BY <1>1, <1>4, <2>2, <3>2 DEF AllNodes
  <2> QED BY <2>1, <2>2
<1>5. ASSUME NEW u \in Threads, call'[u].op = "add", call'[u].ret # "true"
      PROVE  key'[node'[u]] = call'[u].key
  <2>1. CASE u # t
    <3>1. node'[u] = node[u] /\ call'[u] = call[u] /\ Aside(u) = {node[u]}
      BY <1>5, <2>1, OthersStay DEF Aside
    <3>2. node[u] \in AllNodes \ (unused \cup unused')
      BY <2>1, <3>1, KnownStay DEF Inv, OneOwner, AllNodes
    <3> QED BY <1>1, <1>2, <1>5, <3>1, <3>2 DEF KeysAgree
  <2>2. CASE u = t /\ Invoke(t)
    <3>1. PICK o \in Set!Ops, k \in Keys :
            /\ call' = [call EXCEPT ![t] = [op |-> o, key |-> k, ret |-> "pending"]]
            /\ o = "add" => \E n \in unused : /\ node' = [node EXCEPT ![t] = n]
                                              /\ key' = [key EXCEPT ![n] = k]
      BY <2>2 DEF Invoke, Call
    <3>2. call'[t] = [op |-> o, key |-> k, ret |-> "pending"]
      BY <1>1, <3>1
    <3>3. PICK n \in unused : node' = [node EXCEPT ![t] = n] /\ key' = [key EXCEPT ![n] = k]
      BY <1>5, <2>2, <3>1, <3>2
    <3>4. n \in AllNodes
      BY Types DEF AllNodes
    <3> QED BY <1>1, <2>2, <3>2, <3>3, <3>4
  <2>3. CASE u = t /\ Moves(t)
    <3>1. call' = call /\ node' = node /\ key' = key
      BY <2>3, MovesKeep
    <3> QED BY <1>1, <1>5, <3>1 DEF KeysAgree
  <2>4. CASE u = t /\ Operates(t)
    <3>1. node' = node /\ key' = key /\ call[t] \in Calls /\ call[t].ret = "pending"
          /\ \E r \in {"true", "false"} : call'[t] = [call[t] EXCEPT !.ret = r]
      BY <2>4, OperatesKeep
    <3>2. call'[t].op = call[t].op /\ call'[t].key = call[t].key
      BY <3>1 DEF Calls
    <3> QED BY <1>1, <1>5, <2>4, <3>1, <3>2 DEF KeysAgree
  <2>5. CASE u = t /\ Return(t)
    <3>1. call'[t] = Set!None
      BY <1>1, <2>5 DEF Return, Leave
    <3> QED BY <1>5, <2>5, <3>1 DEF Set!None
  <2> QED BY <2>1, <2>2, <2>3, <2>4, <2>5, ActsSplit
<1> QED BY <1>3, <1>4, <1>5 DEF KeysAgree

-----------------------------------------------------------------------------
\* A walk that has passed a node taken out of the list does not find back to it: the nodes
\* that the walk can still meet stay without it, whatever another thread does.
LEMMA CutOffStays ==
  ASSUME Inv, NEW t \in Threads, Acts(t), NEW u \in Threads, u # t,
         prev[u] \in Shared, prev[u] \notin NodesFrom({it[u]})
  PROVE  prev[u] \notin NodesFrom({it[u]})'
<1> DEFINE p == prev[u]
           i == it[u]
<1>1. it'[u] = i /\ i \in Shared \cup {Head, Tail} /\ p \in Shared /\ i \notin unused /\ i \notin unused'
  <2>1. it[u] \in Shared \cup {Head, Tail}
    BY DEF Inv, PlaceAgrees
  <2>2. it[u] \notin unused
    BY <2>1, SharedFacts, Types, Ends
  <2>3. it[u] \notin unused'
    BY <2>2, KnownStay
  <2> QED BY <2>1, <2>2, <2>3, OthersStay
<1>2. PICK S \in SUBSET Nodes :
        /\ {i} \subseteq S \cup {Head, Tail} /\ \A m \in S \cup {Head} : next[m] \in S \cup {Tail}
        /\ p \notin S
  BY <1>1, SharedFacts DEF NodesFrom
<1> HIDE DEF p, i
<1> DEFINE R == S \cap Shared
<1>3. /\ R \subseteq Nodes /\ R \subseteq Shared /\ i \in R \cup {Head, Tail} /\ p \notin R
      /\ \A m \in R \cup {Head} : next[m] \in R \cup {Tail}
      /\ Head \notin Nodes /\ Tail \notin Nodes /\ Head # Tail /\ next \in Links
  BY <1>1, <1>2, SharedFacts, Ends, Types
<1> HIDE DEF R
<1>4. SUFFICES \E Q \in SUBSET Nodes :
                 /\ i \in Q \cup {Head, Tail} /\ \A m \in Q \cup {Head} : next'[m] \in Q \cup {Tail}
                 /\ p \notin Q
  BY <1>1 DEF NodesFrom, p
<1>5. CASE Adds(t)
  <2>1. /\ next' = [next EXCEPT ![prev[t]] = node[t], ![node[t]] = cur[t]]
        /\ next[prev[t]] = cur[t] /\ node[t] \in Nodes \ Shared /\ prev[t] \in AllNodes
    BY <1>5, MembersStep, SharedStep, WhenValid, Types
  <2>2. /\ \A m \in AllNodes : next'[m] = IF m = node[t] THEN cur[t] ELSE IF m = prev[t] THEN node[t] ELSE next[m]
        /\ R \cup {Head, node[t]} \subseteq AllNodes /\ node[t] \notin R \cup {Head}
    BY <1>3, <2>1 DEF Links, AllNodes
  <2>3. CASE prev[t] \in R \cup {Head}
    <3>1. cur[t] \in R \cup {Tail}
      BY <1>3, <2>1, <2>3
    <3>2. \A m \in R \cup {Head, node[t]} : next'[m] \in R \cup {node[t], Tail}
      BY <1>3, <2>2, <3>1
    <3>3. p # node[t]
      BY <1>1, <2>1
    <3>4. R \cup {node[t]} \in SUBSET Nodes
      BY <1>3, <2>1
    <3> QED BY <1>3, <3>2, <3>3, <3>4
  <2>4. CASE prev[t] \notin R \cup {Head}
    <3>1. \A m \in R \cup {Head} : next'[m] \in R \cup {Tail}
      BY <1>3, <2>2, <2>4
    <3> QED BY <1>3, <3>1
  <2> QED BY <2>3, <2>4
<1>6. CASE Removes(t)
  <2>1. /\ next' = [next EXCEPT ![prev[t]] = next[cur[t]]] /\ next[prev[t]] = cur[t]
        /\ cur[t] \in Nodes /\ prev[t] \in AllNodes
    BY <1>6, MembersStep, WhenValid, SharedFacts DEF Removes, Linked, NodesFrom, AllNodes
  <2>2. \A m \in AllNodes : next'[m] = IF m = prev[t] THEN next[cur[t]] ELSE next[m]
    BY <1>3, <2>1 DEF Links
  <2>3. ASSUME NEW m \in R \cup {Head} PROVE next'[m] \in R \cup {Tail}
    BY <1>3, <2>1, <2>2 DEF AllNodes
  <2> QED BY <1>3, <2>3
<1>7. CASE ~Adds(t) /\ ~Removes(t)
  <2> DEFINE Q == R \ unused'
  <2>1. unused' \subseteq Nodes /\ R \cap unused = {} /\ unused \subseteq Nodes
    BY <1>3, KnownStay, SharedFacts, Types
  <2>2. ASSUME NEW m \in Q \cup {Head} PROVE next'[m] = next[m]
    BY <1>3, <1>7, <2>1, MembersStep DEF AllNodes
  <2>3. ASSUME NEW m \in Q \cup {Head}, next[m] \in R PROVE next[m] \notin unused'
    <3>1. CASE Return(t)
      <4>1. unused' = unused \cup (Nodes \ KnownWithout(t))
        BY <3>1, AsideStep
      <4>2. m \in KnownWithout(t) \cup {Head}
        BY <1>3, <4>1
      <4>3. next[m] \in KnownWithout(t)
        BY <1>3, <2>3, <4>2, KnownIsClosed
      <4> QED BY <2>1, <2>3, <4>1, <4>3
    <3>2. CASE ~Return(t)
      <4>1. unused' \subseteq unused \cup Aside(t)
        BY <1>7, <3>2, AsideStep
      <4> QED BY <1>3, <2>3, <4>1, SharedFacts
    <3> QED BY <3>1, <3>2
  <2>4. Q \in SUBSET Nodes /\ i \in Q \cup {Head, Tail} /\ p \notin Q
    BY <1>1, <1>3
  <2> QED BY <1>3, <2>2, <2>3, <2>4
<1> QED BY <1>5, <1>6, <1>7

\* What a thread knows of its nodes stays so, whatever another one does.
LEMMA OthersKeepPlace ==
  ASSUME Inv, NEW t \in Threads, Acts(t), NEW u \in Threads, u # t
  PROVE  PlaceAgrees(u)'
<1>1. /\ pc'[u] = pc[u] /\ prev'[u] = prev[u] /\ cur'[u] = cur[u] /\ it'[u] = it[u] /\ call'[u] = call[u]
  BY OthersStay
<1>2. PlaceAgrees(u) /\ unused \subseteq Nodes /\ unused' \subseteq Nodes
  BY Types, KnownStay DEF Inv
<1>3. ASSUME NEW n \in {prev[u], cur[u], it[u]}, n \in Shared \cup {Head, Tail}
      PROVE  /\ n \in AllNodes \ (unused \cup unused') /\ key'[n] = key[n]
             /\ n \in Shared => n \in Shared'
  <2>1. n \in AllNodes \ (unused \cup unused')
    BY <1>2, <1>3, Ends, SharedFacts, KnownStay DEF AllNodes
  <2>2. key'[n] = key[n]
    BY <2>1, MembersStep
  <2>3. n \in Shared => n \in Shared'
    BY <2>1, SharedStep
  <2> QED BY <2>1, <2>2, <2>3
<1>4. /\ prev[u] \in Shared \cup {Head} /\ cur[u] \in Shared \cup {Head, Tail}
      /\ it[u] \in Shared \cup {Head, Tail}
  BY <1>2 DEF PlaceAgrees
<1>5. /\ prev[u] \in AllNodes \ unused /\ key'[prev[u]] = key[prev[u]] /\ prev[u] \in Shared' \cup {Head}
      /\ cur[u] \in AllNodes \ unused /\ key'[cur[u]] = key[cur[u]] /\ cur[u] \in Shared' \cup {Head, Tail}
      /\ it[u] \in Shared' \cup {Head, Tail}
  BY <1>3, <1>4
<1>6. /\ mutex[prev[u]] = u => mutex'[prev[u]] = u
      /\ mutex[cur[u]] = u => mutex'[cur[u]] = u
  BY <1>5, MutexStep
<1>7. ASSUME pc[u] = "validate", prev[u] \in NodesFrom({it[u]})' PROVE prev[u] \in Linked'
  <2>1. prev[u] \in Nodes
    BY <1>7 DEF NodesFrom
  <2>2. prev[u] \in Linked
    BY <1>2, <1>4, <1>7, <2>1, CutOffStays, Ends DEF PlaceAgrees
  <2>3. ASSUME Removes(t) PROVE prev[u] # cur[t]
    BY <1>2, <1>7, <2>3, MembersStep, WhenValid DEF PlaceAgrees
  <2> QED BY <2>2, <2>3, ListStep
<1>8. (pc[u] = "validate" /\ prev[u] \in NodesFrom({it[u]}) => prev[u] \in Linked)'
  BY <1>1, <1>7
<1> QED BY <1>1, <1>2, <1>5, <1>6, <1>8 DEF PlaceAgrees

\* What the thread itself does to its place.
LEMMA KeepsItsPlace ==
  ASSUME Inv, NEW t \in Threads, Acts(t)
  PROVE  PlaceAgrees(t)'
<1>1. /\ key \in KeysOfNodes /\ next \in Links /\ mutex \in [AllNodes -> Threads \cup {Nobody}]
      /\ prev \in [Threads -> AllNodes] /\ cur \in [Threads -> AllNodes] /\ it \in [Threads -> AllNodes]
      /\ pc \in [Threads -> Stages] /\ call \in [Threads -> {Set!None} \cup Calls]
  BY Types
<1>2. PlaceAgrees(t) /\ KeysAgree /\ Head \in AllNodes /\ Tail \in AllNodes
  BY DEF Inv, AllNodes
<1>3. /\ prev[t] \in Shared \cup {Head} /\ cur[t] \in Shared \cup {Head, Tail} /\ it[t] \in Shared \cup {Head, Tail}
      /\ pc[t] \notin {"idle", "start", "return"} => key[prev[t]] < call[t].key
      /\ pc[t] \in {"lock", "validate", "valid", "unlock", "retry"} =>
           mutex[prev[t]] = t /\ key[cur[t]] >= call[t].key /\ prev[t] # cur[t]
      /\ pc[t] \in {"validate", "valid", "unlock", "unlock cur", "retry", "retry cur"} => mutex[cur[t]] = t
      /\ pc[t] # "validate" => it[t] = Head
  <2>1. pc[t] # "idle" /\ key[prev[t]] < call[t].key /\ key[cur[t]] >= call[t].key => prev[t] # cur[t]
    BY <1>1, CallFacts DEF KeysOfNodes
  <2> QED BY <1>2, <2>1 DEF PlaceAgrees
<1>4. /\ \A m \in Shared \cup {Head} : next[m] \in Shared \cup {Tail}
      /\ Tail \notin Shared \cup {Head} /\ Shared \subseteq AllNodes
  BY SharedFacts, Ends DEF AllNodes
<1>5. CASE Moves(t)
  <2>1. key' = key /\ next' = next /\ call' = call /\ Shared' = Shared /\ Linked' = Linked
    <3>1. ~Adds(t) /\ ~Removes(t) /\ ~Return(t)
      <4>1. ASSUME Operates(t) PROVE FALSE
        <5>1. PICK r \in {"true", "false"} : call'[t] = [call[t] EXCEPT !.ret = r]
          BY <4>1, OperatesKeep
        <5>2. call'[t] = call[t] /\ call[t] \in Calls /\ call[t].ret = "pending"
          BY <1>5, <4>1, MovesKeep, OperatesKeep
        <5> QED BY <5>1, <5>2 DEF Calls
      <4>2. ~Return(t)
        <5>1. Return(t) => pc[t] = "return" /\ call'[t] = Set!None
          BY <1>1 DEF Return, Leave
        <5> QED BY <1>2, <1>5, <5>1, MovesKeep DEF PlaceAgrees
      <4> QED BY <4>1, <4>2 DEF Adds, Removes, Operates
    <3> QED BY <1>5, <3>1, MovesKeep, SharedStep, ListStep
  <2>2. (pc[t] = "idle" <=> call[t] = Set!None) /\ (pc[t] \in {"unlock", "unlock cur", "return", "relock"} <=> call[t].ret # "pending")
    BY <1>2 DEF PlaceAgrees
  <2>3. CASE Begin(t)
    <3>1. /\ pc[t] = "start" /\ pc'[t] = "walk" /\ mutex' = mutex /\ prev'[t] = Head /\ cur'[t] = next[Head] /\ it' = it
      BY <1>1, <2>3 DEF Begin, Goto
    <3>2. key[Head] < call[t].key
      BY <1>2, <3>1, CallFacts DEF KeysAgree
    <3> QED BY <1>3, <1>4, <2>1, <2>2, <3>1, <3>2 DEF PlaceAgrees
  <2>4. CASE Advance(t)
    <3>1. /\ pc[t] = "walk" /\ pc' = pc /\ mutex' = mutex /\ prev'[t] = cur[t] /\ cur'[t] = next[cur[t]] /\ it' = it
          /\ key[cur[t]] < call[t].key
      BY <1>1, <2>4 DEF Advance
    <3>2. cur[t] # Tail
      BY <1>2, <3>1, CallFacts, ListAssumption DEF KeysAgree
    <3> QED BY <1>3, <1>4, <2>1, <2>2, <3>1, <3>2 DEF PlaceAgrees
  <2>5. CASE LockPrev(t)
    <3>1. /\ pc[t] = "walk" /\ pc'[t] = "lock" /\ mutex'[prev[t]] = t /\ prev' = prev /\ cur' = cur /\ it' = it
          /\ key[cur[t]] >= call[t].key
      BY <1>1, <2>5 DEF LockPrev, Lock, Goto
    <3> QED BY <1>3, <2>1, <2>2, <3>1 DEF PlaceAgrees
  <2>6. CASE LockCur(t)
    <3>1. /\ pc[t] = "lock" /\ pc'[t] = "validate" /\ mutex'[cur[t]] = t /\ mutex'[prev[t]] = t
          /\ prev' = prev /\ cur' = cur /\ it' = it
      BY <1>1, <1>3, <2>6 DEF LockCur, Lock, Goto
    <3>2. NodesFrom({Head}) = Linked
      BY Ends DEF NodesFrom, Linked
    <3>3. it[t] = Head
      BY <1>3, <3>1
    <3>4. (prev[t] \in NodesFrom({it[t]}) => prev[t] \in Linked)'
      BY <2>1, <3>1, <3>2, <3>3 DEF NodesFrom
    <3> QED BY <1>3, <2>1, <2>2, <3>1, <3>4 DEF PlaceAgrees
  <2>7. CASE list_validate(t)
    <3>1. pc[t] = "validate" /\ mutex' = mutex /\ prev' = prev /\ cur' = cur
      BY <2>7 DEF list_validate
    <3>2. CASE pc'[t] \in {"valid", "retry"} /\ it'[t] = Head
      BY <1>3, <2>1, <2>2, <3>1, <3>2 DEF PlaceAgrees
    <3>3. CASE pc' = pc /\ it'[t] = next[it[t]] /\ key[it[t]] <= key[prev[t]]
      <4>1. it[t] # Tail
        <5>1. key[prev[t]] < call[t].key /\ call[t].key < INT_MAX /\ call[t].key \in Int /\ key[prev[t]] \in Int
          BY <1>1, <1>3, <3>1, CallFacts DEF KeysOfNodes
        <5> QED BY <1>2, <3>3, <5>1, ListAssumption DEF KeysAgree
      <4>2. next[it[t]] \in Shared \cup {Tail} /\ it[t] \in Shared \cup {Head}
        BY <1>3, <1>4, <4>1
      <4>3. NodesFrom({next[it[t]]}) \subseteq NodesFrom({it[t]})
        BY <4>1 DEF NodesFrom
      <4>4. prev[t] \in NodesFrom({it[t]}) => prev[t] \in Linked
        BY <1>2, <3>1 DEF PlaceAgrees
      <4>5. (prev[t] \in NodesFrom({it[t]}) => prev[t] \in Linked)'
        <5>1. NodesFrom({it[t]})' = NodesFrom({next[it[t]]})
          BY <2>1, <3>3 DEF NodesFrom
        <5> QED BY <2>1, <3>1, <4>3, <4>4, <5>1
      <4> QED BY <1>3, <2>1, <2>2, <3>1, <3>3, <4>2, <4>5 DEF PlaceAgrees
    <3> QED BY <1>1, <2>7, <3>2, <3>3 DEF list_validate, Goto
  <2>8. CASE RetryPrev(t)
    <3>1. /\ pc[t] = "retry" /\ pc'[t] = "retry cur" /\ mutex'[cur[t]] = t /\ prev' = prev /\ cur' = cur /\ it' = it
      BY <1>1, <1>3, <2>8 DEF RetryPrev, Unlock, Goto
    <3> QED BY <1>3, <2>1, <2>2, <3>1 DEF PlaceAgrees
  <2>9. CASE RetryCur(t)
    <3>1. /\ pc[t] = "retry cur" /\ pc'[t] = "start" /\ prev'[t] = Head /\ cur'[t] = Head /\ it' = it
      BY <1>1, <2>9 DEF RetryCur, Goto
    <3> QED BY <1>3, <2>1, <2>2, <3>1 DEF PlaceAgrees
  <2>10. CASE UnlockFirst(t)
    <3>1. /\ pc[t] = "unlock" /\ pc'[t] = "unlock cur" /\ mutex'[cur[t]] = t /\ prev' = prev /\ cur' = cur /\ it' = it
      BY <1>1, <1>3, <2>10 DEF UnlockFirst, UnlockPrev, Unlock, Goto
    <3> QED BY <1>3, <2>1, <2>2, <3>1 DEF PlaceAgrees
  <2>11. CASE UnlockCur(t)
    <3>1. pc[t] = "unlock cur" /\ pc'[t] = "return" /\ prev' = prev /\ cur' = cur /\ it' = it
      BY <1>1, <2>11 DEF UnlockCur, Goto
    <3> QED BY <1>3, <2>1, <2>2, <3>1 DEF PlaceAgrees
  <2> QED BY <1>5, <2>3, <2>4, <2>5, <2>6, <2>7, <2>8, <2>9, <2>10, <2>11 DEF Moves
<1>6. CASE Operates(t)
  <2>1. /\ key' = key /\ mutex' = mutex /\ prev' = prev /\ cur' = cur /\ it' = it /\ pc[t] = "valid"
        /\ pc'[t] \in {"unlock", "relock"} /\ call[t] \in Calls
        /\ \E r \in {"true", "false"} : call'[t] = [call[t] EXCEPT !.ret = r]
    BY <1>6, OperatesKeep
  <2>2. call'[t].ret # "pending" /\ call'[t].key = call[t].key /\ call'[t] # Set!None
    BY <2>1 DEF Calls, Set!None
  <2>3. Shared \subseteq Shared'
    BY <2>1, SharedStep DEF Return, Leave
  <2> QED BY <1>3, <2>1, <2>2, <2>3 DEF PlaceAgrees
<1>7. CASE Invoke(t)
  <2>1. pc[t] = "idle" /\ pc'[t] = "start" /\ prev' = prev /\ cur' = cur /\ it' = it
        /\ \E o \in Set!Ops, k \in Keys : call'[t] = [op |-> o, key |-> k, ret |-> "pending"]
    BY <1>1, <1>7 DEF Invoke, Call, Goto
  <2>2. call'[t] # Set!None /\ call'[t].ret = "pending"
    BY <2>1 DEF Set!None, Set!Ops
  <2>3. Shared' = Shared
    BY <2>1, SharedStep DEF Return, Leave, Adds, list_add
  <2> QED BY <1>3, <2>1, <2>2, <2>3 DEF PlaceAgrees
<1>8. CASE Return(t)
  <2>1. /\ pc[t] = "return" /\ pc'[t] = "idle" /\ prev'[t] = Head /\ cur'[t] = Head /\ it' = it
        /\ call'[t] = Set!None
    BY <1>1, <1>8 DEF Return, Leave, Goto
  <2>2. Set!None.ret = "pending"
    BY DEF Set!None
  <2> QED BY <1>3, <2>1, <2>2 DEF PlaceAgrees
<1> QED BY <1>5, <1>6, <1>7, <1>8, ActsSplit

\* The two nodes stay linked until the thread that validated them gives the locks back.
LEMMA ValidatedStep ==
  ASSUME Inv, NEW t \in Threads, Acts(t)
  PROVE  ValidatedStays'
<1>1. next \in Links /\ unused \subseteq Nodes /\ unused' \subseteq Nodes /\ Linked' = NodesFrom({})'
      /\ Head \notin Nodes /\ pc \in [Threads -> Stages]
  BY Types, Ends, KnownStay DEF Linked
<1>2. ASSUME NEW u \in Threads, u # t, pc'[u] = "valid"
      PROVE  prev'[u] \in Linked' \cup {Head} /\ next'[prev'[u]] = cur'[u]
  <2>1. pc[u] = "valid" /\ prev'[u] = prev[u] /\ cur'[u] = cur[u]
    BY <1>2, OthersStay
  <2>2. prev[u] \in Linked \cup {Head} /\ next[prev[u]] = cur[u] /\ mutex[prev[u]] = u
    BY <2>1, WhenValid
  <2>3. prev[u] \in AllNodes \ (unused \cup unused')
    BY <1>1, <2>2, SharedFacts, KnownStay DEF AllNodes
  <2>4. CASE Adds(t)
    <3>1. mutex[prev[t]] = t /\ node[t] \in Nodes \ Shared
      BY <2>4, MembersStep, WhenValid, SharedStep
    <3>2. prev[u] # prev[t] /\ prev[u] # node[t]
      BY <1>1, <1>2, <2>2, <3>1, SharedFacts
    <3>3. next'[prev[u]] = next[prev[u]]
      BY <1>1, <2>3, <2>4, <3>2, MembersStep DEF Links
    <3> QED BY <2>1, <2>2, <2>4, <3>3, ListStep
  <2>5. CASE Removes(t)
    <3>1. mutex[prev[t]] = t /\ mutex[cur[t]] = t
      BY <2>5, MembersStep, WhenValid
    <3>2. prev[u] # prev[t] /\ prev[u] # cur[t]
      BY <1>2, <2>2, <3>1
    <3>3. next'[prev[u]] = next[prev[u]]
      BY <1>1, <2>3, <2>5, <3>2, MembersStep DEF Links
    <3> QED BY <2>1, <2>2, <2>5, <3>2, <3>3, ListStep
  <2>6. CASE ~Adds(t) /\ ~Removes(t)
    BY <2>1, <2>2, <2>3, <2>6, MembersStep, ListStep
  <2> QED BY <2>4, <2>5, <2>6
<1>3. ASSUME pc'[t] = "valid" PROVE prev'[t] \in Linked' \cup {Head} /\ next'[prev'[t]] = cur'[t]
  <2>1. list_validate(t)
    <3>1. ~Invoke(t) /\ ~Return(t) /\ ~Operates(t)
      BY <1>1, <1>3, OperatesKeep DEF Invoke, Call, Return, Leave, Goto
    <3>2. Moves(t)
      BY <3>1, ActsSplit
    <3> QED BY <1>1, <1>3, <3>2 DEF Moves, Begin, Advance, LockPrev, LockCur, RetryPrev, RetryCur, UnlockFirst,
      UnlockPrev, UnlockCur, Goto
  <2>2. /\ pc[t] = "validate" /\ UNCHANGED <<key, next, prev, cur>>
        /\ it[t] = prev[t] /\ next[it[t]] = cur[t]
    BY <1>1, <1>3, <2>1 DEF list_validate, Goto
  <2>3. prev[t] \in Shared \cup {Head} /\ (prev[t] \in NodesFrom({it[t]}) => prev[t] \in Linked)
    BY <2>2 DEF Inv, PlaceAgrees
  <2>4. prev[t] \in Nodes => prev[t] \in NodesFrom({it[t]})
    BY <2>2, Ends DEF NodesFrom
  <2>5. prev[t] \in Linked \cup {Head}
    BY <2>3, <2>4, SharedFacts
  <2>6. Linked' = Linked
    BY <2>2 DEF Linked, NodesFrom
  <2> QED BY <2>2, <2>5, <2>6
<1> QED BY <1>1, <1>2, <1>3 DEF ValidatedStays

LEMMA TypeStep ==
  ASSUME Inv, NEW t \in Threads, Acts(t)
  PROVE  TypeOK'
<1> DEFINE Values == Keys \cup {INT_MIN, INT_MAX}
<1>1. /\ key \in [AllNodes -> Values] /\ next \in [AllNodes -> AllNodes \cup {NULL}]
      /\ mutex \in [AllNodes -> Threads \cup {Nobody}] /\ unused' \subseteq Nodes
      /\ prev \in [Threads -> AllNodes] /\ cur \in [Threads -> AllNodes]
      /\ node \in [Threads -> AllNodes] /\ pc \in [Threads -> Stages] /\ it \in [Threads -> AllNodes]
      /\ call \in [Threads -> {Set!None} \cup Calls]
      /\ Head \in AllNodes /\ Tail \in AllNodes /\ Nodes \subseteq AllNodes /\ unused \subseteq Nodes
  BY Types, KnownStay DEF Links, AllNodes
<1>2. PlaceAgrees(t)' /\ Shared' \cup {Head, Tail} \subseteq AllNodes
  BY <1>1, KeepsItsPlace DEF Shared
<1>3. prev'[t] \in AllNodes /\ cur'[t] \in AllNodes /\ it'[t] \in AllNodes
  BY <1>2 DEF PlaceAgrees
<1> HIDE DEF Values
<1>4. CASE Invoke(t)
  <2>1. PICK o \in Set!Ops, k \in Keys :
          /\ call' = [call EXCEPT ![t] = [op |-> o, key |-> k, ret |-> "pending"]]
          /\ \/ UNCHANGED <<node, key, mutex>>
             \/ \E n \in unused : /\ node' = [node EXCEPT ![t] = n]
                                  /\ key' = [key EXCEPT ![n] = k]
                                  /\ mutex' = [mutex EXCEPT ![n] = Nobody]
    BY <1>4 DEF Invoke, Call
  <2>2. /\ call' \in [Threads -> {Set!None} \cup Calls] /\ UNCHANGED <<next, prev, cur, it>>
        /\ k \in Values /\ pc' \in [Threads -> Stages]
    BY <1>1, <1>4, <2>1 DEF Calls, Values, Invoke, Call, Goto, Stages
  <2>3. node' \in [Threads -> AllNodes] /\ key' \in [AllNodes -> Values]
        /\ mutex' \in [AllNodes -> Threads \cup {Nobody}]
    BY <1>1, <2>1, <2>2
  <2> QED BY <1>1, <2>2, <2>3 DEF TypeOK, ListTypeOK, Calls, Values
<1>5. CASE Moves(t)
  <2>1. mutex' \in [AllNodes -> Threads \cup {Nobody}] /\ pc' \in [Threads -> Stages]
    <3>1. CASE Begin(t) \/ Advance(t) \/ list_validate(t)
      <4>1. mutex' = mutex
        BY <3>1 DEF Begin, Advance, list_validate
      <4>2. pc' = pc \/ \E l \in {"walk", "valid", "retry"} : pc' = [pc EXCEPT ![t] = l]
        BY <3>1 DEF Begin, Advance, list_validate, Goto
      <4> QED BY <1>1, <4>1, <4>2 DEF Stages
    <3>2. CASE LockPrev(t) \/ LockCur(t)
      <4>1. \E n \in AllNodes : mutex' = [mutex EXCEPT ![n] = t]
        BY <1>1, <3>2 DEF LockPrev, LockCur, Lock
      <4>2. \E l \in Stages : pc' = [pc EXCEPT ![t] = l]
        BY <3>2 DEF LockPrev, LockCur, Goto, Stages
      <4> QED BY <1>1, <4>1, <4>2
    <3>3. CASE RetryPrev(t) \/ RetryCur(t) \/ UnlockFirst(t) \/ UnlockCur(t)
      BY <1>1, <3>3 DEF RetryPrev, RetryCur, UnlockFirst, UnlockPrev, UnlockCur, Unlock, Goto, Stages
    <3> QED BY <1>5, <3>1, <3>2, <3>3 DEF Moves
  <2>2. /\ \E n : prev' = [prev EXCEPT ![t] = n]
        /\ \E n : cur' = [cur EXCEPT ![t] = n]
        /\ \E n : it' = [it EXCEPT ![t] = n]
    <3>1. /\ prev = [prev EXCEPT ![t] = prev[t]] /\ cur = [cur EXCEPT ![t] = cur[t]]
          /\ it = [it EXCEPT ![t] = it[t]]
      BY <1>1
    <3> QED BY <1>5, <3>1 DEF Moves, Begin, Advance, LockPrev, LockCur, list_validate, RetryPrev, RetryCur,
      UnlockFirst, UnlockPrev, UnlockCur
  <2>3. prev' \in [Threads -> AllNodes] /\ cur' \in [Threads -> AllNodes] /\ it' \in [Threads -> AllNodes]
    BY <1>1, <1>3, <2>2
  <2> QED BY <1>1, <1>5, <2>1, <2>3, MovesKeep DEF TypeOK, ListTypeOK, Calls, Values
<1>6. CASE Operates(t)
  <2>1. UNCHANGED <<key, mutex, unused, prev, cur, node, it>> /\ pc'[t] \in Stages
    BY <1>6, OperatesKeep DEF Stages
  <2>2. call' \in [Threads -> {Set!None} \cup Calls]
    <3>1. PICK r \in {"true", "false"} : call' = [call EXCEPT ![t].ret = r]
      BY <1>6, OperatesKeep
    <3>2. [call[t] EXCEPT !.ret = r] \in Calls
      BY <1>6, OperatesKeep DEF Calls
    <3> QED BY <1>1, <3>1, <3>2
  <2>3. next' \in [AllNodes -> AllNodes \cup {NULL}]
    BY <1>1, <1>6 DEF Operates, list_add, list_remove, list_contains, AddHere, RemoveHere
  <2>4. pc' \in [Threads -> Stages]
    BY <1>1, <1>6 DEF Operates, list_add, list_remove, list_contains, AddHere, RemoveHere, Answer, Goto, Stages
  <2> QED BY <1>1, <2>1, <2>2, <2>3, <2>4 DEF TypeOK, ListTypeOK, Calls, Values
<1>7. CASE Return(t)
  <2>1. \E ns : Forget(ns)
    BY <1>7 DEF Return
  <2>2. key' \in [AllNodes -> Values] /\ next' \in [AllNodes -> AllNodes \cup {NULL}]
    BY <1>1, <2>1 DEF Forget, Values
  <2>3. /\ mutex' = mutex /\ prev' \in [Threads -> AllNodes] /\ cur' \in [Threads -> AllNodes] /\ it' = it
        /\ node' \in [Threads -> AllNodes] /\ call' \in [Threads -> {Set!None} \cup Calls]
        /\ pc' \in [Threads -> Stages]
    BY <1>1, <1>7 DEF Return, Leave, Goto, Stages
  <2> QED BY <1>1, <2>2, <2>3 DEF TypeOK, ListTypeOK, Calls, Values
<1> QED BY <1>4, <1>5, <1>6, <1>7, ActsSplit

LEMMA InvInitially == Init => Inv
<1> SUFFICES ASSUME Init PROVE Inv
  OBVIOUS
<1>1. /\ key = [n \in AllNodes |-> IF n = Tail THEN INT_MAX ELSE INT_MIN]
      /\ next = [n \in AllNodes |-> IF n = Tail THEN NULL ELSE Tail]
      /\ unused = Nodes
      /\ \A t \in Threads : /\ pc[t] = "idle" /\ call[t] = Set!None
                            /\ prev[t] = Head /\ cur[t] = Head /\ it[t] = Head
      /\ Head \in AllNodes /\ Tail \in AllNodes
  BY DEF Init, ListInit, AllNodes
<1>2. \A t \in Threads : Aside(t) = {}
  BY <1>1 DEF Aside, Set!None
<1>3. key[Head] = INT_MIN /\ key[Tail] = INT_MAX /\ next[Head] = Tail
      /\ \A n \in Nodes : next[n] = Tail
  BY <1>1, Ends DEF AllNodes
<1>4. INT_MIN \in Int /\ INT_MAX \in Int /\ INT_MIN < INT_MAX
  BY ListAssumption
<1>5. IsList({}, key, next)
  BY <1>3, <1>4 DEF IsList
<1>6. Linked = {}
  BY <1>5, Fine!WalkFindsList, SameLists, ListAssumption DEF Linked
<1>7. TypeOK
  BY DEF Init, ListInit, TypeOK, ListTypeOK, Stages, AllNodes
<1>8. OneOwner /\ LinksAgree
  BY <1>1, <1>2, <1>3, <1>4 DEF OneOwner, LinksAgree
<1>9. KeysAgree
  BY <1>1, <1>3 DEF KeysAgree, Set!None
<1>10. ASSUME NEW t \in Threads PROVE PlaceAgrees(t)
  <2>1. /\ pc[t] = "idle" /\ call[t] = Set!None /\ call[t].ret = "pending"
        /\ prev[t] = Head /\ cur[t] = Head /\ it[t] = Head
    BY <1>1 DEF Set!None
  <2> QED BY <2>1 DEF PlaceAgrees
<1>11. ValidatedStays
  BY <1>1 DEF ValidatedStays
<1> QED BY <1>5, <1>6, <1>7, <1>8, <1>9, <1>10, <1>11 DEF Inv

LEMMA InvStep == Inv /\ [Next]_vars => Inv'
<1> SUFFICES ASSUME Inv, [Next]_vars PROVE Inv'
  OBVIOUS
<1>1. ASSUME NEW t \in Threads, Acts(t) PROVE Inv'
  <2>1. TypeOK' /\ KeysAgree' /\ LinksAgree' /\ OneOwner' /\ ValidatedStays'
    BY <1>1, TypeStep, KeysStep, LinksStep, SharedStep, ValidatedStep
  <2>2. IsList(Linked, key, next)'
    BY <1>1, ListStep DEF IsList
  <2>3. \A u \in Threads : PlaceAgrees(u)'
    BY <1>1, OthersKeepPlace, KeepsItsPlace
  <2> QED BY <2>1, <2>2, <2>3 DEF Inv
<1>2. CASE UNCHANGED vars
  <2>1. UNCHANGED <<key, next, mutex, unused, pc, prev, cur, node, call, it>>
    BY <1>2 DEF vars, listVars
  <2>2. \A t \in Threads : Aside(t)' = Aside(t)
    BY <2>1 DEF Aside
  <2>3. Shared' = Shared /\ Linked' = Linked
    BY <2>1, <2>2 DEF Shared, Linked, NodesFrom
  <2>4. TypeOK' /\ OneOwner' /\ KeysAgree' /\ LinksAgree'
    BY <2>1, <2>2, <2>3 DEF Inv, TypeOK, ListTypeOK, OneOwner, KeysAgree, LinksAgree
  <2>5. ValidatedStays'
    BY <2>1, <2>3 DEF Inv, ValidatedStays, Linked
  <2>6. IsList(Linked, key, next)'
    BY <2>1, <2>3 DEF Inv, IsList
  <2>7. ASSUME NEW t \in Threads PROVE PlaceAgrees(t)'
    <3>1. NodesFrom({it[t]})' = NodesFrom({it[t]})
      BY <2>1 DEF NodesFrom
    <3>2. PlaceAgrees(t)
      BY DEF Inv
    <3>3. (pc[t] = "validate" /\ prev[t] \in NodesFrom({it[t]}) => prev[t] \in Linked)'
      BY <2>1, <2>3, <3>1, <3>2 DEF PlaceAgrees
    <3> QED BY <2>1, <2>3, <3>2, <3>3 DEF PlaceAgrees
  <2> QED BY <2>4, <2>5, <2>6, <2>7 DEF Inv
<1> QED BY <1>1, <1>2 DEF Next, Acts

\* The nodes are well formed, also those that have been taken out of the list, and what a
\* thread has validated stays so while it holds the two locks (list_opt.cpp:45-54,73-90).
THEOREM Invariance == Spec => []Inv
BY InvInitially, InvStep, PTL DEF Spec

-----------------------------------------------------------------------------
\* At the place that was validated the key is either in cur or nowhere.
LEMMA FoundIsMember ==
  ASSUME Inv, NEW t \in Threads, pc[t] = "valid"
  PROVE  Found(t) <=> call[t].key \in Keyset
<1> DEFINE x == call[t].key
           p == prev[t]
<1>1. p \in Linked \cup {Head} /\ next[p] = cur[t] /\ key[p] < x /\ x <= key[next[p]]
  BY WhenValid
<1>2. x \in Int /\ x # key[Tail]
  BY CallFacts, ListAssumption DEF Inv, KeysAgree
<1>3. key \in KeysOfNodes /\ IsList(Linked, key, next)
  BY Types DEF Inv
<1> HIDE DEF x, p
<1>4. key[next[p]] = x <=> \E n \in Linked : key[n] = x
  <2>1. p \in Linked \cup {Head} /\ key[p] < x /\ x <= key[next[p]] /\ x \in Int /\ x # key[Tail]
    BY <1>1, <1>2
  <2> QED BY <1>3, <2>1, Fine!PlaceOfKey, SameLists, ListAssumption
<1>5. x \in Keyset <=> \E n \in Linked : key[n] = x
  BY DEF Keyset, Linked
<1>6. key[cur[t]] = x <=> x \in Keyset
  BY <1>1, <1>4, <1>5
<1> QED BY <1>6 DEF Found, x

\* The set changes only when a node is linked or unlinked.
LEMMA SetStep ==
  ASSUME Inv, NEW t \in Threads, Acts(t)
  PROVE  /\ Adds(t) => Keyset' = Keyset \cup {call[t].key}
         /\ Removes(t) => Keyset' = Keyset \ {call[t].key}
         /\ ~Adds(t) /\ ~Removes(t) => Keyset' = Keyset
<1>1. Keyset = {key[n] : n \in Linked} /\ Keyset' = {key'[n] : n \in Linked'}
  BY DEF Keyset, Linked
<1>2. CASE Adds(t)
  <2>1. Linked' = Linked \cup {node[t]} /\ key' = key
    BY <1>2, ListStep, MembersStep
  <2>2. key[node[t]] = call[t].key
    BY <1>2, OperatesKeep DEF Inv, KeysAgree, Adds, list_add, AddHere, Operates
  <2> QED BY <1>1, <1>2, <2>1, <2>2, MembersStep
<1>3. CASE Removes(t)
  <2>1. Linked' = Linked \ {cur[t]} /\ cur[t] \in Linked /\ key' = key /\ key[cur[t]] = call[t].key
    BY <1>3, ListStep, MembersStep DEF Removes, Found
  <2>2. \A n \in Linked : key[n] = call[t].key => n = cur[t]
    BY <2>1 DEF Inv, IsList
  <2> QED BY <1>1, <1>3, <2>1, <2>2, MembersStep
<1>4. CASE ~Adds(t) /\ ~Removes(t)
  <2>1. Linked' = Linked
    BY <1>4, ListStep
  <2>2. \A n \in Linked : key'[n] = key[n]
    BY SharedFacts, KnownStay, MembersStep DEF AllNodes
  <2> QED BY <1>1, <1>4, <2>1, <2>2
<1> QED BY <1>2, <1>3, <1>4

\* An operation takes effect on the set when it has validated its place.
LEMMA TakesEffect ==
  ASSUME Inv, NEW t \in Threads, Operates(t)
  PROVE  Set!Effect(t)
<1>1. /\ pc[t] = "valid" /\ call[t] # Set!None /\ call[t].ret = "pending" /\ Acts(t)
      /\ Found(t) <=> call[t].key \in Keyset
  BY OperatesKeep, FoundIsMember DEF Inv, PlaceAgrees, Operates, Acts, Step
<1>2. CASE list_add(t)
  <2>1. /\ call[t].op = "add"
        /\ call' = [call EXCEPT ![t].ret = IF ~Found(t) THEN "true" ELSE "false"]
    BY <1>2 DEF list_add, AddHere, Answer
  <2>2. Keyset' = Keyset \cup {call[t].key}
    BY <1>1, <1>2, <2>1, SetStep DEF Adds, Removes, list_remove, RemoveHere
  <2> QED BY <1>1, <2>1, <2>2 DEF Set!Effect, Set!Answer, Set!Left
<1>3. CASE list_remove(t)
  <2>1. /\ call[t].op = "remove"
        /\ call' = [call EXCEPT ![t].ret = IF Found(t) THEN "true" ELSE "false"]
    BY <1>3 DEF list_remove, RemoveHere, Answer
  <2>2. Keyset' = Keyset \ {call[t].key}
    BY <1>1, <1>3, <2>1, SetStep DEF Adds, Removes, list_add, AddHere
  <2> QED BY <1>1, <2>1, <2>2 DEF Set!Effect, Set!Answer, Set!Left
<1>4. CASE list_contains(t)
  <2>1. /\ call[t].op = "contains"
        /\ call' = [call EXCEPT ![t].ret = IF Found(t) THEN "true" ELSE "false"]
    BY <1>4 DEF list_contains, Answer
  <2>2. Keyset' = Keyset
    BY <1>1, <2>1, SetStep DEF Adds, Removes, list_add, list_remove, AddHere, RemoveHere
  <2> QED BY <1>1, <2>1, <2>2 DEF Set!Effect, Set!Answer, Set!Left
<1> QED BY <1>2, <1>3, <1>4 DEF Operates

\* The optimistic list implements the abstract set: every operation takes effect at one
\* moment between its call and its return, although the walks meet nodes that have been
\* taken out of the list (list_opt.cpp:57-160).
THEOREM Linearizable == Spec => IsASet
<1>1. Init => Set!SetInit
  <2> SUFFICES ASSUME Init PROVE Set!SetInit
    OBVIOUS
  <2>1. IsList({}, key, next)
    BY Ends, ListAssumption DEF Init, ListInit, IsList, AllNodes
  <2>2. Keyset = {}
    BY <2>1, Fine!WalkFindsList, SameLists, ListAssumption DEF Keyset
  <2> QED BY <2>2 DEF Set!SetInit, Init, ListInit
<1>2. Inv /\ [Next]_vars => [Set!SetNext]_(Set!setVars)
  <2> SUFFICES ASSUME Inv, [Next]_vars PROVE [Set!SetNext]_(Set!setVars)
    OBVIOUS
  <2>1. ASSUME NEW t \in Threads, Invoke(t) PROVE Set!Invoke(t)
    <3>1. pc[t] = "idle" /\ call[t] = Set!None
      BY <2>1 DEF Invoke, Call, Inv, PlaceAgrees
    <3>2. Keyset' = Keyset
      BY <2>1, <3>1, SetStep DEF Acts, Adds, Removes, list_add, list_remove
    <3>3. \E o \in Set!Ops, k \in Keys :
            call' = [call EXCEPT ![t] = [op |-> o, key |-> k, ret |-> "pending"]]
      BY <2>1 DEF Invoke, Call
    <3> QED BY <3>1, <3>2, <3>3 DEF Set!Invoke
  <2>2. ASSUME NEW t \in Threads, Return(t) PROVE Set!Return(t)
    <3>1. pc[t] = "return" /\ call' = [call EXCEPT ![t] = Set!None]
      BY <2>2 DEF Return, Leave
    <3>2. Keyset' = Keyset
      BY <2>2, <3>1, SetStep DEF Acts, Step, Adds, Removes, list_add, list_remove
    <3>3. call[t].ret # "pending"
      BY <3>1 DEF Inv, PlaceAgrees
    <3> QED BY <3>1, <3>2, <3>3 DEF Set!Return
  <2>3. ASSUME NEW t \in Threads, Moves(t) PROVE UNCHANGED Set!setVars
    <3>1. call' = call
      BY <2>3, MovesKeep
    <3>2. ~Adds(t) /\ ~Removes(t)
      <4>1. ASSUME Operates(t) PROVE FALSE
        <5>1. PICK r \in {"true", "false"} : call'[t] = [call[t] EXCEPT !.ret = r]
          BY <4>1, OperatesKeep
        <5> QED BY <3>1, <4>1, <5>1, OperatesKeep DEF Calls
      <4> QED BY <4>1 DEF Adds, Removes, Operates
    <3>3. Keyset' = Keyset
      BY <2>3, <3>2, SetStep DEF Acts, Moves, Step
    <3> QED BY <3>1, <3>3 DEF Set!setVars
  <2>4. ASSUME NEW t \in Threads, Operates(t) PROVE Set!Effect(t)
    BY <2>4, TakesEffect
  <2>5. CASE UNCHANGED vars
    BY <2>5 DEF vars, listVars, Set!setVars, Keyset, NodesFrom
  <2>6. ASSUME NEW t \in Threads, Acts(t) PROVE [Set!SetNext]_(Set!setVars)
    BY <2>1, <2>2, <2>3, <2>4, <2>6, ActsSplit DEF Set!SetNext
  <2> QED BY <2>5, <2>6 DEF Next, Acts
<1> QED BY <1>1, <1>2, Invariance, PTL DEF Spec, IsASet, Set!SetSpec
=============================================================================
