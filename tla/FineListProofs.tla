---------------------------- MODULE FineListProofs ----------------------------
(***************************************************************************)
(* The hand-over-hand list is a set, for every number of threads, keys and *)
(* nodes: the linked nodes stay a sorted list, no thread uses a freed      *)
(* node, and every operation takes effect between its call and its return. *)
(***************************************************************************)
EXTENDS FineList, TLAPS

(***************************************************************************)
(* Sorted linked lists: what a step of list_add or of list_remove makes of *)
(* one (list_fine.cpp:68-69,96), and where a key can be in it.             *)
(***************************************************************************)
\* The keys and the next pointers of all nodes.
KeysOfNodes == [AllNodes -> Int]
Links == [AllNodes -> AllNodes \cup {NULL}]

\* The ends are not among the nodes that come and go.
LEMMA Ends == Head \notin Nodes /\ Tail \notin Nodes /\ Head # Tail
BY ListAssumption

\* A node outside the list may change.
LEMMA ListDependsOnIts ==
  ASSUME NEW L, NEW k, NEW nx, IsList(L, k, nx), NEW k2, NEW nx2,
         \A m \in L \cup {Head, Tail} : k2[m] = k[m],
         \A m \in L \cup {Head} : nx2[m] = nx[m]
  PROVE  IsList(L, k2, nx2)
<1>1. /\ L \subseteq Nodes
      /\ \A m \in L \cup {Head} : nx[m] \in L \cup {Tail}
  BY DEF IsList
<1>2. ASSUME NEW S \in SUBSET Nodes, \A m \in S \cup {Head} : nx2[m] \in S \cup {Tail}
      PROVE  L \subseteq S
  <2>1. \A m \in (S \cap L) \cup {Head} : nx[m] \in (S \cap L) \cup {Tail}
    BY <1>1, <1>2
  <2>2. S \cap L \in SUBSET Nodes
    OBVIOUS
  <2>3. L \subseteq S \cap L
    BY <2>1, <2>2 DEF IsList
  <2> QED BY <2>3
<1>3. \A m \in L \cup {Head} :
        /\ nx2[m] \in L \cup {Tail}
        /\ k2[m] < k2[nx2[m]]
        /\ \A n \in L \cup {Head, Tail} : k2[n] <= k2[m] \/ k2[nx2[m]] <= k2[n]
  BY DEF IsList
<1>4. \A m, n \in L \cup {Head, Tail} : k2[m] = k2[n] => m = n
  BY DEF IsList
<1> QED BY <1>1, <1>2, <1>3, <1>4 DEF IsList

\* A node linked between two neighbours.
LEMMA LinkKeepsList ==
  ASSUME NEW L, NEW k \in KeysOfNodes, NEW nx \in Links, IsList(L, k, nx),
         NEW p \in L \cup {Head}, NEW n \in Nodes \ L, k[p] < k[n], k[n] < k[nx[p]]
  PROVE  IsList(L \cup {n}, k, [nx EXCEPT ![p] = n, ![n] = nx[p]])
<1> DEFINE c == nx[p]
           M == L \cup {n}
           new == [nx EXCEPT ![p] = n, ![n] = c]
<1>1. /\ L \subseteq Nodes /\ p \in AllNodes /\ n \in AllNodes /\ p # n
      /\ c \in L \cup {Tail} /\ n \notin {Head, Tail} /\ p # Tail
      /\ \A m \in AllNodes : k[m] \in Int
  BY Ends DEF IsList, AllNodes, KeysOfNodes
<1>2. /\ new[p] = n /\ new[n] = c
      /\ \A m \in L \cup {Head} : m # p => new[m] = nx[m]
  BY <1>1 DEF Links, AllNodes
<1>3. \A m \in L \cup {Head} :
        /\ nx[m] \in L \cup {Tail}
        /\ k[m] < k[nx[m]]
        /\ \A i \in L \cup {Head, Tail} : k[i] <= k[m] \/ k[nx[m]] <= k[i]
  BY DEF IsList
<1>4. \A m, i \in L \cup {Head, Tail} : k[m] = k[i] => m = i
  BY DEF IsList
<1>5. \A i \in L \cup {Head, Tail} : k[i] \in Int /\ k[i] # k[n] /\ (k[i] <= k[p] \/ k[c] <= k[i])
  BY <1>1, <1>3 DEF AllNodes
<1>6. k[n] \in Int /\ k[p] < k[n] /\ k[n] < k[c]
  BY <1>1
<1> HIDE DEF c, new
<1>7. ASSUME NEW m \in M \cup {Head}
      PROVE  /\ new[m] \in M \cup {Tail}
             /\ k[m] < k[new[m]]
             /\ \A i \in M \cup {Head, Tail} : k[i] <= k[m] \/ k[new[m]] <= k[i]
  <2>1. CASE m = p
    BY <1>1, <1>2, <1>5, <1>6, <2>1
  <2>2. CASE m = n
    BY <1>1, <1>2, <1>5, <1>6, <2>2
  <2>3. CASE m # p /\ m # n
    <3>1. m \in L \cup {Head} /\ new[m] = nx[m]
      BY <1>2, <2>3
    <3>2. k[n] <= k[m] \/ k[nx[m]] <= k[n]
      <4>1. CASE k[c] <= k[m]
        BY <1>1, <1>5, <1>6, <3>1, <4>1 DEF AllNodes
      <4>2. CASE k[m] <= k[p]
        <5>1. k[m] < k[p]
          BY <1>4, <1>5, <2>3, <3>1, <4>2
        <5>2. k[nx[m]] <= k[p]
          BY <1>3, <1>5, <3>1, <5>1
        <5> QED BY <1>3, <1>5, <1>6, <3>1, <5>2
      <4> QED BY <1>5, <3>1, <4>1, <4>2
    <3> QED BY <1>3, <3>1, <3>2
  <2> QED BY <2>1, <2>2, <2>3
<1>8. \A m, i \in M \cup {Head, Tail} : k[m] = k[i] => m = i
  BY <1>4, <1>5
<1>9. ASSUME NEW S \in SUBSET Nodes, \A m \in S \cup {Head} : new[m] \in S \cup {Tail}
      PROVE  M \subseteq S
  <2>1. p \in S \cup {Head} => n \in S /\ c \in S \cup {Tail}
    BY <1>1, <1>2, <1>9
  <2>2. \A m \in (S \cap L) \cup {Head} : nx[m] \in (S \cap L) \cup {Tail}
    BY <1>2, <1>3, <1>9, <2>1 DEF c
  <2>3. L \subseteq S \cap L
    BY <2>2 DEF IsList
  <2> QED BY <2>1, <2>3
<1> QED BY <1>1, <1>7, <1>8, <1>9 DEF IsList, new, c

\* A node taken out from behind another one.
LEMMA UnlinkKeepsList ==
  ASSUME NEW L, NEW k \in KeysOfNodes, NEW nx \in Links, IsList(L, k, nx),
         NEW p \in L \cup {Head}, nx[p] \in L
  PROVE  IsList(L \ {nx[p]}, k, [nx EXCEPT ![p] = nx[nx[p]]])
<1> DEFINE c == nx[p]
           M == L \ {c}
           new == [nx EXCEPT ![p] = nx[c]]
<1>1. /\ L \subseteq Nodes /\ p \in AllNodes /\ c \in L /\ c \notin {Head, Tail} /\ p # Tail
      /\ \A m \in L \cup {Head, Tail} : k[m] \in Int
  BY Ends DEF IsList, AllNodes, KeysOfNodes
<1>2. new[p] = nx[c] /\ \A m \in L \cup {Head} : m # p => new[m] = nx[m]
  BY <1>1 DEF Links, AllNodes
<1>3. \A m \in L \cup {Head} :
        /\ nx[m] \in L \cup {Tail}
        /\ k[m] < k[nx[m]]
        /\ \A i \in L \cup {Head, Tail} : k[i] <= k[m] \/ k[nx[m]] <= k[i]
  BY DEF IsList
<1>4. \A m, i \in L \cup {Head, Tail} : k[m] = k[i] => m = i
  BY DEF IsList
<1>5. k[p] < k[c] /\ k[c] < k[nx[c]] /\ nx[c] \in L \cup {Tail} /\ nx[c] # c
  BY <1>1, <1>3
<1>6. ASSUME NEW m \in L \cup {Head}, nx[m] = c PROVE m = p
  <2>1. k[p] <= k[m] \/ k[c] <= k[p]
    BY <1>3, <1>6
  <2>2. k[m] <= k[p] \/ k[c] <= k[m]
    BY <1>3, <1>6
  <2>3. k[m] < k[c]
    BY <1>3, <1>6
  <2>4. k[m] = k[p]
    BY <1>1, <1>5, <2>1, <2>2, <2>3
  <2> QED BY <1>4, <2>4
<1> HIDE DEF c, new
<1>7. ASSUME NEW m \in M \cup {Head}
      PROVE  /\ new[m] \in M \cup {Tail}
             /\ k[m] < k[new[m]]
             /\ \A i \in M \cup {Head, Tail} : k[i] <= k[m] \/ k[new[m]] <= k[i]
  <2>1. CASE m = p
    <3>1. new[m] \in M \cup {Tail} /\ k[m] < k[new[m]]
      BY <1>1, <1>2, <1>5, <2>1
    <3>2. ASSUME NEW i \in M \cup {Head, Tail} PROVE k[i] <= k[m] \/ k[new[m]] <= k[i]
      <4>1. i # c /\ i \in L \cup {Head, Tail}
        BY <1>1
      <4>2. k[i] <= k[p] \/ k[c] <= k[i]
        BY <1>3, <4>1 DEF c
      <4>3. k[i] <= k[c] \/ k[nx[c]] <= k[i]
        BY <1>1, <1>3, <4>1
      <4>4. k[i] # k[c]
        BY <1>1, <1>4, <4>1
      <4> QED BY <1>1, <1>2, <2>1, <4>1, <4>2, <4>3, <4>4
    <3> QED BY <3>1, <3>2
  <2>2. CASE m # p
    <3>1. m \in L \cup {Head} /\ new[m] = nx[m] /\ nx[m] # c
      BY <1>2, <1>6, <2>2
    <3> QED BY <1>3, <3>1
  <2> QED BY <2>1, <2>2
<1>8. \A m, i \in M \cup {Head, Tail} : k[m] = k[i] => m = i
  BY <1>4
<1>9. ASSUME NEW S \in SUBSET Nodes, \A m \in S \cup {Head} : new[m] \in S \cup {Tail}
      PROVE  M \subseteq S
  <2>1. CASE p \in S \cup {Head}
    <3>1. nx[c] \in S \cup {Tail}
      BY <1>2, <1>9, <2>1
    <3> DEFINE T == (S \cup {c}) \cap L
    <3>2. \A m \in T \cup {Head} : nx[m] \in T \cup {Tail}
      BY <1>1, <1>2, <1>3, <1>5, <1>9, <3>1 DEF c
    <3>3. T \in SUBSET Nodes
      BY <1>1
    <3>4. L \subseteq T
      BY <3>2, <3>3 DEF IsList
    <3> QED BY <3>4
  <2>2. CASE p \notin S \cup {Head}
    <3>1. \A m \in (S \cap L) \cup {Head} : nx[m] \in (S \cap L) \cup {Tail}
      BY <1>2, <1>3, <1>9, <2>2
    <3>2. L \subseteq S \cap L
      BY <3>1 DEF IsList
    <3> QED BY <2>2, <3>2
  <2> QED BY <2>1, <2>2
<1> QED BY <1>1, <1>7, <1>8, <1>9 DEF IsList, new, c

\* The walk from the head finds the nodes of the list, no more and no less.
LEMMA WalkFindsList ==
  ASSUME NEW L, IsList(L, key, next)
  PROVE  NodesFrom({}) = L
<1>1. L \subseteq Nodes /\ \A m \in L \cup {Head} : next[m] \in L \cup {Tail}
  BY DEF IsList
<1>2. ASSUME NEW n \in NodesFrom({}) PROVE n \in L
  BY <1>1, <1>2 DEF NodesFrom
<1>3. ASSUME NEW n \in L PROVE n \in NodesFrom({})
  BY <1>1, <1>3 DEF NodesFrom, IsList
<1> QED BY <1>2, <1>3

LEMMA WalkFindsListAfter ==
  ASSUME NEW L, IsList(L, key', next')
  PROVE  NodesFrom({})' = L
<1>1. L \subseteq Nodes /\ \A m \in L \cup {Head} : next'[m] \in L \cup {Tail}
  BY DEF IsList
<1>2. ASSUME NEW n \in NodesFrom({})' PROVE n \in L
  BY <1>1, <1>2 DEF NodesFrom
<1>3. ASSUME NEW n \in L PROVE n \in NodesFrom({})'
  BY <1>1, <1>3 DEF NodesFrom, IsList
<1> QED BY <1>2, <1>3

\* Where the walk for a key stops, the key is in the list if it is in the next node.
LEMMA PlaceOfKey ==
  ASSUME NEW L, NEW k \in KeysOfNodes, NEW nx, IsList(L, k, nx),
         NEW p \in L \cup {Head}, NEW x \in Int, k[p] < x, x <= k[nx[p]], x # k[Tail]
  PROVE  k[nx[p]] = x <=> \E n \in L : k[n] = x
<1>1. L \subseteq Nodes /\ nx[p] \in L \cup {Tail}
      /\ \A n \in L \cup {Head, Tail} : k[n] <= k[p] \/ k[nx[p]] <= k[n]
  BY DEF IsList
<1>2. \A n \in L \cup {Head, Tail} : k[n] \in Int
  BY <1>1 DEF KeysOfNodes, AllNodes
<1>3. ASSUME NEW n \in L, k[n] = x PROVE k[nx[p]] = x
  BY <1>1, <1>2, <1>3
<1> QED BY <1>1, <1>3

-----------------------------------------------------------------------------

\* What the other parts of the proof take from the type invariant.
LEMMA Types ==
  ASSUME Inv
  PROVE  /\ key \in KeysOfNodes /\ next \in Links
         /\ key \in [AllNodes -> Keys \cup {INT_MIN, INT_MAX}]
         /\ mutex \in [AllNodes -> Threads \cup {Nobody}]
         /\ unused \subseteq Nodes
         /\ prev \in [Threads -> AllNodes] /\ cur \in [Threads -> AllNodes]
         /\ node \in [Threads -> AllNodes] /\ pc \in [Threads -> Stages]
         /\ call \in [Threads -> {Set!None} \cup
                        [op : Set!Ops, key : Keys, ret : {"pending", "true", "false"}]]
<1>1. Keys \cup {INT_MIN, INT_MAX} \subseteq Int
  BY ListAssumption
<1> QED BY <1>1 DEF Inv, TypeOK, ListTypeOK, KeysOfNodes, Links

\* A thread with a call: its operation and its key.
LEMMA CallFacts ==
  ASSUME Inv, NEW t \in Threads, pc[t] # "idle"
  PROVE  /\ call[t] \in [op : Set!Ops, key : Keys, ret : {"pending", "true", "false"}]
         /\ call[t].key \in Keys /\ call[t].key \in Int
         /\ INT_MIN < call[t].key /\ call[t].key < INT_MAX
<1>1. call[t] # Set!None
  BY DEF Inv, LocksAgree
<1>2. call[t] \in [op : Set!Ops, key : Keys, ret : {"pending", "true", "false"}]
  BY <1>1, Types
<1>3. \A k \in Keys : k \in Int /\ INT_MIN < k /\ k < INT_MAX
  BY ListAssumption
<1> QED BY <1>2, <1>3

\* No step of thread t touches the locals of the others.
LEMMA OthersStay ==
  ASSUME Inv, NEW t \in Threads, Invoke(t) \/ LockHead(t) \/ LockCur(t) \/ Step(t),
         NEW u \in Threads, u # t
  PROVE  /\ pc'[u] = pc[u] /\ prev'[u] = prev[u] /\ cur'[u] = cur[u]
         /\ node'[u] = node[u] /\ call'[u] = call[u]
         /\ Aside(u)' = Aside(u)
<1>1. pc'[u] = pc[u] /\ call'[u] = call[u]
  BY Types DEF Invoke, Call, LockHead, LockCur, Step, Advance, list_add, list_remove, list_contains,
    AddHere, RemoveHere, Answer, UnlockPrev, UnlockCur, Free, Return, Leave, Goto
<1>2. prev'[u] = prev[u] /\ cur'[u] = cur[u] /\ node'[u] = node[u]
  BY Types DEF Invoke, Call, LockHead, LockCur, Step, Advance, list_add, list_remove, list_contains,
    AddHere, RemoveHere, Answer, UnlockPrev, UnlockCur, Free, Return, Leave
<1> QED BY <1>1, <1>2 DEF Aside, Removed

-----------------------------------------------------------------------------
\* The only steps that change the list.
Adds(t) == list_add(t) /\ ~Found(t)
Removes(t) == list_remove(t) /\ Found(t)

\* What a thread has between its locks: two neighbours in the list.
LEMMA BetweenLocks ==
  ASSUME Inv, NEW t \in Threads, pc[t] \in {"lock", "look"}
  PROVE  /\ prev[t] \in Linked \cup {Head} /\ prev[t] \in AllNodes
         /\ next[prev[t]] = cur[t] /\ cur[t] \in Linked \cup {Tail}
         /\ key[prev[t]] < call[t].key /\ key[prev[t]] < key[cur[t]]
         /\ Found(t) => cur[t] \in Linked
<1>1. prev[t] \in Linked \cup {Head} /\ next[prev[t]] = cur[t] /\ key[prev[t]] < call[t].key
  BY DEF Inv, LocksAgree
<1>2. cur[t] \in Linked \cup {Tail} /\ key[prev[t]] < key[cur[t]]
  BY <1>1 DEF Inv, IsList
<1>3. Found(t) => cur[t] # Tail
  BY CallFacts DEF Found, Inv, KeysAgree
<1> QED BY <1>1, <1>2, <1>3 DEF Linked, AllNodes

\* The node a thread has for itself comes from the memory, or from the list, and goes back.
LEMMA AsideStep ==
  ASSUME Inv, NEW t \in Threads, Invoke(t) \/ LockHead(t) \/ LockCur(t) \/ Step(t)
  PROVE  /\ Adds(t) => Aside(t) = {node[t]} /\ Aside(t)' = {} /\ unused' = unused
         /\ Removes(t) => Aside(t) = {} /\ Aside(t)' = {cur[t]} /\ unused' = unused
         /\ ~Adds(t) /\ ~Removes(t) => /\ unused' \cup Aside(t)' = unused \cup Aside(t)
                                       /\ unused' \cap Aside(t)' = {}
<1>0. /\ pc[t] \in {"idle", "start", "lock", "look"} <=> call[t].ret = "pending"
      /\ pc[t] = "idle" <=> call[t] = Set!None
      /\ unused \cap Aside(t) = {}
      /\ pc \in [Threads -> Stages] /\ cur \in [Threads -> AllNodes] /\ node \in [Threads -> AllNodes]
  BY Types DEF Inv, LocksAgree, OneOwner
<1>1. call[t] \in {Set!None} \cup [op : Set!Ops, key : Keys, ret : {"pending", "true", "false"}]
      /\ call \in [Threads -> {Set!None} \cup
                                [op : Set!Ops, key : Keys, ret : {"pending", "true", "false"}]]
  BY Types
<1>2. Set!None.op = "none" /\ Set!None.ret = "pending"
  BY DEF Set!None
<1>3. CASE Invoke(t)
  <2>1. pc[t] = "idle" /\ Aside(t) = {}
    BY <1>0, <1>2, <1>3 DEF Invoke, Call, Aside, Removed
  <2>2. ~Adds(t) /\ ~Removes(t)
    BY <2>1 DEF Adds, Removes, list_add, list_remove, Arrived
  <2>3. PICK o \in Set!Ops, k \in Keys :
          /\ call' = [call EXCEPT ![t] = [op |-> o, key |-> k, ret |-> "pending"]]
          /\ IF o = "add"
             THEN \E n \in unused :
                    /\ node' = [node EXCEPT ![t] = n]
                    /\ key' = [key EXCEPT ![n] = k]
                    /\ mutex' = [mutex EXCEPT ![n] = Nobody]
                    /\ unused' = unused \ {n}
             ELSE UNCHANGED <<node, key, mutex, unused>>
    BY <1>3 DEF Invoke, Call
  <2>4. call'[t].op = o /\ call'[t].ret = "pending"
    BY <1>1, <2>3
  <2>5. CASE o = "add"
    <3>1. PICK n \in unused : node' = [node EXCEPT ![t] = n] /\ unused' = unused \ {n}
      BY <2>3, <2>5
    <3>2. Aside(t)' = {n}
      BY <1>0, <2>4, <2>5, <3>1 DEF Aside
    <3> QED BY <2>1, <2>2, <3>1, <3>2
  <2>6. CASE o # "add"
    <3>1. Aside(t)' = {} /\ unused' = unused
      BY <2>3, <2>4, <2>6 DEF Aside, Removed
    <3> QED BY <2>1, <2>2, <3>1
  <2> QED BY <2>5, <2>6
<1>4. CASE LockHead(t) \/ LockCur(t) \/ Advance(t)
  <2>1. pc[t] \in {"start", "lock", "look"} /\ call' = call /\ node' = node /\ unused' = unused
    BY <1>4 DEF LockHead, LockCur, Advance
  <2>2. ~Adds(t) /\ ~Removes(t)
    <3>1. CASE LockHead(t) \/ LockCur(t)
      BY <3>1 DEF LockHead, LockCur, Adds, Removes, list_add, list_remove, Arrived
    <3>2. CASE Advance(t)
      <4>1. key[cur[t]] \in Int /\ call[t].key \in Int
        BY <2>1, CallFacts, Types DEF KeysOfNodes
      <4> QED BY <3>2, <4>1 DEF Advance, Adds, Removes, list_add, list_remove, Arrived
    <3> QED BY <1>4, <3>1, <3>2
  <2>3. Aside(t)' = Aside(t)
    BY <1>0, <2>1 DEF Aside, Removed
  <2> QED BY <1>0, <2>1, <2>2, <2>3
<1>5. CASE list_add(t) \/ list_remove(t) \/ list_contains(t)
  <2>1. /\ pc[t] = "look" /\ pc'[t] = "unlock" /\ call[t].ret = "pending"
        /\ unused' = unused /\ node' = node /\ cur' = cur
    BY <1>0, <1>5 DEF list_add, list_remove, list_contains, AddHere, RemoveHere, Answer, Arrived, Goto
  <2>2. call[t] \in [op : Set!Ops, key : Keys, ret : {"pending", "true", "false"}]
    BY <2>1, CallFacts
  <2>3. CASE list_add(t)
    <3>1. /\ call[t].op = "add" /\ call' = [call EXCEPT ![t].ret = IF ~Found(t) THEN "true" ELSE "false"]
      BY <2>3 DEF list_add, AddHere, Answer
    <3>2. call'[t].op = "add" /\ call'[t].ret = IF ~Found(t) THEN "true" ELSE "false"
      BY <1>1, <2>2, <3>1
    <3>3. Aside(t) = {node[t]} /\ Aside(t)' = IF Found(t) THEN {node[t]} ELSE {}
      BY <2>1, <3>1, <3>2 DEF Aside, Removed
    <3> QED BY <1>0, <2>1, <2>3, <3>1, <3>3 DEF Adds, Removes, list_remove, RemoveHere
  <2>4. CASE list_remove(t)
    <3>1. /\ call[t].op = "remove" /\ call' = [call EXCEPT ![t].ret = IF Found(t) THEN "true" ELSE "false"]
      BY <2>4 DEF list_remove, RemoveHere, Answer
    <3>2. call'[t].op = "remove" /\ call'[t].ret = IF Found(t) THEN "true" ELSE "false"
      BY <1>1, <2>2, <3>1
    <3>3. Aside(t) = {} /\ Aside(t)' = IF Found(t) THEN {cur[t]} ELSE {}
      BY <2>1, <3>1, <3>2 DEF Aside, Removed
    <3> QED BY <1>0, <2>1, <2>4, <3>1, <3>3 DEF Adds, Removes, list_add, AddHere
  <2>5. CASE list_contains(t)
    <3>1. call[t].op = "contains" /\ call' = [call EXCEPT ![t].ret = IF Found(t) THEN "true" ELSE "false"]
      BY <2>5 DEF list_contains, Answer
    <3>2. call'[t].op = "contains"
      BY <1>1, <2>2, <3>1
    <3>3. Aside(t) = {} /\ Aside(t)' = {}
      BY <3>1, <3>2 DEF Aside, Removed
    <3> QED BY <1>0, <2>1, <3>1, <3>3 DEF Adds, Removes, list_add, AddHere, list_remove, RemoveHere
  <2> QED BY <1>5, <2>3, <2>4, <2>5
<1>6. CASE UnlockPrev(t) \/ UnlockCur(t)
  <2>1. /\ pc[t] \in {"unlock", "unlock cur"} /\ call' = call /\ node' = node /\ cur' = cur
        /\ unused' = unused
        /\ Removed(t) => pc'[t] \in {"unlock cur", "free"}
    BY <1>0, <1>6 DEF UnlockPrev, UnlockCur, Goto
  <2>2. Aside(t)' = Aside(t)
    BY <2>1 DEF Aside, Removed
  <2> QED BY <1>0, <2>1, <2>2 DEF Adds, Removes, list_add, list_remove, Arrived
<1>7. CASE Free(t)
  <2>1. /\ pc[t] = "free" /\ pc'[t] = "return" /\ call' = call /\ unused' = unused \cup {cur[t]}
    BY <1>0, <1>7 DEF Free, Forget, Goto
  <2>2. Removed(t)
    BY <2>1 DEF Inv, LocksAgree
  <2>3. Aside(t) = {cur[t]} /\ Aside(t)' = {}
    BY <2>1, <2>2 DEF Aside, Removed
  <2> QED BY <2>1, <2>3 DEF Adds, Removes, list_add, list_remove, Arrived
<1>8. CASE Return(t)
  <2>1. /\ pc[t] = "return" /\ call'[t] = Set!None
        /\ unused' = unused \cup (IF Rejected(t) THEN {node[t]} ELSE {})
    BY <1>1, <1>8 DEF Return, Leave, Forget
  <2>2. call[t].ret \in {"true", "false"}
    BY <1>0, <2>1, CallFacts
  <2>3. Aside(t) = (IF Rejected(t) THEN {node[t]} ELSE {}) /\ Aside(t)' = {}
    BY <1>2, <2>1, <2>2 DEF Aside, Rejected, Removed
  <2> QED BY <2>1, <2>3 DEF Adds, Removes, list_add, list_remove, Arrived
<1> QED BY <1>3, <1>4, <1>5, <1>6, <1>7, <1>8 DEF Step

\* What that means for the linked nodes.
LEMMA LinkedStep ==
  ASSUME Inv, NEW t \in Threads, Invoke(t) \/ LockHead(t) \/ LockCur(t) \/ Step(t)
  PROVE  /\ OneOwner'
         /\ Adds(t) => Linked' = Linked \cup {node[t]} /\ node[t] \in Nodes \ Linked
         /\ Removes(t) => Linked' = Linked \ {cur[t]} /\ cur[t] \in Linked
         /\ ~Adds(t) /\ ~Removes(t) => Linked' = Linked
<1>1. /\ unused \subseteq Nodes
      /\ \A u \in Threads : u # t => Aside(u)' = Aside(u)
  BY Types, OthersStay
<1>2. \A u \in Threads :
        /\ Aside(u) \subseteq Nodes \ unused
        /\ \A v \in Threads : u # v => Aside(u) \cap Aside(v) = {}
  BY DEF Inv, OneOwner
<1> DEFINE Others == UNION {Aside(u) : u \in Threads \ {t}}
<1>3. /\ Linked = Nodes \ (unused \cup Aside(t) \cup Others)
      /\ Linked' = Nodes \ (unused' \cup Aside(t)' \cup Others)
      /\ Others \cap (unused \cup Aside(t)) = {}
  <2>1. UNION {Aside(u) : u \in Threads} = Aside(t) \cup Others
    OBVIOUS
  <2>2. (UNION {Aside(u) : u \in Threads})' = Aside(t)' \cup Others
    BY <1>1
  <2>3. Others \cap (unused \cup Aside(t)) = {}
    BY <1>2
  <2> QED BY <2>1, <2>2, <2>3 DEF Linked
<1>4. CASE Adds(t)
  <2>1. Aside(t) = {node[t]} /\ Aside(t)' = {} /\ unused' = unused
    BY <1>4, AsideStep
  <2>2. OneOwner'
    BY <1>1, <1>2, <2>1 DEF OneOwner
  <2>3. ~Removes(t)
    BY <1>4 DEF Adds, Removes, list_add, list_remove, AddHere, RemoveHere
  <2> HIDE DEF Others
  <2> QED BY <1>2, <1>3, <1>4, <2>1, <2>2, <2>3
<1>5. CASE Removes(t)
  <2>1. Aside(t) = {} /\ Aside(t)' = {cur[t]} /\ unused' = unused
    BY <1>5, AsideStep
  <2>2. cur[t] \in Linked
    BY <1>5, BetweenLocks DEF Removes, list_remove, Arrived
  <2>3. OneOwner'
    BY <1>1, <1>2, <2>1, <2>2 DEF OneOwner, Linked
  <2>4. ~Adds(t)
    BY <1>5 DEF Adds, Removes, list_add, list_remove, AddHere, RemoveHere
  <2> HIDE DEF Others
  <2> QED BY <1>3, <1>5, <2>1, <2>2, <2>3, <2>4
<1>6. CASE ~Adds(t) /\ ~Removes(t)
  <2>1. unused' \cup Aside(t)' = unused \cup Aside(t) /\ unused' \cap Aside(t)' = {}
    BY <1>6, AsideStep
  <2>2. OneOwner'
    BY <1>1, <1>2, <2>1 DEF OneOwner
  <2>3. Linked' = Linked
    BY <1>3, <2>1
  <2> QED BY <1>6, <2>2, <2>3
<1> QED BY <1>4, <1>5, <1>6

\* What a step does to the members of the nodes: the list and what other threads have for
\* themselves stay as they are but for the links of an add and a remove.
LEMMA MembersStep ==
  ASSUME Inv, NEW t \in Threads, Invoke(t) \/ LockHead(t) \/ LockCur(t) \/ Step(t)
  PROVE  /\ \A m \in AllNodes \ (unused \cup Aside(t)) : key'[m] = key[m]
         /\ Adds(t) \/ Removes(t) => key' = key
         /\ ~Adds(t) /\ ~Removes(t) =>
              \A m \in AllNodes \ (unused \cup Aside(t)) : next'[m] = next[m]
         /\ Adds(t) => next' = [next EXCEPT ![prev[t]] = node[t], ![node[t]] = cur[t]]
         /\ Removes(t) => next' = [next EXCEPT ![prev[t]] = next[cur[t]]]
<1>1. key \in [AllNodes -> Keys \cup {INT_MIN, INT_MAX}] /\ next \in [AllNodes -> AllNodes \cup {NULL}]
  BY Types DEF Links
<1>2. CASE Invoke(t)
  <2>1. next' = next /\ (key' = key \/ \E n \in unused, k \in Keys : key' = [key EXCEPT ![n] = k])
    BY <1>2 DEF Invoke, Call
  <2>2. ~Adds(t) /\ ~Removes(t)
    BY <1>2 DEF Invoke, Call, Adds, Removes, list_add, list_remove, Arrived
  <2> QED BY <1>1, <2>1, <2>2
<1>3. CASE LockHead(t) \/ LockCur(t) \/ Advance(t) \/ UnlockPrev(t) \/ UnlockCur(t)
  <2>1. key' = key /\ next' = next
    BY <1>3 DEF LockHead, LockCur, Advance, UnlockPrev, UnlockCur
  <2>2. ~Adds(t) /\ ~Removes(t)
    <3>1. CASE LockHead(t) \/ LockCur(t) \/ UnlockPrev(t) \/ UnlockCur(t)
      BY <3>1 DEF LockHead, LockCur, UnlockPrev, UnlockCur, Adds, Removes, list_add, list_remove, Arrived
    <3>2. CASE Advance(t)
      <4>1. key[cur[t]] \in Int /\ call[t].key \in Int
        BY <3>2, CallFacts, Types DEF KeysOfNodes, Advance
      <4> QED BY <3>2, <4>1 DEF Advance, Adds, Removes, list_add, list_remove, Arrived
    <3> QED BY <1>3, <3>1, <3>2
  <2> QED BY <2>1, <2>2
<1>4. CASE list_add(t) \/ list_remove(t) \/ list_contains(t)
  BY <1>4 DEF list_add, list_remove, list_contains, AddHere, RemoveHere, Answer, Adds, Removes
<1>5. CASE Free(t) \/ Return(t)
  <2>1. ~Adds(t) /\ ~Removes(t)
    BY <1>5 DEF Free, Return, Leave, Adds, Removes, list_add, list_remove, Arrived
  <2>2. PICK ns : Forget(ns)
    BY <1>5 DEF Free, Return
  <2>3. unused' \subseteq unused \cup Aside(t)
    BY <2>1, AsideStep
  <2>4. ns \subseteq unused \cup Aside(t)
    BY <2>2, <2>3 DEF Forget
  <2>5. \A m \in AllNodes \ ns : key'[m] = key[m] /\ next'[m] = next[m]
    BY <2>2 DEF Forget
  <2> QED BY <2>1, <2>4, <2>5
<1> QED BY <1>2, <1>3, <1>4, <1>5 DEF Step

\* A mutex that somebody else has stays with him.
LEMMA MutexStep ==
  ASSUME Inv, NEW t \in Threads, Invoke(t) \/ LockHead(t) \/ LockCur(t) \/ Step(t),
         NEW u \in Threads, u # t, NEW m \in AllNodes \ unused, mutex[m] = u
  PROVE  mutex'[m] = u
<1>1. mutex \in [AllNodes -> Threads \cup {Nobody}] /\ u # Nobody
  BY Types, ListAssumption
<1>2. CASE Invoke(t)
  <2>1. mutex' = mutex \/ \E n \in unused : mutex' = [mutex EXCEPT ![n] = Nobody]
    BY <1>2 DEF Invoke, Call
  <2> QED BY <1>1, <2>1
<1>3. CASE LockHead(t) \/ LockCur(t)
  BY <1>1, <1>3 DEF LockHead, LockCur, Lock
<1>4. CASE Advance(t) \/ UnlockPrev(t)
  <2>1. mutex[prev[t]] = t
    BY <1>4 DEF Advance, UnlockPrev, Inv, LocksAgree
  <2> QED BY <1>1, <1>4, <2>1 DEF Advance, UnlockPrev, Unlock
<1>5. CASE UnlockCur(t)
  <2>1. mutex[cur[t]] = t
    BY <1>5 DEF UnlockCur, Inv, LocksAgree
  <2> QED BY <1>1, <1>5, <2>1 DEF UnlockCur, Unlock
<1>6. CASE list_add(t) \/ list_remove(t) \/ list_contains(t) \/ Free(t) \/ Return(t)
  BY <1>6 DEF list_add, list_remove, list_contains, AddHere, RemoveHere, Answer, Free, Return, Leave
<1> QED BY <1>2, <1>3, <1>4, <1>5, <1>6 DEF Step

\* The list remains one, and the new keys are those of the calls.
LEMMA ListStep ==
  ASSUME Inv, NEW t \in Threads, Invoke(t) \/ LockHead(t) \/ LockCur(t) \/ Step(t)
  PROVE  IsList(Linked', key', next')
<1>1. /\ IsList(Linked, key, next) /\ key \in KeysOfNodes /\ next \in Links
      /\ Linked \cup {Head, Tail} \subseteq AllNodes \ (unused \cup Aside(t))
  BY Types, Ends DEF Inv, Linked, AllNodes, OneOwner
<1>2. CASE Adds(t)
  <2>1. /\ Linked' = Linked \cup {node[t]} /\ node[t] \in Nodes \ Linked
        /\ key' = key /\ next' = [next EXCEPT ![prev[t]] = node[t], ![node[t]] = cur[t]]
    BY <1>2, LinkedStep, MembersStep
  <2>2. pc[t] = "look" /\ call[t].op = "add" /\ key[cur[t]] >= call[t].key /\ key[cur[t]] # call[t].key
    BY <1>2 DEF Adds, list_add, AddHere, Arrived, Found
  <2>3. key[node[t]] = call[t].key
    BY <2>2 DEF Inv, KeysAgree, LocksAgree
  <2>4. prev[t] \in Linked \cup {Head} /\ next[prev[t]] = cur[t] /\ key[prev[t]] < call[t].key
    BY <2>2, BetweenLocks
  <2>5. key[node[t]] < key[cur[t]]
    <3>1. key[cur[t]] \in Int
      BY Types DEF KeysOfNodes
    <3>2. call[t].key \in Int
      BY <2>2, CallFacts
    <3> QED BY <2>2, <2>3, <3>1, <3>2
  <2> QED BY <1>1, <2>1, <2>3, <2>4, <2>5, LinkKeepsList
<1>3. CASE Removes(t)
  <2>1. /\ Linked' = Linked \ {cur[t]} /\ cur[t] \in Linked
        /\ key' = key /\ next' = [next EXCEPT ![prev[t]] = next[cur[t]]]
    BY <1>3, LinkedStep, MembersStep
  <2>2. prev[t] \in Linked \cup {Head} /\ next[prev[t]] = cur[t]
    BY <1>3, BetweenLocks DEF Removes, list_remove, Arrived
  <2> QED BY <1>1, <2>1, <2>2, UnlinkKeepsList
<1>4. CASE ~Adds(t) /\ ~Removes(t)
  <2>1. Linked' = Linked
    BY <1>4, LinkedStep
  <2>2. /\ \A m \in Linked \cup {Head, Tail} : key'[m] = key[m]
        /\ \A m \in Linked \cup {Head} : next'[m] = next[m]
    BY <1>1, <1>4, MembersStep
  <2> QED BY <1>1, <2>1, <2>2, ListDependsOnIts
<1> QED BY <1>2, <1>3, <1>4

LEMMA KeysStep ==
  ASSUME Inv, NEW t \in Threads, Invoke(t) \/ LockHead(t) \/ LockCur(t) \/ Step(t)
  PROVE  KeysAgree'
<1>1. /\ KeysAgree /\ Linked \cup {Head, Tail} \subseteq AllNodes \ (unused \cup Aside(t))
      /\ key \in [AllNodes -> Keys \cup {INT_MIN, INT_MAX}]
      /\ node \in [Threads -> AllNodes]
      /\ call \in [Threads -> {Set!None} \cup
                                [op : Set!Ops, key : Keys, ret : {"pending", "true", "false"}]]
  BY Types, Ends DEF Inv, Linked, AllNodes, OneOwner
<1>2. \A m \in Linked \cup {Head, Tail} : key'[m] = key[m]
  BY <1>1, MembersStep
<1>3. key'[Head] = INT_MIN /\ key'[Tail] = INT_MAX
  BY <1>1, <1>2 DEF KeysAgree
<1>4. ASSUME NEW n \in Linked' PROVE key'[n] \in Keys
  <2>1. CASE Adds(t) /\ n = node[t]
    <3>1. key' = key /\ pc[t] = "look" /\ call[t].op = "add" /\ call[t].ret # "true"
      BY <2>1, MembersStep DEF Adds, list_add, AddHere, Arrived, Inv, LocksAgree
    <3> QED BY <1>1, <2>1, <3>1, CallFacts DEF KeysAgree
  <2>2. CASE ~(Adds(t) /\ n = node[t])
    <3>1. n \in Linked
      BY <2>2, LinkedStep
    <3> QED BY <1>1, <1>2, <3>1 DEF KeysAgree
  <2> QED BY <2>1, <2>2
<1>5. ASSUME NEW u \in Threads, call'[u].op = "add", call'[u].ret # "true"
      PROVE  key'[node'[u]] = call'[u].key
  <2>1. CASE u # t
    <3>1. node'[u] = node[u] /\ call'[u] = call[u] /\ Aside(u) = {node[u]}
      BY <1>5, <2>1, OthersStay DEF Aside
    <3>2. node[u] \in AllNodes \ (unused \cup Aside(t))
      BY <2>1, <3>1 DEF Inv, OneOwner, AllNodes
    <3>3. key'[node[u]] = key[node[u]]
      BY <3>2, MembersStep
    <3> QED BY <1>1, <1>5, <3>1, <3>3 DEF KeysAgree
  <2>2. CASE u = t /\ Invoke(t)
    <3>1. PICK o \in Set!Ops, k \in Keys :
            /\ call' = [call EXCEPT ![t] = [op |-> o, key |-> k, ret |-> "pending"]]
            /\ o = "add" => \E n \in unused : /\ node' = [node EXCEPT ![t] = n]
                                              /\ key' = [key EXCEPT ![n] = k]
      BY <2>2 DEF Invoke, Call
    <3>2. call'[t] = [op |-> o, key |-> k, ret |-> "pending"]
      BY <1>1, <3>1
    <3>3. PICK n \in unused : node' = [node EXCEPT ![t] = n] /\ key' = [key EXCEPT ![n] = k]
      BY <1>5, <2>2, <3>1, <3>2
    <3>4. n \in AllNodes
      BY Types DEF AllNodes
    <3> QED BY <1>1, <2>2, <3>2, <3>3, <3>4
  <2>3. CASE u = t /\ (LockHead(t) \/ LockCur(t) \/ Advance(t) \/ UnlockPrev(t) \/ UnlockCur(t))
    <3>1. call' = call /\ node' = node /\ key' = key
      BY <2>3 DEF LockHead, LockCur, Advance, UnlockPrev, UnlockCur
    <3> QED BY <1>1, <1>5, <3>1 DEF KeysAgree
  <2>4. CASE u = t /\ (list_add(t) \/ list_remove(t) \/ list_contains(t))
    <3>1. \E b \in BOOLEAN : call' = [call EXCEPT ![t].ret = IF b THEN "true" ELSE "false"]
      BY <2>4 DEF list_add, list_remove, list_contains, AddHere, RemoveHere, Answer, Found
    <3>2. node' = node /\ key' = key /\ pc[t] = "look"
      BY <2>4 DEF list_add, list_remove, list_contains, AddHere, RemoveHere, Answer, Arrived
    <3>3. call[t] \in [op : Set!Ops, key : Keys, ret : {"pending", "true", "false"}] /\ call[t].ret = "pending"
      BY <3>2, CallFacts DEF Inv, LocksAgree
    <3>4. call'[t].op = call[t].op /\ call'[t].key = call[t].key
      BY <1>1, <3>1, <3>3
    <3> QED BY <1>1, <1>5, <2>4, <3>2, <3>3, <3>4 DEF KeysAgree
  <2>5. CASE u = t /\ (Free(t) \/ Return(t))
    <3>1. CASE Free(t)
      BY <1>5, <2>5, <3>1 DEF Free, Inv, LocksAgree, Removed
    <3>2. CASE Return(t)
      <4>1. call'[t] = Set!None
        BY <1>1, <3>2 DEF Return, Leave
      <4> QED BY <1>5, <2>5, <4>1 DEF Set!None
    <3> QED BY <2>5, <3>1, <3>2
  <2> QED BY <2>1, <2>2, <2>3, <2>4, <2>5 DEF Step
<1> QED BY <1>3, <1>4, <1>5 DEF KeysAgree

\* A thread keeps its locks, and its neighbours, whatever another one does.
LEMMA OthersKeepLocks ==
  ASSUME Inv, NEW t \in Threads, Invoke(t) \/ LockHead(t) \/ LockCur(t) \/ Step(t),
         NEW u \in Threads, u # t
  PROVE  LocksAgree(u)'
<1>1. /\ pc'[u] = pc[u] /\ prev'[u] = prev[u] /\ cur'[u] = cur[u] /\ call'[u] = call[u]
      /\ Aside(u)' = Aside(u)
  BY OthersStay
<1>2. LocksAgree(u) /\ LocksAgree(t) /\ unused \subseteq Nodes
  BY Types DEF Inv
<1>3. Removed(u)' = Removed(u)
  BY <1>1 DEF Removed
<1>4. Removes(t) => mutex[cur[t]] = t /\ mutex[prev[t]] = t
  BY <1>2 DEF Removes, list_remove, Arrived, LocksAgree
<1>5. Adds(t) => mutex[prev[t]] = t
  BY <1>2 DEF Adds, list_add, Arrived, LocksAgree
<1>6. ASSUME pc[u] \in {"lock", "look", "unlock"}
      PROVE  prev[u] \in Linked' \cup {Head} /\ prev[u] # cur[u] /\ mutex'[prev[u]] = u
  <2>1. prev[u] \in Linked \cup {Head} /\ prev[u] # cur[u] /\ mutex[prev[u]] = u
    BY <1>2, <1>6 DEF LocksAgree
  <2>2. prev[u] \in AllNodes \ unused
    BY <1>2, <2>1, Ends DEF Linked, AllNodes
  <2>3. mutex'[prev[u]] = u
    BY <2>1, <2>2, MutexStep
  <2>4. prev[u] \in Linked' \cup {Head}
    BY <1>4, <2>1, LinkedStep
  <2> QED BY <2>1, <2>3, <2>4
<1>7. ASSUME pc[u] \in {"lock", "look"}
      PROVE  key'[prev[u]] < call[u].key /\ next'[prev[u]] = cur[u]
  <2>1. /\ prev[u] \in Linked \cup {Head} /\ mutex[prev[u]] = u
        /\ key[prev[u]] < call[u].key /\ next[prev[u]] = cur[u]
    BY <1>2, <1>7 DEF LocksAgree
  <2>2. prev[u] \in AllNodes \ (unused \cup Aside(t))
    BY <2>1, Ends DEF Linked, AllNodes, Inv, OneOwner, TypeOK, ListTypeOK
  <2>3. key'[prev[u]] = key[prev[u]]
    BY <2>2, MembersStep
  <2>4. next'[prev[u]] = next[prev[u]]
    <3>1. CASE Adds(t)
      <4>1. prev[u] # prev[t] /\ prev[u] # node[t]
        BY <1>5, <2>1, <3>1, LinkedStep, Ends
      <4> QED BY <2>2, <3>1, <4>1, MembersStep, Types DEF Links
    <3>2. CASE Removes(t)
      <4>1. prev[u] # prev[t]
        BY <1>4, <2>1, <3>2
      <4> QED BY <2>2, <3>2, <4>1, MembersStep, Types DEF Links
    <3> QED BY <2>2, <3>1, <3>2, MembersStep
  <2> QED BY <2>1, <2>3, <2>4
<1>8. ASSUME pc[u] \in {"look", "unlock", "unlock cur"} PROVE mutex'[cur[u]] = u
  <2>1. mutex[cur[u]] = u /\ cur[u] \in AllNodes \ unused
    BY <1>2, <1>8, Types DEF LocksAgree, Inv, NodesAreThere
  <2> QED BY <2>1, MutexStep
<1>9. ASSUME pc[u] \in {"unlock", "unlock cur"}
      PROVE  cur[u] \in Linked' \cup {Tail} \cup Aside(u)
  <2>1. cur[u] \in Linked \cup {Tail} \cup Aside(u) /\ mutex[cur[u]] = u
    BY <1>2, <1>9 DEF LocksAgree
  <2> QED BY <1>4, <2>1, LinkedStep
<1> QED BY <1>1, <1>2, <1>3, <1>6, <1>7, <1>8, <1>9 DEF LocksAgree

\* The thread itself takes the next lock before it gives back the last one.
LEMMA KeepsItsLocks ==
  ASSUME Inv, NEW t \in Threads, Invoke(t) \/ LockHead(t) \/ LockCur(t) \/ Step(t)
  PROVE  LocksAgree(t)'
<1>1. /\ key \in KeysOfNodes /\ next \in Links /\ mutex \in [AllNodes -> Threads \cup {Nobody}]
      /\ prev \in [Threads -> AllNodes] /\ cur \in [Threads -> AllNodes] /\ pc \in [Threads -> Stages]
      /\ call \in [Threads -> {Set!None} \cup
                                [op : Set!Ops, key : Keys, ret : {"pending", "true", "false"}]]
  BY Types
<1>2. LocksAgree(t) /\ IsList(Linked, key, next) /\ KeysAgree /\ Head \in AllNodes /\ Tail \in AllNodes
  BY DEF Inv, AllNodes
<1>3. CASE Invoke(t)
  <2>1. pc'[t] = "start" /\ \E o \in Set!Ops, k \in Keys : call'[t] = [op |-> o, key |-> k, ret |-> "pending"]
    BY <1>1, <1>3 DEF Invoke, Call, Goto
  <2>2. call'[t] # Set!None /\ call'[t].ret = "pending"
    BY <2>1 DEF Set!None, Set!Ops
  <2> QED BY <2>1, <2>2 DEF LocksAgree
<1>4. CASE LockHead(t)
  <2>1. /\ pc[t] = "start" /\ pc'[t] = "lock" /\ mutex'[Head] = t /\ prev'[t] = Head /\ cur'[t] = next[Head]
        /\ call' = call /\ key' = key /\ next' = next
    BY <1>1, <1>2, <1>4 DEF LockHead, Goto, Lock
  <2>2. next[Head] # Head
    BY <1>2, Ends DEF IsList
  <2>3. key[Head] < call[t].key
    BY <1>2, <2>1, CallFacts DEF KeysAgree
  <2> QED BY <1>2, <2>1, <2>2, <2>3 DEF LocksAgree
<1>5. CASE LockCur(t)
  <2>1. /\ pc[t] = "lock" /\ pc'[t] = "look" /\ call' = call /\ key' = key /\ next' = next
        /\ prev' = prev /\ cur' = cur /\ mutex' = [mutex EXCEPT ![cur[t]] = t]
    BY <1>1, <1>5 DEF LockCur, Goto, Lock
  <2>2. Linked' = Linked
    BY <1>5, <2>1, LinkedStep DEF Adds, Removes, list_add, list_remove, Arrived
  <2>3. mutex'[cur[t]] = t /\ mutex'[prev[t]] = t
    BY <1>1, <1>2, <2>1 DEF LocksAgree
  <2> QED BY <1>2, <2>1, <2>2, <2>3 DEF LocksAgree
<1>6. CASE Advance(t)
  <2>1. /\ pc[t] = "look" /\ pc'[t] = "lock" /\ call' = call /\ key' = key /\ next' = next
        /\ prev'[t] = cur[t] /\ cur'[t] = next[cur[t]] /\ key[cur[t]] < call[t].key
        /\ mutex' = [mutex EXCEPT ![prev[t]] = Nobody]
    BY <1>1, <1>6 DEF Advance, Goto, Unlock
  <2>2. key[cur[t]] \in Int /\ call[t].key \in Int /\ call[t].key < INT_MAX /\ INT_MAX \in Int
    BY <1>1, <2>1, CallFacts, ListAssumption DEF KeysOfNodes
  <2>3. ~Adds(t) /\ ~Removes(t)
    BY <2>1, <2>2 DEF Adds, Removes, list_add, list_remove, Arrived
  <2>4. cur[t] \in Linked
    <3>1. cur[t] # Tail
      BY <1>2, <2>1, <2>2 DEF KeysAgree
    <3> QED BY <2>1, <3>1, BetweenLocks
  <2>5. cur[t] \in Linked'
    BY <2>3, <2>4, LinkedStep
  <2>6. cur[t] # next[cur[t]]
    <3>1. key[cur[t]] < key[next[cur[t]]]
      BY <1>2, <2>4 DEF IsList
    <3> QED BY <2>2, <3>1
  <2>7. mutex'[cur[t]] = t
    BY <1>1, <1>2, <2>1 DEF LocksAgree
  <2>8. call[t] # Set!None /\ call[t].ret = "pending"
    BY <1>2, <2>1 DEF LocksAgree
  <2> QED BY <2>1, <2>5, <2>6, <2>7, <2>8 DEF LocksAgree
<1>7. CASE list_add(t) \/ list_remove(t) \/ list_contains(t)
  <2>1. /\ pc[t] = "look" /\ pc'[t] = "unlock" /\ mutex' = mutex /\ prev' = prev /\ cur' = cur
        /\ \E b \in BOOLEAN : call' = [call EXCEPT ![t].ret = IF b THEN "true" ELSE "false"]
    BY <1>1, <1>7 DEF list_add, list_remove, list_contains, AddHere, RemoveHere, Answer, Arrived, Goto, Found
  <2>2. call[t] \in [op : Set!Ops, key : Keys, ret : {"pending", "true", "false"}]
    BY <2>1, CallFacts
  <2>3. call'[t].ret \in {"true", "false"} /\ call'[t] # Set!None
    BY <1>1, <2>1, <2>2 DEF Set!None
  <2>4. prev[t] \in Linked \cup {Head} /\ cur[t] \in Linked \cup {Tail} /\ prev[t] # cur[t]
        /\ mutex[prev[t]] = t /\ mutex[cur[t]] = t
    BY <1>2, <2>1, BetweenLocks DEF LocksAgree
  <2>5. prev[t] \in Linked' \cup {Head} /\ cur[t] \in Linked' \cup {Tail} \cup Aside(t)'
    BY <2>4, LinkedStep, AsideStep
  <2> QED BY <2>1, <2>3, <2>4, <2>5 DEF LocksAgree
<1>8. CASE UnlockPrev(t)
  <2>1. /\ pc[t] = "unlock" /\ pc'[t] = "unlock cur" /\ call' = call /\ node' = node /\ cur' = cur
        /\ mutex' = [mutex EXCEPT ![prev[t]] = Nobody]
    BY <1>1, <1>8 DEF UnlockPrev, Goto, Unlock
  <2>2. Linked' = Linked
    BY <1>8, <2>1, LinkedStep DEF Adds, Removes, list_add, list_remove, Arrived
  <2>3. Aside(t)' = Aside(t)
    BY <2>1 DEF Aside, Removed
  <2>4. mutex'[cur[t]] = t
    BY <1>1, <1>2, <2>1 DEF LocksAgree
  <2> QED BY <1>2, <2>1, <2>2, <2>3, <2>4 DEF LocksAgree
<1>9. CASE UnlockCur(t)
  <2>1. /\ pc[t] = "unlock cur" /\ pc'[t] = IF Removed(t) THEN "free" ELSE "return"
        /\ call' = call
    BY <1>1, <1>9 DEF UnlockCur, Goto
  <2> QED BY <1>2, <2>1 DEF LocksAgree, Removed
<1>10. CASE Free(t)
  <2>1. pc[t] = "free" /\ pc'[t] = "return" /\ call' = call
    BY <1>1, <1>10 DEF Free, Goto
  <2> QED BY <1>2, <2>1 DEF LocksAgree
<1>11. CASE Return(t)
  <2>1. pc'[t] = "idle" /\ call'[t] = Set!None
    BY <1>1, <1>11 DEF Return, Leave, Goto
  <2> QED BY <2>1 DEF LocksAgree, Set!None
<1> QED BY <1>3, <1>4, <1>5, <1>6, <1>7, <1>8, <1>9, <1>10, <1>11 DEF Step

\* A node in the list or in somebody's hands is not free memory.
LEMMA LocksKeepNodes ==
  /\ TypeOK /\ OneOwner /\ IsList(Linked, key, next)
  /\ \A t \in Threads : LocksAgree(t)
  => NodesAreThere
<1> SUFFICES ASSUME TypeOK, OneOwner, IsList(Linked, key, next), NEW t \in Threads, LocksAgree(t)
             PROVE  /\ pc[t] \in {"lock", "look", "unlock"} => prev[t] \notin unused
                    /\ pc[t] \in {"lock", "look", "unlock", "unlock cur"} => cur[t] \notin unused
  BY DEF NodesAreThere
<1>1. unused \subseteq Nodes /\ Head \notin unused /\ Tail \notin unused
  BY Ends DEF TypeOK, ListTypeOK
<1>2. pc[t] \in {"lock", "look", "unlock"} => prev[t] \notin unused
  BY <1>1 DEF LocksAgree, Linked
<1>3. pc[t] \in {"lock", "look"} => cur[t] \in Linked \cup {Tail}
  BY DEF LocksAgree, IsList
<1>4. pc[t] \in {"unlock", "unlock cur"} => cur[t] \notin unused
  BY <1>1 DEF LocksAgree, Linked, OneOwner
<1> QED BY <1>1, <1>2, <1>3, <1>4 DEF Linked

LEMMA TypeStep ==
  ASSUME Inv, NEW t \in Threads, Invoke(t) \/ LockHead(t) \/ LockCur(t) \/ Step(t)
  PROVE  TypeOK'
<1> DEFINE Calls == [op : Set!Ops, key : Keys, ret : {"pending", "true", "false"}]
           Values == Keys \cup {INT_MIN, INT_MAX}
<1>1. /\ key \in [AllNodes -> Values] /\ next \in [AllNodes -> AllNodes \cup {NULL}]
      /\ mutex \in [AllNodes -> Threads \cup {Nobody}] /\ unused \subseteq Nodes
      /\ prev \in [Threads -> AllNodes] /\ cur \in [Threads -> AllNodes]
      /\ node \in [Threads -> AllNodes] /\ pc \in [Threads -> Stages]
      /\ call \in [Threads -> {Set!None} \cup Calls]
      /\ Head \in AllNodes /\ Tail \in AllNodes /\ Nodes \subseteq AllNodes
  BY Types DEF Links, AllNodes
<1> HIDE DEF Calls, Values
<1>2. pc' \in [Threads -> Stages]
  BY <1>1 DEF Invoke, Call, LockHead, LockCur, Step, Advance, list_add, list_remove, list_contains,
    AddHere, RemoveHere, Answer, UnlockPrev, UnlockCur, Free, Return, Leave, Goto, Stages
<1>3. unused' \subseteq Nodes
  BY <1>1, AsideStep DEF Inv, OneOwner
<1>4. CASE Invoke(t)
  <2>1. PICK o \in Set!Ops, k \in Keys :
          /\ call' = [call EXCEPT ![t] = [op |-> o, key |-> k, ret |-> "pending"]]
          /\ \/ UNCHANGED <<node, key, mutex>>
             \/ \E n \in unused : /\ node' = [node EXCEPT ![t] = n]
                                  /\ key' = [key EXCEPT ![n] = k]
                                  /\ mutex' = [mutex EXCEPT ![n] = Nobody]
    BY <1>4 DEF Invoke, Call
  <2>2. /\ call' \in [Threads -> {Set!None} \cup Calls] /\ UNCHANGED <<next, prev, cur>>
        /\ k \in Values
    BY <1>1, <1>4, <2>1 DEF Calls, Values, Invoke, Call
  <2>3. node' \in [Threads -> AllNodes] /\ key' \in [AllNodes -> Values]
        /\ mutex' \in [AllNodes -> Threads \cup {Nobody}]
    BY <1>1, <2>1, <2>2
  <2> QED BY <1>1, <1>2, <1>3, <2>2, <2>3 DEF TypeOK, ListTypeOK, Calls, Values
<1>5. CASE LockHead(t) \/ LockCur(t) \/ Advance(t) \/ UnlockPrev(t) \/ UnlockCur(t)
  <2>1. mutex' \in [AllNodes -> Threads \cup {Nobody}]
    BY <1>1, <1>5 DEF LockHead, LockCur, Advance, UnlockPrev, UnlockCur, Lock, Unlock
  <2>2. next[Head] \in AllNodes
    BY DEF Inv, IsList, Linked, AllNodes
  <2>3. Advance(t) => next[cur[t]] \in AllNodes
    <3>1. Advance(t) => cur[t] # Tail
      BY <1>1, Types, CallFacts, ListAssumption DEF Advance, Inv, KeysAgree
    <3>2. Advance(t) => cur[t] \in Linked
      BY <3>1, BetweenLocks DEF Advance
    <3> QED BY <3>2 DEF Inv, IsList, Linked, AllNodes
  <2>4. prev' \in [Threads -> AllNodes] /\ cur' \in [Threads -> AllNodes]
    BY <1>1, <1>5, <2>2, <2>3 DEF LockHead, LockCur, Advance, UnlockPrev, UnlockCur
  <2>5. UNCHANGED <<key, next, node, call>>
    BY <1>5 DEF LockHead, LockCur, Advance, UnlockPrev, UnlockCur
  <2> QED BY <1>1, <1>2, <1>3, <2>1, <2>4, <2>5 DEF TypeOK, ListTypeOK, Calls, Values
<1>6. CASE list_add(t) \/ list_remove(t) \/ list_contains(t)
  <2>1. /\ UNCHANGED <<key, mutex, unused, prev, cur, node>> /\ pc[t] = "look"
        /\ \E b \in BOOLEAN : call' = [call EXCEPT ![t].ret = IF b THEN "true" ELSE "false"]
    BY <1>6 DEF list_add, list_remove, list_contains, AddHere, RemoveHere, Answer, Arrived, Found
  <2>2. call[t] \in Calls
    BY <2>1, CallFacts DEF Calls
  <2>3. call' \in [Threads -> {Set!None} \cup Calls]
    <3>1. PICK r \in {"true", "false"} : call' = [call EXCEPT ![t].ret = r]
      BY <2>1
    <3>2. [call[t] EXCEPT !.ret = r] \in Calls
      BY <2>2 DEF Calls
    <3> QED BY <1>1, <3>1, <3>2
  <2>4. next' \in [AllNodes -> AllNodes \cup {NULL}]
    BY <1>1, <1>6 DEF list_add, list_remove, list_contains, AddHere, RemoveHere
  <2> QED BY <1>1, <1>2, <2>1, <2>3, <2>4 DEF TypeOK, ListTypeOK, Calls, Values
<1>7. CASE Free(t) \/ Return(t)
  <2>1. \E ns : Forget(ns)
    BY <1>7 DEF Free, Return
  <2>2. key' \in [AllNodes -> Values] /\ next' \in [AllNodes -> AllNodes \cup {NULL}]
    BY <1>1, <2>1 DEF Forget, Values
  <2>3. /\ mutex' = mutex /\ prev' \in [Threads -> AllNodes] /\ cur' \in [Threads -> AllNodes]
        /\ node' \in [Threads -> AllNodes] /\ call' \in [Threads -> {Set!None} \cup Calls]
    BY <1>1, <1>7 DEF Free, Return, Leave
  <2> QED BY <1>1, <1>2, <1>3, <2>2, <2>3 DEF TypeOK, ListTypeOK, Calls, Values
<1> QED BY <1>4, <1>5, <1>6, <1>7 DEF Step

\* The parts of Inv from which the rest follows.
Core == TypeOK /\ OneOwner /\ IsList(Linked, key, next) /\ \A t \in Threads : LocksAgree(t)

LEMMA CoreKeepsNodes == Core => NodesAreThere
BY LocksKeepNodes DEF Core

LEMMA CoreKeepsNodesAfter == Core' => NodesAreThere'
BY CoreKeepsNodes, PTL

LEMMA InvInitially == Init => Inv
<1> SUFFICES ASSUME Init PROVE Inv
  OBVIOUS
<1>1. /\ key = [n \in AllNodes |-> IF n = Tail THEN INT_MAX ELSE INT_MIN]
      /\ next = [n \in AllNodes |-> IF n = Tail THEN NULL ELSE Tail]
      /\ mutex = [n \in AllNodes |-> Nobody] /\ unused = Nodes
      /\ \A t \in Threads : pc[t] = "idle" /\ call[t] = Set!None
      /\ Head \in AllNodes /\ Tail \in AllNodes
  BY DEF Init, ListInit, AllNodes
<1>2. \A t \in Threads : Aside(t) = {}
  BY <1>1 DEF Aside, Removed, Set!None
<1>3. Linked = {}
  BY <1>1 DEF Linked
<1>4. key[Head] = INT_MIN /\ key[Tail] = INT_MAX /\ next[Head] = Tail
  BY <1>1, Ends
<1>5. INT_MIN \in Int /\ INT_MAX \in Int /\ INT_MIN < INT_MAX
  BY ListAssumption
<1>6. IsList(Linked, key, next)
  BY <1>3, <1>4, <1>5 DEF IsList
<1>7. TypeOK
  BY DEF Init, ListInit, TypeOK, ListTypeOK, Stages, AllNodes
<1>8. OneOwner
  BY <1>2 DEF OneOwner
<1>9. KeysAgree
  BY <1>1, <1>3, <1>4 DEF KeysAgree, Set!None
<1>10. ASSUME NEW t \in Threads PROVE LocksAgree(t)
  <2>1. pc[t] = "idle" /\ call[t] = Set!None /\ call[t].ret = "pending"
    BY <1>1 DEF Set!None
  <2> QED BY <2>1 DEF LocksAgree
<1>11. NodesAreThere
  BY <1>6, <1>7, <1>8, <1>10, LocksKeepNodes
<1> QED BY <1>6, <1>7, <1>8, <1>9, <1>10, <1>11 DEF Inv

LEMMA InvStep == Inv /\ [Next]_vars => Inv'
<1> SUFFICES ASSUME Inv, [Next]_vars PROVE Inv'
  OBVIOUS
<1>1. ASSUME NEW t \in Threads, Invoke(t) \/ LockHead(t) \/ LockCur(t) \/ Step(t) PROVE Inv'
  <2>1. TypeOK' /\ KeysAgree'
    BY <1>1, TypeStep, KeysStep
  <2>2. OneOwner' /\ IsList(Linked, key, next)'
    BY <1>1, LinkedStep, ListStep DEF IsList
  <2>3. \A u \in Threads : LocksAgree(u)'
    BY <1>1, OthersKeepLocks, KeepsItsLocks
  <2>4. NodesAreThere'
    BY <2>1, <2>2, <2>3, CoreKeepsNodesAfter DEF Core
  <2> QED BY <2>1, <2>2, <2>3, <2>4 DEF Inv
<1>2. CASE UNCHANGED vars
  <2>1. UNCHANGED <<key, next, mutex, unused, pc, prev, cur, node, call>>
    BY <1>2 DEF vars, listVars
  <2>2. \A t \in Threads : Aside(t)' = Aside(t)
    BY <2>1 DEF Aside, Removed
  <2>3. Linked' = Linked
    BY <2>1, <2>2 DEF Linked
  <2>4. TypeOK' /\ OneOwner' /\ KeysAgree' /\ NodesAreThere'
    BY <2>1, <2>2, <2>3 DEF Inv, TypeOK, ListTypeOK, OneOwner, KeysAgree, NodesAreThere
  <2>5. IsList(Linked, key, next)'
    BY <2>1, <2>3 DEF Inv, IsList
  <2>6. \A t \in Threads : LocksAgree(t)'
    BY <2>1, <2>2, <2>3 DEF Inv, LocksAgree, Removed
  <2> QED BY <2>4, <2>5, <2>6 DEF Inv
<1> QED BY <1>1, <1>2 DEF Next

\* The linked nodes are a sorted list, no thread works on a node that has been freed, and
\* between two locks a thread has two neighbours of the list to itself
\* (list_fine.cpp:52-72,96-102).
THEOREM Invariance == Spec => []Inv
BY InvInitially, InvStep, PTL DEF Spec

-----------------------------------------------------------------------------
\* The set that the list stands for.
KeysetIsLinked == Keyset = {key[n] : n \in Linked}

LEMMA Members == Inv => KeysetIsLinked
BY WalkFindsList DEF Inv, Keyset, KeysetIsLinked

LEMMA MembersAfter == Inv' => KeysetIsLinked'
BY Members, PTL

\* At the place where the walk ends the key is either in cur or nowhere.
LEMMA FoundIsMember ==
  ASSUME Inv, NEW t \in Threads, Arrived(t)
  PROVE  Found(t) <=> call[t].key \in Keyset
<1>1. pc[t] = "look" /\ key[cur[t]] >= call[t].key
  BY DEF Arrived
<1>2. /\ prev[t] \in Linked \cup {Head} /\ next[prev[t]] = cur[t] /\ key[prev[t]] < call[t].key
      /\ key \in KeysOfNodes /\ IsList(Linked, key, next)
  BY <1>1, BetweenLocks, Types DEF Inv
<1>3. call[t].key \in Int /\ call[t].key # key[Tail]
  BY <1>1, CallFacts DEF Inv, KeysAgree
<1>4. key[cur[t]] \in Int
  BY Types DEF KeysOfNodes
<1>5. call[t].key <= key[next[prev[t]]]
  BY <1>1, <1>2, <1>3, <1>4
<1>6. key[next[prev[t]]] = call[t].key <=> \E n \in Linked : key[n] = call[t].key
  <2> DEFINE x == call[t].key
             p == prev[t]
  <2>1. x \in Int /\ x # key[Tail] /\ key[p] < x /\ x <= key[next[p]] /\ p \in Linked \cup {Head}
    BY <1>2, <1>3, <1>5
  <2> HIDE DEF x, p
  <2>2. key[next[p]] = x <=> \E n \in Linked : key[n] = x
    BY <1>2, <2>1, PlaceOfKey
  <2> QED BY <2>2 DEF x, p
<1> QED BY <1>2, <1>6, Members DEF Found, KeysetIsLinked

\* An operation takes effect on the set when it has found its place.
LEMMA TakesEffect ==
  ASSUME Inv, Inv', NEW t \in Threads, list_add(t) \/ list_remove(t) \/ list_contains(t)
  PROVE  Set!Effect(t)
<1>1. /\ Keyset = {key[n] : n \in Linked} /\ Keyset' = {key'[n] : n \in Linked'}
      /\ Arrived(t) /\ pc[t] = "look" /\ key' = key
  BY Members, MembersAfter DEF KeysetIsLinked, list_add, list_remove, list_contains, AddHere, RemoveHere,
    Answer, Arrived
<1>2. /\ call[t] # Set!None /\ call[t].ret = "pending"
      /\ Found(t) <=> call[t].key \in Keyset
  BY <1>1, FoundIsMember DEF Inv, LocksAgree
<1>3. CASE list_add(t)
  <2>1. /\ call[t].op = "add"
        /\ call' = [call EXCEPT ![t].ret = IF ~Found(t) THEN "true" ELSE "false"]
    BY <1>3 DEF list_add, AddHere, Answer
  <2>2. Keyset' = Keyset \cup {call[t].key}
    <3>1. CASE Found(t)
      <4>1. Linked' = Linked
        BY <1>3, <3>1, LinkedStep DEF Step, Adds, Removes, list_add, list_remove, AddHere, RemoveHere
      <4> QED BY <1>1, <1>2, <3>1, <4>1
    <3>2. CASE ~Found(t)
      <4>1. Linked' = Linked \cup {node[t]}
        BY <1>3, <3>2, LinkedStep DEF Step, Adds
      <4>2. key[node[t]] = call[t].key
        BY <1>2, <2>1 DEF Inv, KeysAgree
      <4> QED BY <1>1, <4>1, <4>2
    <3> QED BY <3>1, <3>2
  <2> QED BY <1>2, <2>1, <2>2 DEF Set!Effect, Set!Answer, Set!Left
<1>4. CASE list_remove(t)
  <2>1. /\ call[t].op = "remove"
        /\ call' = [call EXCEPT ![t].ret = IF Found(t) THEN "true" ELSE "false"]
    BY <1>4 DEF list_remove, RemoveHere, Answer
  <2>2. Keyset' = Keyset \ {call[t].key}
    <3>1. CASE ~Found(t)
      <4>1. Linked' = Linked
        BY <1>4, <3>1, LinkedStep DEF Step, Adds, Removes, list_add, list_remove, AddHere, RemoveHere
      <4> QED BY <1>1, <1>2, <3>1, <4>1
    <3>2. CASE Found(t)
      <4>1. Linked' = Linked \ {cur[t]} /\ cur[t] \in Linked /\ key[cur[t]] = call[t].key
        BY <1>4, <3>2, LinkedStep DEF Step, Removes, Found
      <4>2. \A n \in Linked : key[n] = call[t].key => n = cur[t]
        BY <4>1 DEF Inv, IsList
      <4> QED BY <1>1, <4>1, <4>2
    <3> QED BY <3>1, <3>2
  <2> QED BY <1>2, <2>1, <2>2 DEF Set!Effect, Set!Answer, Set!Left
<1>5. CASE list_contains(t)
  <2>1. /\ call[t].op = "contains"
        /\ call' = [call EXCEPT ![t].ret = IF Found(t) THEN "true" ELSE "false"]
    BY <1>5 DEF list_contains, Answer
  <2>2. Keyset' = Keyset
    <3>1. Linked' = Linked
      BY <1>5, LinkedStep DEF Step, Adds, Removes, list_add, list_remove, list_contains, AddHere, RemoveHere
    <3> QED BY <1>1, <3>1
  <2> QED BY <1>2, <2>1, <2>2 DEF Set!Effect, Set!Answer, Set!Left
<1> QED BY <1>3, <1>4, <1>5

\* Nothing else changes the set.
LEMMA SetStays ==
  ASSUME Inv, Inv', NEW t \in Threads, Invoke(t) \/ LockHead(t) \/ LockCur(t) \/ Step(t),
         ~Adds(t), ~Removes(t)
  PROVE  Keyset' = Keyset
<1>1. Linked' = Linked
  BY LinkedStep
<1>2. \A n \in Linked : key'[n] = key[n]
  BY MembersStep DEF Linked, AllNodes
<1> QED BY <1>1, <1>2, Members, MembersAfter DEF KeysetIsLinked

\* The hand-over-hand list implements the abstract set: every operation takes effect at one
\* moment between its call and its return (list_fine.cpp:45-124).
THEOREM Linearizable == Spec => IsASet
<1>1. Init => Set!SetInit
  <2> SUFFICES ASSUME Init PROVE Set!SetInit
    OBVIOUS
  <2>1. Linked = {}
    BY DEF Init, ListInit, Linked
  <2>2. Keyset = {}
    BY <2>1, InvInitially, Members DEF KeysetIsLinked
  <2> QED BY <2>2 DEF Set!SetInit, Init, ListInit
<1>2. Inv /\ Inv' /\ [Next]_vars => [Set!SetNext]_(Set!setVars)
  <2> SUFFICES ASSUME Inv, Inv', [Next]_vars PROVE [Set!SetNext]_(Set!setVars)
    OBVIOUS
  <2>1. ASSUME NEW t \in Threads, Invoke(t) PROVE Set!Invoke(t)
    <3>1. pc[t] = "idle" /\ call[t] = Set!None
      BY <2>1 DEF Invoke, Call, Inv, LocksAgree
    <3>2. Keyset' = Keyset
      BY <2>1, <3>1, SetStays DEF Adds, Removes, list_add, list_remove, Arrived
    <3>3. \E o \in Set!Ops, k \in Keys :
            call' = [call EXCEPT ![t] = [op |-> o, key |-> k, ret |-> "pending"]]
      BY <2>1 DEF Invoke, Call
    <3> QED BY <3>1, <3>2, <3>3 DEF Set!Invoke
  <2>2. ASSUME NEW t \in Threads, Return(t) PROVE Set!Return(t)
    <3>1. pc[t] = "return" /\ call' = [call EXCEPT ![t] = Set!None]
      BY <2>2 DEF Return, Leave
    <3>2. Keyset' = Keyset
      BY <2>2, <3>1, SetStays DEF Step, Adds, Removes, list_add, list_remove, Arrived
    <3>3. call[t].ret # "pending"
      BY <3>1 DEF Inv, LocksAgree
    <3> QED BY <3>1, <3>2, <3>3 DEF Set!Return
  <2>3. ASSUME NEW t \in Threads,
               LockHead(t) \/ LockCur(t) \/ Advance(t) \/ UnlockPrev(t) \/ UnlockCur(t) \/ Free(t)
        PROVE  UNCHANGED Set!setVars
    <3>1. call' = call
      BY <2>3 DEF LockHead, LockCur, Advance, UnlockPrev, UnlockCur, Free
    <3>2. ~Adds(t) /\ ~Removes(t)
      <4>1. ASSUME list_add(t) \/ list_remove(t) PROVE FALSE
        <5>1. call'[t].ret # "pending" /\ call[t].ret = "pending"
          <6>1. PICK r \in {"true", "false"} : call' = [call EXCEPT ![t].ret = r]
            BY <4>1 DEF list_add, list_remove, AddHere, RemoveHere, Answer
          <6>2. pc[t] = "look"
            BY <4>1 DEF list_add, list_remove, Arrived
          <6>3. /\ call[t].ret = "pending"
                /\ call[t] \in [op : Set!Ops, key : Keys, ret : {"pending", "true", "false"}]
            BY <6>2, CallFacts DEF Inv, LocksAgree
          <6>4. call'[t].ret = r
            BY <6>1, <6>3, Types
          <6> QED BY <6>3, <6>4
        <5> QED BY <3>1, <5>1
      <4> QED BY <4>1 DEF Adds, Removes
    <3>3. Keyset' = Keyset
      BY <2>3, <3>2, SetStays DEF Step
    <3> QED BY <3>1, <3>3 DEF Set!setVars
  <2>4. ASSUME NEW t \in Threads, list_add(t) \/ list_remove(t) \/ list_contains(t) PROVE Set!Effect(t)
    BY <2>4, TakesEffect
  <2>5. CASE UNCHANGED vars
    BY <2>5 DEF vars, listVars, Set!setVars, Keyset, NodesFrom
  <2> QED BY <2>1, <2>2, <2>3, <2>4, <2>5 DEF Next, Step, Set!SetNext
<1> QED BY <1>1, <1>2, Invariance, PTL DEF Spec, IsASet, Set!SetSpec
=============================================================================
