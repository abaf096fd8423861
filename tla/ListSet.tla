------------------------------- MODULE ListSet -------------------------------
(***************************************************************************)
(* lab11: what the sorted lists with a mutex in every node have in common  *)
(* (list_fine.cpp, list_opt.cpp, list_free.cpp): the nodes, the locals of  *)
(* an operation, its beginning and its end.  The modules FineList and      *)
(* OptList add how an operation finds its place.                           *)
(***************************************************************************)
EXTENDS Integers, FiniteSets

CONSTANTS
  Threads, Keys,
  Nodes,             \* the memory for nodes but the head and the tail
  Head, Tail, NULL,
  INT_MIN, INT_MAX,
  Nobody             \* owner of a mutex that is free

ASSUME ListAssumption ==
  /\ Keys \subseteq INT_MIN + 1 .. INT_MAX - 1 /\ INT_MIN \in Int /\ INT_MAX \in Int
  /\ INT_MIN < INT_MAX
  /\ {Head, Tail, NULL} \cap Nodes = {}
  /\ Head # Tail /\ NULL \notin {Head, Tail}
  /\ Nobody \notin Threads

VARIABLES
  key, next, mutex,  \* the members of the nodes; mutex[n]: who has it
  unused,            \* the nodes that are not allocated
  pc,                \* where each thread is
  prev, cur, node,   \* its locals
  call               \* its call, and what the call returns

listVars == <<key, next, mutex, unused, pc, prev, cur, node, call>>

AllNodes == Nodes \cup {Head, Tail}

\* The nodes on the way from the head, or from one of ns, to the tail: those in every set
\* that has the nodes of ns and with a node, as for the head, the next one.
NodesFrom(ns) ==
  {n \in Nodes : \A S \in SUBSET Nodes :
     /\ ns \subseteq S \cup {Head, Tail}
     /\ \A m \in S \cup {Head} : next[m] \in S \cup {Tail}
     => n \in S}

\* The keys in the list, as a walk without locks would find them.
Keyset == {key[n] : n \in NodesFrom({})}

\* Nodes L with keys k and next pointers nx are a list from the head to the tail: the next
\* node of a node is the one with the next larger key, and the head leads to all.
IsList(L, k, nx) ==
  /\ L \subseteq Nodes
  /\ \A m \in L \cup {Head} :
       /\ nx[m] \in L \cup {Tail}
       /\ k[m] < k[nx[m]]
       /\ \A n \in L \cup {Head, Tail} : k[n] <= k[m] \/ k[nx[m]] <= k[n]
  /\ \A m, n \in L \cup {Head, Tail} : k[m] = k[n] => m = n
  /\ \A S \in SUBSET Nodes :
       (\A m \in S \cup {Head} : nx[m] \in S \cup {Tail}) => L \subseteq S

Set == INSTANCE AbstractSet WITH members <- Keyset

\* list_init.
ListInit ==
  /\ key = [n \in AllNodes |-> IF n = Tail THEN INT_MAX ELSE INT_MIN]
  /\ next = [n \in AllNodes |-> IF n = Tail THEN NULL ELSE Tail]
  /\ mutex = [n \in AllNodes |-> Nobody]
  /\ unused = Nodes
  /\ pc = [t \in Threads |-> "idle"]
  /\ prev = [t \in Threads |-> Head]
  /\ cur = [t \in Threads |-> Head]
  /\ node = [t \in Threads |-> Head]
  /\ call = [t \in Threads |-> Set!None]

-----------------------------------------------------------------------------
Goto(t, l) == pc' = [pc EXCEPT ![t] = l]

\* One line of the workload.  list_add allocates its node first.
Call(t) ==
  /\ pc[t] = "idle" /\ Goto(t, "start")
  /\ \E o \in Set!Ops, k \in Keys :
       /\ call' = [call EXCEPT ![t] = [op |-> o, key |-> k, ret |-> "pending"]]
       /\ IF o = "add"
          THEN \E n \in unused :
                 /\ node' = [node EXCEPT ![t] = n]
                 /\ key' = [key EXCEPT ![n] = k]
                 /\ mutex' = [mutex EXCEPT ![n] = Nobody]
                 /\ unused' = unused \ {n}
          ELSE UNCHANGED <<node, key, mutex, unused>>
  /\ UNCHANGED <<next, prev, cur>>

\* pthread_mutex_lock and pthread_mutex_unlock of node n.
Lock(t, n) == mutex[n] = Nobody /\ mutex' = [mutex EXCEPT ![n] = t]
Unlock(n) == mutex' = [mutex EXCEPT ![n] = Nobody]

\* The place is found, prev and cur are locked: what the operation does there,
\* and the value it will return.
Found(t) == key[cur[t]] = call[t].key

Answer(t, l, b) ==
  /\ Goto(t, l)
  /\ call' = [call EXCEPT ![t].ret = IF b THEN "true" ELSE "false"]
  /\ UNCHANGED <<key, mutex, unused, prev, cur, node>>

AddHere(t) ==
  /\ call[t].op = "add"
  /\ next' = IF Found(t) THEN next ELSE [next EXCEPT ![prev[t]] = node[t], ![node[t]] = cur[t]]
  /\ Answer(t, "unlock", ~Found(t))

RemoveHere(t) ==
  /\ call[t].op = "remove"
  /\ next' = IF Found(t) THEN [next EXCEPT ![prev[t]] = next[cur[t]]] ELSE next
  /\ Answer(t, "unlock", Found(t))

UnlockPrev(t) ==
  /\ pc[t] = "unlock" /\ Goto(t, "unlock cur")
  /\ Unlock(prev[t])
  /\ UNCHANGED <<key, next, unused, prev, cur, node, call>>

\* What a node holds that nobody knows is of no interest: it reads as at first.
Forget(ns) ==
  /\ unused' = unused \cup ns
  /\ key' = [n \in AllNodes |-> IF n \in ns THEN INT_MIN ELSE key[n]]
  /\ next' = [n \in AllNodes |-> IF n \in ns THEN Tail ELSE next[n]]

\* The locals of the call are gone.
Leave(t) ==
  /\ pc[t] = "return" /\ Goto(t, "idle")
  /\ call' = [call EXCEPT ![t] = Set!None]
  /\ prev' = [prev EXCEPT ![t] = Head]
  /\ cur' = [cur EXCEPT ![t] = Head]
  /\ node' = [node EXCEPT ![t] = Head]
  /\ UNCHANGED mutex

-----------------------------------------------------------------------------
ListTypeOK ==
  /\ key \in [AllNodes -> Keys \cup {INT_MIN, INT_MAX}]
  /\ next \in [AllNodes -> AllNodes \cup {NULL}]
  /\ mutex \in [AllNodes -> Threads \cup {Nobody}]
  /\ unused \subseteq Nodes
  /\ prev \in [Threads -> AllNodes] /\ cur \in [Threads -> AllNodes]
  /\ node \in [Threads -> AllNodes]
  /\ call \in [Threads -> {Set!None} \cup
                 [op : Set!Ops, key : Keys, ret : {"pending", "true", "false"}]]
=============================================================================
