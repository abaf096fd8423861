------------------------------- MODULE FineList -------------------------------
(***************************************************************************)
(* lab11, list_fine.cpp.  An operation walks from the head with the locks  *)
(* of two neighbours, taking the next before it gives back the last; a     *)
(* removed node is freed after its lock has been given back.               *)
(*                                                                         *)
(* The next pointer of a node is used under its lock, so that the accesses *)
(* between two lock operations are one step.                               *)
(***************************************************************************)
EXTENDS ListSet

vars == listVars

Stages == {"idle", "start", "lock", "look", "unlock", "unlock cur", "free", "return"}

Init == ListInit

Invoke(t) == Call(t)

\* prev = head; lock prev; cur = head->next.
LockHead(t) ==
  /\ pc[t] = "start" /\ Goto(t, "lock")
  /\ Lock(t, Head)
  /\ prev' = [prev EXCEPT ![t] = Head]
  /\ cur' = [cur EXCEPT ![t] = next[Head]]
  /\ UNCHANGED <<key, next, unused, node, call>>

\* A walk that locks one node at a time (mutant).
PassCur(t) ==
  /\ pc[t] = "lock" /\ Goto(t, "look")
  /\ UNCHANGED <<key, next, mutex, unused, prev, cur, node, call>>

\* A walk that never waits: it starts again when the next node is locked (mutant).
TryCur(t) ==
  /\ pc[t] = "lock"
  /\ IF mutex[cur[t]] = Nobody
     THEN Goto(t, "look") /\ Lock(t, cur[t])
     ELSE Goto(t, "start") /\ Unlock(prev[t])
  /\ UNCHANGED <<key, next, unused, prev, cur, node, call>>

LockCur(t) ==
  /\ pc[t] = "lock" /\ Goto(t, "look")
  /\ Lock(t, cur[t])
  /\ UNCHANGED <<key, next, unused, prev, cur, node, call>>

\* An off-by-one: it walks past a node with the key itself (mutant).
AdvancePastKey(t) ==
  /\ pc[t] = "look" /\ Goto(t, "lock")
  /\ key[cur[t]] <= call[t].key
  /\ Unlock(prev[t])
  /\ prev' = [prev EXCEPT ![t] = cur[t]]
  /\ cur' = [cur EXCEPT ![t] = next[cur[t]]]
  /\ UNCHANGED <<key, next, unused, node, call>>

\* The body of while(cur->key < key), up to the next lock.
Advance(t) ==
  /\ pc[t] = "look" /\ Goto(t, "lock")
  /\ key[cur[t]] < call[t].key
  /\ Unlock(prev[t])
  /\ prev' = [prev EXCEPT ![t] = cur[t]]
  /\ cur' = [cur EXCEPT ![t] = next[cur[t]]]
  /\ UNCHANGED <<key, next, unused, node, call>>

Arrived(t) == pc[t] = "look" /\ key[cur[t]] >= call[t].key

list_add(t) == Arrived(t) /\ AddHere(t)
list_remove(t) == Arrived(t) /\ RemoveHere(t)
list_contains(t) ==
  /\ Arrived(t) /\ call[t].op = "contains"
  /\ UNCHANGED next
  /\ Answer(t, "unlock", Found(t))

Removed(t) == call[t].op = "remove" /\ call[t].ret = "true"
Rejected(t) == call[t].op = "add" /\ call[t].ret = "false"

UnlockCur(t) ==
  /\ pc[t] = "unlock cur"
  /\ Goto(t, IF Removed(t) THEN "free" ELSE "return")
  /\ Unlock(cur[t])
  /\ UNCHANGED <<key, next, unused, prev, cur, node, call>>

\* free(cur).
Free(t) ==
  /\ pc[t] = "free" /\ Goto(t, "return")
  /\ Forget({cur[t]})
  /\ UNCHANGED <<mutex, prev, cur, node, call>>

\* The node of an add that fails is never freed; nobody knows it any more, and
\* here it returns to the memory.
Return(t) ==
  /\ Leave(t)
  /\ Forget(IF Rejected(t) THEN {node[t]} ELSE {})

Step(t) ==
  \/ Advance(t) \/ list_add(t) \/ list_remove(t) \/ list_contains(t)
  \/ UnlockPrev(t) \/ UnlockCur(t) \/ Free(t) \/ Return(t)

Next == \E t \in Threads : Invoke(t) \/ LockHead(t) \/ LockCur(t) \/ Step(t)

Spec == Init /\ [][Next]_vars

(***************************************************************************)
(* Fairness: a running thread runs on.  The mutex of a node is free again  *)
(* and again but need not stay so: pthread mutexes are not fair by         *)
(* contract, strong fairness says that nobody is passed over for ever.     *)
(***************************************************************************)
FairSpec ==
  Spec /\ \A t \in Threads : WF_vars(Step(t)) /\ SF_vars(LockHead(t) \/ LockCur(t))

-----------------------------------------------------------------------------
TypeOK == ListTypeOK /\ pc \in [Threads -> Stages]

\* A thread never uses a node that has been freed, nor waits for or gives back
\* its mutex, although it is freed with nobody's lock held (list_fine.cpp:57-62,96-100).
NodesAreThere ==
  \A t \in Threads :
    /\ pc[t] \in {"lock", "look", "unlock"} => prev[t] \notin unused
    /\ pc[t] \in {"lock", "look", "unlock", "unlock cur"} => cur[t] \notin unused

\* The node that thread t has for itself: a new one that is not in the list, because it is
\* not yet or will not be added, or one that it took out of the list and has not freed.
Aside(t) ==
  IF call[t].op = "add" /\ call[t].ret # "true" THEN {node[t]}
  ELSE IF Removed(t) /\ pc[t] # "return" THEN {cur[t]} ELSE {}

\* All other nodes in use: the list.
Linked == Nodes \ (unused \cup UNION {Aside(t) : t \in Threads})

OneOwner ==
  \A t \in Threads :
    /\ Aside(t) \subseteq Nodes \ unused
    /\ \A u \in Threads : t # u => Aside(t) \cap Aside(u) = {}

KeysAgree ==
  /\ key[Head] = INT_MIN /\ key[Tail] = INT_MAX
  /\ \A n \in Linked : key[n] \in Keys
  /\ \A t \in Threads : call[t].op = "add" /\ call[t].ret # "true" => key[node[t]] = call[t].key

\* Thread t has the locks it counts on, of neighbours in the list.
LocksAgree(t) ==
  /\ pc[t] = "idle" <=> call[t] = Set!None
  /\ pc[t] \in {"idle", "start", "lock", "look"} <=> call[t].ret = "pending"
  /\ pc[t] = "free" => Removed(t)
  /\ pc[t] \in {"lock", "look", "unlock"} =>
       /\ prev[t] \in Linked \cup {Head} /\ prev[t] # cur[t] /\ mutex[prev[t]] = t
  /\ pc[t] \in {"lock", "look"} => key[prev[t]] < call[t].key /\ next[prev[t]] = cur[t]
  /\ pc[t] \in {"look", "unlock", "unlock cur"} => mutex[cur[t]] = t
  /\ pc[t] \in {"unlock", "unlock cur"} => cur[t] \in Linked \cup {Tail} \cup Aside(t)

\* The invariant of the hand-over-hand list: the linked nodes are a sorted list, the others
\* have one owner or none, and a thread that walks or unlocks has the two locks and none of
\* its nodes has been freed (list_fine.cpp:52-62,68-72,96-102).
Inv ==
  /\ TypeOK /\ OneOwner /\ KeysAgree /\ IsList(Linked, key, next)
  /\ \A t \in Threads : LocksAgree(t)
  /\ NodesAreThere

\* The list is a set: each operation takes effect at one moment between its call
\* and its return, whatever the others do to the neighbouring nodes meanwhile
\* (list_fine.cpp:45-124).
IsASet == Set!SetSpec

\* Every call returns: threads that hold one node and wait for the next do not
\* wait in a circle (list_fine.cpp:53-62,80-90,108-118).
CallsReturn == \A t \in Threads : (pc[t] = "start") ~> (pc[t] = "idle")
=============================================================================
