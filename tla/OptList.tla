------------------------------- MODULE OptList -------------------------------
(***************************************************************************)
(* lab11, list_opt.cpp (and list_free.cpp, the same code).  An operation   *)
(* walks from the head without locks, locks the two nodes it has arrived   *)
(* at, walks once more to see that they are still linked, and starts again *)
(* if they are not.  Removed nodes are not freed.                          *)
(*                                                                         *)
(* Each load of a next pointer is a step; the keys of nodes in the list do *)
(* not change.  Stores are in program order.                               *)
(***************************************************************************)
EXTENDS ListSet

VARIABLE it  \* the local of list_validate, which begins at the head

vars == <<listVars, it>>

Stages == {"idle", "start", "walk", "lock", "validate", "valid", "unlock",
           "unlock cur", "return", "retry", "retry cur", "relock"}

Init == ListInit /\ it = [t \in Threads |-> Head]

Invoke(t) == Call(t) /\ UNCHANGED it

\* prev = head; cur = head->next.
Begin(t) ==
  /\ pc[t] = "start" /\ Goto(t, "walk")
  /\ prev' = [prev EXCEPT ![t] = Head]
  /\ cur' = [cur EXCEPT ![t] = next[Head]]
  /\ UNCHANGED <<key, next, mutex, unused, node, call, it>>

\* The body of while(cur->key < key).
Advance(t) ==
  /\ pc[t] = "walk" /\ key[cur[t]] < call[t].key
  /\ prev' = [prev EXCEPT ![t] = cur[t]]
  /\ cur' = [cur EXCEPT ![t] = next[cur[t]]]
  /\ UNCHANGED <<key, next, mutex, unused, pc, node, call, it>>

LockPrev(t) ==
  /\ pc[t] = "walk" /\ key[cur[t]] >= call[t].key /\ Goto(t, "lock")
  /\ Lock(t, prev[t])
  /\ UNCHANGED <<key, next, unused, prev, cur, node, call, it>>

\* Lock cur, and enter list_validate.
LockCur(t) ==
  /\ pc[t] = "lock" /\ Goto(t, "validate")
  /\ Lock(t, cur[t])
  /\ UNCHANGED <<key, next, unused, prev, cur, node, call, it>>

\* No second walk: the two nodes are still linked to each other (mutant).
validateLinkOnly(t) ==
  /\ pc[t] = "validate"
  /\ Goto(t, IF next[prev[t]] = cur[t] THEN "valid" ELSE "retry")
  /\ UNCHANGED <<key, next, mutex, unused, prev, cur, node, call, it>>

\* One turn of the loop of list_validate.
list_validate(t) ==
  /\ pc[t] = "validate"
  /\ \/ /\ it[t] = prev[t]
        /\ Goto(t, IF next[it[t]] = cur[t] THEN "valid" ELSE "retry")
        /\ it' = [it EXCEPT ![t] = Head]
     \/ /\ it[t] # prev[t] /\ key[it[t]] <= key[prev[t]]
        /\ it' = [it EXCEPT ![t] = next[it[t]]]
        /\ UNCHANGED pc
     \/ /\ key[it[t]] > key[prev[t]]
        /\ Goto(t, "retry")
        /\ it' = [it EXCEPT ![t] = Head]
  /\ UNCHANGED <<key, next, mutex, unused, prev, cur, node, call>>

\* Give both locks back and start again.
RetryPrev(t) ==
  /\ pc[t] = "retry" /\ Goto(t, "retry cur")
  /\ Unlock(prev[t])
  /\ UNCHANGED <<key, next, unused, prev, cur, node, call, it>>

\* One lock is not given back (mutant).
RetryOnly(t) ==
  /\ pc[t] = "retry cur" /\ Goto(t, "start")
  /\ UNCHANGED <<key, next, mutex, unused, prev, cur, node, call, it>>

RetryCur(t) ==
  /\ pc[t] = "retry cur" /\ Goto(t, "start")
  /\ Unlock(cur[t])
  /\ prev' = [prev EXCEPT ![t] = Head]
  /\ cur' = [cur EXCEPT ![t] = Head]
  /\ UNCHANGED <<key, next, unused, node, call, it>>

list_add(t) == pc[t] = "valid" /\ AddHere(t) /\ UNCHANGED it
list_remove(t) == pc[t] = "valid" /\ RemoveHere(t) /\ UNCHANGED it

\* Where it should unlock the two nodes it locks prev, which it holds.  A
\* pthread mutex with default attributes is not recursive: the thread waits for
\* ever, and no step follows.
list_contains(t) ==
  /\ pc[t] = "valid" /\ call[t].op = "contains"
  /\ Answer(t, "relock", Found(t))
  /\ UNCHANGED <<next, it>>

UnlockFirst(t) == UnlockPrev(t) /\ UNCHANGED it

UnlockCur(t) ==
  /\ pc[t] = "unlock cur" /\ Goto(t, "return")
  /\ Unlock(cur[t])
  /\ UNCHANGED <<key, next, unused, prev, cur, node, call, it>>

\* The nodes on the way from the head, or from a local of another thread.
KnownWithout(t) ==
  NodesFrom(UNION {{prev[u], cur[u], node[u], it[u]} : u \in Threads \ {t}})

\* A removed node stays allocated; once nobody can get at it, here it returns
\* to the memory.
Return(t) ==
  /\ Leave(t) /\ UNCHANGED it
  /\ Forget(Nodes \ KnownWithout(t))

Step(t) ==
  \/ Begin(t) \/ Advance(t) \/ list_validate(t) \/ RetryPrev(t) \/ RetryCur(t)
  \/ list_add(t) \/ list_remove(t) \/ list_contains(t)
  \/ UnlockFirst(t) \/ UnlockCur(t) \/ Return(t)

Next == \E t \in Threads : Invoke(t) \/ LockPrev(t) \/ LockCur(t) \/ Step(t)

Spec == Init /\ [][Next]_vars

\* Fairness: as in FineList.
FairSpec ==
  Spec /\ \A t \in Threads : WF_vars(Step(t)) /\ SF_vars(LockPrev(t) \/ LockCur(t))

-----------------------------------------------------------------------------
TypeOK ==
  /\ ListTypeOK
  /\ pc \in [Threads -> Stages]
  /\ it \in [Threads -> AllNodes]

\* What a thread has validated stays so while it holds the two locks: prev is in
\* the list, not cut off from it, and cur comes next (list_opt.cpp:45-54,76-90).
ValidatedStays ==
  \A t \in Threads :
    pc[t] = "valid" => prev[t] \in {Head} \cup NodesFrom({}) /\ next[prev[t]] = cur[t]

\* The new node of thread t that is not in the list, because it is not yet or will not be.
Aside(t) == IF call[t].op = "add" /\ call[t].ret # "true" THEN {node[t]} ELSE {}

\* The nodes that walks may meet: those of the list and those that have been in it.
Shared == Nodes \ (unused \cup UNION {Aside(t) : t \in Threads})
Linked == NodesFrom({})

OneOwner ==
  \A t \in Threads :
    /\ Aside(t) \subseteq Nodes \ unused
    /\ \A u \in Threads : t # u => Aside(t) \cap Aside(u) = {}

\* Every way leads to larger keys and in the end to the tail, never to a node of one thread.
LinksAgree ==
  /\ \A m \in (Nodes \ unused) \cup {Head} :
       next[m] \in Shared \cup {Tail} /\ key[m] < key[next[m]]
  /\ \A n \in unused : next[n] = Tail

KeysAgree ==
  /\ key[Head] = INT_MIN /\ key[Tail] = INT_MAX
  /\ \A n \in Nodes \ unused : key[n] \in Keys
  /\ \A t \in Threads : call[t].op = "add" /\ call[t].ret # "true" => key[node[t]] = call[t].key

\* Where thread t is, the locks it has, and how far its second walk has come: a node that
\* was taken out of the list cannot be met any more by a walk from the head.
PlaceAgrees(t) ==
  /\ pc[t] = "idle" <=> call[t] = Set!None
  /\ pc[t] \in {"unlock", "unlock cur", "return", "relock"} <=> call[t].ret # "pending"
  /\ prev[t] \in Shared \cup {Head}
  /\ cur[t] \in Shared \cup {Head, Tail}
  /\ it[t] \in Shared \cup {Head, Tail} /\ (pc[t] # "validate" => it[t] = Head)
  /\ pc[t] \notin {"idle", "start"} => key[prev[t]] < call[t].key \/ pc[t] = "return"
  /\ pc[t] \in {"lock", "validate", "valid", "unlock", "retry"} =>
       mutex[prev[t]] = t /\ key[cur[t]] >= call[t].key
  /\ pc[t] \in {"validate", "valid", "unlock", "unlock cur", "retry", "retry cur"} => mutex[cur[t]] = t
  /\ pc[t] = "validate" /\ prev[t] \in NodesFrom({it[t]}) => prev[t] \in Linked

\* The invariant of the optimistic list: the nodes are well formed, also those taken out of
\* the list, and what was validated holds until the locks are given back
\* (list_opt.cpp:45-54,73-90).
Inv ==
  /\ TypeOK /\ OneOwner /\ LinksAgree /\ KeysAgree /\ IsList(Linked, key, next)
  /\ \A t \in Threads : PlaceAgrees(t)
  /\ ValidatedStays

\* The list is a set, although the walks meet nodes that are being removed and
\* nodes that no longer belong to it (list_opt.cpp:57-160).
IsASet == Set!SetSpec

\* Unless somebody calls list_contains, which waits for itself once its nodes are valid,
\* some call returns as long as there are calls: a thread starts again only because
\* another one got through (list_opt.cpp:66-93,102-129,145-155).
SomeCallReturns ==
  [](\A t \in Threads : call[t].op # "contains") =>
    ((\E t \in Threads : pc[t] # "idle") ~> (\E t \in Threads : pc[t] = "return"))
=============================================================================
