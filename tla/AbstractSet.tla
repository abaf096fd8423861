----------------------------- MODULE AbstractSet -----------------------------
(***************************************************************************)
(* What the lists of lab11 promise: a set of keys with the operations add, *)
(* remove and contains, each of which takes effect at one moment between   *)
(* its call and its return.                                                *)
(***************************************************************************)
CONSTANTS Threads, Keys

VARIABLES
  members,  \* the set
  call      \* call[t]: what thread t is doing

setVars == <<members, call>>

Ops == {"add", "remove", "contains"}
None == [op |-> "none", key |-> 0, ret |-> "pending"]

\* What an operation returns when it takes effect on a set, and what is left.
Answer(op, k, set) ==
  IF op = "add" THEN k \notin set ELSE k \in set
Left(op, k, set) ==
  CASE op = "add" -> set \cup {k}
    [] op = "remove" -> set \ {k}
    [] op = "contains" -> set

SetInit ==
  /\ members = {}
  /\ call = [t \in Threads |-> None]

Invoke(t) ==
  /\ call[t] = None
  /\ \E o \in Ops, k \in Keys :
       call' = [call EXCEPT ![t] = [op |-> o, key |-> k, ret |-> "pending"]]
  /\ UNCHANGED members

Effect(t) ==
  LET c == call[t]
  IN  /\ c # None /\ c.ret = "pending"
      /\ call' = [call EXCEPT ![t].ret = IF Answer(c.op, c.key, members) THEN "true" ELSE "false"]
      /\ members' = Left(c.op, c.key, members)

Return(t) ==
  /\ call[t].ret # "pending"
  /\ call' = [call EXCEPT ![t] = None]
  /\ UNCHANGED members

SetNext == \E t \in Threads : Invoke(t) \/ Effect(t) \/ Return(t)

SetSpec == SetInit /\ [][SetNext]_setVars
=============================================================================
