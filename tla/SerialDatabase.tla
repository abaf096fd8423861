---------------------------- MODULE SerialDatabase ----------------------------
(***************************************************************************)
(* What project2's database promises: transactions take effect one at a    *)
(* time, whole, in the order of their commit ids, and each worker thread's *)
(* log file holds its own committed transactions with the values they left *)
(* behind.  At most txnNum transactions commit.                            *)
(***************************************************************************)
EXTENDS Integers, Sequences, FiniteSets

CONSTANTS Threads, Records, txnNum, INIT_VALUE, LLONG_MAX

VARIABLES
  db,   \* value of each record
  log   \* log[t]: the lines of thread t's file

serialVars == <<db, log>>

\* Values of long long, with the wrap-around of two's complement.
LongLong == (-LLONG_MAX - 1) .. LLONG_MAX
Wrap(x) == ((x + LLONG_MAX + 1) % (2 * LLONG_MAX + 2)) - LLONG_MAX - 1

\* What pickRandNum returns: three distinct records <<i, j, k>>.
Picks == {p \in [1 .. 3 -> Records] : \A m, n \in 1 .. 3 : m # n => p[m] # p[n]}

\* The values written to the second and the third record, from the value vi
\* read in the first and the value the record has.
AddRead(vj, vi) == Wrap(vj + vi + 1)
SubRead(vk, vi) == Wrap(vk - vi)

Effect(values, p) ==
  [values EXCEPT ![p[2]] = AddRead(@, values[p[1]]),
                 ![p[3]] = SubRead(@, values[p[1]])]

\* One line of a log file.
Line(id, p, values) == [id |-> id, pick |-> p, values |-> [n \in 1 .. 3 |-> values[p[n]]]]

Lines == UNION {{<<t, n>> : n \in DOMAIN log[t]} : t \in Threads}

SerialInit ==
  /\ db = [r \in Records |-> INIT_VALUE]
  /\ log = [t \in Threads |-> <<>>]

Commit(t, p) ==
  LET id == Cardinality(Lines) + 1
  IN  /\ id <= txnNum
      /\ db' = Effect(db, p)
      /\ log' = [log EXCEPT ![t] = Append(@, Line(id, p, db'))]

SerialNext == \E t \in Threads, p \in Picks : Commit(t, p)

SerialSpec == SerialInit /\ [][SerialNext]_serialVars
=============================================================================
