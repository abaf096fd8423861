---------------------------- MODULE PrimePoolProofs ----------------------------
(***************************************************************************)
(* PrimePool and ThreadGroup for every number of workers and every input:  *)
(* a count that is printed is right, lab6 wakes no worker that is not      *)
(* asleep, and a thread group prints every result.                         *)
(***************************************************************************)
EXTENDS ThreadGroup, SequenceTheorems, FiniteSetTheorems, WellFoundedInduction, TLAPS

(***************************************************************************)
(* Sums.                                                                   *)
(***************************************************************************)

\* Induction, for a property given as the set of the numbers that have it.
LEMMA SetInduction ==
  ASSUME NEW A, 0 \in A, \A n \in Nat : n \in A => n + 1 \in A
  PROVE  Nat \subseteq A
<1> DEFINE T == Nat \ A
<1> SUFFICES ASSUME T # {} PROVE FALSE
  OBVIOUS
<1>1. PICK x \in T : \A y \in T : <<y, x>> \notin OpToRel(<, Nat)
  <2>1. T \subseteq Nat /\ T # {}
    OBVIOUS
  <2> HIDE DEF T
  <2> QED BY <2>1, NatLessThanWellFounded, WFMin
<1>2. x - 1 \in T
  <2>1. x # 0 /\ x \in Nat /\ x \notin A
    BY <1>1
  <2>2. x - 1 \in Nat /\ (x - 1) + 1 = x
    BY <2>1
  <2> QED BY <2>1, <2>2
<1>3. <<x - 1, x>> \in OpToRel(<, Nat)
  BY <1>2 DEF OpToRel
<1> QED BY <1>1, <1>2, <1>3

\* The function that Sum recurs on exists, and Sum is its last value.
LEMMA SumIsItsLast ==
  ASSUME NEW f \in [Workers -> Int]
  PROVE  \E upTo \in [0 .. NUM_THREAD -> Int] :
           /\ Sum(f) = upTo[NUM_THREAD]
           /\ upTo[0] = 0
           /\ \A n \in 0 .. NUM_THREAD - 1 : upTo[n + 1] = upTo[n] + f[n]
<1> DEFINE Rec(g) == g = [n \in 0 .. NUM_THREAD |-> IF n = 0 THEN 0 ELSE g[n - 1] + f[n - 1]]
           u == CHOOSE g : Rec(g)
           A == {n \in Nat : n <= NUM_THREAD =>
                   \E g \in [0 .. n -> Int] :
                     g[0] = 0 /\ \A k \in 1 .. n : g[k] = g[k - 1] + f[k - 1]}
           B == {n \in Nat : n <= NUM_THREAD => u[n] \in Int}
<1>1. NUM_THREAD \in Nat \ {0} /\ Workers = 0 .. NUM_THREAD - 1
  BY PrimePoolAssumption DEF Workers
<1>2. NUM_THREAD \in A
  <2>1. 0 \in A
    <3> DEFINE z == [x \in 0 .. 0 |-> 0]
    <3>1. z \in [0 .. 0 -> Int] /\ z[0] = 0 /\ \A k \in 1 .. 0 : z[k] = z[k - 1] + f[k - 1]
      OBVIOUS
    <3> HIDE DEF z
    <3> QED BY <3>1
  <2>2. ASSUME NEW n \in Nat, n \in A PROVE n + 1 \in A
    <3> SUFFICES ASSUME n + 1 <= NUM_THREAD
                 PROVE  \E g \in [0 .. n + 1 -> Int] :
                          g[0] = 0 /\ \A k \in 1 .. n + 1 : g[k] = g[k - 1] + f[k - 1]
      OBVIOUS
    <3>1. PICK g \in [0 .. n -> Int] : g[0] = 0 /\ \A k \in 1 .. n : g[k] = g[k - 1] + f[k - 1]
      BY <1>1, <2>2
    <3> DEFINE h == [k \in 0 .. n + 1 |-> IF k = n + 1 THEN g[n] + f[n] ELSE g[k]]
    <3>2. f[n] \in Int /\ g[n] \in Int
      BY <1>1
    <3>3. h \in [0 .. n + 1 -> Int] /\ h[0] = 0
      BY <3>1, <3>2
    <3>4. ASSUME NEW k \in 1 .. n + 1 PROVE h[k] = h[k - 1] + f[k - 1]
      <4>1. CASE k = n + 1
        BY <4>1
      <4>2. CASE k # n + 1
        <5>1. k \in 1 .. n /\ k - 1 \in 0 .. n
          BY <4>2
        <5> QED BY <3>1, <4>2, <5>1
      <4> QED BY <4>1, <4>2
    <3> HIDE DEF h
    <3> QED BY <3>3, <3>4
  <2> HIDE DEF A
  <2> QED BY <1>1, <2>1, <2>2, SetInduction
<1>3. PICK g \in [0 .. NUM_THREAD -> Int] :
        g[0] = 0 /\ \A k \in 1 .. NUM_THREAD : g[k] = g[k - 1] + f[k - 1]
  BY <1>1, <1>2
<1>4. Rec(g)
  BY <1>1, <1>3
<1>5. Rec(u)
  <2> HIDE DEF Rec
  <2> QED BY <1>4
<1>6. u[0] = 0 /\ \A n \in 0 .. NUM_THREAD - 1 : u[n + 1] = u[n] + f[n]
  <2> HIDE DEF u
  <2>1. u[0] = 0
    BY <1>1, <1>5
  <2>2. ASSUME NEW n \in 0 .. NUM_THREAD - 1 PROVE u[n + 1] = u[n] + f[n]
    <3>1. n + 1 \in 0 .. NUM_THREAD /\ n + 1 # 0 /\ (n + 1) - 1 = n
      BY <1>1
    <3> QED BY <1>5, <3>1
  <2> QED BY <2>1, <2>2
<1>7. \A n \in Nat : n <= NUM_THREAD => u[n] \in Int
  <2> HIDE DEF u
  <2>1. 0 \in B
    BY <1>6
  <2>2. ASSUME NEW n \in Nat, n \in B PROVE n + 1 \in B
    <3>1. n + 1 <= NUM_THREAD => n \in 0 .. NUM_THREAD - 1 /\ f[n] \in Int
      BY <1>1
    <3> QED BY <1>1, <1>6, <2>2, <3>1
  <2>3. Nat \subseteq B
    <3> HIDE DEF B
    <3> QED BY <2>1, <2>2, SetInduction
  <2> QED BY <2>3
<1>8. u \in [0 .. NUM_THREAD -> Int]
  <2> HIDE DEF u
  <2> QED BY <1>1, <1>5, <1>7
<1>9. Sum(f) = u[NUM_THREAD]
  BY DEF Sum
<1> HIDE DEF u
<1> QED BY <1>6, <1>8, <1>9

LEMMA SumType == ASSUME NEW f \in [Workers -> Int] PROVE Sum(f) \in Int
BY SumIsItsLast, PrimePoolAssumption

-----------------------------------------------------------------------------
(***************************************************************************)
(* Counts of primes.                                                       *)
(***************************************************************************)
LEMMA CountSplits ==
  ASSUME NEW x \in Int, NEW y \in Int, NEW z \in Int, x <= y, y <= z
  PROVE  /\ CountPrimes(x, y) \in Nat
         /\ CountPrimes(x, z) = CountPrimes(x, y) + CountPrimes(y, z)
<1> DEFINE P(a, b) == {n \in a .. b - 1 : IsPrime(n)}
<1>1. \A a, b \in Int : IsFiniteSet(P(a, b)) /\ CountPrimes(a, b) \in Nat
  <2> TAKE a, b \in Int
  <2>1. IsFiniteSet(a .. b - 1)
    BY FS_Interval
  <2>2. IsFiniteSet(P(a, b))
    BY <2>1, FS_Subset
  <2> QED BY <2>2, FS_CardinalityType DEF CountPrimes
<1>2. P(x, z) = P(x, y) \cup P(y, z) /\ P(x, y) \cap P(y, z) = {}
  OBVIOUS
<1>3. /\ CountPrimes(x, y) = Cardinality(P(x, y)) /\ CountPrimes(y, z) = Cardinality(P(y, z))
      /\ CountPrimes(x, z) = Cardinality(P(x, z))
  BY DEF CountPrimes
<1> HIDE DEF P
<1>4. IsFiniteSet(P(x, y)) /\ IsFiniteSet(P(y, z))
  BY <1>1
<1>5. Cardinality(P(x, z)) = Cardinality(P(x, y)) + Cardinality(P(y, z)) - Cardinality({})
  BY <1>2, <1>4, FS_Union
<1> QED BY <1>1, <1>3, <1>5, FS_EmptySet

LEMMA CountType == ASSUME NEW x \in Int, NEW y \in Int PROVE CountPrimes(x, y) \in Nat
<1>1. IsFiniteSet(x .. y - 1)
  BY FS_Interval
<1>2. IsFiniteSet({n \in x .. y - 1 : IsPrime(n)})
  BY <1>1, FS_Subset
<1> QED BY <1>2, FS_CardinalityType DEF CountPrimes

LEMMA NothingToCount ==
  ASSUME NEW x \in Int, NEW y \in Int, y <= x
  PROVE  CountPrimes(x, y) = 0
<1>1. {n \in x .. y - 1 : IsPrime(n)} = {}
  OBVIOUS
<1> QED BY <1>1, FS_EmptySet DEF CountPrimes

LEMMA Times ==
  ASSUME NEW s \in Int, NEW k \in Nat
  PROVE  /\ s * k \in Int /\ s * (k + 1) = s * k + s
         /\ s >= 0 => s * k >= 0
         /\ s <= 0 => s * k <= 0
OBVIOUS

\* The equal parts do not go beyond the range.
LEMMA PartsFit ==
  ASSUME NEW a \in Nat, NEW b \in Nat
  PROVE  /\ Share(a, b) \in Int
         /\ b >= a => Share(a, b) >= 0 /\ a + Share(a, b) * (NUM_THREAD - 1) <= b + 1
         /\ b < a => Share(a, b) <= 0 /\ a + Share(a, b) * (NUM_THREAD - 1) >= b + 1
<1> DEFINE N == NUM_THREAD
<1>1. N \in Nat /\ N > 0
  BY PrimePoolAssumption
<1> HIDE DEF N
<1>2. ASSUME NEW m \in Nat
      PROVE  m \div N \in Nat /\ (m \div N) * N <= m /\ (m \div N) * (N - 1) <= m
  <2>1. m \div N \in Nat /\ (m \div N) * N <= m
    BY <1>1
  <2> QED BY <1>1, <2>1
<1>3. CASE b >= a
  <2> DEFINE d == (b - a + 1) \div N
  <2>1. b - a + 1 \in Nat
    BY <1>3
  <2>2. d \in Nat /\ d * (N - 1) <= b - a + 1
    BY <1>2, <2>1
  <2>3. Share(a, b) = d
    BY <1>3 DEF Share, N
  <2> HIDE DEF d
  <2>4. d * (N - 1) \in Int
    BY <1>1, <2>2
  <2> QED BY <1>1, <1>3, <2>2, <2>3, <2>4 DEF N
<1>4. CASE b < a
  <2> DEFINE d == (a - b - 1) \div N
  <2>1. a - b - 1 \in Nat
    BY <1>4
  <2>2. d \in Nat /\ d * (N - 1) <= a - b - 1
    BY <1>2, <2>1
  <2>3. Share(a, b) = -d
    BY <1>4 DEF Share, N
  <2> HIDE DEF d
  <2>4. (-d) * (N - 1) = -(d * (N - 1))
    BY <1>1, <2>2
  <2> QED BY <1>1, <1>4, <2>2, <2>3, <2>4 DEF N
<1> QED BY <1>3, <1>4

\* The counts of the workers add up to the count of the range.
LEMMA PartsMakeTheRange ==
  ASSUME NEW a \in Nat, NEW b \in Nat, NEW f \in [Workers -> Int],
         \A w \in Workers :
           f[w] = CountPrimes(a + Share(a, b) * w, EndOfPart(w, a, b))
  PROVE  Sum(f) = CountPrimes(a, b + 1)
<1> DEFINE N == NUM_THREAD
           s == Share(a, b)
<1>1. N \in Nat /\ N > 0 /\ Workers = 0 .. N - 1 /\ N - 1 \in Nat
  BY PrimePoolAssumption DEF Workers
<1>2. PICK upTo \in [0 .. N -> Int] :
        Sum(f) = upTo[N] /\ upTo[0] = 0 /\ \A n \in 0 .. N - 1 : upTo[n + 1] = upTo[n] + f[n]
  BY SumIsItsLast
<1>3. /\ s \in Int
      /\ b >= a => s >= 0 /\ a + s * (N - 1) <= b + 1
      /\ b < a => s <= 0 /\ a + s * (N - 1) >= b + 1
  BY PartsFit
<1>4. /\ \A w \in 0 .. N - 2 : f[w] = CountPrimes(a + s * w, a + s * (w + 1))
      /\ f[N - 1] = CountPrimes(a + s * (N - 1), b + 1)
  <2>1. /\ \A w \in 0 .. N - 2 : w \in Workers /\ EndOfPart(w, a, b) = a + s * (w + 1)
        /\ N - 1 \in Workers /\ EndOfPart(N - 1, a, b) = b + 1
    BY <1>1 DEF EndOfPart
  <2> QED BY <2>1, Zenon
<1> HIDE DEF N, s
<1> DEFINE A == {k \in Nat : k <= N - 1 => upTo[k] = CountPrimes(a, a + s * k)}
<1>5. N - 1 \in A
  <2>1. 0 \in A
    <3>1. a + s * 0 \in Int /\ a + s * 0 <= a
      BY <1>3
    <3> QED BY <1>2, <3>1, NothingToCount
  <2>2. ASSUME NEW k \in Nat, k \in A PROVE k + 1 \in A
    <3> SUFFICES ASSUME k + 1 <= N - 1 PROVE upTo[k + 1] = CountPrimes(a, a + s * (k + 1))
      OBVIOUS
    <3>1. upTo[k + 1] = CountPrimes(a, a + s * k) + CountPrimes(a + s * k, a + s * (k + 1))
      <4>1. k \in 0 .. N - 2 /\ k \in 0 .. N - 1 /\ k <= N - 1
        BY <1>1
      <4>2. upTo[k] = CountPrimes(a, a + s * k)
        BY <2>2, <4>1
      <4>3. upTo[k + 1] = upTo[k] + f[k]
        BY <1>2, <4>1
      <4> HIDE DEF A
      <4> QED BY <1>4, <4>1, <4>2, <4>3
    <3>2. /\ s * k \in Int /\ s * (k + 1) = s * k + s
          /\ s >= 0 => s * k >= 0
          /\ s <= 0 => s * k <= 0
      BY <1>3, Times
    <3> DEFINE x == a + s * k
               y == a + s * (k + 1)
    <3>3. x \in Int /\ y \in Int /\ (s >= 0 => a <= x /\ x <= y) /\ (s <= 0 => x <= a /\ y <= x)
      BY <1>3, <3>2
    <3> HIDE DEF x, y, A
    <3>4. CountPrimes(a, y) = CountPrimes(a, x) + CountPrimes(x, y)
      <4>1. CASE s >= 0
        BY <3>3, <4>1, CountSplits
      <4>2. CASE s <= 0
        <5>1. y <= a
          BY <3>3, <4>2
        <5> QED BY <3>3, <4>2, <5>1, NothingToCount
      <4> QED BY <1>3, <4>1, <4>2
    <3> QED BY <3>1, <3>4 DEF x, y
  <2> HIDE DEF A
  <2> QED BY <1>1, <2>1, <2>2, SetInduction
<1> DEFINE x == a + s * (N - 1)
<1>6. upTo[N - 1] = CountPrimes(a, x) /\ f[N - 1] = CountPrimes(x, b + 1)
  BY <1>1, <1>4, <1>5
<1>7. Sum(f) = upTo[N - 1] + f[N - 1]
  <2>1. N - 1 \in 0 .. N - 1 /\ (N - 1) + 1 = N
    BY <1>1
  <2> QED BY <1>2, <2>1
<1>8. x \in Int /\ (s >= 0 => x >= a) /\ (s <= 0 => x <= a)
  <2>1. /\ s * (N - 1) \in Int
        /\ s >= 0 => s * (N - 1) >= 0
        /\ s <= 0 => s * (N - 1) <= 0
    BY <1>1, <1>3, Times
  <2> QED BY <1>3, <2>1
<1>9. (b >= a => s >= 0 /\ x <= b + 1) /\ (b < a => s <= 0 /\ x >= b + 1)
  BY <1>3
<1> HIDE DEF x, A
<1>10. CASE b >= a
  <2>1. a <= x /\ x <= b + 1 /\ b + 1 \in Int
    BY <1>8, <1>9, <1>10
  <2> QED BY <1>6, <1>7, <1>8, <2>1, CountSplits
<1>11. CASE b < a
  <2>1. x <= a /\ b + 1 <= x /\ b + 1 <= a /\ b + 1 \in Int
    BY <1>8, <1>9, <1>11
  <2>2. CountPrimes(a, x) = 0 /\ CountPrimes(x, b + 1) = 0 /\ CountPrimes(a, b + 1) = 0
    BY <1>8, <2>1, NothingToCount
  <2> QED BY <1>6, <1>7, <2>2
<1> QED BY <1>10, <1>11

-----------------------------------------------------------------------------
(***************************************************************************)
(* Types, and the rounds of main.                                          *)
(***************************************************************************)
LEMMA RangesAreOfNumbers ==
  ASSUME ranges \in Inputs
  PROVE  /\ Len(ranges) \in Nat
         /\ \A n \in 1 .. Len(ranges) : ranges[n][1] \in Nat /\ ranges[n][2] \in Nat
<1>1. ranges \in Seq(Nat \X Nat)
  BY PrimePoolAssumption
<1>2. \A n \in 1 .. Len(ranges) : ranges[n] \in Nat \X Nat
  BY <1>1, ElementOfSeq
<1> QED BY <1>1, <1>2, LenProperties

LEMMA PartType ==
  ASSUME NEW a \in Int, NEW b \in Int, NEW w \in Workers
  PROVE  CountPrimes(a + Share(a, b) * w, EndOfPart(w, a, b)) \in Nat
<1>1. NUM_THREAD \in Nat /\ NUM_THREAD > 0 /\ w \in Nat
  BY PrimePoolAssumption DEF Workers
<1>2. \A m \in Int : m \div NUM_THREAD \in Int
  BY <1>1
<1>3. Share(a, b) \in Int
  BY <1>1, <1>2 DEF Share
<1>4. Share(a, b) * w \in Int /\ Share(a, b) * (w + 1) \in Int
  BY <1>1, <1>3, Times
<1>5. a + Share(a, b) * w \in Int /\ EndOfPart(w, a, b) \in Int
  BY <1>3, <1>4 DEF EndOfPart
<1> QED BY <1>5, CountType

LEMMA WorkerTypes ==
  ASSUME TypeOK, RoundAgrees, NEW w \in Workers, Run(w) \/ WakeSpuriously(w)
  PROVE  TypeOK' /\ RoundAgrees'
<1>1. UNCHANGED <<program, ranges, round, main, range_start, range_end, is_done, printed>>
  BY DEF Run, WakeSpuriously, TestCond, TestWork, Sleep, First, StoreLocked, CondWait, Awake,
    LoadStart, Count, Store, Mark, Add, shared, input, range
<1>2. Nobody \notin Workers
  BY PrimePoolAssumption
<1>3. ASSUME TestCond(w) PROVE TypeOK'
  BY <1>1, <1>2, <1>3 DEF TestCond, Goto, TypeOK, workVars, locals, history
<1>4. ASSUME TestWork(w) PROVE TypeOK'
  BY <1>1, <1>2, <1>4 DEF TestWork, Goto, TypeOK, workVars, locals
<1>5. ASSUME Sleep(w) PROVE TypeOK'
  BY <1>1, <1>2, <1>5 DEF Sleep, Goto, TypeOK, workVars, locals
<1>6. ASSUME First(w) PROVE TypeOK'
  BY <1>1, <1>2, <1>6 DEF First, Goto, TypeOK, workVars, locals, history
<1>7. ASSUME StoreLocked(w) PROVE TypeOK'
  BY <1>1, <1>2, <1>7 DEF StoreLocked, Goto, TypeOK, workVars, locals, history
<1>8. ASSUME CondWait(w) PROVE TypeOK'
  BY <1>1, <1>2, <1>8 DEF CondWait, Goto, TypeOK, workVars, locals, history
<1>9. ASSUME Awake(w) PROVE TypeOK'
  <2>1. PICK l \in {"cond", "done", "start"} : pc' = [pc EXCEPT ![w] = l]
    BY <1>9 DEF Awake, Goto
  <2>2. pc[w] = "awake" /\ UNCHANGED <<workVars, thread_ret, mutex, locals, history>>
    BY <1>9 DEF Awake
  <2> QED BY <1>1, <1>2, <2>1, <2>2 DEF TypeOK, workVars, locals, history
<1>10. ASSUME LoadStart(w) PROVE TypeOK'
  <2>1. PICK l \in {"done", "count"} : pc' = [pc EXCEPT ![w] = l]
    BY <1>10 DEF LoadStart, Goto
  <2>2. thread_ret' = thread_ret \/ thread_ret' = [thread_ret EXCEPT ![w] = 0]
    BY <1>10 DEF LoadStart
  <2>3. /\ pc[w] = "start" /\ start' = [start EXCEPT ![w] = range_start]
        /\ UNCHANGED <<workVars, mutex, cnt, history>>
    BY <1>10 DEF LoadStart
  <2>4. thread_ret' \in [Workers -> Nat \cup {-1}]
    BY <2>2 DEF TypeOK
  <2>5. /\ pc' \in [Workers -> {"new", "first", "cond", "work", "sleep", "wait", "asleep", "awake",
                                "start", "count", "store", "mark", "add", "done"}]
        /\ \A u \in Workers : mutex' = u <=> pc'[u] = "wait"
    BY <2>1, <2>3 DEF TypeOK
  <2>6. start' \in [Workers -> Nat \cup {-1}]
    BY <2>3 DEF TypeOK
  <2> QED BY <1>1, <1>2, <2>3, <2>4, <2>5, <2>6 DEF TypeOK, workVars, history
<1>11. ASSUME Count(w) PROVE TypeOK'
  <2>1. cnt' = [cnt EXCEPT ![w] = CountPrimes(start[w] + Share(start[w], range_end) * w,
                                              EndOfPart(w, start[w], range_end))]
    BY <1>11, Zenon DEF Count
  <2>2. /\ pc[w] = "count" /\ pc' = [pc EXCEPT ![w] = "store"]
        /\ UNCHANGED <<cond, thread_work, thread_ret, mutex, start, spurious, missed, stale>>
    <3>1. /\ pc[w] = "count" /\ pc' = [pc EXCEPT ![w] = "store"]
          /\ UNCHANGED <<shared, workVars, thread_ret, mutex, start, history>>
      BY <1>11, Zenon DEF Count, Goto
    <3> QED BY <3>1 DEF workVars, history
  <2>3. CountPrimes(start[w] + Share(start[w], range_end) * w,
                    EndOfPart(w, start[w], range_end)) \in Nat
    <3>1. start[w] \in Int /\ range_end \in Int
      BY DEF TypeOK
    <3> QED BY <3>1, PartType
  <2>4. /\ pc' \in [Workers -> {"new", "first", "cond", "work", "sleep", "wait", "asleep", "awake",
                                "start", "count", "store", "mark", "add", "done"}]
        /\ \A u \in Workers : mutex' = u <=> pc'[u] = "wait"
    BY <2>2 DEF TypeOK
  <2>5. cnt' \in [Workers -> Nat]
    BY <2>1, <2>3 DEF TypeOK
  <2> QED BY <1>1, <1>2, <2>2, <2>4, <2>5 DEF TypeOK
<1>12. ASSUME Store(w) PROVE TypeOK'
  <2>1. /\ pc[w] = "store" /\ pc' = [pc EXCEPT ![w] = IF program = "join" THEN "done" ELSE "mark"]
        /\ thread_ret' = [thread_ret EXCEPT ![w] = cnt[w]]
        /\ UNCHANGED <<cond, thread_work, mutex, start, cnt, spurious, missed, stale>>
    BY <1>12 DEF Store, Goto, workVars, locals, history
  <2>2. /\ pc' \in [Workers -> {"new", "first", "cond", "work", "sleep", "wait", "asleep", "awake",
                                "start", "count", "store", "mark", "add", "done"}]
        /\ \A u \in Workers : mutex' = u <=> pc'[u] = "wait"
    BY <2>1 DEF TypeOK
  <2>3. thread_ret' \in [Workers -> Nat \cup {-1}]
    BY <2>1 DEF TypeOK
  <2> QED BY <1>1, <1>2, <2>1, <2>2, <2>3 DEF TypeOK
<1>13. ASSUME Mark(w) PROVE TypeOK'
  BY <1>1, <1>2, <1>13 DEF Mark, Goto, TypeOK, locals, history
<1>14. ASSUME Add(w) PROVE TypeOK'
  BY <1>1, <1>2, <1>14 DEF Add, Goto, TypeOK, locals, history
<1>15. ASSUME WakeSpuriously(w) PROVE TypeOK'
  BY <1>1, <1>2, <1>15, PrimePoolAssumption DEF WakeSpuriously, Goto, TypeOK, workVars, locals
<1>16. TypeOK'
  BY <1>3, <1>4, <1>5, <1>6, <1>7, <1>8, <1>9, <1>10, <1>11, <1>12, <1>13, <1>14, <1>15 DEF Run
<1>17. \A u \in Workers : pc'[u] = "first" => pc[u] = "first"
  BY DEF TypeOK, Run, WakeSpuriously, TestCond, TestWork, Sleep, First, StoreLocked, CondWait,
    Awake, LoadStart, Count, Store, Mark, Add, Goto
<1>18. program # "lab6" => mutex' = Nobody
  BY <1>1 DEF RoundAgrees, Run, WakeSpuriously, TestCond, TestWork, Sleep, First, StoreLocked,
    CondWait, Awake, LoadStart, Count, Store, Mark, Add
<1>19. InRound' = InRound
  BY <1>1 DEF InRound
<1> QED BY <1>1, <1>16, <1>17, <1>18, <1>19 DEF RoundAgrees

LEMMA MainTypes ==
  ASSUME TypeOK, RoundAgrees, Main
  PROVE  TypeOK' /\ RoundAgrees'
<1>1. Nobody \notin Workers /\ NUM_THREAD \in Nat \ {0}
  BY PrimePoolAssumption
<1>2. /\ Len(ranges) \in Nat
      /\ \A n \in 1 .. Len(ranges) : ranges[n][1] \in Nat /\ ranges[n][2] \in Nat
  BY RangesAreOfNumbers DEF TypeOK
<1>3. Len(printed) \in Nat
  BY LenProperties DEF TypeOK
<1>4. CASE Create
  <2>1. UNCHANGED <<program, ranges, round, range_start, range_end, is_done, cond, thread_work,
                    thread_ret, mutex, start, cnt, printed, spurious, missed, stale>>
    BY <1>4 DEF Create, input, range, workVars, locals, history
  <2>2. CASE program = "lab6"
    <3>1. main = "create" /\ main' \in {"create", "input"}
      BY <1>4, <2>2 DEF Create, Go
    <3>2. pc' = pc \/ \E w \in Workers : pc[w] = "new" /\ pc' = [pc EXCEPT ![w] = "first"]
      BY <1>4, <2>2 DEF Create
    <3>3. TypeOK'
      <4>1. /\ pc' \in [Workers -> {"new", "first", "cond", "work", "sleep", "wait", "asleep",
                                    "awake", "start", "count", "store", "mark", "add", "done"}]
            /\ \A u \in Workers : mutex = u <=> pc'[u] = "wait"
        BY <3>2 DEF TypeOK
      <4> QED BY <2>1, <3>1, <4>1 DEF TypeOK
    <3> QED BY <2>1, <2>2, <3>1, <3>3 DEF RoundAgrees, InRound
  <2>3. CASE program \in {"lab4", "join"}
    <3>1. main = "create" /\ main' = IF program = "lab4" THEN "input" ELSE "join"
      BY <1>4, <2>3 DEF Create, Go
    <3>2. pc' = [w \in Workers |-> IF program = "lab4" THEN "cond" ELSE "start"]
      BY <1>4, <2>3 DEF Create
    <3>3. mutex = Nobody
      BY <2>3 DEF RoundAgrees
    <3>4. TypeOK'
      BY <1>1, <2>1, <2>3, <3>1, <3>2, <3>3 DEF TypeOK
    <3> QED BY <2>1, <2>3, <3>1, <3>2, <3>4 DEF RoundAgrees, InRound
  <2> QED BY <2>2, <2>3 DEF TypeOK
<1>5. CASE Input
  <2>1. UNCHANGED <<program, ranges, round, range_end, is_done, cond, thread_work, thread_ret,
                    mutex, pc, start, cnt, printed, spurious, missed, stale>>
    BY <1>5 DEF Input, input, workVars, locals, history
  <2>2. CASE round < Len(ranges)
    <3>1. main = "input" /\ main' = "range_end" /\ range_start' = ranges[round + 1][1]
      BY <1>5, <2>2 DEF Input, Go
    <3>2. round + 1 \in 1 .. Len(ranges)
      BY <1>2, <2>2 DEF TypeOK
    <3>3. TypeOK'
      BY <1>2, <2>1, <3>1, <3>2 DEF TypeOK
    <3> QED BY <2>1, <2>2, <3>1, <3>3 DEF RoundAgrees, InRound
  <2>3. CASE ~(round < Len(ranges))
    <3>1. /\ main = "input" /\ range_start' = -1
          /\ main' = IF program = "join" THEN "end" ELSE IF program = "lab4" THEN "cond" ELSE "done"
      BY <1>5, <2>3 DEF Input, Go
    <3>2. TypeOK'
      BY <2>1, <3>1 DEF TypeOK
    <3> QED BY <2>1, <3>1, <3>2 DEF RoundAgrees, InRound, TypeOK
  <2> QED BY <2>2, <2>3
<1>6. CASE InputEnd
  <2>1. /\ main = "range_end" /\ round' = round + 1 /\ range_end' = ranges[round + 1][2]
        /\ main' = IF program = "join" THEN "create"
                     ELSE IF program = "lab4" THEN "cond" ELSE "reset"
        /\ UNCHANGED <<program, ranges, range_start, is_done, cond, thread_work, thread_ret,
                       mutex, pc, start, cnt, printed, spurious, missed, stale>>
    BY <1>6 DEF InputEnd, Go, input, workVars, locals, history
  <2>2. round + 1 \in 1 .. Len(ranges) /\ range_start = ranges[round + 1][1]
    BY <1>2, <2>1 DEF RoundAgrees, TypeOK
  <2>3. TypeOK'
    BY <1>2, <2>1, <2>2 DEF TypeOK
  <2> QED BY <1>2, <1>3, <2>1, <2>2, <2>3 DEF RoundAgrees, InRound, TypeOK
<1>7. CASE ResetResults
  <2>1. TypeOK'
    BY <1>7 DEF ResetResults, Go, TypeOK, input, range, workVars, locals, history
  <2> QED BY <1>7, <2>1 DEF ResetResults, Go, RoundAgrees, InRound, input, range
<1>8. CASE SetDone
  <2>1. TypeOK'
    BY <1>8 DEF SetDone, Go, TypeOK, input, range, workVars, locals, history
  <2> QED BY <1>8, <2>1 DEF SetDone, Go, RoundAgrees, InRound, input, range
<1>9. CASE ResetCond
  <2>1. TypeOK'
    BY <1>9 DEF ResetCond, Go, TypeOK, input, range, workVars, locals, history
  <2> QED BY <1>9, <2>1 DEF ResetCond, Go, RoundAgrees, InRound, input, range
<1>10. CASE Broadcast
  <2>1. TypeOK'
    BY <1>10 DEF Broadcast, Go, TypeOK, input, range, workVars, locals, history
  <2>2. \A w \in Workers : pc'[w] = "first" => pc[w] = "first"
    BY <1>10 DEF Broadcast
  <2> QED BY <1>10, <2>1, <2>2 DEF Broadcast, Go, RoundAgrees, InRound, input, range
<1>11. CASE WaitForWorkers
  <2>1. TypeOK'
    BY <1>11 DEF WaitForWorkers, Go, TypeOK, input, range, workVars, locals, history
  <2> QED BY <1>11, <2>1 DEF WaitForWorkers, Go, RoundAgrees, InRound, input, range
<1>12. CASE Join
  <2>1. TypeOK'
    BY <1>12 DEF Join, Go, TypeOK, input, range, workVars, locals, history
  <2> QED BY <1>12, <1>2, <2>1 DEF Join, Go, RoundAgrees, InRound, input, range, TypeOK
<1>13. CASE Collect
  <2>1. /\ main = "collect" /\ main' = IF program = "lab4" THEN "clear" ELSE "input"
        /\ printed' = Append(printed, Sum(thread_ret))
        /\ UNCHANGED <<program, ranges, round, range_start, range_end, is_done, cond, thread_work,
                       thread_ret, mutex, pc, start, cnt, spurious, missed, stale>>
    BY <1>13 DEF Collect, Go, input, range, workVars, locals, history
  <2>2. Sum(thread_ret) \in Int
    <3>1. thread_ret \in [Workers -> Int]
      BY DEF TypeOK
    <3> QED BY <3>1, SumType
  <2>3. printed' \in Seq(Int) /\ Len(printed') = Len(printed) + 1
    BY <2>1, <2>2, AppendProperties DEF TypeOK
  <2>4. TypeOK'
    BY <2>1, <2>3 DEF TypeOK
  <2> QED BY <1>3, <2>1, <2>3, <2>4 DEF RoundAgrees, InRound, TypeOK
<1>14. CASE ClearWork
  <2>1. TypeOK'
    BY <1>14 DEF ClearWork, Go, TypeOK, input, range, workVars, locals, history
  <2> QED BY <1>14, <2>1 DEF ClearWork, Go, RoundAgrees, InRound, input, range
<1> QED BY <1>4, <1>5, <1>6, <1>7, <1>8, <1>9, <1>10, <1>11, <1>12, <1>13, <1>14 DEF Main

-----------------------------------------------------------------------------
(***************************************************************************)
(* What a worker may change, and what it computes.                         *)
(***************************************************************************)
LEMMA SamePart ==
  ASSUME UNCHANGED <<range_start, range_end>>
  PROVE  \A u \in Workers : Part(u)' = Part(u)
BY DEF Part

LEMMA OthersKeep ==
  ASSUME TypeOK, NEW w \in Workers, Run(w) \/ WakeSpuriously(w)
  PROVE  /\ UNCHANGED <<program, ranges, round, main, range_start, range_end, is_done, printed>>
         /\ \A u \in Workers : Part(u)' = Part(u)
         /\ \A u \in Workers \ {w} :
              /\ pc'[u] = pc[u] /\ start'[u] = start[u] /\ cnt'[u] = cnt[u]
              /\ thread_ret'[u] = thread_ret[u] /\ thread_work'[u] = thread_work[u]
<1>1. UNCHANGED <<program, ranges, round, main, range_start, range_end, is_done, printed>>
  BY DEF Run, WakeSpuriously, TestCond, TestWork, Sleep, First, StoreLocked, CondWait, Awake,
    LoadStart, Count, Store, Mark, Add, shared, input, range
<1>2. \A u \in Workers \ {w} : pc'[u] = pc[u]
  BY DEF TypeOK, Run, WakeSpuriously, TestCond, TestWork, Sleep, First, StoreLocked, CondWait,
    Awake, LoadStart, Count, Store, Mark, Add, Goto
<1>3. start' = start \/ start' = [start EXCEPT ![w] = range_start]
  BY DEF Run, WakeSpuriously, TestCond, TestWork, Sleep, First, StoreLocked, CondWait,
    Awake, LoadStart, Count, Store, Mark, Add, locals
<1>4. cnt' = cnt \/ \E c : cnt' = [cnt EXCEPT ![w] = c]
  BY DEF Run, WakeSpuriously, TestCond, TestWork, Sleep, First, StoreLocked, CondWait,
    Awake, LoadStart, Count, Store, Mark, Add, locals
<1>5. thread_ret' = thread_ret \/ \E c : thread_ret' = [thread_ret EXCEPT ![w] = c]
  BY DEF Run, WakeSpuriously, TestCond, TestWork, Sleep, First, StoreLocked, CondWait,
    Awake, LoadStart, Count, Store, Mark, Add
<1>6. thread_work' = thread_work \/ thread_work' = [thread_work EXCEPT ![w] = 1]
  BY DEF Run, WakeSpuriously, TestCond, TestWork, Sleep, First, StoreLocked, CondWait,
    Awake, LoadStart, Count, Store, Mark, Add, workVars
<1>7. \A u \in Workers \ {w} :
        /\ start'[u] = start[u] /\ cnt'[u] = cnt[u]
        /\ thread_ret'[u] = thread_ret[u] /\ thread_work'[u] = thread_work[u]
  BY <1>3, <1>4, <1>5, <1>6 DEF TypeOK
<1> QED BY <1>1, <1>2, <1>7, SamePart

LEMMA CountIsPart ==
  ASSUME TypeOK, NEW w \in Workers, Count(w), start[w] = range_start
  PROVE  /\ pc[w] = "count" /\ pc'[w] = "store" /\ cnt'[w] = Part(w)
         /\ UNCHANGED <<thread_work, thread_ret, cond, stale>>
<1>1. cnt' = [cnt EXCEPT ![w] = CountPrimes(start[w] + Share(start[w], range_end) * w,
                                            EndOfPart(w, start[w], range_end))]
  BY Zenon DEF Count
<1>2. cnt'[w] = Part(w)
  BY <1>1 DEF Part, TypeOK
<1>3. /\ pc[w] = "count" /\ pc' = [pc EXCEPT ![w] = "store"]
      /\ UNCHANGED <<workVars, thread_ret, history>>
  BY Zenon DEF Count, Goto
<1> QED BY <1>2, <1>3 DEF TypeOK, workVars, history

-----------------------------------------------------------------------------
(***************************************************************************)
(* join.                                                                   *)
(***************************************************************************)
LEMMA JoinStep ==
  ASSUME TypeOK, RoundAgrees, JoinAgrees, Next, program = "join"
  PROVE  JoinAgrees'
<1>1. ASSUME NEW w \in Workers, Run(w) \/ WakeSpuriously(w) PROVE JoinAgrees'
  <2>1. /\ UNCHANGED <<program, ranges, round, main, range_start, range_end, is_done, printed>>
        /\ \A u \in Workers : Part(u)' = Part(u)
        /\ \A u \in Workers \ {w} :
             /\ pc'[u] = pc[u] /\ start'[u] = start[u] /\ cnt'[u] = cnt[u]
             /\ thread_ret'[u] = thread_ret[u] /\ thread_work'[u] = thread_work[u]
    BY <1>1, OthersKeep
  <2>2. /\ pc[w] \in {"new", "start", "count", "store", "done"}
        /\ pc[w] \in {"start", "count", "store"} => main = "join" /\ CountsRange(w)
    BY DEF JoinAgrees, RoundAgrees, TypeOK
  <2>3. LoadStart(w) \/ Count(w) \/ Store(w)
    BY <1>1, <2>2 DEF Run, WakeSpuriously, TestCond, TestWork, Sleep, First, StoreLocked, CondWait,
      Awake, Mark, Add
  <2>4. CASE LoadStart(w)
    <3>1. /\ pc[w] = "start" /\ pc' = [pc EXCEPT ![w] = "count"]
          /\ start' = [start EXCEPT ![w] = range_start]
      BY <2>4 DEF LoadStart, Goto
    <3>2. pc'[w] = "count" /\ start'[w] = range_start
      BY <3>1 DEF TypeOK
    <3> QED BY <2>1, <2>2, <3>1, <3>2 DEF JoinAgrees, CountsRange
  <2>5. CASE Count(w)
    <3>1. pc[w] = "count" /\ pc'[w] = "store" /\ cnt'[w] = Part(w)
      <4>1. pc[w] = "count"
        BY <2>5 DEF Count
      <4> QED BY <2>2, <2>5, <4>1, CountIsPart DEF CountsRange
    <3> QED BY <2>1, <2>2, <3>1 DEF JoinAgrees, CountsRange
  <2>6. CASE Store(w)
    <3>1. pc[w] = "store" /\ pc'[w] = "done" /\ thread_ret'[w] = cnt[w]
      BY <2>6 DEF Store, Goto, TypeOK
    <3> QED BY <2>1, <2>2, <3>1 DEF JoinAgrees, CountsRange
  <2> QED BY <2>3, <2>4, <2>5, <2>6
<1>2. ASSUME Main PROVE JoinAgrees'
  <2>1. program' = program
    BY <1>2 DEF Main, Create, Input, InputEnd, ResetResults, SetDone, ResetCond, Broadcast,
      WaitForWorkers, Join, Collect, ClearWork, input
  <2>2. CASE Create
    <3>1. main' = "join" /\ \A w \in Workers : pc'[w] = "start"
      BY <2>2 DEF Create, Go
    <3> QED BY <2>1, <3>1 DEF JoinAgrees, CountsRange
  <2>3. CASE Input \/ InputEnd \/ Collect
    <3>1. /\ main \in {"input", "range_end", "collect"}
          /\ main' \in {"input", "range_end", "create", "end"} /\ pc' = pc
      BY <2>3 DEF Input, InputEnd, Collect, Go
    <3> QED BY <2>1, <3>1 DEF JoinAgrees
  <2>4. CASE Join
    <3>1. main = "join" /\ main' = "collect" /\ UNCHANGED <<pc, thread_ret, range_start, range_end>>
      BY <2>4 DEF Join, Go, range
    <3>2. \A w \in Workers : pc[w] = "done" /\ Part(w)' = Part(w)
      BY <2>4, <3>1, SamePart DEF Join
    <3> QED BY <2>1, <3>1, <3>2 DEF JoinAgrees
  <2>5. main \notin {"reset", "done", "cond", "broadcast", "wait", "clear"}
    BY DEF RoundAgrees
  <2> QED BY <1>2, <2>2, <2>3, <2>4, <2>5 DEF Main, ResetResults, SetDone, ResetCond, Broadcast,
       WaitForWorkers, ClearWork
<1>3. ASSUME Ended PROVE JoinAgrees'
  BY <1>3 DEF Ended, vars, input, range, workVars, locals, history, JoinAgrees, CountsRange, Part
<1> QED BY <1>1, <1>2, <1>3 DEF Next

-----------------------------------------------------------------------------
(***************************************************************************)
(* lab6.                                                                   *)
(***************************************************************************)
LEMMA Lab6WorkerStep ==
  ASSUME TypeOK, RoundAgrees, Lab6Agrees, program = "lab6", spurious = 0,
         NEW w \in Workers, Run(w)
  PROVE  \A u \in Workers : Lab6Worker(u)'
<1>1. /\ UNCHANGED <<program, ranges, round, main, range_start, range_end, is_done, printed>>
      /\ \A u \in Workers : Part(u)' = Part(u)
      /\ \A u \in Workers \ {w} :
           /\ pc'[u] = pc[u] /\ start'[u] = start[u] /\ cnt'[u] = cnt[u]
           /\ thread_ret'[u] = thread_ret[u] /\ thread_work'[u] = thread_work[u]
  BY OthersKeep
<1>2. \A u \in Workers : Lab6Worker(u)
  BY DEF Lab6Agrees
<1>3. pc[w] \in {"new", "first", "wait", "asleep", "awake", "start", "count", "store", "done"}
  BY <1>2 DEF TypeOK, RoundAgrees, Lab6Worker
<1>4. First(w) \/ StoreLocked(w) \/ CondWait(w) \/ Awake(w) \/ LoadStart(w) \/ Count(w)
  BY <1>3 DEF Run, TestCond, TestWork, Sleep, Store, Mark, Add
<1>5. \A u \in 0 .. NUM_THREAD - 1 : u \in Workers /\ \A x \in 0 .. u - 1 : x \in Workers
  BY PrimePoolAssumption DEF Workers
<1>6. ASSUME main = "create" PROVE Reported(w) => Reported(w)'
  <2>1. pc[w] \in {"new", "first", "wait", "asleep"}
    BY <1>2, <1>6 DEF Lab6Worker
  <2>2. First(w) \/ CondWait(w)
    BY <1>4, <2>1 DEF StoreLocked, Awake, LoadStart, Count
  <2>3. First(w) => thread_ret'[w] = -1
    BY DEF First, TypeOK
  <2>4. CondWait(w) => thread_ret' = thread_ret
    BY DEF CondWait
  <2> QED BY <2>2, <2>3, <2>4 DEF Reported
<1>7. ASSUME NEW u \in Workers \ {w} PROVE Lab6Worker(u)'
  <2>1. Lab6Worker(u)
    BY <1>2
  <2>2. main = "create" => (pc[u] # "new" => \A x \in 0 .. u - 1 : Reported(x)')
    BY <1>1, <1>5, <1>6, <2>1, PrimePoolAssumption DEF Lab6Worker, Reported, Workers
  <2> QED BY <1>1, <2>1, <2>2 DEF Lab6Worker, CountsRange, Reported
<1>8. Lab6Worker(w)'
  <2>1. Lab6Worker(w)
    BY <1>2
  <2>2. main = "create" => \A x \in 0 .. w - 1 : Reported(x)'
    <3>1. main = "create" => pc[w] # "new"
      BY <1>4 DEF First, StoreLocked, CondWait, Awake, LoadStart, Count
    <3>2. \A x \in 0 .. w - 1 : x \in Workers \ {w}
      BY PrimePoolAssumption DEF Workers
    <3> QED BY <1>1, <2>1, <3>1, <3>2 DEF Lab6Worker, Reported
  <2>3. CASE First(w)
    <3>1. pc[w] = "first" /\ pc'[w] = "wait" /\ thread_ret'[w] = -1
      BY <2>3 DEF First, Goto, TypeOK
    <3>2. main = "create"
      BY <2>1, <3>1 DEF Lab6Worker, RoundAgrees, TypeOK
    <3> QED BY <1>1, <2>1, <2>2, <3>1, <3>2 DEF Lab6Worker, CountsRange, Reported
  <2>4. CASE CondWait(w)
    <3>1. pc[w] = "wait" /\ pc'[w] = "asleep" /\ thread_ret' = thread_ret
      BY <2>4 DEF CondWait, Goto, TypeOK
    <3>2. main \notin {"join", "end"}
      BY <2>1, <3>1 DEF Lab6Worker
    <3> QED BY <1>1, <2>1, <2>2, <3>1, <3>2 DEF Lab6Worker, CountsRange, Reported
  <2>5. CASE Awake(w)
    <3>1. /\ pc[w] = "awake" /\ pc'[w] = IF is_done THEN "done" ELSE "start"
          /\ thread_ret' = thread_ret
      BY <2>5 DEF Awake, Goto, TypeOK
    <3>2. \/ main = "wait" /\ ~is_done
          \/ main = "join" /\ is_done
      BY <2>1, <3>1 DEF Lab6Worker, Lab6Agrees, RoundAgrees, TypeOK
    <3> QED BY <1>1, <2>1, <3>1, <3>2 DEF Lab6Worker, CountsRange
  <2>6. CASE LoadStart(w)
    <3>1. /\ pc[w] = "start" /\ pc' = [pc EXCEPT ![w] = "count"]
          /\ start' = [start EXCEPT ![w] = range_start] /\ thread_ret' = thread_ret
      BY <2>6 DEF LoadStart, Goto
    <3>2. pc'[w] = "count" /\ start'[w] = range_start
      BY <3>1 DEF TypeOK
    <3>3. main = "wait"
      BY <2>1, <3>1 DEF Lab6Worker, RoundAgrees, TypeOK
    <3> QED BY <1>1, <2>1, <3>1, <3>2, <3>3 DEF Lab6Worker, CountsRange
  <2>7. CASE Count(w)
    <3>1. pc[w] = "count"
      BY <2>7 DEF Count
    <3>2. main = "wait" /\ start[w] = range_start
      BY <2>1, <3>1 DEF Lab6Worker, CountsRange, RoundAgrees, TypeOK
    <3>3. pc'[w] = "store" /\ cnt'[w] = Part(w) /\ thread_ret' = thread_ret
      BY <2>7, <3>2, CountIsPart
    <3> QED BY <1>1, <2>1, <3>1, <3>2, <3>3 DEF Lab6Worker, CountsRange
  <2>8. CASE StoreLocked(w)
    <3>1. pc[w] = "store" /\ pc'[w] = "wait" /\ thread_ret'[w] = cnt[w]
      BY <2>8 DEF StoreLocked, Goto, TypeOK
    <3>2. main = "wait" /\ cnt[w] = Part(w)
      BY <2>1, <3>1 DEF Lab6Worker, CountsRange, RoundAgrees, TypeOK
    <3> QED BY <1>1, <2>1, <3>1, <3>2 DEF Lab6Worker, CountsRange
  <2> QED BY <1>4, <2>3, <2>4, <2>5, <2>6, <2>7, <2>8
<1> QED BY <1>7, <1>8
LEMMA Lab6MainStep ==
  ASSUME TypeOK, RoundAgrees, Lab6Agrees, program = "lab6", spurious = 0, Main
  PROVE  Lab6Agrees'
<1>1. /\ \A w \in Workers : Lab6Worker(w)
      /\ main \in {"broadcast", "join"} => (is_done <=> range_start = -1)
      /\ main \notin {"broadcast", "join", "end"} => ~is_done
  BY DEF Lab6Agrees
<1>2. main \notin {"cond", "clear"}
  BY DEF RoundAgrees
<1>3. CASE Create
  <2>1. main = "create" /\ UNCHANGED <<range_start, is_done, thread_ret>>
    BY <1>3 DEF Create, range
  <2>2. CASE \E w \in Workers : /\ pc[w] = "new"
                                /\ \A u \in 0 .. w - 1 : pc[u] # "new" /\ (u = w - 1 => Reported(u))
                                /\ pc' = [pc EXCEPT ![w] = "first"] /\ main' = main
    <3>1. PICK w \in Workers :
            /\ pc[w] = "new"
            /\ \A u \in 0 .. w - 1 : pc[u] # "new" /\ (u = w - 1 => Reported(u))
            /\ pc' = [pc EXCEPT ![w] = "first"] /\ main' = main
      BY <2>2
    <3>2. pc'[w] = "first" /\ \A u \in Workers \ {w} : pc'[u] = pc[u]
      BY <3>1 DEF TypeOK
    <3>3. \A u \in 0 .. w - 1 : Reported(u)
      <4> SUFFICES ASSUME NEW u \in 0 .. w - 1, u # w - 1 PROVE Reported(u)
        BY <3>1
      <4>1. w - 1 \in 0 .. w - 1 /\ w - 1 \in Workers /\ u \in 0 .. (w - 1) - 1
        BY PrimePoolAssumption DEF Workers
      <4> QED BY <1>1, <2>1, <3>1, <4>1 DEF Lab6Worker
    <3>4. ASSUME NEW u \in Workers PROVE Lab6Worker(u)'
      <4>1. Lab6Worker(u) /\ \A x \in Workers : Reported(x)' = Reported(x)
        BY <1>1, <2>1 DEF Reported
      <4>2. \A x \in 0 .. u - 1 : Reported(x)' = Reported(x)
        BY <2>1 DEF Reported
      <4> QED BY <2>1, <3>1, <3>2, <3>3, <4>1, <4>2 DEF Lab6Worker, CountsRange
    <3> QED BY <1>1, <2>1, <3>1, <3>4 DEF Lab6Agrees
  <2>3. CASE /\ \A w \in Workers : pc[w] # "new"
             /\ Reported(NUM_THREAD - 1) /\ main' = "input" /\ pc' = pc
    <3>1. ASSUME NEW w \in Workers PROVE pc[w] \in {"wait", "asleep"}
      <4>1. NUM_THREAD - 1 \in Workers /\ (w = NUM_THREAD - 1 \/ w \in 0 .. (NUM_THREAD - 1) - 1)
        BY PrimePoolAssumption DEF Workers
      <4>2. Reported(w)
        BY <1>1, <2>1, <2>3, <4>1 DEF Lab6Worker
      <4> QED BY <1>1, <2>1, <4>2 DEF Lab6Worker
    <3> QED BY <1>1, <2>1, <2>3, <3>1 DEF Lab6Agrees, Lab6Worker, CountsRange
  <2> QED BY <1>3, <2>2, <2>3 DEF Create, Go
<1>4. CASE Input
  <2>1. main = "input" /\ main' \in {"range_end", "done"} /\ UNCHANGED <<pc, is_done>>
    BY <1>4 DEF Input, Go
  <2> QED BY <1>1, <2>1 DEF Lab6Agrees, Lab6Worker, CountsRange
<1>5. CASE InputEnd
  <2>1. main = "range_end" /\ main' = "reset" /\ UNCHANGED <<pc, is_done>>
    BY <1>5 DEF InputEnd, Go
  <2> QED BY <1>1, <2>1 DEF Lab6Agrees, Lab6Worker, CountsRange
<1>6. CASE ResetResults
  <2>1. /\ main = "reset" /\ main' = "broadcast" /\ UNCHANGED <<pc, is_done, range_start>>
        /\ \A w \in Workers : thread_ret'[w] = -1
    BY <1>6 DEF ResetResults, Go, range
  <2>2. range_start # -1
    BY <2>1 DEF RoundAgrees
  <2> QED BY <1>1, <2>1, <2>2 DEF Lab6Agrees, Lab6Worker, CountsRange
<1>7. CASE SetDone
  <2>1. main = "done" /\ main' = "broadcast" /\ UNCHANGED <<pc, range_start>> /\ is_done' = TRUE
    BY <1>7 DEF SetDone, Go, range
  <2>2. range_start = -1
    BY <2>1 DEF RoundAgrees
  <2> QED BY <1>1, <2>1, <2>2 DEF Lab6Agrees, Lab6Worker, CountsRange
<1>8. CASE Broadcast
  <2>1. /\ main = "broadcast" /\ main' = IF range_start = -1 THEN "join" ELSE "wait"
        /\ mutex = Nobody /\ UNCHANGED <<is_done, range_start, thread_ret>>
    BY <1>8 DEF Broadcast, Go, range
  <2>2. \A w \in Workers : pc[w] = "asleep"
    BY <1>1, <2>1, PrimePoolAssumption DEF Lab6Worker, TypeOK
  <2>3. \A w \in Workers : pc'[w] = "awake"
    BY <1>8, <2>2 DEF Broadcast
  <2> QED BY <1>1, <2>1, <2>3 DEF Lab6Agrees, Lab6Worker, CountsRange
<1>9. CASE WaitForWorkers
  <2>1. /\ main = "wait" /\ main' = "collect" /\ \A w \in Workers : thread_ret[w] >= 0
        /\ UNCHANGED <<pc, is_done, thread_ret, range_start, range_end>>
    BY <1>9 DEF WaitForWorkers, Go, range
  <2>2. \A w \in Workers : pc[w] \in {"wait", "asleep"} /\ Part(w)' = Part(w)
    <3> SUFFICES ASSUME NEW w \in Workers PROVE pc[w] \in {"wait", "asleep"}
      BY <2>1, SamePart
    <3>1. thread_ret[w] # -1
      BY <2>1
    <3> QED BY <1>1, <2>1, <3>1 DEF Lab6Worker
  <2> QED BY <1>1, <2>1, <2>2 DEF Lab6Agrees, Lab6Worker, CountsRange
<1>10. CASE Join
  <2>1. main = "join" /\ main' = "end" /\ UNCHANGED pc /\ \A w \in Workers : pc[w] = "done"
    BY <1>10 DEF Join, Go
  <2> QED BY <2>1 DEF Lab6Agrees, Lab6Worker, CountsRange
<1>11. CASE Collect
  <2>1. main = "collect" /\ main' = "input" /\ UNCHANGED <<pc, is_done>>
    BY <1>11 DEF Collect, Go
  <2> QED BY <1>1, <2>1 DEF Lab6Agrees, Lab6Worker, CountsRange
<1> QED BY <1>2, <1>3, <1>4, <1>5, <1>6, <1>7, <1>8, <1>9, <1>10, <1>11
     DEF Main, ResetCond, ClearWork

LEMMA Lab6Step ==
  ASSUME TypeOK, RoundAgrees, Lab6Agrees, Next, program = "lab6"
  PROVE  Lab6Agrees'
<1> SUFFICES ASSUME spurious' = 0 PROVE Lab6Agrees'
  BY DEF Lab6Agrees
<1>1. ASSUME NEW w \in Workers, Run(w) PROVE Lab6Agrees'
  <2>1. spurious' = spurious /\ UNCHANGED <<main, is_done, range_start>>
    BY <1>1 DEF Run, TestCond, TestWork, Sleep, First, StoreLocked, CondWait, Awake,
      LoadStart, Count, Store, Mark, Add, history, shared, range
  <2>2. \A u \in Workers : Lab6Worker(u)'
    BY <1>1, <2>1, Lab6WorkerStep
  <2> QED BY <2>1, <2>2 DEF Lab6Agrees
<1>2. ASSUME NEW w \in Workers PROVE ~WakeSpuriously(w)
  BY DEF WakeSpuriously, TypeOK
<1>3. ASSUME Main PROVE Lab6Agrees'
  <2>1. spurious' = spurious
    BY <1>3 DEF Main, Create, Input, InputEnd, ResetResults, SetDone, ResetCond, Broadcast,
      WaitForWorkers, Join, Collect, ClearWork, history
  <2> QED BY <1>3, <2>1, Lab6MainStep
<1>4. ASSUME Ended PROVE Lab6Agrees'
  BY <1>4 DEF Ended, vars, input, range, workVars, locals, history, Lab6Agrees, Lab6Worker,
    CountsRange, Part, Reported
<1> QED BY <1>1, <1>2, <1>3, <1>4 DEF Next
-----------------------------------------------------------------------------
(***************************************************************************)
(* lab4.                                                                   *)
(***************************************************************************)
LEMMA WorkersFinite == IsFiniteSet(Workers) /\ Cardinality(Workers) = NUM_THREAD
BY FS_Interval, PrimePoolAssumption DEF Workers

LEMMA AddedFinite ==
  /\ IsFiniteSet(Added) /\ Cardinality(Added) \in Nat
  /\ Cardinality(Added) >= NUM_THREAD => Added = Workers
<1>1. Added \subseteq Workers
  BY DEF Added
<1>2. IsFiniteSet(Added) /\ Cardinality(Added) \in Nat /\ Cardinality(Added) <= NUM_THREAD
  BY <1>1, WorkersFinite, FS_Subset, FS_CardinalityType
<1>3. Cardinality(Added) = NUM_THREAD => Added = Workers
  BY <1>1, WorkersFinite, FS_Subset
<1> QED BY <1>2, <1>3, PrimePoolAssumption

\* What cond counts does not change but in the steps Mark and Add.
LEMMA SameAdded ==
  ASSUME UNCHANGED thread_work, \A u \in Workers : (pc'[u] = "add") <=> (pc[u] = "add")
  PROVE  Added' = Added
BY DEF Added

LEMMA Lab4WorkerStep ==
  ASSUME TypeOK, RoundAgrees, Lab4Agrees, program = "lab4", ~stale, ~stale',
         NEW w \in Workers, Run(w) \/ WakeSpuriously(w)
  PROVE  Lab4Agrees'
<1>1. /\ UNCHANGED <<program, ranges, round, main, range_start, range_end, is_done, printed>>
      /\ \A u \in Workers : Part(u)' = Part(u)
      /\ \A u \in Workers \ {w} :
           /\ pc'[u] = pc[u] /\ start'[u] = start[u] /\ cnt'[u] = cnt[u]
           /\ thread_ret'[u] = thread_ret[u] /\ thread_work'[u] = thread_work[u]
  BY OthersKeep
<1>2. /\ \A u \in Workers : Lab4Worker(u)
      /\ main \in {"create", "input", "range_end", "cond", "collect", "clear"} => cond = NUM_THREAD
      /\ main \in {"broadcast", "wait"} => cond = Cardinality(Added)
      /\ main \in {"join", "end"} => cond = 0 /\ range_start = -1
  BY DEF Lab4Agrees
<1>3. ASSUME NEW u \in Workers \ {w} PROVE Lab4Worker(u)'
  <2>1. Lab4Worker(u) /\ Part(u)' = Part(u)
    BY <1>1, <1>2
  <2> QED BY <1>1, <2>1 DEF Lab4Worker, CountsRange
<1>4. Lab4Worker(w)
  BY <1>2
<1>5. /\ main \in {"create", "input", "range_end", "cond", "broadcast", "wait", "join", "collect",
                  "clear", "end"}
      /\ main = "wait" => range_start # -1
  BY DEF RoundAgrees, TypeOK
<1>6. pc[w] \in Resting \cup Busy \cup {"new", "add", "done"}
  BY <1>2, <1>4, <1>5 DEF Lab4Worker, Busy
<1>7. \/ TestCond(w) \/ TestWork(w) \/ Sleep(w) \/ WakeSpuriously(w) \/ Awake(w)
      \/ LoadStart(w) \/ Count(w) \/ Store(w) \/ Mark(w) \/ Add(w)
  BY <1>6 DEF Run, First, StoreLocked, CondWait, Resting, Busy
<1>8. CASE TestCond(w) \/ TestWork(w) \/ Sleep(w) \/ WakeSpuriously(w) \/ Awake(w)
  <2>1. /\ pc[w] \in Resting /\ pc'[w] \in Resting \cup {"start"}
        /\ UNCHANGED <<cond, thread_work, thread_ret>>
    BY <1>8 DEF TestCond, TestWork, Sleep, WakeSpuriously, Awake, Goto, TypeOK, Resting, workVars
  <2>2. pc'[w] = "start" => thread_work[w] = 0 /\ ~(cond >= NUM_THREAD)
    <3> SUFFICES ASSUME pc'[w] = "start" PROVE thread_work[w] = 0 /\ ~(cond >= NUM_THREAD)
      OBVIOUS
    <3>1. TestWork(w)
      BY <1>8 DEF TestCond, Sleep, WakeSpuriously, Awake, Goto, TypeOK
    <3>2. thread_work[w] # 1
      BY <3>1 DEF TestWork, Goto, TypeOK
    <3>3. thread_work[w] = 0
      BY <3>2 DEF TypeOK
    <3> QED BY <3>1, <3>3 DEF TestWork
  <2>3. Lab4Worker(w)'
    <3>1. \/ main \notin {"create", "input", "range_end", "cond", "collect", "clear"}
          \/ pc'[w] # "start"
      BY <1>2, <2>2, PrimePoolAssumption
    <3>2. main # "create"
      BY <1>4, <2>1 DEF Lab4Worker, Resting
    <3> QED BY <1>1, <1>4, <2>1, <2>2, <3>1, <3>2
         DEF Lab4Worker, CountsRange, Resting, Busy
  <2>4. Added' = Added
    <3>1. \A u \in Workers : (pc'[u] = "add") <=> (pc[u] = "add")
      BY <1>1, <2>1 DEF Resting
    <3> QED BY <2>1, <3>1, SameAdded
  <2> QED BY <1>1, <1>2, <1>3, <2>1, <2>3, <2>4 DEF Lab4Agrees
<1>9. CASE LoadStart(w)
  <2>1. pc[w] = "start" /\ UNCHANGED <<cond, thread_work>>
    BY <1>9 DEF LoadStart, workVars
  <2>2. CASE range_start = -1
    <3>1. pc' = [pc EXCEPT ![w] = "done"]
      BY <1>9, <2>2 DEF LoadStart, Goto
    <3>2. pc'[w] = "done"
      BY <3>1 DEF TypeOK
    <3>3. main = "end" \/ (main \in {"broadcast", "join"} /\ range_start = -1)
      BY <1>2, <1>4, <1>5, <2>1, <2>2 DEF Lab4Worker, Resting
    <3>4. Added' = Added
      <4>1. \A u \in Workers : (pc'[u] = "add") <=> (pc[u] = "add")
        BY <1>1, <2>1, <3>2
      <4> QED BY <2>1, <4>1, SameAdded
    <3>5. Lab4Worker(w)'
      BY <1>1, <1>2, <1>4, <2>1, <2>2, <3>2, <3>3 DEF Lab4Worker
    <3> QED BY <1>1, <1>2, <1>3, <2>1, <3>4, <3>5 DEF Lab4Agrees
  <2>3. CASE range_start # -1
    <3>1. /\ pc' = [pc EXCEPT ![w] = "count"] /\ start' = [start EXCEPT ![w] = range_start]
          /\ thread_ret' = thread_ret
      BY <1>9, <2>3 DEF LoadStart, Goto
    <3>2. pc'[w] = "count" /\ start'[w] = range_start
      BY <3>1 DEF TypeOK
    <3>3. main \in {"broadcast", "wait"}
      BY <1>2, <1>4, <1>5, <2>1, <2>3 DEF Lab4Worker, Resting
    <3>4. Added' = Added
      <4>1. \A u \in Workers : (pc'[u] = "add") <=> (pc[u] = "add")
        BY <1>1, <2>1, <3>2
      <4> QED BY <2>1, <4>1, SameAdded
    <3>5. Lab4Worker(w)'
      BY <1>1, <1>4, <2>1, <2>3, <3>1, <3>2, <3>3 DEF Lab4Worker, CountsRange, Busy
    <3> QED BY <1>1, <1>2, <1>3, <2>1, <3>4, <3>5 DEF Lab4Agrees
  <2> QED BY <2>2, <2>3
<1>10. ASSUME pc[w] \in {"count", "store", "mark", "add"}
       PROVE  main \in {"broadcast", "wait"} /\ range_start # -1
  BY <1>2, <1>4, <1>5, <1>10 DEF Lab4Worker, Resting
<1>11. CASE Count(w)
  <2>1. pc[w] = "count"
    BY <1>11 DEF Count
  <2>2. pc'[w] = "store" /\ cnt'[w] = Part(w) /\ UNCHANGED <<thread_work, thread_ret, cond>>
    BY <1>4, <1>10, <1>11, <2>1, CountIsPart DEF Lab4Worker, CountsRange
  <2>3. Lab4Worker(w)'
    BY <1>1, <1>4, <1>10, <2>1, <2>2 DEF Lab4Worker, CountsRange, Busy
  <2>4. Added' = Added
    <3>1. \A u \in Workers : (pc'[u] = "add") <=> (pc[u] = "add")
      BY <1>1, <2>1, <2>2
    <3> QED BY <2>2, <3>1, SameAdded
  <2> QED BY <1>1, <1>2, <1>3, <2>2, <2>3, <2>4 DEF Lab4Agrees
<1>12. CASE Store(w)
  <2>1. pc[w] = "store" /\ pc'[w] = "mark" /\ thread_ret'[w] = cnt[w] /\ UNCHANGED workVars
    BY <1>12 DEF Store, Goto, TypeOK
  <2>2. Lab4Worker(w)'
    BY <1>1, <1>4, <1>10, <2>1 DEF Lab4Worker, CountsRange, Busy, workVars
  <2>3. Added' = Added
    <3>1. \A u \in Workers : (pc'[u] = "add") <=> (pc[u] = "add")
      BY <1>1, <2>1
    <3> QED BY <2>1, <3>1, SameAdded DEF workVars
  <2> QED BY <1>1, <1>2, <1>3, <2>1, <2>2, <2>3 DEF Lab4Agrees, workVars
<1>13. CASE Mark(w)
  <2>1. /\ pc[w] = "mark" /\ pc'[w] = "add" /\ thread_work'[w] = 1
        /\ UNCHANGED <<cond, thread_ret>>
    BY <1>13 DEF Mark, Goto, TypeOK
  <2>2. Lab4Worker(w)'
    BY <1>1, <1>4, <1>10, <2>1 DEF Lab4Worker, CountsRange, Busy
  <2>3. Added' = Added
    <3>1. thread_work[w] = 0
      BY <1>4, <1>10, <2>1 DEF Lab4Worker, Busy
    <3> QED BY <1>1, <2>1, <3>1 DEF Added
  <2> QED BY <1>1, <1>2, <1>3, <2>1, <2>2, <2>3 DEF Lab4Agrees
<1>14. CASE Add(w)
  <2>1. /\ pc[w] = "add" /\ pc'[w] = "cond" /\ cond' = cond + 1
        /\ UNCHANGED <<thread_work, thread_ret>>
    BY <1>14 DEF Add, Goto, TypeOK
  <2>2. Lab4Worker(w)'
    BY <1>1, <1>4, <1>10, <2>1 DEF Lab4Worker, CountsRange, Busy, Resting
  <2>3. thread_work[w] = 1
    BY <1>4, <1>10, <2>1 DEF Lab4Worker
  <2>4. Added' = Added \cup {w} /\ w \notin Added
    BY <1>1, <2>1, <2>3 DEF Added
  <2>5. Cardinality(Added') = Cardinality(Added) + 1
    BY <2>4, AddedFinite, FS_AddElement
  <2> QED BY <1>1, <1>2, <1>3, <1>10, <2>1, <2>2, <2>5 DEF Lab4Agrees
<1> QED BY <1>7, <1>8, <1>9, <1>11, <1>12, <1>13, <1>14

LEMMA Lab4MainStep ==
  ASSUME TypeOK, RoundAgrees, Lab4Agrees, program = "lab4", ~stale, Main
  PROVE  Lab4Agrees'
<1>1. /\ \A w \in Workers : Lab4Worker(w)
      /\ main \in {"create", "input", "range_end", "cond", "collect", "clear"} => cond = NUM_THREAD
      /\ main \in {"broadcast", "wait"} => cond = Cardinality(Added)
      /\ main \in {"join", "end"} => cond = 0 /\ range_start = -1
  BY DEF Lab4Agrees
<1>2. main \notin {"reset", "done"} /\ (main = "wait" => range_start # -1)
  BY DEF RoundAgrees
<1>3. ASSUME \A w \in Workers : thread_work[w] = 0 PROVE Cardinality(Added) = 0
  <2>1. Added = {}
    BY <1>3 DEF Added
  <2> QED BY <2>1, FS_EmptySet
<1>4. CASE Create
  <2>1. /\ main = "create" /\ main' = "input" /\ UNCHANGED <<cond, thread_work>>
        /\ \A w \in Workers : pc'[w] = "cond"
    BY <1>4 DEF Create, Go, workVars
  <2> QED BY <1>1, <2>1 DEF Lab4Agrees, Lab4Worker, CountsRange, Resting
<1>5. CASE Input \/ InputEnd
  <2>1. /\ main \in {"input", "range_end"} /\ main' \in {"range_end", "cond"}
        /\ UNCHANGED <<pc, cond, thread_work>>
    BY <1>5 DEF Input, InputEnd, Go, workVars
  <2> QED BY <1>1, <2>1 DEF Lab4Agrees, Lab4Worker, CountsRange
<1>6. CASE ResetCond
  <2>1. /\ main = "cond" /\ main' = "broadcast" /\ cond' = 0
        /\ UNCHANGED <<pc, thread_work>>
    BY <1>6 DEF ResetCond, Go
  <2>2. \A w \in Workers : thread_work[w] = 0 /\ pc[w] \in Resting
    BY <1>1, <2>1 DEF Lab4Worker
  <2>3. Added' = Added
    BY <2>1, SameAdded
  <2> QED BY <1>3, <2>1, <2>2, <2>3 DEF Lab4Agrees, Lab4Worker, CountsRange, Resting, Busy
<1>7. CASE Broadcast
  <2>1. /\ main = "broadcast" /\ main' = IF range_start = -1 THEN "join" ELSE "wait"
        /\ UNCHANGED <<range_start, range_end, cond, thread_work, thread_ret, start, cnt>>
    BY <1>7 DEF Broadcast, Go, range, workVars, locals
  <2>2. \A w \in Workers : pc'[w] = IF pc[w] = "asleep" THEN "awake" ELSE pc[w]
    BY <1>7 DEF Broadcast
  <2>3. Added' = Added
    BY <2>1, <2>2, SameAdded
  <2>4. \A w \in Workers : Part(w)' = Part(w)
    BY <2>1, SamePart
  <2>5. ASSUME NEW w \in Workers PROVE Lab4Worker(w)'
    <3>1. Lab4Worker(w)
      BY <1>1
    <3>2. CASE range_start = -1
      BY <2>1, <2>2, <3>1, <3>2 DEF Lab4Worker, Resting
    <3>3. CASE range_start # -1
      BY <2>1, <2>2, <2>4, <3>1, <3>3 DEF Lab4Worker, CountsRange, Resting, Busy
    <3> QED BY <3>2, <3>3
  <2>6. range_start = -1 => cond = 0
    <3> SUFFICES ASSUME range_start = -1 PROVE cond = 0
      OBVIOUS
    <3>1. \A w \in Workers : thread_work[w] = 0
      BY <1>1, <2>1 DEF Lab4Worker
    <3> QED BY <1>1, <1>3, <2>1, <3>1
  <2> QED BY <1>1, <2>1, <2>3, <2>5, <2>6 DEF Lab4Agrees
<1>8. CASE WaitForWorkers
  <2>1. /\ main = "wait" /\ main' = "collect" /\ cond >= NUM_THREAD
        /\ UNCHANGED <<pc, cond, thread_work, thread_ret, range_start, range_end>>
    BY <1>8 DEF WaitForWorkers, Go, range, workVars
  <2>2. Added = Workers /\ cond = NUM_THREAD
    BY <1>1, <2>1, AddedFinite, WorkersFinite
  <2>3. \A w \in Workers : thread_work[w] = 1 /\ pc[w] # "add"
    BY <2>2 DEF Added
  <2>4. \A w \in Workers : pc[w] \in Resting /\ thread_ret[w] = Part(w) /\ Part(w)' = Part(w)
    BY <1>1, <1>2, <2>1, <2>3, SamePart DEF Lab4Worker, Busy
  <2> QED BY <2>1, <2>2, <2>3, <2>4 DEF Lab4Agrees, Lab4Worker, CountsRange
<1>9. CASE Join
  <2>1. /\ main = "join" /\ main' = "end" /\ UNCHANGED <<pc, cond, thread_work, range_start>>
    BY <1>9 DEF Join, Go, range, workVars
  <2> QED BY <1>1, <2>1 DEF Lab4Agrees, Lab4Worker
<1>10. CASE Collect
  <2>1. /\ main = "collect" /\ main' = "clear" /\ UNCHANGED <<pc, cond, thread_work>>
    BY <1>10 DEF Collect, Go, workVars
  <2> QED BY <1>1, <2>1 DEF Lab4Agrees, Lab4Worker
<1>11. CASE ClearWork
  <2>1. /\ main = "clear" /\ main' = "input" /\ UNCHANGED <<pc, cond>>
        /\ \A w \in Workers : thread_work'[w] = 0
    BY <1>11 DEF ClearWork, Go
  <2> QED BY <1>1, <2>1 DEF Lab4Agrees, Lab4Worker
<1> QED BY <1>2, <1>4, <1>5, <1>6, <1>7, <1>8, <1>9, <1>10, <1>11 DEF Main, ResetResults, SetDone

LEMMA Lab4Step ==
  ASSUME TypeOK, RoundAgrees, Lab4Agrees, Next, program = "lab4"
  PROVE  Lab4Agrees'
<1> SUFFICES ASSUME ~stale' PROVE Lab4Agrees'
  BY DEF Lab4Agrees
<1>1. ASSUME NEW w \in Workers, Run(w) \/ WakeSpuriously(w) PROVE Lab4Agrees'
  <2>1. ~stale
    BY <1>1 DEF Run, WakeSpuriously, TestCond, TestWork, Sleep, First, StoreLocked, CondWait, Awake,
      LoadStart, Count, Store, Mark, Add, history
  <2> QED BY <1>1, <2>1, Lab4WorkerStep
<1>2. ASSUME Main PROVE Lab4Agrees'
  <2>1. stale' = stale
    BY <1>2 DEF Main, Create, Input, InputEnd, ResetResults, SetDone, ResetCond, Broadcast,
      WaitForWorkers, Join, Collect, ClearWork, history
  <2> QED BY <1>2, <2>1, Lab4MainStep
<1>3. ASSUME Ended PROVE Lab4Agrees'
  BY <1>3 DEF Ended, vars, input, range, workVars, locals, history, Lab4Agrees, Lab4Worker,
    CountsRange, Part, Added
<1> QED BY <1>1, <1>2, <1>3 DEF Next
-----------------------------------------------------------------------------
(***************************************************************************)
(* What is printed.                                                        *)
(***************************************************************************)
LEMMA DisturbedForGood ==
  ASSUME TypeOK, Next, Undisturbed'
  PROVE  Undisturbed
<1>1. program' = program
  BY DEF Next, Main, Run, WakeSpuriously, Create, Input, InputEnd, ResetResults, SetDone, ResetCond,
    Broadcast, WaitForWorkers, Join, Collect, ClearWork, TestCond, TestWork, Sleep, First,
    StoreLocked, CondWait, Awake, LoadStart, Count, Store, Mark, Add, Ended, vars, input, shared
<1>2. (stale => stale') /\ (spurious' = spurious \/ spurious' = spurious + 1)
  <2>1. CASE Main \/ Ended
    BY <2>1 DEF Main, Create, Input, InputEnd, ResetResults, SetDone, ResetCond,
      Broadcast, WaitForWorkers, Join, Collect, ClearWork, Ended, vars, history
  <2>2. ASSUME NEW w \in Workers, Run(w)
        PROVE  spurious' = spurious /\ (stale => stale')
    <3>1. TestWork(w) => spurious' = spurious /\ (stale => stale')
      BY Zenon DEF TestWork
    <3>2. ~TestWork(w) => spurious' = spurious /\ (stale => stale')
      BY <2>2 DEF Run, TestCond, Sleep, First, StoreLocked, CondWait, Awake, LoadStart,
        Count, Store, Mark, Add, history
    <3> QED BY <3>1, <3>2
  <2>3. ASSUME NEW w \in Workers, WakeSpuriously(w)
        PROVE  stale' = stale /\ spurious' = spurious + 1
    BY <2>3 DEF WakeSpuriously
  <2> QED BY <2>1, <2>2, <2>3 DEF Next
<1>3. spurious' = 0 => spurious = 0
  <2>1. spurious \in Nat
    BY PrimePoolAssumption DEF TypeOK
  <2> QED BY <1>2, <2>1
<1> QED BY <1>1, <1>2, <1>3, Zenon DEF Undisturbed

\* The sum that is printed is the count of the range.
LEMMA SumIsRight ==
  ASSUME TypeOK, RoundAgrees, JoinAgrees, Lab6Agrees, Lab4Agrees, Undisturbed, main = "collect"
  PROVE  /\ round \in 1 .. Len(ranges) /\ Len(printed) = round - 1
         /\ Sum(thread_ret) = CountPrimes(ranges[round][1], ranges[round][2] + 1)
<1>1. InRound
  BY DEF InRound, RoundAgrees
<1>2. /\ Len(printed) = round - 1 /\ range_start = ranges[round][1] /\ range_end = ranges[round][2]
  BY <1>1 DEF RoundAgrees
<1>3. Len(printed) \in Nat /\ round \in 0 .. Len(ranges) /\ Len(ranges) \in Nat
  <2>1. ranges \in Seq(Nat \X Nat)
    BY PrimePoolAssumption DEF TypeOK
  <2> QED BY <2>1 DEF TypeOK
<1>4. round \in 1 .. Len(ranges)
  BY <1>2, <1>3
<1>5. range_start \in Nat /\ range_end \in Nat
  BY DEF RoundAgrees, TypeOK
<1>6. ASSUME NEW w \in Workers PROVE thread_ret[w] = Part(w)
  <2>1. CASE program = "join"
    BY <2>1 DEF JoinAgrees
  <2>2. CASE program = "lab6"
    BY <2>2 DEF Lab6Agrees, Lab6Worker, Undisturbed
  <2>3. CASE program = "lab4"
    BY <2>3 DEF Lab4Agrees, Lab4Worker, Undisturbed
  <2> QED BY <2>1, <2>2, <2>3 DEF TypeOK
<1>7. thread_ret \in [Workers -> Int]
  BY DEF TypeOK
<1>8. \A w \in Workers :
        thread_ret[w] = CountPrimes(range_start + Share(range_start, range_end) * w,
                                    EndOfPart(w, range_start, range_end))
  BY <1>6 DEF Part
<1> QED BY <1>2, <1>3, <1>4, <1>5, <1>7, <1>8, PartsMakeTheRange

LEMMA RightCountsStep ==
  ASSUME TypeOK, RoundAgrees, JoinAgrees, Lab6Agrees, Lab4Agrees, RightCounts, Next
  PROVE  RightCounts'
<1> SUFFICES ASSUME Undisturbed'
             PROVE  \A n \in DOMAIN printed' :
                      printed'[n] = CountPrimes(ranges'[n][1], ranges'[n][2] + 1)
  BY DEF RightCounts
<1>1. \A n \in DOMAIN printed : printed[n] = CountPrimes(ranges[n][1], ranges[n][2] + 1)
  BY DisturbedForGood DEF RightCounts
<1>2. CASE Collect
  <2>1. main = "collect" /\ printed' = Append(printed, Sum(thread_ret)) /\ ranges' = ranges
    BY <1>2 DEF Collect, input
  <2>2. /\ round \in 1 .. Len(ranges) /\ Len(printed) = round - 1
        /\ Sum(thread_ret) = CountPrimes(ranges[round][1], ranges[round][2] + 1)
    BY <2>1, SumIsRight, DisturbedForGood
  <2>3. printed \in Seq(Int)
    BY DEF TypeOK
  <2>4. Sum(thread_ret) \in Int
    <3>1. thread_ret \in [Workers -> Int]
      BY DEF TypeOK
    <3> QED BY <3>1, SumType
  <2>5. ASSUME NEW n \in DOMAIN printed'
        PROVE  printed'[n] = CountPrimes(ranges[n][1], ranges[n][2] + 1)
    <3>1. /\ Len(printed') = Len(printed) + 1 /\ DOMAIN printed' = 1 .. Len(printed')
          /\ DOMAIN printed = 1 .. Len(printed) /\ Len(printed) \in Nat
          /\ printed'[Len(printed) + 1] = Sum(thread_ret)
          /\ \A k \in 1 .. Len(printed) : printed'[k] = printed[k]
      BY <2>1, <2>3, <2>4, AppendProperties
    <3>2. CASE n = Len(printed) + 1
      <4>1. n = round
        BY <2>2, <3>2
      <4> QED BY <2>2, <3>1, <3>2, <4>1
    <3>3. CASE n \in 1 .. Len(printed)
      BY <1>1, <3>1, <3>3
    <3> QED BY <3>1, <3>2, <3>3
  <2> QED BY <2>1, <2>5
<1>3. CASE ~Collect
  <2>1. UNCHANGED <<ranges, printed>>
    BY <1>3 DEF Next, Main, Run, WakeSpuriously, Create, Input, InputEnd, ResetResults, SetDone,
      ResetCond, Broadcast, WaitForWorkers, Join, ClearWork, TestCond, TestWork, Sleep, First,
      StoreLocked, CondWait, Awake, LoadStart, Count, Store, Mark, Add, Ended, vars, input, shared
  <2> QED BY <1>1, <2>1
<1> QED BY <1>2, <1>3

\* At the broadcast of lab6 a worker is asleep or holds the mutex.
LEMMA AsleepAtBroadcast ==
  ASSUME TypeOK, Lab6Agrees
  PROVE  NoLostWakeup
BY PrimePoolAssumption DEF NoLostWakeup, Lab6Agrees, Lab6Worker, TypeOK, Undisturbed
-----------------------------------------------------------------------------
(***************************************************************************)
(* The thread group.                                                       *)
(***************************************************************************)
LEMMA AfterAppend ==
  ASSUME NEW S, NEW s \in Seq(S), NEW e \in S
  PROVE  /\ Append(s, e) \in Seq(S) /\ Len(Append(s, e)) = Len(s) + 1
         /\ \A k \in DOMAIN s : k \in DOMAIN Append(s, e) /\ Append(s, e)[k] = s[k]
         /\ \E k \in DOMAIN Append(s, e) : Append(s, e)[k] = e
<1>1. /\ Append(s, e) \in Seq(S) /\ Len(Append(s, e)) = Len(s) + 1
      /\ DOMAIN Append(s, e) = 1 .. Len(Append(s, e)) /\ DOMAIN s = 1 .. Len(s) /\ Len(s) \in Nat
      /\ Append(s, e)[Len(s) + 1] = e
      /\ \A k \in 1 .. Len(s) : Append(s, e)[k] = s[k]
  BY AppendProperties, LenProperties
<1>2. Len(s) + 1 \in DOMAIN Append(s, e)
  BY <1>1
<1> QED BY <1>1, <1>2

LEMMA AfterTail ==
  ASSUME NEW S, NEW s \in Seq(S), s # <<>>
  PROVE  /\ Head(s) \in S /\ Tail(s) \in Seq(S) /\ Len(Tail(s)) = Len(s) - 1
         /\ \A k \in DOMAIN s :
              s[k] = Head(s) \/ \E i \in DOMAIN Tail(s) : Tail(s)[i] = s[k]
<1>1. /\ Head(s) \in S /\ Tail(s) \in Seq(S) /\ Len(Tail(s)) = Len(s) - 1 /\ Len(s) \in Nat
      /\ Head(s) = s[1] /\ \A i \in 1 .. Len(Tail(s)) : Tail(s)[i] = s[i + 1]
      /\ DOMAIN s = 1 .. Len(s) /\ DOMAIN Tail(s) = 1 .. Len(Tail(s))
  BY HeadTailProperties, LenProperties
<1>2. ASSUME NEW k \in DOMAIN s, k # 1
      PROVE  k - 1 \in DOMAIN Tail(s) /\ Tail(s)[k - 1] = s[k]
  <2>1. k - 1 \in 1 .. Len(Tail(s)) /\ (k - 1) + 1 = k
    BY <1>1, <1>2
  <2> QED BY <1>1, <2>1
<1> QED BY <1>1, <1>2

Running == {w \in Workers : running[w] # 0}

LEMMA RunningFinite == IsFiniteSet(Running) /\ Cardinality(Running) \in Nat
<1>1. Running \subseteq Workers
  BY DEF Running
<1> QED BY <1>1, WorkersFinite, FS_Subset, FS_CardinalityType

\* The consumer is a worker, and with more than one worker another one is a producer.
LEMMA TwoKinds ==
  /\ Consumer \in Workers /\ Producers \subseteq Workers /\ Consumer \notin Producers
  /\ NUM_THREAD > 1 => 0 \in Producers
BY PrimePoolAssumption DEF Consumer, Producers, Workers

\* The end of the group: no range is anywhere but in what has been printed.
LEMMA NothingLeft ==
  ASSUME NUM_THREAD > 1, GroupTypeOK, GroupAgrees
  PROVE  AllConsumed
<1> SUFFICES ASSUME program = "group", main = "end"
             PROVE  /\ Len(consumed) = Len(ranges)
                    /\ \A n \in DOMAIN ranges : \E k \in DOMAIN consumed : consumed[k] = ResultOf(n)
  BY DEF AllConsumed
<1>1. posted = <<>> /\ \A u \in Producers : running[u] = 0
  BY TwoKinds DEF GroupAgrees
<1>2. results = <<>> /\ round = Len(ranges)
  BY DEF GroupAgrees
<1>3. \A w \in Workers : running[w] = 0
  <2>1. running[Consumer] = 0
    BY TwoKinds DEF GroupAgrees, GroupTypeOK
  <2> QED BY <1>1, <2>1 DEF Producers
<1>4. Cardinality(Running) = 0
  <2>1. Running = {}
    BY <1>3 DEF Running
  <2> QED BY <2>1, FS_EmptySet
<1>5. consumed \in Seq((0 .. round - 1) \X Nat) /\ ranges \in Seq(Nat \X Nat)
  BY PrimePoolAssumption DEF GroupTypeOK
<1>6. Len(consumed) \in Nat /\ Len(ranges) \in Nat /\ DOMAIN ranges = 1 .. Len(ranges)
  BY <1>5, LenProperties
<1>7. round = Len(consumed)
  <2>1. round = Len(posted) + Cardinality(Running) + Len(results) + Len(consumed)
    BY DEF GroupAgrees, Running
  <2>2. Len(posted) = 0 /\ Len(results) = 0
    BY <1>1, <1>2
  <2> QED BY <1>4, <1>6, <2>1, <2>2
<1>8. ASSUME NEW n \in DOMAIN ranges PROVE \E k \in DOMAIN consumed : consumed[k] = ResultOf(n)
  <2>1. Somewhere(n) /\ n # 0
    BY <1>2, <1>6 DEF GroupAgrees
  <2>2. DOMAIN posted = {} /\ DOMAIN results = {}
    BY <1>1, <1>2
  <2> QED BY <1>3, <2>1, <2>2 DEF Somewhere
<1> QED BY <1>2, <1>7, <1>8

LEMMA ResultType ==
  ASSUME ranges \in Inputs, NEW n \in 1 .. Len(ranges)
  PROVE  ResultOf(n) \in (0 .. n - 1) \X Nat
<1>1. /\ Len(ranges) \in Nat /\ ranges[n][1] \in Nat /\ ranges[n][2] \in Nat
  BY RangesAreOfNumbers
<1>2. CountPrimes(ranges[n][1], ranges[n][2] + 1) \in Nat
  <2>1. ranges[n][1] \in Int /\ ranges[n][2] + 1 \in Int
    BY <1>1
  <2> QED BY <2>1, CountType, Zenon
<1>3. n - 1 \in 0 .. n - 1
  BY <1>1
<1> QED BY <1>2, <1>3, Zenon DEF ResultOf

\* The steps that move no range.
LEMMA RangesStay ==
  ASSUME GroupAgrees, program = "group",
         UNCHANGED <<ranges, round, posted, running, results, consumed>>
  PROVE  /\ \A n \in 1 .. round' : Somewhere(n)'
         /\ round' = Len(posted') + Cardinality({w \in Workers : running'[w] # 0})
                     + Len(results') + Len(consumed')
BY DEF GroupAgrees, Somewhere, ResultOf

LEMMA GroupMainStep ==
  ASSUME GroupTypeOK, GroupAgrees, program = "group", GroupMain
  PROVE  GroupTypeOK' /\ GroupAgrees'
<1>1. program' = program /\ ranges' = ranges /\ printed' = printed
  BY DEF GroupMain, CreateGroup, Post, DeleteProducerWork, DeleteConsumerWork, JoinConsumers,
    poolVars, input
<1>2. /\ ranges \in Inputs /\ round \in 0 .. Len(ranges) /\ Len(ranges) \in Nat
      /\ pc \in [Workers -> {"new", "run", "produce", "done"}]
      /\ running \in [Workers -> 0 .. round]
      /\ \A w \in Workers : running[w] # 0 <=> pc[w] = "produce"
      /\ posted \in Seq(1 .. round)
      /\ results \in Seq((0 .. round - 1) \X Nat) /\ consumed \in Seq((0 .. round - 1) \X Nat)
      /\ pwork \in BOOLEAN /\ cwork \in BOOLEAN /\ printed = <<>>
  BY RangesAreOfNumbers DEF GroupTypeOK
<1>3. Consumer \in Workers /\ Producers \subseteq Workers
  BY TwoKinds
<1>4. CASE CreateGroup
  <2>1. /\ main = "create" /\ main' = "post" /\ pwork' = TRUE /\ cwork' = TRUE
        /\ UNCHANGED <<round, posted, running, results, consumed>>
        /\ pc' = [w \in Workers |-> "run"]
    BY <1>4 DEF CreateGroup, Go
  <2>2. round = 0 /\ \A w \in Workers : pc[w] = "new"
    BY <2>1 DEF GroupAgrees
  <2>3. \A w \in Workers : running[w] = 0 /\ pc'[w] = "run"
    BY <1>2, <2>1, <2>2
  <2>4. GroupTypeOK'
    BY <1>1, <1>2, <2>1, <2>3 DEF GroupTypeOK
  <2>5. /\ \A n \in 1 .. round' : Somewhere(n)'
        /\ round' = Len(posted') + Cardinality({w \in Workers : running'[w] # 0})
                    + Len(results') + Len(consumed')
    BY <1>1, <2>1, RangesStay
  <2> QED BY <1>1, <1>3, <2>1, <2>3, <2>4, <2>5 DEF GroupAgrees
<1>5. CASE DeleteProducerWork
  <2>1. /\ main = "delete pwork" /\ main' = "join producers" /\ pwork' = FALSE
        /\ UNCHANGED <<round, pc, posted, running, results, consumed, cwork>>
    BY <1>5 DEF DeleteProducerWork, Go
  <2>4. GroupTypeOK'
    BY <1>1, <1>2, <2>1 DEF GroupTypeOK
  <2>5. /\ \A n \in 1 .. round' : Somewhere(n)'
        /\ round' = Len(posted') + Cardinality({w \in Workers : running'[w] # 0})
                    + Len(results') + Len(consumed')
    BY <1>1, <2>1, RangesStay
  <2> QED BY <1>1, <2>1, <2>4, <2>5 DEF GroupAgrees
<1>6. CASE DeleteConsumerWork
  <2>1. /\ main = "join producers" /\ main' = "join consumers" /\ cwork' = FALSE
        /\ \A w \in Producers : pc[w] = "done"
        /\ UNCHANGED <<round, pc, posted, running, results, consumed, pwork>>
    BY <1>6 DEF DeleteConsumerWork, Go
  <2>4. GroupTypeOK'
    BY <1>1, <1>2, <2>1 DEF GroupTypeOK
  <2>5. /\ \A n \in 1 .. round' : Somewhere(n)'
        /\ round' = Len(posted') + Cardinality({w \in Workers : running'[w] # 0})
                    + Len(results') + Len(consumed')
    BY <1>1, <2>1, RangesStay
  <2> QED BY <1>1, <2>1, <2>4, <2>5 DEF GroupAgrees
<1>7. CASE JoinConsumers
  <2>1. /\ main = "join consumers" /\ main' = "end" /\ pc[Consumer] = "done"
        /\ UNCHANGED <<round, pc, posted, running, results, consumed, pwork, cwork>>
    BY <1>7 DEF JoinConsumers, Go, groupVars
  <2>4. GroupTypeOK'
    BY <1>1, <1>2, <2>1 DEF GroupTypeOK
  <2>5. /\ \A n \in 1 .. round' : Somewhere(n)'
        /\ round' = Len(posted') + Cardinality({w \in Workers : running'[w] # 0})
                    + Len(results') + Len(consumed')
    BY <1>1, <2>1, RangesStay
  <2> QED BY <1>1, <2>1, <2>4, <2>5 DEF GroupAgrees
<1>8. CASE Post /\ ~(round < Len(ranges))
  <2>1. /\ main = "post" /\ main' = "delete pwork"
        /\ UNCHANGED <<round, pc, posted, running, results, consumed, pwork, cwork>>
    BY <1>8 DEF Post, Go
  <2>2. round = Len(ranges)
    BY <1>2, <1>8
  <2>4. GroupTypeOK'
    BY <1>1, <1>2, <2>1 DEF GroupTypeOK
  <2>5. /\ \A n \in 1 .. round' : Somewhere(n)'
        /\ round' = Len(posted') + Cardinality({w \in Workers : running'[w] # 0})
                    + Len(results') + Len(consumed')
    BY <1>1, <2>1, RangesStay
  <2> QED BY <1>1, <2>1, <2>2, <2>4, <2>5 DEF GroupAgrees
<1>9. CASE Post /\ round < Len(ranges)
  <2>1. /\ main = "post" /\ main' = main /\ round' = round + 1
        /\ posted' = Append(posted, round + 1)
        /\ UNCHANGED <<pc, running, results, consumed, pwork, cwork>>
    BY <1>9 DEF Post
  <2>2. round' \in 0 .. Len(ranges)
    BY <1>2, <1>9, <2>1
  <2>3. posted \in Seq(1 .. round') /\ round + 1 \in 1 .. round'
    <3>1. 1 .. round \subseteq 1 .. round'
      BY <1>2, <2>1
    <3> QED BY <1>2, <2>1, <3>1, SeqMonotonic
  <2>4. GroupTypeOK'
    <3>1. posted' \in Seq(1 .. round')
      BY <2>1, <2>3, AfterAppend
    <3>2. running \in [Workers -> 0 .. round']
      BY <1>2, <2>1
    <3>3. results \in Seq((0 .. round' - 1) \X Nat) /\ consumed \in Seq((0 .. round' - 1) \X Nat)
      <4>1. (0 .. round - 1) \X Nat \subseteq (0 .. round' - 1) \X Nat
        BY <1>2, <2>1
      <4> QED BY <1>2, <4>1, SeqMonotonic
    <3> QED BY <1>1, <1>2, <2>1, <2>2, <3>1, <3>2, <3>3 DEF GroupTypeOK
  <2>5. \A n \in 1 .. round' : Somewhere(n)'
    <3>1. /\ \A k \in DOMAIN posted : k \in DOMAIN posted' /\ posted'[k] = posted[k]
          /\ \E k \in DOMAIN posted' : posted'[k] = round + 1
      BY <2>1, <2>3, AfterAppend
    <3> SUFFICES ASSUME NEW n \in 1 .. round' PROVE Somewhere(n)'
      OBVIOUS
    <3>2. CASE n = round + 1
      BY <3>1, <3>2 DEF Somewhere
    <3>3. CASE n # round + 1
      <4>1. n \in 1 .. round
        BY <1>2, <2>1, <3>3
      <4>2. Somewhere(n)
        BY <4>1 DEF GroupAgrees
      <4> QED BY <1>1, <2>1, <3>1, <4>2 DEF Somewhere, ResultOf
    <3> QED BY <3>2, <3>3
  <2>6. round' = Len(posted') + Cardinality({w \in Workers : running'[w] # 0})
                 + Len(results') + Len(consumed')
    <3>1. Len(posted') = Len(posted) + 1 /\ Len(posted) \in Nat
      BY <1>2, <2>1, <2>3, AfterAppend, LenProperties
    <3>2. round = Len(posted) + Cardinality(Running) + Len(results) + Len(consumed)
      BY DEF GroupAgrees, Running
    <3>3. Len(results) \in Nat /\ Len(consumed) \in Nat /\ Cardinality(Running) \in Nat
      BY <1>2, LenProperties, RunningFinite
    <3>4. {w \in Workers : running'[w] # 0} = Running
      BY <2>1 DEF Running
    <3>5. Cardinality({w \in Workers : running'[w] # 0}) = Cardinality(Running)
      BY <3>4
    <3>6. Len(results') = Len(results) /\ Len(consumed') = Len(consumed)
      BY <2>1
    <3>7. round' = (Len(posted) + 1) + Cardinality(Running) + Len(results) + Len(consumed)
      BY <2>1, <3>1, <3>2, <3>3
    <3> QED BY <3>1, <3>5, <3>6, <3>7, Zenon
  <2>7. \A w \in Producers : pc[w] # "done"
    BY <2>1 DEF GroupAgrees
  <2> QED BY <1>1, <2>1, <2>4, <2>5, <2>6, <2>7 DEF GroupAgrees
<1> QED BY <1>4, <1>5, <1>6, <1>7, <1>8, <1>9 DEF GroupMain
\* A step takes a range from one place to the next.
LEMMA OneMoves ==
  ASSUME NEW p \in Nat, NEW k \in Nat, NEW r \in Nat, NEW q \in Nat, NEW n, n = p + k + r + q
  PROVE  /\ n = (p - 1) + (k + 1) + r + q
         /\ n = p + (k - 1) + (r + 1) + q
         /\ n = p + k + (r - 1) + (q + 1)
OBVIOUS

LEMMA GroupRunStep ==
  ASSUME GroupTypeOK, GroupAgrees, program = "group", NEW w \in Workers, GroupRun(w)
  PROVE  GroupTypeOK' /\ GroupAgrees'
<1>1. /\ program' = program /\ ranges' = ranges /\ printed' = printed
      /\ round' = round /\ main' = main /\ pwork' = pwork /\ cwork' = cwork
  BY DEF GroupRun, Take, Produce, Consume, Return, poolVars, input, groupVars
<1>2. /\ ranges \in Inputs /\ round \in 0 .. Len(ranges) /\ Len(ranges) \in Nat
      /\ pc \in [Workers -> {"new", "run", "produce", "done"}]
      /\ running \in [Workers -> 0 .. round]
      /\ \A u \in Workers : running[u] # 0 <=> pc[u] = "produce"
      /\ posted \in Seq(1 .. round)
      /\ results \in Seq((0 .. round - 1) \X Nat) /\ consumed \in Seq((0 .. round - 1) \X Nat)
      /\ pwork \in BOOLEAN /\ cwork \in BOOLEAN /\ printed = <<>>
  BY RangesAreOfNumbers DEF GroupTypeOK
<1>3. Consumer \in Workers /\ Producers = Workers \ {Consumer}
  BY TwoKinds DEF Producers
<1>4. /\ \A n \in 1 .. round : Somewhere(n)
      /\ main = "create" => round = 0 /\ \A u \in Workers : pc[u] = "new"
      /\ main # "create" => \A u \in Workers : pc[u] # "new"
      /\ pc[Consumer] # "produce"
      /\ \A u \in Producers : pc[u] = "done" =>
           ~pwork /\ posted = <<>> /\ \A v \in Producers : running[v] = 0
      /\ main \in {"join consumers", "end"} => \A u \in Producers : pc[u] = "done"
      /\ pc[Consumer] = "done" => main \in {"join consumers", "end"} /\ results = <<>>
  BY DEF GroupAgrees, Running
<1>5. /\ Len(posted) \in Nat /\ Len(results) \in Nat /\ Len(consumed) \in Nat
      /\ Cardinality(Running) \in Nat /\ IsFiniteSet(Running)
  BY <1>2, LenProperties, RunningFinite
<1>11. round = Len(posted) + Cardinality(Running) + Len(results) + Len(consumed)
  BY DEF GroupAgrees, Running
<1>6. pc[w] # "new" /\ main # "create"
  BY <1>4 DEF GroupRun, Take, Produce, Consume, Return
<1>7. CASE Take(w)
  <2>1. /\ pc[w] = "run" /\ w \in Producers /\ posted # <<>>
        /\ pc' = [pc EXCEPT ![w] = "produce"]
        /\ running' = [running EXCEPT ![w] = Head(posted)] /\ posted' = Tail(posted)
        /\ UNCHANGED <<results, consumed>>
    BY <1>3, <1>7 DEF Take, Goto
  <2>2. /\ Head(posted) \in 1 .. round /\ posted' \in Seq(1 .. round)
        /\ Len(posted') = Len(posted) - 1
        /\ \A k \in DOMAIN posted :
             posted[k] = Head(posted) \/ \E i \in DOMAIN posted' : posted'[i] = posted[k]
    BY <1>2, <2>1, AfterTail
  <2>3. /\ pc'[w] = "produce" /\ running'[w] = Head(posted) /\ running[w] = 0
        /\ \A u \in Workers \ {w} : pc'[u] = pc[u] /\ running'[u] = running[u]
    BY <1>2, <2>1
  <2>4. GroupTypeOK'
    <3>1. /\ pc' \in [Workers -> {"new", "run", "produce", "done"}]
          /\ running' \in [Workers -> 0 .. round]
      BY <1>2, <2>1, <2>2
    <3>2. \A u \in Workers : running'[u] # 0 <=> pc'[u] = "produce"
      <4>1. Head(posted) # 0
        BY <2>2
      <4> QED BY <1>2, <2>3, <4>1
    <3> QED BY <1>1, <1>2, <2>1, <2>2, <3>1, <3>2 DEF GroupTypeOK
  <2>5. ASSUME NEW n \in 1 .. round PROVE Somewhere(n)'
    <3>1. Somewhere(n)
      BY <1>4
    <3>2. n # 0
      BY <1>2
    <3> QED BY <1>1, <3>2, <2>1, <2>2, <2>3, <3>1 DEF Somewhere, ResultOf
  <2>6. Cardinality({u \in Workers : running'[u] # 0}) = Cardinality(Running) + 1
    <3>1. {u \in Workers : running'[u] # 0} = Running \cup {w} /\ w \notin Running
      BY <2>2, <2>3 DEF Running
    <3> QED BY <1>5, <3>1, FS_AddElement
  <2>7. Len(results') = Len(results) /\ Len(consumed') = Len(consumed)
    BY <2>1
  <2>8. round = Len(posted') + Cardinality({u \in Workers : running'[u] # 0})
                + Len(results') + Len(consumed')
    <3>1. Len(posted') = Len(posted) - 1 /\ Len(results') = Len(results)
          /\ Len(consumed') = Len(consumed)
      BY <2>2, <2>7
    <3>2. round = (Len(posted) - 1) + (Cardinality(Running) + 1) + Len(results) + Len(consumed)
      BY <1>5, <1>11, OneMoves
    <3> QED BY <2>6, <3>1, <3>2, Zenon
  <2>9. /\ main \notin {"join consumers", "end"} /\ \A u \in Producers : pc[u] # "done"
        /\ pc[Consumer] # "done" /\ w # Consumer
    BY <1>3, <1>4, <2>1
  <2>10. /\ \A u \in Workers : pc'[u] # "new"
         /\ pc'[Consumer] # "produce" /\ pc'[Consumer] # "done"
         /\ \A u \in Producers : pc'[u] # "done"
    BY <1>3, <1>4, <1>6, <2>3, <2>9
  <2> QED BY <1>1, <1>6, <2>4, <2>5, <2>8, <2>9, <2>10 DEF GroupAgrees
<1>8. CASE Produce(w)
  <2>1. /\ pc[w] = "produce" /\ pc' = [pc EXCEPT ![w] = "run"]
        /\ results' = Append(results, ResultOf(running[w]))
        /\ running' = [running EXCEPT ![w] = 0]
        /\ UNCHANGED <<posted, consumed>>
    BY <1>8 DEF Produce, Goto
  <2>2. running[w] \in 1 .. round /\ running[w] \in 1 .. Len(ranges)
    BY <1>2, <2>1
  <2>3. ResultOf(running[w]) \in (0 .. round - 1) \X Nat
    <3>1. ResultOf(running[w]) \in (0 .. running[w] - 1) \X Nat
      BY <1>2, <2>2, ResultType
    <3>2. 0 .. running[w] - 1 \subseteq 0 .. round - 1
      BY <1>2, <2>2
    <3> QED BY <3>1, <3>2, Zenon
  <2>4. /\ results' \in Seq((0 .. round - 1) \X Nat) /\ Len(results') = Len(results) + 1
        /\ \A k \in DOMAIN results : k \in DOMAIN results' /\ results'[k] = results[k]
        /\ \E k \in DOMAIN results' : results'[k] = ResultOf(running[w])
    <3> DEFINE S == (0 .. round - 1) \X Nat
               e == ResultOf(running[w])
    <3>1. results \in Seq(S) /\ e \in S /\ results' = Append(results, e)
      BY <1>2, <2>1, <2>3
    <3> HIDE DEF S, e
    <3>2. /\ results' \in Seq(S) /\ Len(results') = Len(results) + 1
          /\ \A k \in DOMAIN results : k \in DOMAIN results' /\ results'[k] = results[k]
          /\ \E k \in DOMAIN results' : results'[k] = e
      BY <3>1, AfterAppend
    <3> QED BY <3>2 DEF S, e
  <2>5. /\ pc'[w] = "run" /\ running'[w] = 0
        /\ \A u \in Workers \ {w} : pc'[u] = pc[u] /\ running'[u] = running[u]
    BY <1>2, <2>1
  <2>6. GroupTypeOK'
    <3>1. /\ pc' \in [Workers -> {"new", "run", "produce", "done"}]
          /\ running' \in [Workers -> 0 .. round]
      BY <1>2, <2>1
    <3>2. \A u \in Workers : running'[u] # 0 <=> pc'[u] = "produce"
      BY <1>2, <2>5
    <3> QED BY <1>1, <1>2, <2>1, <2>4, <3>1, <3>2 DEF GroupTypeOK
  <2>7. ASSUME NEW n \in 1 .. round PROVE Somewhere(n)'
    <3>1. Somewhere(n)
      BY <1>4
    <3>2. \A m : ResultOf(m)' = ResultOf(m)
      BY <1>1 DEF ResultOf
    <3>3. CASE running[w] = n
      BY <2>4, <3>2, <3>3 DEF Somewhere
    <3>4. CASE running[w] # n
      BY <2>1, <2>4, <2>5, <3>1, <3>2, <3>4 DEF Somewhere
    <3> QED BY <3>3, <3>4
  <2>8. Cardinality({u \in Workers : running'[u] # 0}) = Cardinality(Running) - 1
    <3>1. {u \in Workers : running'[u] # 0} = Running \ {w} /\ w \in Running
      BY <2>2, <2>5 DEF Running
    <3> QED BY <1>5, <3>1, FS_RemoveElement
  <2>9. Len(posted') = Len(posted) /\ Len(consumed') = Len(consumed)
    BY <2>1
  <2>10. round = Len(posted') + Cardinality({u \in Workers : running'[u] # 0})
                 + Len(results') + Len(consumed')
    <3>1. Len(posted') = Len(posted) /\ Len(results') = Len(results) + 1
          /\ Len(consumed') = Len(consumed)
      BY <2>4, <2>9
    <3>2. round = Len(posted) + (Cardinality(Running) - 1) + (Len(results) + 1) + Len(consumed)
      BY <1>5, <1>11, OneMoves
    <3> QED BY <2>8, <3>1, <3>2, Zenon
  <2>11. w \in Producers /\ \A u \in Producers : pc[u] # "done"
    <3>1. running[w] # 0
      BY <1>2, <2>2
    <3>2. w \in Producers
      BY <1>3, <1>4, <2>1
    <3> QED BY <1>4, <3>1, <3>2
  <2>12. main \notin {"join consumers", "end"} /\ pc[Consumer] # "done"
    BY <1>4, <2>11
  <2>13. /\ \A u \in Workers : pc'[u] # "new"
         /\ pc'[Consumer] # "produce" /\ pc'[Consumer] # "done"
         /\ \A u \in Producers : pc'[u] # "done"
    BY <1>3, <1>4, <1>6, <2>5, <2>11, <2>12
  <2> QED BY <1>1, <1>6, <2>6, <2>7, <2>10, <2>12, <2>13 DEF GroupAgrees
<1>9. CASE Consume(w)
  <2>1. /\ pc[w] = "run" /\ w = Consumer /\ results # <<>>
        /\ consumed' = Append(consumed, Head(results)) /\ results' = Tail(results)
        /\ UNCHANGED <<pc, posted, running>>
    BY <1>9 DEF Consume
  <2>2. /\ Head(results) \in (0 .. round - 1) \X Nat /\ results' \in Seq((0 .. round - 1) \X Nat)
        /\ Len(results') = Len(results) - 1
        /\ \A k \in DOMAIN results :
             results[k] = Head(results) \/ \E i \in DOMAIN results' : results'[i] = results[k]
    BY <1>2, <2>1, AfterTail
  <2>3. /\ consumed' \in Seq((0 .. round - 1) \X Nat) /\ Len(consumed') = Len(consumed) + 1
        /\ \A k \in DOMAIN consumed : k \in DOMAIN consumed' /\ consumed'[k] = consumed[k]
        /\ \E k \in DOMAIN consumed' : consumed'[k] = Head(results)
    <3> DEFINE S == (0 .. round - 1) \X Nat
               e == Head(results)
    <3>1. consumed \in Seq(S) /\ e \in S /\ consumed' = Append(consumed, e)
      BY <1>2, <2>1, <2>2
    <3> HIDE DEF S, e
    <3>2. /\ consumed' \in Seq(S) /\ Len(consumed') = Len(consumed) + 1
          /\ \A k \in DOMAIN consumed : k \in DOMAIN consumed' /\ consumed'[k] = consumed[k]
          /\ \E k \in DOMAIN consumed' : consumed'[k] = e
      BY <3>1, AfterAppend
    <3> QED BY <3>2 DEF S, e
  <2>4. GroupTypeOK'
    BY <1>1, <1>2, <2>1, <2>2, <2>3 DEF GroupTypeOK
  <2>5. ASSUME NEW n \in 1 .. round PROVE Somewhere(n)'
    <3>1. Somewhere(n)
      BY <1>4
    <3>2. \A m : ResultOf(m)' = ResultOf(m)
      BY <1>1 DEF ResultOf
    <3>3. CASE \E k \in DOMAIN results : results[k] = ResultOf(n)
      BY <2>2, <2>3, <3>2, <3>3 DEF Somewhere
    <3>4. CASE ~ \E k \in DOMAIN results : results[k] = ResultOf(n)
      BY <2>1, <2>3, <3>1, <3>2, <3>4 DEF Somewhere
    <3> QED BY <3>3, <3>4
  <2>6. Len(posted') = Len(posted)
        /\ Cardinality({u \in Workers : running'[u] # 0}) = Cardinality(Running)
    BY <2>1 DEF Running
  <2>7. round = Len(posted') + Cardinality({u \in Workers : running'[u] # 0})
                + Len(results') + Len(consumed')
    <3>1. Len(posted') = Len(posted) /\ Len(results') = Len(results) - 1
          /\ Len(consumed') = Len(consumed) + 1
      BY <2>2, <2>3, <2>6
    <3>2. round = Len(posted) + Cardinality(Running) + (Len(results) - 1) + (Len(consumed) + 1)
      BY <1>5, <1>11, OneMoves
    <3> QED BY <2>6, <3>1, <3>2, Zenon
  <2> QED BY <1>1, <1>3, <2>1, <2>4, <2>5, <2>7 DEF GroupAgrees
<1>10. CASE Return(w)
  <2>1. /\ pc[w] = "run" /\ pc' = [pc EXCEPT ![w] = "done"]
        /\ UNCHANGED <<posted, running, results, consumed>>
        /\ w = Consumer => ~cwork /\ results = <<>>
        /\ w # Consumer => ~pwork /\ posted = <<>> /\ \A u \in Producers : running[u] = 0
    BY <1>10 DEF Return, Goto, groupVars
  <2>2. pc'[w] = "done" /\ \A u \in Workers \ {w} : pc'[u] = pc[u]
    BY <1>2, <2>1
  <2>3. GroupTypeOK'
    <3>1. pc' \in [Workers -> {"new", "run", "produce", "done"}]
      BY <1>2, <2>1
    <3>2. \A u \in Workers : running'[u] # 0 <=> pc'[u] = "produce"
      BY <1>2, <2>1, <2>2
    <3> QED BY <1>1, <1>2, <2>1, <3>1, <3>2 DEF GroupTypeOK
  <2>4. /\ \A n \in 1 .. round' : Somewhere(n)'
        /\ round' = Len(posted') + Cardinality({u \in Workers : running'[u] # 0})
                    + Len(results') + Len(consumed')
    BY <1>1, <2>1, RangesStay
  <2>5. w = Consumer => main \in {"join consumers", "end"}
    BY <1>6, <2>1 DEF GroupAgrees, GroupTypeOK
  <2>6. /\ \A u \in Workers : pc'[u] # "new"
        /\ pc'[Consumer] # "produce"
        /\ pc'[Consumer] = "done" => main \in {"join consumers", "end"} /\ results = <<>>
        /\ main \in {"join consumers", "end"} => \A u \in Producers : pc'[u] = "done"
        /\ main = "end" => pc'[Consumer] = "done"
        /\ \A u \in Producers : pc'[u] = "done" =>
             ~pwork /\ posted = <<>> /\ \A v \in Producers : running[v] = 0
    <3>1. main = "end" => pc[Consumer] = "done"
      BY DEF GroupAgrees
    <3> QED BY <1>3, <1>4, <1>6, <2>1, <2>2, <2>5, <3>1
  <2> QED BY <1>1, <1>6, <2>1, <2>3, <2>4, <2>6 DEF GroupAgrees
<1> QED BY <1>7, <1>8, <1>9, <1>10 DEF GroupRun
-----------------------------------------------------------------------------
(***************************************************************************)
(* The invariant, and the theorems.                                        *)
(***************************************************************************)

\* What is inductive: GroupInv without what it says of the end, with the printed counts.
PoolInv ==
  /\ GroupTypeOK /\ GroupAgrees
  /\ program # "group" => RoundAgrees /\ JoinAgrees /\ Lab6Agrees /\ Lab4Agrees /\ RightCounts

LEMMA InitPoolInv == ASSUME GroupInit PROVE PoolInv
<1>1. /\ NUM_THREAD \in Nat /\ NUM_THREAD > 0 /\ Nobody \notin Workers /\ MaxSpurious \in Nat
      /\ Consumer \in Workers
  BY PrimePoolAssumption, TwoKinds
<1>2. /\ program \in {"join", "lab4", "lab6", "group"} /\ ranges \in Inputs
      /\ round = 0 /\ main = IF program = "join" THEN "input" ELSE "create"
      /\ range_start = 0 /\ range_end = 0 /\ is_done = FALSE /\ cond = NUM_THREAD
      /\ thread_work = [w \in Workers |-> 0] /\ thread_ret = [w \in Workers |-> 0]
      /\ mutex = Nobody /\ pc = [w \in Workers |-> "new"]
      /\ start = [w \in Workers |-> 0] /\ cnt = [w \in Workers |-> 0] /\ printed = <<>>
      /\ spurious = 0 /\ missed = FALSE /\ stale = FALSE
      /\ posted = <<>> /\ running = [w \in Workers |-> 0] /\ results = <<>> /\ consumed = <<>>
      /\ pwork = FALSE /\ cwork = FALSE
  BY DEF GroupInit, Start
<1>3. Len(ranges) \in Nat /\ round \in 0 .. Len(ranges)
  BY <1>2, RangesAreOfNumbers
<1>4. /\ posted \in Seq(1 .. round) /\ printed \in Seq(Int) /\ Len(printed) = 0
      /\ results \in Seq((0 .. round - 1) \X Nat) /\ consumed \in Seq((0 .. round - 1) \X Nat)
  BY <1>2, EmptySeq
<1>5. GroupTypeOK
  <2>1. CASE program = "group"
    <3>1. /\ pc \in [Workers -> {"new", "run", "produce", "done"}]
          /\ running \in [Workers -> 0 .. round]
          /\ \A w \in Workers : running[w] # 0 <=> pc[w] = "produce"
      BY <1>2, <1>3
    <3>2. pwork \in BOOLEAN /\ cwork \in BOOLEAN /\ main = "create"
      BY <1>2, <2>1
    <3> QED BY <1>2, <1>3, <1>4, <2>1, <3>1, <3>2 DEF GroupTypeOK
  <2>2. CASE program # "group"
    <3>1. /\ thread_work \in [Workers -> 0 .. 1] /\ thread_ret \in [Workers -> Nat \cup {-1}]
          /\ start \in [Workers -> Nat \cup {-1}] /\ cnt \in [Workers -> Nat]
          /\ pc \in [Workers -> {"new", "first", "cond", "work", "sleep", "wait", "asleep",
                                  "awake", "start", "count", "store", "mark", "add", "done"}]
          /\ \A w \in Workers : mutex = w <=> pc[w] = "wait"
      BY <1>1, <1>2
    <3>2. is_done \in BOOLEAN /\ missed \in BOOLEAN /\ stale \in BOOLEAN
      BY <1>2, Zenon
    <3>3. main \in {"create", "input"} /\ program \in {"join", "lab4", "lab6"}
      BY <1>2, <2>2
    <3>4. spurious \in 0 .. MaxSpurious /\ cond \in Nat
      <4>1. spurious = 0 /\ cond = NUM_THREAD
        BY <1>2
      <4> QED BY <1>1, <4>1
    <3>5. TypeOK
      BY <1>2, <1>3, <1>4, <3>1, <3>2, <3>3, <3>4 DEF TypeOK
    <3> QED BY <1>2, <2>2, <3>5 DEF GroupTypeOK
  <2> QED BY <2>1, <2>2
<1>6. GroupAgrees
  <2> SUFFICES ASSUME program = "group" PROVE GroupAgrees
    BY DEF GroupAgrees
  <2>1. {w \in Workers : running[w] # 0} = {}
    BY <1>2
  <2>2. Cardinality({w \in Workers : running[w] # 0}) = 0
    BY <2>1, FS_EmptySet
  <2>3. round = Len(posted) + Cardinality({w \in Workers : running[w] # 0})
                + Len(results) + Len(consumed)
    BY <1>2, <2>2
  <2>4. 1 .. round = {}
    BY <1>2
  <2> QED BY <1>1, <1>2, <2>3, <2>4 DEF GroupAgrees, Producers
<1>7. ASSUME program # "group"
      PROVE  RoundAgrees /\ JoinAgrees /\ Lab6Agrees /\ Lab4Agrees /\ RightCounts
  <2>1. RoundAgrees
    <3>1. ~InRound /\ main \in {"create", "input"} /\ (main = "create" => program # "join")
      BY <1>2, <1>7 DEF InRound
    <3>2. /\ Len(printed) = round - (IF InRound THEN 1 ELSE 0)
          /\ InRound => range_start = ranges[round][1] /\ range_end = ranges[round][2]
      <4>1. (IF InRound THEN 1 ELSE 0) = 0
        BY <3>1, Zenon
      <4>2. Len(printed) = 0 /\ round = 0
        BY <1>2, <1>4
      <4>3. 0 = 0 - 0
        OBVIOUS
      <4> QED BY <3>1, <4>1, <4>2, <4>3, Zenon
    <3>3. \A w \in Workers : pc[w] # "first"
      BY <1>2
    <3> QED BY <1>2, <3>1, <3>2, <3>3 DEF RoundAgrees
  <2>2. JoinAgrees
    BY <1>2 DEF JoinAgrees
  <2>3. Lab6Agrees
    BY <1>2 DEF Lab6Agrees, Lab6Worker, CountsRange, Reported
  <2>4. Lab4Agrees
    BY <1>2 DEF Lab4Agrees, Lab4Worker, CountsRange
  <2>5. RightCounts
    BY <1>2 DEF RightCounts
  <2> QED BY <2>1, <2>2, <2>3, <2>4, <2>5
<1> QED BY <1>5, <1>6, <1>7 DEF PoolInv

LEMMA ProgramStays == ASSUME Next PROVE program' = program
BY DEF Next, Main, Run, WakeSpuriously, Create, Input, InputEnd, ResetResults, SetDone, ResetCond,
  Broadcast, WaitForWorkers, Join, Collect, ClearWork, TestCond, TestWork, Sleep, First,
  StoreLocked, CondWait, Awake, LoadStart, Count, Store, Mark, Add, Ended, vars, input, shared

LEMMA PoolStep ==
  ASSUME PoolInv, GroupNext, program # "group"
  PROVE  PoolInv'
<1>1. /\ TypeOK /\ posted = <<>> /\ results = <<>>
      /\ RoundAgrees /\ JoinAgrees /\ Lab6Agrees /\ Lab4Agrees /\ RightCounts
  BY DEF PoolInv, GroupTypeOK
<1>2. Next /\ UNCHANGED groupVars
  <2>1. ~GroupMain
    BY <1>1 DEF GroupMain, CreateGroup, Post, DeleteProducerWork, DeleteConsumerWork,
      JoinConsumers, TypeOK
  <2>2. \A w \in Workers : ~GroupRun(w)
    BY <1>1 DEF GroupRun, Take, Produce, Consume, Return, TypeOK
  <2> QED BY <2>1, <2>2 DEF GroupNext
<1>3. program' = program /\ posted' = posted /\ results' = results
  BY <1>2, ProgramStays DEF groupVars
<1>4. TypeOK' /\ RoundAgrees'
  <2>1. CASE Ended
    BY <1>1, <2>1 DEF Ended, vars, input, range, workVars, locals, history, TypeOK, RoundAgrees,
      InRound
  <2> QED BY <1>1, <1>2, <2>1, WorkerTypes, MainTypes DEF Next
<1>5. JoinAgrees'
  BY <1>1, <1>2, <1>3, JoinStep DEF JoinAgrees
<1>6. Lab6Agrees'
  BY <1>1, <1>2, <1>3, Lab6Step DEF Lab6Agrees
<1>7. Lab4Agrees'
  BY <1>1, <1>2, <1>3, Lab4Step DEF Lab4Agrees
<1>8. RightCounts'
  BY <1>1, <1>2, RightCountsStep
<1>9. GroupTypeOK'
  BY <1>1, <1>3, <1>4 DEF GroupTypeOK
<1>10. GroupAgrees'
  BY <1>3 DEF GroupAgrees
<1> QED BY <1>4, <1>5, <1>6, <1>7, <1>8, <1>9, <1>10 DEF PoolInv

LEMMA GroupStep ==
  ASSUME PoolInv, GroupNext, program = "group"
  PROVE  PoolInv'
<1>1. GroupTypeOK /\ GroupAgrees
  BY DEF PoolInv
<1>2. CASE GroupMain
  <2>1. program' = program
    BY <1>2 DEF GroupMain, CreateGroup, Post, DeleteProducerWork, DeleteConsumerWork,
      JoinConsumers, poolVars, input
  <2> QED BY <1>1, <1>2, <2>1, GroupMainStep DEF PoolInv
<1>3. ASSUME NEW w \in Workers, GroupRun(w) PROVE PoolInv'
  <2>1. program' = program
    BY <1>3 DEF GroupRun, Take, Produce, Consume, Return, poolVars, input
  <2> QED BY <1>1, <1>3, <2>1, GroupRunStep DEF PoolInv
<1>4. ASSUME Next, UNCHANGED groupVars PROVE PoolInv'
  <2>1. /\ main \in {"create", "post", "delete pwork", "join producers", "join consumers", "end"}
        /\ \A w \in Workers : pc[w] \in {"new", "run", "produce", "done"}
    BY <1>1 DEF GroupTypeOK
  <2>2. ~Main
    BY <2>1 DEF Main, Create, Input, InputEnd, ResetResults, SetDone, ResetCond, Broadcast,
      WaitForWorkers, Join, Collect, ClearWork
  <2>3. \A w \in Workers : ~Run(w) /\ ~WakeSpuriously(w)
    BY <2>1 DEF Run, WakeSpuriously, TestCond, TestWork, Sleep, First, StoreLocked, CondWait,
      Awake, LoadStart, Count, Store, Mark, Add
  <2>4. UNCHANGED <<program, ranges, round, main, pc, running, posted, results, consumed, pwork,
                    cwork, printed>>
    BY <1>4, <2>2, <2>3 DEF Next, Ended, vars, input, groupVars
  <2>5. GroupTypeOK'
    BY <1>1, <2>4 DEF GroupTypeOK
  <2>6. GroupAgrees'
    BY <1>1, <2>4 DEF GroupAgrees, Somewhere, ResultOf
  <2> QED BY <2>4, <2>5, <2>6 DEF PoolInv
<1> QED BY <1>2, <1>3, <1>4 DEF GroupNext

LEMMA PoolStutters == ASSUME PoolInv, UNCHANGED allVars PROVE PoolInv'
<1>1. UNCHANGED <<program, ranges, round, main, range_start, range_end, is_done, cond, thread_work,
                  thread_ret, mutex, pc, start, cnt, printed, spurious, missed, stale,
                  posted, running, results, consumed, pwork, cwork>>
  BY DEF allVars, vars, groupVars, input, range, workVars, locals, history
<1>2. GroupTypeOK'
  <2>1. GroupTypeOK
    BY DEF PoolInv
  <2>2. program # "group" => TypeOK'
    <3>1. program # "group" => TypeOK
      BY <2>1 DEF GroupTypeOK
    <3> QED BY <1>1, <3>1, Zenon DEF TypeOK
  <2> QED BY <1>1, <2>1, <2>2, Zenon DEF GroupTypeOK
<1>3. GroupAgrees'
  BY <1>1 DEF PoolInv, GroupAgrees, Somewhere, ResultOf
<1>4. ASSUME program # "group"
      PROVE  (RoundAgrees /\ JoinAgrees /\ Lab6Agrees /\ Lab4Agrees /\ RightCounts)'
  <2>1. RoundAgrees'
    BY <1>1, <1>4 DEF PoolInv, RoundAgrees, InRound
  <2>2. JoinAgrees'
    BY <1>1, <1>4 DEF PoolInv, JoinAgrees, CountsRange, Part
  <2>3. Lab6Agrees'
    BY <1>1, <1>4 DEF PoolInv, Lab6Agrees, Lab6Worker, CountsRange, Part, Reported
  <2>4. Lab4Agrees'
    BY <1>1, <1>4 DEF PoolInv, Lab4Agrees, Lab4Worker, CountsRange, Part, Added
  <2>5. RightCounts'
    BY <1>1, <1>4 DEF PoolInv, RightCounts, Undisturbed
  <2> QED BY <2>1, <2>2, <2>3, <2>4, <2>5
<1> QED BY <1>1, <1>2, <1>3, <1>4 DEF PoolInv

LEMMA PoolInvariance == GroupSpec => []PoolInv
<1>1. PoolInv /\ [GroupNext]_allVars => PoolInv'
  BY PoolStep, GroupStep, PoolStutters
<1> QED BY InitPoolInv, <1>1, PTL DEF GroupSpec

\* The invariant of all the programs.  A thread group has producers besides its consumer:
\* prac_threadgroup.cpp makes nine, and one (NUM_THREAD_IN_POOL is 10).
THEOREM Invariance == NUM_THREAD > 1 => (GroupSpec => []GroupInv)
<1>1. ASSUME NUM_THREAD > 1, PoolInv PROVE GroupInv
  BY <1>1, NothingLeft DEF PoolInv, GroupInv
<1> SUFFICES ASSUME NUM_THREAD > 1 PROVE GroupSpec => []GroupInv
  OBVIOUS
<1>2. PoolInv => GroupInv
  BY <1>1
<1> QED BY <1>2, PoolInvariance, PTL

\* Whatever the order in which main and the workers run, every count that lab4, lab6 and the
\* programs that join print is the number of the primes of its range, as long as the execution
\* is Undisturbed: no worker of lab6 has woken up on its own and none of lab4 has started on a
\* range that is over.
THEOREM CountsAreRight == GroupSpec => []RightCounts
<1>1. PoolInv => RightCounts
  <2> SUFFICES ASSUME PoolInv PROVE RightCounts
    OBVIOUS
  <2>1. CASE program = "group"
    <3>1. printed = <<>>
      BY <2>1 DEF PoolInv, GroupTypeOK
    <3>2. DOMAIN printed = {}
      BY <3>1
    <3> QED BY <3>2 DEF RightCounts
  <2>2. CASE program # "group"
    BY <2>2 DEF PoolInv
  <2> QED BY <2>1, <2>2
<1> QED BY <1>1, PoolInvariance, PTL

\* No worker of lab6 misses a broadcast, unless one has woken up on its own.
THEOREM AllAreAsleep == GroupSpec => []NoLostWakeup
<1>1. PoolInv => NoLostWakeup
  <2>1. CASE program = "lab6"
    BY <2>1, AsleepAtBroadcast DEF PoolInv, GroupTypeOK
  <2>2. CASE program # "lab6"
    BY <2>2 DEF NoLostWakeup
  <2> QED BY <2>1, <2>2
<1> QED BY <1>1, PoolInvariance, PTL
=============================================================================
