-------------------------- MODULE ExternalSortProofs --------------------------
(***************************************************************************)
(* The external sort of project1 sorts, and keeps within its buffers, for  *)
(* every number of threads, every size of blocks and buffers, and every    *)
(* input, whichever system calls fail.  First numbers and recursive        *)
(* functions; then the heap; the inductive invariant; counting, merging    *)
(* and sorting as such; then one lemma per action.                         *)
(***************************************************************************)
EXTENDS ExternalSort, SequenceTheorems, FiniteSetTheorems, WellFoundedInduction, TLAPS

\* What the proofs use of products.
LEMMA Multiplication ==
  /\ \A a, b \in Nat : a * b \in Nat /\ (a # 0 /\ b # 0 => a * b # 0)
  /\ \A a, b, c \in Nat : a <= b => a * c <= b * c
  /\ \A a, b, c \in Nat : c # 0 /\ a * c <= b * c => a <= b
  /\ \A a, b, c \in Int : (a + b) * c = a * c + b * c
  /\ \A a, b, c \in Int : (a * b) * c = a * (b * c)
  /\ \A a, b \in Int : a * b = b * a
<1>1. \A a, b \in Nat : a * b \in Nat /\ (a # 0 /\ b # 0 => a * b # 0)
  OBVIOUS
<1>2. \A a, b, c \in Nat : a <= b => a * c <= b * c
  OBVIOUS
<1>3. \A a, b, c \in Nat : c # 0 /\ a * c <= b * c => a <= b
  OBVIOUS
<1>4. \A a, b, c \in Int : (a + b) * c = a * c + b * c
  OBVIOUS
<1>5. \A a, b, c \in Int : (a * b) * c = a * (b * c)
  OBVIOUS
<1>6. \A a, b \in Int : a * b = b * a
  OBVIOUS
<1> QED BY <1>1, <1>2, <1>3, <1>4, <1>5, <1>6

\* Quotient and remainder, and how to recognise a quotient.
LEMMA Division ==
  ASSUME NEW a \in Nat, NEW b \in Nat \ {0}
  PROVE  /\ a \div b \in Nat /\ a % b \in 0 .. b - 1
         /\ a = (a \div b) * b + (a % b)
         /\ \A q \in Nat : q * b <= a /\ a < (q + 1) * b => a \div b = q
<1>1. /\ a \div b \in Nat /\ a % b \in 0 .. b - 1
      /\ a = (a \div b) * b + (a % b)
  <2>1. a \div b \in Nat
    OBVIOUS
  <2>2. a % b \in 0 .. b - 1
    OBVIOUS
  <2>3. a = (a \div b) * b + (a % b)
    OBVIOUS
  <2> QED BY <2>1, <2>2, <2>3
<1>2. ASSUME NEW q \in Nat, q * b <= a, a < (q + 1) * b PROVE a \div b = q
  <2> DEFINE d == a \div b
             m == a % b
  <2>1. d \in Nat /\ m \in 0 .. b - 1 /\ a = d * b + m
    BY <1>1
  <2> HIDE DEF d, m
  <2>2. (d + 1) * b = d * b + b /\ (q + 1) * b = q * b + b
    BY <2>1, Multiplication
  <2>3. d * b < q * b + b /\ q * b < d * b + b
    BY <1>2, <2>1, <2>2, Multiplication
  <2>4. ~(q + 1 <= d)
    BY <2>1, <2>2, <2>3, Multiplication
  <2>5. ~(d + 1 <= q)
    BY <2>1, <2>2, <2>3, Multiplication
  <2>6. d = q
    BY <2>1, <2>4, <2>5
  <2> QED BY <2>6 DEF d
<1> QED BY <1>1, <1>2

\* A set of numbers has a least one.
LEMMA Smallest ==
  ASSUME NEW T, T \subseteq Nat, T # {}
  PROVE  \E x \in T : \A y \in T : x <= y
<1>1. PICK x \in T : \A y \in T : <<y, x>> \notin OpToRel(<, Nat)
  BY NatLessThanWellFounded, WFMin
<1>2. ASSUME NEW y \in T PROVE x <= y
  <2>1. x \in Nat /\ y \in Nat
    OBVIOUS
  <2>2. ~(y < x)
    BY <1>1, <2>1 DEF OpToRel
  <2> QED BY <2>1, <2>2
<1> QED BY <1>2

\* Induction, for a property given as the set of the numbers that have it.
LEMMA SetInduction ==
  ASSUME NEW A, 0 \in A, \A n \in Nat : n \in A => n + 1 \in A
  PROVE  Nat \subseteq A
<1> SUFFICES ASSUME Nat \ A # {} PROVE FALSE
  OBVIOUS
<1>1. PICK x \in Nat \ A : \A y \in Nat \ A : x <= y
  <2>1. Nat \ A \subseteq Nat
    OBVIOUS
  <2> QED BY <2>1, Smallest
<1>2. x - 1 \in Nat /\ (x - 1) + 1 = x
  BY <1>1
<1> QED BY <1>1, <1>2

\* A function can be applied any number of times: the only use of the choice of a
\* function, on which the recursive functions of the model rest.
LEMMA Iterates ==
  ASSUME NEW V, NEW a \in V, NEW G \in [V -> V]
  PROVE  \E F \in [Nat -> V] : F[0] = a /\ \A n \in Nat : F[n + 1] = G[F[n]]
<1> DEFINE Upto(n, g) == g[0] = a /\ \A k \in 1 .. n : g[k] = G[g[k - 1]]
           A == {n \in Nat : \E g \in [0 .. n -> V] : Upto(n, g)}
           B == {n \in Nat : \A i, j \in Nat : \A g \in [0 .. i -> V], h \in [0 .. j -> V] :
                    Upto(i, g) /\ Upto(j, h) /\ n <= i /\ n <= j => g[n] = h[n]}
           f(n) == CHOOSE g \in [0 .. n -> V] : Upto(n, g)
           F == [n \in Nat |-> f(n)[n]]
<1>1. Nat \subseteq A
  <2>1. 0 \in A
    <3> DEFINE z == [x \in 0 .. 0 |-> a]
    <3>1. z \in [0 .. 0 -> V] /\ Upto(0, z)
      OBVIOUS
    <3> QED BY <3>1
  <2>2. ASSUME NEW n \in Nat, n \in A PROVE n + 1 \in A
    <3>1. PICK g \in [0 .. n -> V] : Upto(n, g)
      BY <2>2
    <3> DEFINE h == [k \in 0 .. n + 1 |-> IF k = n + 1 THEN G[g[n]] ELSE g[k]]
    <3>2. g[n] \in V /\ G[g[n]] \in V
      OBVIOUS
    <3>3. h \in [0 .. n + 1 -> V] /\ h[0] = a
      BY <3>1, <3>2
    <3>4. ASSUME NEW k \in 1 .. n + 1 PROVE h[k] = G[h[k - 1]]
      <4>1. CASE k = n + 1
        BY <4>1
      <4>2. CASE k # n + 1
        <5>1. k \in 1 .. n /\ k - 1 \in 0 .. n /\ k - 1 # n + 1 /\ k \in 0 .. n + 1
          BY <4>2
        <5> QED BY <3>1, <4>2, <5>1
      <4> QED BY <4>1, <4>2
    <3> HIDE DEF h
    <3>5. Upto(n + 1, h)
      BY <3>3, <3>4
    <3> QED BY <3>3, <3>5
  <2> HIDE DEF A
  <2> QED BY <2>1, <2>2, SetInduction
<1>2. Nat \subseteq B
  <2>1. 0 \in B
    OBVIOUS
  <2>2. ASSUME NEW n \in Nat, n \in B PROVE n + 1 \in B
    <3>1. ASSUME NEW i \in Nat, NEW j \in Nat, NEW g \in [0 .. i -> V], NEW h \in [0 .. j -> V],
                 Upto(i, g), Upto(j, h), n + 1 <= i, n + 1 <= j
          PROVE  g[n + 1] = h[n + 1]
      <4>1. n <= i /\ n <= j
        BY <3>1
      <4>2. g[n] = h[n]
        <5> HIDE DEF Upto
        <5> QED BY <2>2, <3>1, <4>1
      <4>3. n + 1 \in 1 .. i /\ n + 1 \in 1 .. j /\ (n + 1) - 1 = n
        BY <3>1
      <4>4. g[n + 1] = G[g[n]] /\ h[n + 1] = G[h[n]]
        BY <3>1, <4>3
      <4> QED BY <4>2, <4>4
    <3> HIDE DEF Upto
    <3> QED BY <3>1
  <2> HIDE DEF B
  <2> QED BY <2>1, <2>2, SetInduction
<1>3. ASSUME NEW n \in Nat PROVE f(n) \in [0 .. n -> V] /\ Upto(n, f(n))
  BY <1>1
<1> HIDE DEF f
<1>4. F \in [Nat -> V]
  <2>1. ASSUME NEW n \in Nat PROVE f(n)[n] \in V
    <3>1. f(n) \in [0 .. n -> V] /\ n \in 0 .. n
      BY <1>3
    <3> QED BY <3>1
  <2> QED BY <2>1
<1>5. F[0] = a
  BY <1>3
<1>6. ASSUME NEW n \in Nat PROVE F[n + 1] = G[F[n]]
  <2> HIDE DEF Upto
  <2>1. n + 1 \in Nat /\ n <= n /\ n <= n + 1
    OBVIOUS
  <2>2. f(n) \in [0 .. n -> V] /\ Upto(n, f(n))
    BY <1>3
  <2>3. f(n + 1) \in [0 .. n + 1 -> V] /\ Upto(n + 1, f(n + 1))
    BY <1>3, <2>1
  <2>4. f(n + 1)[n] = f(n)[n]
    BY <1>2, <2>1, <2>2, <2>3
  <2>5. f(n + 1)[n + 1] = G[f(n + 1)[n]]
    <3>1. n + 1 \in 1 .. n + 1 /\ (n + 1) - 1 = n
      OBVIOUS
    <3> QED BY <2>3, <3>1 DEF Upto
  <2> QED BY <2>1, <2>4, <2>5
<1> HIDE DEF F
<1> QED BY <1>4, <1>5, <1>6

\* A loop goes on from s to G[s] as long as s is in C, then its result is E[s].
IsLoop(S, V, C, G, E, m) ==
  /\ G \in [S -> S] /\ E \in [S -> V] /\ m \in [S -> Nat]
  /\ \A s \in S : s \in C => m[G[s]] < m[s]

ResultOf(f, S, C, G, E) == \A s \in S : f[s] = IF s \in C THEN f[G[s]] ELSE E[s]

\* A loop that makes a measure less has a result for every start.
LEMMA Loop ==
  ASSUME NEW S, NEW V, NEW C, NEW G, NEW E, NEW m, IsLoop(S, V, C, G, E, m)
  PROVE  \E f \in [S -> V] : ResultOf(f, S, C, G, E)
<1> USE DEF IsLoop, ResultOf
<1> DEFINE H == [f \in [S -> V] |-> [s \in S |-> IF s \in C THEN f[G[s]] ELSE E[s]]]
<1>1. H \in [[S -> V] -> [S -> V]]
  OBVIOUS
<1>2. PICK F \in [Nat -> [S -> V]] : F[0] = E /\ \A n \in Nat : F[n + 1] = H[F[n]]
  <2> DEFINE W == [S -> V]
  <2>1. E \in W /\ H \in [W -> W]
    BY <1>1
  <2> HIDE DEF H, W
  <2>2. \E F \in [Nat -> W] : F[0] = E /\ \A n \in Nat : F[n + 1] = H[F[n]]
    BY <2>1, Iterates, SMTT(30)
  <2> QED BY <2>2 DEF W
<1>3. \A n \in Nat : \A s \in S : F[n + 1][s] = IF s \in C THEN F[n][G[s]] ELSE E[s]
  <2> TAKE n \in Nat
  <2> TAKE s \in S
  <2>1. F[n] \in [S -> V] /\ F[n + 1] = H[F[n]]
    BY <1>2
  <2> QED BY <2>1
<1> HIDE DEF H
<1> DEFINE A == {n \in Nat : \A s \in S : \A k \in Nat : m[s] <= n /\ m[s] <= k => F[k][s] = F[m[s]][s]}
<1>4. ASSUME NEW s \in S, s \notin C, NEW k \in Nat PROVE F[k][s] = E[s]
  <2>1. CASE k = 0
    BY <1>2, <2>1
  <2>2. CASE k # 0
    <3>1. k - 1 \in Nat /\ (k - 1) + 1 = k
      BY <2>2
    <3> QED BY <1>3, <1>4, <3>1
  <2> QED BY <2>1, <2>2
<1>5. Nat \subseteq A
  <2>1. 0 \in A
    <3>1. ASSUME NEW s \in S, NEW k \in Nat, m[s] <= 0 PROVE F[k][s] = F[m[s]][s]
      <4>1. m[s] \in Nat
        OBVIOUS
      <4>2. m[s] = 0
        BY <3>1, <4>1
      <4>3. s \notin C
        <5> SUFFICES ASSUME s \in C PROVE FALSE
          OBVIOUS
        <5>1. m[G[s]] < m[s] /\ m[G[s]] \in Nat
          OBVIOUS
        <5> QED BY <4>2, <5>1
      <4> QED BY <1>4, <4>1, <4>3
    <3> QED BY <3>1
  <2>2. ASSUME NEW n \in Nat, n \in A PROVE n + 1 \in A
    <3>1. ASSUME NEW s \in S, NEW k \in Nat, m[s] <= n + 1, m[s] <= k PROVE F[k][s] = F[m[s]][s]
      <4>1. m[s] \in Nat
        OBVIOUS
      <4>2. CASE s \notin C
        BY <1>4, <4>1, <4>2
      <4>3. CASE s \in C
        <5>1. m[G[s]] < m[s] /\ m[G[s]] \in Nat /\ G[s] \in S
          BY <4>3
        <5>2. /\ k - 1 \in Nat /\ (k - 1) + 1 = k /\ m[G[s]] <= k - 1 /\ m[G[s]] <= n
              /\ m[s] - 1 \in Nat /\ (m[s] - 1) + 1 = m[s] /\ m[G[s]] <= m[s] - 1
          BY <3>1, <4>1, <5>1
        <5>3. F[k - 1][G[s]] = F[m[G[s]]][G[s]] /\ F[m[s] - 1][G[s]] = F[m[G[s]]][G[s]]
          BY <2>2, <5>1, <5>2
        <5>4. F[k][s] = F[k - 1][G[s]]
          BY <1>3, <4>3, <5>2
        <5>5. F[m[s]][s] = F[m[s] - 1][G[s]]
          BY <1>3, <4>3, <5>2
        <5> QED BY <5>3, <5>4, <5>5
      <4> QED BY <4>2, <4>3
    <3> QED BY <3>1
  <2> HIDE DEF A
  <2> QED BY <2>1, <2>2, SetInduction
<1> DEFINE f == [s \in S |-> F[m[s]][s]]
<1>6. f \in [S -> V]
  <2>1. ASSUME NEW s \in S PROVE F[m[s]][s] \in V
    <3>1. m[s] \in Nat
      OBVIOUS
    <3>2. F[m[s]] \in [S -> V]
      BY <1>2, <3>1
    <3> QED BY <3>2
  <2> QED BY <2>1
<1>7. ASSUME NEW s \in S PROVE f[s] = IF s \in C THEN f[G[s]] ELSE E[s]
  <2>1. m[s] \in Nat /\ G[s] \in S /\ m[G[s]] \in Nat
    OBVIOUS
  <2>2. CASE s \notin C
    BY <1>4, <2>1, <2>2
  <2>3. CASE s \in C
    <3>1. m[G[s]] < m[s]
      BY <2>3
    <3>2. m[s] - 1 \in Nat /\ (m[s] - 1) + 1 = m[s] /\ m[G[s]] <= m[s] - 1
      BY <2>1, <3>1
    <3>3. F[m[s]][s] = F[m[s] - 1][G[s]]
      BY <1>3, <2>3, <3>2
    <3>4. F[m[s] - 1][G[s]] = F[m[G[s]]][G[s]]
      BY <1>5, <2>1, <3>2
    <3> QED BY <2>1, <2>3, <3>3, <3>4
  <2> QED BY <2>2, <2>3
<1> HIDE DEF f
<1> QED BY <1>6, <1>7

\* f is given by its first value and by a step.
Solves(f, a, N, G) == \A n \in 0 .. N : f[n] = IF n = 0 THEN a ELSE G[<<n, f[n - 1]>>]

\* A recurrence has a solution.
LEMMA Recurrence ==
  ASSUME NEW V, NEW a \in V, NEW N \in Nat, NEW G, G \in [(1 .. N) \X V -> V]
  PROVE  \E f \in [0 .. N -> V] : Solves(f, a, N, G)
<1> USE DEF Solves
<1> DEFINE W == Nat \X V
           H == [w \in W |-> <<w[1] + 1, IF w[1] + 1 \in 1 .. N THEN G[<<w[1] + 1, w[2]>>] ELSE a>>]
<1>1. H \in [W -> W] /\ <<0, a>> \in W
  OBVIOUS
<1>2. PICK F \in [Nat -> W] : F[0] = <<0, a>> /\ \A n \in Nat : F[n + 1] = H[F[n]]
  <2> DEFINE b == <<0, a>>
  <2>2. b \in W /\ H \in [W -> W]
    BY <1>1
  <2> HIDE DEF H, W, b
  <2>1. \E F \in [Nat -> W] : F[0] = b /\ \A n \in Nat : F[n + 1] = H[F[n]]
    BY ONLY <2>2, Iterates
  <2> QED BY <2>1 DEF b
<1>3. \A n \in Nat : F[n][1] \in Nat /\ F[n][2] \in V /\ F[n] \in W
  BY <1>2
<1>4. \A n \in Nat : F[n + 1] = <<F[n][1] + 1, IF F[n][1] + 1 \in 1 .. N THEN G[<<F[n][1] + 1, F[n][2]>>] ELSE a>>
  BY <1>2, <1>3
<1> HIDE DEF H
<1> DEFINE A == {n \in Nat : F[n][1] = n}
<1>5. Nat \subseteq A
  <2>1. 0 \in A
    BY <1>2
  <2>2. ASSUME NEW n \in Nat, n \in A PROVE n + 1 \in A
    <3> DEFINE v == IF F[n][1] + 1 \in 1 .. N THEN G[<<F[n][1] + 1, F[n][2]>>] ELSE a
    <3>2. F[n + 1] = <<F[n][1] + 1, v>>
      BY <1>4
    <3> HIDE DEF v
    <3>1. F[n + 1][1] = F[n][1] + 1
      BY <3>2
    <3> QED BY <2>2, <3>1
  <2> HIDE DEF A
  <2> QED BY <2>1, <2>2, SetInduction
<1> DEFINE f == [n \in 0 .. N |-> F[n][2]]
<1>6. f \in [0 .. N -> V]
  BY <1>3
<1>7. ASSUME NEW n \in 0 .. N PROVE f[n] = IF n = 0 THEN a ELSE G[<<n, f[n - 1]>>]
  <2>1. CASE n = 0
    BY <1>2, <2>1
  <2>2. CASE n # 0
    <3>1. n - 1 \in Nat /\ (n - 1) + 1 = n /\ n - 1 \in 0 .. N /\ n \in 1 .. N
      BY <2>2
    <3>2. F[n - 1][1] = n - 1
      BY <1>5, <3>1
    <3>3. F[n] = <<n, G[<<n, F[n - 1][2]>>]>>
      BY <1>4, <3>1, <3>2
    <3> QED BY <2>2, <3>1, <3>3
  <2> QED BY <2>1, <2>2
<1> HIDE DEF f
<1> QED BY <1>6, <1>7

\* The sizes in tuples: a run is whole buffers (main.cpp:21-29).
LEMMA Sizes ==
  /\ THREAD_NUM \in Nat \ {0} /\ TUPLE_SIZE \in Nat \ {0}
  /\ Block \in Nat \ {0} /\ Block * TUPLE_SIZE = BLOCK_SIZE
  /\ Limit \in Nat \ {0} /\ Limit * TUPLE_SIZE = THREAD_NUM * BLOCK_SIZE
  /\ Buffer \in Nat \ {0} /\ Buffer * TUPLE_SIZE = BUFFER_SIZE
  /\ \E q \in Nat : Limit = q * Buffer
<1>1. /\ THREAD_NUM \in Nat \ {0} /\ TUPLE_SIZE \in Nat \ {0}
      /\ BLOCK_SIZE \in Nat \ {0} /\ BLOCK_SIZE % TUPLE_SIZE = 0
      /\ BUFFER_SIZE \in Nat \ {0} /\ BUFFER_SIZE % TUPLE_SIZE = 0
      /\ (THREAD_NUM * BLOCK_SIZE) % BUFFER_SIZE = 0
  BY SortAssumption
<1>2. Block \in Nat /\ BLOCK_SIZE = Block * TUPLE_SIZE
  BY <1>1, Division DEF Block
<1>3. Buffer \in Nat /\ BUFFER_SIZE = Buffer * TUPLE_SIZE
  BY <1>1, Division DEF Buffer
<1>4. Block # 0 /\ Buffer # 0
  BY <1>1, <1>2, <1>3
<1>5. Limit \in Nat \ {0} /\ Limit * TUPLE_SIZE = THREAD_NUM * BLOCK_SIZE
  BY <1>1, <1>2, <1>4, Multiplication DEF Limit
<1>6. \E q \in Nat : Limit = q * Buffer
  <2> DEFINE q == (THREAD_NUM * BLOCK_SIZE) \div BUFFER_SIZE
  <2>1. THREAD_NUM * BLOCK_SIZE \in Nat
    BY <1>1, Multiplication
  <2> DEFINE a == THREAD_NUM * BLOCK_SIZE
  <2>2. q \in Nat /\ THREAD_NUM * BLOCK_SIZE = q * BUFFER_SIZE
    <3>1. a \in Nat /\ a % BUFFER_SIZE = 0 /\ q = a \div BUFFER_SIZE
      BY <1>1, <2>1
    <3> HIDE DEF a
    <3>2. q \in Nat /\ a = q * BUFFER_SIZE + 0
      BY <1>1, <3>1, Division
    <3>3. q * BUFFER_SIZE \in Nat
      BY <1>1, <3>2, Multiplication
    <3> QED BY <3>2, <3>3 DEF a
  <2> HIDE DEF q
  <2>3. Limit * TUPLE_SIZE = (q * Buffer) * TUPLE_SIZE
    BY <1>1, <1>3, <1>5, <2>2, Multiplication
  <2>4. q * Buffer \in Nat
    BY <1>3, <2>2, Multiplication
  <2>5. Limit <= q * Buffer /\ q * Buffer <= Limit
    BY <1>1, <1>5, <2>3, <2>4, Multiplication
  <2> QED BY <1>5, <2>2, <2>4, <2>5
<1> QED BY <1>1, <1>2, <1>3, <1>4, <1>5, <1>6

-----------------------------------------------------------------------------
(***************************************************************************)
(* The heap.                                                               *)
(***************************************************************************)
\* Every element of the heap points to a tuple.
Keyed(h, offset) == \A n \in DOMAIN h : At(h, n, offset) \in Nat

\* No element is less than the one above it.
Ordered(h, offset) == \A n \in 2 .. Len(h) : At(h, n \div 2, offset) <= At(h, n, offset)

\* h2 has the elements of h.
Rearranged(h, h2) ==
  /\ h2 \in Seq(Threads) /\ Len(h2) = Len(h) /\ ToSet(h2) = ToSet(h)
  /\ IsInjective(h) => IsInjective(h2)

\* The parent of an element, and the children of a parent.
LEMMA Halves ==
  ASSUME NEW n \in Nat
  PROVE  /\ n \div 2 \in Nat /\ n \div 2 <= n
         /\ n >= 2 => n \div 2 >= 1 /\ n \div 2 < n
         /\ \A k \in Nat : n \div 2 = k <=> n = 2 * k \/ n = 2 * k + 1
OBVIOUS

\* swap (main.cpp:62-66).
LEMMA ExchangeFacts ==
  ASSUME NEW h \in Seq(Threads), NEW a \in DOMAIN h, NEW b \in DOMAIN h, NEW offset
  PROVE  /\ Rearranged(h, Exchange(h, a, b))
         /\ \A n \in DOMAIN h : At(Exchange(h, a, b), n, offset) =
              IF n = b THEN At(h, a, offset) ELSE IF n = a THEN At(h, b, offset)
              ELSE At(h, n, offset)
         /\ Keyed(h, offset) => Keyed(Exchange(h, a, b), offset)
<1> DEFINE g == Exchange(h, a, b)
<1>1. /\ DOMAIN h = 1 .. Len(h) /\ Len(h) \in Nat /\ \A n \in DOMAIN h : h[n] \in Threads
      /\ h = [n \in 1 .. Len(h) |-> h[n]]
  OBVIOUS
<1>2. g = [n \in 1 .. Len(h) |-> IF n = b THEN h[a] ELSE IF n = a THEN h[b] ELSE h[n]]
  BY <1>1 DEF Exchange
<1> HIDE DEF g
<1>3. /\ g \in Seq(Threads) /\ Len(g) = Len(h) /\ DOMAIN g = DOMAIN h
  <2>1. \A n \in 1 .. Len(h) : (IF n = b THEN h[a] ELSE IF n = a THEN h[b] ELSE h[n]) \in Threads
    BY <1>1
  <2> QED BY <1>1, <1>2, <2>1
<1>4. \A n \in DOMAIN h : g[n] = IF n = b THEN h[a] ELSE IF n = a THEN h[b] ELSE h[n]
  BY <1>1, <1>2
<1>5. ToSet(g) = ToSet(h)
  <2>1. ASSUME NEW x \in ToSet(g) PROVE x \in ToSet(h)
    BY <1>3, <1>4 DEF ToSet
  <2>2. ASSUME NEW x \in ToSet(h) PROVE x \in ToSet(g)
    <3>1. PICK n \in DOMAIN h : x = h[n]
      BY DEF ToSet
    <3> DEFINE m == IF n = a THEN b ELSE IF n = b THEN a ELSE n
    <3>2. m \in DOMAIN g /\ g[m] = x
      BY <1>3, <1>4, <3>1
    <3> HIDE DEF m
    <3> QED BY <3>2 DEF ToSet
  <2> QED BY <2>1, <2>2
<1>6. IsInjective(h) => IsInjective(g)
  BY <1>3, <1>4 DEF IsInjective
<1>7. \A n \in DOMAIN h : At(g, n, offset) =
              IF n = b THEN At(h, a, offset) ELSE IF n = a THEN At(h, b, offset)
              ELSE At(h, n, offset)
  BY <1>4 DEF At
<1>8. Keyed(h, offset) => Keyed(g, offset)
  BY <1>3, <1>7 DEF Keyed
<1> QED BY <1>3, <1>5, <1>6, <1>7, <1>8 DEF Rearranged, g

\* All but the element at place k are in order, and so is k once it has risen.
RisesFrom(h, k, offset) ==
  /\ \A n \in 2 .. Len(h) : n # k => At(h, n \div 2, offset) <= At(h, n, offset)
  /\ \A n \in 2 .. Len(h) : n \div 2 = k /\ k > 1 => At(h, k \div 2, offset) <= At(h, n, offset)

\* One turn of the loop in which an element rises (main.cpp:85-94).
LEMMA RiseStep ==
  ASSUME NEW offset, NEW h \in Seq(Threads), NEW k \in DOMAIN h, k > 1,
         Keyed(h, offset), RisesFrom(h, k, offset),
         At(h, k, offset) < At(h, k \div 2, offset)
  PROVE  RisesFrom(Exchange(h, k, k \div 2), k \div 2, offset)
<1> DEFINE p == k \div 2
           g == Exchange(h, k, p)
<1>1. DOMAIN h = 1 .. Len(h) /\ Len(h) \in Nat /\ k \in Nat
  OBVIOUS
<1>2. p \in DOMAIN h /\ p \in Nat /\ p >= 1 /\ p < k
  BY <1>1, Halves
<1>3. \A n \in DOMAIN h : At(h, n, offset) \in Nat
  BY DEF Keyed
<1>4. /\ Len(g) = Len(h)
      /\ \A n \in DOMAIN h : At(g, n, offset) =
              IF n = p THEN At(h, k, offset) ELSE IF n = k THEN At(h, p, offset)
              ELSE At(h, n, offset)
  BY <1>2, ExchangeFacts DEF Rearranged
<1>5. At(h, k, offset) < At(h, p, offset)
  OBVIOUS
<1> HIDE DEF g, p
<1>6. ASSUME NEW n \in 2 .. Len(h)
      PROVE  n \in DOMAIN h /\ n \div 2 \in DOMAIN h /\ n \div 2 < n /\ n \div 2 >= 1
  BY <1>1, Halves
<1>7. ASSUME NEW n \in 2 .. Len(h), n # p
      PROVE  At(g, n \div 2, offset) <= At(g, n, offset)
  <2>1. CASE n = k
    <3>1. n \div 2 = p
      BY <2>1 DEF p
    <3> QED BY <1>2, <1>3, <1>4, <1>5, <2>1, <3>1
  <2>2. CASE n # k
    <3>1. At(h, n \div 2, offset) <= At(h, n, offset)
      BY <2>2 DEF RisesFrom
    <3>2. CASE n \div 2 = p
      <4>1. At(h, p, offset) <= At(h, n, offset)
        BY <3>1, <3>2
      <4>2. At(g, n \div 2, offset) = At(h, k, offset) /\ At(g, n, offset) = At(h, n, offset)
        BY <1>2, <1>4, <1>6, <1>7, <2>2, <3>2
      <4> QED BY <1>2, <1>3, <1>5, <1>6, <4>1, <4>2
    <3>3. CASE n \div 2 = k
      <4>1. At(h, p, offset) <= At(h, n, offset)
        BY <3>3 DEF RisesFrom, p
      <4> QED BY <1>2, <1>3, <1>4, <1>6, <1>7, <2>2, <3>3, <4>1
    <3>4. CASE n \div 2 # p /\ n \div 2 # k
      BY <1>4, <1>6, <1>7, <2>2, <3>1, <3>4
    <3> QED BY <3>2, <3>3, <3>4
  <2> QED BY <2>1, <2>2
<1>8. ASSUME NEW n \in 2 .. Len(h), n \div 2 = p, p > 1
      PROVE  At(g, p \div 2, offset) <= At(g, n, offset)
  <2>1. p \in 2 .. Len(h) /\ p # k
    BY <1>1, <1>2, <1>8
  <2>2. p \div 2 \in DOMAIN h /\ p \div 2 # p /\ p \div 2 # k
    BY <1>1, <1>2, <1>6, <2>1
  <2>3. At(h, p \div 2, offset) <= At(h, p, offset)
    BY <2>1 DEF RisesFrom
  <2>4. At(g, p \div 2, offset) = At(h, p \div 2, offset)
    BY <1>4, <2>2
  <2>5. CASE n = k
    BY <1>2, <1>4, <2>3, <2>4, <2>5
  <2>6. CASE n # k
    <3>1. At(h, p, offset) <= At(h, n, offset)
      BY <1>8, <2>6 DEF RisesFrom
    <3>2. n # p
      BY <1>6, <1>8
    <3>3. At(g, n, offset) = At(h, n, offset)
      BY <1>4, <1>6, <2>6, <3>2
    <3> QED BY <1>2, <1>3, <1>6, <2>2, <2>3, <2>4, <3>1, <3>3
  <2> QED BY <2>5, <2>6
<1>9. RisesFrom(g, p, offset)
  BY <1>4, <1>7, <1>8 DEF RisesFrom
<1> QED BY <1>9 DEF g, p

\* A heap and the place of an element of it.
Placed == {p \in Seq(Threads) \X Nat : p[2] \in DOMAIN p[1]}

\* The loop of heapify(0).
LEMMA SiftUpLoop ==
  ASSUME NEW offset
  PROVE  \E rise :
           /\ \A h : SiftUp(h, offset) = rise[<<h, Len(h)>>]
           /\ \A s \in Placed : rise[s] =
                IF s[2] > 1 /\ At(s[1], s[2], offset) < At(s[1], s[2] \div 2, offset)
                THEN rise[<<Exchange(s[1], s[2], s[2] \div 2), s[2] \div 2>>]
                ELSE s[1]
<1> DEFINE Rises(s) == s[2] > 1 /\ At(s[1], s[2], offset) < At(s[1], s[2] \div 2, offset)
           C == {s \in Placed : Rises(s)}
           Moved(s) == <<Exchange(s[1], s[2], s[2] \div 2), s[2] \div 2>>
           G == [s \in Placed |-> IF s \in C THEN Moved(s) ELSE s]
           E == [s \in Placed |-> s[1]]
           m == [s \in Placed |-> s[2]]
           Body(g) == [s \in Placed |-> IF Rises(s) THEN g[Moved(s)] ELSE s[1]]
           rise == CHOOSE g : g = Body(g)
<1>1. ASSUME NEW s \in Placed, s[2] > 1
      PROVE  Moved(s) \in Placed /\ s[2] \div 2 < s[2]
  <2>1. s[1] \in Seq(Threads) /\ s[2] \in Nat /\ s[2] \in DOMAIN s[1] /\ DOMAIN s[1] = 1 .. Len(s[1])
    BY DEF Placed
  <2>2. s[2] \div 2 \in Nat /\ s[2] \div 2 >= 1 /\ s[2] \div 2 < s[2]
    BY <1>1, <2>1, Halves
  <2>3. s[2] \div 2 \in DOMAIN s[1]
    BY <2>1, <2>2
  <2> DEFINE x == Exchange(s[1], s[2], s[2] \div 2)
  <2>4. x \in Seq(Threads) /\ Len(x) = Len(s[1])
    BY <2>1, <2>3, ExchangeFacts DEF Rearranged
  <2> HIDE DEF x
  <2>5. s[2] \div 2 \in DOMAIN x
    BY <2>1, <2>3, <2>4
  <2>6. <<x, s[2] \div 2>> \in Placed
    BY <2>2, <2>4, <2>5 DEF Placed
  <2> QED BY <2>2, <2>6 DEF x
<1>2. /\ G \in [Placed -> Placed] /\ E \in [Placed -> Seq(Threads)] /\ m \in [Placed -> Nat]
      /\ \A s \in Placed : s \in C => m[G[s]] < m[s]
  <2> HIDE DEF Moved
  <2>1. \A s \in Placed : s \in C => Moved(s) \in Placed /\ Moved(s)[2] < s[2]
    BY <1>1 DEF Moved
  <2>2. \A s \in Placed : s[1] \in Seq(Threads) /\ s[2] \in Nat
    BY DEF Placed
  <2>3. G \in [Placed -> Placed]
    BY <2>1
  <2>4. \A s \in Placed : s \in C => G[s] = Moved(s)
    OBVIOUS
  <2> HIDE DEF C, G
  <2>5. \A s \in Placed : s \in C => m[G[s]] < m[s]
    BY <2>1, <2>4
  <2> QED BY <2>2, <2>3, <2>5
<1>3. \E g \in [Placed -> Seq(Threads)] : ResultOf(g, Placed, C, G, E)
  <2>1. IsLoop(Placed, Seq(Threads), C, G, E, m)
    <3> HIDE DEF G, E, m, C, Placed
    <3> QED BY <1>2 DEF IsLoop
  <2> HIDE DEF G, E, m, C, Placed
  <2> QED BY ONLY <2>1, Loop
<1>4. PICK g \in [Placed -> Seq(Threads)] : g = Body(g)
  <2>1. PICK g \in [Placed -> Seq(Threads)] : \A s \in Placed : g[s] = IF s \in C THEN g[G[s]] ELSE E[s]
    BY <1>3 DEF ResultOf
  <2>2. \A s \in Placed : g[s] = IF Rises(s) THEN g[Moved(s)] ELSE s[1]
    <3> HIDE DEF Rises, Moved
    <3> QED BY <2>1
  <2> HIDE DEF Rises, Moved
  <2>3. g = Body(g)
    BY <2>2
  <2> QED BY <2>3
<1>5. rise = Body(rise)
  <2> HIDE DEF Body
  <2> QED BY <1>4
<1>6. ASSUME NEW s \in Placed PROVE rise[s] = IF Rises(s) THEN rise[Moved(s)] ELSE s[1]
  <2> HIDE DEF rise, Rises, Moved
  <2> QED BY <1>5
<1>7. \A h : SiftUp(h, offset) = rise[<<h, Len(h)>>]
  BY DEF SiftUp, Placed
<1> HIDE DEF rise
<1> QED BY <1>6, <1>7

\* Two rearrangements after each other are one.
LEMMA RearrangedTransitive ==
  ASSUME NEW h, NEW g, NEW f, Rearranged(h, g), Rearranged(g, f)
  PROVE  Rearranged(h, f)
BY DEF Rearranged

\* A heap is a rearrangement of itself.
LEMMA RearrangedSelf ==
  ASSUME NEW h \in Seq(Threads)
  PROVE  Rearranged(h, h)
BY DEF Rearranged

\* heapify(0) makes a heap of elements of which only the last is out of order.
LEMMA SiftUpRight ==
  ASSUME NEW offset, NEW h \in Seq(Threads), h # <<>>, Keyed(h, offset),
         RisesFrom(h, Len(h), offset)
  PROVE  Rearranged(h, SiftUp(h, offset)) /\ Ordered(SiftUp(h, offset), offset)
<1>1. PICK rise :
           /\ \A g : SiftUp(g, offset) = rise[<<g, Len(g)>>]
           /\ \A s \in Placed : rise[s] =
                IF s[2] > 1 /\ At(s[1], s[2], offset) < At(s[1], s[2] \div 2, offset)
                THEN rise[<<Exchange(s[1], s[2], s[2] \div 2), s[2] \div 2>>]
                ELSE s[1]
  BY SiftUpLoop
<1> DEFINE Right(g, k) == Rearranged(g, rise[<<g, k>>]) /\ Ordered(rise[<<g, k>>], offset)
           A == {n \in Nat : \A g \in Seq(Threads) : \A k \in DOMAIN g :
                   k <= n /\ Keyed(g, offset) /\ RisesFrom(g, k, offset) => Right(g, k)}
<1>2. ASSUME NEW g \in Seq(Threads), NEW k \in DOMAIN g, Keyed(g, offset), RisesFrom(g, k, offset)
      PROVE  rise[<<g, k>>] = IF k > 1 /\ At(g, k, offset) < At(g, k \div 2, offset)
                              THEN rise[<<Exchange(g, k, k \div 2), k \div 2>>] ELSE g
  <2>1. <<g, k>> \in Placed
    BY DEF Placed
  <2> QED BY <1>1, <2>1
<1>3. ASSUME NEW g \in Seq(Threads), NEW k \in DOMAIN g, Keyed(g, offset), RisesFrom(g, k, offset),
             ~(k > 1 /\ At(g, k, offset) < At(g, k \div 2, offset))
      PROVE  Right(g, k)
  <2>1. rise[<<g, k>>] = g
    BY <1>2, <1>3
  <2>2. ASSUME NEW n \in 2 .. Len(g) PROVE At(g, n \div 2, offset) <= At(g, n, offset)
    <3>1. CASE n # k
      BY <1>3, <3>1 DEF RisesFrom
    <3>2. CASE n = k
      <4>1. k \in DOMAIN g /\ k \div 2 \in DOMAIN g /\ k > 1
        BY <3>2, Halves
      <4>2. At(g, k, offset) \in Nat /\ At(g, k \div 2, offset) \in Nat
        BY <1>3, <4>1 DEF Keyed
      <4> QED BY <1>3, <3>2, <4>1, <4>2
    <3> QED BY <3>1, <3>2
  <2> QED BY <2>1, <2>2, RearrangedSelf DEF Ordered
<1>4. 0 \in A
  OBVIOUS
<1>5. ASSUME NEW n \in Nat, n \in A PROVE n + 1 \in A
  <2>1. ASSUME NEW g \in Seq(Threads), NEW k \in DOMAIN g, k <= n + 1, Keyed(g, offset),
               RisesFrom(g, k, offset)
        PROVE  Right(g, k)
    <3>1. CASE ~(k > 1 /\ At(g, k, offset) < At(g, k \div 2, offset))
      BY <1>3, <2>1, <3>1
    <3>2. CASE k > 1 /\ At(g, k, offset) < At(g, k \div 2, offset)
      <4> DEFINE p == k \div 2
                 x == Exchange(g, k, p)
      <4>1. p \in DOMAIN g /\ p <= n
        BY <2>1, <3>2, Halves
      <4>2. Rearranged(g, x) /\ Keyed(x, offset)
        BY <2>1, <4>1, ExchangeFacts
      <4>3. x \in Seq(Threads) /\ p \in DOMAIN x
        BY <4>1, <4>2 DEF Rearranged
      <4>4. RisesFrom(x, p, offset)
        BY <2>1, <3>2, RiseStep
      <4>5. rise[<<g, k>>] = rise[<<x, p>>]
        BY <1>2, <2>1, <3>2
      <4> HIDE DEF x, p
      <4>6. Right(x, p)
        BY <1>5, <4>1, <4>2, <4>3, <4>4
      <4>7. Rearranged(g, rise[<<g, k>>])
        BY <4>2, <4>5, <4>6, RearrangedTransitive
      <4> QED BY <4>5, <4>6, <4>7
    <3> QED BY <3>1, <3>2
  <2> HIDE DEF Right
  <2> QED BY <2>1
<1> HIDE DEF A
<1>6. Len(h) \in A
  BY <1>4, <1>5, SetInduction
<1>7. Len(h) \in DOMAIN h /\ Len(h) <= Len(h)
  OBVIOUS
<1>8. Right(h, Len(h))
  BY <1>6, <1>7 DEF A
<1> QED BY <1>1, <1>8

-----------------------------------------------------------------------------
\* All but the element at place k are in order, and so is k once it has sunk.
SinksFrom(h, k, offset) ==
  /\ \A n \in 2 .. Len(h) : n \div 2 # k => At(h, n \div 2, offset) <= At(h, n, offset)
  /\ \A n \in 2 .. Len(h) : n \div 2 = k /\ k > 1 => At(h, k \div 2, offset) <= At(h, n, offset)

\* The lesser child is a child, and no child is less (main.cpp:71-78).
LEMMA LesserChildFacts ==
  ASSUME NEW offset, NEW h \in Seq(Threads), NEW k \in Nat \ {0}, 2 * k <= Len(h), Keyed(h, offset)
  PROVE  /\ LesserChild(h, k, offset) \in DOMAIN h /\ LesserChild(h, k, offset) \div 2 = k
         /\ LesserChild(h, k, offset) > k
         /\ \A n \in 2 .. Len(h) : n \div 2 = k =>
              At(h, LesserChild(h, k, offset), offset) <= At(h, n, offset)
<1>1. DOMAIN h = 1 .. Len(h) /\ Len(h) \in Nat /\ 2 * k \in Nat /\ 2 * k + 1 \in Nat
  OBVIOUS
<1>2. \A n \in DOMAIN h : At(h, n, offset) \in Nat
  BY DEF Keyed
<1>3. (2 * k) \div 2 = k /\ (2 * k + 1) \div 2 = k
  BY <1>1, Halves
<1>4. ASSUME NEW n \in 2 .. Len(h), n \div 2 = k PROVE n = 2 * k \/ n = 2 * k + 1
  BY <1>4, Halves
<1>5. CASE 2 * k = Len(h)
  <2>1. LesserChild(h, k, offset) = 2 * k
    BY <1>5 DEF LesserChild
  <2>2. ASSUME NEW n \in 2 .. Len(h), n \div 2 = k PROVE n = 2 * k
    BY <1>1, <1>4, <1>5, <2>2
  <2> QED BY <1>1, <1>2, <1>3, <2>1, <2>2
<1>6. CASE 2 * k # Len(h)
  <2>1. 2 * k \in DOMAIN h /\ 2 * k + 1 \in DOMAIN h
    <3> DEFINE m == 2 * k
    <3>0. m <= Len(h) /\ m # Len(h) /\ m \in Nat /\ Len(h) \in Nat
      BY <1>1, <1>6
    <3>1. m < Len(h)
      <4> HIDE DEF m
      <4> QED BY ONLY <3>0
    <3>2. k \in Nat /\ 1 <= k
      OBVIOUS
    <3>3. 1 <= 2 * k
      BY ONLY <3>2
    <3> QED BY <1>1, <3>1, <3>3
  <2>2. At(h, 2 * k, offset) \in Nat /\ At(h, 2 * k + 1, offset) \in Nat
    BY <1>2, <2>1
  <2>3. CASE At(h, 2 * k, offset) <= At(h, 2 * k + 1, offset)
    <3>1. LesserChild(h, k, offset) = 2 * k
      BY <2>3 DEF LesserChild
    <3> QED BY <1>1, <1>3, <1>4, <2>1, <2>2, <2>3, <3>1
  <2>4. CASE ~(At(h, 2 * k, offset) <= At(h, 2 * k + 1, offset))
    <3>1. LesserChild(h, k, offset) = 2 * k + 1
      BY <1>6, <2>4 DEF LesserChild
    <3>2. At(h, 2 * k + 1, offset) <= At(h, 2 * k, offset)
      BY <2>2, <2>4
    <3> QED BY <1>1, <1>3, <1>4, <2>1, <2>2, <3>1, <3>2
  <2> QED BY <2>3, <2>4
<1> QED BY <1>5, <1>6

\* One turn of the loop in which an element sinks (main.cpp:68-84).
LEMMA SinkStep ==
  ASSUME NEW offset, NEW h \in Seq(Threads), NEW k \in Nat \ {0}, 2 * k <= Len(h),
         Keyed(h, offset), SinksFrom(h, k, offset),
         At(h, k, offset) > At(h, LesserChild(h, k, offset), offset)
  PROVE  SinksFrom(Exchange(h, k, LesserChild(h, k, offset)), LesserChild(h, k, offset), offset)
<1> DEFINE c == LesserChild(h, k, offset)
           g == Exchange(h, k, c)
<1>1. DOMAIN h = 1 .. Len(h) /\ Len(h) \in Nat /\ k \in DOMAIN h
  OBVIOUS
<1>2. /\ c \in DOMAIN h /\ c \div 2 = k /\ c > k
      /\ \A n \in 2 .. Len(h) : n \div 2 = k => At(h, c, offset) <= At(h, n, offset)
  BY LesserChildFacts
<1>3. \A n \in DOMAIN h : At(h, n, offset) \in Nat
  BY DEF Keyed
<1>5. At(h, k, offset) > At(h, c, offset)
  OBVIOUS
<1> HIDE DEF c
<1>4. /\ Len(g) = Len(h)
      /\ \A n \in DOMAIN h : At(g, n, offset) =
              IF n = c THEN At(h, k, offset) ELSE IF n = k THEN At(h, c, offset)
              ELSE At(h, n, offset)
  <2>1. h \in Seq(Threads) /\ k \in DOMAIN h /\ c \in DOMAIN h
    BY <1>1, <1>2
  <2>2. Rearranged(h, g) /\ \A n \in DOMAIN h : At(g, n, offset) =
              IF n = c THEN At(h, k, offset) ELSE IF n = k THEN At(h, c, offset)
              ELSE At(h, n, offset)
    BY ONLY <2>1, ExchangeFacts
  <2> QED BY <2>2 DEF Rearranged
<1> HIDE DEF g
<1>6. ASSUME NEW n \in 2 .. Len(h)
      PROVE  n \in DOMAIN h /\ n \div 2 \in DOMAIN h /\ n \div 2 < n /\ n \div 2 >= 1
  BY <1>1, Halves
<1>7. ASSUME NEW n \in 2 .. Len(h), n \div 2 # c
      PROVE  At(g, n \div 2, offset) <= At(g, n, offset)
  <2>1. CASE n = k
    <3>1. n \div 2 # k /\ n # c /\ n \div 2 \in DOMAIN h /\ n \in DOMAIN h
      BY <1>2, <1>6, <2>1
    <3>2. At(g, n \div 2, offset) = At(h, n \div 2, offset) /\ At(g, n, offset) = At(h, c, offset)
      BY <1>4, <1>7, <2>1, <3>1
    <3>3. c \in 2 .. Len(h) /\ k > 1
      BY <1>1, <1>2, <2>1
    <3>4. At(h, k \div 2, offset) <= At(h, c, offset)
      BY <1>2, <3>3 DEF SinksFrom
    <3> QED BY <2>1, <3>2, <3>4
  <2>2. CASE n = c
    <3>1. At(g, n \div 2, offset) = At(h, c, offset) /\ At(g, n, offset) = At(h, k, offset)
      BY <1>1, <1>2, <1>4, <2>2
    <3> QED BY <1>1, <1>2, <1>3, <1>5, <3>1
  <2>3. CASE n # k /\ n # c
    <3>1. n \in DOMAIN h /\ n \div 2 \in DOMAIN h /\ At(g, n, offset) = At(h, n, offset)
      BY <1>4, <1>6, <2>3
    <3>2. CASE n \div 2 = k
      <4>1. At(h, c, offset) <= At(h, n, offset)
        BY <1>2, <3>2
      <4>2. At(g, n \div 2, offset) = At(h, c, offset)
        BY <1>4, <1>7, <3>1, <3>2
      <4> QED BY <3>1, <4>1, <4>2
    <3>3. CASE n \div 2 # k
      <4>1. At(h, n \div 2, offset) <= At(h, n, offset)
        BY <3>3 DEF SinksFrom
      <4>2. At(g, n \div 2, offset) = At(h, n \div 2, offset)
        BY <1>4, <1>7, <3>1, <3>3
      <4> QED BY <3>1, <4>1, <4>2
    <3> QED BY <3>2, <3>3
  <2> QED BY <2>1, <2>2, <2>3
<1>8. ASSUME NEW n \in 2 .. Len(h), n \div 2 = c, c > 1
      PROVE  At(g, c \div 2, offset) <= At(g, n, offset)
  <2>1. n # c /\ n # k /\ n \div 2 # k
    BY <1>1, <1>2, <1>6, <1>8
  <2>2. At(g, n, offset) = At(h, n, offset)
    BY <1>4, <1>6, <2>1
  <2>3. At(g, c \div 2, offset) = At(h, c, offset)
    BY <1>1, <1>2, <1>4
  <2>4. At(h, n \div 2, offset) <= At(h, n, offset)
    BY <2>1 DEF SinksFrom
  <2> QED BY <1>8, <2>2, <2>3, <2>4
<1>9. SinksFrom(g, c, offset)
  BY <1>4, <1>7, <1>8 DEF SinksFrom
<1> QED BY <1>9 DEF g, c

\* A heap and a place, which need not be in it.
Sinking == Seq(Threads) \X (Nat \ {0})

\* Even among elements that cannot be compared.
LEMMA LesserChildIsChild ==
  ASSUME NEW offset, NEW h \in Seq(Threads), NEW k \in Nat \ {0}, 2 * k <= Len(h)
  PROVE  LesserChild(h, k, offset) \in DOMAIN h /\ LesserChild(h, k, offset) > k
<1> DEFINE m == 2 * k
           c == LesserChild(h, k, offset)
<1>1. m \in Nat /\ Len(h) \in Nat /\ m <= Len(h) /\ m > k /\ m >= 1 /\ k \in Nat
  OBVIOUS
<1>2. c = m \/ (c = m + 1 /\ m # Len(h))
  BY DEF LesserChild
<1> HIDE DEF m, c
<1>3. c \in 1 .. Len(h) /\ c > k
  BY ONLY <1>1, <1>2
<1> QED BY <1>3 DEF c

\* The loop of heapify(1).
LEMMA SiftDownLoop ==
  ASSUME NEW offset
  PROVE  \E sink :
           /\ \A h : SiftDown(h, offset) = sink[<<h, 1>>]
           /\ \A s \in Sinking : sink[s] =
                IF /\ 2 * s[2] <= Len(s[1])
                   /\ At(s[1], s[2], offset) > At(s[1], LesserChild(s[1], s[2], offset), offset)
                THEN sink[<<Exchange(s[1], s[2], LesserChild(s[1], s[2], offset)),
                            LesserChild(s[1], s[2], offset)>>]
                ELSE s[1]
<1> DEFINE Sinks(s) == /\ 2 * s[2] <= Len(s[1])
                       /\ At(s[1], s[2], offset) > At(s[1], LesserChild(s[1], s[2], offset), offset)
           C == {s \in Sinking : Sinks(s)}
           Moved(s) == <<Exchange(s[1], s[2], LesserChild(s[1], s[2], offset)),
                         LesserChild(s[1], s[2], offset)>>
           G == [s \in Sinking |-> IF s \in C THEN Moved(s) ELSE s]
           E == [s \in Sinking |-> s[1]]
           m == [s \in Sinking |-> IF s[2] <= Len(s[1]) THEN Len(s[1]) - s[2] ELSE 0]
           Body(g) == [s \in Sinking |-> IF Sinks(s) THEN g[Moved(s)] ELSE s[1]]
           sink == CHOOSE g : g = Body(g)
<1>1. ASSUME NEW s \in Sinking, Sinks(s)
      PROVE  Moved(s) \in Sinking /\ m[Moved(s)] < m[s]
  <2>1. s[1] \in Seq(Threads) /\ s[2] \in Nat \ {0} /\ DOMAIN s[1] = 1 .. Len(s[1]) /\ Len(s[1]) \in Nat
    BY DEF Sinking
  <2> DEFINE c == LesserChild(s[1], s[2], offset)
             x == Exchange(s[1], s[2], c)
  <2>2. c \in DOMAIN s[1] /\ c > s[2]
    BY <1>1, <2>1, LesserChildIsChild
  <2>3. s[2] \in DOMAIN s[1] /\ s[2] < Len(s[1])
    BY <2>1, <2>2
  <2> HIDE DEF c
  <2>4. x \in Seq(Threads) /\ Len(x) = Len(s[1])
    BY ONLY <2>1, <2>2, <2>3, ExchangeFacts DEF Rearranged
  <2> HIDE DEF x
  <2>5. <<x, c>> \in Sinking
    BY <2>1, <2>2, <2>4 DEF Sinking
  <2>6. m[<<x, c>>] = Len(s[1]) - c
    BY <2>1, <2>2, <2>4, <2>5
  <2>7. m[s] = Len(s[1]) - s[2]
    BY <2>3
  <2>8. m[<<x, c>>] < m[s]
    BY <2>1, <2>2, <2>6, <2>7
  <2> QED BY <2>5, <2>8 DEF x, c
<1>2. /\ G \in [Sinking -> Sinking] /\ E \in [Sinking -> Seq(Threads)] /\ m \in [Sinking -> Nat]
      /\ \A s \in Sinking : s \in C => m[G[s]] < m[s]
  <2>1. \A s \in Sinking : s[1] \in Seq(Threads) /\ s[2] \in Nat /\ Len(s[1]) \in Nat
    BY DEF Sinking
  <2>2. m \in [Sinking -> Nat]
    <3>1. \A s \in Sinking : (IF s[2] <= Len(s[1]) THEN Len(s[1]) - s[2] ELSE 0) \in Nat
      BY <2>1
    <3> QED BY <3>1
  <2> HIDE DEF Moved, m, Sinks
  <2>3. \A s \in Sinking : s \in C => Moved(s) \in Sinking /\ m[Moved(s)] < m[s]
    BY <1>1
  <2>4. G \in [Sinking -> Sinking]
    BY <2>3
  <2>5. \A s \in Sinking : s \in C => G[s] = Moved(s)
    OBVIOUS
  <2> HIDE DEF C, G
  <2>6. \A s \in Sinking : s \in C => m[G[s]] < m[s]
    BY <2>3, <2>5
  <2> QED BY <2>1, <2>2, <2>4, <2>6
<1>3. \E g \in [Sinking -> Seq(Threads)] : ResultOf(g, Sinking, C, G, E)
  <2>1. IsLoop(Sinking, Seq(Threads), C, G, E, m)
    <3> HIDE DEF G, E, m, C, Sinking
    <3> QED BY <1>2 DEF IsLoop
  <2> HIDE DEF G, E, m, C, Sinking
  <2> QED BY ONLY <2>1, Loop
<1>4. PICK g \in [Sinking -> Seq(Threads)] : g = Body(g)
  <2>1. PICK g \in [Sinking -> Seq(Threads)] : \A s \in Sinking : g[s] = IF s \in C THEN g[G[s]] ELSE E[s]
    BY <1>3 DEF ResultOf
  <2>2. \A s \in Sinking : g[s] = IF Sinks(s) THEN g[Moved(s)] ELSE s[1]
    <3> HIDE DEF Sinks, Moved
    <3> QED BY <2>1
  <2> HIDE DEF Sinks, Moved
  <2>3. g = Body(g)
    BY <2>2
  <2> QED BY <2>3
<1>5. sink = Body(sink)
  <2> HIDE DEF Body
  <2> QED BY <1>4
<1>6. ASSUME NEW s \in Sinking PROVE sink[s] = IF Sinks(s) THEN sink[Moved(s)] ELSE s[1]
  <2> HIDE DEF sink, Sinks, Moved
  <2> QED BY <1>5
<1>7. \A h : SiftDown(h, offset) = sink[<<h, 1>>]
  BY DEF SiftDown, Sinking
<1> HIDE DEF sink
<1> QED BY <1>6, <1>7

\* heapify(1) makes a heap of elements of which only the first is out of order.
LEMMA SiftDownRight ==
  ASSUME NEW offset, NEW h \in Seq(Threads), Keyed(h, offset), SinksFrom(h, 1, offset)
  PROVE  Rearranged(h, SiftDown(h, offset)) /\ Ordered(SiftDown(h, offset), offset)
<1>1. PICK sink :
           /\ \A g : SiftDown(g, offset) = sink[<<g, 1>>]
           /\ \A s \in Sinking : sink[s] =
                IF /\ 2 * s[2] <= Len(s[1])
                   /\ At(s[1], s[2], offset) > At(s[1], LesserChild(s[1], s[2], offset), offset)
                THEN sink[<<Exchange(s[1], s[2], LesserChild(s[1], s[2], offset)),
                            LesserChild(s[1], s[2], offset)>>]
                ELSE s[1]
  BY SiftDownLoop
<1> DEFINE Right(g, k) == Rearranged(g, sink[<<g, k>>]) /\ Ordered(sink[<<g, k>>], offset)
           Sinks(g, k) == 2 * k <= Len(g) /\ At(g, k, offset) > At(g, LesserChild(g, k, offset), offset)
           A == {n \in Nat : \A g \in Seq(Threads) : \A k \in Nat \ {0} :
                   Len(g) <= k + n /\ Keyed(g, offset) /\ SinksFrom(g, k, offset) => Right(g, k)}
<1>2. ASSUME NEW g \in Seq(Threads), NEW k \in Nat \ {0}
      PROVE  sink[<<g, k>>] = IF Sinks(g, k)
                              THEN sink[<<Exchange(g, k, LesserChild(g, k, offset)),
                                          LesserChild(g, k, offset)>>] ELSE g
  <2>1. <<g, k>> \in Sinking
    BY DEF Sinking
  <2> QED BY <1>1, <2>1
<1>3. ASSUME NEW g \in Seq(Threads), NEW k \in Nat \ {0}, Keyed(g, offset), SinksFrom(g, k, offset),
             ~Sinks(g, k)
      PROVE  Right(g, k)
  <2>1. sink[<<g, k>>] = g
    BY <1>2, <1>3
  <2>2. ASSUME NEW n \in 2 .. Len(g) PROVE At(g, n \div 2, offset) <= At(g, n, offset)
    <3>1. CASE n \div 2 # k
      BY <1>3, <3>1 DEF SinksFrom
    <3>2. CASE n \div 2 = k
      <4>1. n \in Nat /\ Len(g) \in Nat /\ (n = 2 * k \/ n = 2 * k + 1)
        BY <3>2, Halves
      <4>2. 2 * k <= Len(g) /\ k \in DOMAIN g /\ n \in DOMAIN g
        BY <4>1
      <4> DEFINE c == LesserChild(g, k, offset)
      <4>3. ~(At(g, k, offset) > At(g, c, offset))
        BY <1>3, <4>2
      <4>4. c \in DOMAIN g /\ At(g, c, offset) <= At(g, n, offset)
        BY <1>3, <3>2, <4>2, LesserChildFacts
      <4>5. At(g, k, offset) \in Nat /\ At(g, c, offset) \in Nat /\ At(g, n, offset) \in Nat
        BY <1>3, <4>2, <4>4 DEF Keyed
      <4> HIDE DEF c
      <4> QED BY <3>2, <4>3, <4>4, <4>5
    <3> QED BY <3>1, <3>2
  <2> QED BY <2>1, <2>2, RearrangedSelf DEF Ordered
<1>4. 0 \in A
  <2>1. ASSUME NEW g \in Seq(Threads), NEW k \in Nat \ {0}, Len(g) <= k + 0 PROVE ~Sinks(g, k)
    BY <2>1
  <2> HIDE DEF Sinks, Right
  <2> QED BY <1>3, <2>1
<1>5. ASSUME NEW n \in Nat, n \in A PROVE n + 1 \in A
  <2>1. ASSUME NEW g \in Seq(Threads), NEW k \in Nat \ {0}, Len(g) <= k + (n + 1), Keyed(g, offset),
               SinksFrom(g, k, offset)
        PROVE  Right(g, k)
    <3>1. CASE ~Sinks(g, k)
      BY <1>3, <2>1, <3>1
    <3>2. CASE Sinks(g, k)
      <4> DEFINE c == LesserChild(g, k, offset)
                 x == Exchange(g, k, c)
      <4>1. c \in DOMAIN g /\ c > k
        BY <3>2, LesserChildIsChild
      <4>2. k \in DOMAIN g /\ c \in Nat \ {0} /\ Len(g) <= c + n
        BY <2>1, <4>1
      <4>3. SinksFrom(x, c, offset)
        BY <2>1, <3>2, SinkStep
      <4>4. sink[<<g, k>>] = sink[<<x, c>>]
        BY <1>2, <3>2
      <4> HIDE DEF c
      <4>5. Rearranged(g, x) /\ Keyed(x, offset)
        BY ONLY g \in Seq(Threads), <2>1, <4>1, <4>2, ExchangeFacts
      <4> HIDE DEF x
      <4>6. x \in Seq(Threads) /\ Len(x) <= c + n
        BY <4>2, <4>5 DEF Rearranged
      <4>7. Right(x, c)
        BY <1>5, <4>2, <4>3, <4>5, <4>6
      <4>8. Rearranged(g, sink[<<g, k>>])
        BY <4>4, <4>5, <4>7, RearrangedTransitive
      <4> QED BY <4>4, <4>7, <4>8
    <3> QED BY <3>1, <3>2
  <2> HIDE DEF Right
  <2> QED BY <2>1
<1> HIDE DEF A
<1>6. Len(h) \in A
  BY <1>4, <1>5, SetInduction
<1>7. Len(h) <= 1 + Len(h) /\ 1 \in Nat \ {0}
  OBVIOUS
<1>8. Right(h, 1)
  BY <1>6, <1>7 DEF A
<1> QED BY <1>1, <1>8

-----------------------------------------------------------------------------
\* What the merge of a run needs of its heap.
IsHeap(h, offset) == h \in Seq(Threads) /\ IsInjective(h) /\ Ordered(h, offset)

\* Keyed, from the elements of the heap as a set.
LEMMA KeyedSet ==
  ASSUME NEW h \in Seq(Threads), NEW offset, \A j \in ToSet(h) : data[offset[j]] \in Nat
  PROVE  Keyed(h, offset)
BY DEF Keyed, At, ToSet

\* A heap depends on the offsets of its own elements only.
LEMMA SameHeap ==
  ASSUME NEW h, NEW offset, NEW offset2, IsHeap(h, offset),
         \A j \in ToSet(h) : offset[j] = offset2[j]
  PROVE  IsHeap(h, offset2)
<1>1. \A n \in DOMAIN h : At(h, n, offset) = At(h, n, offset2)
  BY DEF At, ToSet
<1>2. ASSUME NEW n \in 2 .. Len(h) PROVE n \in DOMAIN h /\ n \div 2 \in DOMAIN h
  BY Halves DEF IsHeap
<1> QED BY <1>1, <1>2 DEF IsHeap, Ordered

\* push makes a heap with one more element (main.cpp:51-54).
LEMMA PushFacts ==
  ASSUME NEW h, NEW offset, NEW j \in Threads, IsHeap(h, offset), j \notin ToSet(h),
         \A i \in ToSet(h) \cup {j} : data[offset[i]] \in Nat
  PROVE  /\ IsHeap(push(h, offset, j), offset)
         /\ ToSet(push(h, offset, j)) = ToSet(h) \cup {j}
<1> DEFINE g == Append(h, j)
<1>1. h \in Seq(Threads) /\ IsInjective(h) /\ Len(h) \in Nat /\ DOMAIN h = 1 .. Len(h)
  BY DEF IsHeap
<1>2. /\ g \in Seq(Threads) /\ Len(g) = Len(h) + 1 /\ g # <<>> /\ DOMAIN g = 1 .. Len(h) + 1
      /\ g[Len(h) + 1] = j /\ \A n \in DOMAIN h : g[n] = h[n]
  BY <1>1
<1> HIDE DEF g
<1>3. ToSet(g) = ToSet(h) \cup {j}
  <2>1. ASSUME NEW x \in ToSet(g) PROVE x \in ToSet(h) \cup {j}
    <3>1. PICK n \in DOMAIN g : x = g[n]
      BY DEF ToSet
    <3>2. n = Len(h) + 1 \/ n \in DOMAIN h
      BY <1>1, <1>2
    <3> QED BY <1>2, <3>1, <3>2 DEF ToSet
  <2>2. ASSUME NEW x \in ToSet(h) \cup {j} PROVE x \in ToSet(g)
    <3>1. Len(h) + 1 \in DOMAIN g /\ DOMAIN h \subseteq DOMAIN g
      BY <1>1, <1>2
    <3> QED BY <1>2, <3>1 DEF ToSet
  <2> QED BY <2>1, <2>2
<1>4. IsInjective(g)
  <2>1. ASSUME NEW a \in DOMAIN g, NEW b \in DOMAIN g, g[a] = g[b] PROVE a = b
    <3>1. (a = Len(h) + 1 \/ a \in DOMAIN h) /\ (b = Len(h) + 1 \/ b \in DOMAIN h)
      BY <1>1, <1>2
    <3>2. \A n \in DOMAIN h : g[n] # j
      BY <1>2 DEF ToSet
    <3> QED BY <1>1, <1>2, <2>1, <3>1, <3>2 DEF IsInjective
  <2> QED BY <2>1 DEF IsInjective
<1>5. Keyed(g, offset)
  BY <1>2, <1>3, KeyedSet
<1>6. RisesFrom(g, Len(g), offset)
  <2>1. ASSUME NEW n \in 2 .. Len(g), n # Len(g) PROVE At(g, n \div 2, offset) <= At(g, n, offset)
    <3>1. n \in 2 .. Len(h) /\ n \in DOMAIN h /\ n \div 2 \in DOMAIN h
      BY <1>1, <1>2, <2>1, Halves
    <3>2. At(h, n \div 2, offset) <= At(h, n, offset)
      BY <3>1 DEF IsHeap, Ordered
    <3> QED BY <1>2, <3>1, <3>2 DEF At
  <2>2. ASSUME NEW n \in 2 .. Len(g) PROVE n \div 2 # Len(g)
    BY <1>1, <1>2, Halves
  <2> QED BY <2>1, <2>2 DEF RisesFrom
<1>7. Rearranged(g, SiftUp(g, offset)) /\ Ordered(SiftUp(g, offset), offset)
  BY <1>2, <1>5, <1>6, SiftUpRight
<1>8. push(h, offset, j) = SiftUp(g, offset)
  BY DEF push, g
<1> QED BY <1>3, <1>4, <1>7, <1>8 DEF Rearranged, IsHeap

\* pop makes a heap without the first element (main.cpp:55-60).
LEMMA PopFacts ==
  ASSUME NEW h, NEW offset, IsHeap(h, offset), h # <<>>,
         \A i \in ToSet(h) : data[offset[i]] \in Nat
  PROVE  /\ IsHeap(pop(h, offset), offset)
         /\ ToSet(pop(h, offset)) = ToSet(h) \ {Head(h)}
<1> DEFINE g == SubSeq([h EXCEPT ![1] = Last(h)], 1, Len(h) - 1)
           l == Len(h)
<1>1. h \in Seq(Threads) /\ IsInjective(h) /\ l \in Nat /\ l >= 1 /\ DOMAIN h = 1 .. l /\ Head(h) = h[1]
  BY DEF IsHeap
<1>2. \A n \in 1 .. l : h[n] \in Threads
  BY <1>1
<1>3. g = [n \in 1 .. l - 1 |-> IF n = 1 THEN h[l] ELSE h[n]]
  <2>1. [h EXCEPT ![1] = Last(h)] = [n \in 1 .. l |-> IF n = 1 THEN h[l] ELSE h[n]]
    BY <1>1 DEF Last
  <2> DEFINE x == [n \in 1 .. l |-> IF n = 1 THEN h[l] ELSE h[n]]
  <2>2. x \in Seq(Threads) /\ Len(x) = l
    <3>1. \A n \in 1 .. l : (IF n = 1 THEN h[l] ELSE h[n]) \in Threads
      BY <1>1, <1>2
    <3> QED BY <1>1, <3>1
  <2>3. \A n \in 1 .. l - 1 : x[n] = IF n = 1 THEN h[l] ELSE h[n]
    BY <1>1
  <2> HIDE DEF x
  <2>4. g = SubSeq(x, 1, l - 1)
    BY <2>1 DEF x
  <2>5. SubSeq(x, 1, l - 1) = [n \in 1 .. l - 1 |-> x[n]]
    BY <1>1, <2>2
  <2> QED BY <2>3, <2>4, <2>5
<1> HIDE DEF g
<1>4. /\ g \in Seq(Threads) /\ Len(g) = l - 1 /\ DOMAIN g = 1 .. l - 1
      /\ \A n \in DOMAIN g : g[n] = IF n = 1 THEN h[l] ELSE h[n]
  <2>1. \A n \in 1 .. l - 1 : (IF n = 1 THEN h[l] ELSE h[n]) \in Threads
    BY <1>1, <1>2
  <2> QED BY <1>1, <1>3, <2>1
<1>5. ToSet(g) = ToSet(h) \ {Head(h)}
  <2>1. ASSUME NEW x \in ToSet(g) PROVE x \in ToSet(h) \ {Head(h)}
    <3>1. PICK n \in DOMAIN g : x = g[n]
      BY DEF ToSet
    <3> DEFINE m == IF n = 1 THEN l ELSE n
    <3>2. m \in DOMAIN h /\ m # 1 /\ x = h[m] /\ 1 \in DOMAIN h
      BY <1>1, <1>4, <3>1
    <3> HIDE DEF m
    <3> QED BY <1>1, <3>2 DEF ToSet, IsInjective
  <2>2. ASSUME NEW x \in ToSet(h) \ {Head(h)} PROVE x \in ToSet(g)
    <3>1. PICK n \in DOMAIN h : x = h[n]
      BY DEF ToSet
    <3>2. n # 1
      BY <1>1, <3>1
    <3> DEFINE m == IF n = l THEN 1 ELSE n
    <3>3. m \in DOMAIN g /\ g[m] = x
      BY <1>1, <1>4, <3>1, <3>2
    <3> HIDE DEF m
    <3> QED BY <3>3 DEF ToSet
  <2> QED BY <2>1, <2>2
<1>6. IsInjective(g)
  <2>1. ASSUME NEW a \in DOMAIN g, NEW b \in DOMAIN g, g[a] = g[b] PROVE a = b
    <3> DEFINE m(n) == IF n = 1 THEN l ELSE n
    <3>1. /\ m(a) \in DOMAIN h /\ m(b) \in DOMAIN h /\ g[a] = h[m(a)] /\ g[b] = h[m(b)]
          /\ m(a) = m(b) => a = b
      BY <1>1, <1>4
    <3> HIDE DEF m
    <3> QED BY <1>1, <2>1, <3>1 DEF IsInjective
  <2> QED BY <2>1 DEF IsInjective
<1>7. Keyed(g, offset)
  BY <1>4, <1>5, KeyedSet
<1>8. SinksFrom(g, 1, offset)
  <2>1. ASSUME NEW n \in 2 .. Len(g), n \div 2 # 1 PROVE At(g, n \div 2, offset) <= At(g, n, offset)
    <3>1. /\ n \in 2 .. l /\ n \in DOMAIN g /\ n \div 2 \in DOMAIN g /\ n # 1
      BY <1>1, <1>4, Halves
    <3>2. At(h, n \div 2, offset) <= At(h, n, offset)
      BY <3>1 DEF IsHeap, Ordered
    <3> QED BY <1>4, <2>1, <3>1, <3>2 DEF At
  <2> QED BY <2>1 DEF SinksFrom
<1>9. Rearranged(g, SiftDown(g, offset)) /\ Ordered(SiftDown(g, offset), offset)
  BY <1>4, <1>7, <1>8, SiftDownRight
<1>10. pop(h, offset) = SiftDown(g, offset)
  BY DEF pop, g
<1> QED BY <1>5, <1>6, <1>9, <1>10 DEF Rearranged, IsHeap

\* The least element of a heap is at its top.
LEMMA TopIsLeast ==
  ASSUME NEW h, NEW offset, IsHeap(h, offset), NEW j \in ToSet(h),
         \A i \in ToSet(h) : data[offset[i]] \in Nat
  PROVE  Head(h) \in ToSet(h) /\ data[offset[Head(h)]] <= data[offset[j]]
<1>1. h \in Seq(Threads) /\ DOMAIN h = 1 .. Len(h) /\ Len(h) \in Nat /\ h # <<>> /\ Head(h) = h[1]
      /\ 1 \in DOMAIN h
  BY DEF IsHeap, ToSet
<1>2. \A n \in DOMAIN h : At(h, n, offset) \in Nat
  BY <1>1, KeyedSet DEF Keyed
<1> DEFINE A == {m \in Nat : \A n \in DOMAIN h : n <= m => At(h, 1, offset) <= At(h, n, offset)}
<1>3. 0 \in A
  BY <1>1
<1>4. ASSUME NEW m \in Nat, m \in A PROVE m + 1 \in A
  <2>1. ASSUME NEW n \in DOMAIN h, n <= m + 1 PROVE At(h, 1, offset) <= At(h, n, offset)
    <3>1. CASE n = 1
      BY <1>1, <1>2, <3>1
    <3>2. CASE n # 1
      <4>1. n \in 2 .. Len(h) /\ n \div 2 \in DOMAIN h /\ n \div 2 <= m
        BY <1>1, <2>1, <3>2, Halves
      <4>2. At(h, n \div 2, offset) <= At(h, n, offset)
        BY <4>1 DEF IsHeap, Ordered
      <4>3. At(h, 1, offset) <= At(h, n \div 2, offset)
        BY <1>4, <4>1
      <4> QED BY <1>1, <1>2, <4>1, <4>2, <4>3
    <3> QED BY <3>1, <3>2
  <2> QED BY <2>1
<1>5. PICK n \in DOMAIN h : j = h[n]
  BY DEF ToSet
<1> HIDE DEF A
<1>6. n \in A
  BY <1>1, <1>3, <1>4, SetInduction
<1>7. At(h, 1, offset) <= At(h, n, offset)
  BY <1>1, <1>6 DEF A
<1> QED BY <1>1, <1>5, <1>7 DEF At, ToSet

\* The heap of all blocks holds each thread.
LEMMA FilledFacts ==
  ASSUME NEW offset, \A j \in Threads : data[offset[j]] \in Nat
  PROVE  IsHeap(Filled(offset), offset) /\ ToSet(Filled(offset)) = Threads
<1> DEFINE Valid(n) == {h \in Seq(Threads) : IsHeap(h, offset) /\ ToSet(h) = 0 .. n - 1}
           D == 0 .. THREAD_NUM
           G == [p \in (1 .. THREAD_NUM) \X Seq(Threads) |->
                  IF p[2] \in Valid(p[1] - 1) THEN push(p[2], offset, p[1] - 1) ELSE <<>>]
           Body(g) == [n \in D |-> IF n = 0 THEN <<>> ELSE push(g[n - 1], offset, n - 1)]
           fill == CHOOSE g : g = Body(g)
<1>1. THREAD_NUM \in Nat /\ Threads = 0 .. THREAD_NUM - 1
  BY Sizes DEF Threads
<1>2. <<>> \in Valid(0)
  BY DEF IsHeap, IsInjective, Ordered, ToSet
<1>3. ASSUME NEW n \in 1 .. THREAD_NUM, NEW h \in Valid(n - 1)
      PROVE  push(h, offset, n - 1) \in Valid(n) /\ push(h, offset, n - 1) \in Seq(Threads)
  <2>1. /\ IsHeap(h, offset) /\ n - 1 \in Threads /\ ToSet(h) = 0 .. (n - 1) - 1
        /\ n - 1 \notin ToSet(h) /\ ToSet(h) \cup {n - 1} \subseteq Threads
    BY <1>1
  <2> HIDE DEF Valid
  <2>2. /\ IsHeap(push(h, offset, n - 1), offset)
        /\ ToSet(push(h, offset, n - 1)) = ToSet(h) \cup {n - 1}
    BY <2>1, PushFacts
  <2>3. (0 .. (n - 1) - 1) \cup {n - 1} = 0 .. n - 1
    OBVIOUS
  <2>4. ToSet(push(h, offset, n - 1)) = 0 .. n - 1
    BY <2>1, <2>2, <2>3
  <2> QED BY <2>2, <2>4 DEF Valid, IsHeap
<1> HIDE DEF Valid
<1>4. \E g : g = Body(g)
  <2>1. G \in [(1 .. THREAD_NUM) \X Seq(Threads) -> Seq(Threads)]
    <3>1. ASSUME NEW p \in (1 .. THREAD_NUM) \X Seq(Threads)
          PROVE  (IF p[2] \in Valid(p[1] - 1) THEN push(p[2], offset, p[1] - 1) ELSE <<>>) \in Seq(Threads)
      <4>1. p[1] \in 1 .. THREAD_NUM
        OBVIOUS
      <4> QED BY <1>3, <4>1
    <3> QED BY <3>1
  <2>2. PICK f \in [D -> Seq(Threads)] :
           \A n \in D : f[n] = IF n = 0 THEN <<>> ELSE G[<<n, f[n - 1]>>]
    <3> DEFINE V == Seq(Threads)
               a == <<>>
    <3>1. a \in V /\ THREAD_NUM \in Nat /\ G \in [(1 .. THREAD_NUM) \X V -> V]
      BY <1>1, <2>1
    <3> HIDE DEF V, a, G
    <3>2. \E f \in [0 .. THREAD_NUM -> V] : Solves(f, a, THREAD_NUM, G)
      BY ONLY <3>1, Recurrence
    <3> QED BY <3>2 DEF V, a, Solves
  <2>3. ASSUME NEW n \in D, n # 0 PROVE f[n] = IF f[n - 1] \in Valid(n - 1) THEN push(f[n - 1], offset, n - 1) ELSE <<>>
    <3>1. n \in 1 .. THREAD_NUM /\ n - 1 \in D
      BY <1>1, <2>3
    <3>2. <<n, f[n - 1]>> \in (1 .. THREAD_NUM) \X Seq(Threads)
      BY <2>2, <3>1
    <3>3. f[n] = G[<<n, f[n - 1]>>]
      BY <2>2, <2>3
    <3> QED BY <3>2, <3>3
  <2> HIDE DEF G
  <2> DEFINE A == {n \in Nat : n \in D => f[n] \in Valid(n)}
  <2>4. 0 \in A
    BY <1>1, <1>2, <2>2
  <2>5. ASSUME NEW n \in Nat, n \in A PROVE n + 1 \in A
    <3>1. ASSUME n + 1 \in D PROVE f[n + 1] \in Valid(n + 1)
      <4>1. n \in D /\ n + 1 \in 1 .. THREAD_NUM /\ (n + 1) - 1 = n /\ n + 1 # 0
        BY <1>1, <3>1
      <4>2. f[n] \in Valid(n)
        BY <2>5, <4>1
      <4>3. f[n + 1] = push(f[n], offset, (n + 1) - 1)
        BY <2>3, <3>1, <4>1, <4>2
      <4> QED BY <1>3, <4>1, <4>2, <4>3
    <3> QED BY <3>1
  <2> HIDE DEF A
  <2>6. Nat \subseteq A
    BY <2>4, <2>5, SetInduction
  <2>7. ASSUME NEW n \in D PROVE f[n] = IF n = 0 THEN <<>> ELSE push(f[n - 1], offset, n - 1)
    <3>1. CASE n = 0
      BY <2>2, <3>1
    <3>2. CASE n # 0
      <4>1. n - 1 \in D /\ n - 1 \in Nat
        BY <1>1, <3>2
      <4>2. f[n - 1] \in Valid(n - 1)
        BY <2>6, <4>1 DEF A
      <4> QED BY <2>3, <3>2, <4>2
    <3> QED BY <3>1, <3>2
  <2>8. f = Body(f)
    BY <2>2, <2>7
  <2> QED BY <2>8
<1>5. fill = Body(fill)
  <2> HIDE DEF Body
  <2> QED BY <1>4
<1> HIDE DEF fill
<1> DEFINE A == {n \in Nat : n \in D => fill[n] \in Valid(n)}
<1>6. \A n \in D : fill[n] = IF n = 0 THEN <<>> ELSE push(fill[n - 1], offset, n - 1)
  BY <1>5
<1>7. 0 \in A
  BY <1>1, <1>2, <1>6
<1>8. ASSUME NEW n \in Nat, n \in A PROVE n + 1 \in A
  <2>1. ASSUME n + 1 \in D PROVE fill[n + 1] \in Valid(n + 1)
    <3>1. n \in D /\ n + 1 \in 1 .. THREAD_NUM /\ (n + 1) - 1 = n /\ n + 1 # 0
      BY <1>1, <2>1
    <3>2. fill[n] \in Valid(n)
      BY <1>8, <3>1
    <3>3. fill[n + 1] = push(fill[n], offset, (n + 1) - 1)
      BY <1>6, <2>1, <3>1
    <3> QED BY <1>3, <3>1, <3>2, <3>3
  <2> QED BY <2>1
<1> HIDE DEF A
<1>9. THREAD_NUM \in A
  BY <1>1, <1>7, <1>8, SetInduction
<1>10. fill[THREAD_NUM] \in Valid(THREAD_NUM)
  BY <1>1, <1>9 DEF A
<1>11. Filled(offset) = fill[THREAD_NUM]
  BY DEF Filled, fill
<1> QED BY <1>1, <1>10, <1>11 DEF Valid

-----------------------------------------------------------------------------
(***************************************************************************)
(* The inductive invariant.                                                *)
(***************************************************************************)
\* How often k is a value of f.
Count(f, k) == Cardinality({x \in DOMAIN f : f[x] = k})
SameTuples(f, g) == \A k \in Tuples : Count(f, k) = Count(g, k)
InOrder(f) == \A a, b \in DOMAIN f : a < b => f[a] <= f[b]

\* A merge: what is done is in order, and with what is left it makes up all.
Merging(done, left, all) ==
  /\ InOrder(done)
  /\ \A a \in DOMAIN done, x \in DOMAIN left : done[a] <= left[x]
  /\ \A k \in Tuples : Count(done, k) + Count(left, k) = Count(all, k)

\* The places of m rows of length b.
Grid(m, b) == (0 .. m - 1) \X (0 .. b - 1)

\* Run r of the input, and all runs; offsets start at 0, as in the program.
InputRun(r) == [o \in 0 .. Limit - 1 |-> file[r * Limit + o + 1]]
Input == [o \in 0 .. Limit * file_num - 1 |-> file[o + 1]]
BlockOf(f, j) == [n \in 0 .. Block - 1 |-> f[j * Block + n]]

\* The tuples of a run that stay in memory (main.cpp:162,216-221).
Part == buffer_size \div TUPLE_SIZE
Kept == IF Part < Limit THEN Part ELSE Limit

\* The parts are whole tuples, unless they hold the runs.
Fitting == Part >= 1 /\ (Part * TUPLE_SIZE = buffer_size \/ Part >= Limit)

\* A file of tuples, perhaps with holes, that ends before last.
IsFile(f, last) ==
  f = [o \in DOMAIN f |-> f[o]] /\ DOMAIN f \subseteq 0 .. last - 1 /\ \A o \in DOMAIN f : f[o] \in Tuples

\* All of a file from first to its end has been written.
NoHoles(f, first) == \A o \in DOMAIN f : o >= first /\ first .. o \subseteq DOMAIN f

\* The types, and what has not been touched yet.
Shape ==
  /\ IsFile(output, Limit * file_num)
  /\ buffer \in Seq(Tuples) /\ out_offset \in Nat /\ partial_offset \in [Threads -> Nat]
  /\ main = "start" => run = 0 /\ output = NoFile
  /\ main # "start" =>
       /\ temp_file = [r \in Runs |-> temp_file[r]]
       /\ temp_buf = [r \in Runs |-> temp_buf[r]]
       /\ \A r \in Runs : IsFile(temp_file[r], Limit) /\ temp_buf[r] \in Seq(Tuples)
  /\ main \in {"spawn", "join", "open"} => output = NoFile

\* A block is sorted when its worker is done (main.cpp:123-129).
Workers ==
  /\ \A j \in Threads : worker[j] = "running" => main = "join"
  /\ main = "join" =>
       \A j \in Threads :
         /\ partial_offset[j] = j * Block
         /\ worker[j] = "done" =>
              /\ InOrder(BlockOf(data, j))
              /\ errors = 0 => SameTuples(BlockOf(data, j), BlockOf(InputRun(run), j))

\* A run after its merge: its first part in memory, the rest in its file, of which the
\* last tuples are still missing when a run is not whole buffers beyond that part.
Stored(r) == [o \in 0 .. Limit - 1 |-> IF o < Kept THEN temp_buf[r][o + 1] ELSE temp_file[r][o]]
Whole(r) == Part >= Limit \/ Limit - 1 \in DOMAIN temp_file[r]

\* A run that has been merged (main.cpp:203-238).
StoredRun(r) ==
  /\ Len(temp_buf[r]) = Kept
  /\ errors = 0 =>
       /\ NoHoles(temp_file[r], Kept)
       /\ Whole(r) => InOrder(Stored(r)) /\ SameTuples(Stored(r), InputRun(r))

\* A run that has not been merged.
Blank(r) == temp_buf[r] = <<>> /\ temp_file[r] = NoFile

\* The runs before the current one have been merged, the others have not.
RunsStored ==
  /\ main \in {"spawn", "join"} => run < file_num /\ \A r \in Runs : r >= run => Blank(r)
  /\ main = "merge" => run < file_num /\ \A r \in Runs : r > run => Blank(r)
  /\ main = "open" => run = file_num /\ file_num > 1
  /\ main \in {"spawn", "join", "merge", "open"} /\ run > 0 =>
       Fitting /\ \A r \in 0 .. run - 1 : StoredRun(r)

\* The merge of a run writes first to memory, then, through buffer, to a file.
KeptOfRun == Len(temp_buf[run])
Target == IF file_num <= 1 THEN output ELSE temp_file[run]
MergedLen == IF fflag THEN out_offset + Len(buffer) ELSE KeptOfRun
Merged ==
  [i \in 0 .. MergedLen - 1 |->
     IF i < KeptOfRun THEN temp_buf[run][i + 1]
     ELSE IF i < out_offset THEN Target[i] ELSE buffer[i - out_offset + 1]]

\* The tuples of the blocks that have not been taken.
Tuple(x) == data[x[1] * Block + x[2]]
LeftInRun == {x \in Grid(THREAD_NUM, Block) : partial_offset[x[1]] <= x[1] * Block + x[2]}

\* During the merge of a run, whatever fails: blocks are sorted, offsets stay in their
\* blocks, the heap is one, and out_offset moves by whole buffers (main.cpp:203-233).
MergeBounds ==
  main = "merge" =>
    /\ file_num > 1 => output = NoFile
    /\ \A j \in Threads :
         /\ partial_offset[j] \in j * Block .. (j + 1) * Block
         /\ j \in flag <=> partial_offset[j] = (j + 1) * Block
         /\ InOrder(BlockOf(data, j))
    /\ flag \subseteq Threads
    /\ IsHeap(heap, partial_offset) /\ ToSet(heap) = Threads \ flag
    /\ MergedLen + Cardinality(LeftInRun) = Limit
    /\ fflag \/ /\ file_num > 1 /\ buffer = <<>> /\ out_offset = 0 /\ temp_file[run] = NoFile
                /\ KeptOfRun = 0 \/ KeptOfRun * TUPLE_SIZE < buffer_size
    /\ fflag =>
         /\ IF file_num <= 1 THEN KeptOfRun = 0 /\ \E q \in 0 .. Limit : out_offset = q * Buffer
            ELSE Part >= 1 /\ KeptOfRun = Part /\ Part * TUPLE_SIZE = buffer_size
         /\ KeptOfRun <= out_offset
         /\ DOMAIN Target \subseteq KeptOfRun .. out_offset - 1
         /\ errors = 0 => DOMAIN Target = KeptOfRun .. out_offset - 1

\* When nothing has failed: taken and left tuples make up the run.
MergeRight ==
  main = "merge" /\ errors = 0 =>
    Merging(Merged, [x \in LeftInRun |-> Tuple(x)], InputRun(run))

\* The piece of a run in memory, what is left of the runs, and what is written.
PieceLen(f) == IF Part < Limit - temp_used[f] THEN Part ELSE Limit - temp_used[f]
Left == {x \in Grid(file_num, Limit) : Read(x[1]) <= x[2]}
Value(x) ==
  IF x[2] < temp_used[x[1]] + PieceLen(x[1]) THEN temp_buf[x[1]][x[2] - temp_used[x[1]] + 1]
  ELSE temp_file[x[1]][x[2]]
Out == [i \in 0 .. out_offset + Len(buffer) - 1 |->
          IF i < out_offset THEN output[i] ELSE buffer[i - out_offset + 1]]

\* During the last merge, whatever fails: pieces lie within their runs, the chosen run is
\* not used up, and the next tuple of each run is loaded (main.cpp:265-299).
LastBounds ==
  main \in {"last", "piece"} =>
    /\ file_num > 1 /\ Fitting
    /\ flag \subseteq Runs /\ idx \in Runs
    /\ main = "piece" \/ flag # Runs => idx \notin flag
    /\ temp_in_offset \in [Runs -> 0 .. Limit] /\ temp_used \in [Runs -> 0 .. Limit]
    /\ \A f \in Runs :
         /\ Read(f) <= Limit /\ Len(temp_buf[f]) = Kept
         /\ f \in flag => temp_used[f] = Limit /\ temp_in_offset[f] = 0
         /\ f \notin flag =>
              /\ temp_used[f] < Limit /\ temp_in_offset[f] <= PieceLen(f)
              /\ main = "last" \/ f # idx => temp_in_offset[f] < PieceLen(f)
    /\ out_offset + Len(buffer) + Cardinality(Left) = Limit * file_num
    /\ \E q \in 0 .. Limit * file_num : out_offset = q * Buffer
    /\ DOMAIN output \subseteq 0 .. out_offset - 1
    /\ errors = 0 => DOMAIN output = 0 .. out_offset - 1

\* When nothing has failed and no run lacks its end: what is written and what is left
\* make up the input.
LastRight ==
  main \in {"last", "piece"} /\ errors = 0 =>
    /\ \A f \in Runs :
         /\ NoHoles(temp_file[f], Kept)
         /\ \A p \in Kept .. Limit - 1 : p < temp_used[f] + PieceLen(f) => p \in DOMAIN temp_file[f]
    /\ (\A f \in Runs : Whole(f)) =>
         /\ \A x, y \in Left : x[1] = y[1] /\ x[2] < y[2] => Value(x) <= Value(y)
         /\ Merging(Out, [x \in Left |-> Value(x)], Input)

\* At the end, when nothing has failed, the output is the input in order.
AtEnd ==
  main = "end" /\ errors = 0 =>
    DOMAIN output = 0 .. Limit * file_num - 1 /\ InOrder(output) /\ SameTuples(output, Input)

\* The bounds do not depend on errors, the right contents do; neither half of a merge is
\* inductive without the other, nor without the runs stored before it.
IInv ==
  /\ TypeOK /\ Shape /\ Workers /\ RunsStored /\ MergeBounds /\ MergeRight
  /\ LastBounds /\ LastRight /\ AtEnd /\ (main = "overflow" => ~Documented)

-----------------------------------------------------------------------------
(***************************************************************************)
(* Counting tuples.                                                        *)
(***************************************************************************)
LEMMA TuplesAreNumbers == Tuples \subseteq Nat /\ Garbage \in Tuples /\ Keys \subseteq Tuples
BY SortAssumption DEF Tuples, Garbage

\* Counts are numbers.
LEMMA CountType ==
  ASSUME NEW f, IsFiniteSet(DOMAIN f), NEW k
  PROVE  Count(f, k) \in Nat /\ IsFiniteSet({x \in DOMAIN f : f[x] = k})
<1>1. {x \in DOMAIN f : f[x] = k} \in SUBSET DOMAIN f
  OBVIOUS
<1> QED BY <1>1, FS_Subset, FS_CardinalityType DEF Count

\* What is put in another order, by P, is the same.
LEMMA SameCount ==
  ASSUME NEW f, NEW g, IsFiniteSet(DOMAIN f), NEW P \in [DOMAIN f -> DOMAIN g], IsInjective(P),
         \A y \in DOMAIN g : \E x \in DOMAIN f : P[x] = y,
         \A x \in DOMAIN f : g[P[x]] = f[x],
         NEW k
  PROVE  Count(f, k) = Count(g, k)
<1> DEFINE S == {x \in DOMAIN f : f[x] = k}
           T == {y \in DOMAIN g : g[y] = k}
           Q == [x \in S |-> P[x]]
<1>1. Q \in [S -> T]
  OBVIOUS
<1>2. IsInjective(Q)
  BY DEF IsInjective
<1>3. \A y \in T : \E x \in S : Q[x] = y
  OBVIOUS
<1> HIDE DEF Q
<1>4. IsFiniteSet(S)
  BY CountType
<1> HIDE DEF S, T
<1>5. Q \in Bijection(S, T)
  BY <1>1, <1>2, <1>3 DEF Bijection, Injection, Surjection
<1>6. ExistsBijection(S, T)
  BY <1>5 DEF ExistsBijection
<1>7. Cardinality(S) = Cardinality(T)
  BY <1>4, <1>6, FS_Bijection
<1> QED BY <1>7 DEF Count, S, T

\* Nothing is counted in nothing.
LEMMA CountEmpty ==
  ASSUME NEW f, DOMAIN f = {}, NEW k
  PROVE  Count(f, k) = 0
<1>1. {x \in DOMAIN f : f[x] = k} = {}
  OBVIOUS
<1> QED BY <1>1, FS_EmptySet DEF Count

\* A function with one more argument.
LEMMA CountMore ==
  ASSUME NEW f, NEW g, NEW a, IsFiniteSet(DOMAIN f), a \notin DOMAIN f,
         DOMAIN g = DOMAIN f \cup {a}, \A x \in DOMAIN f : g[x] = f[x], NEW k
  PROVE  Count(g, k) = IF g[a] = k THEN Count(f, k) + 1 ELSE Count(f, k)
<1> DEFINE S == {x \in DOMAIN f : f[x] = k}
           T == {x \in DOMAIN g : g[x] = k}
<1>1. IsFiniteSet(S) /\ a \notin S
  BY CountType
<1>2. CASE g[a] = k
  <2>1. T = S \cup {a}
    BY <1>2
  <2> HIDE DEF S, T
  <2>2. Cardinality(T) = Cardinality(S) + 1
    BY <1>1, <2>1, FS_AddElement
  <2> QED BY <1>2, <2>2 DEF Count, S, T
<1>3. CASE g[a] # k
  <2>1. T = S
    BY <1>3
  <2> QED BY <1>3, <2>1 DEF Count
<1> QED BY <1>2, <1>3

\* Two functions side by side.
LEMMA CountUnion ==
  ASSUME NEW f, NEW S, NEW T, IsFiniteSet(S), IsFiniteSet(T), S \cap T = {}, DOMAIN f = S \cup T, NEW k
  PROVE  Count(f, k) = Count([x \in S |-> f[x]], k) + Count([x \in T |-> f[x]], k)
<1> DEFINE A == {x \in S : f[x] = k}
           B == {x \in T : f[x] = k}
           s == [x \in S |-> f[x]]
           t == [x \in T |-> f[x]]
<1>1. {x \in DOMAIN f : f[x] = k} = A \cup B /\ A \cap B = {} /\ A \in SUBSET S /\ B \in SUBSET T
  OBVIOUS
<1>2. {x \in DOMAIN s : s[x] = k} = A /\ {x \in DOMAIN t : t[x] = k} = B
  OBVIOUS
<1> HIDE DEF A, B
<1>3. IsFiniteSet(A) /\ IsFiniteSet(B)
  BY <1>1, FS_Subset
<1>4. Cardinality(A) \in Nat /\ Cardinality(B) \in Nat
  BY <1>3, FS_CardinalityType
<1>5. Cardinality(A \cup B) = Cardinality(A) + Cardinality(B) - Cardinality({})
  BY <1>1, <1>3, FS_Union
<1>6. Cardinality({}) = 0
  BY FS_EmptySet
<1> HIDE DEF s, t
<1>7. Count(s, k) = Cardinality(A) /\ Count(t, k) = Cardinality(B)
  BY <1>2 DEF Count
<1>8. Count(f, k) = Cardinality(A \cup B)
  BY <1>1 DEF Count
<1>9. Count(f, k) = Count(s, k) + Count(t, k)
  BY <1>1, <1>4, <1>5, <1>6, <1>7, <1>8
<1> QED BY <1>9 DEF s, t

\* The size of a grid.
LEMMA GridFacts ==
  ASSUME NEW m \in Nat, NEW b \in Nat
  PROVE  IsFiniteSet(Grid(m, b)) /\ Cardinality(Grid(m, b)) = m * b
<1>1. IsFiniteSet(0 .. m - 1) /\ Cardinality(0 .. m - 1) = m
  BY FS_Interval
<1>2. IsFiniteSet(0 .. b - 1) /\ Cardinality(0 .. b - 1) = b
  BY FS_Interval
<1> DEFINE S == 0 .. m - 1
           T == 0 .. b - 1
<1>3. IsFiniteSet(S) /\ Cardinality(S) = m /\ IsFiniteSet(T) /\ Cardinality(T) = b
  BY <1>1, <1>2
<1> HIDE DEF S, T
<1>4. IsFiniteSet(S \X T) /\ Cardinality(S \X T) = m * b
  BY <1>3, FS_Product
<1> QED BY <1>4 DEF Grid, S, T

\* The positions of rows of b tuples one after another.
LEMMA Positions ==
  ASSUME NEW m \in Nat, NEW b \in Nat \ {0}
  PROVE  /\ \A j \in 0 .. m - 1, i \in 0 .. b - 1 :
              /\ j * b + i \in 0 .. m * b - 1
              /\ (j * b + i) \div b = j /\ (j * b + i) % b = i
         /\ \A o \in 0 .. m * b - 1 :
              o \div b \in 0 .. m - 1 /\ o % b \in 0 .. b - 1 /\ (o \div b) * b + (o % b) = o
<1>1. ASSUME NEW j \in 0 .. m - 1, NEW i \in 0 .. b - 1
      PROVE  /\ j * b + i \in 0 .. m * b - 1
             /\ (j * b + i) \div b = j /\ (j * b + i) % b = i
  <2>1. j * b \in Nat /\ (j + 1) * b = j * b + b /\ (j + 1) * b <= m * b /\ m * b \in Nat
    <3>1. j \in Nat /\ j + 1 \in Nat /\ j + 1 <= m /\ b \in Nat
      OBVIOUS
    <3> QED BY <3>1, Multiplication
  <2>2. j * b + i \in Nat /\ j * b <= j * b + i /\ j * b + i < (j + 1) * b
    BY <2>1
  <2>3. (j * b + i) \div b = j
    <3> DEFINE o == j * b + i
    <3>1. o \in Nat /\ j * b <= o /\ o < (j + 1) * b /\ j \in Nat
      BY <2>2
    <3> HIDE DEF o
    <3>2. o \div b = j
      BY <3>1, Division
    <3> QED BY <3>2 DEF o
  <2>4. (j * b + i) % b = i
    <3> DEFINE o == j * b + i
               r == o % b
    <3>1. o \in Nat /\ o \div b = j
      BY <2>2, <2>3
    <3> HIDE DEF o
    <3>2. r \in 0 .. b - 1 /\ o = j * b + r
      BY <3>1, Division
    <3> HIDE DEF r
    <3>3. j * b + i = j * b + r
      BY <3>2 DEF o
    <3>4. i = r
      BY <2>1, <3>2, <3>3
    <3> QED BY <3>4 DEF r, o
  <2> QED BY <2>1, <2>2, <2>3, <2>4
<1>2. ASSUME NEW o \in 0 .. m * b - 1
      PROVE  o \div b \in 0 .. m - 1 /\ o % b \in 0 .. b - 1 /\ (o \div b) * b + (o % b) = o
  <2> DEFINE d == o \div b
             r == o % b
  <2>1. o \in Nat /\ o < m * b /\ m * b \in Nat
    BY Multiplication
  <2>2. d \in Nat /\ r \in 0 .. b - 1 /\ o = d * b + r
    BY <2>1, Division
  <2> HIDE DEF d, r
  <2>3. ~(m <= d)
    <3> SUFFICES ASSUME m <= d PROVE FALSE
      OBVIOUS
    <3>1. m * b <= d * b /\ d * b \in Nat
      BY <2>2, Multiplication
    <3> QED BY <2>1, <2>2, <3>1
  <2>4. d \in 0 .. m - 1
    BY <2>2, <2>3
  <2> QED BY <2>2, <2>4 DEF d, r
<1> QED BY <1>1, <1>2

\* One row of a grid.
Row(f, j, b) == [i \in 0 .. b - 1 |-> f[<<j, i>>]]

\* Grids with the same tuples in each row have the same tuples.
LEMMA GridRows ==
  ASSUME NEW m \in Nat, NEW b \in Nat, NEW f, NEW g, NEW k,
         DOMAIN f = Grid(m, b), DOMAIN g = Grid(m, b),
         \A j \in 0 .. m - 1 : Count(Row(f, j, b), k) = Count(Row(g, j, b), k)
  PROVE  Count(f, k) = Count(g, k)
<1> DEFINE Upper(h, n) == [x \in Grid(n, b) |-> h[x]]
           Line(n) == {n} \X (0 .. b - 1)
           A == {n \in Nat : n <= m => Count(Upper(f, n), k) = Count(Upper(g, n), k)}
<1>1. ASSUME NEW h, NEW n \in Nat
      PROVE  /\ Count(Upper(h, n + 1), k) = Count(Upper(h, n), k) + Count(Row(h, n, b), k)
  <2> DEFINE t == [x \in Line(n) |-> h[x]]
             P == [x \in Line(n) |-> x[2]]
  <2>1. Grid(n + 1, b) = Grid(n, b) \cup Line(n) /\ Grid(n, b) \cap Line(n) = {}
    <3>1. 0 .. (n + 1) - 1 = (0 .. n - 1) \cup {n} /\ n \notin 0 .. n - 1
      OBVIOUS
    <3> QED BY <3>1 DEF Grid
  <2>2. IsFiniteSet(Grid(n, b)) /\ IsFiniteSet(Line(n))
    <3>1. IsFiniteSet({n}) /\ IsFiniteSet(0 .. b - 1)
      <4>1. 0 \in Int /\ b - 1 \in Int
        OBVIOUS
      <4> QED BY <4>1, FS_Singleton, FS_Interval
    <3> QED BY <3>1, GridFacts, FS_Product
  <2>3. Count(t, k) = Count(Row(h, n, b), k)
    <3>1. DOMAIN t = Line(n) /\ DOMAIN Row(h, n, b) = 0 .. b - 1
      BY DEF Row
    <3>2. P \in [DOMAIN t -> DOMAIN Row(h, n, b)]
      BY <3>1
    <3>3. IsInjective(P)
      BY DEF IsInjective
    <3>4. ASSUME NEW y \in DOMAIN Row(h, n, b) PROVE \E x \in DOMAIN t : P[x] = y
      <4>1. <<n, y>> \in Line(n)
        BY <3>1
      <4> QED BY <4>1
    <3>5. \A x \in DOMAIN t : Row(h, n, b)[P[x]] = t[x]
      <4>1. \A x \in Line(n) : x = <<n, x[2]>> /\ x[2] \in 0 .. b - 1
        OBVIOUS
      <4> QED BY <3>1, <4>1 DEF Row
    <3>6. IsFiniteSet(DOMAIN t)
      BY <2>2, <3>1
    <3> HIDE DEF t, P
    <3> QED BY <3>2, <3>3, <3>4, <3>5, <3>6, SameCount
  <2> DEFINE u == Upper(h, n + 1)
  <2>4. DOMAIN u = Grid(n, b) \cup Line(n)
    BY <2>1
  <2>5. [x \in Grid(n, b) |-> u[x]] = Upper(h, n) /\ [x \in Line(n) |-> u[x]] = t
    BY <2>1
  <2> HIDE DEF u, Line
  <2>6. Count(u, k) = Count([x \in Grid(n, b) |-> u[x]], k) + Count([x \in Line(n) |-> u[x]], k)
    BY <2>1, <2>2, <2>4, CountUnion
  <2>7. Count(u, k) = Count(Upper(h, n), k) + Count(t, k)
    BY <2>5, <2>6
  <2> QED BY <2>3, <2>7 DEF u
<1>2. 0 \in A
  <2>1. Grid(0, b) = {}
    BY DEF Grid
  <2>2. DOMAIN Upper(f, 0) = {} /\ DOMAIN Upper(g, 0) = {}
    BY <2>1
  <2>3. Count(Upper(f, 0), k) = 0 /\ Count(Upper(g, 0), k) = 0
    <3> HIDE DEF Upper
    <3> QED BY <2>2, CountEmpty
  <2> QED BY <2>3
<1>3. ASSUME NEW n \in Nat, n \in A PROVE n + 1 \in A
  <2> HIDE DEF Upper
  <2>1. ASSUME n + 1 <= m PROVE Count(Upper(f, n + 1), k) = Count(Upper(g, n + 1), k)
    <3>1. n \in 0 .. m - 1 /\ n <= m
      BY <2>1
    <3> QED BY <1>1, <1>3, <3>1
  <2> QED BY <2>1
<1>4. m \in A
  <2> HIDE DEF A
  <2> QED BY <1>2, <1>3, SetInduction
<1>5. Count(Upper(f, m), k) = Count(Upper(g, m), k)
  BY <1>4
<1>6. Upper(f, m) = [x \in DOMAIN f |-> f[x]] /\ Upper(g, m) = [x \in DOMAIN g |-> g[x]]
  OBVIOUS
<1>7. \A h : Count([x \in DOMAIN h |-> h[x]], k) = Count(h, k)
  BY DEF Count
<1> QED BY <1>5, <1>6, <1>7

\* The rows after each other have the tuples of the grid.
LEMMA GridFlat ==
  ASSUME NEW m \in Nat, NEW b \in Nat \ {0}, NEW f, DOMAIN f = 0 .. m * b - 1, NEW k
  PROVE  Count([x \in Grid(m, b) |-> f[x[1] * b + x[2]]], k) = Count(f, k)
<1> DEFINE g == [x \in Grid(m, b) |-> f[x[1] * b + x[2]]]
           P == [x \in Grid(m, b) |-> x[1] * b + x[2]]
<1>1. \A x \in Grid(m, b) : x[1] \in 0 .. m - 1 /\ x[2] \in 0 .. b - 1 /\ x = <<x[1], x[2]>>
  BY DEF Grid
<1>2. P \in [DOMAIN g -> DOMAIN f]
  BY <1>1, Positions
<1>3. IsInjective(P)
  <2>1. ASSUME NEW x \in Grid(m, b), NEW y \in Grid(m, b), x[1] * b + x[2] = y[1] * b + y[2]
        PROVE  x = y
    <3>1. x[1] = y[1] /\ x[2] = y[2]
      BY <1>1, <2>1, Positions
    <3> QED BY <1>1, <3>1
  <2> QED BY <2>1 DEF IsInjective
<1>4. ASSUME NEW y \in DOMAIN f PROVE \E x \in DOMAIN g : P[x] = y
  <2> DEFINE d == y \div b
             r == y % b
  <2>1. d \in 0 .. m - 1 /\ r \in 0 .. b - 1 /\ d * b + r = y
    <3>1. y \in 0 .. m * b - 1
      OBVIOUS
    <3> QED BY <3>1, Positions, ZenonT(30)
  <2> HIDE DEF d, r
  <2>2. <<d, r>> \in Grid(m, b)
    BY <2>1 DEF Grid
  <2> QED BY <2>1, <2>2
<1>5. IsFiniteSet(DOMAIN g)
  BY GridFacts
<1>6. \A x \in DOMAIN g : f[P[x]] = g[x]
  OBVIOUS
<1> HIDE DEF g, P
<1>7. Count(g, k) = Count(f, k)
  BY <1>2, <1>3, <1>4, <1>5, <1>6, SameCount
<1> QED BY <1>7 DEF g

-----------------------------------------------------------------------------
(***************************************************************************)
(* Merges.                                                                 *)
(***************************************************************************)
LEMMA MergeBegins ==
  ASSUME NEW done, NEW left, NEW all, DOMAIN done = {}, IsFiniteSet(DOMAIN left), SameTuples(left, all)
  PROVE  Merging(done, left, all)
<1>1. ASSUME NEW k \in Tuples PROVE Count(done, k) + Count(left, k) = Count(all, k)
  <2>1. Count(done, k) = 0 /\ Count(left, k) \in Nat
    BY CountEmpty, CountType
  <2> QED BY <2>1 DEF SameTuples
<1> QED BY <1>1 DEF Merging, InOrder

\* The least of what is left follows what is done.
LEMMA MergeStep ==
  ASSUME NEW n \in Nat, NEW done, NEW done2, NEW left, NEW left2, NEW all, NEW a,
         Merging(done, left, all),
         DOMAIN done = 0 .. n - 1, DOMAIN done2 = 0 .. n, \A i \in 0 .. n - 1 : done2[i] = done[i],
         IsFiniteSet(DOMAIN left), a \in DOMAIN left, done2[n] = left[a],
         \A x \in DOMAIN left : left[x] \in Nat /\ left[a] <= left[x],
         DOMAIN left2 = DOMAIN left \ {a}, \A x \in DOMAIN left2 : left2[x] = left[x]
  PROVE  Merging(done2, left2, all)
<1>1. InOrder(done2)
  <2>1. ASSUME NEW i \in 0 .. n, NEW j \in 0 .. n, i < j PROVE done2[i] <= done2[j]
    <3>1. i \in 0 .. n - 1
      BY <2>1
    <3>2. CASE j = n
      BY <3>1, <3>2 DEF Merging
    <3>3. CASE j # n
      <4>1. j \in 0 .. n - 1
        BY <3>3
      <4> QED BY <2>1, <3>1, <4>1 DEF Merging, InOrder
    <3> QED BY <3>2, <3>3
  <2> QED BY <2>1 DEF InOrder
<1>2. ASSUME NEW i \in DOMAIN done2, NEW x \in DOMAIN left2 PROVE done2[i] <= left2[x]
  <2>1. x \in DOMAIN left /\ left2[x] = left[x]
    OBVIOUS
  <2>2. CASE i = n
    BY <2>1, <2>2
  <2>3. CASE i # n
    <3>1. i \in 0 .. n - 1
      BY <2>3
    <3> QED BY <2>1, <3>1 DEF Merging
  <2> QED BY <2>2, <2>3
<1>3. ASSUME NEW k \in Tuples PROVE Count(done2, k) + Count(left2, k) = Count(all, k)
  <2>1. IsFiniteSet(DOMAIN done) /\ IsFiniteSet(DOMAIN left2)
    <3>1. 0 \in Int /\ n - 1 \in Int
      OBVIOUS
    <3> QED BY <3>1, FS_Interval, FS_RemoveElement
  <2>2. Count(done2, k) = IF left[a] = k THEN Count(done, k) + 1 ELSE Count(done, k)
    <3>1. DOMAIN done2 = DOMAIN done \cup {n} /\ n \notin DOMAIN done
      OBVIOUS
    <3>2. (\A x \in DOMAIN done : done2[x] = done[x]) /\ done2[n] = left[a]
      OBVIOUS
    <3>3. Count(done2, k) = IF done2[n] = k THEN Count(done, k) + 1 ELSE Count(done, k)
      BY ONLY <2>1, <3>1, <3>2, CountMore
    <3> QED BY <3>2, <3>3
  <2>3. Count(left, k) = IF left[a] = k THEN Count(left2, k) + 1 ELSE Count(left2, k)
    <3>1. DOMAIN left = DOMAIN left2 \cup {a} /\ a \notin DOMAIN left2
      OBVIOUS
    <3>2. \A x \in DOMAIN left2 : left[x] = left2[x]
      OBVIOUS
    <3> QED BY ONLY <2>1, <3>1, <3>2, CountMore
  <2>4. Count(done, k) \in Nat /\ Count(left2, k) \in Nat
    BY <2>1, CountType
  <2>5. Count(done, k) + Count(left, k) = Count(all, k)
    BY DEF Merging
  <2> QED BY <2>2, <2>3, <2>4, <2>5
<1> QED BY <1>1, <1>2, <1>3 DEF Merging

\* A merge with nothing left is done.
LEMMA MergeEnds ==
  ASSUME NEW done, NEW left, NEW all, Merging(done, left, all), DOMAIN left = {},
         IsFiniteSet(DOMAIN done)
  PROVE  InOrder(done) /\ SameTuples(done, all)
<1>1. ASSUME NEW k \in Tuples PROVE Count(done, k) = Count(all, k)
  <2>1. Count(left, k) = 0 /\ Count(done, k) \in Nat
    BY CountEmpty, CountType
  <2> QED BY <2>1 DEF Merging
<1> QED BY <1>1 DEF Merging, SameTuples

-----------------------------------------------------------------------------
(***************************************************************************)
(* The sort of a block.                                                    *)
(***************************************************************************)
LEMMA SortFacts ==
  ASSUME NEW b \in Nat, NEW seq, DOMAIN seq = 1 .. b, \A n \in 1 .. b : seq[n] \in Nat
  PROVE  /\ DOMAIN sort(seq) = 1 .. b
         /\ \A p \in 1 .. b : \E n \in 1 .. b : sort(seq)[p] = seq[n]
         /\ InOrder(sort(seq))
         /\ \A k : Count(seq, k) = Count(sort(seq), k)
<1> DEFINE S == 1 .. b
           Before(n) == {m \in S : seq[m] < seq[n] \/ (seq[m] = seq[n] /\ m <= n)}
           P == [n \in S |-> Place(seq, n)]
<1>1. \A n \in S : Place(seq, n) = Cardinality(Before(n))
  BY DEF Place
<1>2. IsFiniteSet(S) /\ Cardinality(S) = b
  BY FS_Interval
<1>3. ASSUME NEW n \in S
      PROVE  IsFiniteSet(Before(n)) /\ Cardinality(Before(n)) \in S
  <2>1. Before(n) \in SUBSET S /\ n \in Before(n)
    OBVIOUS
  <2> HIDE DEF Before, S
  <2>2. IsFiniteSet(Before(n)) /\ Cardinality(Before(n)) <= b
    BY <1>2, <2>1, FS_Subset
  <2>3. Cardinality(Before(n)) \in Nat /\ Cardinality(Before(n)) # 0
    BY <2>1, <2>2, FS_CardinalityType, FS_EmptySet
  <2> QED BY <2>2, <2>3 DEF S
<1>4. ASSUME NEW m \in S, NEW n \in S, m # n, seq[m] < seq[n] \/ (seq[m] = seq[n] /\ m <= n)
      PROVE  P[m] < P[n]
  <2>1. Before(m) \in SUBSET Before(n) /\ n \in Before(n) /\ n \notin Before(m)
    <3>1. seq[m] \in Nat /\ seq[n] \in Nat /\ m \in Nat /\ n \in Nat
      OBVIOUS
    <3>2. ASSUME NEW i \in Before(m) PROVE i \in Before(n)
      <4>1. i \in S /\ seq[i] \in Nat /\ i \in Nat
        OBVIOUS
      <4> QED BY <1>4, <3>1, <3>2, <4>1
    <3> QED BY <1>4, <3>1, <3>2
  <2>2. IsFiniteSet(Before(n)) /\ Cardinality(Before(n)) \in S /\ Cardinality(Before(m)) \in S
    BY <1>3
  <2> HIDE DEF Before
  <2>3. Cardinality(Before(m)) <= Cardinality(Before(n)) /\ Cardinality(Before(m)) # Cardinality(Before(n))
    BY <2>1, <2>2, FS_Subset
  <2>4. P[m] = Cardinality(Before(m)) /\ P[n] = Cardinality(Before(n))
    BY <1>1
  <2> QED BY <2>2, <2>3, <2>4
<1>5. ASSUME NEW m \in S, NEW n \in S, m # n PROVE P[m] < P[n] \/ P[n] < P[m]
  <2>1. seq[m] \in Nat /\ seq[n] \in Nat /\ m \in Nat /\ n \in Nat
    OBVIOUS
  <2>2. \/ seq[m] < seq[n] \/ (seq[m] = seq[n] /\ m <= n)
        \/ seq[n] < seq[m] \/ (seq[n] = seq[m] /\ n <= m)
    BY <2>1
  <2> HIDE DEF P
  <2> QED BY <1>4, <1>5, <2>2
<1>6. P \in [S -> S]
  BY <1>1, <1>3
<1>7. P \in Injection(S, S)
  <2> HIDE DEF P
  <2>1. ASSUME NEW m \in S, NEW n \in S, P[m] = P[n] PROVE m = n
    <3>1. P[m] \in Nat /\ P[n] \in Nat
      BY <1>6
    <3> QED BY <1>5, <2>1, <3>1
  <2> QED BY <1>6, <2>1 DEF Injection, IsInjective
<1>8. \A p \in S : \E n \in S : P[n] = p
  <2> HIDE DEF P, S
  <2>1. P \in Surjection(S, S)
    BY <1>2, <1>7, FS_Injection
  <2> QED BY <2>1 DEF Surjection
<1> DEFINE At1(p) == CHOOSE n \in DOMAIN seq : Place(seq, n) = p
<1>9. \A p \in S : At1(p) \in S /\ P[At1(p)] = p
  BY <1>8
<1>10. DOMAIN sort(seq) = S /\ \A p \in S : sort(seq)[p] = seq[At1(p)]
  BY DEF sort
<1> HIDE DEF At1
<1>11. InOrder(sort(seq))
  <2>1. ASSUME NEW p \in S, NEW q \in S, p < q PROVE seq[At1(p)] <= seq[At1(q)]
    <3>1. At1(p) \in S /\ At1(q) \in S /\ P[At1(p)] = p /\ P[At1(q)] = q
      BY <1>9
    <3>2. seq[At1(p)] \in Nat /\ seq[At1(q)] \in Nat
      BY <3>1
    <3>3. ~(seq[At1(q)] < seq[At1(p)])
      <4> SUFFICES ASSUME seq[At1(q)] < seq[At1(p)] PROVE FALSE
        OBVIOUS
      <4>1. At1(q) # At1(p)
        BY <3>2
      <4>2. q < p
        <5> HIDE DEF P
        <5> QED BY <1>4, <3>1, <4>1
      <4> QED BY <2>1, <4>2
    <3> QED BY <3>2, <3>3
  <2> QED BY <1>10, <2>1 DEF InOrder
<1>12. ASSUME NEW k PROVE Count(seq, k) = Count(sort(seq), k)
  <2>1. ASSUME NEW n \in S PROVE sort(seq)[P[n]] = seq[n]
    <3>1. P[n] \in S
      BY <1>6
    <3>2. At1(P[n]) \in S /\ P[At1(P[n])] = P[n]
      BY <1>9, <3>1
    <3>3. At1(P[n]) = n
      <4> HIDE DEF P
      <4> QED BY <1>7, <3>2 DEF Injection, IsInjective
    <3> QED BY <1>10, <3>1, <3>3
  <2> HIDE DEF P
  <2>2. IsInjective(P)
    BY <1>7 DEF Injection
  <2>3. DOMAIN seq = S /\ DOMAIN sort(seq) = S
    BY <1>10
  <2> HIDE DEF S
  <2>4. P \in [DOMAIN seq -> DOMAIN sort(seq)] /\ IsFiniteSet(DOMAIN seq)
    BY <1>2, <1>6, <2>3
  <2>5. \A y \in DOMAIN sort(seq) : \E x \in DOMAIN seq : P[x] = y
    BY <1>8, <2>3
  <2>6. \A x \in DOMAIN seq : sort(seq)[P[x]] = seq[x]
    BY <2>1, <2>3
  <2> QED BY ONLY <2>2, <2>4, <2>5, <2>6, SameCount
<1> QED BY <1>9, <1>10, <1>11, <1>12

-----------------------------------------------------------------------------
(***************************************************************************)
(* The choice of a run in the last merge.                                  *)
(***************************************************************************)
LEMMA LeastRunFacts ==
  ASSUME file_num \in Nat, idx \in Runs \ flag, \A f \in Runs \ flag : First(f) \in Nat
  PROVE  LeastRun \in Runs \ flag /\ \A f \in Runs \ flag : First(LeastRun) <= First(f)
<1> DEFINE D == 0 .. file_num
           U == Runs \ flag
           Choice(n, a) == IF n - 1 # a /\ n - 1 \notin flag /\ First(a) > First(n - 1) THEN n - 1 ELSE a
           Body(g) == [n \in D |-> IF n = 0 THEN idx ELSE
                         LET a == g[n - 1]
                             f == n - 1
                         IN  IF f # a /\ f \notin flag /\ First(a) > First(f) THEN f ELSE a]
           G == [p \in (1 .. file_num) \X U |-> Choice(p[1], p[2])]
           least == CHOOSE g : g = Body(g)
<1>1. ASSUME NEW n \in 1 .. file_num, NEW a \in U PROVE Choice(n, a) \in U
  <2>1. n - 1 \in Runs
    BY DEF Runs
  <2> QED BY <2>1
<1>2. \E g \in [D -> U] : Solves(g, idx, file_num, G)
  <2>1. G \in [(1 .. file_num) \X U -> U]
    <3> HIDE DEF Choice
    <3> QED BY <1>1
  <2>2. idx \in U /\ file_num \in Nat
    OBVIOUS
  <2> HIDE DEF G, U
  <2> QED BY ONLY <2>1, <2>2, Recurrence
<1>3. \E g : g = Body(g)
  <2>1. PICK g \in [D -> U] : Solves(g, idx, file_num, G)
    BY <1>2
  <2>2. ASSUME NEW n \in D PROVE g[n] = IF n = 0 THEN idx ELSE Choice(n, g[n - 1])
    <3>1. g[n] = IF n = 0 THEN idx ELSE G[<<n, g[n - 1]>>]
      BY <2>1 DEF Solves
    <3>2. CASE n = 0
      BY <3>1, <3>2
    <3>3. CASE n # 0
      <4>1. n \in 1 .. file_num /\ n - 1 \in D
        BY <3>3
      <4>2. <<n, g[n - 1]>> \in (1 .. file_num) \X U
        BY <4>1
      <4>3. G[<<n, g[n - 1]>>] = Choice(n, g[n - 1])
        <5> HIDE DEF Choice
        <5> QED BY <4>2
      <4> QED BY <3>1, <3>3, <4>3
    <3> QED BY <3>2, <3>3
  <2>3. g = Body(g)
    BY <2>2
  <2> QED BY <2>3
<1>4. least = Body(least)
  <2> HIDE DEF Body
  <2> QED BY <1>3
<1> HIDE DEF least
<1>5. \A n \in D : least[n] = IF n = 0 THEN idx ELSE Choice(n, least[n - 1])
  BY <1>4
<1> DEFINE Good(n) == least[n] \in U /\ \A f \in U : f < n => First(least[n]) <= First(f)
           A == {n \in Nat : n \in D => Good(n)}
<1>6. 0 \in A
  <2>1. 0 \in D /\ least[0] = idx
    BY <1>5
  <2>2. \A f \in U : ~(f < 0)
    BY DEF Runs
  <2> QED BY <2>1, <2>2
<1>7. ASSUME NEW n \in Nat, n \in A PROVE n + 1 \in A
  <2>1. ASSUME n + 1 \in D PROVE Good(n + 1)
    <3>1. n \in D /\ n + 1 \in 1 .. file_num /\ (n + 1) - 1 = n /\ n + 1 # 0 /\ n \in Runs
      BY <2>1 DEF Runs
    <3>2. Good(n)
      BY <1>7, <3>1
    <3>3. least[n + 1] = IF n # least[n] /\ n \notin flag /\ First(least[n]) > First(n) THEN n ELSE least[n]
      BY <1>5, <2>1, <3>1
    <3>4. First(least[n]) \in Nat /\ (n \notin flag => First(n) \in Nat)
      BY <3>1, <3>2
    <3>5. ASSUME NEW f \in U, f < n + 1 PROVE First(least[n + 1]) <= First(f)
      <4>1. First(f) \in Nat /\ f \in Nat
        BY DEF Runs
      <4>2. CASE f < n
        <5>1. First(least[n]) <= First(f)
          BY <3>2, <4>2
        <5> QED BY <3>3, <3>4, <4>1, <5>1
      <4>3. CASE f = n
        BY <3>3, <3>4, <4>1, <4>3
      <4> QED BY <3>5, <4>1, <4>2, <4>3
    <3>6. least[n + 1] \in U
      BY <3>1, <3>2, <3>3
    <3> QED BY <3>5, <3>6
  <2> HIDE DEF Good
  <2> QED BY <2>1
<1>8. file_num \in A
  <2> HIDE DEF A
  <2> QED BY <1>6, <1>7, SetInduction
<1>9. Good(file_num)
  BY <1>8
<1>10. LeastRun = least[file_num]
  BY DEF LeastRun, least
<1>11. \A f \in U : f < file_num
  BY DEF Runs
<1> QED BY <1>9, <1>10, <1>11

-----------------------------------------------------------------------------
(***************************************************************************)
(* Sizes.                                                                  *)
(***************************************************************************)
LEMMA FileFacts ==
  ASSUME file \in Files
  PROVE  /\ file_num \in Nat /\ Runs = 0 .. file_num - 1
         /\ Limit * file_num \in Nat /\ Limit * file_num = file_num * Limit
         /\ \A o \in 1 .. Limit * file_num : o \in DOMAIN file /\ file[o] \in Tuples
         /\ \A r \in Runs : r * Limit \in Nat /\ r * Limit + Limit <= Limit * file_num
         /\ Len(file) \in Nat /\ Limit * file_num <= Len(file)
<1> DEFINE L == Len(file)
           x == L * TUPLE_SIZE
           q == x \div BLOCK_SIZE
           n == q \div THREAD_NUM
<1>1. file \in Seq(Keys) /\ L \in Nat /\ DOMAIN file = 1 .. L
  BY SortAssumption
<1>2. /\ THREAD_NUM \in Nat \ {0} /\ TUPLE_SIZE \in Nat \ {0} /\ BLOCK_SIZE \in Nat \ {0}
      /\ Block \in Nat \ {0} /\ Block * TUPLE_SIZE = BLOCK_SIZE /\ Limit \in Nat \ {0}
  BY Sizes, SortAssumption
<1>3. x \in Nat
  BY <1>1, <1>2, Multiplication
<1> HIDE DEF x
<1>4. q \in Nat /\ q * BLOCK_SIZE \in Nat /\ q * BLOCK_SIZE <= x
  <2>1. q \in Nat /\ x % BLOCK_SIZE \in Nat /\ x = q * BLOCK_SIZE + (x % BLOCK_SIZE)
    BY <1>2, <1>3, Division
  <2>2. q * BLOCK_SIZE \in Nat
    BY <1>2, <2>1, Multiplication
  <2> QED BY <1>3, <2>1, <2>2
<1> HIDE DEF q
<1>5. n \in Nat /\ n * THREAD_NUM \in Nat /\ n * THREAD_NUM <= q
  <2>3. q \in Nat /\ THREAD_NUM \in Nat \ {0}
    BY <1>2, <1>4
  <2>1. n \in Nat /\ q % THREAD_NUM \in Nat /\ q = n * THREAD_NUM + (q % THREAD_NUM)
    BY ONLY <2>3, Division
  <2>2. n * THREAD_NUM \in Nat
    BY <1>2, <2>1, Multiplication
  <2> QED BY <1>4, <2>1, <2>2
<1>6. file_num = n
  BY DEF file_num, q, x
<1> HIDE DEF n
<1>7. n * Limit \in Nat /\ n * Limit = (n * THREAD_NUM) * Block
  BY <1>2, <1>5, Multiplication DEF Limit
<1>8. n * Limit <= L
  <2>1. (n * THREAD_NUM) * BLOCK_SIZE <= q * BLOCK_SIZE
    BY <1>2, <1>4, <1>5, Multiplication
  <2>2. (n * Limit) * TUPLE_SIZE = (n * THREAD_NUM) * BLOCK_SIZE
    BY <1>2, <1>5, <1>7, Multiplication
  <2>3. (n * Limit) * TUPLE_SIZE <= L * TUPLE_SIZE
    <3>1. (n * THREAD_NUM) * BLOCK_SIZE \in Nat
      BY <1>2, <1>5, Multiplication
    <3>2. (n * THREAD_NUM) * BLOCK_SIZE <= x
      BY <1>3, <1>4, <2>1, <3>1
    <3> QED BY <2>2, <3>2 DEF x
  <2> QED BY <1>1, <1>2, <1>7, <2>3, Multiplication
<1>9. Limit * n = n * Limit
  BY <1>2, <1>5, Multiplication
<1>10. ASSUME NEW o \in 1 .. Limit * n PROVE o \in DOMAIN file /\ file[o] \in Tuples
  <2>1. o \in 1 .. L
    BY <1>1, <1>7, <1>8, <1>9
  <2>2. file[o] \in Keys
    BY <1>1, <2>1
  <2> QED BY <1>1, <2>1, <2>2, TuplesAreNumbers
<1>11. ASSUME NEW r \in 0 .. n - 1 PROVE r * Limit \in Nat /\ r * Limit + Limit <= Limit * n
  <2>1. r \in Nat /\ r + 1 \in Nat /\ r + 1 <= n
    BY <1>5
  <2>2. r * Limit \in Nat /\ (r + 1) * Limit = r * Limit + Limit /\ (r + 1) * Limit <= n * Limit
    BY <1>2, <1>5, <2>1, Multiplication
  <2> QED BY <1>9, <2>2
<1> QED BY <1>1, <1>5, <1>6, <1>7, <1>8, <1>9, <1>10, <1>11 DEF Runs

\* What the comparisons of sizes in bytes say of tuples (main.cpp:218,293).
LEMMA PartFacts ==
  ASSUME file_num \in Nat \ {0}
  PROVE  /\ buffer_size \in Nat /\ Part \in Nat /\ Kept \in Nat /\ Kept <= Limit /\ Kept <= Part
         /\ \A c \in Nat : /\ c * TUPLE_SIZE < buffer_size => c <= Part
                           /\ c * TUPLE_SIZE >= buffer_size => c >= Part
                           /\ c * TUPLE_SIZE > buffer_size => c > Part
                           /\ c * TUPLE_SIZE = buffer_size => c = Part
         /\ buffer_size % TUPLE_SIZE = 0 => Part * TUPLE_SIZE = buffer_size
<1> DEFINE s == buffer_size
           T == TUPLE_SIZE
<1>1. T \in Nat \ {0} /\ REMAINED \in Nat /\ Limit \in Nat
  BY Sizes, SortAssumption
<1>2. s \in Nat
  BY <1>1, Division DEF buffer_size
<1> HIDE DEF s, T
<1>3. Part \in Nat /\ s % T \in 0 .. T - 1 /\ s = Part * T + (s % T) /\ Part * T \in Nat
  <2>1. Part = s \div T
    BY DEF Part, s, T
  <2>2. Part \in Nat /\ s % T \in 0 .. T - 1 /\ s = Part * T + (s % T)
    BY <1>1, <1>2, <2>1, Division
  <2> QED BY <1>1, <2>2, Multiplication
<1>4. ASSUME NEW c \in Nat
      PROVE  /\ c * T < s => c <= Part
             /\ c * T >= s => c >= Part
             /\ c * T > s => c > Part
             /\ c * T = s => c = Part
  <2>1. c * T \in Nat
    BY <1>1, Multiplication
  <2>2. (Part + 1) * T = Part * T + T /\ s < (Part + 1) * T
    BY <1>1, <1>3, Multiplication
  <2>3. Part + 1 <= c => (Part + 1) * T <= c * T
    BY <1>1, <1>3, Multiplication
  <2>4. c <= Part => c * T <= Part * T
    BY <1>1, <1>3, Multiplication
  <2>5. c + 1 <= Part => c * T + T <= Part * T
    <3>1. c + 1 <= Part => (c + 1) * T <= Part * T
      BY <1>1, <1>3, Multiplication
    <3>2. (c + 1) * T = c * T + T
      BY <1>1, Multiplication
    <3> QED BY <3>1, <3>2
  <2>6. c * T < s => c <= Part
    BY <1>1, <1>2, <1>3, <2>1, <2>2, <2>3
  <2>7. c * T >= s => c >= Part
    BY <1>1, <1>2, <1>3, <2>1, <2>5
  <2>8. c * T > s => c > Part
    BY <1>1, <1>2, <1>3, <2>1, <2>4
  <2>9. c * T = s => c = Part
    <3>1. c * T = s => ~(Part + 1 <= c)
      BY <1>1, <1>2, <1>3, <2>1, <2>2, <2>3
    <3>2. c * T = s => c >= Part
      BY <1>2, <2>7
    <3> QED BY <1>3, <3>1, <3>2
  <2> QED BY <2>6, <2>7, <2>8, <2>9
<1>5. Kept \in Nat /\ Kept <= Limit /\ Kept <= Part
  BY <1>1, <1>3 DEF Kept
<1>6. s % T = 0 => Part * T = s
  BY <1>1, <1>3
<1> QED BY <1>2, <1>3, <1>4, <1>5, <1>6 DEF s, T

\* A buffer is full when it has Buffer tuples (main.cpp:223).
LEMMA FullFacts ==
  ASSUME NEW n \in Nat
  PROVE  n * TUPLE_SIZE < BUFFER_SIZE <=> n < Buffer
<1>1. TUPLE_SIZE \in Nat \ {0} /\ Buffer \in Nat /\ Buffer * TUPLE_SIZE = BUFFER_SIZE
  BY Sizes
<1>2. n * TUPLE_SIZE \in Nat /\ Buffer * TUPLE_SIZE \in Nat
  BY <1>1, Multiplication
<1>3. n <= Buffer => n * TUPLE_SIZE <= Buffer * TUPLE_SIZE
  BY <1>1, Multiplication
<1>4. Buffer <= n => Buffer * TUPLE_SIZE <= n * TUPLE_SIZE
  BY <1>1, Multiplication
<1>5. n * TUPLE_SIZE = Buffer * TUPLE_SIZE => n = Buffer
  BY <1>1, <1>2, Multiplication
<1> QED BY <1>1, <1>2, <1>3, <1>4, <1>5

\* One tuple for buffer, and what file f becomes.
MayPut(t, f, g, ok) ==
  /\ t \in Tuples /\ ok \in BOOLEAN /\ Put(t) /\ g = Flushed(t, f, ok)
  /\ buffer \in Seq(Tuples) /\ Len(buffer) < Buffer /\ out_offset \in Nat
  /\ f = [o \in DOMAIN f |-> f[o]] /\ \A o \in DOMAIN f : f[o] \in Tuples

PutCounts ==
  /\ Len(buffer) \in Nat /\ Len(buffer') \in Nat /\ out_offset \in Nat /\ out_offset' \in Nat
  /\ buffer' \in Seq(Tuples) /\ Len(buffer') < Buffer /\ out_offset <= out_offset'
  /\ out_offset' + Len(buffer') = out_offset + Len(buffer) + 1
  /\ out_offset' = out_offset \/ out_offset' = out_offset + Buffer

PutFile(f, g, ok) ==
  /\ g = [o \in DOMAIN g |-> g[o]] /\ \A o \in DOMAIN g : g[o] \in Tuples
  /\ DOMAIN f \subseteq DOMAIN g /\ DOMAIN g \subseteq DOMAIN f \cup (out_offset .. out_offset' - 1)
  /\ ok => DOMAIN g = DOMAIN f \cup (out_offset .. out_offset' - 1)
  /\ \A o \in DOMAIN f : o < out_offset => g[o] = f[o]

PutTuples(t, g) ==
  \A i \in out_offset .. out_offset + Len(buffer) :
    (IF i < out_offset' THEN g[i] ELSE buffer'[i - out_offset' + 1]) =
    (IF i = out_offset + Len(buffer) THEN t ELSE buffer[i - out_offset + 1])

\* One tuple more, in buffer or with a written buffer (main.cpp:215-227,272-281).
LEMMA PutFacts ==
  ASSUME NEW t, NEW f, NEW g, NEW ok, MayPut(t, f, g, ok)
  PROVE  PutCounts /\ PutFile(f, g, ok) /\ (ok => PutTuples(t, g))
<1>0. /\ t \in Tuples /\ ok \in BOOLEAN /\ Put(t) /\ g = Flushed(t, f, ok)
      /\ buffer \in Seq(Tuples) /\ Len(buffer) < Buffer /\ out_offset \in Nat
      /\ f = [o \in DOMAIN f |-> f[o]] /\ \A o \in DOMAIN f : f[o] \in Tuples
  BY DEF MayPut
<1> SUFFICES
         /\ buffer' \in Seq(Tuples) /\ Len(buffer') < Buffer /\ out_offset' \in Nat
         /\ out_offset' + Len(buffer') = out_offset + Len(buffer) + 1
         /\ out_offset' = out_offset \/ out_offset' = out_offset + Buffer
         /\ g = [o \in DOMAIN g |-> g[o]] /\ \A o \in DOMAIN g : g[o] \in Tuples
         /\ DOMAIN f \subseteq DOMAIN g /\ DOMAIN g \subseteq DOMAIN f \cup (out_offset .. out_offset' - 1)
         /\ ok => DOMAIN g = DOMAIN f \cup (out_offset .. out_offset' - 1)
         /\ \A o \in DOMAIN f : o < out_offset => g[o] = f[o]
         /\ ok => \A i \in out_offset .. out_offset + Len(buffer) :
              (IF i < out_offset' THEN g[i] ELSE buffer'[i - out_offset' + 1]) =
              (IF i = out_offset + Len(buffer) THEN t ELSE buffer[i - out_offset + 1])
  <2>1. Len(buffer) \in Nat /\ Buffer \in Nat
    BY <1>0, Sizes
  <2>2. buffer' \in Seq(Tuples) => Len(buffer') \in Nat
    OBVIOUS
  <2>3. out_offset' = out_offset \/ out_offset' = out_offset + Buffer => out_offset <= out_offset'
    BY <1>0, <2>1
  <2> QED BY <1>0, <2>1, <2>2, <2>3 DEF PutCounts, PutFile, PutTuples
<1> DEFINE more == Append(buffer, t)
           place == out_offset .. out_offset + Len(more) - 1
<1>1. /\ more \in Seq(Tuples) /\ Len(more) = Len(buffer) + 1 /\ Len(buffer) \in Nat
      /\ \A n \in 1 .. Len(buffer) + 1 : more[n] \in Tuples /\ more[n] = IF n = Len(buffer) + 1 THEN t ELSE buffer[n]
  BY <1>0
<1>2. Buffer \in Nat \ {0}
  BY Sizes
<1>6. out_offset \in Nat /\ Len(buffer) \in Nat
  BY <1>0, <1>1
<1> HIDE DEF more
<1>3. Full(more) <=> Len(buffer) + 1 = Buffer
  <2>1. Len(more) \in Nat
    BY <1>0, <1>1
  <2>2. Len(more) * TUPLE_SIZE \in Nat /\ BUFFER_SIZE \in Nat
    BY <1>0, <2>1, Sizes, SortAssumption, Multiplication
  <2>3. Full(more) <=> ~(Len(more) < Buffer)
    BY <1>0, <2>1, <2>2, FullFacts DEF Full
  <2> QED BY <1>0, <1>1, <1>2, <2>3
<1>4. CASE Full(more)
  <2>1. buffer' = <<>> /\ out_offset' = out_offset + Buffer
    BY <1>0, <1>4 DEF Put, more
  <2>2. g = file_write(f, more, out_offset, ok)
    BY <1>0, <1>4 DEF Flushed, more
  <2>3. place = out_offset .. out_offset' - 1
    BY <1>0, <1>1, <1>3, <1>4, <2>1
  <2>4. CASE ok
    <3>1. g = [o \in DOMAIN f \cup place |-> IF o \in place THEN more[o - out_offset + 1] ELSE f[o]]
      BY <1>0, <2>2, <2>4 DEF file_write
    <3>2. \A o \in place : more[o - out_offset + 1] \in Tuples
      BY <1>0, <1>1
    <3>3. DOMAIN g = DOMAIN f \cup place /\ g = [o \in DOMAIN g |-> g[o]] /\ \A o \in DOMAIN g : g[o] \in Tuples
      BY <1>0, <3>1, <3>2
    <3>4. ASSUME NEW i \in out_offset .. out_offset + Len(buffer)
          PROVE  /\ i < out_offset' /\ i \in place /\ g[i] = more[i - out_offset + 1]
                 /\ g[i] = IF i = out_offset + Len(buffer) THEN t ELSE buffer[i - out_offset + 1]
      <4>1. i < out_offset' /\ i \in place
        BY <1>0, <1>1, <1>3, <1>4, <2>1
      <4>2. g[i] = more[i - out_offset + 1]
        BY <1>0, <3>1, <4>1
      <4>3. i - out_offset + 1 \in 1 .. Len(buffer) + 1
        BY <1>0, <1>1
      <4>4. i - out_offset + 1 = Len(buffer) + 1 <=> i = out_offset + Len(buffer)
        BY ONLY i \in out_offset .. out_offset + Len(buffer), <1>6
      <4> QED BY <1>0, <1>1, <4>1, <4>2, <4>3, <4>4
    <3>5. \A o \in DOMAIN f : o < out_offset => g[o] = f[o]
      BY <1>0, <3>1
    <3>6. Len(buffer') = 0 /\ buffer' \in Seq(Tuples)
      BY <1>0, <2>1
    <3>7. Len(buffer') < Buffer /\ out_offset' + Len(buffer') = out_offset + Len(buffer) + 1 /\ out_offset' \in Nat
      BY <1>0, <1>1, <1>2, <1>3, <1>4, <2>1, <3>6
    <3>8. \A i \in out_offset .. out_offset + Len(buffer) :
              (IF i < out_offset' THEN g[i] ELSE buffer'[i - out_offset' + 1]) =
              (IF i = out_offset + Len(buffer) THEN t ELSE buffer[i - out_offset + 1])
      BY <1>0, <3>4
    <3>9. DOMAIN g = DOMAIN f \cup (out_offset .. out_offset' - 1)
      BY <1>0, <2>3, <3>3
    <3> HIDE DEF place
    <3> QED BY <1>0, <2>1, <3>3, <3>5, <3>6, <3>7, <3>8, <3>9
  <2>5. CASE ~ok
    <3>1. g = f
      BY <1>0, <2>2, <2>5 DEF file_write
    <3>2. Len(buffer') = 0 /\ buffer' \in Seq(Tuples)
      BY <1>0, <2>1
    <3> QED BY <1>0, <1>1, <1>2, <1>3, <1>4, <2>1, <2>5, <3>1, <3>2
  <2> QED BY <1>0, <2>4, <2>5
<1>5. CASE ~Full(more)
  <2>1. buffer' = more /\ out_offset' = out_offset
    BY <1>0, <1>5 DEF Put, more
  <2>2. g = f
    BY <1>0, <1>5 DEF Flushed, more
  <2>3. out_offset .. out_offset' - 1 = {}
    BY <1>0, <2>1
  <2>4. ASSUME NEW i \in out_offset .. out_offset + Len(buffer)
        PROVE  /\ ~(i < out_offset')
               /\ buffer'[i - out_offset' + 1] = IF i = out_offset + Len(buffer) THEN t ELSE buffer[i - out_offset + 1]
    <3>1. ~(i < out_offset') /\ i - out_offset + 1 \in 1 .. Len(buffer) + 1
      BY <1>0, <1>1, <2>1
    <3>2. i - out_offset + 1 = Len(buffer) + 1 <=> i = out_offset + Len(buffer)
      BY ONLY i \in out_offset .. out_offset + Len(buffer), <1>6
    <3> QED BY <1>0, <1>1, <2>1, <3>1, <3>2
  <2>5. Len(buffer') < Buffer
    BY <1>0, <1>1, <1>2, <1>3, <1>5, <2>1
  <2>6. /\ buffer' \in Seq(Tuples) /\ out_offset' \in Nat
        /\ out_offset' + Len(buffer') = out_offset + Len(buffer) + 1
    BY <1>0, <1>1, <2>1
  <2>7. \A i \in out_offset .. out_offset + Len(buffer) :
              (IF i < out_offset' THEN g[i] ELSE buffer'[i - out_offset' + 1]) =
              (IF i = out_offset + Len(buffer) THEN t ELSE buffer[i - out_offset + 1])
    BY <1>0, <2>4
  <2>8. DOMAIN g = DOMAIN f \cup (out_offset .. out_offset' - 1)
    BY <1>0, <2>2, <2>3
  <2> QED BY <1>0, <2>1, <2>2, <2>5, <2>6, <2>7, <2>8
<1> QED BY <1>0, <1>4, <1>5

-----------------------------------------------------------------------------
(***************************************************************************)
(* The steps.                                                              *)
(***************************************************************************)
LEMMA SameFile ==
  ASSUME file' = file
  PROVE  /\ file_num' = file_num /\ Runs' = Runs /\ buffer_size' = buffer_size
         /\ Part' = Part /\ Kept' = Kept /\ Input' = Input /\ (Fitting' <=> Fitting)
         /\ \A r : InputRun(r)' = InputRun(r)
         /\ (Documented' <=> Documented)
<1>1. file_num' = file_num
  BY DEF file_num
<1>2. Runs' = Runs /\ buffer_size' = buffer_size
  BY <1>1 DEF Runs, buffer_size
<1>3. Part' = Part
  BY <1>2 DEF Part
<1>4. Kept' = Kept /\ (Fitting' <=> Fitting)
  BY <1>2, <1>3 DEF Kept, Fitting
<1>5. Input' = Input
  BY <1>1 DEF Input
<1>6. \A r : InputRun(r)' = InputRun(r)
  BY DEF InputRun
<1>7. Documented' <=> Documented
  BY <1>1, <1>2 DEF Documented
<1> QED BY <1>1, <1>2, <1>3, <1>4, <1>5, <1>6, <1>7

\* Outside the merges and the end most of the invariant says nothing.
LEMMA Elsewhere ==
  ASSUME main' \notin {"merge", "last", "piece", "end", "overflow"}
  PROVE  MergeBounds' /\ MergeRight' /\ LastBounds' /\ LastRight' /\ AtEnd' /\ (main = "overflow" => ~Documented)'
BY DEF MergeBounds, MergeRight, LastBounds, LastRight, AtEnd

\* A step without an error.
LEMMA ErrorSteps ==
  ASSUME errors \in 0 .. MaxErrors, Succeeds \/ Fails
  PROVE  errors' \in 0 .. MaxErrors /\ (errors' = 0 => errors = 0 /\ Succeeds)
BY SortAssumption DEF Succeeds, Fails

\* open goes on or fails.
LEMMA OpenFacts ==
  ASSUME NEW l, Open(l), errors \in 0 .. MaxErrors
  PROVE  /\ errors' \in 0 .. MaxErrors /\ (errors' = 0 => errors = 0)
         /\ main' = l \/ main' = "failed"
BY SortAssumption DEF Open, Succeeds, Fails

\* The initial states.
LEMMA InitInv == Init => IInv
<1> SUFFICES ASSUME Init PROVE IInv
  OBVIOUS
<1> USE DEF Init
<1>1. file \in Files
  OBVIOUS
<1>2. Limit \in Nat \ {0} /\ THREAD_NUM \in Nat \ {0} /\ Block \in Nat /\ BUFFER_SIZE \in Nat \ {0} /\ TUPLE_SIZE \in Nat
  BY Sizes, SortAssumption
<1>3. NoFile = [o \in DOMAIN NoFile |-> NoFile[o]] /\ DOMAIN NoFile = {}
  BY DEF NoFile
<1>4. TypeOK
  <2>1. data \in [0 .. Limit - 1 -> Tuples]
    BY TuplesAreNumbers
  <2>2. \A j \in Threads : partial_offset[j] \in 0 .. Block * (j + 1)
    <3>1. ASSUME NEW j \in Threads PROVE Block * (j + 1) \in Nat
      <4>1. j + 1 \in Nat
        BY <1>2 DEF Threads
      <4> QED BY <1>2, <4>1, Multiplication
    <3> QED BY <3>1
  <2>3. run \in 0 .. file_num
    BY FileFacts
  <2>4. Len(buffer) * TUPLE_SIZE < BUFFER_SIZE
    <3>1. Len(buffer) = 0
      OBVIOUS
    <3> QED BY <1>2, <3>1
  <2>5. \A o \in DOMAIN output : o \in 0 .. Limit * file_num - 1 /\ output[o] \in Tuples
    BY <1>3
  <2>6. ToSet(heap) \subseteq Threads /\ ToSet(buffer) \subseteq Tuples
    <3>1. heap = <<>> /\ buffer = <<>>
      OBVIOUS
    <3>2. DOMAIN heap = {} /\ DOMAIN buffer = {}
      BY ONLY <3>1
    <3> QED BY <3>2 DEF ToSet
  <2>7. worker \in [Threads -> {"idle", "running", "done"}] /\ fflag \in BOOLEAN /\ flag \subseteq Threads \cup Runs
    OBVIOUS
  <2> QED BY <1>1, SortAssumption, <2>1, <2>2, <2>3, <2>4, <2>5, <2>6, <2>7 DEF TypeOK
<1>5. Shape
  <2>1. IsFile(output, Limit * file_num)
    BY <1>3 DEF IsFile
  <2>2. partial_offset \in [Threads -> Nat]
    OBVIOUS
  <2> QED BY <2>1, <2>2 DEF Shape
<1> QED BY <1>4, <1>5 DEF IInv, Workers, RunsStored, MergeBounds, MergeRight, LastBounds, LastRight, AtEnd

\* A run that is stored stays so.
LEMMA StoredRunStays ==
  ASSUME file' = file, NEW r, temp_buf'[r] = temp_buf[r], temp_file'[r] = temp_file[r],
         errors' = 0 => errors = 0, StoredRun(r)
  PROVE  StoredRun(r)'
<1>1. Stored(r)' = Stored(r) /\ (Whole(r)' <=> Whole(r)) /\ Kept' = Kept /\ InputRun(r)' = InputRun(r)
  BY SameFile DEF Stored, Whole
<1> QED BY <1>1 DEF StoredRun, NoHoles, SameTuples, Count

\* Start (main.cpp:138-169).
LEMMA StartStep == IInv /\ Start => IInv'
<1> SUFFICES ASSUME IInv, Start PROVE IInv'
  OBVIOUS
<1> USE DEF Start
<1>1. TypeOK /\ Shape /\ Workers
  BY DEF IInv
<1>2. errors' \in 0 .. MaxErrors /\ ((main' = "trap" /\ file_num = 0) \/ (main' = "spawn" /\ file_num # 0) \/ main' = "failed")
  <2>1. errors \in 0 .. MaxErrors
    BY <1>1 DEF TypeOK
  <2>2. CASE file_num = 0
    <3>1. Open("trap")
      BY <2>2
    <3>2. errors' \in 0 .. MaxErrors /\ (main' = "trap" \/ main' = "failed")
      BY ONLY <2>1, <3>1, OpenFacts
    <3> QED BY ONLY <2>2, <3>2
  <2>3. CASE file_num # 0
    <3>1. Open("spawn")
      BY <2>3
    <3> QED BY ONLY <2>1, <2>3, <3>1, OpenFacts
  <2> QED BY <2>2, <2>3
<1>3. file' = file /\ file_num' = file_num /\ Runs' = Runs
  BY SameFile
<1>4. NoFile = [o \in DOMAIN NoFile |-> NoFile[o]] /\ DOMAIN NoFile = {}
  BY DEF NoFile
<1>5. TypeOK'
  BY <1>1, <1>2, <1>3 DEF TypeOK, runVars, bufVars, lastVars
<1>6. Shape'
  <2>1. \A r \in Runs : IsFile(temp_file'[r], Limit) /\ temp_buf'[r] \in Seq(Tuples)
    BY <1>4 DEF IsFile
  <2>2. IsFile(output, Limit * file_num)' /\ output' = NoFile
    BY <1>1, <1>3 DEF Shape, IsFile
  <2> QED BY <1>1, <1>2, <1>3, <2>1, <2>2 DEF Shape, runVars, bufVars
<1>7. Workers'
  BY <1>1, <1>2 DEF Workers, runVars
<1>8. RunsStored'
  BY <1>1, <1>2, <1>3, FileFacts DEF RunsStored, Shape, TypeOK, Blank
<1> QED BY <1>2, <1>5, <1>6, <1>7, <1>8, Elsewhere DEF IInv

\* Spawn (main.cpp:173-182).
LEMMA SpawnStep == IInv /\ Spawn => IInv'
<1> SUFFICES ASSUME IInv, Spawn PROVE IInv'
  OBVIOUS
<1> USE DEF Spawn
<1>1. TypeOK /\ Shape /\ Workers /\ RunsStored
  BY DEF IInv
<1>2. THREAD_NUM \in Nat /\ Block \in Nat
  BY Sizes
<1>3. file' = file /\ file_num' = file_num /\ Runs' = Runs /\ (Fitting' <=> Fitting)
  BY SameFile
<1>4. \A j \in Threads : partial_offset'[j] = j * Block /\ j * Block \in Nat /\ j * Block <= Block * (j + 1)
  <2>1. ASSUME NEW j \in Threads PROVE j * Block \in Nat /\ j * Block <= Block * (j + 1) /\ Block * (j + 1) \in Nat
    <3>1. j \in Nat /\ j + 1 \in Nat /\ j <= j + 1
      BY <1>2 DEF Threads
    <3>2. j * Block \in Nat /\ j * Block <= (j + 1) * Block /\ (j + 1) * Block = Block * (j + 1) /\ Block * (j + 1) \in Nat
      BY <1>2, <3>1, Multiplication
    <3> QED BY <3>2
  <2> QED BY <2>1
<1>5. \A j \in Threads : partial_offset'[j] \in 0 .. Block * (j + 1)
  <2>1. ASSUME NEW j \in Threads PROVE Block * (j + 1) \in Nat
    <3>1. j + 1 \in Nat
      BY <1>2 DEF Threads
    <3> QED BY <1>2, <3>1, Multiplication
  <2> QED BY <1>4, <2>1
<1>6. TypeOK'
  BY <1>1, <1>3, <1>5 DEF TypeOK, keptVars, bufVars, fileVars, lastVars
<1>7. Shape'
  BY <1>1, <1>3, <1>4 DEF Shape, IsFile, keptVars, bufVars, fileVars
<1>8. Workers'
  BY <1>4 DEF Workers
<1>9. RunsStored'
  <2>1. \A r : StoredRun(r) => StoredRun(r)'
    BY StoredRunStays DEF keptVars, fileVars
  <2>2. \A r : Blank(r) => Blank(r)'
    BY DEF Blank, keptVars, fileVars
  <2> QED BY <1>1, <1>3, <2>1, <2>2 DEF RunsStored
<1> QED BY <1>6, <1>7, <1>8, <1>9, Elsewhere DEF IInv

\* What is counted from 1 and from 0 is the same.
LEMMA Shift ==
  ASSUME NEW b \in Nat, NEW seq, DOMAIN seq = 1 .. b, NEW k
  PROVE  Count([n \in 0 .. b - 1 |-> seq[n + 1]], k) = Count(seq, k)
<1> DEFINE f == [n \in 0 .. b - 1 |-> seq[n + 1]]
           P == [n \in 0 .. b - 1 |-> n + 1]
<1>1. IsFiniteSet(DOMAIN f)
  <2>1. 0 \in Int /\ b - 1 \in Int /\ DOMAIN f = 0 .. b - 1
    OBVIOUS
  <2> HIDE DEF f
  <2> QED BY <2>1, FS_Interval
<1>2. P \in [DOMAIN f -> DOMAIN seq]
  OBVIOUS
<1>3. IsInjective(P)
  BY DEF IsInjective
<1>4. ASSUME NEW y \in DOMAIN seq PROVE \E x \in DOMAIN f : P[x] = y
  <2>1. y - 1 \in 0 .. b - 1 /\ (y - 1) + 1 = y
    OBVIOUS
  <2> QED BY <2>1
<1>5. \A x \in DOMAIN f : seq[P[x]] = f[x]
  OBVIOUS
<1> HIDE DEF f, P
<1>6. Count(f, k) = Count(seq, k)
  BY ONLY <1>1, <1>2, <1>3, <1>4, <1>5, SameCount
<1> QED BY <1>6 DEF f

FromZero(block) == [n \in 0 .. Block - 1 |-> block[n + 1]]

\* A sorted block replaces the old one and leaves the others alone.
LEMMA SortedFacts ==
  ASSUME NEW j \in Threads, NEW block, DOMAIN block = 1 .. Block, \A n \in 1 .. Block : block[n] \in Tuples,
         data \in [0 .. Limit - 1 -> Tuples], NEW d, d = Sorted(j, block)
  PROVE  /\ d \in [0 .. Limit - 1 -> Tuples]
         /\ \A i \in Threads \ {j} : BlockOf(d, i) = BlockOf(data, i)
         /\ InOrder(BlockOf(d, j))
         /\ SameTuples(BlockOf(d, j), FromZero(block))
<1> DEFINE s == sort(block)
<1>1. Block \in Nat \ {0} /\ THREAD_NUM \in Nat /\ Limit = THREAD_NUM * Block /\ Threads = 0 .. THREAD_NUM - 1
  BY Sizes DEF Limit, Threads
<1>2. /\ DOMAIN s = 1 .. Block
      /\ \A p \in 1 .. Block : \E n \in 1 .. Block : s[p] = block[n]
      /\ InOrder(s)
      /\ \A k : Count(block, k) = Count(s, k)
  <2>1. Block \in Nat /\ \A n \in 1 .. Block : block[n] \in Nat
    BY <1>1, TuplesAreNumbers
  <2> QED BY ONLY <2>1, DOMAIN block = 1 .. Block, SortFacts
<1>3. d = [o \in 0 .. Limit - 1 |-> IF o \div Block = j THEN s[(o % Block) + 1] ELSE data[o]]
  <2>1. DOMAIN data = 0 .. Limit - 1
    OBVIOUS
  <2> QED BY <2>1 DEF Sorted
<1> HIDE DEF s
<1>4. ASSUME NEW i \in Threads, NEW n \in 0 .. Block - 1
      PROVE  /\ i * Block + n \in 0 .. Limit - 1
             /\ d[i * Block + n] = IF i = j THEN s[n + 1] ELSE data[i * Block + n]
  <2>1. /\ i * Block + n \in 0 .. Limit - 1
        /\ (i * Block + n) \div Block = i /\ (i * Block + n) % Block = n
    <3>1. i \in 0 .. THREAD_NUM - 1 /\ n \in 0 .. Block - 1
      BY <1>1
    <3>2. THREAD_NUM \in Nat /\ Block \in Nat \ {0} /\ Limit = THREAD_NUM * Block
      BY <1>1
    <3> HIDE DEF Block, Limit
    <3>3. \A i0 \in 0 .. THREAD_NUM - 1, n0 \in 0 .. Block - 1 :
            /\ i0 * Block + n0 \in 0 .. THREAD_NUM * Block - 1
            /\ (i0 * Block + n0) \div Block = i0 /\ (i0 * Block + n0) % Block = n0
      BY ONLY <3>2, Positions
    <3> QED BY ONLY <3>1, <3>2, <3>3
  <2> QED BY <1>3, <2>1
<1>5. ASSUME NEW o \in 0 .. Limit - 1 PROVE d[o] \in Tuples
  <2>1. o % Block \in 0 .. Block - 1
    BY <1>1, Positions
  <2>2. (o % Block) + 1 \in 1 .. Block
    BY <1>1, <2>1
  <2>3. s[(o % Block) + 1] \in Tuples
    BY <1>2, <2>2
  <2> QED BY <1>3, <2>3
<1>6. \A i \in Threads \ {j} : BlockOf(d, i) = BlockOf(data, i)
  BY <1>4 DEF BlockOf
<1>7. BlockOf(d, j) = [n \in 0 .. Block - 1 |-> s[n + 1]]
  BY <1>4 DEF BlockOf
<1>8. InOrder(BlockOf(d, j))
  <2>1. ASSUME NEW a \in 0 .. Block - 1, NEW b \in 0 .. Block - 1, a < b PROVE s[a + 1] <= s[b + 1]
    <3>1. a + 1 \in DOMAIN s /\ b + 1 \in DOMAIN s /\ a + 1 < b + 1
      BY <1>1, <1>2, <2>1
    <3> QED BY <1>2, <3>1 DEF InOrder
  <2> QED BY <1>7, <2>1 DEF InOrder
<1>9. ASSUME NEW k PROVE Count(BlockOf(d, j), k) = Count(FromZero(block), k)
  <2>1. Block \in Nat
    BY <1>1
  <2>2. Count([n \in 0 .. Block - 1 |-> s[n + 1]], k) = Count(s, k)
    BY ONLY <1>2, <2>1, Shift, ZenonT(30)
  <2>3. Count(FromZero(block), k) = Count(block, k)
    BY ONLY DOMAIN block = 1 .. Block, <2>1, Shift DEF FromZero
  <2> QED BY <1>2, <1>7, <2>2, <2>3
<1>10. d \in [0 .. Limit - 1 -> Tuples]
  BY <1>3, <1>5
<1> QED BY <1>6, <1>8, <1>9, <1>10 DEF SameTuples

\* Worker (main.cpp:123-129).
LEMMA WorkerStep == ASSUME NEW j \in Threads PROVE IInv /\ Worker(j) => IInv'
<1> SUFFICES ASSUME IInv, Worker(j) PROVE IInv'
  OBVIOUS
<1>1. TypeOK /\ Shape /\ Workers /\ RunsStored /\ main = "join"
  BY DEF IInv, Workers, Worker
<1> DEFINE start == (THREAD_NUM * run + j) * Block
           file_block == SubSeq(file, start + 1, start + Block)
           old_block == Piece(data, j * Block, Block)
<1>2. /\ worker' = [worker EXCEPT ![j] = "done"]
      /\ UNCHANGED <<file, main, run, partial_offset, heap, flag, keptVars, bufVars, fileVars, lastVars>>
      /\ \/ Succeeds /\ data' = Sorted(j, file_block)
         \/ Fails /\ data' = Sorted(j, old_block)
  BY DEF Worker
<1>3. /\ file' = file /\ main' = main /\ run' = run /\ file_num' = file_num /\ Runs' = Runs /\ (Fitting' <=> Fitting)
      /\ InputRun(run)' = InputRun(run)
  BY <1>2, SameFile
<1>4. run \in Runs /\ file_num \in Nat /\ file \in Files
  BY <1>1, FileFacts DEF RunsStored, TypeOK, Runs
<1>5. Block \in Nat \ {0} /\ THREAD_NUM \in Nat /\ Limit = THREAD_NUM * Block /\ Limit \in Nat
      /\ j \in Nat /\ run \in Nat /\ j * Block \in Nat
  <2>1. j \in Nat /\ run \in Nat /\ Block \in Nat /\ THREAD_NUM \in Nat
    BY <1>1, <1>4, Sizes DEF Threads, TypeOK, Runs
  <2> QED BY <2>1, Sizes, Multiplication DEF Limit
<1>6. start = run * Limit + j * Block /\ run * Limit \in Nat
  <2>1. THREAD_NUM * run = run * THREAD_NUM /\ run * THREAD_NUM \in Nat
    BY <1>5, Multiplication
  <2>2. (run * THREAD_NUM + j) * Block = (run * THREAD_NUM) * Block + j * Block
    BY <1>5, <2>1, Multiplication
  <2>3. (run * THREAD_NUM) * Block = run * Limit
    BY <1>5, Multiplication
  <2>4. run * Limit \in Nat
    BY <1>5, Multiplication
  <2> QED BY <2>1, <2>2, <2>3, <2>4
<1> HIDE DEF start
<1>7. ASSUME NEW n \in 0 .. Block - 1 PROVE j * Block + n \in 0 .. Limit - 1
  BY <1>5, Positions DEF Threads
<1>8. /\ DOMAIN file_block = 1 .. Block
      /\ \A n \in 1 .. Block : file_block[n] \in Tuples
      /\ [n \in 0 .. Block - 1 |-> file_block[n + 1]] = BlockOf(InputRun(run), j)
  <2>1. file_block = [n \in 1 .. Block |-> file[start + n]]
    <3>1. start \in Nat
      BY <1>5, <1>6
    <3>2. file \in Seq(Keys) /\ Len(file) \in Nat /\ start + Block <= Len(file)
      <4>1. run * Limit + Limit <= Limit * file_num /\ Limit * file_num \in Nat /\ Limit * file_num <= Len(file) /\ Len(file) \in Nat
        BY <1>4, FileFacts
      <4>2. j * Block + (Block - 1) \in 0 .. Limit - 1
        <5>1. Block - 1 \in 0 .. Block - 1
          BY <1>5
        <5> QED BY <1>7, <5>1
      <4>3. file \in Seq(Keys)
        BY <1>4, SortAssumption
      <4> QED BY <1>5, <1>6, <4>1, <4>2, <4>3
    <3> HIDE DEF file_block
    <3>3. file_block = SubSeq(file, start + 1, start + Block)
      BY DEF file_block
    <3>4. /\ file_block \in Seq(Keys) /\ Len(file_block) = Block
          /\ \A n \in 1 .. Block : file_block[n] = file[start + 1 + n - 1]
      BY ONLY <1>5, <3>1, <3>2, <3>3, SMTT(30)
    <3>5. \A n \in 1 .. Block : file_block[n] = file[start + n]
      BY ONLY <1>5, <3>1, <3>4
    <3> QED BY ONLY <1>5, <3>4, <3>5
  <2> HIDE DEF file_block
  <2>2. ASSUME NEW n \in 0 .. Block - 1
        PROVE  /\ file[start + (n + 1)] = InputRun(run)[j * Block + n]
               /\ file[start + (n + 1)] \in Tuples
    <3>1. j * Block + n \in 0 .. Limit - 1 /\ start + (n + 1) = run * Limit + (j * Block + n) + 1
      BY <1>5, <1>6, <1>7
    <3>2. InputRun(run)[j * Block + n] = file[run * Limit + (j * Block + n) + 1]
      BY <3>1 DEF InputRun
    <3>3. run * Limit + Limit <= Limit * file_num /\ Limit * file_num \in Nat
      BY <1>4, FileFacts
    <3>4. start + (n + 1) \in 1 .. Limit * file_num
      BY <1>5, <1>6, <3>1, <3>3
    <3>5. file[start + (n + 1)] \in Tuples
      BY <1>4, <3>4, FileFacts
    <3> QED BY <3>1, <3>2, <3>5
  <2>3. ASSUME NEW n \in 1 .. Block PROVE file_block[n] \in Tuples
    <3>1. n - 1 \in 0 .. Block - 1 /\ (n - 1) + 1 = n
      BY <1>5
    <3> QED BY <2>1, <2>2, <3>1
  <2>4. \A n \in 0 .. Block - 1 : file_block[n + 1] = file[start + (n + 1)]
    BY <1>5, <2>1
  <2> QED BY <2>1, <2>2, <2>3, <2>4 DEF BlockOf
<1>9. DOMAIN old_block = 1 .. Block /\ \A n \in 1 .. Block : old_block[n] \in Tuples
  <2>1. ASSUME NEW n \in 1 .. Block
        PROVE  j * Block + n - 1 \in DOMAIN data /\ data[j * Block + n - 1] \in Tuples
    <3>1. n - 1 \in 0 .. Block - 1 /\ j * Block + n - 1 = j * Block + (n - 1)
      BY <1>5
    <3>2. j * Block + n - 1 \in 0 .. Limit - 1
      BY <1>7, <3>1
    <3> QED BY <1>1, <3>2 DEF TypeOK
  <2> QED BY <2>1 DEF Piece
<1>10. data \in [0 .. Limit - 1 -> Tuples] /\ errors \in 0 .. MaxErrors
  BY <1>1 DEF TypeOK
<1>11. /\ data' \in [0 .. Limit - 1 -> Tuples]
       /\ \A i \in Threads \ {j} : BlockOf(data', i) = BlockOf(data, i)
       /\ InOrder(BlockOf(data', j))
       /\ Succeeds => SameTuples(BlockOf(data', j), BlockOf(InputRun(run), j))
       /\ errors' \in 0 .. MaxErrors /\ (errors' = 0 => errors = 0 /\ Succeeds)
  <2> HIDE DEF file_block, old_block
  <2>0. errors' \in 0 .. MaxErrors /\ (errors' = 0 => errors = 0 /\ Succeeds)
    BY <1>2, <1>10, ErrorSteps
  <2>1. CASE Succeeds /\ data' = Sorted(j, file_block)
    <3>1. /\ data' \in [0 .. Limit - 1 -> Tuples]
          /\ \A i \in Threads \ {j} : BlockOf(data', i) = BlockOf(data, i)
          /\ InOrder(BlockOf(data', j))
          /\ SameTuples(BlockOf(data', j), FromZero(file_block))
      <4>1. DOMAIN file_block = 1 .. Block /\ \A n \in 1 .. Block : file_block[n] \in Tuples
        BY <1>8
      <4>2. data \in [0 .. Limit - 1 -> Tuples] /\ data' = Sorted(j, file_block)
        BY <1>10, <2>1
      <4> QED BY ONLY j \in Threads, <4>1, <4>2, SortedFacts
    <3>2. SameTuples(BlockOf(data', j), BlockOf(InputRun(run), j))
      BY <1>8, <3>1 DEF SameTuples, FromZero
    <3> QED BY <2>0, <3>1, <3>2
  <2>2. CASE Fails /\ data' = Sorted(j, old_block)
    <3>1. /\ data' \in [0 .. Limit - 1 -> Tuples]
          /\ \A i \in Threads \ {j} : BlockOf(data', i) = BlockOf(data, i)
          /\ InOrder(BlockOf(data', j))
      BY ONLY j \in Threads, <1>9, <1>10, <2>2, SortedFacts
    <3>2. ~Succeeds
      BY <1>10, <2>2 DEF Fails, Succeeds
    <3> QED BY <2>0, <3>1, <3>2
  <2> QED BY <1>2, <2>1, <2>2
<1>12. TypeOK'
  BY <1>1, <1>2, <1>3, <1>11 DEF TypeOK, keptVars, bufVars, fileVars, lastVars
<1>13. Shape'
  BY <1>1, <1>2, <1>3, <1>11 DEF Shape, IsFile, keptVars, bufVars, fileVars
<1>14. Workers'
  <2>1. \A i \in Threads : partial_offset'[i] = i * Block
    BY <1>1, <1>2 DEF Workers
  <2>2. worker \in [Threads -> {"idle", "running", "done"}]
    BY <1>1 DEF TypeOK
  <2>3. ASSUME NEW i \in Threads, worker'[i] = "done"
        PROVE  /\ InOrder(BlockOf(data', i))
               /\ errors' = 0 => SameTuples(BlockOf(data', i), BlockOf(InputRun(run), i))
    <3>1. CASE i = j
      BY <1>11, <3>1
    <3>2. CASE i # j
      <4>1. worker[i] = "done" /\ BlockOf(data', i) = BlockOf(data, i)
        BY <1>2, <1>11, <2>2, <2>3, <3>2
      <4> QED BY <1>1, <1>11, <4>1 DEF Workers
    <3> QED BY <3>1, <3>2
  <2>4. \A i \in Threads : BlockOf(data, i)' = BlockOf(data', i) /\ BlockOf(InputRun(run), i)' = BlockOf(InputRun(run), i)
    BY <1>3 DEF BlockOf
  <2>5. main' = "join"
    BY <1>1, <1>3
  <2>6. ASSUME NEW i \in Threads, worker'[i] = "done"
        PROVE  InOrder(BlockOf(data, i))' /\ (errors' = 0 => SameTuples(BlockOf(data, i), BlockOf(InputRun(run), i))')
    BY <2>3, <2>4, <2>6 DEF InOrder, SameTuples, Count
  <2> QED BY <2>1, <2>5, <2>6 DEF Workers
<1>15. RunsStored'
  <2>1. \A r : StoredRun(r) => StoredRun(r)'
    BY <1>2, <1>11, StoredRunStays DEF keptVars, fileVars
  <2>2. \A r : Blank(r) => Blank(r)'
    BY <1>2 DEF Blank, keptVars, fileVars
  <2> QED BY <1>1, <1>2, <1>3, <2>1, <2>2 DEF RunsStored
<1> QED BY <1>1, <1>2, <1>12, <1>13, <1>14, <1>15, Elsewhere DEF IInv

\* All blocks together have the tuples of the run.
LEMMA BlocksOfRun ==
  ASSUME NEW r, NEW j \in Tuples,
         \A i \in Threads : SameTuples(BlockOf(data, i), BlockOf(InputRun(r), i))
  PROVE  Count([x \in Grid(THREAD_NUM, Block) |-> Tuple(x)], j) = Count(InputRun(r), j)
<1> DEFINE f == [x \in Grid(THREAD_NUM, Block) |-> Tuple(x)]
           g == [x \in Grid(THREAD_NUM, Block) |-> InputRun(r)[x[1] * Block + x[2]]]
<1>1. THREAD_NUM \in Nat /\ Block \in Nat \ {0} /\ Threads = 0 .. THREAD_NUM - 1 /\ Limit = THREAD_NUM * Block
  BY Sizes DEF Threads, Limit
<1>2. ASSUME NEW i \in 0 .. THREAD_NUM - 1
      PROVE  Row(f, i, Block) = BlockOf(data, i) /\ Row(g, i, Block) = BlockOf(InputRun(r), i)
  <2>1. \A n \in 0 .. Block - 1 : /\ <<i, n>> \in Grid(THREAD_NUM, Block)
                                  /\ f[<<i, n>>] = data[i * Block + n]
                                  /\ g[<<i, n>>] = InputRun(r)[i * Block + n]
    BY DEF Grid, Tuple
  <2> HIDE DEF f, g
  <2> QED BY <2>1 DEF Row, BlockOf
<1>3. DOMAIN f = Grid(THREAD_NUM, Block) /\ DOMAIN g = Grid(THREAD_NUM, Block)
  OBVIOUS
<1>4. \A i \in 0 .. THREAD_NUM - 1 : Count(Row(f, i, Block), j) = Count(Row(g, i, Block), j)
  BY <1>1, <1>2 DEF SameTuples
<1>5. DOMAIN InputRun(r) = 0 .. THREAD_NUM * Block - 1
  BY <1>1 DEF InputRun
<1>6. Count(g, j) = Count(InputRun(r), j)
  BY ONLY <1>1, <1>5, GridFlat
<1> HIDE DEF f, g
<1>7. Count(f, j) = Count(g, j)
  BY ONLY <1>1, <1>3, <1>4, GridRows
<1> QED BY <1>6, <1>7 DEF f

\* Join (main.cpp:183-211).
LEMMA JoinStep == IInv /\ Join => IInv'
<1> SUFFICES ASSUME IInv, Join PROVE IInv'
  OBVIOUS
<1>1. TypeOK /\ Shape /\ Workers /\ RunsStored /\ main = "join"
  BY DEF IInv, Join
<1>2. /\ \A j \in Threads : worker[j] = "done"
      /\ Open("merge") /\ heap' = Filled(partial_offset) /\ flag' = {} /\ buffer' = <<>> /\ out_offset' = 0
      /\ fflag' = (file_num <= 1)
      /\ UNCHANGED <<file, run, worker, data, partial_offset, temp_buf, fileVars, lastVars>>
  BY DEF Join
<1>3. /\ file' = file /\ run' = run /\ file_num' = file_num /\ Runs' = Runs /\ (Fitting' <=> Fitting)
      /\ InputRun(run)' = InputRun(run)
  BY <1>2, SameFile
<1>4. errors' \in 0 .. MaxErrors /\ (errors' = 0 => errors = 0) /\ (main' = "merge" \/ main' = "failed")
  <2>1. errors \in 0 .. MaxErrors /\ Open("merge")
    BY <1>1, <1>2 DEF TypeOK
  <2> QED BY ONLY <2>1, OpenFacts
<1>5. run \in Runs /\ file_num \in Nat /\ file \in Files /\ Limit * file_num \in Nat /\ run \in Nat
  BY <1>1, FileFacts DEF RunsStored, TypeOK, Runs
<1>6. /\ Block \in Nat \ {0} /\ THREAD_NUM \in Nat /\ Limit = THREAD_NUM * Block /\ Limit \in Nat
      /\ Threads = 0 .. THREAD_NUM - 1 /\ BUFFER_SIZE \in Nat \ {0} /\ TUPLE_SIZE \in Nat /\ Buffer \in Nat
  BY Sizes, SortAssumption DEF Limit, Threads
<1>7. ASSUME NEW j \in Threads
      PROVE  /\ partial_offset[j] = j * Block /\ j * Block \in 0 .. Limit - 1 /\ (j + 1) * Block = j * Block + Block
             /\ InOrder(BlockOf(data, j))
             /\ errors = 0 => SameTuples(BlockOf(data, j), BlockOf(InputRun(run), j))
             /\ data[partial_offset[j]] \in Nat
  <2>1. /\ partial_offset[j] = j * Block /\ InOrder(BlockOf(data, j))
        /\ errors = 0 => SameTuples(BlockOf(data, j), BlockOf(InputRun(run), j))
    BY <1>1, <1>2 DEF Workers
  <2>2. j * Block \in 0 .. Limit - 1 /\ (j + 1) * Block = j * Block + Block
    <3>1. 0 \in 0 .. Block - 1 /\ j \in Nat /\ j * Block \in Nat
      BY <1>6, Multiplication
    <3>2. j * Block + 0 \in 0 .. Limit - 1
      BY <1>6, <3>1, Positions
    <3>3. (j + 1) * Block = j * Block + Block
      BY <1>6, <3>1, Multiplication
    <3> QED BY <3>1, <3>2, <3>3
  <2>3. data[j * Block] \in Nat
    BY <1>1, <2>2, TuplesAreNumbers DEF TypeOK
  <2> QED BY <2>1, <2>2, <2>3
<1>8. IsHeap(heap', partial_offset) /\ ToSet(heap') = Threads
  <2>1. (\A j \in Threads : data[partial_offset[j]] \in Nat) /\ heap' = Filled(partial_offset)
    BY <1>2, <1>7
  <2> QED BY ONLY <2>1, FilledFacts
<1>9. Blank(run) /\ output = NoFile /\ DOMAIN output = {}
  <2>1. run \in Runs /\ run >= run
    BY <1>5 DEF Runs
  <2>2. Blank(run)
    BY <1>1, <2>1 DEF RunsStored
  <2>3. output = NoFile
    BY <1>1 DEF Shape
  <2>4. DOMAIN NoFile = {}
    BY DEF NoFile
  <2> QED BY <2>2, <2>3, <2>4
<1>10. TypeOK'
  <2>1. Len(buffer') * TUPLE_SIZE < BUFFER_SIZE /\ ToSet(buffer') = {}
    <3>1. Len(buffer') = 0 /\ DOMAIN buffer' = {}
      BY <1>2
    <3> QED BY <1>6, <3>1 DEF ToSet
  <2>2. fflag' \in BOOLEAN
    BY <1>2
  <2>3. \A o \in DOMAIN output : o \in 0 .. Limit * file_num - 1 /\ output[o] \in Tuples
    BY <1>9
  <2> QED BY <1>1, <1>2, <1>3, <1>4, <1>8, <2>1, <2>2, <2>3 DEF TypeOK, fileVars, lastVars
<1>11. Shape'
  BY <1>1, <1>2, <1>3, <1>4 DEF Shape, IsFile, fileVars
<1>12. Workers'
  BY <1>2, <1>4 DEF Workers
<1>13. RunsStored'
  <2>1. \A r : StoredRun(r) => StoredRun(r)'
    BY <1>2, <1>4, StoredRunStays DEF fileVars
  <2>2. \A r : Blank(r) => Blank(r)'
    BY <1>2 DEF Blank, fileVars
  <2>3. run \in Nat
    BY <1>5 DEF Runs
  <2>4. \A r \in Runs : r > run => r >= run
    BY <2>3 DEF Runs
  <2> QED BY <1>1, <1>2, <1>3, <1>4, <2>1, <2>2, <2>4 DEF RunsStored
<1>14. CASE main' = "failed"
  BY <1>10, <1>11, <1>12, <1>13, <1>14, Elsewhere DEF IInv
<1>15. CASE main' = "merge"
  <2>1. LeftInRun' = Grid(THREAD_NUM, Block) /\ IsFiniteSet(LeftInRun') /\ Cardinality(LeftInRun') = Limit
    <3>1. ASSUME NEW x \in Grid(THREAD_NUM, Block) PROVE partial_offset'[x[1]] <= x[1] * Block + x[2]
      <4>1. x[1] \in Threads /\ x[2] \in Nat
        BY <1>6 DEF Grid
      <4> QED BY <1>2, <1>7, <4>1
    <3>2. LeftInRun' = Grid(THREAD_NUM, Block)
      BY <3>1 DEF LeftInRun
    <3> QED BY <1>6, <3>2, GridFacts
  <2>2. KeptOfRun' = 0 /\ MergedLen' = 0 /\ DOMAIN Merged' = {}
    <3>1. KeptOfRun' = 0
      BY <1>2, <1>9 DEF KeptOfRun, Blank
    <3>2. Len(buffer') = 0
      BY <1>2
    <3>3. MergedLen' = 0
      BY <1>2, <3>1, <3>2 DEF MergedLen
    <3>4. DOMAIN Merged' = 0 .. MergedLen' - 1
      BY DEF Merged
    <3>5. DOMAIN Merged' = {}
      BY ONLY <3>3, <3>4
    <3> QED BY <3>1, <3>3, <3>5
  <2>3. fflag' <=> ~(file_num > 1)
    <3>1. fflag' = (file_num <= 1)
      BY <1>2
    <3>2. (file_num <= 1) <=> ~(file_num > 1)
      BY <1>5
    <3> QED BY <3>1, <3>2, Zenon
  <2>4. fflag' => Target' = NoFile
    BY <1>2, <1>3, <1>9 DEF Target, fileVars
  <2>5. MergeBounds'
    <3>1. file_num' > 1 => output' = NoFile
      BY <1>2, <1>9 DEF fileVars
    <3>2. ASSUME NEW j \in Threads
          PROVE  /\ partial_offset'[j] \in j * Block .. (j + 1) * Block
                 /\ j \in flag' <=> partial_offset'[j] = (j + 1) * Block
                 /\ InOrder(BlockOf(data, j)')
      <4>1. BlockOf(data, j)' = BlockOf(data, j)
        BY <1>2 DEF BlockOf
      <4> QED BY <1>2, <1>6, <1>7, <4>1
    <3>3. flag' \subseteq Threads /\ IsHeap(heap, partial_offset)' /\ ToSet(heap') = Threads \ flag'
      BY <1>2, <1>8 DEF IsHeap, Ordered, At
    <3>4. MergedLen' + Cardinality(LeftInRun') = Limit
      BY <1>6, <2>1, <2>2
    <3>5. fflag' \/ /\ file_num' > 1 /\ buffer' = <<>> /\ out_offset' = 0 /\ temp_file'[run'] = NoFile
                    /\ KeptOfRun' = 0 \/ KeptOfRun' * TUPLE_SIZE < buffer_size'
      BY <1>2, <1>3, <1>9, <2>2, <2>3 DEF Blank, fileVars
    <3>6. fflag' =>
            /\ file_num' <= 1 /\ KeptOfRun' = 0 /\ \E q \in 0 .. Limit : out_offset' = q * Buffer
            /\ KeptOfRun' <= out_offset' /\ DOMAIN Target' = {} /\ KeptOfRun' .. out_offset' - 1 = {}
      <4>1. 0 \in 0 .. Limit /\ 0 = 0 * Buffer
        BY <1>6
      <4>2. DOMAIN NoFile = {}
        BY DEF NoFile
      <4>3. out_offset' = 0 /\ KeptOfRun' = 0 /\ KeptOfRun' <= out_offset' /\ KeptOfRun' .. out_offset' - 1 = {}
        <5>1. out_offset' = 0 /\ KeptOfRun' = 0
          BY <1>2, <2>2
        <5> QED BY ONLY <5>1
      <4>4. \E q \in 0 .. Limit : out_offset' = q * Buffer
        BY <4>1, <4>3
      <4>5. fflag' => file_num' <= 1 /\ DOMAIN Target' = {}
        BY <1>2, <1>3, <2>4, <4>2
      <4> QED BY <4>3, <4>4, <4>5
    <3> QED BY <3>1, <3>2, <3>3, <3>4, <3>5, <3>6 DEF MergeBounds, IsHeap, InOrder
  <2>6. MergeRight'
    <3> SUFFICES ASSUME errors' = 0 PROVE Merging(Merged', [x \in LeftInRun |-> Tuple(x)]', InputRun(run)')
      BY DEF MergeRight, Merging, InOrder, Count
    <3> DEFINE left == [x \in LeftInRun |-> Tuple(x)]'
    <3>1. left = [x \in Grid(THREAD_NUM, Block) |-> Tuple(x)]
      BY <1>2, <2>1 DEF Tuple
    <3>2. DOMAIN left = LeftInRun'
      OBVIOUS
    <3>3. SameTuples(left, InputRun(run))
      <4>1. \A j \in Threads : SameTuples(BlockOf(data, j), BlockOf(InputRun(run), j))
        BY <1>4, <1>7
      <4> HIDE DEF left
      <4> QED BY ONLY <3>1, <4>1, BlocksOfRun DEF SameTuples
    <3> HIDE DEF left
    <3>4. Merging(Merged', left, InputRun(run))
      BY ONLY <2>1, <2>2, <3>2, <3>3, MergeBegins
    <3> QED BY <1>3, <3>4 DEF left
  <2>7. LastBounds' /\ LastRight' /\ AtEnd' /\ (main = "overflow" => ~Documented)'
    BY <1>15 DEF LastBounds, LastRight, AtEnd
  <2> QED BY <1>10, <1>11, <1>12, <1>13, <2>5, <2>6, <2>7 DEF IInv
<1> QED BY <1>4, <1>14, <1>15

\* The tuple that Advance takes from the heap is one of the least that are left.
Taken == <<Head(heap), partial_offset[Head(heap)] - Head(heap) * Block>>

\* Where block j begins and ends in data.
LEMMA Rows ==
  ASSUME NEW j \in Threads
  PROVE  /\ j \in Nat /\ j * Block \in Nat /\ (j + 1) * Block = j * Block + Block /\ Block * (j + 1) = (j + 1) * Block
         /\ j * Block + Block <= Limit
<1>1. Block \in Nat \ {0} /\ THREAD_NUM \in Nat /\ Limit = THREAD_NUM * Block /\ j \in Nat /\ j + 1 \in Nat
      /\ j + 1 <= THREAD_NUM
  BY Sizes DEF Limit, Threads
<1>2. j * Block \in Nat /\ (j + 1) * Block = j * Block + Block /\ (j + 1) * Block <= Limit /\ Block * (j + 1) = (j + 1) * Block
  BY <1>1, Multiplication
<1> QED BY <1>1, <1>2

\* One turn of the merge of a run takes a least tuple and leaves a heap.
LEMMA AdvanceFacts ==
  ASSUME TypeOK, Shape, MergeBounds, main = "merge", Advance
  PROVE  /\ partial_offset' \in [Threads -> Nat]
         /\ \A i \in Threads : /\ partial_offset'[i] \in i * Block .. (i + 1) * Block
                               /\ i \in flag' <=> partial_offset'[i] = (i + 1) * Block
         /\ flag' \subseteq Threads
         /\ IsHeap(heap', partial_offset') /\ ToSet(heap') = Threads \ flag'
         /\ IsFiniteSet(LeftInRun) /\ Taken \in LeftInRun /\ Least = Tuple(Taken)
         /\ \A x \in LeftInRun : Tuple(x) \in Tuples /\ Least <= Tuple(x)
         /\ LeftInRun' = LeftInRun \ {Taken}
         /\ IsFiniteSet(LeftInRun') /\ Cardinality(LeftInRun) = Cardinality(LeftInRun') + 1
         /\ Cardinality(LeftInRun') \in Nat
<1> DEFINE j == Head(heap)
           offset == [partial_offset EXCEPT ![j] = @ + 1]
           rest == pop(heap, partial_offset)
           usedUp == offset[j] >= Block * (j + 1)
<1>1. /\ flag # Threads /\ partial_offset' = offset
      /\ heap' = IF usedUp THEN rest ELSE push(rest, offset, j)
      /\ flag' = IF usedUp THEN flag \cup {j} ELSE flag
      /\ data' = data
  BY DEF Advance
<1>2. /\ partial_offset \in [Threads -> Nat] /\ data \in [0 .. Limit - 1 -> Tuples]
      /\ flag \subseteq Threads /\ IsHeap(heap, partial_offset) /\ ToSet(heap) = Threads \ flag
  BY DEF TypeOK, Shape, MergeBounds
<1>3. ASSUME NEW i \in Threads
      PROVE  /\ partial_offset[i] \in i * Block .. (i + 1) * Block
             /\ i \in flag <=> partial_offset[i] = (i + 1) * Block
             /\ InOrder(BlockOf(data, i))
  BY DEF MergeBounds
<1>4. ASSUME NEW i \in Threads, i \notin flag
      PROVE  partial_offset[i] \in 0 .. Limit - 1 /\ data[partial_offset[i]] \in Nat
  <2>1. partial_offset[i] \in 0 .. Limit - 1
    <3>1. partial_offset[i] \in Nat /\ Limit \in Nat
      BY <1>2, Sizes
    <3>2. /\ partial_offset[i] \in i * Block .. (i + 1) * Block /\ partial_offset[i] # (i + 1) * Block
          /\ i * Block \in Nat /\ (i + 1) * Block = i * Block + Block /\ i * Block + Block <= Limit /\ Block \in Nat
      BY <1>3, <1>4, Rows, Sizes
    <3> QED BY ONLY <3>1, <3>2
  <2> QED BY <1>2, <2>1, TuplesAreNumbers
<1>5. \A i \in ToSet(heap) : data[partial_offset[i]] \in Nat
  BY <1>2, <1>4
<1>6. PICK i0 \in Threads : i0 \notin flag
  BY <1>1, <1>2
<1>7. j \in Threads /\ j \notin flag /\ \A i \in Threads \ flag : data[partial_offset[j]] <= data[partial_offset[i]]
  BY <1>2, <1>5, <1>6, TopIsLeast
<1>8. IsHeap(rest, partial_offset) /\ ToSet(rest) = (Threads \ flag) \ {j}
  <2>1. heap # <<>>
    <3>1. ToSet(heap) # {}
      BY <1>2, <1>6
    <3>2. ASSUME heap = <<>> PROVE FALSE
      <4>1. DOMAIN heap = {}
        BY <3>2
      <4> QED BY <3>1, <4>1 DEF ToSet
    <3> QED BY <3>2
  <2> QED BY <1>2, <1>5, <2>1, PopFacts
<1> HIDE DEF rest, j
<1>9. /\ offset \in [Threads -> Nat] /\ offset[j] = partial_offset[j] + 1
      /\ \A i \in Threads \ {j} : offset[i] = partial_offset[i]
  BY <1>2, <1>7
<1> HIDE DEF offset
<1>10. IsHeap(rest, offset)
  <2>1. \A i \in ToSet(rest) : partial_offset[i] = offset[i]
    BY <1>8, <1>9
  <2> QED BY ONLY <1>8, <2>1, SameHeap
<1>11. /\ j * Block \in Nat /\ (j + 1) * Block = j * Block + Block /\ Block * (j + 1) = (j + 1) * Block
       /\ j * Block + Block <= Limit /\ Block \in Nat /\ Limit \in Nat /\ partial_offset[j] \in Nat
       /\ partial_offset[j] >= j * Block /\ partial_offset[j] < j * Block + Block
  <2>1. partial_offset[j] \in Nat /\ Block \in Nat /\ Limit \in Nat
    BY <1>2, <1>7, Sizes
  <2> QED BY <1>3, <1>7, <2>1, Rows
<1>12. usedUp <=> offset[j] = (j + 1) * Block
  BY <1>9, <1>11
<1> HIDE DEF usedUp
<1>13. offset[j] \in j * Block .. (j + 1) * Block
  BY <1>9, <1>11
<1>14. IsHeap(heap', offset) /\ ToSet(heap') = Threads \ flag' /\ flag' \subseteq Threads
  <2>1. CASE usedUp
    BY <1>1, <1>2, <1>7, <1>8, <1>10, <2>1
  <2>2. CASE ~usedUp
    <3>1. heap' = push(rest, offset, j) /\ flag' = flag
      BY <1>1, <2>2
    <3>2. \A i \in ToSet(rest) \cup {j} : data[offset[i]] \in Nat
      <4>1. offset[j] \in 0 .. Limit - 1
        BY <1>9, <1>11, <1>12, <2>2
      <4>2. data[offset[j]] \in Nat
        BY <1>2, <4>1, TuplesAreNumbers
      <4> QED BY <1>4, <1>8, <1>9, <4>2
    <3>3. j \notin ToSet(rest)
      BY <1>8
    <3>4. IsHeap(push(rest, offset, j), offset) /\ ToSet(push(rest, offset, j)) = ToSet(rest) \cup {j}
      BY ONLY <1>7, <1>10, <3>2, <3>3, PushFacts
    <3> QED BY <1>2, <1>7, <1>8, <3>1, <3>4
  <2> QED BY <2>1, <2>2
<1>15. \A i \in Threads : /\ offset[i] \in i * Block .. (i + 1) * Block
                          /\ i \in flag' <=> offset[i] = (i + 1) * Block
  <2>1. ASSUME NEW i \in Threads, i # j
        PROVE  offset[i] \in i * Block .. (i + 1) * Block /\ (i \in flag' <=> offset[i] = (i + 1) * Block)
    <3>1. offset[i] = partial_offset[i] /\ (i \in flag' <=> i \in flag)
      BY <1>1, <1>9, <2>1
    <3> QED BY <1>3, <3>1
  <2>2. j \in flag' <=> offset[j] = (j + 1) * Block
    BY <1>1, <1>7, <1>12
  <2> QED BY <1>13, <2>1, <2>2
<1>16. IsFiniteSet(LeftInRun)
  <2>1. LeftInRun \in SUBSET Grid(THREAD_NUM, Block) /\ IsFiniteSet(Grid(THREAD_NUM, Block))
    <3>1. THREAD_NUM \in Nat /\ Block \in Nat
      BY Sizes
    <3> QED BY <3>1, GridFacts DEF LeftInRun
  <2> QED BY <2>1, FS_Subset
<1>17. Taken = <<j, partial_offset[j] - j * Block>>
  BY DEF Taken, j
<1>18. /\ Taken \in LeftInRun /\ Taken[1] = j /\ Taken[1] * Block + Taken[2] = partial_offset[j]
       /\ Least = Tuple(Taken)
  <2>1. partial_offset[j] - j * Block \in 0 .. Block - 1 /\ j * Block + (partial_offset[j] - j * Block) = partial_offset[j]
    BY <1>11
  <2>2. Taken \in Grid(THREAD_NUM, Block)
    BY <1>7, <1>17, <2>1 DEF Grid, Threads
  <2>3. Taken[1] = j /\ Taken[1] * Block + Taken[2] = partial_offset[j]
    BY <1>17, <2>1
  <2>4. Least = data[partial_offset[j]]
    BY DEF Least, j
  <2> QED BY <1>11, <2>2, <2>3, <2>4 DEF LeftInRun, Tuple
<1>19. ASSUME NEW x \in LeftInRun
       PROVE  /\ x[1] \in Threads /\ x[2] \in 0 .. Block - 1 /\ x = <<x[1], x[2]>>
              /\ partial_offset[x[1]] <= x[1] * Block + x[2] /\ x[1] * Block \in Nat
              /\ x[1] \notin flag /\ Tuple(x) \in Tuples /\ Least <= Tuple(x)
  <2>1. x[1] \in Threads /\ x[2] \in 0 .. Block - 1 /\ x = <<x[1], x[2]>> /\ partial_offset[x[1]] <= x[1] * Block + x[2]
    BY DEF LeftInRun, Grid, Threads
  <2> DEFINE i == x[1]
             n == x[2]
  <2>2. i \in Threads /\ n \in 0 .. Block - 1 /\ partial_offset[i] <= i * Block + n /\ partial_offset[i] \in Nat
    BY <1>2, <2>1
  <2>3. Tuple(x) = data[i * Block + n]
    BY DEF Tuple
  <2> HIDE DEF i, n
  <2>4. i * Block \in Nat /\ (i + 1) * Block = i * Block + Block /\ i * Block + Block <= Limit
    BY <2>2, Rows
  <2>5. i \notin flag /\ partial_offset[i] >= i * Block
    <3>1. partial_offset[i] >= i * Block /\ (i \in flag => partial_offset[i] = i * Block + Block)
      BY <1>3, <2>2, <2>4
    <3> QED BY <1>11, <2>2, <2>4, <3>1
  <2>6. i * Block + n \in 0 .. Limit - 1
    BY <1>11, <2>2, <2>4
  <2>7. data[i * Block + n] \in Tuples
    BY <1>2, <2>6
  <2>8. data[partial_offset[i]] <= data[i * Block + n]
    <3> DEFINE m == partial_offset[i] - i * Block
    <3>1. m \in 0 .. Block - 1 /\ m <= n /\ i * Block + m = partial_offset[i]
      BY <1>11, <2>2, <2>4, <2>5
    <3> HIDE DEF m
    <3>2. BlockOf(data, i)[m] = data[partial_offset[i]] /\ BlockOf(data, i)[n] = data[i * Block + n]
      BY <2>2, <3>1 DEF BlockOf
    <3>3. DOMAIN BlockOf(data, i) = 0 .. Block - 1
      BY DEF BlockOf
    <3>4. CASE m = n
      <4>1. data[partial_offset[i]] = data[i * Block + n] /\ data[i * Block + n] \in Nat
        BY <2>7, <3>1, <3>4, TuplesAreNumbers
      <4> QED BY ONLY <4>1
    <3>5. CASE m # n
      <4>1. m < n
        BY <2>2, <3>1, <3>5
      <4>2. InOrder(BlockOf(data, i))
        BY <1>3, <2>2
      <4>3. BlockOf(data, i)[m] <= BlockOf(data, i)[n]
        BY ONLY <2>2, <3>1, <3>3, <4>1, <4>2 DEF InOrder
      <4> QED BY <3>2, <4>3
    <3> QED BY <3>4, <3>5
  <2>9. Least <= data[i * Block + n]
    <3>1. Least = data[partial_offset[j]]
      BY DEF Least, j
    <3>2. data[partial_offset[j]] <= data[partial_offset[i]] /\ data[partial_offset[i]] \in Nat /\ data[partial_offset[j]] \in Nat
      BY <1>4, <1>7, <2>2, <2>5
    <3>3. data[i * Block + n] \in Nat
      BY <2>7, TuplesAreNumbers
    <3> QED BY ONLY <2>8, <3>1, <3>2, <3>3
  <2> QED BY <2>1, <2>2, <2>3, <2>4, <2>5, <2>7, <2>9 DEF i, n
<1>20. LeftInRun' = LeftInRun \ {Taken}
  <2>1. LeftInRun' = {x \in Grid(THREAD_NUM, Block) : offset[x[1]] <= x[1] * Block + x[2]}
    BY <1>1 DEF LeftInRun
  <2>2. ASSUME NEW x \in Grid(THREAD_NUM, Block)
        PROVE  offset[x[1]] <= x[1] * Block + x[2] <=> x \in LeftInRun /\ x # Taken
    <3>1. x[1] \in Threads /\ x[2] \in 0 .. Block - 1 /\ x = <<x[1], x[2]>>
      BY DEF Grid, Threads
    <3>2. CASE x[1] # j
      <4>1. x # Taken /\ offset[x[1]] = partial_offset[x[1]]
        BY <1>9, <1>18, <3>1, <3>2
      <4> QED BY <4>1 DEF LeftInRun
    <3>3. CASE x[1] = j
      <4>1. x \in LeftInRun <=> partial_offset[j] <= j * Block + x[2]
        BY <3>3 DEF LeftInRun
      <4>2. x = Taken <=> x[2] = partial_offset[j] - j * Block
        BY <1>17, <3>1, <3>3
      <4>3. offset[x[1]] <= x[1] * Block + x[2] <=> partial_offset[j] + 1 <= j * Block + x[2]
        BY <1>9, <3>3
      <4> QED BY <1>11, <3>1, <4>1, <4>2, <4>3
    <3> QED BY <3>2, <3>3
  <2> QED BY <2>1, <2>2 DEF LeftInRun
<1>21. IsFiniteSet(LeftInRun') /\ Cardinality(LeftInRun') = Cardinality(LeftInRun) - 1
  BY <1>16, <1>18, <1>20, FS_RemoveElement
<1>22. Cardinality(LeftInRun) \in Nat /\ Cardinality(LeftInRun') \in Nat
  BY <1>16, <1>21, FS_CardinalityType
<1> QED BY <1>1, <1>9, <1>14, <1>15, <1>16, <1>18, <1>19, <1>20, <1>21, <1>22

\* The blocks, and the heap of those that are not used up.
BlocksInOrder ==
  /\ \A j \in Threads :
       /\ partial_offset[j] \in j * Block .. (j + 1) * Block
       /\ j \in flag <=> partial_offset[j] = (j + 1) * Block
       /\ InOrder(BlockOf(data, j))
  /\ flag \subseteq Threads
  /\ IsHeap(heap, partial_offset) /\ ToSet(heap) = Threads \ flag

\* The part of MergeBounds that Advance alone keeps.
LEMMA AdvanceBounds ==
  ASSUME TypeOK, Shape, MergeBounds, main = "merge", Advance
  PROVE  /\ BlocksInOrder'
         /\ \A j \in Threads : partial_offset'[j] \in 0 .. Block * (j + 1)
         /\ partial_offset' \in [Threads -> Nat]
         /\ ToSet(heap') \subseteq Threads /\ flag' \subseteq Threads
<1>1. data' = data
  BY DEF Advance
<1>2. \A j \in Threads : BlockOf(data, j)' = BlockOf(data, j)
  BY <1>1 DEF BlockOf
<1>3. \A j \in Threads : InOrder(BlockOf(data, j))'
  BY <1>2 DEF MergeBounds, InOrder
<1>4. /\ partial_offset' \in [Threads -> Nat]
      /\ \A i \in Threads : /\ partial_offset'[i] \in i * Block .. (i + 1) * Block
                            /\ i \in flag' <=> partial_offset'[i] = (i + 1) * Block
      /\ flag' \subseteq Threads
      /\ IsHeap(heap', partial_offset') /\ ToSet(heap') = Threads \ flag'
  BY AdvanceFacts
<1>5. IsHeap(heap, partial_offset)'
  BY <1>1, <1>4 DEF IsHeap, Ordered, At
<1>6. ASSUME NEW j \in Threads PROVE partial_offset'[j] \in 0 .. Block * (j + 1)
  <2>1. partial_offset'[j] \in Nat /\ partial_offset'[j] \in j * Block .. (j + 1) * Block /\ Block \in Nat
    BY <1>4, Sizes
  <2> QED BY <2>1, Rows
<1> QED BY <1>3, <1>4, <1>5, <1>6 DEF BlocksInOrder

\* MergeRight, when the taken tuple is appended to what has been merged.
LEMMA MergedMore ==
  ASSUME TypeOK, Shape, MergeBounds, MergeRight, main = "merge", Advance, errors = 0,
         MergedLen \in Nat, MergedLen' = MergedLen + 1,
         \A i \in 0 .. MergedLen - 1 : Merged'[i] = Merged[i], Merged'[MergedLen] = Least
  PROVE  MergeRight'
<1> DEFINE n == MergedLen
           done == Merged
           done2 == Merged'
           left == [x \in LeftInRun |-> Tuple(x)]
           left2 == [x \in LeftInRun |-> Tuple(x)]'
           all == InputRun(run)
<1>1. /\ IsFiniteSet(LeftInRun) /\ Taken \in LeftInRun /\ Least = Tuple(Taken)
      /\ \A x \in LeftInRun : Tuple(x) \in Tuples /\ Least <= Tuple(x)
      /\ LeftInRun' = LeftInRun \ {Taken}
  BY AdvanceFacts
<1>2. DOMAIN done = 0 .. n - 1 /\ DOMAIN done2 = 0 .. n
  <2>1. DOMAIN done2 = 0 .. n + 1 - 1
    BY DEF Merged
  <2> QED BY <2>1 DEF Merged
<1>3. \A x : Tuple(x)' = Tuple(x)
  BY DEF Tuple, Advance
<1>4. /\ IsFiniteSet(DOMAIN left) /\ Taken \in DOMAIN left /\ done2[n] = left[Taken]
      /\ \A x \in DOMAIN left : left[x] \in Nat /\ left[Taken] <= left[x]
  BY <1>1, TuplesAreNumbers
<1>5. DOMAIN left2 = DOMAIN left \ {Taken} /\ \A x \in DOMAIN left2 : left2[x] = left[x]
  BY <1>1, <1>3
<1>6. Merging(done, left, all)
  BY DEF MergeRight
<1>7. n \in Nat /\ \A i \in 0 .. n - 1 : done2[i] = done[i]
  OBVIOUS
<1>8. InputRun(run)' = all
  BY SameFile DEF Advance, InputRun
<1> HIDE DEF n, done, done2, left, left2, all
<1>9. Merging(done2, left2, all)
  BY ONLY <1>2, <1>4, <1>5, <1>6, <1>7, MergeStep
<1> QED BY <1>8, <1>9 DEF MergeRight, done2, left2, all

\* Remember (main.cpp:212-222).
LEMMA RememberStep == IInv /\ Remember => IInv'
<1> SUFFICES ASSUME IInv, Remember PROVE IInv'
  OBVIOUS
<1> DEFINE n == KeptOfRun
           kept == Append(temp_buf[run], Least)
<1>1. TypeOK /\ Shape /\ Workers /\ RunsStored /\ MergeBounds /\ MergeRight
  BY DEF IInv
<1>2. /\ main = "merge" /\ ~fflag /\ Advance
      /\ temp_buf' = [temp_buf EXCEPT ![run] = kept]
      /\ main' = IF Len(kept) * TUPLE_SIZE > buffer_size THEN "overflow" ELSE main
      /\ IF Complete(kept)
         THEN fflag' = TRUE /\ out_offset' = buffer_size \div TUPLE_SIZE
         ELSE UNCHANGED <<fflag, out_offset>>
      /\ UNCHANGED <<errors, buffer, temp_file, output>>
      /\ UNCHANGED <<file, run, worker, data, lastVars>>
  BY DEF Remember, Advance, fileVars
<1>3. /\ file' = file /\ run' = run /\ file_num' = file_num /\ Runs' = Runs /\ (Fitting' <=> Fitting)
      /\ Part' = Part /\ buffer_size' = buffer_size /\ (Documented' <=> Documented)
  BY <1>2, SameFile
<1>4. run \in Runs /\ file_num \in Nat /\ file \in Files /\ run \in Nat
  BY <1>1, <1>2, FileFacts DEF RunsStored, TypeOK, Runs
<1>5. /\ file_num > 1 /\ buffer = <<>> /\ out_offset = 0 /\ temp_file[run] = NoFile /\ output = NoFile
      /\ n = 0 \/ n * TUPLE_SIZE < buffer_size
      /\ MergedLen = n /\ MergedLen + Cardinality(LeftInRun) = Limit
  BY <1>1, <1>2 DEF MergeBounds, MergedLen
<1>6. /\ BlocksInOrder'
      /\ \A j \in Threads : partial_offset'[j] \in 0 .. Block * (j + 1)
      /\ partial_offset' \in [Threads -> Nat]
      /\ ToSet(heap') \subseteq Threads /\ flag' \subseteq Threads
  BY <1>1, <1>2, AdvanceBounds
<1>7. /\ Least \in Tuples /\ Cardinality(LeftInRun) = Cardinality(LeftInRun') + 1 /\ Cardinality(LeftInRun') \in Nat
  <2>1. Taken \in LeftInRun /\ Least = Tuple(Taken) /\ (\A x \in LeftInRun : Tuple(x) \in Tuples)
        /\ Cardinality(LeftInRun) = Cardinality(LeftInRun') + 1 /\ Cardinality(LeftInRun') \in Nat
    BY <1>1, <1>2, AdvanceFacts
  <2> QED BY <2>1
<1>8. /\ n \in Nat /\ kept \in Seq(Tuples) /\ Len(kept) = n + 1 /\ kept[n + 1] = Least
      /\ \A i \in 1 .. n : kept[i] = temp_buf[run][i]
  <2>1. temp_buf[run] \in Seq(Tuples)
    BY <1>1, <1>2, <1>4 DEF Shape
  <2> QED BY <1>7, <2>1 DEF KeptOfRun
<1>9. /\ temp_buf'[run] = kept /\ \A r \in Runs : r # run => temp_buf'[r] = temp_buf[r]
      /\ temp_buf' = [r \in Runs |-> temp_buf'[r]]
      /\ \A r \in Runs : temp_buf'[r] \in Seq(Tuples)
  <2>1. temp_buf = [r \in Runs |-> temp_buf[r]] /\ \A r \in Runs : temp_buf[r] \in Seq(Tuples)
    BY <1>1, <1>2 DEF Shape
  <2> HIDE DEF kept
  <2> QED BY <1>2, <1>4, <1>8, <2>1
<1>10. KeptOfRun' = n + 1
  BY <1>2, <1>8, <1>9 DEF KeptOfRun
<1> HIDE DEF kept, n
<1>11. Part \in Nat /\ out_offset' \in Nat
  BY <1>2, <1>4, <1>5, PartFacts DEF Part
<1>12. TypeOK'
  BY <1>1, <1>2, <1>3, <1>6 DEF TypeOK, lastVars
<1>13. Shape'
  <2>1. main' \in {"merge", "overflow"}
    BY <1>2
  <2> QED BY <1>1, <1>2, <1>3, <1>6, <1>9, <1>11, <2>1 DEF Shape, IsFile
<1>14. Workers'
  BY <1>1, <1>2 DEF Workers
<1>15. RunsStored'
  <2>1. ASSUME NEW r \in 0 .. run - 1, StoredRun(r) PROVE StoredRun(r)'
    <3>1. r \in Runs /\ r # run
      BY <1>4 DEF Runs
    <3> QED BY <1>2, <1>9, <2>1, <3>1, StoredRunStays
  <2>2. \A r \in Runs : r # run /\ Blank(r) => Blank(r)'
    BY <1>2, <1>9 DEF Blank
  <2>3. \A r \in Runs : r > run => r # run
    BY <1>4
  <2>4. main' \in {"merge", "overflow"}
    BY <1>2
  <2> QED BY <1>1, <1>2, <1>3, <2>1, <2>2, <2>3, <2>4 DEF RunsStored
<1>16. TUPLE_SIZE \in Nat \ {0} /\ n + 1 \in Nat /\ (n + 1) * TUPLE_SIZE \in Nat /\ n * TUPLE_SIZE \in Nat
       /\ (n + 1) * TUPLE_SIZE = n * TUPLE_SIZE + TUPLE_SIZE /\ buffer_size \in Nat
  <2>1. TUPLE_SIZE \in Nat \ {0} /\ n + 1 \in Nat /\ n \in Nat
    BY <1>8, Sizes
  <2>2. buffer_size \in Nat
    BY <1>4, <1>5, PartFacts
  <2> QED BY <2>1, <2>2, Multiplication
<1>17. CASE (n + 1) * TUPLE_SIZE > buffer_size
  <2>1. main' = "overflow"
    BY <1>2, <1>8, <1>17
  <2>2. ~Documented
    <3> SUFFICES ASSUME buffer_size # 0, buffer_size % TUPLE_SIZE = 0 PROVE FALSE
      BY <1>4, <1>5 DEF Documented
    <3>1. Part * TUPLE_SIZE = buffer_size
      BY <1>4, <1>5, PartFacts
    <3>2. n + 1 <= Part
      <4>1. CASE n = 0
        BY <1>11, <1>16, <3>1, <4>1
      <4>2. CASE n * TUPLE_SIZE < buffer_size
        <5>1. ~(Part <= n)
          BY <1>8, <1>11, <1>16, <3>1, <4>2, Multiplication
        <5> QED BY <1>8, <1>11, <5>1
      <4> QED BY <1>5, <4>1, <4>2
    <3>3. (n + 1) * TUPLE_SIZE <= Part * TUPLE_SIZE
      BY <1>11, <1>16, <3>2, Multiplication
    <3> QED BY <1>16, <1>17, <3>1, <3>3
  <2> QED BY <1>3, <1>12, <1>13, <1>14, <1>15, <2>1, <2>2 DEF IInv, MergeBounds, MergeRight, LastBounds, LastRight, AtEnd
<1>18. CASE ~((n + 1) * TUPLE_SIZE > buffer_size)
  <2>1. main' = "merge"
    BY <1>2, <1>8, <1>18
  <2>2. Complete(kept) <=> (n + 1) * TUPLE_SIZE = buffer_size
    BY <1>8, <1>16, <1>18 DEF Complete
  <2>3. MergedLen' = n + 1 /\ Len(buffer') = 0
    <3>1. Len(buffer') = 0
      BY <1>2, <1>5
    <3>2. CASE Complete(kept)
      <4>1. n + 1 = Part
        BY <1>4, <1>5, <1>16, <2>2, <3>2, PartFacts
      <4>2. fflag' = TRUE /\ out_offset' = Part
        BY <1>2, <3>2 DEF Part
      <4> QED BY <1>16, <3>1, <4>1, <4>2 DEF MergedLen
    <3>3. CASE ~Complete(kept)
      <4>1. fflag' = fflag
        BY <1>2, <3>3
      <4> QED BY <1>2, <1>10, <3>1, <4>1 DEF MergedLen
    <3> QED BY <3>2, <3>3
  <2>4. MergeBounds'
    <3>1. file_num' > 1 /\ output' = NoFile /\ buffer' = <<>> /\ temp_file'[run'] = NoFile
      BY <1>2, <1>3, <1>5
    <3>2. MergedLen' + Cardinality(LeftInRun') = Limit
      BY <1>5, <1>7, <1>8, <2>3
    <3>3. fflag' \/ (out_offset' = 0 /\ KeptOfRun' * TUPLE_SIZE < buffer_size')
      <4>1. CASE Complete(kept)
        BY <1>2, <4>1
      <4>2. CASE ~Complete(kept)
        BY <1>2, <1>3, <1>5, <1>10, <1>16, <1>18, <2>2, <4>2
      <4> QED BY <4>1, <4>2
    <3>4. fflag' => /\ Part' >= 1 /\ KeptOfRun' = Part' /\ Part' * TUPLE_SIZE = buffer_size'
                    /\ KeptOfRun' <= out_offset'
                    /\ DOMAIN Target' = {} /\ KeptOfRun' .. out_offset' - 1 = {}
      <4> SUFFICES ASSUME fflag' PROVE /\ Part >= 1 /\ n + 1 = Part /\ Part * TUPLE_SIZE = buffer_size
                                       /\ n + 1 <= out_offset'
                                       /\ DOMAIN Target' = {} /\ n + 1 .. out_offset' - 1 = {}
        BY <1>3, <1>10
      <4>1. Complete(kept)
        BY <1>2
      <4>2. n + 1 = Part /\ Part * TUPLE_SIZE = buffer_size
        BY <1>4, <1>5, <1>16, <2>2, <4>1, PartFacts
      <4>3. out_offset' = Part
        BY <1>2, <4>1 DEF Part
      <4>4. DOMAIN Target' = {}
        <5>1. Target' = NoFile
          BY <3>1 DEF Target
        <5> QED BY <5>1 DEF NoFile
      <4>5. n + 1 <= out_offset' /\ n + 1 .. out_offset' - 1 = {} /\ Part >= 1
        BY ONLY <1>8, <1>11, <4>2, <4>3
      <4> QED BY <4>2, <4>4, <4>5
    <3>5. ~(file_num' <= 1)
      BY <1>3, <1>4, <1>5
    <3>6. fflag' => IF file_num' <= 1 THEN KeptOfRun' = 0 /\ \E q \in 0 .. Limit : out_offset' = q * Buffer
                    ELSE Part' >= 1 /\ KeptOfRun' = Part' /\ Part' * TUPLE_SIZE = buffer_size'
      BY <3>4, <3>5
    <3>7. fflag' => DOMAIN Target' \subseteq KeptOfRun' .. out_offset' - 1
                    /\ (errors' = 0 => DOMAIN Target' = KeptOfRun' .. out_offset' - 1)
                    /\ KeptOfRun' <= out_offset'
      BY <3>4
    <3>8. fflag' \/ /\ file_num' > 1 /\ buffer' = <<>> /\ out_offset' = 0 /\ temp_file'[run'] = NoFile
                    /\ KeptOfRun' = 0 \/ KeptOfRun' * TUPLE_SIZE < buffer_size'
      BY <3>1, <3>3
    <3> QED BY <1>6, <3>1, <3>2, <3>6, <3>7, <3>8 DEF MergeBounds, BlocksInOrder
  <2>5. MergeRight'
    <3> SUFFICES ASSUME errors' = 0 PROVE MergeRight'
      BY DEF MergeRight
    <3>1. MergedLen = n /\ MergedLen \in Nat /\ MergedLen' = MergedLen + 1 /\ errors = 0
      BY <1>2, <1>5, <1>8, <2>3
    <3>2. Merged' = [i \in 0 .. n |-> kept[i + 1]]
      <4>1. Merged' = [i \in 0 .. MergedLen' - 1 |->
                         IF i < KeptOfRun' THEN temp_buf'[run'][i + 1]
                         ELSE IF i < out_offset' THEN Target'[i] ELSE buffer'[i - out_offset' + 1]]
        BY DEF Merged
      <4>2. 0 .. MergedLen' - 1 = 0 .. n /\ \A i \in 0 .. n : i < KeptOfRun'
        BY <1>8, <1>10, <2>3
      <4>3. temp_buf'[run'] = kept
        BY <1>3, <1>9
      <4> QED BY <4>1, <4>2, <4>3
    <3>3. \A i \in 0 .. n - 1 : Merged[i] = kept[i + 1]
      <4>1. ASSUME NEW i \in 0 .. n - 1 PROVE Merged[i] = temp_buf[run][i + 1] /\ i + 1 \in 1 .. n
        BY <1>8, <3>1 DEF Merged, n
      <4> QED BY <1>8, <4>1
    <3>4. \A i \in 0 .. MergedLen - 1 : Merged'[i] = Merged[i]
      BY <1>8, <3>1, <3>2, <3>3
    <3>5. Merged'[MergedLen] = Least
      BY <1>8, <3>1, <3>2
    <3> QED BY ONLY <1>1, <1>2, <3>1, <3>4, <3>5, MergedMore
  <2>6. LastBounds' /\ LastRight' /\ AtEnd' /\ (main = "overflow" => ~Documented)'
    BY <2>1 DEF LastBounds, LastRight, AtEnd
  <2> QED BY <1>12, <1>13, <1>14, <1>15, <2>4, <2>5, <2>6 DEF IInv
<1> QED BY <1>17, <1>18

\* Merge (main.cpp:212-233).
LEMMA MergeTupleStep == IInv /\ Merge => IInv'
<1> SUFFICES ASSUME IInv, Merge PROVE IInv'
  OBVIOUS
<1> DEFINE f == Target
<1>1. TypeOK /\ Shape /\ Workers /\ RunsStored /\ MergeBounds /\ MergeRight
  BY DEF IInv
<1>2. /\ main = "merge" /\ fflag /\ Advance /\ Put(Least)
      /\ UNCHANGED <<main, fflag, temp_buf>>
      /\ UNCHANGED <<file, run, worker, data, lastVars>>
  BY DEF Merge, Advance, keptVars
<1>3. PICK ok \in BOOLEAN :
         /\ Try(ok)
         /\ IF file_num <= 1
            THEN output' = Flushed(Least, output, ok) /\ UNCHANGED temp_file
            ELSE /\ temp_file' = [temp_file EXCEPT ![run] = Flushed(Least, @, ok)]
                 /\ UNCHANGED output
  BY DEF Merge
<1>4. /\ file' = file /\ run' = run /\ file_num' = file_num /\ Runs' = Runs /\ (Fitting' <=> Fitting)
      /\ Part' = Part /\ buffer_size' = buffer_size
  BY <1>2, SameFile
<1>5. run \in Runs /\ file_num \in Nat /\ file \in Files /\ run \in Nat /\ run < file_num
  BY <1>1, <1>2, FileFacts DEF RunsStored, TypeOK, Runs
<1>6. /\ Limit \in Nat \ {0} /\ Buffer \in Nat \ {0} /\ BUFFER_SIZE \in Nat /\ TUPLE_SIZE \in Nat
  BY Sizes, SortAssumption
<1>7. errors \in 0 .. MaxErrors /\ errors' \in 0 .. MaxErrors /\ (errors' = 0 => errors = 0 /\ ok)
  <2>1. errors \in 0 .. MaxErrors
    BY <1>1 DEF TypeOK
  <2>2. CASE ok
    BY <1>3, <2>1, <2>2 DEF Try, Succeeds
  <2>3. CASE ~ok
    BY <1>3, <2>1, <2>3, SortAssumption DEF Try, Fails
  <2> QED BY <2>2, <2>3
<1>8. /\ BlocksInOrder'
      /\ \A j \in Threads : partial_offset'[j] \in 0 .. Block * (j + 1)
      /\ partial_offset' \in [Threads -> Nat]
      /\ ToSet(heap') \subseteq Threads /\ flag' \subseteq Threads
  BY <1>1, <1>2, AdvanceBounds
<1>9. /\ Least \in Tuples /\ Cardinality(LeftInRun) = Cardinality(LeftInRun') + 1 /\ Cardinality(LeftInRun') \in Nat
  <2>1. Taken \in LeftInRun /\ Least = Tuple(Taken) /\ (\A x \in LeftInRun : Tuple(x) \in Tuples)
        /\ Cardinality(LeftInRun) = Cardinality(LeftInRun') + 1 /\ Cardinality(LeftInRun') \in Nat
    BY <1>1, <1>2, AdvanceFacts
  <2> QED BY <2>1
<1>10. /\ MergedLen = out_offset + Len(buffer) /\ MergedLen + Cardinality(LeftInRun) = Limit
       /\ file_num > 1 => output = NoFile /\ Part >= 1 /\ KeptOfRun = Part /\ Part * TUPLE_SIZE = buffer_size
       /\ file_num <= 1 => KeptOfRun = 0 /\ \E q \in 0 .. Limit : out_offset = q * Buffer
       /\ KeptOfRun <= out_offset
       /\ DOMAIN f \subseteq KeptOfRun .. out_offset - 1
       /\ errors = 0 => DOMAIN f = KeptOfRun .. out_offset - 1
  <2>1. file_num > 1 <=> ~(file_num <= 1)
    BY <1>5
  <2>2. MergedLen = out_offset + Len(buffer)
    BY <1>2 DEF MergedLen
  <2> QED BY <1>1, <1>2, <2>1, <2>2 DEF MergeBounds
<1>11. /\ buffer \in Seq(Tuples) /\ Len(buffer) \in Nat /\ out_offset \in Nat /\ Len(buffer) < Buffer
       /\ KeptOfRun \in Nat /\ temp_buf = [r \in Runs |-> temp_buf[r]] /\ temp_file = [r \in Runs |-> temp_file[r]]
       /\ \A r \in Runs : IsFile(temp_file[r], Limit) /\ temp_buf[r] \in Seq(Tuples)
       /\ IsFile(output, Limit * file_num)
  <2>1. /\ buffer \in Seq(Tuples) /\ out_offset \in Nat
        /\ temp_buf = [r \in Runs |-> temp_buf[r]] /\ temp_file = [r \in Runs |-> temp_file[r]]
        /\ \A r \in Runs : IsFile(temp_file[r], Limit) /\ temp_buf[r] \in Seq(Tuples)
        /\ IsFile(output, Limit * file_num)
    BY <1>1, <1>2 DEF Shape
  <2>2. Len(buffer) \in Nat
    BY <2>1
  <2>3. Len(buffer) < Buffer
    BY <1>1, <2>2, FullFacts DEF TypeOK
  <2>4. KeptOfRun \in Nat
    BY <1>5, <2>1 DEF KeptOfRun
  <2> QED BY <2>1, <2>2, <2>3, <2>4
<1>12. IsFile(f, Limit)
  <2>1. CASE file_num <= 1
    <3>1. file_num = 1 /\ Limit * 1 = Limit
      BY <1>5, <1>6, <2>1
    <3>2. f = output
      BY <2>1 DEF Target
    <3> QED BY <1>11, <3>1, <3>2
  <2>2. CASE ~(file_num <= 1)
    <3>1. f = temp_file[run]
      BY <2>2 DEF Target
    <3> QED BY <1>5, <1>11, <3>1
  <2> QED BY <2>1, <2>2
<1> DEFINE g == Flushed(Least, f, ok)
<1>13. /\ file_num <= 1 => f = output /\ output' = g /\ temp_file' = temp_file
       /\ ~(file_num <= 1) => /\ f = temp_file[run] /\ temp_file' = [temp_file EXCEPT ![run] = g] /\ output' = output
       /\ Target' = g
  <2>1. CASE file_num <= 1
    BY <1>3, <1>4, <2>1 DEF Target
  <2>2. CASE ~(file_num <= 1)
    <3>1. f = temp_file[run] /\ temp_file' = [temp_file EXCEPT ![run] = g] /\ output' = output
      BY <1>3, <2>2 DEF Target
    <3>2. temp_file'[run] = g
      BY <1>5, <1>11, <3>1
    <3> QED BY <1>4, <2>2, <3>1, <3>2 DEF Target
  <2> QED BY <2>1, <2>2
<1> HIDE DEF f
<1>14. g = Flushed(Least, f, ok)
  OBVIOUS
<1> HIDE DEF g
<1>15. PutCounts /\ PutFile(f, g, ok) /\ (ok => PutTuples(Least, g))
  <2>1. f = [o \in DOMAIN f |-> f[o]] /\ \A o \in DOMAIN f : f[o] \in Tuples
    BY <1>12 DEF IsFile
  <2>2. MayPut(Least, f, g, ok)
    BY <1>2, <1>9, <1>11, <1>14, <2>1 DEF MayPut
  <2> QED BY ONLY <2>2, PutFacts
<1>16. /\ MergedLen \in Nat /\ MergedLen' = MergedLen + 1 /\ MergedLen' + Cardinality(LeftInRun') = Limit
       /\ out_offset <= out_offset' /\ out_offset' <= Limit /\ Len(buffer') \in Nat /\ out_offset' \in Nat
  <2>1. MergedLen' = out_offset' + Len(buffer')
    BY <1>2 DEF MergedLen
  <2>2. MergedLen = out_offset + Len(buffer) /\ MergedLen + Cardinality(LeftInRun) = Limit
    BY <1>10
  <2>3. PutCounts
    BY <1>15
  <2> QED BY ONLY <1>6, <1>9, <2>1, <2>2, <2>3 DEF PutCounts
<1>17. DOMAIN g \subseteq KeptOfRun .. out_offset' - 1 /\ (errors' = 0 => DOMAIN g = KeptOfRun .. out_offset' - 1)
  <2>1. KeptOfRun <= out_offset /\ KeptOfRun \in Nat /\ out_offset \in Nat
    BY <1>10, <1>11
  <2>2. (KeptOfRun .. out_offset - 1) \cup (out_offset .. out_offset' - 1) = KeptOfRun .. out_offset' - 1
    BY ONLY <1>16, <2>1
  <2>3. DOMAIN f \subseteq KeptOfRun .. out_offset - 1 /\ (errors = 0 => DOMAIN f = KeptOfRun .. out_offset - 1)
    BY <1>10
  <2>4. /\ DOMAIN g \subseteq DOMAIN f \cup (out_offset .. out_offset' - 1)
        /\ ok => DOMAIN g = DOMAIN f \cup (out_offset .. out_offset' - 1)
    BY <1>15 DEF PutFile
  <2> QED BY ONLY <1>7, <2>2, <2>3, <2>4
<1>18. IsFile(g, Limit)
  <2>1. DOMAIN g \subseteq 0 .. Limit - 1
    <3>1. KeptOfRun \in Nat /\ DOMAIN g \subseteq KeptOfRun .. out_offset' - 1
      BY <1>11, <1>17
    <3> QED BY ONLY <1>6, <1>16, <3>1
  <2>2. g = [o \in DOMAIN g |-> g[o]] /\ \A o \in DOMAIN g : g[o] \in Tuples
    BY <1>15 DEF PutFile
  <2> QED BY <2>1, <2>2 DEF IsFile
<1>19. KeptOfRun' = KeptOfRun
  BY <1>2 DEF KeptOfRun
<1>20. /\ temp_file' = [r \in Runs |-> temp_file'[r]]
       /\ \A r \in Runs : IsFile(temp_file'[r], Limit) /\ (r # run => temp_file'[r] = temp_file[r])
       /\ IsFile(output', Limit * file_num)
  <2>1. CASE file_num <= 1
    <3>1. file_num = 1 /\ Limit * 1 = Limit
      BY <1>5, <1>6, <2>1
    <3> QED BY <1>11, <1>13, <1>18, <2>1, <3>1
  <2>2. CASE ~(file_num <= 1)
    BY <1>5, <1>11, <1>13, <1>18, <2>2
  <2> QED BY <2>1, <2>2
<1>21. TypeOK'
  <2>1. Len(buffer') * TUPLE_SIZE < BUFFER_SIZE
    BY <1>15, FullFacts DEF PutCounts
  <2>2. ToSet(buffer') \subseteq Tuples
    BY <1>15 DEF PutCounts, ToSet
  <2>3. \A o \in DOMAIN output' : o \in 0 .. Limit * file_num - 1 /\ output'[o] \in Tuples
    BY <1>20 DEF IsFile
  <2> QED BY <1>1, <1>2, <1>4, <1>7, <1>8, <2>1, <2>2, <2>3 DEF TypeOK, lastVars
<1>22. Shape'
  <2>1. IsFile(output, Limit * file_num)' /\ \A r \in Runs : IsFile(temp_file[r], Limit)'
    BY <1>4, <1>20 DEF IsFile
  <2>2. buffer' \in Seq(Tuples) /\ out_offset' \in Nat
    BY <1>15 DEF PutCounts
  <2> QED BY <1>1, <1>2, <1>4, <1>8, <1>11, <1>20, <2>1, <2>2 DEF Shape
<1>23. Workers'
  BY <1>1, <1>2 DEF Workers
<1>24. RunsStored'
  <2>1. ASSUME NEW r \in 0 .. run - 1, StoredRun(r) PROVE StoredRun(r)'
    <3>1. r \in Runs /\ r # run
      BY <1>5 DEF Runs
    <3> QED BY <1>2, <1>7, <1>20, <2>1, <3>1, StoredRunStays
  <2>2. \A r \in Runs : r # run /\ Blank(r) => Blank(r)'
    BY <1>2, <1>20 DEF Blank
  <2>3. \A r \in Runs : r > run => r # run
    BY <1>5
  <2> QED BY <1>1, <1>2, <1>4, <2>1, <2>2, <2>3 DEF RunsStored
<1>25. MergeBounds'
  <2>1. file_num' > 1 => output' = NoFile
    BY <1>4, <1>5, <1>10, <1>13
  <2>2. IF file_num' <= 1 THEN KeptOfRun' = 0 /\ \E q \in 0 .. Limit : out_offset' = q * Buffer
        ELSE Part' >= 1 /\ KeptOfRun' = Part' /\ Part' * TUPLE_SIZE = buffer_size'
    <3>1. CASE file_num <= 1
      <4>1. PICK q \in 0 .. Limit : out_offset = q * Buffer
        BY <1>10, <3>1
      <4>2. CASE out_offset' = out_offset
        BY <1>4, <1>10, <1>19, <3>1, <4>1, <4>2
      <4>3. CASE out_offset' = out_offset + Buffer
        <5>1. q \in Nat /\ q + 1 \in Nat /\ (q + 1) * Buffer = q * Buffer + Buffer /\ 1 * (q + 1) = q + 1
              /\ 1 * (q + 1) <= Buffer * (q + 1) /\ Buffer * (q + 1) = (q + 1) * Buffer
          <6>1. q \in Nat /\ q + 1 \in Nat /\ Buffer \in Nat /\ 1 <= Buffer
            BY <1>6
          <6> QED BY <6>1, Multiplication
        <5>2. out_offset' = (q + 1) * Buffer /\ q + 1 \in 0 .. Limit
          BY ONLY <1>6, <1>16, <4>1, <4>3, <5>1
        <5> QED BY <1>4, <1>10, <1>19, <3>1, <5>2
      <4> QED BY <1>15, <4>2, <4>3 DEF PutCounts
    <3>2. CASE ~(file_num <= 1)
      <4>1. file_num > 1
        BY <1>5, <3>2
      <4> QED BY <1>4, <1>10, <1>19, <3>2, <4>1
    <3> QED BY <3>1, <3>2
  <2>3. fflag' /\ KeptOfRun' <= out_offset'
    <3>1. KeptOfRun <= out_offset /\ KeptOfRun \in Nat /\ out_offset \in Nat
      BY <1>10, <1>11
    <3>2. KeptOfRun <= out_offset'
      BY ONLY <1>16, <3>1
    <3> QED BY <1>2, <1>19, <3>2
  <2>4. DOMAIN Target' \subseteq KeptOfRun' .. out_offset' - 1
        /\ (errors' = 0 => DOMAIN Target' = KeptOfRun' .. out_offset' - 1)
    BY <1>13, <1>17, <1>19
  <2> QED BY <1>8, <1>16, <2>1, <2>2, <2>3, <2>4 DEF MergeBounds, BlocksInOrder
<1>26. MergeRight'
  <2> SUFFICES ASSUME errors' = 0 PROVE MergeRight'
    BY DEF MergeRight
  <2>1. errors = 0 /\ ok
    BY <1>7
  <2>2. ASSUME NEW i \in 0 .. MergedLen - 1
        PROVE  Merged[i] = IF i < KeptOfRun THEN temp_buf[run][i + 1]
                           ELSE IF i < out_offset THEN f[i] ELSE buffer[i - out_offset + 1]
    BY DEF Merged, f
  <2>3. ASSUME NEW i \in 0 .. MergedLen
        PROVE  Merged'[i] = IF i < KeptOfRun THEN temp_buf[run][i + 1]
                            ELSE IF i < out_offset' THEN g[i] ELSE buffer'[i - out_offset' + 1]
    <3>1. i \in 0 .. MergedLen' - 1
      BY <1>16
    <3>2. Merged' = [k \in 0 .. MergedLen' - 1 |->
                      IF k < KeptOfRun' THEN temp_buf'[run'][k + 1]
                      ELSE IF k < out_offset' THEN Target'[k] ELSE buffer'[k - out_offset' + 1]]
      BY DEF Merged
    <3>3. temp_buf'[run'] = temp_buf[run]
      BY <1>2, <1>4
    <3> QED BY <1>13, <1>19, <3>1, <3>2, <3>3
  <2>4. /\ KeptOfRun <= out_offset /\ KeptOfRun \in Nat /\ out_offset \in Nat /\ Len(buffer) \in Nat
        /\ MergedLen = out_offset + Len(buffer) /\ PutTuples(Least, g)
        /\ DOMAIN f = KeptOfRun .. out_offset - 1 /\ \A o \in DOMAIN f : o < out_offset => g[o] = f[o]
    BY <1>10, <1>11, <1>15, <2>1 DEF PutFile
  <2>5. ASSUME NEW i \in 0 .. MergedLen - 1 PROVE Merged'[i] = Merged[i]
    <3>1. i \in Nat /\ i \in 0 .. MergedLen
      BY ONLY <1>16
    <3>2. Merged[i] = IF i < KeptOfRun THEN temp_buf[run][i + 1]
                      ELSE IF i < out_offset THEN f[i] ELSE buffer[i - out_offset + 1]
      BY <2>2
    <3>3. Merged'[i] = IF i < KeptOfRun THEN temp_buf[run][i + 1]
                       ELSE IF i < out_offset' THEN g[i] ELSE buffer'[i - out_offset' + 1]
      BY <2>3, <3>1
    <3>4. CASE i < KeptOfRun
      BY ONLY <3>2, <3>3, <3>4
    <3>5. CASE ~(i < KeptOfRun) /\ i < out_offset
      <4>1. i \in DOMAIN f /\ i < out_offset'
        BY ONLY <1>16, <2>4, <3>1, <3>5
      <4>2. g[i] = f[i]
        BY <2>4, <3>5, <4>1
      <4> QED BY ONLY <3>2, <3>3, <3>5, <4>1, <4>2
    <3>6. CASE ~(i < KeptOfRun) /\ ~(i < out_offset)
      <4>1. i \in out_offset .. out_offset + Len(buffer) /\ i # out_offset + Len(buffer)
        BY ONLY <2>4, <3>1, <3>6, i \in 0 .. MergedLen - 1
      <4>2. (IF i < out_offset' THEN g[i] ELSE buffer'[i - out_offset' + 1]) = buffer[i - out_offset + 1]
        BY <2>4, <4>1 DEF PutTuples
      <4> QED BY ONLY <3>2, <3>3, <3>6, <4>2
    <3> QED BY <3>4, <3>5, <3>6
  <2>7. Merged'[MergedLen] = Least
    <3>1. /\ MergedLen \in out_offset .. out_offset + Len(buffer) /\ MergedLen = out_offset + Len(buffer)
          /\ ~(MergedLen < KeptOfRun) /\ MergedLen \in 0 .. MergedLen
      BY ONLY <2>4
    <3>2. (IF MergedLen < out_offset' THEN g[MergedLen] ELSE buffer'[MergedLen - out_offset' + 1]) = Least
      BY <2>4, <3>1 DEF PutTuples
    <3>3. Merged'[MergedLen] = IF MergedLen < KeptOfRun THEN temp_buf[run][MergedLen + 1]
                       ELSE IF MergedLen < out_offset' THEN g[MergedLen] ELSE buffer'[MergedLen - out_offset' + 1]
      BY <2>3, <3>1
    <3> QED BY ONLY <3>1, <3>2, <3>3
  <2>6. MergedLen \in Nat /\ MergedLen' = MergedLen + 1 /\ main = "merge" /\ Advance
    BY <1>2, <1>16
  <2> QED BY ONLY <1>1, <2>1, <2>5, <2>6, <2>7, MergedMore
<1>27. LastBounds' /\ LastRight' /\ AtEnd' /\ (main = "overflow" => ~Documented)'
  BY <1>2 DEF LastBounds, LastRight, AtEnd
<1> QED BY <1>21, <1>22, <1>23, <1>24, <1>25, <1>26, <1>27 DEF IInv

\* When all blocks are used up the whole run has been merged.
LEMMA RunMerged ==
  ASSUME TypeOK, Shape, RunsStored, MergeBounds, MergeRight, main = "merge", flag = Threads
  PROVE  /\ MergedLen = Limit
         /\ errors = 0 => InOrder(Merged) /\ SameTuples(Merged, InputRun(run))
<1>1. LeftInRun = {}
  <2>1. ASSUME NEW x \in Grid(THREAD_NUM, Block), partial_offset[x[1]] <= x[1] * Block + x[2] PROVE FALSE
    <3>1. x[1] \in Threads /\ x[2] \in 0 .. Block - 1 /\ Block \in Nat
      BY Sizes DEF Grid, Threads
    <3>2. partial_offset[x[1]] = (x[1] + 1) * Block
      BY <3>1 DEF MergeBounds
    <3>3. x[1] * Block \in Nat /\ (x[1] + 1) * Block = x[1] * Block + Block
      BY <3>1, Rows
    <3> QED BY ONLY <2>1, <3>1, <3>2, <3>3
  <2> QED BY <2>1 DEF LeftInRun
<1>2. MergedLen = Limit
  <2>1. MergedLen + Cardinality(LeftInRun) = Limit
    BY DEF MergeBounds
  <2>2. Cardinality({}) = 0
    BY FS_EmptySet
  <2>3. MergedLen \in Int
    <3>1. temp_buf[run] \in Seq(Tuples) /\ buffer \in Seq(Tuples) /\ out_offset \in Nat
      <4>1. run \in Runs
        BY FileFacts DEF RunsStored, TypeOK, Runs
      <4> QED BY <4>1 DEF Shape
    <3>2. Len(temp_buf[run]) \in Nat /\ Len(buffer) \in Nat
      BY <3>1
    <3> QED BY <3>1, <3>2 DEF MergedLen, KeptOfRun
  <2>4. Limit \in Nat
    BY Sizes
  <2> QED BY <1>1, <2>1, <2>2, <2>3, <2>4
<1>3. ASSUME errors = 0 PROVE InOrder(Merged) /\ SameTuples(Merged, InputRun(run))
  <2> DEFINE left == [x \in LeftInRun |-> Tuple(x)]
             done == Merged
             all == InputRun(run)
  <2>1. Merging(done, left, all)
    BY <1>3 DEF MergeRight
  <2>2. DOMAIN left = {}
    BY <1>1
  <2>3. IsFiniteSet(DOMAIN done)
    <3>1. DOMAIN done = 0 .. Limit - 1 /\ 0 \in Int /\ Limit - 1 \in Int
      BY <1>2, Sizes DEF Merged
    <3> HIDE DEF done
    <3> QED BY <3>1, FS_Interval
  <2> HIDE DEF left, done, all
  <2>4. InOrder(done) /\ SameTuples(done, all)
    BY ONLY <2>1, <2>2, <2>3, MergeEnds
  <2> QED BY <2>4 DEF done, all
<1> QED BY <1>2, <1>3

\* A run of several is stored then.
LEMMA RunIsStored ==
  ASSUME TypeOK, Shape, RunsStored, MergeBounds, MergeRight, main = "merge", flag = Threads, file_num > 1
  PROVE  StoredRun(run) /\ Fitting
<1>1. MergedLen = Limit /\ (errors = 0 => InOrder(Merged) /\ SameTuples(Merged, InputRun(run)))
  BY RunMerged
<1>2. run \in Runs /\ file_num \in Nat /\ Limit \in Nat \ {0} /\ TUPLE_SIZE \in Nat
  BY FileFacts, Sizes DEF RunsStored, TypeOK, Runs
<1>3. /\ buffer_size \in Nat /\ Part \in Nat /\ Kept \in Nat /\ Kept <= Limit /\ Kept <= Part
      /\ \A c \in Nat : c * TUPLE_SIZE < buffer_size => c <= Part
  BY <1>2, PartFacts
<1>4. temp_buf[run] \in Seq(Tuples) /\ KeptOfRun \in Nat /\ out_offset \in Nat /\ Len(buffer) \in Nat
  <2>1. temp_buf[run] \in Seq(Tuples) /\ buffer \in Seq(Tuples) /\ out_offset \in Nat
    BY <1>2 DEF Shape
  <2> QED BY <2>1 DEF KeptOfRun
<1>5. Target = temp_file[run] /\ ~(file_num <= 1)
  BY <1>2 DEF Target
<1> DEFINE f == temp_file[run]
           b == temp_buf[run]
<1>6. CASE ~fflag
  <2>1. KeptOfRun = Limit
    BY <1>1, <1>6 DEF MergedLen
  <2>2. f = NoFile /\ KeptOfRun * TUPLE_SIZE < buffer_size
    BY <1>2, <1>6, <2>1 DEF MergeBounds
  <2>3. Limit <= Part
    BY <1>3, <1>4, <2>1, <2>2
  <2>4. Kept = Limit /\ Fitting
    BY <1>2, <1>3, <2>3 DEF Kept, Fitting
  <2>5. DOMAIN f = {}
    BY <2>2 DEF NoFile
  <2>6. Stored(run) = Merged
    <3>1. Merged = [i \in 0 .. Limit - 1 |-> IF i < Limit THEN b[i + 1]
                                             ELSE IF i < out_offset THEN f[i] ELSE buffer[i - out_offset + 1]]
      BY <1>1, <1>5, <2>1 DEF Merged
    <3>2. Stored(run) = [i \in 0 .. Limit - 1 |-> IF i < Limit THEN b[i + 1] ELSE f[i]]
      BY <2>4 DEF Stored
    <3>3. \A i \in 0 .. Limit - 1 : i < Limit
      BY <1>2
    <3> QED BY <3>1, <3>2, <3>3
  <2>7. Len(b) = Kept
    BY <2>1, <2>4 DEF KeptOfRun
  <2> QED BY <1>1, <2>4, <2>5, <2>6, <2>7 DEF StoredRun, NoHoles
<1>7. CASE fflag
  <2>1. /\ Part >= 1 /\ KeptOfRun = Part /\ Part * TUPLE_SIZE = buffer_size /\ KeptOfRun <= out_offset
        /\ errors = 0 => DOMAIN f = KeptOfRun .. out_offset - 1
    BY <1>5, <1>7 DEF MergeBounds
  <2>2. out_offset + Len(buffer) = Limit
    BY <1>1, <1>7 DEF MergedLen
  <2>3. Kept = Part /\ Fitting
    <3>1. Part <= Limit
      BY ONLY <1>2, <1>3, <1>4, <2>1, <2>2
    <3>2. Kept = Part
      BY <1>2, <1>3, <3>1 DEF Kept
    <3> QED BY <2>1, <3>2 DEF Fitting
  <2>4. Len(b) = Kept
    BY <2>1, <2>3 DEF KeptOfRun
  <2>5. ASSUME errors = 0 PROVE NoHoles(f, Kept)
    <3>1. DOMAIN f = Kept .. out_offset - 1 /\ Kept \in Nat /\ out_offset \in Nat
      BY <1>3, <1>4, <2>1, <2>3, <2>5
    <3>2. ASSUME NEW o \in Kept .. out_offset - 1 PROVE o >= Kept /\ Kept .. o \subseteq Kept .. out_offset - 1
      BY ONLY <3>1, o \in Kept .. out_offset - 1
    <3> HIDE DEF f
    <3> QED BY <3>1, <3>2 DEF NoHoles
  <2>6. ASSUME errors = 0, Whole(run) PROVE Stored(run) = Merged
    <3>1. Merged = [i \in 0 .. Limit - 1 |-> IF i < Kept THEN b[i + 1]
                                             ELSE IF i < out_offset THEN f[i] ELSE buffer[i - out_offset + 1]]
      BY <1>1, <1>5, <2>1, <2>3 DEF Merged
    <3>2. Stored(run) = [i \in 0 .. Limit - 1 |-> IF i < Kept THEN b[i + 1] ELSE f[i]]
      BY DEF Stored
    <3>3. \A i \in 0 .. Limit - 1 : i < Kept \/ i < out_offset
      <4>1. CASE Part >= Limit
        <5>1. Kept = Limit
          BY <1>2, <1>3, <2>3, <4>1
        <5> QED BY <1>2, <5>1
      <4>2. CASE Limit - 1 \in DOMAIN f
        <5>1. Limit - 1 \in KeptOfRun .. out_offset - 1
          BY <2>1, <2>6, <4>2
        <5> QED BY ONLY <1>2, <1>4, <5>1
      <4> QED BY <2>6, <4>1, <4>2 DEF Whole
    <3> HIDE DEF f, b
    <3> QED BY <3>1, <3>2, <3>3
  <2> QED BY <1>1, <2>3, <2>4, <2>5, <2>6 DEF StoredRun
<1> QED BY <1>6, <1>7

\* A single run is in the output then.
LEMMA RunIsOutput ==
  ASSUME TypeOK, Shape, RunsStored, MergeBounds, MergeRight, main = "merge", flag = Threads, file_num <= 1,
         errors = 0
  PROVE  DOMAIN output = 0 .. Limit * file_num - 1 /\ InOrder(output) /\ SameTuples(output, Input)
<1>1. MergedLen = Limit /\ InOrder(Merged) /\ SameTuples(Merged, InputRun(run))
  BY RunMerged
<1>2. /\ run \in Runs /\ file_num = 1 /\ run = 0 /\ Limit \in Nat \ {0} /\ Buffer \in Nat \ {0}
      /\ 0 * Limit = 0 /\ Limit * file_num = Limit
  <2>1. run \in Runs /\ file_num \in Nat
    BY FileFacts DEF RunsStored, TypeOK, Runs
  <2>2. file_num = 1 /\ run = 0
    BY <2>1 DEF Runs
  <2>3. Limit \in Nat \ {0} /\ Buffer \in Nat \ {0}
    BY Sizes
  <2> QED BY <2>1, <2>2, <2>3
<1>3. /\ fflag /\ KeptOfRun = 0 /\ DOMAIN output = 0 .. out_offset - 1
      /\ \E q \in 0 .. Limit : out_offset = q * Buffer
  <2>1. fflag
    BY <1>2 DEF MergeBounds
  <2>2. Target = output
    BY DEF Target
  <2>3. KeptOfRun = 0 /\ \E q \in 0 .. Limit : out_offset = q * Buffer
    BY <2>1 DEF MergeBounds
  <2> QED BY <2>1, <2>2, <2>3 DEF MergeBounds
<1>4. out_offset \in Nat /\ Len(buffer) \in Nat /\ Len(buffer) < Buffer /\ out_offset + Len(buffer) = Limit
  <2>1. buffer \in Seq(Tuples) /\ out_offset \in Nat
    BY DEF Shape
  <2>2. Len(buffer) \in Nat
    BY <2>1
  <2>3. Len(buffer) < Buffer
    BY <2>2, FullFacts DEF TypeOK
  <2> QED BY <1>1, <1>3, <2>1, <2>2, <2>3 DEF MergedLen
<1>5. out_offset = Limit
  <2>1. PICK q \in 0 .. Limit : out_offset = q * Buffer
    BY <1>3
  <2>2. PICK p \in Nat : Limit = p * Buffer
    BY Sizes
  <2>3. q \in Nat /\ q + 1 \in Nat /\ (q + 1) * Buffer = q * Buffer + Buffer
    <3>1. q \in Nat /\ q + 1 \in Nat
      BY <1>2
    <3> QED BY <1>2, <3>1, Multiplication
  <2>4. p <= q
    <3>1. q + 1 <= p => (q + 1) * Buffer <= p * Buffer
      BY <1>2, <2>2, <2>3, Multiplication
    <3> QED BY ONLY <1>2, <1>4, <2>1, <2>2, <2>3, <3>1
  <2>5. p * Buffer <= q * Buffer
    BY <1>2, <2>2, <2>3, <2>4, Multiplication
  <2> QED BY ONLY <1>2, <1>4, <2>1, <2>2, <2>5
<1>6. Merged = output
  <2>1. Merged = [i \in 0 .. Limit - 1 |-> IF i < 0 THEN temp_buf[run][i + 1]
                                           ELSE IF i < Limit THEN output[i] ELSE buffer[i - Limit + 1]]
    BY <1>1, <1>3, <1>5 DEF Merged, Target
  <2>2. \A i \in 0 .. Limit - 1 : ~(i < 0) /\ i < Limit
    BY <1>2
  <2>3. output = [i \in 0 .. Limit - 1 |-> output[i]]
    BY <1>3, <1>5 DEF Shape, IsFile
  <2> QED BY <2>1, <2>2, <2>3
<1>7. InputRun(run) = Input
  BY <1>2 DEF InputRun, Input
<1> QED BY <1>1, <1>2, <1>3, <1>5, <1>6, <1>7

\* EndOfRun (main.cpp:234-238).
LEMMA EndOfRunStep == IInv /\ EndOfRun => IInv'
<1> SUFFICES ASSUME IInv, EndOfRun PROVE IInv'
  OBVIOUS
<1>1. TypeOK /\ Shape /\ Workers /\ RunsStored /\ MergeBounds /\ MergeRight
  BY DEF IInv
<1>2. /\ main = "merge" /\ flag = Threads /\ run' = run + 1
      /\ main' = CASE run + 1 < file_num -> "spawn" [] file_num <= 1 -> "end" [] OTHER -> "open"
      /\ UNCHANGED <<file, errors, worker, data, partial_offset, heap, flag, fflag, temp_buf, buffer, out_offset,
                     temp_file, output, lastVars>>
  BY DEF EndOfRun, runVars, keptVars, bufVars, fileVars
<1>3. file' = file /\ file_num' = file_num /\ Runs' = Runs /\ (Fitting' <=> Fitting) /\ Input' = Input
  BY <1>2, SameFile
<1>4. run \in Runs /\ file_num \in Nat /\ run \in Nat /\ run < file_num
  BY <1>1, <1>2, FileFacts DEF RunsStored, TypeOK, Runs
<1>5. \/ main' = "spawn" /\ run + 1 < file_num /\ file_num > 1
      \/ main' = "end" /\ file_num <= 1
      \/ main' = "open" /\ run + 1 = file_num /\ file_num > 1
  <2>1. CASE run + 1 < file_num
    <3>1. file_num > 1 /\ ~(file_num <= 1)
      BY <1>4, <2>1
    <3> QED BY <1>2, <2>1, <3>1
  <2>2. CASE ~(run + 1 < file_num)
    <3>1. run + 1 = file_num
      BY <1>4, <2>2
    <3>2. file_num > 1 \/ file_num <= 1
      BY <1>4
    <3>3. file_num <= 1 => ~(file_num > 1)
      BY <1>4
    <3> QED BY <1>2, <2>2, <3>1, <3>2, <3>3
  <2> QED BY <2>1, <2>2
<1>6. TypeOK'
  <2>1. run' \in 0 .. file_num
    BY <1>2, <1>4
  <2>2. main' \in {"spawn", "end", "open"}
    BY <1>5
  <2> QED BY <1>1, <1>2, <1>3, <2>1, <2>2 DEF TypeOK, lastVars
<1>7. Shape'
  <2>1. main' # "end" => output' = NoFile
    <3>1. file_num > 1 => output = NoFile
      BY <1>1, <1>2 DEF MergeBounds
    <3> QED BY <1>2, <1>5, <3>1
  <2> QED BY <1>1, <1>2, <1>3, <1>5, <2>1 DEF Shape, IsFile
<1>8. Workers'
  BY <1>1, <1>2, <1>5 DEF Workers
<1>9. RunsStored'
  <2>1. \A r : StoredRun(r) => StoredRun(r)'
    BY <1>2, StoredRunStays
  <2>2. \A r : Blank(r) => Blank(r)'
    BY <1>2 DEF Blank
  <2>3. ASSUME file_num > 1 PROVE Fitting /\ \A r \in 0 .. run' - 1 : StoredRun(r)
    <3>1. Fitting /\ StoredRun(run)
      BY <1>1, <1>2, <2>3, RunIsStored
    <3>2. ASSUME NEW r \in 0 .. run' - 1 PROVE StoredRun(r)
      <4>1. r = run \/ (run > 0 /\ r \in 0 .. run - 1)
        BY ONLY <1>2, <1>4, r \in 0 .. run' - 1
      <4> QED BY <1>1, <1>2, <3>1, <4>1 DEF RunsStored
    <3> QED BY <3>1, <3>2
  <2>4. \A r \in Runs : r >= run' => Blank(r)
    <3>1. \A r \in Runs : r >= run' => r > run
      BY <1>2, <1>4 DEF Runs
    <3> QED BY <1>1, <1>2, <3>1 DEF RunsStored
  <2> QED BY <1>2, <1>3, <1>5, <2>1, <2>2, <2>3, <2>4 DEF RunsStored
<1>10. AtEnd'
  <2> SUFFICES ASSUME main' = "end", errors' = 0
               PROVE  DOMAIN output' = 0 .. Limit * file_num' - 1 /\ InOrder(output)' /\ SameTuples(output, Input)'
    BY DEF AtEnd
  <2>1. file_num <= 1 /\ errors = 0
    BY <1>2, <1>5
  <2>2. DOMAIN output = 0 .. Limit * file_num - 1 /\ InOrder(output) /\ SameTuples(output, Input)
    BY <1>1, <1>2, <2>1, RunIsOutput
  <2> QED BY <1>2, <1>3, <2>2 DEF InOrder, SameTuples, Count
<1>11. MergeBounds' /\ MergeRight' /\ LastBounds' /\ LastRight' /\ (main = "overflow" => ~Documented)'
  BY <1>5 DEF MergeBounds, MergeRight, LastBounds, LastRight
<1> QED BY <1>6, <1>7, <1>8, <1>9, <1>10, <1>11 DEF IInv

-----------------------------------------------------------------------------
(***************************************************************************)
(* The steps of the last merge.                                            *)
(***************************************************************************)
\* All that is stored, by run and place.
IsAllStored(v) ==
  DOMAIN v = Grid(file_num, Limit) /\ \A r \in Runs, n \in 0 .. Limit - 1 : v[<<r, n>>] = Stored(r)[n]

\* The tuples of all runs are those of the input.
LEMMA RunsOfInput ==
  ASSUME file_num \in Nat, NEW v, IsAllStored(v),
         \A r \in Runs : SameTuples(Stored(r), InputRun(r)),
         file \in Files
  PROVE  SameTuples(v, Input)
<1> DEFINE g == [x \in Grid(file_num, Limit) |-> Input[x[1] * Limit + x[2]]]
<1>1. /\ Limit \in Nat \ {0} /\ Limit \in Nat /\ Runs = 0 .. file_num - 1 /\ file_num \in Nat
      /\ Limit * file_num = file_num * Limit
  BY Sizes, FileFacts DEF Runs
<1>2. DOMAIN Input = 0 .. file_num * Limit - 1
  BY <1>1 DEF Input
<1>3. ASSUME NEW r \in 0 .. file_num - 1
      PROVE  Row(v, r, Limit) = Stored(r) /\ Row(g, r, Limit) = InputRun(r)
  <2>1. ASSUME NEW n \in 0 .. Limit - 1
        PROVE  v[<<r, n>>] = Stored(r)[n] /\ g[<<r, n>>] = file[r * Limit + n + 1]
    <3>1. <<r, n>> \in Grid(file_num, Limit)
      BY DEF Grid
    <3>2. r * Limit + n \in 0 .. file_num * Limit - 1
      BY <1>1, Positions
    <3>3. Input[r * Limit + n] = file[r * Limit + n + 1]
      BY <1>1, <3>2 DEF Input
    <3> QED BY <1>1, <3>1, <3>3 DEF IsAllStored
  <2>2. Row(v, r, Limit) = [n \in 0 .. Limit - 1 |-> Stored(r)[n]]
    BY <2>1 DEF Row
  <2>3. Row(g, r, Limit) = [n \in 0 .. Limit - 1 |-> file[r * Limit + n + 1]]
    BY <2>1 DEF Row
  <2> QED BY <2>2, <2>3 DEF Stored, InputRun
<1>4. ASSUME NEW k \in Tuples PROVE Count(v, k) = Count(Input, k)
  <2>1. \A r \in 0 .. file_num - 1 : Count(Row(v, r, Limit), k) = Count(Row(g, r, Limit), k)
    BY <1>1, <1>3 DEF SameTuples
  <2>2. DOMAIN g = Grid(file_num, Limit)
    OBVIOUS
  <2>3. Count(g, k) = Count(Input, k)
    BY ONLY <1>1, <1>2, GridFlat
  <2> HIDE DEF g
  <2>4. Count(v, k) = Count(g, k)
    <3>1. DOMAIN v = Grid(file_num, Limit)
      BY DEF IsAllStored
    <3> QED BY ONLY <1>1, <2>1, <2>2, <3>1, GridRows
  <2> QED BY <2>3, <2>4
<1> QED BY <1>4 DEF SameTuples

\* OpenTemps (main.cpp:239-264).
LEMMA OpenTempsStep == IInv /\ OpenTemps => IInv'
<1> SUFFICES ASSUME IInv, OpenTemps PROVE IInv'
  OBVIOUS
<1>1. TypeOK /\ Shape /\ Workers /\ RunsStored
  BY DEF IInv
<1>2. /\ main = "open" /\ Open(IF file_num < IntBits THEN "last" ELSE "shift")
      /\ flag' = {} /\ buffer' = <<>> /\ out_offset' = 0 /\ output' = NoFile /\ idx' = 0
      /\ temp_in_offset' = [f \in Runs |-> 0] /\ temp_used' = [f \in Runs |-> 0]
      /\ UNCHANGED <<file, run, worker, data, partial_offset, heap, fflag, temp_buf, temp_file>>
  BY DEF OpenTemps, runVars, keptVars
<1>3. /\ file' = file /\ file_num' = file_num /\ Runs' = Runs /\ (Fitting' <=> Fitting) /\ Input' = Input
      /\ Part' = Part /\ Kept' = Kept
  BY <1>2, SameFile
<1>4. errors' \in 0 .. MaxErrors /\ (errors' = 0 => errors = 0) /\ main' \in {"last", "shift", "failed"}
  <2>1. errors \in 0 .. MaxErrors /\ (Open("last") \/ Open("shift"))
    BY <1>1, <1>2, Zenon DEF TypeOK
  <2> QED BY ONLY <2>1, OpenFacts
<1>5. /\ file_num \in Nat /\ file_num > 1 /\ run = file_num /\ file \in Files /\ Runs = 0 .. file_num - 1
      /\ Limit * file_num \in Nat /\ Limit * file_num = file_num * Limit /\ Fitting
      /\ Limit \in Nat \ {0} /\ BUFFER_SIZE \in Nat \ {0} /\ TUPLE_SIZE \in Nat /\ Buffer \in Nat
  <2>1. file_num > 1 /\ run = file_num /\ file \in Files /\ file_num \in Nat
    BY <1>1, <1>2, FileFacts DEF RunsStored, TypeOK
  <2>2. run > 0
    BY <2>1
  <2>3. Fitting
    BY <1>1, <1>2, <2>2 DEF RunsStored
  <2> QED BY <2>1, <2>3, FileFacts, Sizes, SortAssumption
<1>6. \A r \in Runs : StoredRun(r)
  <2>1. run > 0 /\ Runs = 0 .. run - 1
    BY <1>5
  <2> QED BY <1>1, <1>2, <2>1 DEF RunsStored
<1>7. Part \in Nat /\ Part >= 1 /\ Kept \in Nat /\ Kept <= Limit /\ Kept > 0
  <2>1. Part \in Nat /\ Kept \in Nat /\ Kept <= Limit /\ Part >= 1
    BY <1>5, PartFacts DEF Fitting
  <2> QED BY <1>5, <2>1 DEF Kept
<1>8. DOMAIN NoFile = {} /\ NoFile = [o \in DOMAIN NoFile |-> NoFile[o]] /\ Len(buffer') = 0 /\ DOMAIN buffer' = {}
  BY <1>2 DEF NoFile
<1>9. TypeOK'
  <2>1. Len(buffer') * TUPLE_SIZE < BUFFER_SIZE /\ ToSet(buffer') = {}
    BY <1>5, <1>8 DEF ToSet
  <2>2. \A o \in DOMAIN output' : o \in 0 .. Limit * file_num - 1 /\ output'[o] \in Tuples
    BY <1>2, <1>8
  <2> QED BY <1>1, <1>2, <1>3, <1>4, <2>1, <2>2 DEF TypeOK
<1>10. Shape'
  <2>1. IsFile(output, Limit * file_num)'
    BY <1>2, <1>8 DEF IsFile
  <2>2. buffer' \in Seq(Tuples)
    BY <1>2
  <2> QED BY <1>1, <1>2, <1>3, <1>4, <2>1, <2>2 DEF Shape, IsFile
<1>11. Workers'
  BY <1>1, <1>2, <1>4 DEF Workers
<1>12. RunsStored'
  BY <1>4 DEF RunsStored
<1>13. \A f \in Runs : /\ temp_used'[f] = 0 /\ temp_in_offset'[f] = 0 /\ Read(f)' = 0 /\ PieceLen(f)' = Kept
  <2>1. ASSUME NEW f \in Runs PROVE temp_used'[f] = 0 /\ temp_in_offset'[f] = 0
    BY <1>2
  <2>2. ASSUME NEW f \in Runs PROVE Read(f)' = 0 /\ PieceLen(f)' = Kept
    <3>1. Limit - 0 = Limit
      BY <1>5
    <3>2. PieceLen(f)' = Kept
      BY <1>3, <2>1, <3>1 DEF PieceLen, Kept
    <3> QED BY <2>1, <3>2 DEF Read
  <2> QED BY <2>1, <2>2
<1>14. Left' = Grid(file_num, Limit) /\ IsFiniteSet(Left') /\ Cardinality(Left') = Limit * file_num
  <2>1. ASSUME NEW x \in Grid(file_num, Limit) PROVE Read(x[1])' <= x[2]
    <3>1. x[1] \in Runs /\ x[2] \in Nat
      BY <1>5 DEF Grid
    <3> QED BY <1>13, <3>1
  <2>2. Left' = Grid(file_num, Limit)
    BY <1>3, <2>1 DEF Left
  <2> QED BY <1>5, <2>2, GridFacts
<1>15. CASE main' # "last"
  BY <1>4, <1>9, <1>10, <1>11, <1>12, <1>15, Elsewhere DEF IInv
<1>16. CASE main' = "last"
  <2>1. LastBounds'
    <3>1. file_num' > 1 /\ Fitting' /\ flag' \subseteq Runs' /\ idx' \in Runs' /\ idx' \notin flag'
      BY <1>2, <1>3, <1>5
    <3>2. temp_in_offset' \in [Runs' -> 0 .. Limit] /\ temp_used' \in [Runs' -> 0 .. Limit]
      <4>1. 0 \in 0 .. Limit
        BY <1>5
      <4> QED BY <1>2, <1>3, <4>1
    <3>3. ASSUME NEW f \in Runs
          PROVE  /\ Read(f)' <= Limit /\ Len(temp_buf'[f]) = Kept'
                 /\ f \notin flag' /\ temp_used'[f] < Limit /\ temp_in_offset'[f] <= PieceLen(f)'
                 /\ temp_in_offset'[f] < PieceLen(f)'
      <4>1. Len(temp_buf[f]) = Kept
        BY <1>6 DEF StoredRun
      <4> QED BY <1>2, <1>3, <1>5, <1>7, <1>13, <4>1
    <3>4. out_offset' + Len(buffer') + Cardinality(Left') = Limit * file_num'
      BY <1>2, <1>3, <1>5, <1>8, <1>14
    <3>5. \E q \in 0 .. Limit * file_num' : out_offset' = q * Buffer
      <4>1. 0 \in 0 .. Limit * file_num /\ 0 = 0 * Buffer
        BY <1>5
      <4> QED BY <1>2, <1>3, <4>1
    <3>6. DOMAIN output' = {} /\ 0 .. out_offset' - 1 = {}
      BY <1>2, <1>8
    <3> QED BY <1>3, <3>1, <3>2, <3>3, <3>4, <3>5, <3>6 DEF LastBounds
  <2>2. LastRight'
    <3> SUFFICES ASSUME errors' = 0 PROVE LastRight'
      BY DEF LastRight
    <3>1. ASSUME NEW f \in Runs
          PROVE  /\ NoHoles(temp_file[f], Kept)
                 /\ Whole(f) => InOrder(Stored(f)) /\ SameTuples(Stored(f), InputRun(f))
      BY <1>4, <1>6 DEF StoredRun
    <3>2. ASSUME NEW f \in Runs
          PROVE  /\ NoHoles(temp_file'[f], Kept')
                 /\ \A p \in Kept' .. Limit - 1 : p < temp_used'[f] + PieceLen(f)' => p \in DOMAIN temp_file'[f]
                 /\ Whole(f)' <=> Whole(f)
      <4>1. temp_used'[f] + PieceLen(f)' = Kept
        BY <1>7, <1>13
      <4>2. \A p \in Kept .. Limit - 1 : ~(p < Kept)
        BY <1>5, <1>7
      <4>3. Whole(f)' <=> Whole(f)
        BY <1>2, <1>3 DEF Whole
      <4> QED BY <1>2, <1>3, <3>1, <4>1, <4>2, <4>3
    <3>3. ASSUME NEW f \in Runs, NEW n \in 0 .. Limit - 1 PROVE Value(<<f, n>>)' = Stored(f)[n]
      <4>1. temp_used'[f] = 0 /\ PieceLen(f)' = Kept /\ 0 + Kept = Kept /\ n - 0 + 1 = n + 1
        BY <1>5, <1>7, <1>13
      <4>2. Value(<<f, n>>)' = IF n < Kept THEN temp_buf[f][n + 1] ELSE temp_file[f][n]
        BY <1>2, <4>1 DEF Value
      <4> QED BY <4>2 DEF Stored
    <3>4. ASSUME \A f \in Runs : Whole(f)
          PROVE  /\ \A x, y \in Left' : x[1] = y[1] /\ x[2] < y[2] => Value(x)' <= Value(y)'
                 /\ Merging(Out', [x \in Left |-> Value(x)]', Input')
      <4>1. \A f \in Runs : InOrder(Stored(f)) /\ SameTuples(Stored(f), InputRun(f))
        BY <3>1, <3>4
      <4>2. ASSUME NEW x \in Grid(file_num, Limit)
            PROVE  x = <<x[1], x[2]>> /\ x[1] \in Runs /\ x[2] \in 0 .. Limit - 1 /\ Value(x)' = Stored(x[1])[x[2]]
        <5>1. x = <<x[1], x[2]>> /\ x[1] \in Runs /\ x[2] \in 0 .. Limit - 1
          BY <1>5 DEF Grid
        <5> QED BY <3>3, <5>1
      <4>3. ASSUME NEW x \in Left', NEW y \in Left', x[1] = y[1], x[2] < y[2] PROVE Value(x)' <= Value(y)'
        <5>1. x[1] \in Runs /\ x[2] \in 0 .. Limit - 1 /\ y[2] \in 0 .. Limit - 1
              /\ Value(x)' = Stored(x[1])[x[2]] /\ Value(y)' = Stored(x[1])[y[2]]
          BY <1>14, <4>2, <4>3
        <5> DEFINE s == Stored(x[1])
                   a == x[2]
                   b == y[2]
        <5>2. DOMAIN s = 0 .. Limit - 1 /\ InOrder(s)
          BY <4>1, <5>1 DEF Stored
        <5>3. a \in 0 .. Limit - 1 /\ b \in 0 .. Limit - 1 /\ a < b /\ Value(x)' = s[a] /\ Value(y)' = s[b]
          BY <4>3, <5>1
        <5> HIDE DEF s, a, b
        <5>4. s[a] <= s[b]
          BY ONLY <5>2, <5>3 DEF InOrder
        <5> QED BY <5>3, <5>4
      <4> DEFINE v == [x \in Left |-> Value(x)]'
      <4>4. DOMAIN v = Left'
        OBVIOUS
      <4>5. \A r \in Runs, n \in 0 .. Limit - 1 : v[<<r, n>>] = Stored(r)[n]
        <5>1. ASSUME NEW r \in Runs, NEW n \in 0 .. Limit - 1 PROVE <<r, n>> \in Left'
          BY <1>5, <1>14 DEF Grid
        <5> QED BY <3>3, <5>1
      <4> HIDE DEF v
      <4>6. SameTuples(v, Input)
        <5>1. DOMAIN v = Grid(file_num, Limit) /\ file_num \in Nat /\ file \in Files
          BY <1>5, <1>14, <4>4
        <5>2. \A r \in Runs : SameTuples(Stored(r), InputRun(r))
          BY <4>1
        <5>3. IsAllStored(v)
          BY ONLY <4>5, <5>1 DEF IsAllStored
        <5> QED BY ONLY <5>1, <5>2, <5>3, RunsOfInput
      <4>7. DOMAIN Out' = {}
        <5>1. out_offset' + Len(buffer') = 0
          BY <1>2, <1>8
        <5>2. DOMAIN Out' = 0 .. out_offset' + Len(buffer') - 1
          BY DEF Out
        <5>3. out_offset' \in Nat /\ Len(buffer') \in Nat
          BY <1>2, <1>8
        <5> QED BY ONLY <5>1, <5>2, <5>3
      <4>8. Merging(Out', v, Input)
        BY ONLY <1>14, <4>4, <4>6, <4>7, MergeBegins
      <4> QED BY <1>3, <4>3, <4>8 DEF v
    <3>5. \A f \in Runs : Whole(f)' <=> Whole(f)
      BY <3>2
    <3> QED BY <1>3, <3>2, <3>4, <3>5 DEF LastRight
  <2>3. MergeBounds' /\ MergeRight' /\ AtEnd' /\ (main = "overflow" => ~Documented)'
    BY <1>16 DEF MergeBounds, MergeRight, AtEnd
  <2> QED BY <1>9, <1>10, <1>11, <1>12, <2>1, <2>2, <2>3 DEF IInv
<1> QED BY <1>4, <1>15, <1>16

\* What holds of the pieces in memory.
LEMMA PieceFacts ==
  ASSUME TypeOK, Shape, LastBounds, main \in {"last", "piece"}, NEW f \in Runs
  PROVE  /\ temp_in_offset[f] \in Nat /\ temp_used[f] \in Nat /\ temp_used[f] <= Limit
         /\ Read(f) = temp_in_offset[f] + temp_used[f] /\ Read(f) \in Nat /\ Read(f) <= Limit
         /\ PieceLen(f) \in Nat /\ PieceLen(f) <= Part /\ PieceLen(f) + temp_used[f] <= Limit /\ PieceLen(f) <= Kept
         /\ PieceLen(f) # Part => PieceLen(f) + temp_used[f] = Limit
         /\ temp_buf[f] \in Seq(Tuples) /\ Len(temp_buf[f]) = Kept
         /\ \A n \in 1 .. Kept : temp_buf[f][n] \in Tuples
         /\ temp_used[f] < Limit => PieceLen(f) >= 1
         /\ IsFile(temp_file[f], Limit)
<1>1. /\ temp_in_offset[f] \in 0 .. Limit /\ temp_used[f] \in 0 .. Limit /\ Read(f) <= Limit /\ Len(temp_buf[f]) = Kept
      /\ file_num > 1 /\ Fitting
  BY DEF LastBounds
<1>2. file_num \in Nat \ {0} /\ Limit \in Nat \ {0}
  BY <1>1, FileFacts, Sizes DEF TypeOK
<1>3. Part \in Nat /\ Part >= 1 /\ Kept \in Nat
  BY <1>1, <1>2, PartFacts DEF Fitting
<1>4. temp_buf[f] \in Seq(Tuples) /\ IsFile(temp_file[f], Limit)
  BY DEF Shape
<1>5. /\ PieceLen(f) \in Nat /\ PieceLen(f) <= Part /\ PieceLen(f) + temp_used[f] <= Limit
      /\ PieceLen(f) # Part => PieceLen(f) + temp_used[f] = Limit
      /\ temp_used[f] < Limit => PieceLen(f) >= 1
  BY <1>1, <1>2, <1>3 DEF PieceLen
<1>6. PieceLen(f) <= Kept
  BY ONLY <1>1, <1>2, <1>3, <1>5 DEF Kept
<1>7. \A n \in 1 .. Kept : temp_buf[f][n] \in Tuples
  BY <1>1, <1>4
<1>8. Read(f) = temp_in_offset[f] + temp_used[f] /\ Read(f) \in Nat
  BY <1>1, <1>2 DEF Read
<1> QED BY <1>1, <1>2, <1>4, <1>5, <1>6, <1>7, <1>8

\* The left tuples are finitely many places of the grid.
LEMMA LeftFacts ==
  ASSUME TypeOK, LastBounds, main \in {"last", "piece"}
  PROVE  /\ IsFiniteSet(Left) /\ Cardinality(Left) \in Nat
         /\ \A x \in Left : x = <<x[1], x[2]>> /\ x[1] \in Runs /\ x[2] \in 0 .. Limit - 1 /\ Read(x[1]) <= x[2]
         /\ \A f \in Runs, n \in 0 .. Limit - 1 : <<f, n>> \in Left <=> Read(f) <= n
<1>1. file_num \in Nat /\ Limit \in Nat /\ Runs = 0 .. file_num - 1
  BY FileFacts, Sizes DEF TypeOK
<1>2. IsFiniteSet(Left) /\ Cardinality(Left) \in Nat
  <2>1. Left \in SUBSET Grid(file_num, Limit) /\ IsFiniteSet(Grid(file_num, Limit))
    BY <1>1, GridFacts DEF Left
  <2> QED BY <2>1, FS_Subset, FS_CardinalityType
<1>3. \A x \in Left : x = <<x[1], x[2]>> /\ x[1] \in Runs /\ x[2] \in 0 .. Limit - 1 /\ Read(x[1]) <= x[2]
  BY <1>1 DEF Left, Grid
<1>4. \A f \in Runs, n \in 0 .. Limit - 1 : <<f, n>> \in Left <=> Read(f) <= n
  BY <1>1 DEF Left, Grid
<1> QED BY <1>2, <1>3, <1>4

\* The tuples that are left, when the files of the runs are whole.
LEMMA ValueFacts ==
  ASSUME TypeOK, Shape, LastBounds, LastRight, main \in {"last", "piece"}, errors = 0, \A f \in Runs : Whole(f),
         NEW x \in Left
  PROVE  Value(x) \in Tuples
<1> DEFINE f == x[1]
           n == x[2]
<1>1. f \in Runs /\ n \in 0 .. Limit - 1 /\ Read(f) <= n
  BY LeftFacts
<1> HIDE DEF f, n
<1>2. /\ temp_in_offset[f] \in Nat /\ temp_used[f] \in Nat /\ Read(f) = temp_in_offset[f] + temp_used[f]
      /\ PieceLen(f) \in Nat /\ PieceLen(f) + temp_used[f] <= Limit /\ PieceLen(f) <= Kept
      /\ PieceLen(f) # Part => PieceLen(f) + temp_used[f] = Limit
      /\ \A k \in 1 .. Kept : temp_buf[f][k] \in Tuples
      /\ IsFile(temp_file[f], Limit)
  BY <1>1, PieceFacts
<1>3. Limit \in Nat /\ Kept \in Nat /\ Part \in Nat
  <2>1. file_num \in Nat \ {0} /\ Limit \in Nat \ {0}
    BY FileFacts, Sizes DEF TypeOK, LastBounds
  <2> QED BY <2>1, PartFacts
<1>4. CASE n < temp_used[f] + PieceLen(f)
  <2>1. n - temp_used[f] + 1 \in 1 .. Kept
    BY ONLY <1>1, <1>2, <1>3, <1>4
  <2>2. Value(x) = temp_buf[f][n - temp_used[f] + 1]
    BY <1>4 DEF Value, f, n
  <2> QED BY <1>2, <2>1, <2>2
<1>5. CASE ~(n < temp_used[f] + PieceLen(f))
  <2>1. PieceLen(f) = Part /\ Part <= n /\ Part < Limit
    BY ONLY <1>1, <1>2, <1>3, <1>5
  <2>2. Kept = Part
    BY <2>1 DEF Kept
  <2>3. Limit - 1 \in DOMAIN temp_file[f]
    BY <1>1, <1>3, <2>1 DEF Whole
  <2>4. Kept .. Limit - 1 \subseteq DOMAIN temp_file[f]
    BY <1>1, <2>3 DEF LastRight, NoHoles
  <2>5. n \in DOMAIN temp_file[f]
    BY <1>1, <1>3, <2>1, <2>2, <2>4
  <2>6. Value(x) = temp_file[f][n]
    BY <1>5 DEF Value, f, n
  <2> QED BY <1>2, <2>5, <2>6 DEF IsFile
<1> QED BY <1>4, <1>5

\* The run that is chosen has the least tuple that is left.
LEMMA ChoiceFacts ==
  ASSUME TypeOK, Shape, LastBounds, main = "last", flag # Runs
  PROVE  /\ LeastRun \in Runs \ flag /\ First(LeastRun) \in Tuples
         /\ temp_in_offset[LeastRun] < PieceLen(LeastRun)
         /\ Read(LeastRun) \in 0 .. Limit - 1
         /\ <<LeastRun, Read(LeastRun)>> \in Left
         /\ First(LeastRun) = Value(<<LeastRun, Read(LeastRun)>>)
         /\ LastRight /\ errors = 0 /\ (\A f \in Runs : Whole(f)) =>
              \A x \in Left : Value(x) \in Nat /\ First(LeastRun) <= Value(x)
<1>1. ASSUME NEW f \in Runs \ flag
      PROVE  /\ First(f) \in Tuples /\ First(f) \in Nat /\ temp_in_offset[f] < PieceLen(f)
             /\ Read(f) \in 0 .. Limit - 1 /\ <<f, Read(f)>> \in Left /\ First(f) = Value(<<f, Read(f)>>)
  <2>1. /\ temp_in_offset[f] \in Nat /\ temp_used[f] \in Nat /\ Read(f) = temp_in_offset[f] + temp_used[f]
        /\ PieceLen(f) \in Nat /\ PieceLen(f) + temp_used[f] <= Limit /\ PieceLen(f) <= Kept
        /\ \A k \in 1 .. Kept : temp_buf[f][k] \in Tuples
    BY PieceFacts
  <2>2. temp_in_offset[f] < PieceLen(f)
    BY DEF LastBounds
  <2>3. Limit \in Nat /\ Kept \in Nat
    <3>1. file_num \in Nat \ {0} /\ Limit \in Nat \ {0}
      BY FileFacts, Sizes DEF TypeOK, LastBounds
    <3> QED BY <3>1, PartFacts
  <2>4. temp_in_offset[f] + 1 \in 1 .. Kept /\ Read(f) \in 0 .. Limit - 1 /\ Read(f) <= Read(f)
    BY ONLY <2>1, <2>2, <2>3
  <2>5. First(f) \in Tuples
    BY <2>1, <2>4 DEF First
  <2>6. Value(<<f, Read(f)>>) = First(f)
    <3>1. Read(f) < temp_used[f] + PieceLen(f) /\ Read(f) - temp_used[f] + 1 = temp_in_offset[f] + 1
      BY ONLY <2>1, <2>2
    <3>2. Value(<<f, Read(f)>>) = temp_buf[f][Read(f) - temp_used[f] + 1]
      BY <3>1 DEF Value
    <3> QED BY <3>1, <3>2 DEF First
  <2> QED BY <2>2, <2>4, <2>5, <2>6, LeftFacts, TuplesAreNumbers
<1>2. LeastRun \in Runs \ flag /\ \A f \in Runs \ flag : First(LeastRun) <= First(f)
  <2>1. file_num \in Nat /\ idx \in Runs \ flag /\ \A f \in Runs \ flag : First(f) \in Nat
    BY <1>1, FileFacts DEF TypeOK, LastBounds
  <2> QED BY ONLY <2>1, LeastRunFacts
<1>3. ASSUME LastRight, errors = 0, \A f \in Runs : Whole(f), NEW x \in Left
      PROVE  Value(x) \in Nat /\ First(LeastRun) <= Value(x)
  <2>1. Value(x) \in Nat
    BY <1>3, ValueFacts, TuplesAreNumbers
  <2>2. x = <<x[1], x[2]>> /\ x[1] \in Runs /\ x[2] \in 0 .. Limit - 1 /\ Read(x[1]) <= x[2]
    BY LeftFacts
  <2> DEFINE f == x[1]
  <2>3. f \notin flag
    <3>1. ASSUME f \in flag PROVE FALSE
      <4>1. temp_used[f] = Limit /\ temp_in_offset[f] = 0 /\ Limit \in Nat
        BY <2>2, <3>1, Sizes DEF LastBounds
      <4>2. Read(f) = Limit
        BY <4>1 DEF Read
      <4> QED BY <2>2, <4>1, <4>2
    <3> QED BY <3>1
  <2>4. f \in Runs \ flag
    BY <2>2, <2>3
  <2> DEFINE y == <<f, Read(f)>>
  <2>5. First(f) = Value(y) /\ y \in Left /\ Read(f) \in Nat /\ First(f) \in Nat /\ y[1] = x[1] /\ y[2] = Read(f)
    BY <1>1, <2>4
  <2>6. Value(y) <= Value(x)
    <3>1. CASE Read(f) = x[2]
      BY <2>1, <2>2, <3>1
    <3>2. CASE Read(f) # x[2]
      <4>1. y[2] < x[2]
        BY <2>2, <2>5, <3>2
      <4>2. \A u, v \in Left : u[1] = v[1] /\ u[2] < v[2] => Value(u) <= Value(v)
        BY <1>3 DEF LastRight
      <4> HIDE DEF y, f
      <4> QED BY <2>5, <4>1, <4>2
    <3> QED BY <3>1, <3>2
  <2>7. First(LeastRun) <= First(f) /\ First(LeastRun) \in Nat
    BY <1>1, <1>2, <2>4
  <2> HIDE DEF y, f
  <2> QED BY ONLY <2>1, <2>5, <2>6, <2>7
<1> QED BY <1>1, <1>2, <1>3

\* What the steps of the last merge do not touch.
LEMMA LastElsewhere ==
  ASSUME IInv, main \in {"last", "piece"}, main' \in {"last", "piece", "spin"}, errors' \in 0 .. MaxErrors,
         UNCHANGED <<file, run, worker, data, partial_offset, heap, fflag, temp_file>>,
         IsFile(output', Limit * file_num),
         buffer' \in Seq(Tuples), Len(buffer') < Buffer, out_offset' \in Nat, flag' \subseteq Runs,
         temp_buf' = [r \in Runs |-> temp_buf'[r]], \A r \in Runs : temp_buf'[r] \in Seq(Tuples)
  PROVE  /\ TypeOK' /\ Shape' /\ Workers' /\ RunsStored' /\ MergeBounds' /\ MergeRight' /\ AtEnd'
         /\ (main = "overflow" => ~Documented)'
<1>1. TypeOK /\ Shape /\ Workers
  BY DEF IInv
<1>2. file_num' = file_num /\ Runs' = Runs
  BY SameFile
<1>3. TypeOK'
  <2>1. Len(buffer') * TUPLE_SIZE < BUFFER_SIZE
    BY FullFacts
  <2>2. ToSet(buffer') \subseteq Tuples
    BY DEF ToSet
  <2>3. \A o \in DOMAIN output' : o \in 0 .. Limit * file_num - 1 /\ output'[o] \in Tuples
    BY DEF IsFile
  <2> QED BY <1>1, <1>2, <2>1, <2>2, <2>3 DEF TypeOK
<1>4. Shape'
  <2>1. IsFile(output, Limit * file_num)' /\ \A r \in Runs : IsFile(temp_file[r], Limit)'
    BY <1>1, <1>2 DEF IsFile, Shape
  <2> QED BY <1>1, <1>2, <2>1 DEF Shape
<1>5. Workers' /\ RunsStored'
  BY <1>1 DEF Workers, RunsStored
<1> QED BY <1>3, <1>4, <1>5 DEF MergeBounds, MergeRight, AtEnd

\* The tuple that is taken was the next of its run.
LEMMA LeftTaken ==
  ASSUME TypeOK, LastBounds, main \in {"last", "piece"}, file' = file,
         NEW m \in Runs, Read(m) \in 0 .. Limit - 1,
         temp_in_offset' = [temp_in_offset EXCEPT ![m] = @ + 1], temp_used' = temp_used
  PROVE  /\ Left' = Left \ {<<m, Read(m)>>} /\ Cardinality(Left) = Cardinality(Left') + 1
         /\ Cardinality(Left') \in Nat
         /\ temp_in_offset'[m] = temp_in_offset[m] + 1 /\ Read(m)' = Read(m) + 1
         /\ \A f \in Runs : PieceLen(f)' = PieceLen(f)
         /\ \A f \in Runs : f # m => temp_in_offset'[f] = temp_in_offset[f] /\ Read(f)' = Read(f)
<1>1. temp_in_offset \in [Runs -> 0 .. Limit] /\ temp_used \in [Runs -> 0 .. Limit]
  BY DEF LastBounds
<1>2. Limit \in Nat /\ file_num \in Nat /\ Runs = 0 .. file_num - 1 /\ file_num' = file_num
      /\ Part' = Part /\ Runs' = Runs
  BY FileFacts, Sizes, SameFile DEF TypeOK
<1>3. temp_in_offset'[m] = temp_in_offset[m] + 1 /\ \A f \in Runs : f # m => temp_in_offset'[f] = temp_in_offset[f]
  BY <1>1
<1>4. /\ \A f \in Runs : f # m => Read(f)' = Read(f)
      /\ Read(m)' = Read(m) + 1
  <2>1. temp_in_offset[m] \in Nat /\ temp_used[m] \in Nat
    BY <1>1, <1>2
  <2>2. Read(m)' = temp_in_offset[m] + 1 + temp_used[m]
    BY <1>3 DEF Read
  <2> QED BY <1>3, <2>1, <2>2 DEF Read
<1>5. \A f \in Runs : PieceLen(f)' = PieceLen(f)
  BY <1>2 DEF PieceLen
<1> DEFINE a == <<m, Read(m)>>
<1>6. ASSUME NEW x \in Grid(file_num, Limit) PROVE x \in Left' <=> x \in Left \ {a}
  <2>1. x = <<x[1], x[2]>> /\ x[1] \in Runs /\ x[2] \in 0 .. Limit - 1
    BY <1>2 DEF Grid
  <2>2. x \in Left' <=> Read(x[1])' <= x[2]
    BY <1>2 DEF Left
  <2>3. x \in Left <=> Read(x[1]) <= x[2]
    BY DEF Left
  <2>4. CASE x[1] # m
    BY <1>4, <2>1, <2>2, <2>3, <2>4
  <2>5. CASE x[1] = m
    <3>1. x = a <=> x[2] = Read(m)
      BY <2>1, <2>5
    <3>2. Read(m)' = Read(m) + 1
      BY <1>4
    <3> HIDE DEF a
    <3>3. Read(m)' <= x[2] <=> Read(m) <= x[2] /\ x[2] # Read(m)
      BY ONLY <2>1, <3>2, Read(m) \in 0 .. Limit - 1
    <3> QED BY <2>2, <2>3, <2>5, <3>1, <3>3
  <2> QED BY <2>4, <2>5
<1>7. Left' \subseteq Grid(file_num, Limit) /\ Left \subseteq Grid(file_num, Limit)
  BY <1>2 DEF Left
<1>8. Left' = Left \ {a}
  BY <1>6, <1>7
<1>9. IsFiniteSet(Left) /\ Cardinality(Left) \in Nat /\ a \in Left
  <2>1. Read(m) <= Read(m)
    OBVIOUS
  <2> QED BY <2>1, LeftFacts
<1>10. Cardinality(Left') = Cardinality(Left) - 1 /\ IsFiniteSet(Left')
  BY <1>8, <1>9, FS_RemoveElement
<1>11. Cardinality(Left') \in Nat
  BY <1>10, FS_CardinalityType
<1>12. Cardinality(Left) = Cardinality(Left') + 1
  BY ONLY <1>9, <1>10, <1>11
<1> QED BY <1>3, <1>4, <1>5, <1>8, <1>11, <1>12

\* TakeTuple (main.cpp:267-281).
LEMMA TakeTupleStep == IInv /\ TakeTuple => IInv'
<1> SUFFICES ASSUME IInv, TakeTuple PROVE IInv'
  OBVIOUS
<1>1. TypeOK /\ Shape /\ LastBounds /\ LastRight
  BY DEF IInv
<1>2. /\ main = "last" /\ flag # Runs /\ main' = "piece" /\ idx' = LeastRun
      /\ temp_in_offset' = [temp_in_offset EXCEPT ![LeastRun] = @ + 1] /\ Put(First(LeastRun))
      /\ UNCHANGED <<file, run, worker, data, partial_offset, heap, flag, fflag, temp_buf, temp_file, temp_used>>
  BY DEF TakeTuple, runVars, keptVars
<1>3. PICK ok \in BOOLEAN : Try(ok) /\ output' = Flushed(First(LeastRun), output, ok)
  BY DEF TakeTuple
<1>m. PICK m \in Runs, t \in Tuples : m = LeastRun /\ t = First(LeastRun)
  BY <1>1, <1>2, ChoiceFacts
<1>a. PICK a : a = <<m, Read(m)>>
  OBVIOUS
<1>4. /\ m \in Runs \ flag /\ t \in Tuples /\ temp_in_offset[m] < PieceLen(m)
      /\ Read(m) \in 0 .. Limit - 1 /\ a \in Left /\ t = Value(a)
      /\ errors = 0 /\ (\A f \in Runs : Whole(f)) => \A x \in Left : Value(x) \in Nat /\ t <= Value(x)
  BY <1>1, <1>2, <1>m, <1>a, ChoiceFacts
<1>5. errors \in 0 .. MaxErrors /\ errors' \in 0 .. MaxErrors /\ (errors' = 0 => errors = 0 /\ ok)
  <2>1. errors \in 0 .. MaxErrors
    BY <1>1 DEF TypeOK
  <2>2. CASE ok
    BY <1>3, <2>1, <2>2 DEF Try, Succeeds
  <2>3. CASE ~ok
    BY <1>3, <2>1, <2>3, SortAssumption DEF Try, Fails
  <2> QED BY <2>2, <2>3
<1>6. /\ file' = file /\ file_num' = file_num /\ Runs' = Runs /\ (Fitting' <=> Fitting) /\ Input' = Input
      /\ Part' = Part /\ Kept' = Kept
  BY <1>2, SameFile
<1>7. /\ file_num \in Nat /\ Limit \in Nat \ {0} /\ Buffer \in Nat \ {0} /\ Limit * file_num \in Nat
      /\ Runs = 0 .. file_num - 1
  BY <1>1, Sizes, FileFacts DEF TypeOK
<1>8. /\ buffer \in Seq(Tuples) /\ Len(buffer) \in Nat /\ Len(buffer) < Buffer /\ out_offset \in Nat
      /\ IsFile(output, Limit * file_num)
      /\ temp_buf = [r \in Runs |-> temp_buf[r]] /\ \A r \in Runs : temp_buf[r] \in Seq(Tuples)
  <2>1. /\ buffer \in Seq(Tuples) /\ out_offset \in Nat /\ IsFile(output, Limit * file_num)
        /\ temp_buf = [r \in Runs |-> temp_buf[r]] /\ \A r \in Runs : temp_buf[r] \in Seq(Tuples)
    BY <1>1, <1>2 DEF Shape
  <2>2. Len(buffer) \in Nat
    BY <2>1
  <2> QED BY <1>1, <2>1, <2>2, FullFacts DEF TypeOK
<1>9. PutCounts /\ PutFile(output, output', ok) /\ (ok => PutTuples(t, output'))
  <2>1. output = [o \in DOMAIN output |-> output[o]] /\ \A o \in DOMAIN output : output[o] \in Tuples
    BY <1>8 DEF IsFile
  <2>2. MayPut(t, output, output', ok)
    BY <1>2, <1>3, <1>4, <1>8, <1>m, <2>1 DEF MayPut
  <2> QED BY ONLY <2>2, PutFacts
<1>10. /\ Left' = Left \ {a} /\ Cardinality(Left) = Cardinality(Left') + 1
       /\ Cardinality(Left') \in Nat
       /\ temp_in_offset'[m] = temp_in_offset[m] + 1 /\ Read(m)' = Read(m) + 1
       /\ \A f \in Runs : PieceLen(f)' = PieceLen(f)
       /\ \A f \in Runs : f # m => temp_in_offset'[f] = temp_in_offset[f] /\ Read(f)' = Read(f)
  <2>1. m \in Runs
    BY <1>4
  <2>2. main \in {"last", "piece"}
    BY <1>2
  <2>3. /\ file' = file /\ temp_in_offset' = [temp_in_offset EXCEPT ![m] = @ + 1] /\ temp_used' = temp_used
    BY <1>2, <1>m
  <2>4. Read(m) \in 0 .. Limit - 1 /\ a = <<m, Read(m)>> /\ TypeOK /\ LastBounds
    BY <1>1, <1>4, <1>a
  <2> QED BY ONLY <2>1, <2>2, <2>3, <2>4, LeftTaken
<1>11. /\ out_offset + Len(buffer) + Cardinality(Left) = Limit * file_num
       /\ DOMAIN output \subseteq 0 .. out_offset - 1
       /\ errors = 0 => DOMAIN output = 0 .. out_offset - 1
       /\ \E q \in 0 .. Limit * file_num : out_offset = q * Buffer
       /\ file_num > 1 /\ Fitting /\ flag \subseteq Runs
       /\ temp_in_offset \in [Runs -> 0 .. Limit] /\ temp_used \in [Runs -> 0 .. Limit]
  BY <1>1, <1>2 DEF LastBounds
<1>12. /\ out_offset' + Len(buffer') + Cardinality(Left') = Limit * file_num /\ out_offset' <= Limit * file_num
       /\ out_offset' \in Nat /\ Len(buffer') \in Nat /\ out_offset <= out_offset'
       /\ out_offset' + Len(buffer') = out_offset + Len(buffer) + 1
  <2>1. /\ out_offset + Len(buffer) + Cardinality(Left) = Limit * file_num
        /\ Cardinality(Left) = Cardinality(Left') + 1 /\ Cardinality(Left') \in Nat
    BY <1>10, <1>11
  <2>2. /\ out_offset' \in Nat /\ Len(buffer') \in Nat /\ out_offset <= out_offset'
        /\ out_offset' + Len(buffer') = out_offset + Len(buffer) + 1
    BY <1>9 DEF PutCounts
  <2> DEFINE all == Limit * file_num
  <2>3. all \in Nat /\ out_offset + Len(buffer) + Cardinality(Left) = all
    BY <1>7, <2>1
  <2>4. out_offset \in Nat /\ Len(buffer) \in Nat
    BY <1>8
  <2> HIDE DEF all
  <2>5. out_offset' + Len(buffer') + Cardinality(Left') = all /\ out_offset' <= all
    BY ONLY <2>1, <2>2, <2>3, <2>4
  <2> QED BY ONLY <2>2, <2>5 DEF all
<1>13. /\ DOMAIN output' \subseteq 0 .. out_offset' - 1
       /\ errors' = 0 => DOMAIN output' = 0 .. out_offset' - 1
  <2>1. (0 .. out_offset - 1) \cup (out_offset .. out_offset' - 1) = 0 .. out_offset' - 1
    BY ONLY <1>8, <1>12
  <2>2. /\ DOMAIN output' \subseteq DOMAIN output \cup (out_offset .. out_offset' - 1)
        /\ ok => DOMAIN output' = DOMAIN output \cup (out_offset .. out_offset' - 1)
    BY <1>9 DEF PutFile
  <2>3. /\ DOMAIN output \subseteq 0 .. out_offset - 1
        /\ errors = 0 => DOMAIN output = 0 .. out_offset - 1
    BY <1>11
  <2> QED BY ONLY <1>5, <2>1, <2>2, <2>3
<1>14. IsFile(output', Limit * file_num)
  <2>1. DOMAIN output' \subseteq 0 .. Limit * file_num - 1
    BY ONLY <1>7, <1>12, <1>13
  <2>2. output' = [o \in DOMAIN output' |-> output'[o]] /\ \A o \in DOMAIN output' : output'[o] \in Tuples
    BY <1>9 DEF PutFile
  <2> QED BY <2>1, <2>2 DEF IsFile
<1>15. \E q \in 0 .. Limit * file_num : out_offset' = q * Buffer
  <2>1. PICK q \in 0 .. Limit * file_num : out_offset = q * Buffer
    BY <1>11
  <2>2. CASE out_offset' = out_offset
    BY <2>1, <2>2
  <2>3. CASE out_offset' = out_offset + Buffer
    <3>1. q \in Nat /\ q + 1 \in Nat /\ (q + 1) * Buffer = q * Buffer + Buffer /\ 1 * (q + 1) = q + 1
          /\ 1 * (q + 1) <= Buffer * (q + 1) /\ Buffer * (q + 1) = (q + 1) * Buffer
      <4>1. q \in Nat /\ q + 1 \in Nat /\ Buffer \in Nat /\ 1 <= Buffer
        BY <1>7
      <4> QED BY <4>1, Multiplication
    <3>2. out_offset' = (q + 1) * Buffer /\ q + 1 \in 0 .. Limit * file_num
      BY ONLY <1>7, <1>12, <2>1, <2>3, <3>1
    <3> QED BY <3>2
  <2> QED BY <1>9, <2>2, <2>3 DEF PutCounts
<1>16. ASSUME NEW f \in Runs
       PROVE  /\ temp_in_offset'[f] \in 0 .. Limit /\ Read(f)' <= Limit /\ Len(temp_buf'[f]) = Kept'
              /\ f \in flag' => temp_used'[f] = Limit /\ temp_in_offset'[f] = 0
              /\ f \notin flag' =>
                   /\ temp_used'[f] < Limit /\ temp_in_offset'[f] <= PieceLen(f)'
                   /\ f # idx' => temp_in_offset'[f] < PieceLen(f)'
  <2>1. /\ temp_in_offset[f] \in Nat /\ temp_used[f] \in Nat /\ PieceLen(f) \in Nat /\ PieceLen(f) + temp_used[f] <= Limit
        /\ Read(f) \in Nat /\ Read(f) <= Limit
    BY <1>1, <1>2, PieceFacts
  <2>2. /\ f \in flag => temp_used[f] = Limit /\ temp_in_offset[f] = 0
        /\ f \notin flag => temp_used[f] < Limit /\ temp_in_offset[f] < PieceLen(f)
        /\ Len(temp_buf[f]) = Kept /\ temp_in_offset[f] \in 0 .. Limit
    BY <1>1, <1>2 DEF LastBounds
  <2>3. /\ Len(temp_buf'[f]) = Kept' /\ temp_used'[f] = temp_used[f] /\ (f \in flag' <=> f \in flag)
        /\ PieceLen(f)' = PieceLen(f) /\ idx' = m /\ m \notin flag
    BY <1>2, <1>4, <1>m, <1>6, <1>10, <2>2
  <2>4. CASE f = m
    <3>1. temp_in_offset'[f] = temp_in_offset[f] + 1 /\ Read(f)' = Read(f) + 1 /\ Read(f) < Limit
          /\ temp_in_offset[f] < PieceLen(f) /\ f \notin flag
      <4>1. /\ temp_in_offset'[m] = temp_in_offset[m] + 1 /\ Read(m)' = Read(m) + 1
            /\ Read(m) \in 0 .. Limit - 1 /\ temp_in_offset[m] < PieceLen(m) /\ m \notin flag
        BY <1>4, <1>10
      <4>2. Read(m) < Limit
        BY ONLY <1>7, <4>1
      <4> QED BY <2>4, <4>1, <4>2
    <3>2. temp_in_offset'[f] \in 0 .. Limit /\ Read(f)' <= Limit /\ temp_in_offset'[f] <= PieceLen(f)
      BY ONLY <1>7, <2>1, <3>1
    <3>3. f \notin flag' /\ f = idx' /\ temp_used'[f] < Limit /\ PieceLen(f)' = PieceLen(f)
      BY <2>2, <2>3, <2>4, <3>1
    <3> QED BY ONLY <2>3, <3>2, <3>3
  <2>5. CASE f # m
    <3>1. temp_in_offset'[f] = temp_in_offset[f] /\ Read(f)' = Read(f)
      BY <1>10, <2>5
    <3>2. temp_in_offset'[f] \in 0 .. Limit /\ Read(f)' <= Limit
      BY ONLY <2>1, <2>2, <3>1
    <3>3. f \in flag' => temp_used'[f] = Limit /\ temp_in_offset'[f] = 0
      BY ONLY <2>2, <2>3, <3>1
    <3>4. f \notin flag' => temp_used'[f] < Limit /\ temp_in_offset'[f] < PieceLen(f)'
      BY ONLY <2>2, <2>3, <3>1
    <3>5. f \notin flag' => temp_in_offset'[f] <= PieceLen(f)'
      BY ONLY <2>1, <2>3, <3>1, <3>4
    <3> QED BY ONLY <2>3, <3>2, <3>3, <3>4, <3>5
  <2> QED BY <2>4, <2>5
<1>17. LastBounds'
  <2>1. temp_in_offset' \in [Runs' -> 0 .. Limit]
    BY <1>2, <1>6, <1>11, <1>16
  <2>2. flag' \subseteq Runs' /\ idx' \in Runs' /\ main' = "piece" /\ idx' \notin flag'
    BY <1>2, <1>4, <1>m, <1>6, <1>11
  <2>3. temp_used' \in [Runs' -> 0 .. Limit] /\ file_num' > 1 /\ Fitting'
    BY <1>2, <1>6, <1>11
  <2> QED BY <1>6, <1>12, <1>13, <1>15, <1>16, <2>1, <2>2, <2>3 DEF LastBounds
<1>18. LastRight'
  <2> SUFFICES ASSUME errors' = 0 PROVE LastRight'
    BY DEF LastRight
  <2>1. errors = 0 /\ ok
    BY <1>5
  <2>2. ASSUME NEW f \in Runs
        PROVE  /\ NoHoles(temp_file'[f], Kept')
               /\ \A p \in Kept' .. Limit - 1 : p < temp_used'[f] + PieceLen(f)' => p \in DOMAIN temp_file'[f]
               /\ Whole(f)' <=> Whole(f)
    <3>1. temp_file' = temp_file /\ temp_used' = temp_used /\ PieceLen(f)' = PieceLen(f)
      BY <1>2, <1>10
    <3>2. /\ NoHoles(temp_file[f], Kept)
          /\ \A p \in Kept .. Limit - 1 : p < temp_used[f] + PieceLen(f) => p \in DOMAIN temp_file[f]
      BY <1>1, <1>2, <2>1 DEF LastRight
    <3> QED BY <1>6, <3>1, <3>2 DEF Whole, NoHoles
  <2>3. ASSUME NEW x \in Left PROVE Value(x)' = Value(x)
    <3>1. x[1] \in Runs
      BY <1>1, <1>2, LeftFacts
    <3>2. PieceLen(x[1])' = PieceLen(x[1]) /\ temp_used' = temp_used /\ temp_buf' = temp_buf /\ temp_file' = temp_file
      BY <1>2, <1>10, <3>1
    <3> QED BY <3>2 DEF Value
  <2>4. ASSUME \A f \in Runs : Whole(f)
        PROVE  /\ \A x, y \in Left' : x[1] = y[1] /\ x[2] < y[2] => Value(x)' <= Value(y)'
               /\ Merging(Out, [x \in Left |-> Value(x)], Input)'
    <3>1. /\ \A x, y \in Left : x[1] = y[1] /\ x[2] < y[2] => Value(x) <= Value(y)
          /\ Merging(Out, [x \in Left |-> Value(x)], Input)
      BY <1>1, <1>2, <2>1, <2>4 DEF LastRight
    <3>2. \A x, y \in Left' : x[1] = y[1] /\ x[2] < y[2] => Value(x)' <= Value(y)'
      <4>1. \A x \in Left' : x \in Left /\ Value(x)' = Value(x)
        BY <1>10, <2>3
      <4> QED BY <3>1, <4>1
    <3> DEFINE left == [x \in Left |-> Value(x)]
               left2 == [x \in Left' |-> Value(x)']
    <3>3. PICK n \in Nat : n = out_offset + Len(buffer) /\ out_offset' + Len(buffer') = n + 1
      BY ONLY <1>8, <1>12
    <3>out. /\ Out = [i \in 0 .. n - 1 |-> IF i < out_offset THEN output[i] ELSE buffer[i - out_offset + 1]]
           /\ Out' = [i \in 0 .. n |-> IF i < out_offset' THEN output'[i] ELSE buffer'[i - out_offset' + 1]]
      <4>1. Out = [i \in 0 .. out_offset + Len(buffer) - 1 |-> IF i < out_offset THEN output[i] ELSE buffer[i - out_offset + 1]]
        BY DEF Out
      <4>2. Out' = [i \in 0 .. out_offset' + Len(buffer') - 1 |-> IF i < out_offset' THEN output'[i] ELSE buffer'[i - out_offset' + 1]]
        BY DEF Out
      <4>3. out_offset + Len(buffer) - 1 = n - 1 /\ out_offset' + Len(buffer') - 1 = n
        BY ONLY <1>8, <1>12, <3>3
      <4> QED BY ONLY <4>1, <4>2, <4>3
    <3>4. \A i \in 0 .. n - 1 : Out[i] = IF i < out_offset THEN output[i] ELSE buffer[i - out_offset + 1]
      BY <3>out
    <3>5. \A i \in 0 .. n : Out'[i] = IF i < out_offset' THEN output'[i] ELSE buffer'[i - out_offset' + 1]
      BY <3>out
    <3>6. PutTuples(t, output') /\ (\A o \in DOMAIN output : o < out_offset => output'[o] = output[o])
          /\ DOMAIN output = 0 .. out_offset - 1
      BY <1>9, <1>11, <2>1 DEF PutFile
    <3>7. ASSUME NEW i \in 0 .. n - 1 PROVE Out'[i] = Out[i]
      <4>1. i \in Nat /\ i \in 0 .. n
        BY ONLY <3>3, i \in 0 .. n - 1
      <4>2. Out[i] = IF i < out_offset THEN output[i] ELSE buffer[i - out_offset + 1]
        BY <3>4
      <4>3. Out'[i] = IF i < out_offset' THEN output'[i] ELSE buffer'[i - out_offset' + 1]
        BY <3>5, <4>1
      <4>4. CASE i < out_offset
        <5>1. i \in DOMAIN output /\ i < out_offset'
          BY ONLY <1>8, <1>12, <3>6, <4>1, <4>4
        <5>2. output'[i] = output[i]
          BY <3>6, <4>4, <5>1
        <5> QED BY ONLY <4>2, <4>3, <4>4, <5>1, <5>2
      <4>5. CASE ~(i < out_offset)
        <5>1. i \in out_offset .. out_offset + Len(buffer) /\ i # out_offset + Len(buffer)
          BY ONLY <1>8, <3>3, <4>1, <4>5, i \in 0 .. n - 1
        <5>2. (IF i < out_offset' THEN output'[i] ELSE buffer'[i - out_offset' + 1]) = buffer[i - out_offset + 1]
          BY <3>6, <5>1 DEF PutTuples
        <5> QED BY ONLY <4>2, <4>3, <4>5, <5>2
      <4> QED BY <4>4, <4>5
    <3>8. Out'[n] = t
      <4>1. n \in out_offset .. out_offset + Len(buffer) /\ n \in 0 .. n
        BY ONLY <1>8, <3>3
      <4>2. (IF n < out_offset' THEN output'[n] ELSE buffer'[n - out_offset' + 1]) = t
        BY <3>3, <3>6, <4>1 DEF PutTuples
      <4> QED BY <3>5, <4>1, <4>2
    <3>9. /\ DOMAIN Out = 0 .. n - 1 /\ DOMAIN Out' = 0 .. n
      BY <3>out
    <3>10. /\ DOMAIN left = Left /\ IsFiniteSet(DOMAIN left) /\ a \in DOMAIN left /\ left[a] = t
           /\ \A x \in DOMAIN left : left[x] \in Nat /\ left[a] <= left[x]
           /\ DOMAIN left2 = DOMAIN left \ {a} /\ \A x \in DOMAIN left2 : left2[x] = left[x]
      <4>1. IsFiniteSet(Left)
        BY <1>1, <1>2, LeftFacts
      <4>2. \A x \in Left' : x \in Left /\ Value(x)' = Value(x)
        BY <1>10, <2>3
      <4>3. \A x \in Left : Value(x) \in Nat /\ t <= Value(x)
        BY <1>4, <2>1, <2>4
      <4> QED BY <1>4, <1>10, <4>1, <4>2, <4>3
    <3>11. Merging(Out', left2, Input)
      <4>1. Merging(Out, left, Input)
        BY <3>1
      <4>2. Out'[n] = left[a]
        BY <3>8, <3>10
      <4> HIDE DEF left, left2
      <4> QED BY ONLY <3>3, <3>7, <3>9, <3>10, <4>1, <4>2, MergeStep
    <3>12. Merging(Out, [x \in Left |-> Value(x)], Input)'
      BY <1>6, <3>11 DEF Merging
    <3> QED BY <3>2, <3>12
  <2> QED BY <1>6, <2>2, <2>4 DEF LastRight
<1>19. /\ TypeOK' /\ Shape' /\ Workers' /\ RunsStored' /\ MergeBounds' /\ MergeRight' /\ AtEnd'
       /\ (main = "overflow" => ~Documented)'
  <2>1. main \in {"last", "piece"} /\ main' \in {"last", "piece", "spin"}
    BY <1>2
  <2>2. /\ buffer' \in Seq(Tuples) /\ Len(buffer') < Buffer /\ out_offset' \in Nat
    BY <1>9 DEF PutCounts
  <2>3. /\ flag' \subseteq Runs /\ temp_buf' = [r \in Runs |-> temp_buf'[r]] /\ \A r \in Runs : temp_buf'[r] \in Seq(Tuples)
    BY <1>2, <1>8, <1>11
  <2> QED BY <1>2, <1>5, <1>14, <2>1, <2>2, <2>3, LastElsewhere
<1> QED BY <1>17, <1>18, <1>19 DEF IInv

\* The tests at the end of a piece notice its end, neither early nor late.
LEMMA PieceEnds ==
  ASSUME TypeOK, Shape, LastBounds, main = "piece"
  PROVE  /\ idx \in Runs /\ idx \notin flag /\ temp_in_offset[idx] <= PieceLen(idx) /\ temp_used[idx] < Limit
         /\ UsedUp(idx) \/ PieceRead(idx) <=> temp_in_offset[idx] = PieceLen(idx)
         /\ UsedUp(idx) <=> Read(idx) = Limit
         /\ ~UsedUp(idx) /\ PieceRead(idx) => PieceLen(idx) = Part /\ Part < Limit
<1> DEFINE f == idx
           c == temp_in_offset[f]
           u == temp_used[f]
           p == PieceLen(f)
<1>1. f \in Runs /\ f \notin flag /\ c <= p /\ u < Limit /\ Fitting /\ file_num > 1
  BY DEF LastBounds
<1>2. /\ c \in Nat /\ u \in Nat /\ Read(f) = c + u /\ Read(f) \in Nat /\ Read(f) <= Limit
      /\ p \in Nat /\ p <= Part /\ p + u <= Limit /\ (p # Part => p + u = Limit)
  BY <1>1, PieceFacts
<1>3. Limit \in Nat /\ file_num \in Nat \ {0}
  BY <1>1, FileFacts, Sizes DEF TypeOK
<1>4. /\ Part \in Nat
      /\ c * TUPLE_SIZE < buffer_size => c <= Part
      /\ c * TUPLE_SIZE >= buffer_size => c >= Part
  BY <1>2, <1>3, PartFacts
<1>5. (UsedUp(f) <=> Read(f) >= Limit) /\ (PieceRead(f) <=> c * TUPLE_SIZE >= buffer_size)
  BY DEF UsedUp, PieceRead
<1>6. Part * TUPLE_SIZE = buffer_size \/ Part >= Limit
  BY <1>1 DEF Fitting
<1>7. c = Part /\ Part < Limit => PieceRead(f)
  <2> SUFFICES ASSUME c = Part, Part < Limit PROVE PieceRead(f)
    OBVIOUS
  <2>1. Part * TUPLE_SIZE = buffer_size
    BY ONLY <1>3, <1>4, <1>6, Part < Limit
  <2>2. buffer_size \in Nat
    BY <1>3, PartFacts
  <2> QED BY <1>5, <2>1, <2>2
<1> HIDE DEF c, u, p, f
<1>8. PieceRead(f) => c >= Part
  BY ONLY <1>4, <1>5
<1>9. UsedUp(f) \/ PieceRead(f) <=> c = p
  BY ONLY <1>1, <1>2, <1>3, <1>4, <1>5, <1>7, <1>8
<1>10. ~UsedUp(f) /\ PieceRead(f) => p = Part /\ Part < Limit
  BY ONLY <1>1, <1>2, <1>3, <1>4, <1>5, <1>8
<1>11. UsedUp(f) <=> Read(f) = Limit
  BY ONLY <1>2, <1>3, <1>5
<1> QED BY <1>1, <1>9, <1>10, <1>11 DEF f, c, u, p

\* The tuples that are left, and what has been written, when their values stay.
LEMMA LastRightStays ==
  ASSUME LastRight, main \in {"last", "piece"}, errors = 0,
         UNCHANGED <<file, temp_file, buffer, out_offset, output>>,
         Left' = Left, \A x \in Left : (\A f \in Runs : Whole(f)) => Value(x)' = Value(x),
         \A f \in Runs : \A p \in Kept .. Limit - 1 :
           p < temp_used'[f] + PieceLen(f)' => p \in DOMAIN temp_file[f]
  PROVE  LastRight'
<1>1. Runs' = Runs /\ Kept' = Kept /\ Part' = Part /\ Input' = Input
  BY SameFile
<1>2. \A f \in Runs : NoHoles(temp_file'[f], Kept) /\ (Whole(f)' <=> Whole(f))
  BY <1>1 DEF LastRight, NoHoles, Whole
<1>3. Out' = Out
  BY DEF Out
<1>4. ASSUME \A f \in Runs : Whole(f)
      PROVE  /\ \A x, y \in Left' : x[1] = y[1] /\ x[2] < y[2] => Value(x)' <= Value(y)'
             /\ Merging(Out, [x \in Left |-> Value(x)], Input)'
  <2>1. /\ \A x, y \in Left : x[1] = y[1] /\ x[2] < y[2] => Value(x) <= Value(y)
        /\ Merging(Out, [x \in Left |-> Value(x)], Input)
    BY <1>4 DEF LastRight
  <2>2. [x \in Left' |-> Value(x)'] = [x \in Left |-> Value(x)]
    BY <1>4
  <2>3. Merging(Out', [x \in Left' |-> Value(x)'], Input')
    BY ONLY <1>1, <1>3, <2>1, <2>2
  <2>4. Merging(Out, [x \in Left |-> Value(x)], Input)'
    BY <2>3 DEF Merging
  <2> QED BY <1>4, <2>1, <2>4
<1> QED BY <1>1, <1>2, <1>4 DEF LastRight

\* GoOn (main.cpp:282-299).
LEMMA GoOnStep == IInv /\ GoOn => IInv'
<1> SUFFICES ASSUME IInv, GoOn PROVE IInv'
  OBVIOUS
<1>1. TypeOK /\ Shape /\ LastBounds /\ LastRight
  BY DEF IInv
<1>2. /\ main = "piece" /\ ~UsedUp(idx) /\ ~PieceRead(idx) /\ main' = "last"
      /\ UNCHANGED <<file, errors, run, worker, data, partial_offset, heap, flag, fflag, temp_buf, buffer,
                     out_offset, temp_file, output, idx, temp_in_offset, temp_used>>
  BY DEF GoOn, runVars, keptVars, bufVars, fileVars, lastVars
<1>3. temp_in_offset[idx] < PieceLen(idx)
  <2>1. /\ idx \in Runs /\ temp_in_offset[idx] <= PieceLen(idx) /\ temp_in_offset[idx] # PieceLen(idx)
    BY <1>1, <1>2, PieceEnds
  <2>2. temp_in_offset[idx] \in Nat /\ PieceLen(idx) \in Nat
    BY <1>1, <1>2, <2>1, PieceFacts
  <2> QED BY <2>1, <2>2
<1>4. /\ file_num' = file_num /\ Runs' = Runs /\ Part' = Part /\ Kept' = Kept /\ Input' = Input
      /\ (Fitting' <=> Fitting)
  BY <1>2, SameFile
<1>5. /\ Left' = Left /\ \A f \in Runs : PieceLen(f)' = PieceLen(f) /\ Read(f)' = Read(f)
      /\ \A x \in Left : Value(x)' = Value(x)
  <2>1. \A f : PieceLen(f)' = PieceLen(f) /\ Read(f)' = Read(f)
    BY <1>2, <1>4 DEF PieceLen, Read
  <2> QED BY <1>2, <1>4, <2>1 DEF Left, Value
<1>6. LastBounds'
  <2>1. \A f \in Runs : f \notin flag => temp_in_offset[f] < PieceLen(f)
    BY <1>1, <1>2, <1>3 DEF LastBounds
  <2>2. \A f \in Runs : f \notin flag' => temp_in_offset'[f] < PieceLen(f)'
    BY <1>2, <1>5, <2>1
  <2> QED BY <1>1, <1>2, <1>4, <1>5, <2>2 DEF LastBounds
<1>7. LastRight'
  <2> SUFFICES ASSUME errors' = 0 PROVE LastRight'
    BY DEF LastRight
  <2>1. \A f \in Runs : \A p \in Kept .. Limit - 1 :
           p < temp_used'[f] + PieceLen(f)' => p \in DOMAIN temp_file[f]
    BY <1>1, <1>2, <1>5 DEF LastRight
  <2> QED BY <1>1, <1>2, <1>5, <2>1, LastRightStays
<1>8. /\ TypeOK' /\ Shape' /\ Workers' /\ RunsStored' /\ MergeBounds' /\ MergeRight' /\ AtEnd'
      /\ (main = "overflow" => ~Documented)'
  <2>1. /\ buffer \in Seq(Tuples) /\ out_offset \in Nat /\ IsFile(output, Limit * file_num)
        /\ temp_buf = [r \in Runs |-> temp_buf[r]] /\ \A r \in Runs : temp_buf[r] \in Seq(Tuples)
    BY <1>1, <1>2 DEF Shape
  <2>2. Len(buffer) < Buffer
    BY <1>1, <2>1, FullFacts DEF TypeOK
  <2>3. errors' \in 0 .. MaxErrors /\ flag \subseteq Runs
    BY <1>1, <1>2 DEF TypeOK, LastBounds
  <2> QED BY <1>2, <2>1, <2>2, <2>3, LastElsewhere
<1> QED BY <1>6, <1>7, <1>8 DEF IInv

\* A new piece begins where the last ended.
LEMMA NextPieceFacts ==
  ASSUME TypeOK, Shape, LastBounds, NextPiece, NEW m, m = idx
  PROVE  /\ main = "piece" /\ m \in Runs /\ m \notin flag /\ temp_in_offset[m] = PieceLen(m) /\ PieceLen(m) >= 1
         /\ temp_used'[m] = Read(m) /\ temp_in_offset'[m] = 0
         /\ temp_in_offset' \in [Runs -> 0 .. Limit] /\ temp_used' \in [Runs -> 0 .. Limit]
         /\ Left' = Left /\ \A f \in Runs : Read(f)' = Read(f)
         /\ \A f \in Runs : f # m => /\ temp_in_offset'[f] = temp_in_offset[f] /\ temp_used'[f] = temp_used[f]
                                     /\ PieceLen(f)' = PieceLen(f)
         /\ PieceLen(m)' = IF Part < Limit - Read(m) THEN Part ELSE Limit - Read(m)
<1>1. /\ main = "piece" /\ (UsedUp(idx) \/ PieceRead(idx)) /\ file' = file
      /\ temp_used' = [temp_used EXCEPT ![m] = Read(m)] /\ temp_in_offset' = [temp_in_offset EXCEPT ![m] = 0]
  BY DEF NextPiece
<1>2. m \in Runs /\ m \notin flag /\ temp_in_offset[m] = PieceLen(m) /\ temp_used[m] < Limit
  BY <1>1, PieceEnds
<1>3. temp_in_offset \in [Runs -> 0 .. Limit] /\ temp_used \in [Runs -> 0 .. Limit] /\ Fitting /\ file_num > 1
  BY <1>1 DEF LastBounds
<1>4. /\ Limit \in Nat /\ 0 \in 0 .. Limit /\ file_num' = file_num /\ Part' = Part
  BY <1>1, Sizes, SameFile
<1>5. Read(m) \in 0 .. Limit /\ Read(m) \in Nat /\ PieceLen(m) >= 1
  BY <1>1, <1>2, <1>4, PieceFacts
<1>6. /\ temp_used'[m] = Read(m) /\ temp_in_offset'[m] = 0
      /\ temp_in_offset' \in [Runs -> 0 .. Limit] /\ temp_used' \in [Runs -> 0 .. Limit]
      /\ \A f \in Runs : f # m => temp_in_offset'[f] = temp_in_offset[f] /\ temp_used'[f] = temp_used[f]
  BY <1>1, <1>2, <1>3, <1>4, <1>5
<1>7. ASSUME NEW f \in Runs PROVE Read(f)' = Read(f)
  <2>1. Read(f)' = temp_in_offset'[f] + temp_used'[f] /\ Read(f) = temp_in_offset[f] + temp_used[f]
    BY DEF Read
  <2>2. CASE f = m
    BY <1>5, <1>6, <2>1, <2>2
  <2>3. CASE f # m
    BY <1>6, <2>1, <2>3
  <2> QED BY <2>2, <2>3
<1>8. Left' = Left
  <2>1. \A x \in Grid(file_num, Limit) : x[1] \in Runs
    BY DEF Grid, Runs
  <2> QED BY <1>4, <1>7, <2>1 DEF Left
<1>9. \A f \in Runs : f # m => PieceLen(f)' = PieceLen(f)
  BY <1>4, <1>6 DEF PieceLen
<1>10. PieceLen(m)' = IF Part < Limit - Read(m) THEN Part ELSE Limit - Read(m)
  <2>1. PieceLen(m)' = IF Part' < Limit - temp_used'[m] THEN Part' ELSE Limit - temp_used'[m]
    BY DEF PieceLen
  <2> QED BY <1>4, <1>6, <2>1
<1> QED BY <1>1, <1>2, <1>5, <1>6, <1>7, <1>8, <1>9, <1>10

\* RunUsedUp (main.cpp:282-292).
LEMMA RunUsedUpStep == IInv /\ RunUsedUp => IInv'
<1> SUFFICES ASSUME IInv, RunUsedUp PROVE IInv'
  OBVIOUS
<1>1. TypeOK /\ Shape /\ LastBounds /\ LastRight
  BY DEF IInv
<1>2. PICK m : m = idx
  OBVIOUS
<1>3. /\ NextPiece /\ UsedUp(m) /\ main' = "last" /\ flag' = flag \cup {m}
      /\ idx' = IF flag' = Runs THEN m ELSE Min(Runs \ flag')
      /\ UNCHANGED <<file, errors, run, worker, data, partial_offset, heap, fflag, temp_buf, buffer,
                     out_offset, temp_file, output>>
  BY <1>2 DEF RunUsedUp, NextPiece, runVars, bufVars, fileVars
<1>4. /\ main = "piece" /\ m \in Runs /\ m \notin flag /\ temp_in_offset[m] = PieceLen(m) /\ PieceLen(m) >= 1
      /\ temp_used'[m] = Read(m) /\ temp_in_offset'[m] = 0
      /\ temp_in_offset' \in [Runs -> 0 .. Limit] /\ temp_used' \in [Runs -> 0 .. Limit]
      /\ Left' = Left /\ \A f \in Runs : Read(f)' = Read(f)
      /\ \A f \in Runs : f # m => /\ temp_in_offset'[f] = temp_in_offset[f] /\ temp_used'[f] = temp_used[f]
                                  /\ PieceLen(f)' = PieceLen(f)
      /\ PieceLen(m)' = IF Part < Limit - Read(m) THEN Part ELSE Limit - Read(m)
  BY <1>1, <1>2, <1>3, NextPieceFacts
<1>5. /\ file_num' = file_num /\ Runs' = Runs /\ Part' = Part /\ Kept' = Kept /\ Input' = Input
      /\ (Fitting' <=> Fitting)
  BY <1>3, SameFile
<1>6. file_num \in Nat \ {0} /\ Runs = 0 .. file_num - 1 /\ Limit \in Nat /\ Part \in Nat /\ Part >= 1
  <2>1. file_num \in Nat \ {0} /\ Runs = 0 .. file_num - 1 /\ Limit \in Nat /\ Fitting
    BY <1>1, <1>4, FileFacts, Sizes DEF TypeOK, LastBounds
  <2> QED BY <2>1, PartFacts DEF Fitting
<1>7. Read(m) = Limit
  BY <1>1, <1>2, <1>3, <1>4, PieceEnds
<1>8. PieceLen(m)' = 0
  BY <1>4, <1>6, <1>7
<1>9. idx' \in Runs /\ (flag' # Runs => idx' \notin flag')
  <2>1. CASE flag' = Runs
    BY <1>3, <1>4, <2>1
  <2>2. CASE flag' # Runs
    <3> DEFINE rest == Runs \ flag'
    <3>1. flag' \subseteq Runs
      BY <1>1, <1>3, <1>4 DEF LastBounds
    <3>2. rest \subseteq Nat /\ rest # {}
      <4>1. Runs \subseteq Nat
        BY ONLY <1>6
      <4> QED BY ONLY <2>2, <3>1, <4>1
    <3>3. \E x \in rest : \A y \in rest : x <= y
      BY <3>2, Smallest
    <3>4. idx' \in rest
      BY <1>3, <2>2, <3>3 DEF Min
    <3> QED BY <3>4
  <2> QED BY <2>1, <2>2
<1>10. LastBounds'
  <2>1. ASSUME NEW f \in Runs
        PROVE  /\ Read(f)' <= Limit /\ Len(temp_buf'[f]) = Kept'
               /\ f \in flag' => temp_used'[f] = Limit /\ temp_in_offset'[f] = 0
               /\ f \notin flag' => temp_used'[f] < Limit /\ temp_in_offset'[f] < PieceLen(f)'
               /\ f \notin flag' => temp_in_offset'[f] <= PieceLen(f)'
    <3>1. Read(f) <= Limit /\ Len(temp_buf[f]) = Kept /\ temp_in_offset[f] \in Nat /\ PieceLen(f) \in Nat
      BY <1>1, <1>4, PieceFacts
    <3>2. /\ f \in flag => temp_used[f] = Limit /\ temp_in_offset[f] = 0
          /\ f \notin flag /\ f # m => temp_used[f] < Limit /\ temp_in_offset[f] < PieceLen(f)
      BY <1>1, <1>2, <1>4 DEF LastBounds
    <3>3. Read(f)' <= Limit /\ Len(temp_buf'[f]) = Kept'
      BY <1>3, <1>4, <1>5, <3>1
    <3>4. CASE f = m
      <4>1. f \in flag' /\ temp_used'[f] = Limit /\ temp_in_offset'[f] = 0
        BY <1>3, <1>4, <1>7, <3>4
      <4> QED BY <3>3, <4>1
    <3>5. CASE f # m
      BY <1>3, <1>4, <3>1, <3>2, <3>3, <3>5
    <3> QED BY <3>4, <3>5
  <2>2. /\ out_offset + Len(buffer) + Cardinality(Left) = Limit * file_num
        /\ DOMAIN output \subseteq 0 .. out_offset - 1
        /\ errors = 0 => DOMAIN output = 0 .. out_offset - 1
        /\ \E q \in 0 .. Limit * file_num : out_offset = q * Buffer
        /\ file_num > 1 /\ Fitting /\ flag \subseteq Runs
    BY <1>1, <1>4 DEF LastBounds
  <2>3. flag' \subseteq Runs' /\ main' # "piece" /\ file_num' > 1 /\ Fitting'
    BY <1>3, <1>4, <1>5, <2>2
  <2>4. /\ out_offset' + Len(buffer') + Cardinality(Left') = Limit * file_num'
        /\ DOMAIN output' \subseteq 0 .. out_offset' - 1
        /\ errors' = 0 => DOMAIN output' = 0 .. out_offset' - 1
        /\ \E q \in 0 .. Limit * file_num' : out_offset' = q * Buffer
    BY <1>3, <1>4, <1>5, <2>2
  <2> QED BY <1>4, <1>5, <1>9, <2>1, <2>3, <2>4 DEF LastBounds
<1>11. LastRight'
  <2> SUFFICES ASSUME errors' = 0 PROVE LastRight'
    BY DEF LastRight
  <2>1. errors = 0 /\ main \in {"last", "piece"}
    BY <1>3, <1>4
  <2>2. ASSUME NEW f \in Runs, NEW p \in Kept .. Limit - 1, p < temp_used'[f] + PieceLen(f)'
        PROVE  p \in DOMAIN temp_file[f]
    <3>1. p < temp_used[f] + PieceLen(f) => p \in DOMAIN temp_file[f]
      BY <1>1, <2>1 DEF LastRight
    <3>2. CASE f = m
      <4>1. temp_in_offset[m] \in Nat /\ temp_used[m] \in Nat /\ Read(m) = temp_in_offset[m] + temp_used[m] /\ Kept \in Nat
        BY <1>1, <1>4, <1>6, PieceFacts, PartFacts
      <4>2. p < temp_used[m] + PieceLen(m)
        BY ONLY <1>4, <1>6, <1>7, <4>1, p \in Kept .. Limit - 1
      <4> QED BY <3>1, <3>2, <4>2
    <3>3. CASE f # m
      BY <1>4, <2>2, <3>1, <3>3
    <3> QED BY <3>2, <3>3
  <2>3. ASSUME NEW x \in Left PROVE Value(x)' = Value(x)
    <3>1. x[1] \in Runs /\ x[2] \in 0 .. Limit - 1 /\ Read(x[1]) <= x[2]
      BY <1>1, <2>1, LeftFacts
    <3>2. x[1] # m
      BY <1>6, <1>7, <3>1
    <3>3. temp_used'[x[1]] = temp_used[x[1]] /\ PieceLen(x[1])' = PieceLen(x[1])
      BY <1>4, <3>1, <3>2
    <3> QED BY <1>3, <3>3 DEF Value
  <2> QED BY <1>1, <1>3, <1>4, <2>1, <2>2, <2>3, LastRightStays
<1>12. /\ TypeOK' /\ Shape' /\ Workers' /\ RunsStored' /\ MergeBounds' /\ MergeRight' /\ AtEnd'
       /\ (main = "overflow" => ~Documented)'
  <2>1. /\ buffer \in Seq(Tuples) /\ out_offset \in Nat /\ IsFile(output, Limit * file_num)
        /\ temp_buf = [r \in Runs |-> temp_buf[r]] /\ \A r \in Runs : temp_buf[r] \in Seq(Tuples)
    BY <1>1, <1>4 DEF Shape
  <2>2. Len(buffer) < Buffer
    BY <1>1, <2>1, FullFacts DEF TypeOK
  <2>3. errors' \in 0 .. MaxErrors /\ flag' \subseteq Runs /\ main \in {"last", "piece"} /\ main' \in {"last", "piece", "spin"}
    BY <1>1, <1>3, <1>4 DEF TypeOK, LastBounds
  <2> QED BY <1>3, <2>1, <2>2, <2>3, LastElsewhere
<1> QED BY <1>10, <1>11, <1>12 DEF IInv

\* The piece that is read: as long as there is room in memory and a rest of the run.
LEMMA RefillFacts ==
  ASSUME TypeOK, Shape, LastBounds, NextPiece, NEW m, m = idx, ~UsedUp(m)
  PROVE  /\ rsz(m) \in Nat /\ rsz(m) >= 1 /\ rsz(m) <= Kept /\ Read(m) + rsz(m) <= Limit /\ Read(m) < Limit
         /\ rsz(m) = PieceLen(m)' /\ Kept = Part /\ Part < Limit /\ Kept \in Nat
         /\ Read(m) = temp_used[m] + PieceLen(m) /\ Read(m) >= Kept /\ Read(m) \in Nat
<1>1. /\ main = "piece" /\ m \in Runs /\ m \notin flag /\ temp_in_offset[m] = PieceLen(m) /\ PieceLen(m) >= 1
      /\ PieceLen(m)' = IF Part < Limit - Read(m) THEN Part ELSE Limit - Read(m)
  BY NextPieceFacts
<1>2. UsedUp(m) \/ PieceRead(m)
  BY DEF NextPiece
<1>3. PieceLen(m) = Part /\ Part < Limit /\ (UsedUp(m) <=> Read(m) = Limit)
  BY <1>1, <1>2, PieceEnds
<1>4. /\ temp_used[m] \in Nat /\ Read(m) = temp_in_offset[m] + temp_used[m] /\ Read(m) \in Nat /\ Read(m) <= Limit
      /\ PieceLen(m) \in Nat
  BY <1>1, PieceFacts
<1>5. Limit \in Nat /\ Part \in Nat /\ Kept = Part
  BY <1>1, <1>3, <1>4, Sizes DEF Kept
<1>6. Read(m) < Limit /\ Limit - Read(m) \in Nat
  BY ONLY <1>3, <1>4, <1>5, ~UsedUp(m)
<1> DEFINE d == Limit - Read(m)
<1>7. rsz(m) = IF Part < d THEN Part ELSE d
  <2>1. rsz(m) = Min({Part, d})
    BY DEF rsz, Part
  <2>2. d \in Nat /\ Part \in Nat
    BY <1>5, <1>6
  <2> HIDE DEF d
  <2>3. \A a, b \in Nat : Min({a, b}) = IF a < b THEN a ELSE b
    <3>1. ASSUME NEW a \in Nat, NEW b \in Nat PROVE Min({a, b}) = IF a < b THEN a ELSE b
      <4>1. \E x \in {a, b} : \A y \in {a, b} : x <= y
        OBVIOUS
      <4>2. Min({a, b}) \in {a, b} /\ \A y \in {a, b} : Min({a, b}) <= y
        BY <4>1 DEF Min
      <4> QED BY <4>2
    <3> QED BY <3>1
  <2> QED BY <2>1, <2>2, <2>3
<1>8. rsz(m) = PieceLen(m)'
  BY <1>1, <1>7
<1>9. rsz(m) \in Nat /\ rsz(m) >= 1 /\ rsz(m) <= Part /\ Read(m) + rsz(m) <= Limit
  BY ONLY <1>1, <1>3, <1>4, <1>5, <1>6, <1>7
<1>10. Read(m) = temp_used[m] + PieceLen(m) /\ Read(m) >= Kept
  BY ONLY <1>1, <1>3, <1>4, <1>5
<1> QED BY <1>3, <1>4, <1>5, <1>6, <1>8, <1>9, <1>10

\* The piece overwrites the beginning of temp_buf and leaves its length.
Loads(f, s, n, b, c) ==
  /\ s \in Nat /\ n \in Nat /\ b \in Seq(Tuples) /\ n <= Len(b) /\ \A o \in DOMAIN f : f[o] \in Tuples
  /\ c = Piece(f, s, n) \o SubSeq(b, n + 1, Len(b))

Loaded(f, s, n, b, c) ==
  /\ c \in Seq(Tuples) /\ Len(c) = Len(b)
  /\ \A k \in 1 .. n : c[k] = IF s + k - 1 \in DOMAIN f THEN f[s + k - 1] ELSE Garbage

\* The next piece is in memory at the beginning, what was there behind it stays.
LEMMA PieceLoaded ==
  ASSUME NEW f, NEW s, NEW n, NEW b, NEW c, Loads(f, s, n, b, c)
  PROVE  Loaded(f, s, n, b, c)
<1>0. /\ s \in Nat /\ n \in Nat /\ b \in Seq(Tuples) /\ n <= Len(b) /\ \A o \in DOMAIN f : f[o] \in Tuples
      /\ c = Piece(f, s, n) \o SubSeq(b, n + 1, Len(b))
  BY DEF Loads
<1> DEFINE p == Piece(f, s, n)
           q == SubSeq(b, n + 1, Len(b))
<1>1. /\ p = [k \in 1 .. n |-> IF s + k - 1 \in DOMAIN f THEN f[s + k - 1] ELSE Garbage]
      /\ \A k \in 1 .. n : p[k] = IF s + k - 1 \in DOMAIN f THEN f[s + k - 1] ELSE Garbage
  BY DEF Piece
<1>2. p \in Seq(Tuples) /\ Len(p) = n
  <2>1. \A k \in 1 .. n : p[k] \in Tuples
    BY <1>0, <1>1, TuplesAreNumbers
  <2> HIDE DEF p
  <2>2. p \in [1 .. n -> Tuples]
    BY <1>1, <2>1
  <2> QED BY <1>0, <2>2
<1>3. Len(b) \in Nat
  BY <1>0
<1>4. q \in Seq(Tuples) /\ Len(q) = Len(b) - n
  <2>1. q = [k \in 1 .. Len(b) - n |-> b[n + k]]
    BY <1>0, <1>3
  <2>2. \A k \in 1 .. Len(b) - n : n + k \in 1 .. Len(b)
    BY <1>0, <1>3
  <2> HIDE DEF q
  <2>3. q \in [1 .. Len(b) - n -> Tuples]
    BY <1>0, <2>1, <2>2
  <2>4. Len(b) - n \in Nat
    BY <1>0, <1>3
  <2> QED BY <2>3, <2>4
<1>7. c = p \o q
  BY <1>0
<1> HIDE DEF p, q
<1>5. p \o q \in Seq(Tuples) /\ Len(p \o q) = Len(p) + Len(q) /\ \A k \in 1 .. n : (p \o q)[k] = p[k]
  BY <1>2, <1>4
<1>6. Len(p \o q) = Len(b)
  BY ONLY <1>0, <1>2, <1>3, <1>4, <1>5
<1> QED BY <1>1, <1>5, <1>6, <1>7 DEF Loaded

\* Refill (main.cpp:293-298).
LEMMA RefillStep == IInv /\ Refill => IInv'
<1> SUFFICES ASSUME IInv, Refill PROVE IInv'
  OBVIOUS
<1>1. TypeOK /\ Shape /\ LastBounds /\ LastRight
  BY DEF IInv
<1>2. PICK m : m = idx
  OBVIOUS
<1>3. PICK n : n = rsz(m)
  OBVIOUS
<1> DEFINE missing == BeyondEnd(temp_file[m], Read(m) + n - 1)
           loaded == Piece(temp_file[m], Read(m), n) \o SubSeq(temp_buf[m], n + 1, Len(temp_buf[m]))
<1>4. /\ NextPiece /\ ~UsedUp(m) /\ idx' = m
      /\ \/ Succeeds /\ main' = (IF missing THEN "spin" ELSE "last") /\ temp_buf' = [temp_buf EXCEPT ![m] = loaded]
         \/ Fails /\ main' = "last" /\ temp_buf' = temp_buf
      /\ UNCHANGED <<file, run, worker, data, partial_offset, heap, flag, fflag, buffer,
                     out_offset, temp_file, output>>
  BY <1>2, <1>3 DEF Refill, NextPiece, runVars, bufVars, fileVars
<1>5. PICK c : c = loaded
  OBVIOUS
<1> HIDE DEF loaded
<1>6. /\ main = "piece" /\ m \in Runs /\ m \notin flag
      /\ temp_used'[m] = Read(m) /\ temp_in_offset'[m] = 0
      /\ temp_in_offset' \in [Runs -> 0 .. Limit] /\ temp_used' \in [Runs -> 0 .. Limit]
      /\ Left' = Left /\ \A f \in Runs : Read(f)' = Read(f)
      /\ \A f \in Runs : f # m => /\ temp_in_offset'[f] = temp_in_offset[f] /\ temp_used'[f] = temp_used[f]
                                  /\ PieceLen(f)' = PieceLen(f)
  BY <1>1, <1>2, <1>4, NextPieceFacts
<1>7. /\ n \in Nat /\ n >= 1 /\ n <= Kept /\ Read(m) + n <= Limit /\ Read(m) < Limit
      /\ n = PieceLen(m)' /\ Kept = Part /\ Part < Limit /\ Kept \in Nat
      /\ Read(m) = temp_used[m] + PieceLen(m) /\ Read(m) >= Kept /\ Read(m) \in Nat
  BY <1>1, <1>2, <1>3, <1>4, RefillFacts
<1>8. /\ file_num' = file_num /\ Runs' = Runs /\ Part' = Part /\ Kept' = Kept /\ Input' = Input
      /\ (Fitting' <=> Fitting)
  BY <1>4, SameFile
<1>9. /\ buffer \in Seq(Tuples) /\ out_offset \in Nat /\ IsFile(output, Limit * file_num)
      /\ temp_buf = [r \in Runs |-> temp_buf[r]] /\ \A r \in Runs : temp_buf[r] \in Seq(Tuples)
      /\ \A r \in Runs : Len(temp_buf[r]) = Kept
      /\ \A o \in DOMAIN temp_file[m] : temp_file[m][o] \in Tuples /\ o \in 0 .. Limit - 1
  BY <1>1, <1>6 DEF Shape, LastBounds, IsFile
<1>10. /\ c \in Seq(Tuples) /\ Len(c) = Kept
       /\ \A k \in 1 .. n : c[k] = IF Read(m) + k - 1 \in DOMAIN temp_file[m]
                                   THEN temp_file[m][Read(m) + k - 1] ELSE Garbage
  <2>1. Len(temp_buf[m]) = Kept /\ temp_buf[m] \in Seq(Tuples) /\ n <= Len(temp_buf[m])
    BY <1>6, <1>7, <1>9
  <2>2. c = Piece(temp_file[m], Read(m), n) \o SubSeq(temp_buf[m], n + 1, Len(temp_buf[m]))
    BY <1>5 DEF loaded
  <2>3. n \in Nat /\ Read(m) \in Nat /\ \A o \in DOMAIN temp_file[m] : temp_file[m][o] \in Tuples
    BY <1>7, <1>9
  <2>4. Loads(temp_file[m], Read(m), n, temp_buf[m], c)
    BY <2>1, <2>2, <2>3 DEF Loads
  <2>5. Loaded(temp_file[m], Read(m), n, temp_buf[m], c)
    BY ONLY <2>4, PieceLoaded
  <2> QED BY <2>1, <2>5 DEF Loaded
<1>11. errors \in 0 .. MaxErrors /\ errors' \in 0 .. MaxErrors /\ (errors' = 0 => errors = 0 /\ temp_buf' = [temp_buf EXCEPT ![m] = c])
       /\ main' \in {"last", "spin"}
       /\ (errors' = 0 /\ main' = "last" => ~missing)
  <2>1. errors \in 0 .. MaxErrors
    BY <1>1 DEF TypeOK
  <2> HIDE DEF missing
  <2>2. CASE Succeeds /\ main' = (IF missing THEN "spin" ELSE "last") /\ temp_buf' = [temp_buf EXCEPT ![m] = loaded]
    BY <1>5, <2>1, <2>2 DEF Succeeds
  <2>3. CASE Fails /\ main' = "last" /\ temp_buf' = temp_buf
    BY <2>1, <2>3, SortAssumption DEF Fails
  <2> QED BY <1>4, <2>2, <2>3
<1>12. /\ temp_buf' = [r \in Runs |-> temp_buf'[r]]
       /\ \A r \in Runs : temp_buf'[r] \in Seq(Tuples) /\ Len(temp_buf'[r]) = Kept
       /\ \A r \in Runs : r # m => temp_buf'[r] = temp_buf[r]
       /\ errors' = 0 => temp_buf'[m] = c
  <2>1. temp_buf' = temp_buf \/ temp_buf' = [temp_buf EXCEPT ![m] = c]
    BY <1>4, <1>5
  <2>2. CASE temp_buf' = temp_buf
    <3>1. errors' = 0 => temp_buf'[m] = c
      BY <1>6, <1>9, <1>11
    <3> QED BY <1>9, <2>2, <3>1
  <2>3. CASE temp_buf' = [temp_buf EXCEPT ![m] = c]
    BY <1>6, <1>9, <1>10, <2>3
  <2> QED BY <2>1, <2>2, <2>3
<1> HIDE DEF missing
<1>13. ASSUME main' = "last" PROVE LastBounds'
  <2>1. ASSUME NEW f \in Runs
        PROVE  /\ Read(f)' <= Limit /\ Len(temp_buf'[f]) = Kept'
               /\ f \in flag' => temp_used'[f] = Limit /\ temp_in_offset'[f] = 0
               /\ f \notin flag' => temp_used'[f] < Limit /\ temp_in_offset'[f] < PieceLen(f)'
               /\ f \notin flag' => temp_in_offset'[f] <= PieceLen(f)'
    <3>1. Read(f) <= Limit /\ temp_in_offset[f] \in Nat /\ PieceLen(f) \in Nat
      BY <1>1, <1>6, PieceFacts
    <3>2. /\ f \in flag => temp_used[f] = Limit /\ temp_in_offset[f] = 0
          /\ f \notin flag /\ f # m => temp_used[f] < Limit /\ temp_in_offset[f] < PieceLen(f)
      BY <1>1, <1>2, <1>6 DEF LastBounds
    <3>3. Read(f)' <= Limit /\ Len(temp_buf'[f]) = Kept'
      BY <1>6, <1>8, <1>12, <3>1
    <3>4. CASE f = m
      <4>1. temp_used'[f] < Limit /\ temp_in_offset'[f] = 0 /\ PieceLen(f)' = n /\ f \notin flag'
        BY <1>4, <1>6, <1>7, <3>4
      <4> QED BY <1>7, <3>3, <4>1
    <3>5. CASE f # m
      BY <1>4, <1>6, <3>1, <3>2, <3>3, <3>5
    <3> QED BY <3>4, <3>5
  <2>2. /\ out_offset + Len(buffer) + Cardinality(Left) = Limit * file_num
        /\ DOMAIN output \subseteq 0 .. out_offset - 1
        /\ errors = 0 => DOMAIN output = 0 .. out_offset - 1
        /\ \E q \in 0 .. Limit * file_num : out_offset = q * Buffer
        /\ file_num > 1 /\ Fitting /\ flag \subseteq Runs
    BY <1>1, <1>6 DEF LastBounds
  <2>3. flag' \subseteq Runs' /\ main' # "piece" /\ file_num' > 1 /\ Fitting' /\ idx' \in Runs' /\ idx' \notin flag'
    BY <1>4, <1>6, <1>8, <1>13, <2>2
  <2>4. /\ out_offset' + Len(buffer') + Cardinality(Left') = Limit * file_num'
        /\ DOMAIN output' \subseteq 0 .. out_offset' - 1
        /\ errors' = 0 => DOMAIN output' = 0 .. out_offset' - 1
        /\ \E q \in 0 .. Limit * file_num' : out_offset' = q * Buffer
    BY <1>4, <1>6, <1>8, <1>11, <2>2
  <2> QED BY <1>6, <1>8, <2>1, <2>3, <2>4 DEF LastBounds
<1>14. ASSUME main' = "last" PROVE LastRight'
  <2> SUFFICES ASSUME errors' = 0 PROVE LastRight'
    BY DEF LastRight
  <2>1. errors = 0 /\ main \in {"last", "piece"} /\ ~missing /\ temp_buf'[m] = c
    BY <1>6, <1>11, <1>12, <1>14
  <2>2. \A p \in Kept .. Limit - 1 : p < Read(m) + n => p \in DOMAIN temp_file[m]
    <3>1. PICK o \in DOMAIN temp_file[m] : ~(o < Read(m) + n - 1)
      BY <2>1 DEF missing, BeyondEnd
    <3>2. Kept .. o \subseteq DOMAIN temp_file[m]
      BY <1>1, <1>6, <2>1 DEF LastRight, NoHoles
    <3>3. o \in Nat
      BY <1>9
    <3>4. ASSUME NEW p \in Kept .. Limit - 1, p < Read(m) + n PROVE p \in Kept .. o
      BY ONLY <1>7, <3>1, <3>3, <3>4
    <3> QED BY <3>2, <3>4
  <2>3. ASSUME NEW f \in Runs, NEW p \in Kept .. Limit - 1, p < temp_used'[f] + PieceLen(f)'
        PROVE  p \in DOMAIN temp_file[f]
    <3>1. CASE f = m
      BY <1>6, <1>7, <2>2, <2>3, <3>1
    <3>2. CASE f # m
      BY <1>1, <1>6, <2>1, <2>3, <3>2 DEF LastRight
    <3> QED BY <3>1, <3>2
  <2>4. ASSUME NEW x \in Left PROVE Value(x)' = Value(x)
    <3>1. x[1] \in Runs /\ x[2] \in 0 .. Limit - 1 /\ Read(x[1]) <= x[2]
      BY <1>1, <2>1, LeftFacts
    <3>2. CASE x[1] # m
      <4>1. temp_used'[x[1]] = temp_used[x[1]] /\ PieceLen(x[1])' = PieceLen(x[1]) /\ temp_buf'[x[1]] = temp_buf[x[1]]
        BY <1>6, <1>12, <3>1, <3>2
      <4> QED BY <1>4, <4>1 DEF Value
    <3>3. CASE x[1] = m
      <4>1. PICK k : k = x[2]
        OBVIOUS
      <4>2. k \in Nat /\ k < Limit /\ Read(m) <= k /\ Limit \in Nat
        BY <3>1, <3>3, <4>1, Sizes
      <4>3. Value(x) = temp_file[m][k]
        <5>1. ~(k < temp_used[m] + PieceLen(m))
          BY ONLY <1>7, <4>2
        <5> QED BY <3>3, <4>1, <5>1 DEF Value
      <4>4. Value(x)' = IF k < Read(m) + n THEN c[k - Read(m) + 1] ELSE temp_file[m][k]
        <5>1. Value(x)' = IF x[2] < temp_used'[x[1]] + PieceLen(x[1])' THEN temp_buf'[x[1]][x[2] - temp_used'[x[1]] + 1]
                          ELSE temp_file'[x[1]][x[2]]
          BY DEF Value
        <5>2. temp_used'[m] = Read(m) /\ PieceLen(m)' = n /\ temp_buf'[m] = c /\ temp_file' = temp_file
          BY <1>4, <1>6, <1>7, <2>1
        <5>3. PieceLen(x[1])' = n
          BY <3>3, <5>2
        <5> QED BY ONLY <3>3, <4>1, <5>1, <5>2, <5>3
      <4>5. k < Read(m) + n => c[k - Read(m) + 1] = temp_file[m][k]
        <5> SUFFICES ASSUME k < Read(m) + n PROVE c[k - Read(m) + 1] = temp_file[m][k]
          OBVIOUS
        <5> DEFINE i == k - Read(m) + 1
        <5>1. i \in 1 .. n /\ Read(m) + i - 1 = k /\ k \in Kept .. Limit - 1
          BY ONLY <1>7, <4>2, k < Read(m) + n
        <5>2. k \in DOMAIN temp_file[m]
          BY <2>2, <5>1
        <5> HIDE DEF i
        <5>3. c[i] = temp_file[m][k]
          BY <1>10, <5>1, <5>2
        <5> QED BY <5>3 DEF i
      <4> QED BY <4>3, <4>4, <4>5
    <3> QED BY <3>2, <3>3
  <2> QED BY <1>1, <1>4, <1>6, <2>1, <2>3, <2>4, LastRightStays
<1>15. /\ TypeOK' /\ Shape' /\ Workers' /\ RunsStored' /\ MergeBounds' /\ MergeRight' /\ AtEnd'
       /\ (main = "overflow" => ~Documented)'
  <2>1. Len(buffer) < Buffer
    BY <1>1, <1>9, FullFacts DEF TypeOK
  <2>2. flag' \subseteq Runs /\ main \in {"last", "piece"} /\ main' \in {"last", "piece", "spin"}
    BY <1>1, <1>4, <1>6, <1>11 DEF LastBounds
  <2> QED BY <1>4, <1>9, <1>11, <1>12, <2>1, <2>2, LastElsewhere
<1>16. CASE main' = "last"
  BY <1>13, <1>14, <1>15, <1>16 DEF IInv
<1>17. CASE main' = "spin"
  <2>1. LastBounds' /\ LastRight'
    BY <1>17 DEF LastBounds, LastRight
  <2> QED BY <1>15, <2>1 DEF IInv
<1> QED BY <1>11, <1>16, <1>17

\* At the end of the last merge the buffer is empty and the output complete.
LEMMA AllIsWritten ==
  ASSUME TypeOK, Shape, LastBounds, LastRight, main = "last", flag = Runs, errors = 0
  PROVE  DOMAIN output = 0 .. Limit * file_num - 1 /\ InOrder(output) /\ SameTuples(output, Input)
<1>1. /\ file_num > 1 /\ Limit \in Nat \ {0} /\ file_num \in Nat \ {0} /\ Buffer \in Nat \ {0}
      /\ Limit * file_num \in Nat /\ Limit * file_num = file_num * Limit /\ Part \in Nat
  <2>1. file_num > 1 /\ Limit \in Nat \ {0} /\ file_num \in Nat /\ Buffer \in Nat \ {0}
        /\ Limit * file_num \in Nat /\ Limit * file_num = file_num * Limit
    BY FileFacts, Sizes DEF TypeOK, LastBounds
  <2> QED BY <2>1, PartFacts
<1>2. \A f \in Runs : temp_used[f] = Limit /\ temp_in_offset[f] = 0
  BY DEF LastBounds
<1>3. Left = {}
  <2>1. ASSUME NEW x \in Left PROVE FALSE
    <3>1. x[1] \in Runs /\ x[2] \in 0 .. Limit - 1 /\ Read(x[1]) <= x[2]
      BY LeftFacts
    <3>2. Read(x[1]) = 0 + Limit
      BY <1>2, <3>1 DEF Read
    <3> QED BY <1>1, <3>1, <3>2
  <2> QED BY <2>1
<1>4. /\ out_offset + Len(buffer) + Cardinality(Left) = Limit * file_num
      /\ DOMAIN output = 0 .. out_offset - 1
      /\ \E q \in 0 .. Limit * file_num : out_offset = q * Buffer
  BY DEF LastBounds
<1>5. /\ buffer \in Seq(Tuples) /\ Len(buffer) \in Nat /\ out_offset \in Nat /\ Len(buffer) < Buffer
  <2>1. buffer \in Seq(Tuples) /\ out_offset \in Nat
    BY DEF Shape
  <2>2. Len(buffer) \in Nat
    BY <2>1
  <2> QED BY <2>1, <2>2, FullFacts DEF TypeOK
<1>6. Cardinality(Left) = 0
  BY <1>3, FS_EmptySet
<1>7. out_offset + Len(buffer) = Limit * file_num
  BY ONLY <1>1, <1>4, <1>5, <1>6
<1>8. Len(buffer) = 0
  <2>1. PICK q \in 0 .. Limit * file_num : out_offset = q * Buffer
    BY <1>4
  <2>2. PICK p \in Nat : Limit = p * Buffer
    BY Sizes
  <2>3. p * file_num \in Nat /\ Limit * file_num = (p * file_num) * Buffer
    BY <1>1, <2>2, Multiplication
  <2> DEFINE k == p * file_num
  <2>4. k \in Nat /\ q \in Nat /\ Limit * file_num = k * Buffer /\ q * Buffer \in Nat /\ k * Buffer \in Nat
    <3>1. q \in Nat
      BY <1>1
    <3> QED BY <1>1, <2>3, <3>1, Multiplication
  <2> HIDE DEF k
  <2>5. q >= k
    <3> SUFFICES ASSUME q + 1 <= k PROVE FALSE
      BY <2>4
    <3>1. (q + 1) * Buffer <= k * Buffer /\ (q + 1) * Buffer = q * Buffer + Buffer
      <4>1. q + 1 \in Nat /\ Buffer \in Nat /\ k \in Nat /\ q \in Nat
        BY <1>1, <2>4
      <4> QED BY <4>1, Multiplication
    <3> QED BY ONLY <1>1, <1>5, <1>7, <2>1, <2>4, <3>1
  <2>6. k * Buffer <= q * Buffer
    <3>1. Buffer \in Nat /\ k <= q
      BY <1>1, <2>4, <2>5
    <3> QED BY <2>4, <3>1, Multiplication
  <2> QED BY ONLY <1>5, <1>7, <2>1, <2>4, <2>6
<1>9. DOMAIN output = 0 .. Limit * file_num - 1 /\ out_offset = Limit * file_num
  BY ONLY <1>4, <1>5, <1>7, <1>8
<1>10. Out = output
  <2>1. output = [o \in DOMAIN output |-> output[o]]
    BY DEF Shape, IsFile
  <2>2. Out = [i \in 0 .. out_offset + Len(buffer) - 1 |-> IF i < out_offset THEN output[i] ELSE buffer[i - out_offset + 1]]
    BY DEF Out
  <2>3. out_offset + Len(buffer) - 1 = out_offset - 1
    BY ONLY <1>5, <1>8
  <2>4. Out = [i \in 0 .. out_offset - 1 |-> IF i < out_offset THEN output[i] ELSE buffer[i - out_offset + 1]]
    BY ONLY <2>2, <2>3
  <2>5. \A i \in 0 .. out_offset - 1 : i < out_offset
    BY <1>5
  <2> QED BY ONLY <1>4, <2>1, <2>4, <2>5
<1>11. \A f \in Runs : Whole(f)
  <2> SUFFICES ASSUME NEW f \in Runs, Part < Limit PROVE Limit - 1 \in DOMAIN temp_file[f]
    BY <1>1 DEF Whole
  <2>1. Kept = Part
    BY DEF Kept
  <2>2. PieceLen(f) \in Nat /\ temp_used[f] = Limit
    BY <1>2, PieceFacts
  <2>3. Limit - 1 \in Kept .. Limit - 1 /\ Limit - 1 < temp_used[f] + PieceLen(f)
    BY ONLY <1>1, <2>1, <2>2, Part < Limit
  <2> QED BY <2>3 DEF LastRight
<1>12. Merging(output, [x \in Left |-> Value(x)], Input)
  BY <1>10, <1>11 DEF LastRight
<1>13. DOMAIN [x \in Left |-> Value(x)] = {} /\ IsFiniteSet(DOMAIN output)
  <2>1. 0 \in Int /\ Limit * file_num - 1 \in Int
    BY <1>1
  <2> QED BY <1>3, <1>9, <2>1, FS_Interval
<1> QED BY <1>9, <1>12, <1>13, MergeEnds

\* EndOfLast (main.cpp:300-311).
LEMMA EndOfLastStep == IInv /\ EndOfLast => IInv'
<1> SUFFICES ASSUME IInv, EndOfLast PROVE IInv'
  OBVIOUS
<1>1. TypeOK /\ Shape /\ Workers /\ LastBounds /\ LastRight
  BY DEF IInv
<1>2. /\ main = "last" /\ flag = Runs /\ main' = "end"
      /\ UNCHANGED <<file, errors, run, worker, data, partial_offset, heap, flag, fflag, temp_buf, buffer,
                     out_offset, temp_file, output, idx, temp_in_offset, temp_used>>
  BY DEF EndOfLast, runVars, keptVars, bufVars, fileVars, lastVars
<1>3. /\ file_num' = file_num /\ Runs' = Runs /\ Input' = Input
  BY <1>2, SameFile
<1>4. TypeOK' /\ Shape'
  BY <1>1, <1>2, <1>3 DEF TypeOK, Shape, IsFile
<1>5. Workers' /\ RunsStored' /\ MergeBounds' /\ MergeRight' /\ LastBounds' /\ LastRight' /\ (main = "overflow" => ~Documented)'
  BY <1>1, <1>2 DEF Workers, RunsStored, MergeBounds, MergeRight, LastBounds, LastRight
<1>6. AtEnd'
  <2> SUFFICES ASSUME errors' = 0 PROVE AtEnd'
    BY DEF AtEnd
  <2>1. DOMAIN output = 0 .. Limit * file_num - 1 /\ InOrder(output) /\ SameTuples(output, Input)
    BY <1>1, <1>2, AllIsWritten
  <2>2. DOMAIN output' = 0 .. Limit * file_num' - 1 /\ InOrder(output') /\ SameTuples(output', Input')
    BY <1>2, <1>3, <2>1
  <2> QED BY <2>2 DEF AtEnd, InOrder, SameTuples, Count
<1> QED BY <1>4, <1>5, <1>6 DEF IInv

\* A step that changes nothing.
LEMMA Stuttering == IInv /\ UNCHANGED vars => IInv'
<1> SUFFICES ASSUME IInv, UNCHANGED vars PROVE IInv'
  OBVIOUS
<1>1. UNCHANGED <<file, errors, main, run, worker, data, partial_offset, heap, flag, fflag, temp_buf, buffer,
                  out_offset, temp_file, output, idx, temp_in_offset, temp_used>>
  BY DEF vars, runVars, keptVars, bufVars, fileVars, lastVars
<1>2. /\ TypeOK /\ Shape /\ Workers /\ RunsStored /\ MergeBounds /\ MergeRight
      /\ LastBounds /\ LastRight /\ AtEnd /\ (main = "overflow" => ~Documented)
  BY DEF IInv
<1>3. /\ file_num' = file_num /\ Runs' = Runs /\ Part' = Part /\ Kept' = Kept /\ Input' = Input
      /\ (Fitting' <=> Fitting) /\ (Documented' <=> Documented) /\ buffer_size' = buffer_size
      /\ \A r : InputRun(r)' = InputRun(r)
  BY <1>1, SameFile
<1>4. TypeOK' /\ Shape'
  BY <1>1, <1>2, <1>3 DEF TypeOK, Shape, IsFile
<1>5. Workers'
  <2>1. \A j : InOrder(BlockOf(data, j))' <=> InOrder(BlockOf(data, j))
    BY <1>1 DEF InOrder, BlockOf
  <2>2. \A j, r : BlockOf(data, j)' = BlockOf(data, j) /\ BlockOf(InputRun(r), j)' = BlockOf(InputRun(r), j)
    BY <1>1, <1>3 DEF BlockOf
  <2>3. \A j, r : SameTuples(BlockOf(data, j), BlockOf(InputRun(r), j))' <=>
                 SameTuples(BlockOf(data, j), BlockOf(InputRun(r), j))
    BY <2>2 DEF SameTuples, Count
  <2> QED BY <1>1, <1>2, <2>1, <2>3 DEF Workers
<1>6. RunsStored'
  <2>1. \A r : StoredRun(r) => StoredRun(r)'
    BY <1>1, StoredRunStays
  <2>2. \A r : Blank(r) => Blank(r)'
    BY <1>1 DEF Blank
  <2> QED BY <1>1, <1>2, <1>3, <2>1, <2>2 DEF RunsStored
<1>7. /\ KeptOfRun' = KeptOfRun /\ Target' = Target /\ MergedLen' = MergedLen /\ LeftInRun' = LeftInRun
      /\ Merged' = Merged /\ \A x : Tuple(x)' = Tuple(x)
  BY <1>1, <1>3 DEF KeptOfRun, Target, MergedLen, LeftInRun, Merged, Tuple
<1>8. MergeBounds'
  <2>1. IsHeap(heap, partial_offset)' <=> IsHeap(heap, partial_offset)
    BY <1>1 DEF IsHeap, Ordered, At
  <2>2. \A j : InOrder(BlockOf(data, j))' <=> InOrder(BlockOf(data, j))
    BY <1>1 DEF InOrder, BlockOf
  <2> QED BY <1>1, <1>2, <1>3, <1>7, <2>1, <2>2 DEF MergeBounds
<1>9. MergeRight'
  BY <1>1, <1>2, <1>3, <1>7 DEF MergeRight, Merging
<1>10. /\ Left' = Left /\ Out' = Out /\ \A x : Value(x)' = Value(x)
       /\ \A f : PieceLen(f)' = PieceLen(f) /\ Read(f)' = Read(f) /\ (Whole(f)' <=> Whole(f))
  BY <1>1, <1>3 DEF Left, Out, Value, PieceLen, Read, Whole
<1>11. LastBounds'
  BY <1>1, <1>2, <1>3, <1>10 DEF LastBounds
<1>12. LastRight'
  BY <1>1, <1>2, <1>3, <1>10 DEF LastRight, NoHoles, Merging
<1>13. AtEnd' /\ (main = "overflow" => ~Documented)'
  BY <1>1, <1>2, <1>3 DEF AtEnd, InOrder, SameTuples, Count
<1> QED BY <1>4, <1>5, <1>6, <1>8, <1>9, <1>11, <1>12, <1>13 DEF IInv

-----------------------------------------------------------------------------
(***************************************************************************)
(* The theorems.                                                           *)
(***************************************************************************)
\* The invariant is inductive.
LEMMA NextStep == IInv /\ [Next]_vars => IInv'
<1> SUFFICES ASSUME IInv, [Next]_vars PROVE IInv'
  OBVIOUS
<1>1. CASE Start
  BY <1>1, StartStep
<1>2. CASE Spawn
  BY <1>2, SpawnStep
<1>3. CASE Join
  BY <1>3, JoinStep
<1>4. CASE Remember
  BY <1>4, RememberStep
<1>5. CASE Merge
  BY <1>5, MergeTupleStep
<1>6. CASE EndOfRun
  BY <1>6, EndOfRunStep
<1>7. CASE OpenTemps
  BY <1>7, OpenTempsStep
<1>8. CASE TakeTuple
  BY <1>8, TakeTupleStep
<1>9. CASE GoOn
  BY <1>9, GoOnStep
<1>10. CASE RunUsedUp
  BY <1>10, RunUsedUpStep
<1>11. CASE Refill
  BY <1>11, RefillStep
<1>12. CASE EndOfLast
  BY <1>12, EndOfLastStep
<1>13. ASSUME NEW j \in Threads, Worker(j) PROVE IInv'
  BY <1>13, WorkerStep
<1>14. CASE Stopped \/ UNCHANGED vars
  BY <1>14, Stuttering DEF Stopped
<1> QED
  BY <1>1, <1>2, <1>3, <1>4, <1>5, <1>6, <1>7, <1>8, <1>9, <1>10, <1>11, <1>12, <1>13, <1>14 DEF Next, Step

\* Through the whole sort, with or without failing system calls, the offsets, buffers and
\* files stay within their bounds and what is merged and what is left make up the input
\* (main.cpp:38-299).
THEOREM Inductive == Spec => []IInv
<1>1. Init => IInv
  BY InitInv
<1>2. IInv /\ [Next]_vars => IInv'
  BY NextStep
<1> QED BY <1>1, <1>2, PTL DEF Spec

\* The offsets, buffers and files stay within their bounds, and in the merge of a run the
\* least tuple of those left is on top of the heap (main.cpp:38-97,203-235).
THEOREM Invariance == Spec => []Inv
<1>1. IInv => Inv
  <2> SUFFICES ASSUME IInv PROVE HeapOrdered
    BY DEF IInv, Inv
  <2> SUFFICES ASSUME main = "merge"
               PROVE  /\ IsInjective(heap) /\ ToSet(heap) = Threads \ flag
                      /\ \A n \in 2 .. Len(heap) :
                           At(heap, n \div 2, partial_offset) <= At(heap, n, partial_offset)
    BY DEF HeapOrdered
  <2>1. IsHeap(heap, partial_offset) /\ ToSet(heap) = Threads \ flag
    BY DEF IInv, MergeBounds
  <2> QED BY <2>1 DEF IsHeap, Ordered
<1> QED BY <1>1, Inductive, PTL

\* For every input, number of threads and size of the buffers: a sort that ends without an
\* error of the system has written the whole runs of the input in order, with nothing lost
\* and nothing twice (main.cpp:203-235,267-299).
THEOREM Sorting == Spec => []OutputSorted
<1>1. IInv => OutputSorted
  <2> SUFFICES ASSUME IInv, main = "end", errors = 0 PROVE OutputSorted
    BY DEF OutputSorted
  <2> DEFINE n == Limit * file_num
             all == 1 .. n
  <2>1. DOMAIN output = 0 .. n - 1 /\ InOrder(output) /\ SameTuples(output, Input)
    BY DEF IInv, AtEnd
  <2>2. n \in Nat
    BY FileFacts DEF IInv, TypeOK
  <2>3. Input = [o \in 0 .. n - 1 |-> file[o + 1]]
    BY DEF Input
  <2> HIDE DEF n
  <2>4. DOMAIN output = {o - 1 : o \in all}
    <3>1. \A i \in 0 .. n - 1 : i + 1 \in all /\ i = (i + 1) - 1
      BY <2>2
    <3>2. \A o \in all : o - 1 \in 0 .. n - 1
      BY <2>2
    <3> QED BY <2>1, <3>1, <3>2
  <2>5. \A o, p \in DOMAIN output : o < p => output[o] <= output[p]
    BY <2>1 DEF InOrder
  <2>6. ASSUME NEW k \in Keys
        PROVE  Cardinality({o \in DOMAIN output : output[o] = k}) = Cardinality({o \in all : file[o] = k})
    <3> DEFINE seq == [o \in all |-> file[o]]
    <3>1. DOMAIN seq = 1 .. n /\ \A o \in all : seq[o] = file[o]
      OBVIOUS
    <3>2. Input = [o \in 0 .. n - 1 |-> seq[o + 1]]
      <4>1. \A o \in 0 .. n - 1 : o + 1 \in all
        BY <2>2
      <4> QED BY <2>3, <3>1, <4>1
    <3> HIDE DEF seq
    <3>3. Count(Input, k) = Count(seq, k)
      BY <2>2, <3>1, <3>2, Shift
    <3>4. {o \in DOMAIN seq : seq[o] = k} = {o \in all : file[o] = k}
      BY <3>1
    <3>5. Count(output, k) = Count(Input, k)
      BY <2>1, TuplesAreNumbers DEF SameTuples
    <3> QED BY <3>3, <3>4, <3>5 DEF Count
  <2> QED BY <2>4, <2>5, <2>6 DEF OutputSorted, n
<1> QED BY <1>1, Inductive, PTL

\* For every input and all sizes: only a buffer of broken tuples is ever overrun, and the last
\* merge compares only tuples that are in memory (main.cpp:214-222,270,297).
THEOREM InBounds == Spec => []BuffersHold
<1>1. IInv => BuffersHold
  <2> SUFFICES ASSUME IInv PROVE BuffersHold
    OBVIOUS
  <2>1. TypeOK /\ Shape /\ LastBounds /\ (main = "overflow" => ~Documented)
    BY DEF IInv
  <2>2. ASSUME main = "last", NEW f \in Runs \ flag PROVE temp_in_offset[f] < Len(temp_buf[f])
    <3>1. /\ temp_in_offset[f] \in Nat /\ PieceLen(f) \in Nat /\ PieceLen(f) <= Kept
          /\ Len(temp_buf[f]) = Kept /\ temp_buf[f] \in Seq(Tuples)
      BY <2>1, <2>2, PieceFacts
    <3>2. temp_in_offset[f] < PieceLen(f)
      BY <2>1, <2>2 DEF LastBounds
    <3>3. Kept \in Nat
      BY <3>1
    <3> QED BY ONLY <3>1, <3>2, <3>3
  <2> QED BY <2>1, <2>2 DEF BuffersHold
<1> QED BY <1>1, Inductive, PTL
=============================================================================
