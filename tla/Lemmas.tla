------------------------------- MODULE Lemmas -------------------------------
(***************************************************************************)
(* Facts that the proofs of several modules use: about natural numbers, to *)
(* begin with induction over them and over finite sets, and about          *)
(* SumFunctionOnSet of the community module Functions, which sums a        *)
(* function over a finite set.                                             *)
(***************************************************************************)
EXTENDS Integers, FiniteSetTheorems, WellFoundedInduction, Functions, TLAPS

-----------------------------------------------------------------------------
(* Natural numbers *)

(* A nonempty set of natural numbers has an element that none is below. *)
LEMMA MinimalElement ==
  ASSUME NEW S, S \subseteq Nat, S # {}
  PROVE  \E m \in S : \A n \in S : ~ (<<n, m>> \in OpToRel(<, Nat))
BY WFMin, NatLessThanWellFounded, Zenon

(* Every nonempty set of natural numbers has a least element. *)
LEMMA LeastElement ==
  ASSUME NEW S \in SUBSET Nat, S # {}
  PROVE  \E m \in S : \A n \in S : m <= n
<1>1. S \subseteq Nat
  OBVIOUS
<1>2. PICK m \in S : \A n \in S : ~ (<<n, m>> \in OpToRel(<, Nat))
  BY <1>1, MinimalElement, Zenon
<1>3. ASSUME NEW n \in S PROVE m <= n
  <2>1. ~ (n < m)
    BY <1>1, <1>2, Zenon DEF OpToRel
  <2> QED BY <1>1, <2>1
<1> QED BY <1>3

(* Induction, for a set in place of a property. *)
LEMMA SetInduction ==
  ASSUME NEW S, 0 \in S, \A n \in Nat : n \in S => n + 1 \in S
  PROVE  Nat \subseteq S
<1> SUFFICES ASSUME Nat \ S # {} PROVE FALSE
  OBVIOUS
<1>1. PICK m \in Nat \ S : \A n \in Nat \ S : m <= n
  BY LeastElement
<1>2. m # 0 /\ m - 1 \in Nat /\ ~(m <= m - 1)
  BY <1>1
<1>3. m - 1 \in S
  BY <1>1, <1>2
<1> QED BY <1>1, <1>2, <1>3

(* How many times p has gone by grows with the time, by one each p. *)
LEMMA DivisionNat ==
  ASSUME NEW d \in Nat, NEW p \in Nat \ {0}
  PROVE  d \div p \in Nat
OBVIOUS

LEMMA DivisionOneMore ==
  ASSUME NEW d \in Nat, NEW p \in Nat \ {0}
  PROVE  (d + p) \div p = d \div p + 1
OBVIOUS

LEMMA DivisionMonotone ==
  ASSUME NEW d \in Nat, NEW e \in Nat, NEW p \in Nat \ {0}, d <= e
  PROVE  d \div p <= e \div p
OBVIOUS

LEMMA DivisionUnique ==
  ASSUME NEW p \in Nat \ {0}, NEW q \in Int, NEW r \in 0 .. p - 1
  PROVE  (q * p + r) \div p = q /\ (q * p + r) % p = r
OBVIOUS

(* Multiples of p do not count modulo p. *)
LEMMA ModuloMultiple ==
  ASSUME NEW p \in Nat \ {0}, NEW a \in Int, NEW k \in Int
  PROVE  (a + k * p) % p = a % p
<1>1. a = (a \div p) * p + (a % p) /\ a % p \in 0 .. p - 1 /\ a \div p \in Int
  OBVIOUS
<1> DEFINE q == a \div p
           r == a % p
<1> HIDE DEF q, r
<1>2. a = q * p + r /\ r \in 0 .. p - 1 /\ q \in Int
  BY <1>1 DEF q, r
<1>3. a + k * p = (q + k) * p + r /\ q + k \in Int
  BY <1>2
<1>4. ((q + k) * p + r) % p = r
  BY <1>2, <1>3, DivisionUnique
<1> QED BY <1>3, <1>4 DEF r

(* Following f from c, any number of times, is a recursive function that   *)
(* exists. *)
LEMMA IterationExists ==
  ASSUME NEW N \in Nat, NEW c, NEW f
  PROVE  \E h : h = [n \in 0 .. N |-> IF n = 0 THEN c ELSE f[h[n - 1]]]
<1> DEFINE Is(h, k) == h = [n \in 0 .. k |-> IF n = 0 THEN c ELSE f[h[n - 1]]]
           S == {k \in Nat : \E h : Is(h, k)}
<1>1. 0 \in S
  <2>1. Is([n \in 0 .. 0 |-> c], 0)
    OBVIOUS
  <2> QED BY <2>1
<1>2. ASSUME NEW k \in Nat, k \in S PROVE k + 1 \in S
  <2>1. PICK h : Is(h, k)
    BY <1>2
  <2> DEFINE g == [n \in 0 .. k + 1 |-> IF n = k + 1 THEN f[h[k]] ELSE h[n]]
  <2>2. ASSUME NEW n \in 0 .. k + 1 PROVE g[n] = IF n = 0 THEN c ELSE f[g[n - 1]]
    BY <2>1, <2>2
  <2>3. Is(g, k + 1)
    BY <2>2
  <2> HIDE DEF Is, g
  <2>4. \E q : Is(q, k + 1)
    BY <2>3
  <2> QED BY <2>4
<1> HIDE DEF S
<1>3. Nat \subseteq S
  BY <1>1, <1>2, SetInduction
<1> QED BY <1>3 DEF S

(* The same where the function followed may be another at each step. *)
Follows(h, N, c, f) == h = [n \in 0 .. N |-> IF n = 0 THEN c ELSE f[n][h[n - 1]]]

LEMMA RecursionExists ==
  ASSUME NEW N \in Nat, NEW c, NEW f
  PROVE  \E h : Follows(h, N, c, f)
<1> USE DEF Follows
<1> DEFINE Is(h, k) == Follows(h, k, c, f)
           S == {k \in Nat : \E h : Is(h, k)}
<1>1. 0 \in S
  <2>1. Is([n \in 0 .. 0 |-> c], 0)
    OBVIOUS
  <2> QED BY <2>1
<1>2. ASSUME NEW k \in Nat, k \in S PROVE k + 1 \in S
  <2>1. PICK h : Is(h, k)
    BY <1>2
  <2> DEFINE g == [n \in 0 .. k + 1 |-> IF n = k + 1 THEN f[k + 1][h[k]] ELSE h[n]]
  <2>2. ASSUME NEW n \in 0 .. k + 1 PROVE g[n] = IF n = 0 THEN c ELSE f[n][g[n - 1]]
    <3>1. CASE n = k + 1
      <4>1. g[n] = f[k + 1][h[k]] /\ g[n - 1] = h[k] /\ n # 0
        BY <3>1
      <4> QED BY <3>1, <4>1
    <3>2. CASE n # k + 1
      <4>1. n \in 0 .. k /\ g[n] = h[n] /\ (n # 0 => n - 1 \in 0 .. k /\ g[n - 1] = h[n - 1])
        BY <3>2
      <4>2. h[n] = IF n = 0 THEN c ELSE f[n][h[n - 1]]
        BY <2>1, <4>1
      <4> QED BY <4>1, <4>2
    <3> QED BY <3>1, <3>2
  <2>3. Is(g, k + 1)
    BY <2>2
  <2> HIDE DEF Is, g
  <2>4. \E q : Is(q, k + 1)
    BY <2>3
  <2> QED BY <2>4
<1> HIDE DEF S
<1>3. Nat \subseteq S
  BY <1>1, <1>2, SetInduction
<1> QED BY <1>3 DEF S

(* ... and stays in a set that every step keeps. *)
Within(f, N, V) == \A n \in 1 .. N : \A x \in V : f[n][x] \in V

Recurs(h, N, c, f) == h[0] = c /\ \A n \in 1 .. N : h[n] = f[n][h[n - 1]]

LEMMA RecursionInto ==
  ASSUME NEW N \in Nat, NEW V, NEW c, c \in V, NEW f, Within(f, N, V)
  PROVE  \E h \in [0 .. N -> V] : Recurs(h, N, c, f)
<1> USE DEF Within, Recurs
<1>1. PICK h : Follows(h, N, c, f)
  BY RecursionExists, Zenon
<1>2. h[0] = c /\ \A n \in 1 .. N : h[n] = f[n][h[n - 1]]
  BY <1>1 DEF Follows
<1>3. h = [n \in 0 .. N |-> h[n]]
  BY <1>1 DEF Follows
<1> DEFINE S == {k \in Nat : k <= N => h[k] \in V}
<1>4. 0 \in S
  BY <1>2
<1>5. ASSUME NEW k \in Nat, k \in S PROVE k + 1 \in S
  <2>1. CASE k + 1 <= N
    <3>1. k + 1 \in 1 .. N /\ (k + 1) - 1 = k /\ h[k] \in V
      BY <1>5, <2>1
    <3>2. h[k + 1] = f[k + 1][h[k]]
      BY <1>2, <3>1
    <3> QED BY <3>1, <3>2
  <2> QED BY <2>1
<1> HIDE DEF S
<1>6. Nat \subseteq S
  BY <1>4, <1>5, SetInduction
<1>7. \A n \in 0 .. N : h[n] \in V
  BY <1>6 DEF S
<1>8. h \in [0 .. N -> V]
  BY <1>3, <1>7
<1> QED BY <1>2, <1>8

(* The same for all of Nat, of numbers: iterations to m and to m + 1 agree below. *)
LEMMA IterationOnNat ==
  ASSUME NEW c \in Nat, NEW f \in [Nat -> Nat]
  PROVE  \E h \in [Nat -> Nat] : h[0] = c /\ \A n \in Nat : h[n + 1] = f[h[n]]
<1> DEFINE Is(h, k) == h[0] = c /\ \A n \in Nat : n < k => h[n + 1] = f[h[n]]
           H(k) == CHOOSE h : Is(h, k)
<1>1. ASSUME NEW k \in Nat PROVE \E h : Is(h, k)
  <2> DEFINE S == {j \in Nat : \E h : Is(h, j)}
  <2>1. 0 \in S
    <3>1. Is([n \in {0} |-> c], 0)
      OBVIOUS
    <3> HIDE DEF Is
    <3> QED BY <3>1
  <2>2. ASSUME NEW j \in Nat, j \in S PROVE j + 1 \in S
    <3>1. PICK h : Is(h, j)
      BY <2>2
    <3> DEFINE g == [n \in Nat |-> IF n = j + 1 THEN f[h[j]] ELSE h[n]]
    <3>2. Is(g, j + 1)
      BY <3>1
    <3> HIDE DEF g, Is
    <3> QED BY <3>2
  <2> HIDE DEF S
  <2>3. k \in S
    BY <2>1, <2>2, SetInduction
  <2> QED BY <2>3 DEF S
<1>2. ASSUME NEW k \in Nat PROVE Is(H(k), k)
  <2> HIDE DEF Is
  <2> QED BY <1>1
<1> HIDE DEF H
<1>3. ASSUME NEW k \in Nat PROVE H(k + 1)[k] = H(k)[k]
  <2> DEFINE S == {j \in Nat : j <= k => H(k + 1)[j] = H(k)[j]}
  <2>1. Is(H(k), k) /\ Is(H(k + 1), k + 1)
    <3>1. k + 1 \in Nat
      OBVIOUS
    <3> HIDE DEF Is
    <3> QED BY <1>2, <3>1
  <2>2. 0 \in S
    BY <2>1
  <2>3. ASSUME NEW j \in Nat, j \in S PROVE j + 1 \in S
    <3>1. CASE j + 1 <= k
      <4>1. H(k + 1)[j + 1] = f[H(k + 1)[j]] /\ H(k)[j + 1] = f[H(k)[j]]
        BY <2>1, <3>1
      <4>2. H(k + 1)[j] = H(k)[j]
        BY <2>3, <3>1
      <4> QED BY <4>1, <4>2
    <3> QED BY <3>1
  <2> HIDE DEF S
  <2>4. k \in S
    BY <2>2, <2>3, SetInduction
  <2> QED BY <2>4 DEF S
<1> DEFINE g == [k \in Nat |-> H(k)[k]]
<1>4. g[0] = c
  BY <1>2
<1>5. ASSUME NEW k \in Nat PROVE g[k + 1] = f[g[k]]
  <2>1. H(k + 1)[k + 1] = f[H(k + 1)[k]]
    BY <1>2
  <2> QED BY <1>3, <2>1
<1>6. g \in [Nat -> Nat]
  <2> DEFINE S == {k \in Nat : g[k] \in Nat}
  <2>1. 0 \in S
    BY <1>4
  <2>2. ASSUME NEW k \in Nat, k \in S PROVE k + 1 \in S
    BY <1>5, <2>2
  <2> HIDE DEF S
  <2>3. Nat \subseteq S
    BY <2>1, <2>2, SetInduction
  <2>4. \A k \in Nat : g[k] \in Nat
    BY <2>3 DEF S
  <2> QED BY <2>4
<1> HIDE DEF g
<1> QED BY <1>4, <1>5, <1>6

-----------------------------------------------------------------------------
(* Sums *)

(* The element of s that a fold takes first. *)
Pick(s) == CHOOSE x \in s : TRUE

LEMMA PickFacts ==
  ASSUME NEW s, IsFiniteSet(s), s # {}
  PROVE  /\ Pick(s) \in s
         /\ Cardinality(s) \in Nat \ {0}
         /\ Cardinality(s \ {Pick(s)}) = Cardinality(s) - 1
<1>1. Pick(s) \in s
  BY DEF Pick
<1>2. Cardinality(s) \in Nat /\ Cardinality(s) # 0
  BY FS_CardinalityType, FS_EmptySet
<1>3. Cardinality(s \ {Pick(s)}) = IF Pick(s) \in s THEN Cardinality(s) - 1
                                                  ELSE Cardinality(s)
  BY FS_RemoveElement, Zenon
<1> QED BY <1>1, <1>2, <1>3

(* Induction over the subsets of S, taking elements as a fold does. *)
LEMMA SubsetInduction ==
  ASSUME NEW S, IsFiniteSet(S), NEW Q,
         {} \in Q,
         \A s \in SUBSET S : s # {} /\ s \ {Pick(s)} \in Q => s \in Q
  PROVE  SUBSET S \subseteq Q
<1> DEFINE N == {n \in Nat : \A s \in SUBSET S : Cardinality(s) = n => s \in Q}
<1>1. 0 \in N
  <2>1. ASSUME NEW s \in SUBSET S, Cardinality(s) = 0 PROVE s = {}
    <3>1. IsFiniteSet(s)
      BY FS_Subset
    <3> QED BY <2>1, <3>1, FS_EmptySet
  <2> QED BY <2>1
<1>2. ASSUME NEW n \in Nat, n \in N PROVE n + 1 \in N
  <2> SUFFICES ASSUME NEW s \in SUBSET S, Cardinality(s) = n + 1
               PROVE  s \in Q
    OBVIOUS
  <2>1. IsFiniteSet(s) /\ s # {}
    BY FS_Subset, FS_EmptySet
  <2>3. Cardinality(s \ {Pick(s)}) = n
    BY <2>1, PickFacts
  <2>4. s \ {Pick(s)} \in Q
    BY <1>2, <2>3
  <2> QED BY <2>1, <2>4
<1> HIDE DEF N
<1>3. Nat \subseteq N
  BY <1>1, <1>2, SetInduction
<1>4. ASSUME NEW s \in SUBSET S PROVE s \in Q
  <2>1. Cardinality(s) \in Nat
    BY FS_Subset, FS_CardinalityType
  <2> QED BY <1>3, <2>1 DEF N
<1> QED BY <1>4

(* The recursive function by which w is summed over the subsets of S. *)
IsSum(h, w, S) ==
  h = [s \in SUBSET S |->
         IF s = {} THEN 0
         ELSE LET x == CHOOSE e \in s : TRUE IN w[x] + h[s \ {x}]]

(* It exists. *)
LEMMA SumExists ==
  ASSUME NEW S, IsFiniteSet(S), NEW w
  PROVE  \E h : IsSum(h, w, S)
<1> DEFINE Small(k) == {s \in SUBSET S : Cardinality(s) <= k}
           Is(h, k) == h = [s \in Small(k) |->
                              IF s = {} THEN 0 ELSE w[Pick(s)] + h[s \ {Pick(s)}]]
           N == {k \in Nat : \E h : Is(h, k)}
<1>0. ASSUME NEW s \in SUBSET S
      PROVE  /\ IsFiniteSet(s) /\ Cardinality(s) \in Nat
             /\ s # {} => /\ Cardinality(s) > 0
                          /\ Cardinality(s \ {Pick(s)}) = Cardinality(s) - 1
  <2>1. IsFiniteSet(s) /\ Cardinality(s) \in Nat
    BY FS_Subset, FS_CardinalityType
  <2>2. ASSUME s # {}
        PROVE  /\ Cardinality(s) > 0
               /\ Cardinality(s \ {Pick(s)}) = Cardinality(s) - 1
    <3>1. /\ Cardinality(s) \in Nat \ {0}
          /\ Cardinality(s \ {Pick(s)}) = Cardinality(s) - 1
      BY <2>1, <2>2, PickFacts, Zenon
    <3> QED BY <3>1
  <2> QED BY <2>1, <2>2
<1>1. 0 \in N
  <2>1. ASSUME NEW s \in Small(0) PROVE s = {}
    <3>1. s \in SUBSET S /\ Cardinality(s) <= 0
      OBVIOUS
    <3>2. Cardinality(s) \in Nat /\ (s # {} => Cardinality(s) > 0)
      BY <1>0, <3>1, Zenon
    <3> QED BY <3>1, <3>2
  <2>2. Is([s \in Small(0) |-> 0], 0)
    BY <2>1
  <2> QED BY <2>2
<1>2. ASSUME NEW k \in Nat, k \in N PROVE k + 1 \in N
  <2>1. PICK h : Is(h, k)
    BY <1>2
  <2> DEFINE g == [s \in Small(k + 1) |->
                     IF s = {} THEN 0 ELSE w[Pick(s)] + h[s \ {Pick(s)}]]
  <2>2. ASSUME NEW s \in Small(k + 1), s # {}
        PROVE  g[s \ {Pick(s)}] = h[s \ {Pick(s)}]
    <3>1. s \ {Pick(s)} \in Small(k) /\ s \ {Pick(s)} \in Small(k + 1)
      BY <1>0, <2>2
    <3> QED BY <2>1, <3>1
  <2>3. Is(g, k + 1)
    BY <2>2
  <2> HIDE DEF Is, g
  <2>4. \E q : Is(q, k + 1)
    BY <2>3
  <2> QED BY <2>4
<1> HIDE DEF N
<1>3. Nat \subseteq N
  BY <1>1, <1>2, SetInduction
<1>4. PICK h : Is(h, Cardinality(S))
  BY <1>3, FS_CardinalityType DEF N
<1>5. Small(Cardinality(S)) = SUBSET S
  BY FS_Subset
<1>6. IsSum(h, w, S)
  BY <1>4, <1>5 DEF IsSum, Pick
<1> QED BY <1>6

(* The sum is the value of such a function at S. *)
LEMMA SumByFunction ==
  ASSUME NEW S, IsFiniteSet(S), NEW w
  PROVE  \E h : IsSum(h, w, S) /\ SumFunctionOnSet(w, S) = h[S]
<1> DEFINE h == CHOOSE g : IsSum(g, w, S)
<1>1. IsSum(h, w, S)
  BY SumExists, Zenon
<1>2. SumFunctionOnSet(w, S) = h[S]
  BY DEF SumFunctionOnSet, FoldFunctionOnSet, MapThenFoldSet, IsSum
<1> QED BY <1>1, <1>2

LEMMA SumRule ==
  ASSUME NEW S, IsFiniteSet(S), NEW w \in [S -> Int], NEW h, IsSum(h, w, S)
  PROVE  /\ h[{}] = 0
         /\ \A s \in SUBSET S : s # {} => /\ Pick(s) \in s
                                         /\ h[s] = w[Pick(s)] + h[s \ {Pick(s)}]
         /\ \A s \in SUBSET S : h[s] \in Int
<1>1. h[{}] = 0
  BY DEF IsSum
<1>2. \A s \in SUBSET S : s # {} => /\ Pick(s) \in s
                                   /\ h[s] = w[Pick(s)] + h[s \ {Pick(s)}]
  BY DEF IsSum, Pick
<1> DEFINE Q == {s \in SUBSET S : h[s] \in Int}
<1>3. {} \in Q
  BY <1>1
<1>4. ASSUME NEW s \in SUBSET S, s # {}, s \ {Pick(s)} \in Q PROVE s \in Q
  <2>1. w[Pick(s)] \in Int
    BY <1>2, <1>4
  <2>2. h[s] = w[Pick(s)] + h[s \ {Pick(s)}] /\ h[s \ {Pick(s)}] \in Int
    BY <1>2, <1>4
  <2>3. h[s] \in Int
    BY <2>1, <2>2
  <2> QED BY <2>3
<1> HIDE DEF Q
<1>5. SUBSET S \subseteq Q
  BY <1>3, <1>4, SubsetInduction
<1> QED BY <1>1, <1>2, <1>5 DEF Q

(* How the sum over S is reached, one element after the other. *)
SumsTo(h, w, S) ==
  /\ h[{}] = 0
  /\ \A s \in SUBSET S : s # {} => /\ Pick(s) \in s
                                  /\ h[s] = w[Pick(s)] + h[s \ {Pick(s)}]
  /\ \A s \in SUBSET S : h[s] \in Int
  /\ SumFunctionOnSet(w, S) = h[S]

LEMMA SumSteps ==
  ASSUME NEW S, IsFiniteSet(S), NEW w \in [S -> Int]
  PROVE  /\ \E h : SumsTo(h, w, S)
         /\ SumFunctionOnSet(w, S) \in Int
<1>1. PICK h : IsSum(h, w, S) /\ SumFunctionOnSet(w, S) = h[S]
  BY SumByFunction
<1>2. SumsTo(h, w, S)
  BY <1>1, SumRule DEF SumsTo
<1> QED BY <1>2 DEF SumsTo

(* Zeros add up to zero. *)
LEMMA SumOfZeros ==
  ASSUME NEW S, IsFiniteSet(S), NEW w \in [S -> Int], \A x \in S : w[x] = 0
  PROVE  SumFunctionOnSet(w, S) = 0
<1>1. PICK h : SumsTo(h, w, S)
  BY SumSteps
<1> DEFINE Q == {s \in SUBSET S : h[s] = 0}
<1>2. {} \in Q
  BY <1>1 DEF SumsTo
<1>3. ASSUME NEW s \in SUBSET S, s # {}, s \ {Pick(s)} \in Q PROVE s \in Q
  BY <1>1, <1>3 DEF SumsTo
<1> HIDE DEF Q
<1>4. SUBSET S \subseteq Q
  BY <1>2, <1>3, SubsetInduction
<1> QED BY <1>1, <1>4 DEF Q, SumsTo

(* Of two functions the one that is nowhere greater has no greater sum. *)
LEMMA SumMonotone ==
  ASSUME NEW S, IsFiniteSet(S), NEW v \in [S -> Int], NEW w \in [S -> Int],
         \A x \in S : v[x] <= w[x]
  PROVE  SumFunctionOnSet(v, S) <= SumFunctionOnSet(w, S)
<1>1. PICK g : SumsTo(g, v, S)
  BY SumSteps
<1>2. PICK h : SumsTo(h, w, S)
  BY SumSteps
<1> DEFINE Q == {s \in SUBSET S : g[s] <= h[s]}
<1>3. {} \in Q
  BY <1>1, <1>2 DEF SumsTo
<1>4. ASSUME NEW s \in SUBSET S, s # {}, s \ {Pick(s)} \in Q PROVE s \in Q
  <2>1. /\ Pick(s) \in s /\ s \ {Pick(s)} \in SUBSET S
        /\ g[s] = v[Pick(s)] + g[s \ {Pick(s)}]
        /\ g[s \ {Pick(s)}] \in Int
    BY <1>1, <1>4 DEF SumsTo
  <2>2. /\ h[s] = w[Pick(s)] + h[s \ {Pick(s)}]
        /\ h[s \ {Pick(s)}] \in Int
    BY <1>2, <1>4 DEF SumsTo
  <2>3. /\ v[Pick(s)] \in Int /\ w[Pick(s)] \in Int
        /\ v[Pick(s)] <= w[Pick(s)]
    BY <2>1
  <2>4. g[s \ {Pick(s)}] <= h[s \ {Pick(s)}]
    BY <1>4
  <2> QED BY <2>1, <2>2, <2>3, <2>4
<1> HIDE DEF Q
<1>5. SUBSET S \subseteq Q
  BY <1>3, <1>4, SubsetInduction
<1> QED BY <1>1, <1>2, <1>5 DEF Q, SumsTo

(* Where two functions differ at t only, their sums differ by as much. *)
LEMMA SumChanged ==
  ASSUME NEW S, IsFiniteSet(S), NEW v \in [S -> Int], NEW w \in [S -> Int],
         NEW t \in S, \A x \in S : x # t => v[x] = w[x]
  PROVE  SumFunctionOnSet(w, S) = SumFunctionOnSet(v, S) + (w[t] - v[t])
<1>1. PICK g : SumsTo(g, v, S)
  BY SumSteps
<1>2. PICK h : SumsTo(h, w, S)
  BY SumSteps
<1> DEFINE Q == {s \in SUBSET S :
                   h[s] = IF t \in s THEN g[s] + (w[t] - v[t]) ELSE g[s]}
<1>3. {} \in Q
  BY <1>1, <1>2 DEF SumsTo
<1>4. ASSUME NEW s \in SUBSET S, s # {}, s \ {Pick(s)} \in Q PROVE s \in Q
  <2>1. /\ Pick(s) \in s /\ s \ {Pick(s)} \in SUBSET S
        /\ g[s] = v[Pick(s)] + g[s \ {Pick(s)}]
        /\ g[s \ {Pick(s)}] \in Int
    BY <1>1, <1>4 DEF SumsTo
  <2>2. /\ h[s] = w[Pick(s)] + h[s \ {Pick(s)}]
        /\ h[s \ {Pick(s)}] \in Int
    BY <1>2, <1>4 DEF SumsTo
  <2>3. /\ v[Pick(s)] \in Int /\ w[Pick(s)] \in Int
        /\ v[t] \in Int /\ w[t] \in Int
        /\ Pick(s) # t => v[Pick(s)] = w[Pick(s)]
    BY <2>1
  <2>4. h[s \ {Pick(s)}] = IF t \in s \ {Pick(s)}
                             THEN g[s \ {Pick(s)}] + (w[t] - v[t])
                             ELSE g[s \ {Pick(s)}]
    BY <1>4
  <2>5. CASE Pick(s) = t
    BY <2>1, <2>2, <2>3, <2>4, <2>5
  <2>6. CASE Pick(s) # t
    <3>1. t \in s <=> t \in s \ {Pick(s)}
      BY <2>6
    <3> QED BY <2>1, <2>2, <2>3, <2>4, <2>6, <3>1
  <2> QED BY <2>5, <2>6
<1> HIDE DEF Q
<1>5. SUBSET S \subseteq Q
  BY <1>3, <1>4, SubsetInduction
<1> QED BY <1>1, <1>2, <1>5 DEF Q, SumsTo

(* In how many places of I f has the value x. *)
CountOf(f, I, x) == Cardinality({i \in I : f[i] = x})

LEMMA CountType ==
  ASSUME NEW f, NEW I, IsFiniteSet(I), NEW x
  PROVE  /\ IsFiniteSet({i \in I : f[i] = x})
         /\ CountOf(f, I, x) \in Nat
         /\ CountOf(f, I, x) > 0 <=> \E i \in I : f[i] = x
<1> DEFINE F == {i \in I : f[i] = x}
<1>1. IsFiniteSet(F)
  BY FS_Subset
<1>2. F # {} <=> \E i \in I : f[i] = x
  OBVIOUS
<1>3. CountOf(f, I, x) = Cardinality(F)
  BY DEF CountOf
<1> HIDE DEF F
<1>4. Cardinality(F) \in Nat /\ (Cardinality(F) = 0 <=> F = {})
  BY <1>1, FS_CardinalityType, FS_EmptySet
<1>5. Cardinality(F) > 0 <=> F # {}
  BY <1>4
<1> QED BY <1>1, <1>2, <1>3, <1>4, <1>5 DEF F

(* One place more: the value there is counted once more. *)
LEMMA CountOneMore ==
  ASSUME NEW f, NEW I, IsFiniteSet(I), NEW k, k \notin I, NEW x
  PROVE  CountOf(f, I \cup {k}, x) =
           CountOf(f, I, x) + (IF f[k] = x THEN 1 ELSE 0)
<1> DEFINE F == {i \in I : f[i] = x}
           G == {i \in I \cup {k} : f[i] = x}
<1>0. IsFiniteSet(F)
  BY FS_Subset
<1>1. IsFiniteSet(F) /\ Cardinality(F) \in Nat
  BY <1>0, FS_CardinalityType
<1>2. G = IF f[k] = x THEN F \cup {k} ELSE F
  OBVIOUS
<1>3. k \notin F
  OBVIOUS
<1>4. CountOf(f, I, x) = Cardinality(F) /\ CountOf(f, I \cup {k}, x) = Cardinality(G)
  BY DEF CountOf
<1> HIDE DEF F, G
<1>5. Cardinality(F \cup {k}) = Cardinality(F) + 1
  BY <1>1, <1>3, FS_AddElement
<1> QED BY <1>1, <1>2, <1>4, <1>5

(* Where f and g agree their counts do. *)
LEMMA CountAgrees ==
  ASSUME NEW f, NEW g, NEW I, \A i \in I : f[i] = g[i], NEW x
  PROVE  CountOf(f, I, x) = CountOf(g, I, x)
<1>1. {i \in I : f[i] = x} = {i \in I : g[i] = x}
  OBVIOUS
<1> QED BY <1>1 DEF CountOf

(* The value written at k is counted in place of the one that was there. *)
LEMMA CountWritten ==
  ASSUME NEW f, NEW g, NEW I, IsFiniteSet(I), NEW k \in I,
         \A i \in I : i # k => f[i] = g[i], NEW x
  PROVE  CountOf(g, I, x) = CountOf(f, I, x) - (IF f[k] = x THEN 1 ELSE 0)
                                             + (IF g[k] = x THEN 1 ELSE 0)
<1> DEFINE J == I \ {k}
<1>1. IsFiniteSet(J) /\ k \notin J /\ J \cup {k} = I
  BY FS_RemoveElement
<1>2. CountOf(f, J, x) = CountOf(g, J, x)
  BY CountAgrees
<1>3. CountOf(f, J, x) \in Nat
  BY <1>1, CountType
<1> HIDE DEF J
<1>4. CountOf(f, I, x) = CountOf(f, J, x) + (IF f[k] = x THEN 1 ELSE 0)
  BY <1>1, CountOneMore
<1>5. CountOf(g, I, x) = CountOf(g, J, x) + (IF g[k] = x THEN 1 ELSE 0)
  BY <1>1, CountOneMore
<1> QED BY <1>2, <1>3, <1>4, <1>5

(* The places of each value of f add up to all its places. *)
LEMMA SumOfPlaces ==
  ASSUME NEW I, IsFiniteSet(I), NEW S, IsFiniteSet(S), NEW f,
         \A i \in I : f[i] \in S,
         NEW w, w = [x \in S |-> CountOf(f, I, x)]
  PROVE  SumFunctionOnSet(w, S) = Cardinality(I)
<1> DEFINE At(s) == {i \in I : f[i] \in s}
           Of(x) == {i \in I : f[i] = x}
<1>0. \A J \in SUBSET I : IsFiniteSet(J) /\ Cardinality(J) \in Nat
  BY FS_Subset, FS_CardinalityType
<1>1. w \in [S -> Int] /\ \A x \in S : w[x] = Cardinality(Of(x))
  BY <1>0 DEF CountOf
<1>2. PICK h : SumsTo(h, w, S)
  BY <1>1, SumSteps
<1> DEFINE Q == {s \in SUBSET S : h[s] = Cardinality(At(s))}
<1>3. {} \in Q
  <2>1. At({}) = {}
    OBVIOUS
  <2> QED BY <1>1, <1>2, <2>1, FS_EmptySet DEF SumsTo
<1>4. ASSUME NEW s \in SUBSET S, s # {}, s \ {Pick(s)} \in Q PROVE s \in Q
  <2>1. /\ Pick(s) \in s /\ h[s] = w[Pick(s)] + h[s \ {Pick(s)}]
    BY <1>1, <1>2, <1>4 DEF SumsTo
  <2>2. w[Pick(s)] = Cardinality(Of(Pick(s)))
    BY <1>1, <2>1
  <2>3. /\ At(s) = Of(Pick(s)) \cup At(s \ {Pick(s)})
        /\ Of(Pick(s)) \cap At(s \ {Pick(s)}) = {}
    BY <2>1
  <2>4. Cardinality(At(s)) = Cardinality(Of(Pick(s)))
                             + Cardinality(At(s \ {Pick(s)}))
    <3>1. /\ Of(Pick(s)) \in SUBSET I /\ At(s \ {Pick(s)}) \in SUBSET I
      OBVIOUS
    <3> DEFINE A == Of(Pick(s))
               B == At(s \ {Pick(s)})
    <3>2. /\ IsFiniteSet(A) /\ IsFiniteSet(B)
          /\ Cardinality(A) \in Nat /\ Cardinality(B) \in Nat
      BY <1>0, <3>1
    <3>3. At(s) = A \cup B /\ A \cap B = {}
      BY <2>3
    <3> HIDE DEF A, B
    <3>4. Cardinality(A \cup B) =
            Cardinality(A) + Cardinality(B) - Cardinality(A \cap B)
      BY <3>2, FS_Union
    <3>5. Cardinality(A \cap B) = 0
      BY <3>3, FS_EmptySet
    <3>6. Cardinality(A \cup B) = Cardinality(A) + Cardinality(B)
      BY <3>2, <3>4, <3>5
    <3> QED BY <3>3, <3>6 DEF A, B
  <2> QED BY <1>4, <2>1, <2>2, <2>4
<1> HIDE DEF Q
<1>5. SUBSET S \subseteq Q
  BY <1>3, <1>4, SubsetInduction
<1>6. At(S) = I
  OBVIOUS
<1> QED BY <1>2, <1>5, <1>6 DEF Q, SumsTo
=============================================================================
