-------------------------------- MODULE Lemmas --------------------------------
(***************************************************************************)
(* Facts that the proofs of several components need: least numbers, what a *)
(* loop comes to, and sums over finite sets as the folds of the community  *)
(* modules define them.                                                    *)
(***************************************************************************)
EXTENDS Integers, FiniteSetTheorems, WellFoundedInduction, TLAPS

\* A set of naturals that has a member has a least one: what stands for induction here.
LEMMA LeastNatural ==
  ASSUME NEW T, T \subseteq Nat, T # {}
  PROVE  \E x \in T : \A y \in T : x <= y
<1> DEFINE R == {p \in Nat \X Nat : p[1] < p[2]}
<1>1. OpToRel(<, Nat) = R
  BY DEF OpToRel
<1>2. \A x, y \in Nat : <<y, x>> \in R <=> y < x
  OBVIOUS
<1> HIDE DEF R
<1>3. IsWellFoundedOn(R, Nat)
  BY <1>1, NatLessThanWellFounded, Zenon
<1>4. PICK x \in T : \A y \in T : ~(<<y, x>> \in R)
  BY <1>3, WFMin, Zenon
<1>5. \A y \in T : ~(y < x) /\ y \in Nat /\ x \in Nat
  BY <1>2, <1>4
<1>6. \A y \in T : x <= y
  BY <1>5
<1> QED BY <1>6

\* What holds at 0, and at each number if it holds at the one before, holds at all of them.
LEMMA UpTo ==
  ASSUME NEW n \in Nat, NEW T, 0 \in T, \A k \in 1..n : k - 1 \in T => k \in T
  PROVE  \A k \in 0..n : k \in T
<1> DEFINE Out == {k \in 0..n : k \notin T}
<1> SUFFICES ASSUME Out # {} PROVE FALSE
  OBVIOUS
<1>1. Out \subseteq Nat
  OBVIOUS
<1> HIDE DEF Out
<1>2. PICK k \in Out : \A j \in Out : k <= j
  BY <1>1, LeastNatural
<1>3. k \in 0..n /\ k \notin T
  BY DEF Out
<1>4. k \in 1..n /\ k - 1 \in 0..n /\ k - 1 \notin Out
  BY <1>2, <1>3
<1>5. k - 1 \in T
  BY <1>4 DEF Out
<1> QED
  BY <1>3, <1>4, <1>5

\* A quotient and its remainder are the only ones.
LEMMA Divided ==
  ASSUME NEW a \in Nat, NEW n \in Nat \ {0}, NEW q \in Nat, NEW r \in 0..(n - 1), a = n * q + r
  PROVE  a \div n = q /\ a % n = r
<1>1. a = n * (a \div n) + (a % n) /\ a % n \in 0..(n - 1) /\ a \div n \in Nat
  OBVIOUS
<1> DEFINE p == a \div n
           s == a % n
<1>2. n * (q - p) = s - r /\ q - p \in Int
  BY <1>1
<1> HIDE DEF p, s
<1>3. p \in Nat /\ s \in 0..(n - 1)
  BY <1>1 DEF p, s
<1>4. CASE q - p >= 1
  <2>1. n * (q - p) >= n
    BY <1>3, <1>4
  <2> QED
    BY <1>2, <1>3, <2>1
<1>5. CASE q - p <= -1
  <2>1. n * (p - q) >= n
    BY <1>3, <1>5
  <2>2. n * (p - q) = r - s
    BY <1>2, <1>3
  <2> QED
    BY <1>3, <2>1, <2>2
<1>6. CASE q = p
  BY <1>2, <1>3, <1>6 DEF p, s
<1> QED
  BY <1>3, <1>4, <1>5, <1>6

\* The states a loop of n turns goes through.
Loop(f, S, turn, start, n) ==
  /\ f \in [0..n -> S]
  /\ f[0] = start /\ \A k \in 1..n : f[k] = turn[f[k - 1]]

\* There is such a function, which is what a recursive definition asks for.
LEMMA Turns ==
  ASSUME NEW S, NEW turn \in [S -> S], NEW start \in S, NEW n \in Nat
  PROVE  \E f : Loop(f, S, turn, start, n)
<1> DEFINE T == {m \in 0..n : \E f : Loop(f, S, turn, start, m)}
<1>1. 0 \in T
  <2>1. Loop([k \in 0..0 |-> start], S, turn, start, 0)
    BY DEF Loop
  <2> QED
    BY <2>1
<1>2. ASSUME NEW m \in 1..n, m - 1 \in T PROVE m \in T
  <2>1. PICK f : Loop(f, S, turn, start, m - 1)
    BY <1>2
  <2> DEFINE g == [k \in 0..m |-> IF k = m THEN turn[f[m - 1]] ELSE f[k]]
  <2>2. f[m - 1] \in S
    BY <2>1 DEF Loop
  <2>3. \A k \in 1..m : g[k] = turn[g[k - 1]]
    BY <2>1 DEF Loop
  <2>4. Loop(g, S, turn, start, m)
    BY <2>1, <2>2, <2>3 DEF Loop
  <2> QED
    BY <2>4
<1> HIDE DEF T
<1>3. \A k \in 0..n : k \in T
  <2>1. \A k \in 1..n : k - 1 \in T => k \in T
    BY <1>2
  <2> QED
    BY <1>1, <2>1, UpTo
<1>4. n \in T
  BY <1>3
<1> QED
  BY <1>4 DEF T

\* The same where each turn does something else.
Stepping(f, S, step, start, n) ==
  /\ f \in [0..n -> S]
  /\ f[0] = start /\ \A k \in 1..n : f[k] = step[k][f[k - 1]]

LEMMA Steppings ==
  ASSUME NEW S, NEW n \in Nat, NEW step \in [1..n -> [S -> S]], NEW start \in S
  PROVE  \E f : Stepping(f, S, step, start, n)
<1> DEFINE T == {m \in 0..n : \E f : Stepping(f, S, step, start, m)}
<1>1. 0 \in T
  <2>1. Stepping([k \in 0..0 |-> start], S, step, start, 0)
    BY DEF Stepping
  <2> QED
    BY <2>1
<1>2. ASSUME NEW m \in 1..n, m - 1 \in T PROVE m \in T
  <2>1. PICK f : Stepping(f, S, step, start, m - 1)
    BY <1>2
  <2> DEFINE g == [k \in 0..m |-> IF k = m THEN step[m][f[m - 1]] ELSE f[k]]
  <2>2. f[m - 1] \in S /\ step[m] \in [S -> S] /\ step[m][f[m - 1]] \in S
    BY <2>1 DEF Stepping
  <2>3. \A k \in 1..m : g[k] = step[k][g[k - 1]]
    BY <2>1 DEF Stepping
  <2>4. Stepping(g, S, step, start, m)
    BY <2>1, <2>2, <2>3 DEF Stepping
  <2> QED
    BY <2>4
<1> HIDE DEF T
<1>3. \A k \in 0..n : k \in T
  <2>1. \A k \in 1..n : k - 1 \in T => k \in T
    BY <1>2
  <2> QED
    BY <1>1, <2>1, UpTo
<1>4. n \in T
  BY <1>3
<1> QED
  BY <1>4 DEF T

-----------------------------------------------------------------------------
First(s) == CHOOSE x \in s : TRUE

Added(f, sum, s) == IF s = {} THEN 0 ELSE f[First(s)] + sum[s \ {First(s)}]

\* What FoldSet and MapThenSumSet make of a sum of f over S.
SumOf(f, S) == (CHOOSE sum : sum = [s \in SUBSET S |-> Added(f, sum, s)])[S]

Numbers(f, S, V) == \A x \in S : f[x] \in V

LEMMA Smaller ==
  ASSUME NEW S, IsFiniteSet(S), NEW s \in SUBSET S
  PROVE  /\ Cardinality(s) \in Nat
         /\ s # {} => /\ First(s) \in s /\ s \ {First(s)} \in SUBSET S
                      /\ Cardinality(s \ {First(s)}) = Cardinality(s) - 1
                      /\ Cardinality(s) # 0
<1>1. IsFiniteSet(s) /\ Cardinality(s) \in Nat
  BY FS_Subset, FS_CardinalityType
<1>2. ASSUME s # {} PROVE First(s) \in s
  BY <1>2 DEF First
<1>3. ASSUME s # {} PROVE Cardinality(s \ {First(s)}) = Cardinality(s) - 1
  BY <1>1, <1>2, <1>3, FS_RemoveElement
<1>4. s # {} => Cardinality(s) # 0
  BY <1>1, FS_EmptySet
<1> QED
  BY <1>1, <1>2, <1>3, <1>4

\* There is such a function: one for the sets of at most k, whatever k is.
LEMMA SumExists ==
  ASSUME NEW f, NEW S, IsFiniteSet(S), Numbers(f, S, Int)
  PROVE  \E sum : sum = [s \in SUBSET S |-> Added(f, sum, s)]
<1> DEFINE Upto(k) == {s \in SUBSET S : Cardinality(s) <= k}
           Sums(k) == {g \in [Upto(k) -> Int] : \A s \in Upto(k) : g[s] = Added(f, g, s)}
           Without == {k \in Nat : Sums(k) = {}}
<1>1. Sums(0) # {}
  <2>1. ASSUME NEW s \in Upto(0) PROVE s = {}
    <3>1. Cardinality(s) \in Nat /\ (s # {} => Cardinality(s) # 0)
      BY Smaller
    <3> QED
      BY <3>1
  <2>2. [s \in Upto(0) |-> 0] \in Sums(0)
    BY <2>1 DEF Added
  <2> QED
    BY <2>2
<1>2. ASSUME NEW k \in Nat, Sums(k) # {} PROVE Sums(k + 1) # {}
  <2>1. PICK g \in [Upto(k) -> Int] : \A s \in Upto(k) : g[s] = Added(f, g, s)
    BY <1>2
  <2> DEFINE h == [s \in Upto(k + 1) |-> Added(f, g, s)]
  <2>2. ASSUME NEW s \in Upto(k + 1), s # {}
        PROVE  First(s) \in S /\ s \ {First(s)} \in Upto(k) /\ s \ {First(s)} \in Upto(k + 1)
    BY <2>2, Smaller
  <2>3. \A s \in Upto(k) : h[s] = g[s]
    <3>1. ASSUME NEW s \in Upto(k) PROVE s \in Upto(k + 1)
      <4>1. Cardinality(s) \in Nat
        BY Smaller
      <4> QED
        BY <4>1
    <3> QED
      BY <2>1, <3>1
  <2>4. \A s \in Upto(k + 1) : h[s] \in Int
    <3> SUFFICES ASSUME NEW s \in Upto(k + 1) PROVE Added(f, g, s) \in Int
      OBVIOUS
    <3>1. CASE s = {}
      BY <3>1 DEF Added
    <3>2. CASE s # {}
      <4>1. f[First(s)] \in Int /\ g[s \ {First(s)}] \in Int
        BY <2>1, <2>2, <3>2 DEF Numbers
      <4> QED
        BY <4>1, <3>2 DEF Added
    <3> QED
      BY <3>1, <3>2
  <2>5. \A s \in Upto(k + 1) : h[s] = Added(f, h, s)
    BY <2>2, <2>3 DEF Added
  <2> HIDE DEF h
  <2>6. h \in [Upto(k + 1) -> Int]
    BY <2>4 DEF h
  <2>7. h \in Sums(k + 1)
    BY <2>5, <2>6
  <2> QED
    BY <2>7
<1>3. Without = {}
  <2> SUFFICES ASSUME Without # {} PROVE FALSE
    OBVIOUS
  <2> HIDE DEF Sums
  <2>1. PICK k \in Without : \A j \in Without : k <= j
    BY LeastNatural
  <2>2. k # 0 /\ k \in Nat /\ k - 1 \notin Without
    BY <1>1, <2>1
  <2>3. k - 1 \in Nat /\ Sums(k - 1) # {} /\ k - 1 + 1 = k
    BY <2>2
  <2>4. Sums(k - 1 + 1) # {}
    BY <1>2, <2>3
  <2> QED
    BY <2>1, <2>3, <2>4
<1>4. Cardinality(S) \in Nat /\ Upto(Cardinality(S)) = SUBSET S
  BY FS_CardinalityType, FS_Subset
<1>5. Sums(Cardinality(S)) # {}
  BY <1>3, <1>4
<1>6. PICK g \in [SUBSET S -> Int] : \A s \in SUBSET S : g[s] = Added(f, g, s)
  BY <1>4, <1>5
<1>7. g = [s \in SUBSET S |-> Added(f, g, s)]
  BY <1>6
<1> QED
  BY <1>7

\* The sum function of f over S.
Summing(f, S) == CHOOSE sum : sum = [s \in SUBSET S |-> Added(f, sum, s)]

\* Induction over the subsets of a finite set: if some are bad, one has none below it.
LEMMA LeastBad ==
  ASSUME NEW S, IsFiniteSet(S), NEW Bad \in SUBSET SUBSET S, Bad # {}
  PROVE  \E s \in Bad : s = {} \/ s \ {First(s)} \notin Bad
<1> DEFINE Sizes == {Cardinality(s) : s \in Bad}
<1>1. Sizes \subseteq Nat /\ Sizes # {}
  <2>1. \A s \in Bad : Cardinality(s) \in Nat
    BY Smaller
  <2> QED
    BY <2>1
<1>2. PICK k \in Sizes : \A j \in Sizes : k <= j
  BY <1>1, LeastNatural
<1>3. PICK s \in Bad : Cardinality(s) = k
  BY <1>2
<1>4. ASSUME s # {}, s \ {First(s)} \in Bad PROVE FALSE
  <2>1. Cardinality(s \ {First(s)}) = k - 1 /\ k \in Nat
    BY <1>3, <1>4, Smaller
  <2> QED
    BY <1>2, <1>4, <2>1
<1> QED
  BY <1>4

SumsUp(f, S, sum) ==
  /\ SumOf(f, S) = sum[S]
  /\ \A s \in SUBSET S : sum[s] = Added(f, sum, s)
  /\ sum \in [SUBSET S -> Int]

LEMMA SummingOf ==
  ASSUME NEW f, NEW S, IsFiniteSet(S), Numbers(f, S, Int)
  PROVE  SumsUp(f, S, Summing(f, S))
<1> DEFINE g == Summing(f, S)
<1>1. g = [s \in SUBSET S |-> Added(f, g, s)]
  BY SumExists DEF Summing
<1> HIDE DEF g
<1> DEFINE Bad == {s \in SUBSET S : g[s] \notin Int}
<1>2. Bad = {}
  <2> SUFFICES ASSUME Bad # {} PROVE FALSE
    OBVIOUS
  <2>1. PICK s \in Bad : s = {} \/ s \ {First(s)} \notin Bad
    BY LeastBad
  <2>2. CASE s = {}
    BY <1>1, <2>2 DEF Added
  <2>3. CASE s # {} /\ s \ {First(s)} \notin Bad
    <3>1. g[s \ {First(s)}] \in Int /\ f[First(s)] \in Int
      BY <2>3, Smaller DEF Numbers
    <3>2. g[s] = f[First(s)] + g[s \ {First(s)}]
      BY <1>1, <2>3 DEF Added
    <3> QED
      BY <2>1, <3>1, <3>2
  <2> QED
    BY <2>1, <2>2, <2>3
<1>3. g \in [SUBSET S -> Int]
  BY <1>1, <1>2
<1> QED
  BY <1>1, <1>3 DEF SumsUp, SumOf, Summing, g

\* A sum of naturals is one.
LEMMA SumIsNat ==
  ASSUME NEW f, NEW S, IsFiniteSet(S), Numbers(f, S, Nat)
  PROVE  SumOf(f, S) \in Nat
<1> DEFINE g == Summing(f, S)
           Bad == {s \in SUBSET S : g[s] \notin Nat}
<1> HIDE DEF g, Bad
<1>0. Numbers(f, S, Int)
  BY DEF Numbers
<1>1. SumsUp(f, S, g)
  BY <1>0, SummingOf DEF g
<1> USE DEF Bad, SumsUp
<1>2. Bad = {}
  <2> SUFFICES ASSUME Bad # {} PROVE FALSE
    OBVIOUS
  <2>1. PICK s \in Bad : s = {} \/ s \ {First(s)} \notin Bad
    BY LeastBad
  <2>2. CASE s = {}
    <3>1. g[s] = 0
      BY <1>1, <2>2 DEF Added
    <3> QED
      BY <2>1, <3>1
  <2>3. CASE s # {} /\ s \ {First(s)} \notin Bad
    <3>1. g[s \ {First(s)}] \in Nat /\ f[First(s)] \in Nat
      BY <2>3, Smaller DEF Numbers
    <3>2. g[s] = f[First(s)] + g[s \ {First(s)}]
      BY <1>1, <2>3 DEF Added
    <3> QED
      BY <2>1, <3>1, <3>2
  <2> QED
    BY <2>1, <2>2, <2>3
<1> QED
  BY <1>1, <1>2

\* Where one value changes by d, so does the sum.
LEMMA SumChanges ==
  ASSUME NEW f, NEW h, NEW S, IsFiniteSet(S), Numbers(f, S, Int), NEW w \in S, NEW d \in Int,
         h[w] = f[w] + d, \A x \in S \ {w} : h[x] = f[x]
  PROVE  SumOf(f, S) \in Int /\ SumOf(h, S) = SumOf(f, S) + d
<1>0. Numbers(h, S, Int)
  BY DEF Numbers
<1> DEFINE g == Summing(f, S)
           k == Summing(h, S)
           Share(s) == IF w \in s THEN d ELSE 0
           Bad == {s \in SUBSET S : k[s] # g[s] + Share(s)}
<1> HIDE DEF g, k, Bad
<1>1. SumsUp(f, S, g)
  BY SummingOf DEF g
<1>2. SumsUp(h, S, k)
  BY <1>0, SummingOf DEF k
<1> USE DEF Bad, SumsUp
<1>3. Bad = {}
  <2> SUFFICES ASSUME Bad # {} PROVE FALSE
    OBVIOUS
  <2>1. PICK s \in Bad : s = {} \/ s \ {First(s)} \notin Bad
    BY LeastBad
  <2>2. CASE s = {}
    <3>1. g[s] = 0 /\ k[s] = 0
      BY <1>1, <1>2, <2>2 DEF Added
    <3> QED
      BY <2>1, <2>2, <3>1
  <2>3. CASE s # {} /\ s \ {First(s)} \notin Bad
    <3> DEFINE x == First(s)
               t == s \ {x}
    <3>1. x \in s /\ x \in S /\ t \in SUBSET S
      BY <2>3, Smaller
    <3>2. k[s] = h[x] + k[t] /\ g[s] = f[x] + g[t]
      BY <1>1, <1>2, <2>3 DEF Added
    <3>3. k[t] = g[t] + Share(t)
      BY <2>3, <3>1
    <3>4. g[t] \in Int /\ f[x] \in Int
      BY <1>1, <3>1 DEF Numbers
    <3>5. h[x] = f[x] + (IF x = w THEN d ELSE 0)
      BY <3>1, <3>4
    <3>6. Share(s) = Share(t) + (IF x = w THEN d ELSE 0) /\ Share(t) \in Int
      BY <3>1
    <3> HIDE DEF x, t, Share
    <3>7. k[s] = g[s] + Share(s)
      <4>1. (IF x = w THEN d ELSE 0) \in Int
        OBVIOUS
      <4> HIDE DEF x
      <4> QED
        BY <3>2, <3>3, <3>4, <3>5, <3>6, <4>1
    <3> QED
      BY <2>1, <3>7
  <2> QED
    BY <2>1, <2>2, <2>3
<1>4. k[S] = g[S] + Share(S) /\ g[S] \in Int
  BY <1>1, <1>3
<1> QED
  BY <1>1, <1>2, <1>4

\* A sum of nothing but zeros is zero.
LEMMA SumOfZeros ==
  ASSUME NEW f, NEW S, IsFiniteSet(S), \A x \in S : f[x] = 0
  PROVE  SumOf(f, S) = 0
<1> DEFINE g == Summing(f, S)
           Bad == {s \in SUBSET S : g[s] # 0}
<1> HIDE DEF g, Bad
<1>0. Numbers(f, S, Int)
  BY DEF Numbers
<1>1. SumsUp(f, S, g)
  BY <1>0, SummingOf DEF g
<1> USE DEF Bad, SumsUp
<1>2. Bad = {}
  <2> SUFFICES ASSUME Bad # {} PROVE FALSE
    OBVIOUS
  <2>1. PICK s \in Bad : s = {} \/ s \ {First(s)} \notin Bad
    BY LeastBad
  <2>2. CASE s = {}
    BY <1>1, <2>1, <2>2 DEF Added
  <2>3. CASE s # {} /\ s \ {First(s)} \notin Bad
    <3>1. g[s \ {First(s)}] = 0 /\ f[First(s)] = 0
      BY <2>3, Smaller
    <3>2. g[s] = f[First(s)] + g[s \ {First(s)}]
      BY <1>1, <2>3 DEF Added
    <3> QED
      BY <2>1, <3>1, <3>2
  <2> QED
    BY <2>1, <2>2, <2>3
<1> QED
  BY <1>1, <1>2
=============================================================================
