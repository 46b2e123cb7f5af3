---------------------------- MODULE SetOpsProofs ----------------------------
(***************************************************************************)
(* What the algorithms of SetOps compute, for every input.  The lemmas of  *)
(* the first section stand in for the library's induction theorems: a      *)
(* predicate is a set of naturals, a recursive definition is a fixpoint.   *)
(***************************************************************************)
EXTENDS SetOps, FiniteSetTheorems, FunctionTheorems, SequenceTheorems, TLAPS

-----------------------------------------------------------------------------
(* Induction and recursion *)

\* Induction over the naturals, for a set instead of a predicate.
LEMMA Induction ==
  ASSUME NEW S, 0 \in S, \A n \in Nat : n \in S => n + 1 \in S
  PROVE  \A n \in Nat : n \in S
<1> DEFINE R == {p \in Nat \X Nat : p[1] < p[2]}
           T == Nat \ S
<1>1. IsWellFoundedOn(R, Nat)
  BY NatLessThanWellFounded DEF OpToRel
<1>2. \A x, y \in Nat : y < x => <<y, x>> \in R
  OBVIOUS
<1> SUFFICES ASSUME T # {} PROVE FALSE
  OBVIOUS
<1> HIDE DEF R
<1>3. PICK x \in T : \A y \in T : ~ (<<y, x>> \in R)
  <2>1. T \subseteq Nat
    OBVIOUS
  <2> HIDE DEF T
  <2> QED
    BY <1>1, <2>1, WFMin
<1>4. x \in Nat /\ x # 0
  OBVIOUS
<1>5. x - 1 \in Nat /\ x - 1 < x
  BY <1>4
<1>6. x - 1 \in S
  BY <1>2, <1>3, <1>4, <1>5
<1>7. (x - 1) + 1 \in S
  BY <1>5, <1>6
<1> QED
  BY <1>4, <1>7

\* The same with all smaller numbers as hypothesis.
LEMMA StrongInduction ==
  ASSUME NEW S, \A n \in Nat : (\A m \in 0..n - 1 : m \in S) => n \in S
  PROVE  \A n \in Nat : n \in S
<1> DEFINE T == {n \in Nat : \A m \in 0..n - 1 : m \in S}
<1>1. 0 \in T
  OBVIOUS
<1>2. ASSUME NEW n \in Nat, n \in T PROVE n + 1 \in T
  BY <1>2
<1>3. \A n \in Nat : n \in T
  <2> HIDE DEF T
  <2> QED
    BY <1>1, <1>2, Induction
<1> QED
  BY <1>3

\* A definition of a function from D to V by one step of its recursion, whose value
\* at x depends on the values at elements of a smaller measure.
Recursive(D, V, step, m) ==
  /\ V # {}
  /\ step \in [[D -> V] -> [D -> V]]
  /\ m \in [D -> Nat]
  /\ \A g, h \in [D -> V], x \in D :
       (\A y \in D : m[y] < m[x] => g[y] = h[y]) => step[g][x] = step[h][x]

HasSolution(D, V, step) == \E f \in [D -> V] : f = step[f]

\* Such a definition has a solution.
LEMMA Fixpoint ==
  ASSUME NEW D, NEW V, NEW step, NEW m, Recursive(D, V, step, m)
  PROVE  HasSolution(D, V, step)
<1> USE DEF Recursive
<1> DEFINE Good(n, g) == \A x \in D : m[x] < n => g[x] = step[g][x]
           S == {n \in Nat : \E g \in [D -> V] : Good(n, g)}
<1>1. 0 \in S
  <2>1. PICK v \in V : TRUE
    OBVIOUS
  <2> DEFINE g == [x \in D |-> v]
  <2>2. g \in [D -> V]
    OBVIOUS
  <2>3. Good(0, g)
    OBVIOUS
  <2> HIDE DEF g, Good
  <2> QED
    BY <2>2, <2>3
<1>2. ASSUME NEW n \in Nat, n \in S PROVE n + 1 \in S
  <2>1. PICK g \in [D -> V] : Good(n, g)
    BY <1>2
  <2> DEFINE h == [x \in D |-> IF m[x] <= n THEN step[g][x] ELSE g[x]]
  <2>2. h \in [D -> V]
    OBVIOUS
  <2>3. \A x \in D : m[x] < n => h[x] = g[x]
    BY <2>1
  <2>4. ASSUME NEW x \in D, m[x] < n + 1 PROVE h[x] = step[h][x]
    <3>1. h[x] = step[g][x]
      BY <2>4
    <3>2. \A y \in D : m[y] < m[x] => g[y] = h[y]
      BY <2>3, <2>4
    <3> HIDE DEF h
    <3>3. step[g][x] = step[h][x]
      BY <2>2, <3>2
    <3> QED
      BY <3>1, <3>3
  <2>5. Good(n + 1, h)
    BY <2>4
  <2> HIDE DEF h, Good
  <2> QED
    BY <2>2, <2>5
<1>3. \A n \in Nat : \E g \in [D -> V] : Good(n, g)
  <2>1. \A n \in Nat : n \in S
    <3> HIDE DEF S
    <3> QED
      BY <1>1, <1>2, Induction
  <2> QED
    BY <2>1
<1> DEFINE G == [n \in Nat |-> CHOOSE g \in [D -> V] : Good(n, g)]
           f == [x \in D |-> G[m[x] + 1][x]]
<1>4. \A n \in Nat : G[n] \in [D -> V] /\ Good(n, G[n])
  <2> HIDE DEF Good
  <2> QED
    BY <1>3
\* Two solutions up to n agree up to n.
<1>5. ASSUME NEW g \in [D -> V], NEW h \in [D -> V], NEW n \in Nat, Good(n, g), Good(n, h)
      PROVE  \A x \in D : m[x] < n => g[x] = h[x]
  <2> DEFINE A == {k \in Nat : \A x \in D : m[x] = k /\ k < n => g[x] = h[x]}
  <2>1. ASSUME NEW k \in Nat, \A j \in 0..k - 1 : j \in A PROVE k \in A
    <3> SUFFICES ASSUME NEW x \in D, m[x] = k, k < n PROVE g[x] = h[x]
      OBVIOUS
    <3>1. \A y \in D : m[y] < m[x] => g[y] = h[y]
      BY <2>1
    <3>2. step[g][x] = step[h][x]
      BY <3>1
    <3> QED
      BY <1>5, <3>2
  <2>2. \A k \in Nat : k \in A
    <3> HIDE DEF A
    <3> QED
      BY <2>1, StrongInduction
  <2> QED
    BY <2>2
<1>6. f \in [D -> V]
  <2> HIDE DEF G
  <2> QED
    BY <1>4
<1>7. ASSUME NEW x \in D PROVE f[x] = step[f][x]
  <2> DEFINE n == m[x] + 1
  <2>1. n \in Nat /\ G[n] \in [D -> V] /\ Good(n, G[n]) /\ m[x] < n
    <3> HIDE DEF Good, G
    <3> QED
      BY <1>4
  <2>2. f[x] = G[n][x] /\ G[n][x] = step[G[n]][x]
    BY <2>1
  <2>3. ASSUME NEW y \in D, m[y] < m[x] PROVE G[n][y] = f[y]
    <3> DEFINE k == m[y] + 1
    <3>1. k \in Nat /\ G[k] \in [D -> V] /\ Good(k, G[k]) /\ m[y] < k /\ k <= n
      <4> HIDE DEF Good, G
      <4> QED
        BY <1>4, <2>3
    <3>2. Good(k, G[n])
      <4> HIDE DEF G
      <4> QED
        BY <2>1, <3>1
    <3>3. f[y] = G[k][y]
      OBVIOUS
    <3> HIDE DEF Good, G, f
    <3>4. G[n][y] = G[k][y]
      BY <1>5, <2>1, <3>1, <3>2
    <3> QED
      BY <3>3, <3>4
  <2> HIDE DEF f, G, n, Good
  <2>4. step[G[n]][x] = step[f][x]
    BY <1>6, <2>1, <2>3
  <2> QED
    BY <2>2, <2>4
<1> HIDE DEF f
<1>8. step[f] \in [D -> V]
  BY <1>6
<1>9. f = step[f]
  BY <1>6, <1>7, <1>8
<1> QED
  BY <1>6, <1>9 DEF HasSolution

\* A loop of n rounds that starts with v: each round makes a value of V from its
\* number and the value before it.
Loop(n, V, v, next) == n \in Nat /\ v \in V /\ next \in [(1..n) \X V -> V]

HasRounds(n, V, v, next) ==
  \E f \in [0..n -> V] : f = [i \in 0..n |-> IF i = 0 THEN v ELSE next[<<i, f[i - 1]>>]]

\* Such a loop is a function of its rounds.
LEMMA LoopSolution ==
  ASSUME NEW n, NEW V, NEW v, NEW next, Loop(n, V, v, next)
  PROVE  HasRounds(n, V, v, next)
<1> USE DEF Loop
<1> DEFINE D == 0..n
           body(g) == [i \in D |-> IF i = 0 THEN v ELSE next[<<i, g[i - 1]>>]]
           step == [g \in [D -> V] |-> body(g)]
           m == [i \in D |-> i]
<1>1. \A i \in D : i # 0 => i - 1 \in D /\ i \in 1..n
  OBVIOUS
<1>2. \A g \in [D -> V] : body(g) \in [D -> V]
  <2> SUFFICES ASSUME NEW g \in [D -> V], NEW i \in D, i # 0 PROVE next[<<i, g[i - 1]>>] \in V
    <3> HIDE DEF D
    <3> QED
      OBVIOUS
  <2>1. i \in 1..n /\ i - 1 \in D
    BY <1>1
  <2> HIDE DEF D
  <2>2. g[i - 1] \in V
    BY <2>1
  <2> QED
    BY <2>1, <2>2
<1>3. step \in [[D -> V] -> [D -> V]]
  <2> HIDE DEF body, D
  <2> QED
    BY <1>2
<1>4. m \in [D -> Nat]
  OBVIOUS
<1>5. \A g, h \in [D -> V], i \in D :
        (\A y \in D : m[y] < m[i] => g[y] = h[y]) => step[g][i] = step[h][i]
  <2> SUFFICES ASSUME NEW g \in [D -> V], NEW h \in [D -> V], NEW i \in D,
                      \A y \in D : m[y] < m[i] => g[y] = h[y]
               PROVE  step[g][i] = step[h][i]
    <3> HIDE DEF step, m, D
    <3> QED
      OBVIOUS
  <2>1. i # 0 => g[i - 1] = h[i - 1]
    BY <1>1
  <2> QED
    BY <2>1
<1>6. \E f \in [D -> V] : f = step[f]
  <2> HIDE DEF D, step, m
  <2>1. Recursive(D, V, step, m)
    BY <1>3, <1>4, <1>5 DEF Recursive
  <2>2. HasSolution(D, V, step)
    BY <2>1, Fixpoint
  <2> QED
    BY <2>2 DEF HasSolution
<1>7. \E f \in [D -> V] : f = body(f)
  <2> HIDE DEF D, body
  <2> QED
    BY <1>6
<1> QED
  BY <1>7 DEF HasRounds

\* What holds before a loop and after each of its rounds holds throughout.
LEMMA LoopInvariant ==
  ASSUME NEW n \in Nat, NEW S, 0 \in S, \A i \in 1..n : i - 1 \in S => i \in S
  PROVE  \A i \in 0..n : i \in S
<1> DEFINE T == {k \in Nat : k <= n => k \in S}
<1>1. 0 \in T
  OBVIOUS
<1>2. ASSUME NEW k \in Nat, k \in T PROVE k + 1 \in T
  <2> SUFFICES ASSUME k + 1 <= n PROVE k + 1 \in S
    OBVIOUS
  <2>1. k + 1 \in 1..n /\ (k + 1) - 1 = k /\ k \in S
    BY <1>2
  <2> QED
    BY <2>1
<1>3. \A k \in Nat : k \in T
  <2> HIDE DEF T
  <2> QED
    BY <1>1, <1>2, Induction
<1> QED
  BY <1>3

\* A function that makes these rounds has its type.
Rounds(f, n, V, v, next) ==
  /\ f = [i \in 0..n |-> f[i]] /\ f[0] = v
  /\ \A i \in 1..n : f[i - 1] \in V => f[i] = next[<<i, f[i - 1]>>]

LEMMA LoopType ==
  ASSUME NEW f, NEW n, NEW V, NEW v, NEW next, Loop(n, V, v, next), Rounds(f, n, V, v, next)
  PROVE  f \in [0..n -> V]
<1> USE DEF Loop, Rounds
<1> DEFINE S == {i \in 0..n : f[i] \in V}
<1>1. 0 \in S
  OBVIOUS
<1>2. ASSUME NEW i \in 1..n, i - 1 \in S PROVE i \in S
  <2>1. f[i] = next[<<i, f[i - 1]>>] /\ <<i, f[i - 1]>> \in (1..n) \X V
    BY <1>2
  <2> QED
    BY <2>1
<1>3. \A i \in 0..n : i \in S
  <2> HIDE DEF S
  <2> QED
    BY <1>1, <1>2, LoopInvariant
<1> QED
  BY <1>3

\* A sum of the sizes of disjoint sets is the size of their union.
SumOfSizes(n, P, sum) ==
  /\ n \in Nat
  /\ \A i \in 1..n : IsFiniteSet(P[i])
  /\ \A i, j \in 1..n : i # j => P[i] \cap P[j] = {}
  /\ sum[0] = 0 /\ \A i \in 1..n : sum[i] = sum[i - 1] + Cardinality(P[i])

LEMMA SumIsCount ==
  ASSUME NEW n, NEW P, NEW sum, SumOfSizes(n, P, sum)
  PROVE  /\ IsFiniteSet(UNION {P[i] : i \in 1..n})
         /\ sum[n] = Cardinality(UNION {P[i] : i \in 1..n}) /\ sum[n] \in Nat
<1> USE DEF SumOfSizes
<1> DEFINE U == [k \in Nat |-> UNION {P[i] : i \in 1..k}]
           S == {k \in Nat : IsFiniteSet(U[k]) /\ sum[k] = Cardinality(U[k])}
<1>1. 0 \in S
  <2>1. U[0] = {}
    OBVIOUS
  <2> HIDE DEF U
  <2> QED
    BY <2>1, FS_EmptySet
<1>2. ASSUME NEW i \in 1..n, i - 1 \in S PROVE i \in S
  <2>1. U[i] = U[i - 1] \cup P[i]
    <3>1. \A k : k \in 1..i <=> k \in 1..i - 1 \/ k = i
      OBVIOUS
    <3> QED
      BY <3>1
  <2>2. U[i - 1] \cap P[i] = {}
    <3> SUFFICES ASSUME NEW x \in U[i - 1], x \in P[i] PROVE FALSE
      OBVIOUS
    <3>1. PICK k \in 1..i - 1 : x \in P[k]
      OBVIOUS
    <3>2. k \in 1..n /\ k # i
      OBVIOUS
    <3> QED
      BY <3>1, <3>2
  <2> DEFINE A == U[i - 1]
             B == P[i]
  <2> HIDE DEF U
  <2>3. IsFiniteSet(A) /\ IsFiniteSet(B) /\ sum[i - 1] = Cardinality(A)
    BY <1>2
  <2>4. sum[i] = sum[i - 1] + Cardinality(B) /\ A \cap B = {}
    BY <2>2
  <2> HIDE DEF A, B
  <2>5. /\ IsFiniteSet(A \cup B)
        /\ Cardinality(A \cup B) = Cardinality(A) + Cardinality(B) - Cardinality(A \cap B)
    BY <2>3, FS_Union
  <2>6. Cardinality(A) \in Nat /\ Cardinality(B) \in Nat /\ Cardinality({}) = 0
    BY <2>3, FS_CardinalityType, FS_EmptySet
  <2>7. Cardinality(A \cup B) = Cardinality(A) + Cardinality(B)
    <3>1. Cardinality(A \cap B) = 0
      BY <2>4, <2>6
    <3> QED
      BY <2>5, <2>6, <3>1
  <2>8. U[i] = A \cup B
    BY <2>1 DEF A, B
  <2>9. sum[i] = Cardinality(A \cup B)
    BY <2>3, <2>4, <2>7
  <2>10. IsFiniteSet(U[i]) /\ sum[i] = Cardinality(U[i])
    <3> HIDE DEF U
    <3> QED
      BY <2>5, <2>8, <2>9
  <2>11. i \in Nat
    OBVIOUS
  <2> HIDE DEF U
  <2> QED
    BY Zenon, <2>10, <2>11
<1>3. n \in S
  <2> HIDE DEF S
  <2> QED
    BY <1>1, <1>2, LoopInvariant
<1>4. U[n] = UNION {P[i] : i \in 1..n}
  OBVIOUS
<1> HIDE DEF U
<1> QED
  BY <1>3, <1>4, FS_CardinalityType

-----------------------------------------------------------------------------
(* Sequences of ids *)

Ascending(s) == \A i, j \in 1..Len(s) : i < j => s[i] < s[j]

Sorted(s) == \A i, j \in 1..Len(s) : i <= j => s[i] <= s[j]

LEMMA AscendingIsSorted ==
  ASSUME NEW s \in Seq(Nat), Ascending(s)
  PROVE  Sorted(s)
  BY ElementOfSeq, LenProperties DEF Ascending, Sorted

\* An order between neighbours is one between any two ids.
LEMMA NeighboursAscend ==
  ASSUME NEW s \in Seq(Nat), \A i \in 2..Len(s) : s[i - 1] < s[i]
  PROVE  Ascending(s)
<1> DEFINE S == {n \in Nat : \A i, j \in 1..Len(s) : i < j /\ j <= i + n => s[i] < s[j]}
<1>1. Len(s) \in Nat /\ \A i \in 1..Len(s) : s[i] \in Nat
  BY LenProperties, ElementOfSeq
<1>2. 0 \in S
  OBVIOUS
<1>3. ASSUME NEW n \in Nat, n \in S PROVE n + 1 \in S
  <2> SUFFICES ASSUME NEW i \in 1..Len(s), NEW j \in 1..Len(s), i < j, j <= i + (n + 1)
               PROVE  s[i] < s[j]
    OBVIOUS
  <2>1. s[j - 1] < s[j]
    BY <1>1
  <2>2. CASE j - 1 = i
    BY <2>1, <2>2
  <2>3. CASE j - 1 # i
    <3>1. j - 1 \in 1..Len(s) /\ i < j - 1 /\ j - 1 <= i + n
      BY <1>1, <2>3
    <3>2. s[i] < s[j - 1]
      BY <1>3, <3>1
    <3> QED
      BY <1>1, <2>1, <3>1, <3>2
  <2> QED
    BY <2>2, <2>3
<1>4. \A n \in Nat : n \in S
  <2> HIDE DEF S
  <2> QED
    BY <1>2, <1>3, Induction
<1>5. Len(s) \in S
  BY <1>1, <1>4
<1> QED
  BY <1>1, <1>5 DEF Ascending

LEMMA FunctionIsSeq ==
  ASSUME NEW n \in Nat, NEW S, NEW f \in [1..n -> S]
  PROVE  f \in Seq(S) /\ Len(f) = n
  OBVIOUS

LEMMA ElemsFacts ==
  ASSUME NEW s \in Seq(Nat)
  PROVE  /\ Elems(s) = {s[i] : i \in 1..Len(s)}
         /\ Elems(s) \subseteq Nat
         /\ Len(s) \in Nat
         /\ \A i \in 1..Len(s) : s[i] \in Nat /\ s[i] \in Elems(s)
         /\ Elems(s) = {} <=> s = <<>>
<1>1. DOMAIN s = 1..Len(s) /\ Len(s) \in Nat
  BY LenProperties
<1>2. \A i \in 1..Len(s) : s[i] \in Nat
  BY ElementOfSeq
<1>3. s = <<>> <=> Len(s) = 0
  BY EmptySeq
<1>4. Elems(s) = {s[i] : i \in 1..Len(s)}
  BY <1>1 DEF Elems
<1>5. Elems(s) = {} <=> Len(s) = 0
  <2>1. Len(s) # 0 => s[1] \in Elems(s)
    BY <1>1, <1>4
  <2> QED
    BY <1>1, <1>4, <2>1
<1> QED
  BY <1>1, <1>2, <1>3, <1>4, <1>5

\* An ascending sequence has as many ids as its length says.
LEMMA CountAscending ==
  ASSUME NEW s \in Seq(Nat), Ascending(s)
  PROVE  IsFiniteSet(Elems(s)) /\ Cardinality(Elems(s)) = Len(s)
<1>1. /\ Len(s) \in Nat /\ Elems(s) = {s[i] : i \in 1..Len(s)}
      /\ \A i \in 1..Len(s) : s[i] \in Nat
  BY ElemsFacts
<1> DEFINE f == [i \in 1..Len(s) |-> s[i]]
<1>2. f \in Bijection(1..Len(s), Elems(s))
  <2>1. f \in [1..Len(s) -> Elems(s)]
    BY <1>1
  <2>2. \A i, j \in 1..Len(s) : f[i] = f[j] => i = j
    BY <1>1 DEF Ascending
  <2>3. \A e \in Elems(s) : \E i \in 1..Len(s) : f[i] = e
    BY <1>1
  <2> QED
    BY <2>1, <2>2, <2>3, Fun_IsBij
<1>3. ExistsBijection(1..Len(s), Elems(s))
  BY <1>2 DEF ExistsBijection
<1>4. IsFiniteSet(1..Len(s)) /\ Cardinality(1..Len(s)) = Len(s)
  BY <1>1, FS_Interval
<1> QED
  BY <1>3, <1>4, FS_Bijection

-----------------------------------------------------------------------------
(* Binary search *)

\* The loop of sort.Search as an equation: it has a solution, since the interval
\* that is left shrinks.
LEMMA SearchEquation ==
  ASSUME NEW s \in Seq(Nat), NEW q \in Int
  PROVE  \E search :
           /\ LowerBound(s, q) = search[<<0, Len(s)>>]
           /\ \A i, j \in 0..Len(s) :
                search[<<i, j>>] =
                  IF i >= j THEN i
                  ELSE IF s[((i + j) \div 2) + 1] < q THEN search[<<((i + j) \div 2) + 1, j>>]
                  ELSE search[<<i, (i + j) \div 2>>]
<1> DEFINE L == Len(s)
           D == (0..L) \X (0..L)
           body(g) == [r \in D |->
             IF r[1] >= r[2] THEN r[1]
             ELSE IF s[((r[1] + r[2]) \div 2) + 1] < q
                  THEN g[<<((r[1] + r[2]) \div 2) + 1, r[2]>>]
                  ELSE g[<<r[1], (r[1] + r[2]) \div 2>>]]
           step == [g \in [D -> 0..L] |-> body(g)]
           m == [r \in D |-> IF r[1] >= r[2] THEN 0 ELSE r[2] - r[1]]
           search == CHOOSE search : search = body(search)
<1>1. L \in Nat
  BY LenProperties
<1>2. \A r \in D : /\ r[1] \in 0..L /\ r[2] \in 0..L
                   /\ r[1] < r[2] => /\ (r[1] + r[2]) \div 2 \in r[1]..r[2] - 1
                                     /\ <<((r[1] + r[2]) \div 2) + 1, r[2]>> \in D
                                     /\ <<r[1], (r[1] + r[2]) \div 2>> \in D
  BY <1>1, SMTT(30)
<1>3. step \in [[D -> 0..L] -> [D -> 0..L]]
  <2>1. ASSUME NEW g \in [D -> 0..L] PROVE body(g) \in [D -> 0..L]
    <3> HIDE DEF L, D
    <3> QED
      BY <1>2
  <2> QED
    BY <2>1
<1>4. m \in [D -> Nat]
  BY <1>1
<1>5. \A g, h \in [D -> 0..L], r \in D :
        (\A y \in D : m[y] < m[r] => g[y] = h[y]) => step[g][r] = step[h][r]
  <2> SUFFICES ASSUME NEW g \in [D -> 0..L], NEW h \in [D -> 0..L], NEW r \in D,
                      \A y \in D : m[y] < m[r] => g[y] = h[y]
               PROVE  step[g][r] = step[h][r]
    <3> HIDE DEF step, m, D, L
    <3> QED
      OBVIOUS
  <2>1. CASE r[1] >= r[2]
    BY <2>1
  <2>2. CASE r[1] < r[2]
    <3> DEFINE k == (r[1] + r[2]) \div 2
    <3>1. k \in r[1]..r[2] - 1 /\ <<k + 1, r[2]>> \in D /\ <<r[1], k>> \in D
      BY <1>2, <2>2
    <3>0. k \in Int
      BY <1>1, <1>2, <2>2
    <3> HIDE DEF k
    <3>2. m[<<k + 1, r[2]>>] < m[r] /\ m[<<r[1], k>>] < m[r]
      <4>1. r[1] \in Nat /\ r[2] \in Nat /\ k \in Int /\ r[1] <= k /\ k < r[2]
        BY <1>1, <1>2, <3>0, <3>1
      <4>2. m[r] = r[2] - r[1]
        BY <2>2, <4>1
      <4>3. m[<<k + 1, r[2]>>] = IF k + 1 >= r[2] THEN 0 ELSE r[2] - (k + 1)
        BY <3>1
      <4>4. m[<<r[1], k>>] = IF r[1] >= k THEN 0 ELSE k - r[1]
        BY <3>1
      <4> DEFINE u == m[<<k + 1, r[2]>>]
                 v == m[<<r[1], k>>]
                 w == m[r]
      <4>5. u < w /\ v < w
        <5> HIDE DEF m, u, v, w, D, L
        <5>1. w = r[2] - r[1]
          BY <4>2 DEF w
        <5>2. u = IF k + 1 >= r[2] THEN 0 ELSE r[2] - (k + 1)
          BY <4>3 DEF u
        <5>3. v = IF r[1] >= k THEN 0 ELSE k - r[1]
          BY <4>4 DEF v
        <5> QED
          BY <4>1, <5>1, <5>2, <5>3, SMTT(30)
      <4> QED
        BY <4>5
    <3>3. g[<<k + 1, r[2]>>] = h[<<k + 1, r[2]>>] /\ g[<<r[1], k>>] = h[<<r[1], k>>]
      BY <3>1, <3>2
    <3>4. /\ step[g][r] = IF s[k + 1] < q THEN g[<<k + 1, r[2]>>] ELSE g[<<r[1], k>>]
          /\ step[h][r] = IF s[k + 1] < q THEN h[<<k + 1, r[2]>>] ELSE h[<<r[1], k>>]
      BY <1>1, <1>2, <2>2 DEF k
    <3> QED
      BY <3>3, <3>4
  <2> QED
    BY <1>1, <1>2, <2>1, <2>2
<1>6. \E f \in [D -> 0..L] : f = step[f]
  <2>1. 0..L # {}
    BY <1>1
  <2> HIDE DEF D, L, step, m
  <2>2. Recursive(D, 0..L, step, m)
    BY <1>3, <1>4, <1>5, <2>1 DEF Recursive
  <2>3. HasSolution(D, 0..L, step)
    BY <2>2, Fixpoint
  <2> QED
    BY <2>3 DEF HasSolution
<1>7. \E f : f = body(f)
  BY <1>6
<1>8. search = body(search)
  <2> HIDE DEF body
  <2> QED
    BY <1>7
<1>9. LowerBound(s, q) = search[<<0, Len(s)>>]
  BY Zenon DEF LowerBound
<1> HIDE DEF search
<1>10. ASSUME NEW i \in 0..Len(s), NEW j \in 0..Len(s)
       PROVE  search[<<i, j>>] =
                IF i >= j THEN i
                ELSE IF s[((i + j) \div 2) + 1] < q THEN search[<<((i + j) \div 2) + 1, j>>]
                ELSE search[<<i, (i + j) \div 2>>]
  <2>1. <<i, j>> \in D /\ <<i, j>>[1] = i /\ <<i, j>>[2] = j
    OBVIOUS
  <2>2. search[<<i, j>>] = body(search)[<<i, j>>]
    BY <1>8
  <2> QED
    BY <2>1, <2>2
<1> QED
  BY <1>9, <1>10

\* sort.Search finds the border between the ids below q and the others.
LEMMA LowerBoundIsBorder ==
  ASSUME NEW s \in Seq(Nat), Sorted(s), NEW q \in Int
  PROVE  /\ LowerBound(s, q) \in 0..Len(s)
         /\ \A k \in 1..Len(s) : s[k] < q <=> k <= LowerBound(s, q)
<1>1. Len(s) \in Nat /\ \A k \in 1..Len(s) : s[k] \in Nat
  BY ElemsFacts
<1>2. PICK search :
        /\ LowerBound(s, q) = search[<<0, Len(s)>>]
        /\ \A i, j \in 0..Len(s) :
             search[<<i, j>>] =
               IF i >= j THEN i
               ELSE IF s[((i + j) \div 2) + 1] < q THEN search[<<((i + j) \div 2) + 1, j>>]
               ELSE search[<<i, (i + j) \div 2>>]
  BY SearchEquation
<1> DEFINE Between(i, j) == (\A k \in 1..i : s[k] < q) /\ (\A k \in j + 1..Len(s) : s[k] >= q)
           Border(b) == b \in 0..Len(s) /\ (\A k \in 1..b : s[k] < q)
                                        /\ (\A k \in b + 1..Len(s) : s[k] >= q)
           S == {n \in Nat : \A i, j \in 0..Len(s) :
                   i <= j /\ j - i = n /\ Between(i, j) => Border(search[<<i, j>>])}
<1>3. ASSUME NEW n \in Nat, \A o \in 0..n - 1 : o \in S PROVE n \in S
  <2> SUFFICES ASSUME NEW i \in 0..Len(s), NEW j \in 0..Len(s), i <= j, j - i = n, Between(i, j)
               PROVE  Border(search[<<i, j>>])
    BY <1>3
  <2>1. CASE i = j
    <3>1. search[<<i, j>>] = i
      BY <1>1, <1>2, <2>1
    <3> QED
      BY <1>1, <2>1, <3>1
  <2>2. CASE i < j
    <3> DEFINE h == (i + j) \div 2
    <3>1. h \in Int /\ i <= h /\ h < j
      BY <1>1, <2>2
    <3>2. search[<<i, j>>] = IF s[h + 1] < q THEN search[<<h + 1, j>>] ELSE search[<<i, h>>]
      BY <1>1, <1>2, <2>2, SMTT(30)
    <3> HIDE DEF h
    <3>3. h + 1 \in 1..Len(s) /\ h \in 0..Len(s)
      BY <1>1, <3>1
    <3>4. CASE s[h + 1] < q
      <4>1. Between(h + 1, j)
        <5>1. ASSUME NEW k \in 1..h PROVE s[k] <= s[h + 1]
          <6>1. k \in 1..Len(s) /\ k <= h + 1
            BY <1>1, <3>1, <3>3
          <6> QED
            BY <3>3, <6>1 DEF Sorted
        <5>2. ASSUME NEW k \in 1..h + 1 PROVE s[k] < q
          <6>1. CASE k = h + 1
            BY <3>4, <6>1
          <6>2. CASE k # h + 1
            <7>1. k \in 1..h /\ k \in 1..Len(s)
              BY <1>1, <3>1, <3>3, <6>2
            <7>2. s[k] <= s[h + 1] /\ s[k] \in Nat /\ s[h + 1] \in Nat
              BY <1>1, <3>3, <5>1, <7>1
            <7> QED
              BY <3>4, <7>2
          <6> QED
            BY <6>1, <6>2
        <5> QED
          BY <5>2
      <4>2. j - (h + 1) \in 0..n - 1
        BY <1>1, <3>1
      <4>3. j - (h + 1) \in S
        BY <1>3, <4>2
      <4>4. Border(search[<<h + 1, j>>])
        <5>1. h + 1 <= j /\ h + 1 \in 0..Len(s)
          BY <1>1, <3>1, <3>3
        <5> HIDE DEF Between, Border
        <5> QED
          BY <4>1, <4>3, <5>1
      <4> QED
        BY <3>2, <3>4, <4>4
    <3>5. CASE ~(s[h + 1] < q)
      <4>1. Between(i, h)
        <5>1. ASSUME NEW k \in h + 1..Len(s) PROVE s[k] >= q
          <6>1. k \in 1..Len(s) /\ h + 1 <= k
            BY <1>1, <3>1, <3>3
          <6>2. s[h + 1] <= s[k]
            BY <3>3, <6>1 DEF Sorted
          <6>3. s[k] \in Nat /\ s[h + 1] \in Nat
            BY <1>1, <3>3, <6>1
          <6> QED
            BY <3>5, <6>2, <6>3
        <5> QED
          BY <5>1
      <4>2. h - i \in 0..n - 1
        BY <1>1, <3>1
      <4>3. h - i \in S
        BY <1>3, <4>2
      <4>4. Border(search[<<i, h>>])
        <5> HIDE DEF Between, Border
        <5> QED
          BY <3>1, <3>3, <4>1, <4>3
      <4> QED
        BY <3>2, <3>5, <4>4
    <3> QED
      BY <3>4, <3>5
  <2>3. i = j \/ i < j
    BY <1>1
  <2> QED
    BY <2>1, <2>2, <2>3
<1>4. \A n \in Nat : n \in S
  <2> HIDE DEF S
  <2> QED
    BY <1>3, StrongInduction
<1>5. Border(search[<<0, Len(s)>>])
  <2>1. Between(0, Len(s))
    BY <1>1
  <2>2. Len(s) \in S
    <3> HIDE DEF S
    <3> QED
      BY <1>1, <1>4
  <2>3. Len(s) - 0 = Len(s) /\ 0 <= Len(s) /\ 0 \in 0..Len(s) /\ Len(s) \in 0..Len(s)
    BY <1>1
  <2> HIDE DEF Between, Border
  <2> QED
    BY <2>1, <2>2, <2>3
<1>6. Border(LowerBound(s, q))
  <2> HIDE DEF Border
  <2> QED
    BY <1>2, <1>5
<1> HIDE DEF S
<1> QED
  <2> DEFINE b == LowerBound(s, q)
  <2>1. Border(b)
    BY <1>6
  <2> HIDE DEF b
  <2>2. b \in 0..Len(s) /\ \A k \in 1..Len(s) : s[k] < q <=> k <= b
    BY <1>1, <2>1
  <2> QED
    BY <2>2 DEF b

\* Binary search tells which ids a set holds (setops.go:15-19), and which a sorted
\* list with repeats holds (setops.go:21-36).
THEOREM ContainsIsMembership ==
  ASSUME NEW s \in Seq(Nat), Sorted(s), NEW q \in Int
  PROVE  ContainsSorted(s, q) <=> q \in Elems(s)
<1> DEFINE b == LowerBound(s, q)
<1>1. /\ Len(s) \in Nat /\ Elems(s) = {s[i] : i \in 1..Len(s)}
      /\ \A k \in 1..Len(s) : s[k] \in Nat
  BY ElemsFacts
<1>2. b \in 0..Len(s) /\ \A k \in 1..Len(s) : s[k] < q <=> k <= b
  BY LowerBoundIsBorder
<1>3. ContainsSorted(s, q) <=> b < Len(s) /\ s[b + 1] = q
  BY DEF ContainsSorted
<1> HIDE DEF b
<1>4. ASSUME q \in Elems(s) PROVE b < Len(s) /\ s[b + 1] = q
  <2>1. PICK k \in 1..Len(s) : s[k] = q
    BY <1>1, <1>4
  <2>2. b < k
    BY <1>1, <1>2, <2>1
  <2>3. b + 1 \in 1..Len(s) /\ ~(s[b + 1] < q)
    BY <1>1, <1>2, <2>2
  <2>4. s[b + 1] <= s[k]
    BY <1>1, <1>2, <2>2, <2>3 DEF Sorted
  <2> QED
    BY <1>1, <1>2, <2>1, <2>3, <2>4
<1>5. b < Len(s) /\ s[b + 1] = q => q \in Elems(s)
  BY <1>1, <1>2
<1> QED
  BY <1>3, <1>4, <1>5

-----------------------------------------------------------------------------
(* Intersection *)

\* The two cursors of IntersectSorted as an equation.
LEMMA MergeEquation ==
  ASSUME NEW a \in Seq(Nat), NEW b \in Seq(Nat)
  PROVE  \E merge :
           /\ IntersectSorted(a, b) = merge[<<1, 1>>]
           /\ \A i \in 1..Len(a) + 1, j \in 1..Len(b) + 1 :
                merge[<<i, j>>] =
                  IF i > Len(a) \/ j > Len(b) THEN <<>>
                  ELSE IF a[i] < b[j] THEN merge[<<i + 1, j>>]
                  ELSE IF a[i] > b[j] THEN merge[<<i, j + 1>>]
                  ELSE <<a[i]>> \o merge[<<i + 1, j + 1>>]
<1> DEFINE A == Len(a)
           B == Len(b)
           D == (1..A + 1) \X (1..B + 1)
           V == Seq(Nat)
           body(g) == [c \in D |->
             IF c[1] > A \/ c[2] > B THEN <<>>
             ELSE IF a[c[1]] < b[c[2]] THEN g[<<c[1] + 1, c[2]>>]
             ELSE IF a[c[1]] > b[c[2]] THEN g[<<c[1], c[2] + 1>>]
             ELSE <<a[c[1]]>> \o g[<<c[1] + 1, c[2] + 1>>]]
           step == [g \in [D -> V] |-> body(g)]
           m == [c \in D |-> ((A + 1) - c[1]) + ((B + 1) - c[2])]
           merge == CHOOSE merge : merge = body(merge)
<1>1. /\ A \in Nat /\ B \in Nat
      /\ \A i \in 1..A : a[i] \in Nat
      /\ <<>> \in V
  BY ElemsFacts, EmptySeq
<1>2. \A c \in D : /\ c[1] \in 1..A + 1 /\ c[2] \in 1..B + 1
                   /\ ~(c[1] > A \/ c[2] > B) =>
                        /\ <<c[1] + 1, c[2]>> \in D /\ <<c[1], c[2] + 1>> \in D
                        /\ <<c[1] + 1, c[2] + 1>> \in D
                        /\ a[c[1]] \in Nat
  BY <1>1, SMTT(30)
<1>3. step \in [[D -> V] -> [D -> V]]
  <2>1. ASSUME NEW g \in [D -> V] PROVE body(g) \in [D -> V]
    <3> SUFFICES ASSUME NEW c \in D PROVE body(g)[c] \in V
      OBVIOUS
    <3>1. CASE c[1] > A \/ c[2] > B
      BY <1>1, <3>1
    <3>2. CASE ~(c[1] > A \/ c[2] > B)
      <4>1. /\ g[<<c[1] + 1, c[2]>>] \in Seq(Nat) /\ g[<<c[1], c[2] + 1>>] \in Seq(Nat)
            /\ g[<<c[1] + 1, c[2] + 1>>] \in Seq(Nat) /\ a[c[1]] \in Nat
        <5> HIDE DEF D
        <5> QED
          BY <1>2, <3>2
      <4>2. <<a[c[1]]>> \o g[<<c[1] + 1, c[2] + 1>>] \in Seq(Nat)
        <5>1. <<a[c[1]]>> \in Seq(Nat)
          BY <4>1
        <5> QED
          BY <4>1, <5>1, ConcatProperties
      <4>3. body(g)[c] \in {g[<<c[1] + 1, c[2]>>], g[<<c[1], c[2] + 1>>],
                            <<a[c[1]]>> \o g[<<c[1] + 1, c[2] + 1>>]}
        <5> HIDE DEF D, V
        <5> QED
          BY <3>2
      <4> QED
        <5> HIDE DEF body
        <5> QED
          BY <4>1, <4>2, <4>3
    <3> QED
      BY <3>1, <3>2
  <2> HIDE DEF body, D, V
  <2> QED
    BY <2>1
<1>4. m \in [D -> Nat]
  BY <1>1
<1>5. \A g, h \in [D -> V], c \in D :
        (\A y \in D : m[y] < m[c] => g[y] = h[y]) => step[g][c] = step[h][c]
  <2> SUFFICES ASSUME NEW g \in [D -> V], NEW h \in [D -> V], NEW c \in D,
                      \A y \in D : m[y] < m[c] => g[y] = h[y]
               PROVE  step[g][c] = step[h][c]
    <3> HIDE DEF step, m, D, V
    <3> QED
      OBVIOUS
  <2>1. CASE c[1] > A \/ c[2] > B
    BY <2>1
  <2>2. CASE ~(c[1] > A \/ c[2] > B)
    <3>1. /\ <<c[1] + 1, c[2]>> \in D /\ <<c[1], c[2] + 1>> \in D
          /\ <<c[1] + 1, c[2] + 1>> \in D
      <4> HIDE DEF D
      <4> QED
        BY <1>2, <2>2
    <3>2. c[1] \in Nat /\ c[2] \in Nat
      BY <1>1, <1>2
    <3>3. /\ m[<<c[1] + 1, c[2]>>] < m[c] /\ m[<<c[1], c[2] + 1>>] < m[c]
          /\ m[<<c[1] + 1, c[2] + 1>>] < m[c]
      <4>1. m[c] = ((A + 1) - c[1]) + ((B + 1) - c[2])
        OBVIOUS
      <4>2. m[<<c[1] + 1, c[2]>>] = ((A + 1) - (c[1] + 1)) + ((B + 1) - c[2])
        BY <3>1
      <4>3. m[<<c[1], c[2] + 1>>] = ((A + 1) - c[1]) + ((B + 1) - (c[2] + 1))
        BY <3>1
      <4>4. m[<<c[1] + 1, c[2] + 1>>] = ((A + 1) - (c[1] + 1)) + ((B + 1) - (c[2] + 1))
        BY <3>1
      <4> DEFINE u == m[<<c[1] + 1, c[2]>>]
                 v == m[<<c[1], c[2] + 1>>]
                 w == m[<<c[1] + 1, c[2] + 1>>]
                 x == m[c]
      <4> HIDE DEF m, D, A, B
      <4>5. /\ x = ((A + 1) - c[1]) + ((B + 1) - c[2])
            /\ u = ((A + 1) - (c[1] + 1)) + ((B + 1) - c[2])
            /\ v = ((A + 1) - c[1]) + ((B + 1) - (c[2] + 1))
            /\ w = ((A + 1) - (c[1] + 1)) + ((B + 1) - (c[2] + 1))
        BY <4>1, <4>2, <4>3, <4>4
      <4>6. u < x /\ v < x /\ w < x
        <5> DEFINE i == c[1]
                   j == c[2]
        <5>1. /\ i \in Nat /\ j \in Nat /\ A \in Nat /\ B \in Nat
              /\ x = ((A + 1) - i) + ((B + 1) - j)
              /\ u = ((A + 1) - (i + 1)) + ((B + 1) - j)
              /\ v = ((A + 1) - i) + ((B + 1) - (j + 1))
              /\ w = ((A + 1) - (i + 1)) + ((B + 1) - (j + 1))
          BY <1>1, <3>2, <4>5
        <5> HIDE DEF u, v, w, x, i, j
        <5> QED
          BY <5>1
      <4> QED
        BY <4>6
    <3>4. /\ g[<<c[1] + 1, c[2]>>] = h[<<c[1] + 1, c[2]>>]
          /\ g[<<c[1], c[2] + 1>>] = h[<<c[1], c[2] + 1>>]
          /\ g[<<c[1] + 1, c[2] + 1>>] = h[<<c[1] + 1, c[2] + 1>>]
      <4> HIDE DEF m, D
      <4> QED
        BY <3>1, <3>3
    <3>5. body(g)[c] = body(h)[c]
      <4> HIDE DEF D, m, V, A, B
      <4> QED
        BY <3>4
    <3> QED
      BY <3>5
  <2> QED
    BY <2>1, <2>2
<1>6. \E f \in [D -> V] : f = step[f]
  <2>1. V # {}
    BY <1>1
  <2> HIDE DEF D, V, step, m
  <2>2. Recursive(D, V, step, m)
    BY <1>3, <1>4, <1>5, <2>1 DEF Recursive
  <2>3. HasSolution(D, V, step)
    BY <2>2, Fixpoint
  <2> QED
    BY <2>3 DEF HasSolution
<1>7. \E f : f = body(f)
  BY <1>6
<1>8. merge = body(merge)
  <2> HIDE DEF body
  <2> QED
    BY <1>7
<1>9. IntersectSorted(a, b) = merge[<<1, 1>>]
  BY Zenon DEF IntersectSorted
<1> HIDE DEF merge
<1>10. ASSUME NEW i \in 1..A + 1, NEW j \in 1..B + 1
       PROVE  merge[<<i, j>>] =
                IF i > A \/ j > B THEN <<>>
                ELSE IF a[i] < b[j] THEN merge[<<i + 1, j>>]
                ELSE IF a[i] > b[j] THEN merge[<<i, j + 1>>]
                ELSE <<a[i]>> \o merge[<<i + 1, j + 1>>]
  <2>1. <<i, j>> \in D /\ <<i, j>>[1] = i /\ <<i, j>>[2] = j
    OBVIOUS
  <2>2. merge[<<i, j>>] = body(merge)[<<i, j>>]
    BY <1>8
  <2> HIDE DEF D
  <2> QED
    BY <2>1, <2>2
<1> QED
  BY <1>9, <1>10

\* An id put before a sequence.
LEMMA PutFirst ==
  ASSUME NEW s \in Seq(Nat), NEW x \in Nat
  PROVE  /\ <<x>> \o s \in Seq(Nat)
         /\ Elems(<<x>> \o s) = {x} \cup Elems(s)
         /\ Ascending(s) /\ (\A y \in Elems(s) : x < y) => Ascending(<<x>> \o s)
<1> DEFINE t == <<x>> \o s
<1>1. <<x>> \in Seq(Nat) /\ Len(<<x>>) = 1 /\ <<x>>[1] = x
  OBVIOUS
<1>2. /\ t \in Seq(Nat) /\ Len(t) = 1 + Len(s)
      /\ \A i \in 1..1 + Len(s) : t[i] = IF i <= 1 THEN <<x>>[i] ELSE s[i - 1]
  BY <1>1, ConcatProperties
<1>3. /\ Len(s) \in Nat /\ Elems(s) = {s[i] : i \in 1..Len(s)}
      /\ \A i \in 1..Len(s) : s[i] \in Nat
  BY ElemsFacts
<1> HIDE DEF t
<1>4. Elems(t) = {t[i] : i \in 1..1 + Len(s)}
  BY <1>2, ElemsFacts
<1>5. t[1] = x /\ \A i \in 1..Len(s) : t[i + 1] = s[i]
  BY <1>1, <1>2, <1>3
<1>6. Elems(t) = {x} \cup Elems(s)
  <2>1. ASSUME NEW y \in Elems(t) PROVE y \in {x} \cup Elems(s)
    <3>1. PICK i \in 1..1 + Len(s) : y = t[i]
      BY <1>4
    <3>2. CASE i = 1
      BY <1>5, <3>1, <3>2
    <3>3. CASE i # 1
      <4>1. i - 1 \in 1..Len(s) /\ t[i] = s[i - 1]
        BY <1>2, <1>3, <3>3
      <4> QED
        BY <1>3, <3>1, <4>1
    <3> QED
      BY <3>2, <3>3
  <2>2. x \in Elems(t)
    BY <1>3, <1>4, <1>5
  <2>3. ASSUME NEW y \in Elems(s) PROVE y \in Elems(t)
    <3>1. PICK i \in 1..Len(s) : y = s[i]
      BY <1>3
    <3>2. i + 1 \in 1..1 + Len(s) /\ t[i + 1] = y
      BY <1>3, <1>5, <3>1
    <3> QED
      BY <1>4, <3>2
  <2> QED
    BY <2>1, <2>2, <2>3
<1>7. ASSUME Ascending(s), \A y \in Elems(s) : x < y
      PROVE  Ascending(t)
  <2> SUFFICES ASSUME NEW i \in 1..1 + Len(s), NEW j \in 1..1 + Len(s), i < j
               PROVE  t[i] < t[j]
    BY <1>2 DEF Ascending
  <2>1. j - 1 \in 1..Len(s) /\ t[j] = s[j - 1]
    BY <1>2, <1>3
  <2>2. CASE i = 1
    BY <1>3, <1>5, <1>7, <2>1, <2>2
  <2>3. CASE i # 1
    <3>1. i - 1 \in 1..Len(s) /\ t[i] = s[i - 1] /\ i - 1 < j - 1
      BY <1>2, <1>3, <2>3
    <3> QED
      BY <1>7, <2>1, <3>1 DEF Ascending
  <2> QED
    BY <2>2, <2>3
<1> QED
  BY <1>2, <1>6, <1>7 DEF t

\* The merge of two ascending sequences is their intersection, ascending
\* (setops.go:40-60).
LEMMA MergeIsIntersection ==
  ASSUME NEW a \in Seq(Nat), NEW b \in Seq(Nat), Ascending(a), Ascending(b)
  PROVE  /\ IntersectSorted(a, b) \in Seq(Nat)
         /\ Ascending(IntersectSorted(a, b))
         /\ Elems(IntersectSorted(a, b)) = Elems(a) \cap Elems(b)
<1> DEFINE A == Len(a)
           B == Len(b)
           From(s, k) == {s[n] : n \in k..Len(s)}
<1>1. /\ A \in Nat /\ B \in Nat
      /\ \A i \in 1..A : a[i] \in Nat
      /\ \A i \in 1..B : b[i] \in Nat
      /\ Elems(a) = From(a, 1) /\ Elems(b) = From(b, 1)
  BY ElemsFacts
<1>2. PICK merge :
        /\ IntersectSorted(a, b) = merge[<<1, 1>>]
        /\ \A i \in 1..A + 1, j \in 1..B + 1 :
             merge[<<i, j>>] =
               IF i > A \/ j > B THEN <<>>
               ELSE IF a[i] < b[j] THEN merge[<<i + 1, j>>]
               ELSE IF a[i] > b[j] THEN merge[<<i, j + 1>>]
               ELSE <<a[i]>> \o merge[<<i + 1, j + 1>>]
  BY MergeEquation
<1> DEFINE Meet(r, i, j) ==
             /\ r \in Seq(Nat) /\ Ascending(r)
             /\ Elems(r) = From(a, i) \cap From(b, j)
           S == {n \in Nat : \A i \in 1..A + 1, j \in 1..B + 1 :
                   ((A + 1) - i) + ((B + 1) - j) = n => Meet(merge[<<i, j>>], i, j)}
<1>3. \A i \in 1..A : /\ From(a, i) = {a[i]} \cup From(a, i + 1)
                      /\ \A y \in From(a, i + 1) : y \in Nat /\ a[i] < y
  <2> SUFFICES ASSUME NEW i \in 1..A
               PROVE  /\ From(a, i) = {a[i]} \cup From(a, i + 1)
                      /\ \A y \in From(a, i + 1) : y \in Nat /\ a[i] < y
    OBVIOUS
  <2>1. i..A = {i} \cup (i + 1..A)
    BY <1>1
  <2>2. \A n \in i + 1..A : a[n] \in Nat /\ a[i] < a[n]
    BY <1>1 DEF Ascending
  <2> QED
    BY <2>1, <2>2
<1>4. \A j \in 1..B : /\ From(b, j) = {b[j]} \cup From(b, j + 1)
                      /\ \A y \in From(b, j + 1) : y \in Nat /\ b[j] < y
  <2> SUFFICES ASSUME NEW j \in 1..B
               PROVE  /\ From(b, j) = {b[j]} \cup From(b, j + 1)
                      /\ \A y \in From(b, j + 1) : y \in Nat /\ b[j] < y
    OBVIOUS
  <2>1. j..B = {j} \cup (j + 1..B)
    BY <1>1
  <2>2. \A n \in j + 1..B : b[n] \in Nat /\ b[j] < b[n]
    BY <1>1 DEF Ascending
  <2> QED
    BY <2>1, <2>2
<1>5. ASSUME NEW n \in Nat, \A o \in 0..n - 1 : o \in S PROVE n \in S
  <2> SUFFICES ASSUME NEW i \in 1..A + 1, NEW j \in 1..B + 1,
                      ((A + 1) - i) + ((B + 1) - j) = n
               PROVE  Meet(merge[<<i, j>>], i, j)
    OBVIOUS
  <2> DEFINE r == merge[<<i, j>>]
  <2>1. CASE i > A \/ j > B
    <3>1. r = <<>>
      BY <1>2, <2>1
    <3>2. From(a, i) = {} \/ From(b, j) = {}
      BY <1>1, <2>1, SMTT(30)
    <3>3. <<>> \in Seq(Nat) /\ Elems(<<>>) = {} /\ Len(<<>>) = 0 /\ Ascending(<<>>)
      BY DEF Elems, Ascending
    <3> HIDE DEF From
    <3> QED
      BY <3>1, <3>2, <3>3
  <2>2. CASE ~(i > A \/ j > B)
    <3>1. i \in 1..A /\ j \in 1..B
      BY <1>1, <2>2, SMTT(30)
    <3>2. /\ i + 1 \in 1..A + 1 /\ j + 1 \in 1..B + 1
          /\ ((A + 1) - (i + 1)) + ((B + 1) - j) \in 0..n - 1
          /\ ((A + 1) - i) + ((B + 1) - (j + 1)) \in 0..n - 1
          /\ ((A + 1) - (i + 1)) + ((B + 1) - (j + 1)) \in 0..n - 1
      BY <1>1, <3>1
    <3>3. /\ Meet(merge[<<i + 1, j>>], i + 1, j)
          /\ Meet(merge[<<i, j + 1>>], i, j + 1)
          /\ Meet(merge[<<i + 1, j + 1>>], i + 1, j + 1)
      <4>1. /\ ((A + 1) - (i + 1)) + ((B + 1) - j) \in S
            /\ ((A + 1) - i) + ((B + 1) - (j + 1)) \in S
            /\ ((A + 1) - (i + 1)) + ((B + 1) - (j + 1)) \in S
        <5> HIDE DEF S
        <5> QED
          BY <1>5, <3>2
      <4> HIDE DEF Meet
      <4> QED
        BY <3>2, <4>1
    <3>4. a[i] \in Nat /\ b[j] \in Nat
      BY <1>1, <3>1
    <3>5. /\ From(a, i) = {a[i]} \cup From(a, i + 1)
          /\ From(b, j) = {b[j]} \cup From(b, j + 1)
          /\ \A y \in From(a, i + 1) : y \in Nat /\ a[i] < y
          /\ \A y \in From(b, j + 1) : y \in Nat /\ b[j] < y
      BY <1>3, <1>4, <3>1
    <3>9. r = IF a[i] < b[j] THEN merge[<<i + 1, j>>]
              ELSE IF a[i] > b[j] THEN merge[<<i, j + 1>>]
              ELSE <<a[i]>> \o merge[<<i + 1, j + 1>>]
      BY <1>2, <2>2
    <3> HIDE DEF From, r
    <3>6. ASSUME a[i] < b[j] PROVE Meet(r, i, j)
      <4>1. r = merge[<<i + 1, j>>]
        BY <3>6, <3>9
      <4>2. a[i] \notin From(b, j)
        BY <3>4, <3>5, <3>6, SMTT(30)
      <4> QED
        BY <3>3, <3>5, <4>1, <4>2
    <3>7. ASSUME a[i] > b[j] PROVE Meet(r, i, j)
      <4>1. r = merge[<<i, j + 1>>]
        BY <3>4, <3>7, <3>9, SMTT(30)
      <4>2. b[j] \notin From(a, i)
        BY <3>4, <3>5, <3>7, SMTT(30)
      <4> QED
        BY <3>3, <3>5, <4>1, <4>2
    <3>8. ASSUME a[i] = b[j] PROVE Meet(r, i, j)
      <4> DEFINE t == merge[<<i + 1, j + 1>>]
      <4>1. r = <<a[i]>> \o t
        BY <3>4, <3>8, <3>9, SMTT(30)
      <4>2. t \in Seq(Nat) /\ Ascending(t) /\ Elems(t) = From(a, i + 1) \cap From(b, j + 1)
        BY <3>3
      <4> HIDE DEF t
      <4>3. \A y \in Elems(t) : a[i] < y
        BY <3>5, <4>2
      <4>4. /\ <<a[i]>> \o t \in Seq(Nat) /\ Ascending(<<a[i]>> \o t)
            /\ Elems(<<a[i]>> \o t) = {a[i]} \cup Elems(t)
        BY <3>4, <4>2, <4>3, PutFirst
      <4>5. a[i] \notin From(a, i + 1) /\ a[i] \notin From(b, j + 1)
        BY <3>4, <3>5, <3>8
      <4>6. Elems(<<a[i]>> \o t) = From(a, i) \cap From(b, j)
        BY <3>5, <3>8, <4>2, <4>4, <4>5
      <4> QED
        BY <4>1, <4>4, <4>6
    <3>10. Meet(r, i, j)
      <4> HIDE DEF Meet
      <4> QED
        BY <3>4, <3>6, <3>7, <3>8
    <3> QED
      BY <3>10 DEF r
  <2> QED
    BY <2>1, <2>2
<1>6. \A n \in Nat : n \in S
  <2> HIDE DEF S
  <2> QED
    BY <1>5, StrongInduction
<1>7. Meet(merge[<<1, 1>>], 1, 1)
  <2>1. /\ ((A + 1) - 1) + ((B + 1) - 1) \in Nat
        /\ 1 \in 1..A + 1 /\ 1 \in 1..B + 1
    BY <1>1
  <2>2. ((A + 1) - 1) + ((B + 1) - 1) \in S
    <3> HIDE DEF S
    <3> QED
      BY <1>6, <2>1
  <2> HIDE DEF Meet
  <2> QED
    BY <2>1, <2>2
<1> HIDE DEF S
<1> QED
  BY <1>1, <1>2, <1>7

AscendingSeqs == {s \in Seq(Nat) : Ascending(s)}

\* The accumulator of IntersectMany as an equation.
LEMMA FoldEquation ==
  ASSUME NEW ss \in Seq(AscendingSeqs), ss # <<>>
  PROVE  \E acc \in [1..Len(ss) -> AscendingSeqs] :
           /\ IntersectMany(ss) = acc[Len(ss)]
           /\ acc[1] = ss[1]
           /\ \A i \in 2..Len(ss) :
                acc[i] = IF i > 2 /\ acc[i - 1] = <<>> THEN <<>>
                         ELSE IntersectSorted(acc[i - 1], ss[i])
<1> DEFINE D == 1..Len(ss)
           V == AscendingSeqs
           body(g) == [i \in D |->
             IF i = 1 THEN ss[1]
             ELSE IF i > 2 /\ g[i - 1] = <<>> THEN <<>>
             ELSE IntersectSorted(g[i - 1], ss[i])]
           step == [g \in [D -> V] |-> body(g)]
           m == [i \in D |-> i]
           acc == CHOOSE acc : acc = body(acc)
<1>1. Len(ss) \in Nat \ {0} /\ \A i \in D : ss[i] \in V
  BY LenProperties, EmptySeq, ElementOfSeq
<1>2. <<>> \in V
  BY DEF AscendingSeqs, Ascending
<1>3. \A s, t \in V : IntersectSorted(s, t) \in V
  BY MergeIsIntersection DEF AscendingSeqs
<1>4. step \in [[D -> V] -> [D -> V]]
  <2>1. ASSUME NEW g \in [D -> V], NEW i \in D PROVE body(g)[i] \in V
    <3>1. CASE i = 1
      BY <1>1, <3>1
    <3>2. CASE i # 1
      <4>1. i - 1 \in D /\ ss[i] \in V
        BY <1>1, <3>2
      <4> HIDE DEF V, D
      <4>2. g[i - 1] \in V
        BY <4>1
      <4> QED
        BY <1>2, <1>3, <3>2, <4>1, <4>2
    <3> QED
      BY <3>1, <3>2
  <2>2. \A g \in [D -> V] : body(g) \in [D -> V]
    <3> HIDE DEF V
    <3> QED
      BY <2>1
  <2> HIDE DEF body, D, V
  <2> QED
    BY <2>2
<1>5. m \in [D -> Nat]
  BY <1>1
<1>6. \A g, h \in [D -> V], i \in D :
        (\A y \in D : m[y] < m[i] => g[y] = h[y]) => step[g][i] = step[h][i]
  <2> SUFFICES ASSUME NEW g \in [D -> V], NEW h \in [D -> V], NEW i \in D,
                      \A y \in D : m[y] < m[i] => g[y] = h[y]
               PROVE  step[g][i] = step[h][i]
    <3> HIDE DEF step, m, D, V
    <3> QED
      OBVIOUS
  <2>1. i # 1 => g[i - 1] = h[i - 1]
    BY <1>1
  <2> QED
    BY <2>1
<1>7. \E f \in [D -> V] : f = step[f]
  <2> HIDE DEF D, V, step, m
  <2>1. Recursive(D, V, step, m)
    BY <1>2, <1>4, <1>5, <1>6 DEF Recursive
  <2>2. HasSolution(D, V, step)
    BY <2>1, Fixpoint
  <2> QED
    BY <2>2 DEF HasSolution
<1>8. \E f : f = body(f)
  BY <1>7
<1>9. acc = body(acc)
  <2> HIDE DEF body
  <2> QED
    BY <1>8
<1>10. IntersectMany(ss) = acc[Len(ss)]
  BY Zenon DEF IntersectMany
<1> HIDE DEF acc
<1>11. /\ acc[1] = ss[1]
       /\ \A i \in 2..Len(ss) :
            acc[i] = IF i > 2 /\ acc[i - 1] = <<>> THEN <<>>
                     ELSE IntersectSorted(acc[i - 1], ss[i])
  <2>1. \A i \in D : acc[i] = body(acc)[i]
    BY <1>9
  <2> QED
    BY <1>1, <2>1
<1>12. acc \in [D -> V]
  <2> DEFINE S == {n \in Nat : n + 1 \in D => acc[n + 1] \in V}
  <2>1. 0 \in S
    BY <1>1, <1>11
  <2>2. ASSUME NEW n \in Nat, n \in S PROVE n + 1 \in S
    <3> SUFFICES ASSUME (n + 1) + 1 \in D PROVE acc[(n + 1) + 1] \in V
      OBVIOUS
    <3>1. n + 1 \in D /\ (n + 1) + 1 \in 2..Len(ss) /\ ((n + 1) + 1) - 1 = n + 1
      BY <1>1
    <3>2. acc[n + 1] \in V /\ ss[(n + 1) + 1] \in V
      BY <1>1, <2>2, <3>1
    <3>3. acc[(n + 1) + 1] = IF (n + 1) + 1 > 2 /\ acc[n + 1] = <<>> THEN <<>>
                             ELSE IntersectSorted(acc[n + 1], ss[(n + 1) + 1])
      BY <1>11, <3>1
    <3> HIDE DEF V
    <3> QED
      BY <1>2, <1>3, <3>2, <3>3
  <2>3. \A n \in Nat : n \in S
    <3> HIDE DEF S
    <3> QED
      BY <2>1, <2>2, Induction
  <2>4. ASSUME NEW i \in D PROVE acc[i] \in V
    <3>1. i - 1 \in Nat /\ (i - 1) + 1 = i
      BY <1>1
    <3>2. i - 1 \in S
      <4> HIDE DEF S
      <4> QED
        BY <2>3, <3>1
    <3> QED
      BY <3>1, <3>2
  <2>5. DOMAIN acc = D /\ acc = [i \in D |-> acc[i]]
    BY <1>9
  <2> HIDE DEF V, D
  <2> QED
    BY <2>4, <2>5
<1> QED
  BY <1>10, <1>11, <1>12

\* The ids every set of a list holds.
InAll(ss) == {x \in Elems(ss[1]) : \A i \in 1..Len(ss) : x \in Elems(ss[i])}

\* Folding the merge over a list of sets gives the ids that are in all of them; the
\* early end of the loop changes nothing (setops.go:62-75, setrixdb.go:92-101).
THEOREM IntersectIsIntersection ==
  ASSUME NEW ss \in Seq(AscendingSeqs), ss # <<>>
  PROVE  Intersect(ss) \in AscendingSeqs /\ Elems(Intersect(ss)) = InAll(ss)
<1>1. PICK acc \in [1..Len(ss) -> AscendingSeqs] :
        /\ IntersectMany(ss) = acc[Len(ss)]
        /\ acc[1] = ss[1]
        /\ \A i \in 2..Len(ss) :
             acc[i] = IF i > 2 /\ acc[i - 1] = <<>> THEN <<>>
                      ELSE IntersectSorted(acc[i - 1], ss[i])
  BY FoldEquation
<1>2. Len(ss) \in Nat \ {0} /\ \A i \in 1..Len(ss) : ss[i] \in AscendingSeqs
  BY LenProperties, EmptySeq, ElementOfSeq
<1> DEFINE InFirst(n) == {x \in Elems(ss[1]) : \A i \in 1..n : x \in Elems(ss[i])}
           S == {n \in Nat : n + 1 <= Len(ss) => Elems(acc[n + 1]) = InFirst(n + 1)}
<1>3. 0 \in S
  <2>1. 1..(0 + 1) = {1} /\ InFirst(0 + 1) = Elems(ss[1])
    OBVIOUS
  <2> HIDE DEF InFirst
  <2> QED
    BY <1>1, <2>1
<1>4. ASSUME NEW n \in Nat, n \in S PROVE n + 1 \in S
  <2> DEFINE k == n + 2
  <2> SUFFICES ASSUME k <= Len(ss) PROVE Elems(acc[k]) = InFirst(k)
    OBVIOUS
  <2>1. k \in 2..Len(ss) /\ k - 1 \in 1..Len(ss) /\ k - 1 = n + 1
    BY <1>2
  <2>2. Elems(acc[k - 1]) = InFirst(k - 1)
    BY <1>4, <2>1
  <2>3. acc[k] = IF k > 2 /\ acc[k - 1] = <<>> THEN <<>> ELSE IntersectSorted(acc[k - 1], ss[k])
    BY <1>1, <2>1
  <2>4. /\ acc[k - 1] \in Seq(Nat) /\ Ascending(acc[k - 1])
        /\ ss[k] \in Seq(Nat) /\ Ascending(ss[k])
    <3>1. acc[k - 1] \in AscendingSeqs /\ ss[k] \in AscendingSeqs
      <4> HIDE DEF k
      <4>1. k \in 1..Len(ss)
        BY <1>2, <2>1
      <4> QED
        BY <1>2, <2>1, <4>1
    <3> HIDE DEF k
    <3> QED
      BY <3>1 DEF AscendingSeqs
  <2>5. InFirst(k) = InFirst(k - 1) \cap Elems(ss[k])
    <3>1. 1..k = (1..k - 1) \cup {k}
      BY <2>1
    <3> QED
      BY <3>1
  <2> HIDE DEF InFirst, k
  <2>6. CASE k > 2 /\ acc[k - 1] = <<>>
    <3>1. acc[k] = <<>> /\ Elems(<<>>) = {}
      BY <2>3, <2>6 DEF Elems
    <3> QED
      BY <2>2, <2>5, <2>6, <3>1
  <2>7. CASE ~(k > 2 /\ acc[k - 1] = <<>>)
    <3>1. acc[k] = IntersectSorted(acc[k - 1], ss[k])
      BY <2>3, <2>7
    <3>2. Elems(acc[k]) = Elems(acc[k - 1]) \cap Elems(ss[k])
      BY <2>4, <3>1, MergeIsIntersection
    <3> QED
      BY <2>2, <2>5, <3>2
  <2> QED
    BY <2>6, <2>7
<1>5. \A n \in Nat : n \in S
  <2> HIDE DEF S
  <2> QED
    BY <1>3, <1>4, Induction
<1>6. Elems(acc[Len(ss)]) = InFirst(Len(ss))
  <2>1. Len(ss) - 1 \in Nat /\ (Len(ss) - 1) + 1 = Len(ss)
    BY <1>2
  <2>2. Len(ss) - 1 \in S
    <3> HIDE DEF S
    <3> QED
      BY <1>5, <2>1
  <2> HIDE DEF InFirst
  <2> QED
    BY <1>2, <2>1, <2>2
<1>7. Intersect(ss) = acc[Len(ss)] /\ acc[Len(ss)] \in AscendingSeqs
  BY <1>1, <1>2 DEF Intersect
<1> HIDE DEF S
<1> QED
  BY <1>6, <1>7 DEF InAll

-----------------------------------------------------------------------------
(* sort.Slice and finalize *)

\* The number of positions whose element comes before or at position i in the order
\* of the sort.
Rank(raw) ==
  [i \in 1..Len(raw) |-> Cardinality({j \in 1..Len(raw) :
     raw[j] < raw[i] \/ (raw[j] = raw[i] /\ j <= i)})]

\* Positions in the order of the sort have increasing ranks.
LEMMA RankIncreases ==
  ASSUME NEW raw \in Seq(Nat), NEW i \in 1..Len(raw), NEW k \in 1..Len(raw),
         raw[i] < raw[k] \/ (raw[i] = raw[k] /\ i < k)
  PROVE  Rank(raw)[i] < Rank(raw)[k]
<1> DEFINE n == Len(raw)
           Below(x) == {j \in 1..n : raw[j] < raw[x] \/ (raw[j] = raw[x] /\ j <= x)}
<1>1. n \in Nat /\ \A x \in 1..n : raw[x] \in Nat
  BY ElemsFacts
<1>2. Below(i) \subseteq Below(k) /\ k \in Below(k) /\ k \notin Below(i) /\ Below(k) \subseteq 1..n
  BY <1>1
<1>3. Rank(raw)[i] = Cardinality(Below(i)) /\ Rank(raw)[k] = Cardinality(Below(k))
  BY DEF Rank
<1> HIDE DEF n, Below
<1>4. IsFiniteSet(Below(k))
  <2>1. IsFiniteSet(1..n)
    BY <1>1, FS_Interval
  <2> QED
    BY <1>2, <2>1, FS_Subset
<1>5. IsFiniteSet(Below(i)) /\ Cardinality(Below(i)) <= Cardinality(Below(k))
      /\ (Cardinality(Below(k)) = Cardinality(Below(i)) => Below(k) = Below(i))
  BY <1>2, <1>4, FS_Subset
<1>6. Cardinality(Below(i)) \in Nat /\ Cardinality(Below(k)) \in Nat
  BY <1>4, <1>5, FS_CardinalityType
<1> QED
  BY <1>2, <1>3, <1>5, <1>6

\* The ranks are a permutation of the positions.
LEMMA RankIsPermutation ==
  ASSUME NEW raw \in Seq(Nat)
  PROVE  /\ Rank(raw) \in [1..Len(raw) -> 1..Len(raw)]
         /\ \A i, k \in 1..Len(raw) : Rank(raw)[i] = Rank(raw)[k] => i = k
         /\ \A k \in 1..Len(raw) : \E i \in 1..Len(raw) : Rank(raw)[i] = k
<1> DEFINE n == Len(raw)
           D == 1..n
           R == Rank(raw)
           Below(x) == {j \in 1..n : raw[j] < raw[x] \/ (raw[j] = raw[x] /\ j <= x)}
<1>1. n \in Nat /\ \A x \in 1..n : raw[x] \in Nat
  BY ElemsFacts
<1>2. IsFiniteSet(D) /\ Cardinality(D) = n
  BY <1>1, FS_Interval
<1>3. ASSUME NEW i \in D PROVE R[i] \in D
  <2>1. R[i] = Cardinality(Below(i)) /\ Below(i) \subseteq D /\ i \in Below(i)
    BY <1>1 DEF Rank
  <2> HIDE DEF Below, D, R
  <2>2. IsFiniteSet(Below(i)) /\ Cardinality(Below(i)) <= n
    BY <1>2, <2>1, FS_Subset
  <2>3. Cardinality(Below(i)) \in Nat /\ Cardinality(Below(i)) # 0
    BY <2>1, <2>2, FS_CardinalityType, FS_EmptySet
  <2> QED
    BY <1>1, <2>1, <2>2, <2>3 DEF D
<1>4. R \in [D -> D]
  <2>1. R = [i \in D |-> R[i]]
    BY DEF Rank
  <2> HIDE DEF D, R
  <2> QED
    BY <1>3, <2>1
<1>5. ASSUME NEW i \in D, NEW k \in D, R[i] = R[k] PROVE i = k
  <2>1. R[i] \in Int /\ R[k] \in Int
    BY <1>3
  <2>2. ~(raw[i] < raw[k] \/ (raw[i] = raw[k] /\ i < k))
    <3>1. ~(R[i] < R[k])
      BY <1>5, <2>1
    <3> QED
      BY <3>1, RankIncreases
  <2>3. ~(raw[k] < raw[i] \/ (raw[k] = raw[i] /\ k < i))
    <3>1. ~(R[k] < R[i])
      BY <1>5, <2>1
    <3> QED
      BY <3>1, RankIncreases
  <2>4. raw[i] \in Nat /\ raw[k] \in Nat /\ i \in Int /\ k \in Int
    BY <1>1
  <2> QED
    BY <2>2, <2>3, <2>4
<1>6. R \in Injection(D, D)
  <2> HIDE DEF D, R
  <2> QED
    BY <1>4, <1>5 DEF Injection, IsInjective
<1>7. R \in Surjection(D, D)
  <2> HIDE DEF D, R
  <2> QED
    BY <1>2, <1>6, FS_Injection
<1>8. \A k \in D : \E i \in D : R[i] = k
  <2> HIDE DEF D, R
  <2> QED
    BY <1>7 DEF Surjection
<1> QED
  BY <1>4, <1>5, <1>8

\* sort.Slice orders the ids and keeps them all (setrixdb.go:78).
LEMMA SortSorts ==
  ASSUME NEW raw \in Seq(Nat)
  PROVE  /\ Sort(raw) \in Seq(Nat) /\ Len(Sort(raw)) = Len(raw)
         /\ Elems(Sort(raw)) = Elems(raw)
         /\ \A i, j \in 1..Len(raw) : i <= j => Sort(raw)[i] <= Sort(raw)[j]
<1> DEFINE n == Len(raw)
           D == 1..n
           R == Rank(raw)
           P == [k \in D |-> CHOOSE i \in D : R[i] = k]
           s == [k \in D |-> raw[P[k]]]
<1>1. n \in Nat /\ (\A x \in D : raw[x] \in Nat) /\ DOMAIN raw = D
  BY ElemsFacts, LenProperties
<1>2. \A i \in D : R[i] = Cardinality({j \in D : raw[j] < raw[i] \/ (raw[j] = raw[i] /\ j <= i)})
  BY DEF Rank
<1>3. Sort(raw) = s
  <2>1. \A k \in D : (CHOOSE i \in D : R[i] = k)
          = (CHOOSE i \in D : Cardinality({j \in D : raw[j] < raw[i] \/ (raw[j] = raw[i] /\ j <= i)}) = k)
    <3> HIDE DEF D, R
    <3> QED
      BY <1>2, Zenon
  <2>2. Sort(raw) = [k \in D |-> raw[CHOOSE i \in D :
            Cardinality({j \in D : raw[j] < raw[i] \/ (raw[j] = raw[i] /\ j <= i)}) = k]]
    <3> HIDE DEF D
    <3> QED
      BY <1>1 DEF Sort
  <2>3. s = [k \in D |-> raw[CHOOSE i \in D : R[i] = k]]
    <3> HIDE DEF D, R
    <3> QED
      OBVIOUS
  <2> HIDE DEF D, R, P, s
  <2> QED
    BY <2>1, <2>2, <2>3, Zenon
<1>4. /\ \A i \in D : R[i] \in D
      /\ \A i, k \in D : R[i] = R[k] => i = k
      /\ \A k \in D : \E i \in D : R[i] = k
  BY RankIsPermutation
<1>5. \A k \in D : P[k] \in D /\ R[P[k]] = k
  <2> HIDE DEF D, R
  <2> QED
    BY <1>4
<1>6. s \in Seq(Nat) /\ Len(s) = n /\ DOMAIN s = D /\ \A k \in D : s[k] = raw[P[k]]
  <2>1. \A k \in D : s[k] \in Nat
    BY <1>1, <1>5
  <2> HIDE DEF P
  <2> QED
    BY <1>1, <2>1
<1>7. Elems(s) = Elems(raw)
  <2>1. \A i \in D : R[i] \in D /\ P[R[i]] = i
    BY <1>4, <1>5
  <2> HIDE DEF s, P, R, D
  <2>2. \A k \in D : P[k] \in D /\ s[k] = raw[P[k]]
    BY <1>5, <1>6
  <2>3. \A i \in D : \E k \in D : raw[i] = s[k]
    BY <2>1, <2>2, SMTT(30)
  <2>4. Elems(s) = {s[k] : k \in D} /\ Elems(raw) = {raw[k] : k \in D}
    BY <1>1, <1>6 DEF Elems
  <2>5. {s[k] : k \in D} = {raw[k] : k \in D}
    <3>1. ASSUME NEW k \in D PROVE s[k] \in {raw[i] : i \in D}
      BY <2>2
    <3>2. ASSUME NEW i \in D PROVE raw[i] \in {s[k] : k \in D}
      BY <2>3
    <3> QED
      BY <3>1, <3>2, Zenon
  <2> QED
    BY <2>4, <2>5
<1>8. ASSUME NEW i \in D, NEW j \in D, i <= j PROVE s[i] <= s[j]
  <2>1. P[i] \in D /\ P[j] \in D /\ R[P[i]] = i /\ R[P[j]] = j
    BY <1>5
  <2>2. ~(R[P[j]] < R[P[i]])
    BY <1>8, <2>1
  <2>3. ~(raw[P[j]] < raw[P[i]])
    <3> HIDE DEF P, R, D
    <3> QED
      BY <2>1, <2>2, RankIncreases DEF D, R
  <2>4. raw[P[i]] \in Nat /\ raw[P[j]] \in Nat /\ s[i] = raw[P[i]] /\ s[j] = raw[P[j]]
    BY <1>1, <1>6, <2>1
  <2> HIDE DEF P, s
  <2> QED
    BY <2>3, <2>4
<1> HIDE DEF s
<1> QED
  BY <1>3, <1>6, <1>7, <1>8

\* The elements from position i on that differ from the one before i.
NewFrom(s, i) == {s[j] : j \in {k \in i..Len(s) : i > 1 => s[k] # s[i - 1]}}

\* finalize is a recursion from the end of the sorted ids.
LEMMA KeepEquation ==
  ASSUME NEW raw \in Seq(Nat)
  PROVE  \E keep \in [1..Len(raw) + 1 -> Seq(Nat)] :
           /\ Finalize(raw) = keep[1]
           /\ keep[Len(raw) + 1] = <<>>
           /\ \A i \in 1..Len(raw) :
                keep[i] = IF i > 1 /\ Sort(raw)[i] = Sort(raw)[i - 1] THEN keep[i + 1]
                          ELSE <<Sort(raw)[i]>> \o keep[i + 1]
<1> DEFINE s == Sort(raw)
           n == Len(raw)
           D == 1..n + 1
           V == Seq(Nat)
           body(g) == [i \in D |->
             IF i > n THEN <<>>
             ELSE IF i > 1 /\ s[i] = s[i - 1] THEN g[i + 1]
             ELSE <<s[i]>> \o g[i + 1]]
           step == [g \in [D -> V] |-> body(g)]
           m == [i \in D |-> (n + 1) - i]
           keep == CHOOSE keep : keep = body(keep)
<1>1. n \in Nat /\ \A i \in 1..n : s[i] \in Nat
  BY SortSorts, ElemsFacts
<1>2. <<>> \in V
  OBVIOUS
<1>3. \A i \in D : i <= n => i + 1 \in D /\ i \in 1..n
  BY <1>1
<1>4. \A g \in [D -> V], i \in D : body(g)[i] \in V
  <2> SUFFICES ASSUME NEW g \in [D -> V], NEW i \in D PROVE body(g)[i] \in V
    <3> HIDE DEF body, D, V
    <3> QED
      OBVIOUS
  <2>1. CASE i > n
    BY <1>2, <2>1
  <2>2. CASE ~(i > n)
    <3>1. i + 1 \in D /\ i \in 1..n
      BY <1>1, <1>3, <2>2
    <3>2. g[i + 1] \in V
      <4> HIDE DEF D, V
      <4> QED
        BY <3>1
    <3>3. <<s[i]>> \o g[i + 1] \in V
      BY <1>1, <3>1, <3>2, PutFirst
    <3> QED
      BY <2>2, <3>2, <3>3
  <2> QED
    BY <2>1, <2>2
<1>5. step \in [[D -> V] -> [D -> V]]
  <2>1. \A g \in [D -> V] : body(g) \in [D -> V]
    <3> HIDE DEF V, D
    <3> QED
      BY <1>4
  <2> HIDE DEF body, D, V
  <2> QED
    BY <2>1
<1>6. m \in [D -> Nat]
  BY <1>1
<1>7. \A g, h \in [D -> V], i \in D :
        (\A y \in D : m[y] < m[i] => g[y] = h[y]) => step[g][i] = step[h][i]
  <2> SUFFICES ASSUME NEW g \in [D -> V], NEW h \in [D -> V], NEW i \in D,
                      \A y \in D : m[y] < m[i] => g[y] = h[y]
               PROVE  step[g][i] = step[h][i]
    <3> HIDE DEF step, m, D, V
    <3> QED
      OBVIOUS
  <2>1. ~(i > n) => g[i + 1] = h[i + 1]
    BY <1>1, <1>3
  <2> HIDE DEF s
  <2> QED
    BY <2>1
<1>8. \E f \in [D -> V] : f = step[f]
  <2> HIDE DEF D, V, step, m
  <2>1. Recursive(D, V, step, m)
    BY <1>2, <1>5, <1>6, <1>7 DEF Recursive
  <2>2. HasSolution(D, V, step)
    BY <2>1, Fixpoint
  <2> QED
    BY <2>2 DEF HasSolution
<1>9. \E f : f = body(f)
  BY <1>8
<1>10. keep = body(keep)
  <2> HIDE DEF body
  <2> QED
    BY <1>9
<1>11. Finalize(raw) = keep[1]
  BY Zenon DEF Finalize
<1> HIDE DEF keep
<1>12. /\ keep[n + 1] = <<>>
       /\ \A i \in 1..n :
            keep[i] = IF i > 1 /\ s[i] = s[i - 1] THEN keep[i + 1]
                      ELSE <<s[i]>> \o keep[i + 1]
  <2>1. ASSUME NEW i \in D
        PROVE  keep[i] = IF i > n THEN <<>>
                         ELSE IF i > 1 /\ s[i] = s[i - 1] THEN keep[i + 1]
                         ELSE <<s[i]>> \o keep[i + 1]
    <3>1. keep[i] = body(keep)[i]
      <4> HIDE DEF body, D
      <4> QED
        BY <1>10
    <3> HIDE DEF s, D
    <3> QED
      BY <3>1
  <2>2. n + 1 \in D /\ n + 1 > n /\ \A i \in 1..n : i \in D /\ ~(i > n)
    BY <1>1
  <2> HIDE DEF s, n, D
  <2>3. \A i \in 1..n :
          keep[i] = IF i > 1 /\ s[i] = s[i - 1] THEN keep[i + 1]
                    ELSE <<s[i]>> \o keep[i + 1]
    BY <2>1, <2>2
  <2> QED
    BY <2>1, <2>2, <2>3
<1>13. keep \in [D -> V]
  <2> DEFINE S == {k \in Nat : k <= n => keep[(n + 1) - k] \in V}
  <2>1. 0 \in S
    <3>1. (n + 1) - 0 = n + 1 /\ keep[n + 1] \in V
      BY <1>1, <1>2, <1>12
    <3> QED
      BY <3>1
  <2>2. ASSUME NEW k \in Nat, k \in S PROVE k + 1 \in S
    <3> SUFFICES ASSUME k + 1 <= n PROVE keep[n - k] \in V
      BY <1>1
    <3>1. n - k \in 1..n /\ (n - k) + 1 = (n + 1) - k
      BY <1>1
    <3>2. keep[(n - k) + 1] \in V
      BY <1>1, <2>2, <3>1
    <3>3. s[n - k] \in Nat
      BY <1>1, <3>1
    <3>4. <<s[n - k]>> \o keep[(n - k) + 1] \in V
      BY <3>2, <3>3, PutFirst
    <3>5. keep[n - k] = IF n - k > 1 /\ s[n - k] = s[(n - k) - 1] THEN keep[(n - k) + 1]
                        ELSE <<s[n - k]>> \o keep[(n - k) + 1]
      BY <1>12, <3>1
    <3> HIDE DEF s, V
    <3> QED
      BY <3>2, <3>4, <3>5
  <2>3. \A k \in Nat : k \in S
    <3> HIDE DEF S
    <3> QED
      BY <2>1, <2>2, Induction
  <2>4. ASSUME NEW i \in D PROVE keep[i] \in V
    <3>1. (n + 1) - i \in Nat /\ (n + 1) - i <= n /\ (n + 1) - ((n + 1) - i) = i
      BY <1>1
    <3>2. (n + 1) - i \in S
      <4> HIDE DEF S
      <4> QED
        BY <2>3, <3>1
    <3> QED
      BY <3>1, <3>2
  <2>5. keep = [i \in D |-> keep[i]]
    BY <1>10
  <2> HIDE DEF V, D
  <2> QED
    BY <2>4, <2>5
<1> QED
  BY <1>11, <1>12, <1>13

\* finalize leaves the ids it was given, each once, in ascending order
\* (setrixdb.go:74-88).
THEOREM FinalizeFinalizes ==
  ASSUME NEW raw \in Seq(Nat)
  PROVE  Finalize(raw) \in AscendingSeqs /\ Elems(Finalize(raw)) = Elems(raw)
<1> DEFINE s == Sort(raw)
           n == Len(raw)
<1>1. PICK keep \in [1..n + 1 -> Seq(Nat)] :
           /\ Finalize(raw) = keep[1]
           /\ keep[n + 1] = <<>>
           /\ \A i \in 1..n :
                keep[i] = IF i > 1 /\ s[i] = s[i - 1] THEN keep[i + 1]
                          ELSE <<s[i]>> \o keep[i + 1]
  BY KeepEquation
<1>2. /\ n \in Nat /\ s \in Seq(Nat) /\ Len(s) = n /\ Elems(s) = Elems(raw)
      /\ \A i \in 1..n : s[i] \in Nat
      /\ \A i, j \in 1..n : i <= j => s[i] <= s[j]
  BY SortSorts, ElemsFacts
<1> HIDE DEF s, n
<1> DEFINE Done(i) == /\ keep[i] \in Seq(Nat) /\ Ascending(keep[i])
                      /\ Elems(keep[i]) = NewFrom(s, i)
           S == {k \in Nat : k <= n => Done((n + 1) - k)}
<1>3. 0 \in S
  <2>1. NewFrom(s, n + 1) = {} /\ Elems(<<>>) = {} /\ Ascending(<<>>) /\ <<>> \in Seq(Nat)
    BY <1>2 DEF NewFrom, Elems, Ascending
  <2>2. Done(n + 1)
    BY <1>1, <2>1
  <2> HIDE DEF Done
  <2> QED
    BY <1>2, <2>2
<1>4. ASSUME NEW k \in Nat, k \in S PROVE k + 1 \in S
  <2> DEFINE i == n - k
  <2> SUFFICES ASSUME k + 1 <= n PROVE Done(i)
    <3> HIDE DEF Done
    <3> QED
      BY <1>2
  <2>1. i \in 1..n /\ i + 1 = (n + 1) - k
    BY <1>2
  <2>2. Done(i + 1)
    <3> HIDE DEF Done
    <3> QED
      BY <1>2, <1>4, <2>1
  <2> HIDE DEF i
  <2>3. /\ NewFrom(s, i) = {s[j] : j \in {l \in i..n : i > 1 => s[l] # s[i - 1]}}
        /\ NewFrom(s, i + 1) = {s[j] : j \in {l \in i + 1..n : s[l] # s[i]}}
        /\ s[i] \in Nat
        /\ \A y \in NewFrom(s, i + 1) : s[i] < y
    <3>1. (i + 1) - 1 = i /\ i + 1 > 1
      BY <2>1
    <3>2. ASSUME NEW l \in i + 1..n, s[l] # s[i] PROVE s[i] < s[l]
      BY <1>2, <2>1, <3>2
    <3> QED
      BY <1>2, <2>1, <3>1, <3>2 DEF NewFrom
  <2>4. CASE i > 1 /\ s[i] = s[i - 1]
    <3>1. keep[i] = keep[i + 1]
      BY <1>1, <2>1, <2>4
    <3>2. {l \in i..n : i > 1 => s[l] # s[i - 1]} = {l \in i + 1..n : s[l] # s[i]}
      BY <1>2, <2>1, <2>4, SMTT(30)
    <3> QED
      BY <2>2, <2>3, <3>1, <3>2
  <2>5. CASE ~(i > 1 /\ s[i] = s[i - 1])
    <3>1. keep[i] = <<s[i]>> \o keep[i + 1]
      BY <1>1, <2>1, <2>5
    <3>2. NewFrom(s, i) = {s[i]} \cup NewFrom(s, i + 1)
      <4>1. {l \in i..n : i > 1 => s[l] # s[i - 1]} = i..n
        <5>1. ASSUME NEW l \in i..n, i > 1 PROVE s[l] # s[i - 1]
          <6>1. i - 1 \in 1..n /\ s[i - 1] <= s[i] /\ s[i] <= s[l] /\ s[i] # s[i - 1]
                /\ l \in 1..n
            BY <1>2, <2>1, <2>5, <5>1
          <6> QED
            BY <1>2, <2>1, <6>1
        <5> QED
          BY <5>1
      <4>2. ASSUME NEW x \in NewFrom(s, i) PROVE x \in {s[i]} \cup NewFrom(s, i + 1)
        <5>1. PICK l \in i..n : x = s[l]
          BY <2>3, <4>1
        <5>2. CASE s[l] = s[i]
          BY <5>1, <5>2
        <5>3. CASE s[l] # s[i]
          <6>1. l \in i + 1..n
            BY <2>1, <5>3, <1>2
          <6> QED
            BY <2>3, <5>1, <5>3, <6>1
        <5> QED
          BY <5>2, <5>3
      <4>3. s[i] \in NewFrom(s, i)
        <5>1. i \in i..n
          BY <1>2, <2>1
        <5> QED
          BY <2>3, <4>1, <5>1
      <4>4. NewFrom(s, i + 1) \subseteq NewFrom(s, i)
        <5>1. i + 1..n \subseteq i..n
          BY <1>2, <2>1
        <5> QED
          BY <2>3, <4>1, <5>1
      <4> QED
        BY <4>2, <4>3, <4>4
    <3> QED
      BY <2>2, <2>3, <3>1, <3>2, PutFirst
  <2> QED
    BY <2>4, <2>5
<1>5. Done(1)
  <2>1. \A k \in Nat : k \in S
    <3> HIDE DEF S
    <3> QED
      BY <1>3, <1>4, Induction
  <2>2. n \in Nat /\ n <= n /\ (n + 1) - n = 1
    BY <1>2
  <2>3. n \in S
    <3> HIDE DEF S
    <3> QED
      BY <2>1, <2>2
  <2> HIDE DEF Done
  <2> QED
    BY <2>2, <2>3
<1>6. NewFrom(s, 1) = Elems(s)
  <2>1. Elems(s) = {s[j] : j \in 1..n}
    BY <1>2, ElemsFacts
  <2>2. {k \in 1..n : 1 > 1 => s[k] # s[1 - 1]} = 1..n
    OBVIOUS
  <2> QED
    BY <1>2, <2>1, <2>2 DEF NewFrom
<1> QED
  BY <1>1, <1>2, <1>5, <1>6 DEF AscendingSeqs

\* Appending joins the ids.
LEMMA ElemsConcat ==
  ASSUME NEW s \in Seq(Nat), NEW t \in Seq(Nat)
  PROVE  s \o t \in Seq(Nat) /\ Elems(s \o t) = Elems(s) \cup Elems(t)
<1>1. /\ s \o t \in Seq(Nat) /\ Len(s \o t) = Len(s) + Len(t)
      /\ \A i \in 1..Len(s) + Len(t) : (s \o t)[i] = IF i <= Len(s) THEN s[i] ELSE t[i - Len(s)]
  BY ConcatProperties
<1>2. /\ Len(s) \in Nat /\ Len(t) \in Nat
      /\ Elems(s) = {s[i] : i \in 1..Len(s)} /\ Elems(t) = {t[i] : i \in 1..Len(t)}
      /\ Elems(s \o t) = {(s \o t)[i] : i \in 1..Len(s) + Len(t)}
  BY <1>1, ElemsFacts
<1>3. ASSUME NEW x \in Elems(s \o t) PROVE x \in Elems(s) \cup Elems(t)
  <2>1. PICK i \in 1..Len(s) + Len(t) : x = (s \o t)[i]
    BY <1>2
  <2>2. CASE i <= Len(s)
    BY <1>1, <1>2, <2>1, <2>2
  <2>3. CASE ~(i <= Len(s))
    <3>1. i - Len(s) \in 1..Len(t) /\ x = t[i - Len(s)]
      BY <1>1, <1>2, <2>1, <2>3
    <3> QED
      BY <1>2, <3>1
  <2> QED
    BY <2>2, <2>3
<1>4. ASSUME NEW x \in Elems(s) PROVE x \in Elems(s \o t)
  <2>1. PICK i \in 1..Len(s) : x = s[i]
    BY <1>2
  <2>2. i \in 1..Len(s) + Len(t) /\ (s \o t)[i] = x
    BY <1>1, <1>2, <2>1
  <2> QED
    BY <1>2, <2>2
<1>5. ASSUME NEW x \in Elems(t) PROVE x \in Elems(s \o t)
  <2>1. PICK i \in 1..Len(t) : x = t[i]
    BY <1>2
  <2>2. i + Len(s) \in 1..Len(s) + Len(t) /\ (i + Len(s)) - Len(s) = i /\ ~(i + Len(s) <= Len(s))
    BY <1>2
  <2>3. (s \o t)[i + Len(s)] = x
    BY <1>1, <2>1, <2>2
  <2> QED
    BY <1>2, <2>2, <2>3
<1> QED
  BY <1>1, <1>3, <1>4, <1>5

LEMMA ElemsAppend ==
  ASSUME NEW s \in Seq(Nat), NEW x \in Nat
  PROVE  Append(s, x) \in Seq(Nat) /\ Elems(Append(s, x)) = Elems(s) \cup {x}
<1>1. <<x>> \in Seq(Nat) /\ Append(s, x) = s \o <<x>>
  OBVIOUS
<1>2. Elems(<<x>>) = {x}
  BY DEF Elems
<1> QED
  BY <1>1, <1>2, ElemsConcat

LEMMA AppendLast ==
  ASSUME NEW s \in Seq(Nat), NEW t \in Seq(Nat), NEW x \in Nat
  PROVE  Append(t, x) \in Seq(Nat) /\ s \o Append(t, x) = Append(s \o t, x)
<1> DEFINE u == <<x>>
<1>1. u \in Seq(Nat) /\ s \o t \in Seq(Nat)
  BY ConcatProperties
<1>2. Append(t, x) = t \o u /\ Append(s \o t, x) = (s \o t) \o u
  BY <1>1, AppendIsConcat
<1>3. Append(t, x) \in Seq(Nat)
  BY AppendProperties
<1> HIDE DEF u
<1>4. (s \o t) \o u = s \o (t \o u)
  <2>1. u \in Seq(Nat)
    BY <1>1
  <2> QED
    BY <2>1, ConcatAssociative, SMTT(30)
<1> QED
  BY <1>2, <1>3, <1>4

\* The running concatenation as an equation.
LEMMA ConcatEquation ==
  ASSUME NEW E, NEW ss \in Seq(Seq(E))
  PROVE  \E concat \in [0..Len(ss) -> Seq(E)] :
           /\ Concat(ss) = concat[Len(ss)]
           /\ concat[0] = <<>>
           /\ \A i \in 1..Len(ss) : concat[i] = concat[i - 1] \o ss[i]
<1> DEFINE n == Len(ss)
           V == Seq(E)
           body(g) == [i \in 0..n |-> IF i = 0 THEN <<>> ELSE g[i - 1] \o ss[i]]
           next == [p \in (1..n) \X V |-> p[2] \o ss[p[1]]]
           concat == CHOOSE concat : concat = body(concat)
<1>1. n \in Nat /\ \A i \in 1..n : ss[i] \in V
  BY LenProperties, ElementOfSeq
<1>2. Loop(n, V, <<>>, next)
  <2>1. next \in [(1..n) \X V -> V]
    <3> SUFFICES ASSUME NEW p \in (1..n) \X V PROVE p[2] \o ss[p[1]] \in V
      OBVIOUS
    <3> QED
      BY <1>1, ConcatProperties
  <2> QED
    BY <1>1, <2>1 DEF Loop
<1>3. PICK f \in [0..n -> V] : f = [i \in 0..n |-> IF i = 0 THEN <<>> ELSE next[<<i, f[i - 1]>>]]
  <2> HIDE DEF next
  <2>1. HasRounds(n, V, <<>>, next)
    BY <1>2, LoopSolution
  <2> QED
    BY <2>1 DEF HasRounds
<1>4. f = body(f)
  <2>1. \A i \in 0..n : i # 0 => i \in 1..n /\ i - 1 \in 0..n
    BY <1>1
  <2>2. \A i \in 0..n : i # 0 => next[<<i, f[i - 1]>>] = f[i - 1] \o ss[i]
    BY <2>1
  <2> HIDE DEF next, V, n
  <2> QED
    BY <1>3, <2>2
<1>5. concat = body(concat)
  <2> HIDE DEF body
  <2> QED
    BY <1>4
<1>6. Concat(ss) = concat[n]
  BY Zenon DEF Concat
<1> HIDE DEF concat
<1>7. concat[0] = <<>> /\ \A i \in 1..n : concat[i] = concat[i - 1] \o ss[i]
  <2>1. 0 \in 0..n /\ \A i \in 1..n : i \in 0..n /\ i # 0
    BY <1>1
  <2> HIDE DEF n
  <2>2. concat = [i \in 0..n |-> IF i = 0 THEN <<>> ELSE concat[i - 1] \o ss[i]]
    BY <1>5
  <2> QED
    BY <2>1, <2>2
<1>8. concat \in [0..n -> V]
  <2>1. concat = [i \in 0..n |-> concat[i]]
    BY <1>5
  <2>2. \A i \in 1..n : concat[i - 1] \in V => concat[i] = next[<<i, concat[i - 1]>>]
    BY <1>7
  <2> HIDE DEF V, n, next
  <2>3. Rounds(concat, n, V, <<>>, next)
    BY <1>7, <2>1, <2>2 DEF Rounds
  <2> QED
    BY <1>2, <2>3, LoopType
<1> QED
  BY <1>6, <1>7, <1>8

\* f holds the running concatenations of the sequences ss.
Joined(E, ss, f) ==
  /\ f \in [0..Len(ss) -> Seq(E)]
  /\ Concat(ss) = f[Len(ss)]
  /\ f[0] = <<>>
  /\ \A i \in 1..Len(ss) : f[i] = f[i - 1] \o ss[i]

LEMMA ConcatJoins ==
  \A E : \A ss \in Seq(Seq(E)) : \E f : Joined(E, ss, f)
<1> TAKE E
<1> TAKE ss \in Seq(Seq(E))
<1>1. PICK f \in [0..Len(ss) -> Seq(E)] :
        /\ Concat(ss) = f[Len(ss)]
        /\ f[0] = <<>>
        /\ \A i \in 1..Len(ss) : f[i] = f[i - 1] \o ss[i]
  BY ConcatEquation
<1>2. Joined(E, ss, f)
  BY <1>1 DEF Joined
<1> QED
  BY <1>2

\* The ids some set of a list holds.
InSome(ss) == UNION {Elems(ss[i]) : i \in 1..Len(ss)}

\* Union gives the ids of all operands, each once, ascending (setrixdb.go:104-111).
THEOREM UnionIsUnion ==
  ASSUME NEW ss \in Seq(AscendingSeqs)
  PROVE  Union(ss) \in AscendingSeqs /\ Elems(Union(ss)) = InSome(ss)
<1> DEFINE n == Len(ss)
<1>1. PICK concat \in [0..n -> Seq(Nat)] :
           /\ Union(ss) = Finalize(concat[n])
           /\ concat[0] = <<>>
           /\ \A i \in 1..n : concat[i] = concat[i - 1] \o ss[i]
  <2>1. ss \in Seq(Seq(Nat))
    BY DEF AscendingSeqs
  <2>2. PICK concat : Joined(Nat, ss, concat)
    BY <2>1, ConcatJoins
  <2> QED
    BY <2>2 DEF Union, Joined
<1>2. n \in Nat /\ \A i \in 1..n : ss[i] \in Seq(Nat)
  BY LenProperties, ElementOfSeq DEF AscendingSeqs
<1> DEFINE S == {k \in Nat : k <= n => Elems(concat[k]) = UNION {Elems(ss[i]) : i \in 1..k}}
<1>3. 0 \in S
  <2>1. Elems(<<>>) = {} /\ 1..0 = {}
    BY DEF Elems
  <2> QED
    BY <1>1, <2>1
<1>4. ASSUME NEW k \in Nat, k \in S PROVE k + 1 \in S
  <2> SUFFICES ASSUME k + 1 <= n
               PROVE  Elems(concat[k + 1]) = UNION {Elems(ss[i]) : i \in 1..k + 1}
    OBVIOUS
  <2>1. k + 1 \in 1..n /\ (k + 1) - 1 = k /\ k \in 0..n /\ k <= n
    BY <1>2
  <2>2. concat[k] \in Seq(Nat) /\ ss[k + 1] \in Seq(Nat) /\ concat[k + 1] = concat[k] \o ss[k + 1]
    BY <1>1, <1>2, <2>1
  <2>3. Elems(concat[k + 1]) = (UNION {Elems(ss[i]) : i \in 1..k}) \cup Elems(ss[k + 1])
    BY <1>4, <2>1, <2>2, ElemsConcat
  <2>4. 1..k + 1 = (1..k) \cup {k + 1}
    OBVIOUS
  <2> QED
    BY <2>3, <2>4
<1>5. Elems(concat[n]) = InSome(ss)
  <2>1. \A k \in Nat : k \in S
    <3> HIDE DEF S
    <3> QED
      BY <1>3, <1>4, Induction
  <2>2. n \in S
    <3> HIDE DEF S, n
    <3> QED
      BY <1>2, <2>1
  <2> QED
    BY <1>2, <2>2 DEF InSome
<1>6. concat[n] \in Seq(Nat)
  BY <1>1, <1>2
<1> QED
  BY <1>1, <1>5, <1>6, FinalizeFinalizes

=============================================================================
